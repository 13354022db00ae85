------------------------- MODULE ReplicationProofs --------------------------
(***************************************************************************)
(* All copies of a published space are the space after every publication,  *)
(* for any objects, values, subscribers and any number of edits, as long as*)
(* the application avoids the lapses.                                      *)
(*                                                                         *)
(* The argument: between two publications the space goes through a history *)
(* of graphs, H[0] the one last published, H[i] the one that the i-th      *)
(* pending change led to.  A follower has a copy of one of them: of H[0] if*)
(* it heard the last publication, of a later one if it joined since.  Its  *)
(* numbers agree with the publisher's for the services of that graph.  A   *)
(* publication says of each field of each object that was there all along  *)
(* the last change to it, and makes all the others anew, so that it takes a*)
(* copy of any graph of the history to a copy of the last one.             *)
(***************************************************************************)
EXTENDS ReplicationLemmas

-----------------------------------------------------------------------------
\* A copy: instances, and of each object below the root one that is alike.
Node == [members : Seq(Nat), val : Values, link : Nat \cup {Nil}]
HeapOK(h) == h \in Seq(Node) /\ \E rank, N : IsGraph(h, DOMAIN h, rank, N)
Copied(h, g, B, I) == I \in [B -> DOMAIN h] /\ \A o \in B : \A f \in Fields : h[I[o]][f] = ImageIn(I, f, g[o])

\* Both sides have the same numbers for the services of B.
Agrees(V, m, B, I) ==
  \A o \in B : \A p \in Ports :
    /\ <<o, p>> \in DOMAIN m.toId /\ m.toId[<<o, p>>] \in DOMAIN V.toService
    /\ V.toService[m.toId[<<o, p>>]] = <<I[o], p>>
    /\ <<I[o], p>> \in DOMAIN V.toId /\ V.toId[<<I[o], p>>] = m.toId[<<o, p>>]

FollowsBy(h, root, V, g, m, I) ==
  /\ Copied(h, g, Below(g), I) /\ I[Root] = root /\ Agrees(V, m, Below(g), I)
  /\ DOMAIN V.toService \subseteq 1..m.last /\ DOMAIN V.toId \subseteq Services(DOMAIN h)

\* The numbers of a subscriber, or those it will have when it gets a space.
NumbersOf(r) == IF r.ready THEN r.map ELSE InitWithIds(r.heap, r.root, r.ids)
Follows(r, g, m) == \E I : FollowsBy(r.heap, r.root, NumbersOf(r), g, m, I)

LEMMA FollowsSame ==
  ASSUME NEW r, NEW g, NEW h, NEW m, Follows(r, g, m), SameBelow(g, h)
  PROVE  Follows(r, h, m)
<1>1. PICK I : FollowsBy(r.heap, r.root, NumbersOf(r), g, m, I)
  BY DEF Follows
<1>2. Copied(r.heap, h, Below(h), I)
  BY <1>1 DEF FollowsBy, Copied, SameBelow
<1>3. Agrees(NumbersOf(r), m, Below(h), I)
  BY <1>1 DEF FollowsBy, SameBelow
<1> QED BY <1>1, <1>2, <1>3 DEF FollowsBy, Follows

\* New numbers at the publisher do not matter to who follows.
LEMMA FollowsExtends ==
  ASSUME NEW r, NEW g, NEW m, Follows(r, g, m), NEW k, Extends(m, k)
  PROVE  Follows(r, g, k)
<1>1. PICK I : FollowsBy(r.heap, r.root, NumbersOf(r), g, m, I)
  BY DEF Follows
<1>2. \A s \in DOMAIN m.toId : s \in DOMAIN k.toId /\ k.toId[s] = m.toId[s]
  BY DEF Extends
<1>3. Agrees(NumbersOf(r), k, Below(g), I)
  BY ZenonT(40), <1>1, <1>2 DEF FollowsBy, Agrees
<1>4. 1..m.last \subseteq 1..k.last
  BY DEF Extends
<1> QED BY <1>1, <1>3, <1>4 DEF FollowsBy, Follows

\* A copy refers to the copies of what the original refers to.
LEMMA CopiedAlike ==
  ASSUME NEW g, NEW B, NEW h, NEW I, Copied(h, g, B, I)
  PROVE  Alike(g, B, h, I) /\ SameVals(g, B, h, I)
<1>1. \A o \in B : /\ h[I[o]]["members"] = ImageIn(I, "members", g[o])
                   /\ h[I[o]]["link"] = ImageIn(I, "link", g[o])
                   /\ h[I[o]]["val"] = ImageIn(I, "val", g[o])
  BY DEF Copied, Fields
<1> QED BY <1>1 DEF Alike, SameVals, ImageIn

\* The walks over the space and over a copy that follows it.
Matched(ours, theirs, m, V) ==
  /\ Len(ours) = Len(theirs)
  /\ \A i \in DOMAIN ours : /\ GetId(m, ours[i]) = GetId(V, theirs[i])
                            /\ GetService(V, GetId(m, ours[i])) = theirs[i]

LEMMA FollowsWalk ==
  ASSUME NEW g, GraphOK(g), NEW h, HeapOK(h), NEW root, NEW V, NEW m, NEW I,
         FollowsBy(h, root, V, g, m, I)
  PROVE  View(h)[root] = View(g)[Root] /\ Matched(Walk(g)[Root], Walk(h)[root], m, V)
<1> DEFINE B == Below(g)
           ours == Walk(g)[Root]
           theirs == Walk(h)[root]
<1>1. PICK rank, N : IsGraph(h, DOMAIN h, rank, N)
  BY DEF HeapOK
<1>2. IsGraph(g, Objects, Depth, Len(Space))
  BY GraphIs
<1>3. B \in SUBSET Objects /\ Root \in B /\ (\A o \in B : Refs(g[o]) \subseteq B) /\ ours \in Seq(Services(B))
  BY BelowIs DEF BelowOK
<1>4. Copied(h, g, B, I) /\ I[Root] = root /\ Agrees(V, m, B, I) /\ I \in [B -> DOMAIN h]
  BY DEF FollowsBy, Copied
<1> HIDE DEF B
<1>5. Alike(g, B, h, I) /\ SameVals(g, B, h, I)
  BY <1>4, CopiedAlike
<1>6. View(h)[I[Root]] = View(g)[Root]
  <2>1. \A o \in B : View(h)[I[o]] = View(g)[o]
    <3>1. B \in SUBSET Objects /\ \A o \in B : Refs(g[o]) \subseteq B
      BY <1>3
    <3>2. I \in [B -> DOMAIN h]
      BY <1>4
    <3> QED BY <1>1, <1>2, <3>1, <3>2, <1>5, ViewIso
  <2> QED BY <2>1, <1>3
<1>7. Walk(h)[I[Root]] = Renamed(Walk(g)[Root], Image(B, I))
  BY <1>1, <1>2, <1>3, <1>4, <1>5, WalkIso
<1>8. theirs = Renamed(ours, Image(B, I))
  BY <1>4, <1>7
<1> HIDE DEF ours, theirs
<1>9. DOMAIN theirs = DOMAIN ours /\ \A i \in DOMAIN ours : theirs[i] = Image(B, I)[ours[i]]
  BY <1>8 DEF Renamed
<1>10. Len(ours) = Len(theirs)
  <2>1. DOMAIN ours = 1..Len(ours) /\ Len(ours) \in Nat
    BY <1>3
  <2>2. DOMAIN theirs = 1..Len(ours) /\ theirs = [i \in 1..Len(ours) |-> Image(B, I)[ours[i]]]
    BY <2>1, <1>8 DEF Renamed
  <2> QED BY <2>1, <2>2
<1>11. ASSUME NEW i \in DOMAIN ours
       PROVE  GetId(m, ours[i]) = GetId(V, theirs[i]) /\ GetService(V, GetId(m, ours[i])) = theirs[i]
  <2>1. ours[i] \in Services(B)
    BY <1>3
  <2>2. PICK o \in B, p \in Ports : ours[i] = <<o, p>>
    BY <2>1 DEF Services
  <2>3. theirs[i] = <<I[o], p>>
    <3>1. Image(B, I)[ours[i]] = <<I[ours[i][1]], ours[i][2]>>
      BY <2>1 DEF Image
    <3> QED BY <1>9, <2>2, <3>1
  <2> QED BY <2>2, <2>3, <1>4 DEF Agrees, GetId, HasId, GetService
<1> QED BY <1>4, <1>6, <1>10, <1>11 DEF Matched, ours, theirs

\* A subscriber with a copy, and any subscriber.
HasCopy(r) ==
  /\ r.root \in DOMAIN r.heap /\ HeapOK(r.heap)
  /\ \/ r.space = None /\ r.ready = FALSE /\ r.map = NoIds
     \/ r.space = r.root /\ r.ready = TRUE
  /\ \A n \in DOMAIN NumbersOf(r).toService : NumbersOf(r).toService[n] \in Services(DOMAIN r.heap)
NoCopy(r) == r.root = Nil /\ r.heap = <<>> /\ r.space \in {None, Nil} /\ r.ready = FALSE /\ r.map = NoIds
RepOK(r) == IsRep(r) /\ (NoCopy(r) \/ HasCopy(r))

\* The copies of the objects B of g: at I[o] that of o.
CopyOf(g, order, I) ==
  [i \in DOMAIN order |->
     [members |-> ImageIn(I, "members", g[order[i]]), val |-> ImageIn(I, "val", g[order[i]]),
      link |-> ImageIn(I, "link", g[order[i]])]]
Places(order, B, I) ==
  /\ order \in Seq(B) /\ I \in [B -> 1..Len(order)]
  /\ \A o \in B : order[I[o]] = o
  /\ \A i \in 1..Len(order) : I[order[i]] = i

LEMMA PlacesOf ==
  ASSUME NEW B, NEW order \in Seq(B), IsInjective(order), ToSet(order) = B
  PROVE  Places(order, B, [o \in B |-> CHOOSE i \in DOMAIN order : order[i] = o])
<1> DEFINE I == [o \in B |-> CHOOSE i \in DOMAIN order : order[i] = o]
<1>1. DOMAIN order = 1..Len(order)
  OBVIOUS
<1>2. \A o \in B : I[o] \in DOMAIN order /\ order[I[o]] = o
  <2> SUFFICES ASSUME NEW o \in B PROVE I[o] \in DOMAIN order /\ order[I[o]] = o
    OBVIOUS
  <2>1. \E i \in DOMAIN order : order[i] = o
    BY DEF ToSet
  <2> QED BY <2>1
<1>3. \A i \in DOMAIN order : order[i] \in B
  OBVIOUS
<1>4. DOMAIN I = B /\ I = [o \in B |-> I[o]]
  OBVIOUS
<1> HIDE DEF I
<1>5. \A i \in DOMAIN order : I[order[i]] = i
  BY <1>2, <1>3 DEF IsInjective
<1> QED BY <1>1, <1>2, <1>4, <1>5 DEF Places, I

\* Copies of all objects of a graph, one after the other, are a copy of it.
LEMMA CopyIs ==
  ASSUME NEW g, GraphOK(g), NEW B, BelowOK(g, B), NEW order, NEW I, Places(order, B, I)
  PROVE  /\ HeapOK(CopyOf(g, order, I)) /\ Copied(CopyOf(g, order, I), g, B, I)
         /\ DOMAIN CopyOf(g, order, I) = 1..Len(order) /\ I[Root] \in 1..Len(order)
<1> DEFINE h == CopyOf(g, order, I)
           len == Len(order)
           rank == [i \in 1..len |-> Depth[order[i]]]
<1>1. /\ len \in Nat /\ DOMAIN order = 1..len /\ I \in [B -> 1..len]
      /\ \A i \in 1..len : order[i] \in B
      /\ \A o \in B : I[o] \in 1..len /\ order[I[o]] = o
  BY DEF Places
<1>2. Root \in B /\ B \subseteq Objects /\ \A o \in B : Refs(g[o]) \subseteq B
  BY DEF BelowOK
<1>3. IsGraph(g, Objects, Depth, Len(Space)) /\ g \in [Objects -> Data]
  BY GraphIs DEF GraphOK
<1>4. \A o \in B : /\ g[o] \in Data /\ Depth[o] \in 0..Len(Space)
                   /\ \A x \in Refs(g[o]) : x \in B /\ Depth[x] < Depth[o]
  BY <1>2, <1>3 DEF IsGraph
<1>5. ASSUME NEW o \in B
      PROVE  /\ ImageIn(I, "members", g[o]) \in Seq(1..len)
             /\ ImageIn(I, "link", g[o]) \in 1..len \cup {Nil} /\ ImageIn(I, "val", g[o]) \in Values
             /\ \A x \in ToSet(ImageIn(I, "members", g[o])) \cup ({ImageIn(I, "link", g[o])} \ {Nil}) :
                  \E y \in Refs(g[o]) : x = I[y]
  <2>1. g[o].members \in Seq(Objects) /\ g[o].val \in Values
    BY <1>4 DEF Data
  <2>2. \A j \in DOMAIN g[o].members : g[o].members[j] \in Refs(g[o])
    BY DEF Refs, ToSet
  <2>3. g[o].link # Nil => g[o].link \in Refs(g[o])
    BY DEF Refs
  <2>4. \A x \in Refs(g[o]) : x \in B /\ I[x] \in 1..len
    BY <1>1, <1>4
  <2>5. ImageIn(I, "members", g[o]) = [j \in DOMAIN g[o].members |-> I[g[o].members[j]]]
    BY DEF ImageIn
  <2>6. ImageIn(I, "link", g[o]) = IF g[o].link = Nil THEN Nil ELSE I[g[o].link]
    BY DEF ImageIn
  <2>7. ImageIn(I, "members", g[o]) \in Seq(1..len)
    <3>1. DOMAIN g[o].members = 1..Len(g[o].members) /\ Len(g[o].members) \in Nat
      BY <2>1
    <3> QED BY <2>2, <2>4, <2>5, <3>1
  <2>8. \A x \in ToSet(ImageIn(I, "members", g[o])) : \E y \in Refs(g[o]) : x = I[y]
    BY <2>2, <2>5 DEF ToSet
  <2>9. \A x \in {ImageIn(I, "link", g[o])} \ {Nil} : \E y \in Refs(g[o]) : x = I[y]
    BY <2>3, <2>6
  <2>10. ImageIn(I, "val", g[o]) \in Values
    BY <2>1 DEF ImageIn
  <2>11. ImageIn(I, "link", g[o]) \in 1..len \cup {Nil}
    BY <2>3, <2>4, <2>6
  <2> QED BY <2>7, <2>8, <2>9, <2>10, <2>11
<1>6. \A i \in 1..len : h[i] = [members |-> ImageIn(I, "members", g[order[i]]), val |-> ImageIn(I, "val", g[order[i]]),
                                link |-> ImageIn(I, "link", g[order[i]])]
  BY <1>1 DEF CopyOf
<1>a. \A i \in 1..len : /\ order[i] \in B /\ h[i].members = ImageIn(I, "members", g[order[i]])
                        /\ h[i].link = ImageIn(I, "link", g[order[i]]) /\ h[i].val = ImageIn(I, "val", g[order[i]])
                        /\ h[i] = [members |-> h[i].members, val |-> h[i].val, link |-> h[i].link]
  <2> SUFFICES ASSUME NEW i \in 1..len
               PROVE  /\ order[i] \in B /\ h[i].members = ImageIn(I, "members", g[order[i]])
                      /\ h[i].link = ImageIn(I, "link", g[order[i]]) /\ h[i].val = ImageIn(I, "val", g[order[i]])
                      /\ h[i] = [members |-> h[i].members, val |-> h[i].val, link |-> h[i].link]
    OBVIOUS
  <2> DEFINE a == ImageIn(I, "members", g[order[i]])
             b == ImageIn(I, "link", g[order[i]])
             c == ImageIn(I, "val", g[order[i]])
  <2>1. order[i] \in B
    BY <1>1
  <2>2. h[i] = [members |-> a, val |-> c, link |-> b]
    BY <1>6
  <2> HIDE DEF h, a, b, c
  <2>3. h[i].members = a /\ h[i].link = b /\ h[i].val = c
    BY <2>2
  <2> QED BY <2>1, <2>2, <2>3 DEF a, b, c
<1>b. \A o \in B : /\ ImageIn(I, "members", g[o]) \in Seq(1..len)
                   /\ ImageIn(I, "link", g[o]) \in 1..len \cup {Nil} /\ ImageIn(I, "val", g[o]) \in Values
  BY <1>5
<1>7. DOMAIN h = 1..len /\ h = [i \in 1..len |-> h[i]]
  BY <1>1 DEF CopyOf
<1> HIDE DEF h, len
<1>c. \A i \in 1..len : /\ h[i].members \in Seq(1..len) /\ h[i].link \in 1..len \cup {Nil} /\ h[i].val \in Values
                        /\ h[i] = [members |-> h[i].members, val |-> h[i].val, link |-> h[i].link]
  BY <1>a, <1>b
<1>d. \A o \in B : I[o] \in 1..len /\ order[I[o]] = o
  BY <1>1
<1>8. h \in Seq(Node)
  <2>1. ASSUME NEW i \in 1..len PROVE h[i] \in Node
    <3>1. 1..len \subseteq Nat
      BY <1>1
    <3>2. h[i].members \in Seq(Nat)
      <4> DEFINE E == 1..len
      <4>0. h[i].members \in Seq(E)
        BY <1>c
      <4>1. E \subseteq Nat
        BY <3>1
      <4> HIDE DEF E
      <4>2. ToSet(h[i].members) \subseteq E
        BY <4>0 DEF ToSet
      <4>3. ToSet(h[i].members) \subseteq Nat
        BY <4>1, <4>2
      <4> QED BY <4>0, <4>3, SeqOver
    <3>3. h[i].link \in Nat \cup {Nil} /\ h[i].val \in Values
      BY <1>c, <3>1
    <3>4. h[i] = [members |-> h[i].members, val |-> h[i].val, link |-> h[i].link]
      BY <1>c
    <3> QED BY <3>2, <3>3, <3>4 DEF Node
  <2> QED BY <2>1, <1>1, <1>7
<1>9. IsGraph(h, DOMAIN h, rank, Len(Space))
  <2>1. Nil \notin 1..len
    BY <1>1, ReplicationAssumption
  <2>2. rank \in [1..len -> 0..Len(Space)]
    BY <1>1, <1>4
  <2>3. \A i \in 1..len : h[i].members \in Seq(1..len) /\ h[i].link \in 1..len \cup {Nil}
    BY <1>c
  <2>4. ASSUME NEW i \in 1..len, NEW x \in Refs(h[i]) PROVE rank[x] < rank[i]
    <3>1. order[i] \in B /\ x \in ToSet(ImageIn(I, "members", g[order[i]])) \cup ({ImageIn(I, "link", g[order[i]])} \ {Nil})
      BY <1>a, <2>4 DEF Refs
    <3>2. PICK y \in Refs(g[order[i]]) : x = I[y]
      BY <3>1, <1>5
    <3>3. y \in B /\ Depth[y] < Depth[order[i]] /\ x \in 1..len /\ order[x] = y
      BY <3>1, <3>2, <1>1, <1>4
    <3> QED BY <3>3
  <2>5. Len(Space) \in Nat
    BY <1>3 DEF IsGraph
  <2> HIDE DEF rank
  <2> QED BY <1>7, <2>1, <2>2, <2>3, <2>4, <2>5 DEF IsGraph
<1>10. Copied(h, g, B, I)
  <2>1. I \in [B -> DOMAIN h]
    BY <1>1, <1>7
  <2>2. \A o \in B : \A f \in Fields : h[I[o]][f] = ImageIn(I, f, g[o])
    <3> SUFFICES ASSUME NEW o \in B, NEW f \in Fields PROVE h[I[o]][f] = ImageIn(I, f, g[o])
      OBVIOUS
    <3>1. I[o] \in 1..len /\ order[I[o]] = o
      BY <1>d
    <3>2. /\ h[I[o]].members = ImageIn(I, "members", g[o]) /\ h[I[o]].link = ImageIn(I, "link", g[o])
          /\ h[I[o]].val = ImageIn(I, "val", g[o])
      BY <1>a, <3>1
    <3> QED BY <3>2 DEF Fields
  <2> QED BY <2>1, <2>2 DEF Copied
<1> HIDE DEF rank
<1>11. HeapOK(h)
  BY <1>8, <1>9 DEF HeapOK
<1>12. I[Root] \in 1..len
  BY <1>1, <1>2
<1> QED BY <1>7, <1>10, <1>11, <1>12 DEF h, len

OneToOne(w, n, F) == \A i, j \in 1..n : F[w[i]] = F[w[j]] => w[i] = w[j]
GivenTo(V, w, n, F, num) ==
  /\ DOMAIN V.toId = {F[w[i]] : i \in 1..n} /\ DOMAIN V.toService = {num[w[i]] : i \in 1..n}
  /\ \A i \in 1..n : V.toId[F[w[i]]] = num[w[i]] /\ V.toService[num[w[i]]] = F[w[i]]

\* A subscriber that walks its copy with the list of numbers gives each service its own.
LEMMA GivenAre ==
  ASSUME NEW h, NEW E, NEW rank, NEW N, IsGraph(h, E, rank, N), NEW root \in E,
         NEW w, NEW n \in Nat, DOMAIN w = 1..n, NEW F, Walk(h)[root] = Renamed(w, F),
         NEW num, NEW L, NEW c, Lists(w, n, num, L, c), OneToOne(w, n, F), OneToOne(w, n, num)
  PROVE  GivenTo(InitWithIds(h, root, L), w, n, F, num)
<1> DEFINE k == InitWithIds(h, root, L)
<1>1. /\ DOMAIN k.toId = {F[w[i]] : i \in 1..n} /\ DOMAIN k.toService = {num[w[i]] : i \in 1..n}
      /\ \A i \in 1..n : k.toId[F[w[i]]] = num[w[i]] /\ k.toService[num[w[i]]] = F[w[i]]
  BY SMTT(30), GivenIs DEF OneToOne
<1> QED BY <1>1 DEF GivenTo

\* The numbers that a copy gets from the ordered ones of a graph.
LEMMA PairedIs ==
  ASSUME NEW g, GraphOK(g), NEW B, BelowOK(g, B), NEW h, HeapOK(h), NEW I, Copied(h, g, B, I),
         Apart(I, B), NEW k, IdsOK(k), Services(B) \subseteq DOMAIN k.toId, NEW L, NEW c,
         Lists(Walk(g)[Root], Len(Walk(g)[Root]), k.toId, L, c)
  PROVE  LET V == InitWithIds(h, I[Root], L) IN
         /\ Agrees(V, k, B, I) /\ DOMAIN V.toService \subseteq 1..k.last
         /\ DOMAIN V.toId \subseteq Services(DOMAIN h)
         /\ \A n \in DOMAIN V.toService : V.toService[n] \in Services(DOMAIN h)
<1> DEFINE w == Walk(g)[Root]
           n == Len(w)
           F == Image(B, I)
           num == k.toId
           V == InitWithIds(h, I[Root], L)
<1>1. PICK rank, N : IsGraph(h, DOMAIN h, rank, N)
  BY DEF HeapOK
<1>2. IsGraph(g, Objects, Depth, Len(Space))
  BY GraphIs
<1>3. B \in SUBSET Objects /\ Root \in B /\ \A o \in B : Refs(g[o]) \subseteq B
  BY DEF BelowOK
<1>4. w \in Seq(Services(B)) /\ ToSet(w) = Services(B) /\ n \in Nat /\ DOMAIN w = 1..n
  <2>1. w \in Seq(Services(B)) /\ ToSet(w) = Services(B)
    BY DEF BelowOK
  <2> HIDE DEF w
  <2> QED BY <2>1
<1>5. I \in [B -> DOMAIN h]
  BY DEF Copied
<1>6. Alike(g, B, h, I)
  BY CopiedAlike
<1>7. Walk(h)[I[Root]] = Renamed(w, F)
  <2>1. \A o \in B : Walk(h)[I[o]] = Renamed(Walk(g)[o], Image(B, I))
    BY <1>1, <1>2, <1>3, <1>5, <1>6, WalkIso
  <2> QED BY <2>1, <1>3
<1>8. \A s \in Services(B) : F[s] = <<I[s[1]], s[2]>> /\ F[s] \in Services(DOMAIN h)
  BY <1>5 DEF Image, Services
<1>9. \A s, t \in Services(B) : F[s] = F[t] => s = t
  <2> SUFFICES ASSUME NEW s \in Services(B), NEW t \in Services(B), F[s] = F[t] PROVE s = t
    OBVIOUS
  <2>1. s = <<s[1], s[2]>> /\ t = <<t[1], t[2]>> /\ s[1] \in B /\ t[1] \in B
    BY DEF Services
  <2>2. I[s[1]] = I[t[1]] /\ s[2] = t[2]
    BY <1>8
  <2> QED BY <2>1, <2>2 DEF Apart
<1>10. /\ \A s \in Services(B) : s \in DOMAIN num /\ num[s] \in 1..k.last
       /\ \A s, t \in Services(B) : num[s] = num[t] => s = t
  <2>1. MapOK(k, Services(Objects))
    BY DEF IdsOK
  <2>2. /\ \A s \in DOMAIN k.toId : k.toId[s] \in 1..k.last
        /\ \A s, t \in DOMAIN k.toId : k.toId[s] = k.toId[t] => s = t
    BY <2>1, MapNumbers
  <2> QED BY <2>1, <2>2
<1>11. I[Root] \in DOMAIN h
  BY <1>3, <1>5
<1>12. \A i \in 1..n : w[i] \in Services(B)
  BY <1>4
<1>13. OneToOne(w, n, F) /\ OneToOne(w, n, num)
  <2> HIDE DEF F, num, w, n
  <2> QED BY <1>9, <1>10, <1>12 DEF OneToOne
<1>l. Lists(w, n, num, L, c)
  OBVIOUS
<1> HIDE DEF F, num, w, n
<1>14. /\ DOMAIN V.toId = {F[w[i]] : i \in 1..n} /\ DOMAIN V.toService = {num[w[i]] : i \in 1..n}
       /\ \A i \in 1..n : V.toId[F[w[i]]] = num[w[i]] /\ V.toService[num[w[i]]] = F[w[i]]
  <2>1. GivenTo(V, w, n, F, num)
    BY <1>1, <1>4, <1>7, <1>11, <1>13, <1>l, GivenAre
  <2> HIDE DEF V
  <2> QED BY <2>1 DEF GivenTo
<1> HIDE DEF V
<1>15. Agrees(V, k, B, I)
  <2> SUFFICES ASSUME NEW o \in B, NEW p \in Ports
               PROVE  /\ <<o, p>> \in DOMAIN k.toId /\ k.toId[<<o, p>>] \in DOMAIN V.toService
                      /\ V.toService[k.toId[<<o, p>>]] = <<I[o], p>>
                      /\ <<I[o], p>> \in DOMAIN V.toId /\ V.toId[<<I[o], p>>] = k.toId[<<o, p>>]
    BY DEF Agrees
  <2>1. <<o, p>> \in Services(B)
    BY DEF Services
  <2>2. PICK i \in 1..n : w[i] = <<o, p>>
    BY <2>1, <1>4 DEF ToSet
  <2>3. F[w[i]] = <<I[o], p>>
    BY <2>1, <2>2, <1>8
  <2>4. F[w[i]] \in DOMAIN V.toId /\ num[w[i]] \in DOMAIN V.toService
    BY <1>14
  <2>5. V.toId[F[w[i]]] = num[w[i]] /\ V.toService[num[w[i]]] = F[w[i]]
    BY <1>14
  <2>6. <<o, p>> \in DOMAIN num
    BY <2>1, <1>10
  <2> QED BY <2>2, <2>3, <2>4, <2>5, <2>6 DEF num
<1>16. DOMAIN V.toService \subseteq 1..k.last
  BY <1>10, <1>12, <1>14
<1>17. DOMAIN V.toId \subseteq Services(DOMAIN h)
  BY <1>8, <1>12, <1>14
<1>18. \A i \in DOMAIN V.toService : V.toService[i] \in Services(DOMAIN h)
  BY <1>8, <1>12, <1>14
<1> QED BY <1>15, <1>16, <1>17, <1>18 DEF V

\* The numbers k are m and those of the objects B.
Numbering(m, k, B) == IdsOK(k) /\ Extends(m, k) /\ DOMAIN k.toId = DOMAIN m.toId \cup Services(B)

LEMMA MoreIds ==
  ASSUME NEW m, NEW k, IdsOK(m), MapOK(k, Services(Objects)), NEW B,
         DOMAIN k.toId = DOMAIN m.toId \cup Services(B)
  PROVE  IdsOK(k)
<1>1. ASSUME NEW s \in Services(B) PROVE Self(s[1]) \in Services(B)
  BY <1>1 DEF Services, Self, Ports
<1> QED BY <1>1 DEF IdsOK

\* The list that getOrderedIds makes has the numbers in the order of the walk.
LEMMA OrderedGives ==
  ASSUME NEW g, GraphOK(g), NEW m, IdsOK(m)
  PROVE  LET k == GetOrderedIds(m, g, Root).map IN
         /\ Numbering(m, k, Below(g))
         /\ \E c : Lists(Walk(g)[Root], Len(Walk(g)[Root]), k.toId, GetOrderedIds(m, g, Root).ids, c)
<1> DEFINE k == GetOrderedIds(m, g, Root).map
           L == GetOrderedIds(m, g, Root).ids
           w == Walk(g)[Root]
           V == Services(Objects)
<1>1. IsGraph(g, Objects, Depth, Len(Space)) /\ Root \in Objects
  BY GraphIs
<1>2. MapOK(m, V) /\ Services(Objects) \subseteq V
  BY DEF IdsOK
<1>3. Below(g) = Reach(g, Root)
  BY BelowIs DEF BelowOK
<1> HIDE DEF V
<1>4. /\ MapOK(k, V) /\ Extends(m, k)
      /\ DOMAIN k.toId = DOMAIN m.toId \cup Services(Reach(g, Root))
      /\ \E c : Lists(w, Len(w), k.toId, L, c)
  BY <1>1, <1>2, OrderedIs
<1> HIDE DEF k, L, w
<1>5. IdsOK(k)
  BY <1>4, MoreIds DEF V
<1> QED BY <1>3, <1>4, <1>5 DEF Numbering, k, L, w

\* A space published anew has numbers for what is below its root.
LEMMA InitIdsIs ==
  ASSUME NEW g, GraphOK(g)
  PROVE  IdsOK(InitIds(g, Root)) /\ DOMAIN InitIds(g, Root).toId = Services(Below(g))
<1> DEFINE k == ObjectId(NoIds, g, Root)
           V == Services(Objects)
<1>1. IsGraph(g, Objects, Depth, Len(Space)) /\ Root \in Objects
  BY GraphIs
<1>2. MapOK(NoIds, V) /\ Services(Objects) \subseteq V /\ DOMAIN NoIds.toId = {} /\ IdsOK(NoIds)
  BY DEF NoIds, MapOK, IdsOK
<1>3. Below(g) = Reach(g, Root)
  BY BelowIs DEF BelowOK
<1> HIDE DEF V
<1>4. MapOK(k, V) /\ DOMAIN k.toId = DOMAIN NoIds.toId \cup Services(Reach(g, Root))
  BY <1>1, <1>2, ObjectIdIs
<1> HIDE DEF k
<1>5. IdsOK(k)
  BY <1>2, <1>4, MoreIds DEF V
<1> QED BY <1>2, <1>3, <1>4, <1>5 DEF InitIds, k

Rec(a, b, c, d, e, f) == [heap |-> a, root |-> b, space |-> c, ids |-> d, map |-> e, ready |-> f]

\* A subscriber whose copy follows g, under the numbers k.
Joined(q, g, k) == RepOK(q) /\ HasCopy(q) /\ Follows(q, g, k)

LEMMA JoinIs ==
  ASSUME NEW g, GraphOK(g), NEW m, IdsOK(m), NEW r, IsRep(r), NoCopy(r)
  PROVE  Joined(OnSubscribed(r, g, GetOrderedIds(m, g, Root).ids), g, GetOrderedIds(m, g, Root).map)
<1> DEFINE k == GetOrderedIds(m, g, Root).map
           L == GetOrderedIds(m, g, Root).ids
           B == Below(g)
           order == Met(g, Root)
           I == [o \in B |-> CHOOSE i \in DOMAIN order : order[i] = o]
           h == CopyOf(g, order, I)
           q == OnSubscribed(r, g, L)
           V == InitWithIds(h, I[Root], L)
           full == [heap |-> h, root |-> I[Root], space |-> I[Root], ids |-> L, map |-> V, ready |-> TRUE]
           spaceless == [heap |-> h, root |-> I[Root], space |-> None, ids |-> L, map |-> r.map, ready |-> FALSE]
<1>1. Numbering(m, k, B) /\ \E c : Lists(Walk(g)[Root], Len(Walk(g)[Root]), k.toId, L, c)
  BY OrderedGives
<1>2. BelowOK(g, B)
  BY BelowIs
<1>3. Places(order, B, I)
  <2>1. order \in Seq(B) /\ IsInjective(order) /\ ToSet(order) = B
    BY <1>2 DEF BelowOK
  <2> HIDE DEF order, B
  <2> QED BY <2>1, PlacesOf
<1>4. q = IF r.space = None THEN spaceless ELSE full
  <2> DEFINE at(o) == IF o = Nil THEN Nil
                      ELSE Len(r.heap) + (CHOOSE i \in DOMAIN order : order[i] = o)
             copy == [i \in DOMAIN order |->
                        [members |-> [j \in DOMAIN g[order[i]].members |-> at(g[order[i]].members[j])],
                         val |-> g[order[i]].val, link |-> at(g[order[i]].link)]]
             full0 == [r EXCEPT !.heap = @ \o copy, !.root = at(Root), !.ids = L]
  <2>1. q = InitializeIds(full0)
    BY DEF OnSubscribed
  <2>2. /\ Root \in B /\ B \subseteq Objects /\ \A o \in B : Refs(g[o]) \subseteq B
        /\ order \in Seq(B)
    BY <1>2 DEF BelowOK
  <2>3. r.heap = <<>> /\ r.root = Nil /\ r.space \in {None, Nil} /\ r.ready = FALSE
    BY DEF NoCopy
  <2>4. Len(r.heap) = 0
    BY <2>3
  <2>5. Nil \notin Objects /\ Nil \notin Nat /\ None \notin Nat /\ None # Nil
    BY ReplicationAssumption
  <2>6. \A o \in B : I[o] \in Nat /\ I[o] = CHOOSE i \in DOMAIN order : order[i] = o
    BY <1>3 DEF Places
  <2>7. \A o \in B : at(o) = I[o]
    <3> SUFFICES ASSUME NEW o \in B PROVE at(o) = I[o]
      OBVIOUS
    <3> DEFINE c == CHOOSE i \in DOMAIN order : order[i] = o
    <3>1. I[o] = c /\ c \in Nat /\ o # Nil
      BY <2>2, <2>5, <2>6
    <3> HIDE DEF c, I
    <3> QED BY <3>1, <2>4 DEF c
  <2>8. copy = h
    <3>1. ASSUME NEW i \in DOMAIN order
          PROVE  /\ [j \in DOMAIN g[order[i]].members |-> at(g[order[i]].members[j])] = ImageIn(I, "members", g[order[i]])
                 /\ g[order[i]].val = ImageIn(I, "val", g[order[i]])
                 /\ at(g[order[i]].link) = ImageIn(I, "link", g[order[i]])
      <4>1. order[i] \in B
        BY <2>2
      <4>2. \A j \in DOMAIN g[order[i]].members : g[order[i]].members[j] \in B
        BY <4>1, <2>2 DEF Refs, ToSet
      <4>3. g[order[i]].link # Nil => g[order[i]].link \in B
        BY <4>1, <2>2 DEF Refs
      <4>4. at(Nil) = Nil
        OBVIOUS
      <4> HIDE DEF at, I
      <4> QED BY <4>2, <4>3, <4>4, <2>7 DEF ImageIn
    <3> HIDE DEF at, I
    <3> QED BY <3>1 DEF CopyOf
  <2>9. at(Root) = I[Root] /\ I[Root] \in Nat
    BY <2>2, <2>6, <2>7
  <2> HIDE DEF copy, at, I
  <2>10. h \in Seq(Node)
    BY <1>2, <1>3, CopyIs DEF HeapOK
  <2>11. <<>> \o h = h
    <3> HIDE DEF h
    <3> QED BY <2>10
  <2> HIDE DEF h
  <2>12. full0 = [heap |-> h, root |-> I[Root], space |-> r.space, ids |-> L, map |-> r.map, ready |-> FALSE]
    <3>1. r = [heap |-> <<>>, root |-> Nil, space |-> r.space, ids |-> r.ids, map |-> r.map, ready |-> FALSE]
      BY <2>3 DEF IsRep, NoCopy
    <3>2. r.heap \o copy = h
      BY <2>3, <2>8, <2>11
    <3>3. full0 = [r EXCEPT !.heap = h, !.root = I[Root], !.ids = L]
      BY <2>9, <3>2
    <3> HIDE DEF full0
    <3> HIDE DEF L
    <3> DEFINE sp == r.space
               mp == r.map
               old == r.ids
               no == FALSE
    <3>4. r = Rec(<<>>, Nil, sp, old, mp, no)
      BY <3>1 DEF Rec
    <3> HIDE DEF sp, mp, old, no
    <3>5. full0 = [heap |-> h, root |-> I[Root], space |-> sp, ids |-> L, map |-> mp, ready |-> no]
      <4>1. [r EXCEPT !.heap = h] = Rec(h, Nil, sp, old, mp, no)
        BY <3>4 DEF Rec
      <4>2. [Rec(h, Nil, sp, old, mp, no) EXCEPT !.root = I[Root]] = Rec(h, I[Root], sp, old, mp, no)
        BY DEF Rec
      <4>3. [Rec(h, I[Root], sp, old, mp, no) EXCEPT !.ids = L] = Rec(h, I[Root], sp, L, mp, no)
        BY DEF Rec
      <4> QED BY <3>3, <4>1, <4>2, <4>3 DEF Rec
    <3> QED BY <3>5 DEF sp, mp, no
  <2> HIDE DEF full0, q
  <2>13. CASE r.space = None
    <3>1. full0 = spaceless /\ spaceless.space # Nil /\ spaceless.space # spaceless.root
      BY <2>12, <2>13, <2>5, <2>9
    <3>2. [spaceless EXCEPT !.space = spaceless.space] = spaceless
      OBVIOUS
    <3> HIDE DEF spaceless
    <3> QED BY <2>1, <2>13, <3>1, <3>2 DEF InitializeIds
  <2>14. CASE r.space # None
    <3> DEFINE e == [heap |-> h, root |-> I[Root], space |-> Nil, ids |-> L, map |-> r.map, ready |-> FALSE]
    <3>1. full0 = e
      BY <2>3, <2>12, <2>14
    <3>2. e.space = Nil /\ e.root = I[Root] /\ e.root # Nil /\ e.heap = h /\ e.ids = L
      BY <2>5, <2>9
    <3>3. [e EXCEPT !.space = I[Root], !.ready = TRUE, !.map = V] = full
      <4> HIDE DEF L, V
      <4> DEFINE no == FALSE
                 yes == TRUE
                 e0 == Rec(h, I[Root], Nil, L, r.map, no)
                 e1 == Rec(h, I[Root], I[Root], L, r.map, no)
                 e2 == Rec(h, I[Root], I[Root], L, r.map, yes)
      <4>1. e = e0
        BY DEF Rec
      <4>5. full = Rec(h, I[Root], I[Root], L, V, yes)
        BY DEF Rec
      <4> HIDE DEF no, yes, e, full, L, V
      <4>2. [e0 EXCEPT !.space = I[Root]] = e1
        BY DEF Rec
      <4>3. [e1 EXCEPT !.ready = yes] = e2
        BY DEF Rec
      <4>4. [e2 EXCEPT !.map = V] = Rec(h, I[Root], I[Root], L, V, yes)
        BY DEF Rec
      <4> HIDE DEF e0, e1, e2
      <4> QED BY <4>1, <4>2, <4>3, <4>4, <4>5 DEF yes
    <3> HIDE DEF e, full
    <3> QED BY <2>1, <2>14, <3>1, <3>2, <3>3 DEF InitializeIds
  <2> QED BY <2>13, <2>14
<1> HIDE DEF I, order
<1>5. HeapOK(h) /\ Copied(h, g, B, I) /\ DOMAIN h = 1..Len(order) /\ I[Root] \in DOMAIN h
  BY <1>2, <1>3, CopyIs
<1>6. Apart(I, B)
  BY <1>3 DEF Places, Apart
<1>7. IdsOK(k) /\ Services(B) \subseteq DOMAIN k.toId
  BY <1>1 DEF Numbering
<1> HIDE DEF B, h
<1>8. /\ Agrees(V, k, B, I) /\ DOMAIN V.toService \subseteq 1..k.last
      /\ DOMAIN V.toId \subseteq Services(DOMAIN h)
      /\ \A n \in DOMAIN V.toService : V.toService[n] \in Services(DOMAIN h)
  <2> HIDE DEF k, L
  <2> QED BY <1>1, <1>2, <1>5, <1>6, <1>7, PairedIs
<1> HIDE DEF V
<1>9. FollowsBy(h, I[Root], V, g, k, I)
  BY <1>5, <1>8 DEF FollowsBy, B
<1> HIDE DEF q
<1>10. q.heap = h /\ q.root = I[Root] /\ NumbersOf(q) = V /\ IsRep(q)
  <2>1. CASE r.space = None
    <3>1. q.heap = h /\ q.root = I[Root] /\ q.ids = L /\ q.ready = FALSE
      BY <1>4, <2>1
    <3>2. NumbersOf(q) = V
      BY <3>1 DEF NumbersOf, V
    <3> QED BY <1>4, <2>1, <3>1, <3>2 DEF IsRep
  <2>2. CASE r.space # None
    BY <1>4, <2>2 DEF NumbersOf, IsRep
  <2> QED BY <2>1, <2>2
<1>11. \/ q.space = None /\ q.ready = FALSE /\ q.map = NoIds
       \/ q.space = q.root /\ q.ready = TRUE
  <2>1. r.map = NoIds
    BY DEF NoCopy
  <2> QED BY <2>1, <1>4
<1>12. HasCopy(q)
  BY <1>5, <1>8, <1>10, <1>11 DEF HasCopy
<1>13. Follows(q, g, k)
  BY <1>9, <1>10 DEF Follows
<1> QED BY <1>10, <1>12, <1>13 DEF Joined, RepOK, q

-----------------------------------------------------------------------------
\* What the changes that are pending say of what was.
LEMMA UpFrom ==
  ASSUME NEW n \in Nat, NEW i \in 0..n, NEW S, i \in S, \A j \in (i + 1)..n : j - 1 \in S => j \in S
  PROVE  i..n \subseteq S
<1> DEFINE T == {j \in 0..n : j < i \/ j \in S}
<1>1. 0 \in T
  OBVIOUS
<1>2. ASSUME NEW j \in 1..n, j - 1 \in T PROVE j \in T
  BY <1>2
<1>3. 0..n \subseteq T
  <2> HIDE DEF T
  <2> QED BY <1>1, <1>2, UpTo
<1> QED BY <1>3

\* The graphs between which the pending changes were made.
LEMMA HistoryIs ==
  ASSUME NEW H, NEW p, NEW g, History(H, p, g)
  PROVE  /\ Len(p) \in Nat /\ DOMAIN p = 1..Len(p) /\ H[Len(p)] = g
         /\ \A i \in 0..Len(p) : GraphOK(H[i])
         /\ \A i \in 1..Len(p) : Differs(H[i - 1], H[i], p[i]) /\ p[i] \in ChangeSet
BY DEF History

\* Nothing was added: what is below now was below before.
LEMMA NoneAdded ==
  ASSUME NEW H, NEW p, NEW g, History(H, p, g), NEW b \in 0..Len(p),
         \A k \in 1..b : p[k].added = {}, NEW o, o \in Below(H[b])
  PROVE  \A i \in 0..b : o \in Below(H[i])
<1> DEFINE n == Len(p)
           T == {i \in 0..b : o \in Below(H[b - i])}
<1>1. n \in Nat /\ \A i \in 1..n : Differs(H[i - 1], H[i], p[i])
  BY HistoryIs
<1>2. 0 \in T /\ b \in Nat
  BY <1>1
<1>3. ASSUME NEW i \in 1..b, i - 1 \in T PROVE i \in T
  <2> DEFINE j == b - (i - 1)
  <2>1. j \in 1..n /\ j \in 1..b /\ j - 1 = b - i
    BY <1>1
  <2> HIDE DEF j
  <2>2. Differs(H[j - 1], H[j], p[j]) /\ p[j].added = {}
    BY <1>1, <2>1
  <2>3. o \in Below(H[j])
    BY <1>3 DEF j
  <2>4. o \in Below(H[j - 1])
    BY <2>2, <2>3 DEF Differs
  <2> QED BY <2>1, <2>4
<1>4. 0..b \subseteq T
  <2> HIDE DEF T
  <2> QED BY <1>2, <1>3, UpTo
<1>5. ASSUME NEW i \in 0..b PROVE o \in Below(H[i])
  <2>1. b - i \in 0..b /\ b - (b - i) = i
    BY <1>2
  <2>2. b - i \in T
    <3> HIDE DEF T
    <3> QED BY <2>1, <1>4
  <2> QED BY <2>1, <2>2
<1> QED BY <1>5

\* What is not removed stays below.
LEMMA NotRemoved ==
  ASSUME NEW H, NEW p, NEW g, History(H, p, g), NEW i \in 0..Len(p),
         NEW o, o \in Below(H[i]), \A k \in (i + 1)..Len(p) : o \notin p[k].removed
  PROVE  \A j \in i..Len(p) : o \in Below(H[j])
<1> DEFINE n == Len(p)
           S == {j \in i..n : o \in Below(H[j])}
<1>1. n \in Nat /\ \A j \in 1..n : Differs(H[j - 1], H[j], p[j])
  BY HistoryIs
<1>2. i \in S
  BY <1>1
<1>3. ASSUME NEW j \in (i + 1)..n, j - 1 \in S PROVE j \in S
  <2>1. j \in 1..n /\ o \in Below(H[j - 1]) /\ j \in i..n
    BY <1>1, <1>3
  <2>2. Differs(H[j - 1], H[j], p[j]) /\ o \notin p[j].removed
    BY <1>1, <2>1
  <2> QED BY <2>1, <2>2 DEF Differs
<1>4. i..n \subseteq S
  <2> HIDE DEF S, n
  <2> QED BY <1>1, <1>2, <1>3, UpFrom DEF n
<1> QED BY <1>4

\* A field that differs was changed in between.
ChangedIn(p, i, n, x) == \E j \in (i + 1)..n : \E q \in DOMAIN p[j].changed : Hit(p[j].changed[q], x)

LEMMA FieldChanged ==
  ASSUME NEW H, NEW p, NEW g, History(H, p, g), NEW i \in 0..Len(p),
         NEW o, \A j \in i..Len(p) : o \in Below(H[j]), NEW f \in Fields
  PROVE  \/ \A j \in i..Len(p) : H[j][o][f] = g[o][f]
         \/ ChangedIn(p, i, Len(p), <<o, f>>)
<1> DEFINE n == Len(p)
           x == <<o, f>>
           S == {j \in i..n : H[j][o][f] = H[i][o][f]}
<1>1. n \in Nat /\ H[n] = g /\ \A j \in 1..n : Differs(H[j - 1], H[j], p[j])
  BY HistoryIs
<1> SUFFICES ASSUME ~ChangedIn(p, i, n, x) PROVE \A j \in i..n : H[j][o][f] = g[o][f]
  OBVIOUS
<1>2. i \in S
  BY <1>1
<1>3. ASSUME NEW j \in (i + 1)..n, j - 1 \in S PROVE j \in S
  <2>1. j \in 1..n /\ j \in i..n /\ j - 1 \in i..n /\ H[j - 1][o][f] = H[i][o][f]
    BY <1>1, <1>3
  <2>2. o \in Below(H[j - 1]) /\ o \in Below(H[j])
    BY <2>1
  <2>3. Differs(H[j - 1], H[j], p[j])
    BY <1>1, <2>1
  <2>4. CASE H[j][o][f] # H[j - 1][o][f]
    <3>1. PICK q \in DOMAIN p[j].changed : p[j].changed[q].object = o
      <4> DEFINE K == p[j].changed
      <4>1. {K[q].object : q \in DOMAIN K} = {y \in Below(H[j - 1]) \cap Below(H[j]) : H[j - 1][y] # H[j][y]}
        BY <2>3 DEF Differs
      <4>2. o \in {y \in Below(H[j - 1]) \cap Below(H[j]) : H[j - 1][y] # H[j][y]}
        BY <2>2, <2>4
      <4>3. o \in {K[q].object : q \in DOMAIN K}
        BY <4>1, <4>2
      <4> HIDE DEF K
      <4>4. \E q \in DOMAIN K : K[q].object = o
        BY <4>3
      <4> QED BY <4>4 DEF K
    <3>2. f \in p[j].changed[q].fields
      BY <2>3, <2>4, <3>1 DEF Differs
    <3> QED BY <3>1, <3>2 DEF ChangedIn, Hit
  <2>5. CASE H[j][o][f] = H[j - 1][o][f]
    BY <2>1, <2>5
  <2> QED BY <2>4, <2>5
<1>4. i..n \subseteq S
  <2> HIDE DEF S, n
  <2> QED BY <1>1, <1>2, <1>3, UpFrom DEF n
<1>5. n \in i..n /\ H[n][o][f] = H[i][o][f]
  BY <1>1, <1>4
<1> QED BY <1>1, <1>4, <1>5

\* What changed was not removed afterwards.
Clean(p) ==
  \A k \in DOMAIN p : \A i \in 1..(k - 1) : \A j \in DOMAIN p[i].changed :
    p[i].changed[j].object \notin p[k].removed

LEMMA ChangedStays ==
  ASSUME NEW H, NEW p, NEW g, History(H, p, g), Clean(p), NEW i \in 1..Len(p),
         NEW q \in DOMAIN p[i].changed
  PROVE  \A j \in i..Len(p) : p[i].changed[q].object \in Below(H[j])
<1> DEFINE o == p[i].changed[q].object
           n == Len(p)
<1>1. n \in Nat /\ DOMAIN p = 1..n /\ Differs(H[i - 1], H[i], p[i])
  BY HistoryIs
<1>2. o \in Below(H[i])
  BY <1>1 DEF Differs
<1>3. \A k \in (i + 1)..n : o \notin p[k].removed
  <2> SUFFICES ASSUME NEW k \in (i + 1)..n PROVE o \notin p[k].removed
    OBVIOUS
  <2>1. k \in DOMAIN p /\ i \in 1..(k - 1)
    BY <1>1
  <2> QED BY <2>1 DEF Clean
<1>4. i \in 0..n
  BY <1>1
<1> HIDE DEF o
<1> QED BY <1>2, <1>3, <1>4, NotRemoved DEF o

-----------------------------------------------------------------------------
\* All that a publication tells, in order.
LEMMA NumberedIs ==
  ASSUME NEW m, NEW S, NEW cs \in Seq(S), \A i \in DOMAIN cs : HasId(m, Self(cs[i].object))
  PROVE  Numbered(m, cs) = cs
<1>1. {i \in 1..Len(cs) : ~HasId(m, Self(cs[i].object))} = {}
  OBVIOUS
<1> QED BY <1>1 DEF Numbered, SelectInSeq

\* New objects are told as they are.
AsNow(first, g, B) ==
  first \in Seq(Entry) /\ \A q \in DOMAIN first : first[q].object \in B /\ first[q].now = g[first[q].object]

ChangesIn(p) == [i \in DOMAIN p |-> p[i].changed]

\* The changes E are of objects of B; the last of each field is to what it is now.
UpToDate(E, g, B) == EntriesOver(E, B) /\ \A o \in B : \A f \in Fields : Good(E, <<o, f>>, g[o][f], FALSE)

LEMMA DataIs ==
  ASSUME NEW H, NEW p, NEW g, History(H, p, g), Clean(p), NEW first, AsNow(first, g, Below(g))
  PROVE  LET E == first \o FlattenSeq(ChangesIn(p)) IN
         /\ UpToDate(E, g, Below(g))
         /\ \A x : (\E q \in DOMAIN first : Hit(first[q], x)) => \E q \in DOMAIN E : Hit(E[q], x)
         /\ \A i \in DOMAIN p : \A q \in DOMAIN p[i].changed : \A x :
              Hit(p[i].changed[q], x) => \E y \in DOMAIN E : Hit(E[y], x)
<1> DEFINE n == Len(p)
           B == Below(g)
           ss == ChangesIn(p)
           E == first \o FlattenSeq(ss)
<1>1. /\ n \in Nat /\ DOMAIN p = 1..n /\ H[n] = g
      /\ \A i \in 1..n : Differs(H[i - 1], H[i], p[i]) /\ p[i] \in ChangeSet
  BY HistoryIs
<1>2. ss \in Seq(Seq(Entry)) /\ Len(ss) = n /\ DOMAIN ss = 1..n /\ \A i \in 1..n : ss[i] = p[i].changed
  <2>1. \A i \in 1..n : p[i].changed \in Seq(Entry)
    BY <1>1 DEF ChangeSet
  <2>2. ss = [i \in 1..n |-> p[i].changed]
    BY <1>1 DEF ChangesIn
  <2> HIDE DEF n, ss
  <2>3. ss \in Seq(Seq(Entry))
    BY <1>1, <2>1, <2>2
  <2> QED BY <1>1, <2>2, <2>3
<1>3. first \in Seq(Entry)
  BY DEF AsNow
<1> HIDE DEF ss
<1>4. FlattenSeq(ss) \in Seq(Entry) /\ ToSet(FlattenSeq(ss)) = UNION {ToSet(ss[i]) : i \in DOMAIN ss}
  BY <1>2, FlattenElems
<1>5. E \in Seq(Entry) /\ ToSet(E) = ToSet(first) \cup ToSet(FlattenSeq(ss))
  BY <1>3, <1>4, ConcatElems
<1> HIDE DEF E
<1>6. \A c \in ToSet(first) : c.object \in B
  BY DEF AsNow, ToSet
<1>7. ASSUME NEW i \in 1..n, NEW q \in DOMAIN ss[i]
      PROVE  /\ \A j \in i..n : ss[i][q].object \in Below(H[j])
             /\ ss[i][q].object \in B /\ ss[i][q].now = H[i][ss[i][q].object]
  <2>1. Differs(H[i - 1], H[i], p[i]) /\ q \in DOMAIN p[i].changed /\ ss[i] = p[i].changed
    BY <1>1, <1>2, <1>7
  <2>2. \A j \in i..n : p[i].changed[q].object \in Below(H[j])
    BY <2>1, ChangedStays
  <2>3. n \in i..n
    BY <1>1
  <2>4. p[i].changed[q].now = H[i][p[i].changed[q].object]
    BY <2>1 DEF Differs
  <2> QED BY <2>1, <2>2, <2>3, <2>4, <1>1
<1>8. \A c \in ToSet(FlattenSeq(ss)) : c.object \in B
  <2> SUFFICES ASSUME NEW i \in DOMAIN ss, NEW c \in ToSet(ss[i]) PROVE c.object \in B
    BY <1>4
  <2>1. PICK q \in DOMAIN ss[i] : c = ss[i][q]
    BY DEF ToSet
  <2> QED BY <2>1, <1>2, <1>7
<1>9. EntriesOver(E, B)
  <2> SUFFICES ASSUME NEW q \in DOMAIN E PROVE E[q] \in Entry /\ E[q].object \in B
    BY <1>5 DEF EntriesOver, EntryOf
  <2>1. E[q] \in ToSet(E) /\ E[q] \in Entry
    BY <1>5 DEF ToSet
  <2> QED BY <2>1, <1>5, <1>6, <1>8
<1>10. ASSUME NEW o \in B, NEW f \in Fields PROVE Good(E, <<o, f>>, g[o][f], FALSE)
  <2> DEFINE x == <<o, f>>
             v == g[o][f]
  <2>1. AllGood(first, x, v, FALSE)
    <3> SUFFICES ASSUME NEW q \in DOMAIN first, Hit(first[q], x) PROVE first[q].now[x[2]] = v
      BY DEF AllGood
    <3>1. first[q].object = o /\ x[2] = f
      BY DEF Hit
    <3> QED BY <3>1 DEF AsNow
  <2>2. ASSUME NEW i \in 1..Len(ss) PROVE AllGood(ss[i], x, v, Coming(ss, Len(ss), i, x))
    <3>1. i \in 1..n /\ i \in 0..n
      BY <1>1, <1>2, <2>2
    <3> SUFFICES ASSUME NEW q \in DOMAIN ss[i], Hit(ss[i][q], x)
                 PROVE  ss[i][q].now[x[2]] = v \/ Coming(ss, Len(ss), i, x)
      BY DEF AllGood
    <3>2. ss[i][q].object = o /\ x[2] = f
      BY DEF Hit
    <3>3. (\A j \in i..n : o \in Below(H[j])) /\ ss[i][q].now = H[i][o]
      BY <1>7, <3>1, <3>2
    <3>4. (\A j \in i..n : H[j][o][f] = g[o][f]) \/ ChangedIn(p, i, n, <<o, f>>)
      BY <3>1, <3>3, FieldChanged
    <3>5. CASE \A j \in i..n : H[j][o][f] = g[o][f]
      <4>1. i \in i..n
        BY <3>1, <1>1
      <4> QED BY <4>1, <3>2, <3>3, <3>5
    <3>6. CASE ChangedIn(p, i, n, <<o, f>>)
      <4>1. PICK j \in (i + 1)..n : \E y \in DOMAIN p[j].changed : Hit(p[j].changed[y], x)
        BY <3>6 DEF ChangedIn
      <4>2. j \in 1..n /\ ss[j] = p[j].changed
        BY <4>1, <1>1, <1>2, <3>1
      <4> QED BY <4>1, <4>2, <1>2 DEF Coming
    <3> QED BY <3>4, <3>5, <3>6
  <2> HIDE DEF x, v
  <2>3. Good(first \o FlattenSeq(ss), x, v, FALSE)
    BY <1>2, <1>3, <2>1, <2>2, GoodFlat
  <2> QED BY <2>3 DEF x, v, E
<1>11. ASSUME NEW c \in ToSet(first) \cup ToSet(FlattenSeq(ss)) PROVE \E q \in DOMAIN E : E[q] = c
  BY <1>5 DEF ToSet
<1>12. ASSUME NEW x, NEW q \in DOMAIN first, Hit(first[q], x) PROVE \E y \in DOMAIN E : Hit(E[y], x)
  <2>1. first[q] \in ToSet(first)
    BY DEF ToSet
  <2> QED BY <2>1, <1>11, <1>12
<1>13. ASSUME NEW i \in DOMAIN p, NEW q \in DOMAIN p[i].changed, NEW x, Hit(p[i].changed[q], x)
       PROVE  \E y \in DOMAIN E : Hit(E[y], x)
  <2>1. i \in DOMAIN ss /\ ss[i] = p[i].changed
    BY <1>1, <1>2
  <2>2. ss[i][q] \in ToSet(ss[i])
    BY <2>1 DEF ToSet
  <2>3. ss[i][q] \in ToSet(FlattenSeq(ss))
    BY <2>1, <2>2, <1>4
  <2> QED BY <2>1, <2>3, <1>11, <1>13
<1> QED BY <1>9, <1>10, <1>12, <1>13 DEF UpToDate, E, ss

\* What has been told: it is what is so now, and of everything that was hit.
NowSays(now, E, g, B) ==
  /\ Over(now, B)
  /\ \A x : x \in DOMAIN now <=> \E q \in DOMAIN E : Hit(E[q], x)
  /\ \A x \in DOMAIN now : now[x] \in Data /\ now[x][x[2]] = g[x[1]][x[2]]

LEMMA NowIs ==
  ASSUME NEW k, NEW B, NumbersOver(k, B), NEW g, NEW E, UpToDate(E, g, B)
  PROVE  \E now : TableSays(TableEnd(k, E), k, now) /\ NowSays(now, E, g, B)
<1> DEFINE n == Len(E)
<1>1. EntriesOver(E, B)
  BY DEF UpToDate
<1>2. PICK now : TableSays(TableEnd(k, E), k, now) /\ Over(now, B) /\ Tells(E, n, now)
  BY <1>1, TableIs
<1>3. n \in Nat /\ DOMAIN E = 1..n /\ \A q \in 1..n : E[q] \in Entry
  BY <1>1 DEF EntriesOver
<1> HIDE DEF n
<1>4. \A x : x \in DOMAIN now <=> \E q \in DOMAIN E : Hit(E[q], x)
  BY <1>2, <1>3 DEF Tells
<1>5. ASSUME NEW x \in DOMAIN now PROVE now[x] \in Data /\ now[x][x[2]] = g[x[1]][x[2]]
  <2> DEFINE S == {q \in 1..n : Hit(E[q], x)}
             q == Max(S)
  <2>1. S \in SUBSET (1..n) /\ S # {}
    BY <1>3, <1>4
  <2>2. q \in S /\ \A y \in S : q >= y
    <3> HIDE DEF S
    <3> QED BY <2>1, <1>3, MaxOfSome
  <2> HIDE DEF q
  <2>3. \A y \in (q + 1)..n : ~Hit(E[y], x)
    <3> SUFFICES ASSUME NEW y \in (q + 1)..n, Hit(E[y], x) PROVE FALSE
      OBVIOUS
    <3>1. y \in 1..n /\ ~(q >= y)
      BY <2>2, <1>3
    <3> QED BY <3>1, <2>2
  <2>4. Latest(E, n, x, q) /\ q \in 1..n
    BY <2>2, <2>3 DEF Latest
  <2>5. now[x] = E[q].now
    BY <1>2, <2>4 DEF Tells
  <2>6. x[1] \in B /\ x[2] \in Fields /\ x = <<x[1], x[2]>>
    BY <1>2 DEF Over
  <2>7. Good(E, x, g[x[1]][x[2]], FALSE)
    BY <2>6 DEF UpToDate
  <2>8. E[q].now[x[2]] = g[x[1]][x[2]]
    BY <2>4, <2>7 DEF Good, n
  <2>9. E[q].now \in Data
    BY <1>3, <2>4 DEF Entry
  <2> QED BY <2>5, <2>8, <2>9
<1> QED BY <1>2, <1>4, <1>5 DEF NowSays

-----------------------------------------------------------------------------
\* An order of a finite set.
LEMMA SetToSeqsIs ==
  ASSUME NEW S, IsFiniteSet(S), NEW order \in SetToSeqs(S)
  PROVE  order \in Seq(S) /\ IsInjective(order) /\ ToSet(order) = S
<1> DEFINE n == Cardinality(S)
<1>1. n \in Nat
  BY FS_CardinalityType
<1>2. order \in [1..n -> S] /\ \A i, j \in 1..n : i # j => order[i] # order[j]
  BY DEF SetToSeqs
<1> HIDE DEF n
<1>3. order \in Seq(S) /\ DOMAIN order = 1..n
  BY <1>1, <1>2
<1>4. IsInjective(order)
  BY <1>2 DEF IsInjective
<1>5. order \in Injection(1..n, S)
  BY <1>2, <1>4 DEF Injection
<1>6. Cardinality(1..n) = n
  BY <1>1, FS_Interval
<1>7. order \in Surjection(1..n, S)
  BY <1>5, <1>6, FS_Injection DEF n
<1>8. \A x \in S : \E i \in 1..n : order[i] = x
  BY <1>7 DEF Surjection
<1>9. ToSet(order) = S
  BY <1>2, <1>3, <1>8 DEF ToSet
<1> QED BY <1>3, <1>4, <1>9

\* There are finitely many objects.
LEMMA ObjectsFinite ==
  ASSUME NEW S, S \subseteq Objects
  PROVE  IsFiniteSet(S)
<1>1. Space \in Seq(Objects) /\ Objects = {Space[i] : i \in DOMAIN Space} /\ DOMAIN Space = 1..Len(Space) /\ Len(Space) \in Nat
  BY ReplicationAssumption DEF Objects, ToSet
<1>2. IsFiniteSet(1..Len(Space))
  BY <1>1, FS_Interval
<1>3. Space \in Surjection(1..Len(Space), Objects)
  <2>1. Space \in [1..Len(Space) -> Objects]
    BY <1>1
  <2> QED BY <1>1, <2>1 DEF Surjection
<1>4. IsFiniteSet(Objects)
  BY <1>2, <1>3, FS_Surjection
<1> QED BY <1>4, FS_Subset

-----------------------------------------------------------------------------
\* What now tells of the graph g: all that is new, and every field that has changed.
NowTells(now, H, n, g, B) ==
  /\ Over(now, B)
  /\ \A x \in DOMAIN now : now[x] \in Data /\ now[x][x[2]] = g[x[1]][x[2]]
  /\ \A o \in B : \A f \in Fields : <<o, f>> \notin DOMAIN now =>
       IF Always(H, n, o) THEN \A j \in 0..n : H[j][o][f] = g[o][f] ELSE f = "link" /\ g[o].link = Nil

News(H, n, B) == {o \in B : ~Always(H, n, o)}

\* The numbers k: those there were in m, and three in a row for new objects.
NumbersFrom(k, m, H, n, B) ==
  /\ NumbersOver(k, B) /\ m.last \in Nat /\ k.last \in Nat /\ m.last <= k.last
  /\ \A o \in B : IF Always(H, n, o)
                  THEN \A p \in Ports : <<o, p>> \in DOMAIN m.toId /\ k.toId[<<o, p>>] = m.toId[<<o, p>>]
                  ELSE InARow(k, o) /\ k.toId[Self(o)] > m.last

Planned(pub, m, H, p, g) ==
  /\ NumbersFrom(pub.map, m, H, Len(p), Below(g)) /\ pub.last = pub.map.last
  /\ pub.objects \in Seq(Nat) /\ IsInjective(pub.objects)
  /\ ToSet(pub.objects) = {pub.map.toId[Self(o)] : o \in News(H, Len(p), Below(g))}
  /\ \E now : TableSays(pub.changes, pub.map, now) /\ NowTells(now, H, Len(p), g, Below(g))

\* Some of the objects have lost their numbers, and some of those have new ones.
LEMMA NumbersFromIs ==
  ASSUME NEW H, NEW p, NEW g, History(H, p, g), NEW m, IdsOK(m), NEW l, IdsOK(l), Fewer(m, l),
         \A o : Self(o) \in DOMAIN l.toId <=> Always(H, Len(p), o),
         \A o \in Below(g) : \A q \in Ports : Self(o) \in DOMAIN l.toId => <<o, q>> \in DOMAIN l.toId,
         NEW order \in Seq(News(H, Len(p), Below(g))), IsInjective(order),
         ToSet(order) = News(H, Len(p), Below(g))
  PROVE  NumbersFrom(FoldLeft(ShallowObjectId, l, order), m, H, Len(p), Below(g))
<1> DEFINE n == Len(p)
           B == Below(g)
           new == News(H, n, B)
           k == FoldLeft(ShallowObjectId, l, order)
           V == Services(Objects)
<1>1. n \in Nat /\ H[n] = g /\ GraphOK(g)
  <2>1. n \in Nat /\ H[n] = g /\ \A i \in 0..n : GraphOK(H[i])
    BY HistoryIs
  <2> QED BY <2>1
<1>2. B \subseteq Objects
  BY <1>1, BelowIs DEF BelowOK
<1>3. new \subseteq B /\ \A o \in new : ~Always(H, n, o)
  BY DEF News
<1>4. \A o : Always(H, n, o) => o \in B
  <2>1. n \in 0..n
    BY <1>1
  <2> QED BY <1>1, <2>1 DEF Always
<1>5. MapOK(l, V) /\ MapOK(m, V)
  BY DEF IdsOK
<1>6. \A o \in new : \A s \in Services({o}) : s \notin DOMAIN l.toId
  <2> SUFFICES ASSUME NEW o \in new, NEW s \in Services({o}), s \in DOMAIN l.toId PROVE FALSE
    OBVIOUS
  <2>1. s[1] = o
    BY DEF Services
  <2>2. Self(o) \in DOMAIN l.toId
    BY <2>1 DEF IdsOK
  <2> QED BY <2>2, <1>3
<1>7. \A s \in Services(ToSet(order)) : s \notin DOMAIN l.toId
  <2> SUFFICES ASSUME NEW s \in Services(ToSet(order)) PROVE s \notin DOMAIN l.toId
    OBVIOUS
  <2>1. s[1] \in new /\ s \in Services({s[1]})
    BY DEF Services
  <2> QED BY <2>1, <1>6
<1> HIDE DEF V, new
<1>8. Services(new) \subseteq V
  BY <1>2, <1>3 DEF V, Services
<1>9. order \in Seq(new) /\ ToSet(order) = new
  BY DEF new
<1>10. /\ MapOK(k, V) /\ Extends(l, k)
       /\ DOMAIN k.toId = DOMAIN l.toId \cup Services(ToSet(order))
       /\ \A o \in ToSet(order) : InARow(k, o) /\ k.toId[Self(o)] > l.last
  BY <1>5, <1>7, <1>8, <1>9, NumberIs
<1> HIDE DEF k
<1>11. l.last = m.last /\ m.last \in Nat /\ k.last \in Nat /\ m.last <= k.last
  BY <1>5, <1>10 DEF Fewer, MapOK, Extends
<1>12. DOMAIN l.toId = Services({o \in B : Always(H, n, o)})
  <2>1. ASSUME NEW s \in DOMAIN l.toId PROVE s \in Services({o \in B : Always(H, n, o)})
    <3>1. s \in Services(Objects) /\ Self(s[1]) \in DOMAIN l.toId
      BY DEF IdsOK, MapOK
    <3>2. Always(H, n, s[1]) /\ s[1] \in B
      BY <3>1, <1>4
    <3> QED BY <3>1, <3>2 DEF Services
  <2>2. ASSUME NEW o \in B, Always(H, n, o), NEW q \in Ports PROVE <<o, q>> \in DOMAIN l.toId
    BY <2>2
  <2>3. Services({o \in B : Always(H, n, o)}) \subseteq DOMAIN l.toId
    BY <2>2 DEF Services
  <2> QED BY <2>1, <2>3
<1>13. DOMAIN k.toId = Services(B)
  <2>1. B = {o \in B : Always(H, n, o)} \cup new
    BY DEF new, News
  <2>2. \A a, b : Services(a \cup b) = Services(a) \cup Services(b)
    BY DEF Services
  <2> QED BY <2>1, <2>2, <1>9, <1>10, <1>12
<1>14. IdsOK(k)
  <2>1. \A s \in Services(B) : Self(s[1]) \in Services(B)
    BY DEF Services, Self, Ports
  <2> QED BY <2>1, <1>10, <1>13 DEF IdsOK, V
<1>15. ASSUME NEW o \in B, Always(H, n, o), NEW q \in Ports
       PROVE  <<o, q>> \in DOMAIN m.toId /\ k.toId[<<o, q>>] = m.toId[<<o, q>>]
  <2>1. <<o, q>> \in DOMAIN l.toId
    BY <1>15
  <2>2. <<o, q>> \in DOMAIN m.toId /\ l.toId[<<o, q>>] = m.toId[<<o, q>>]
    BY <2>1 DEF Fewer
  <2>3. k.toId[<<o, q>>] = l.toId[<<o, q>>]
    BY <2>1, <1>10, ExtendsDomain
  <2> QED BY <2>2, <2>3
<1>16. ASSUME NEW o \in B, ~Always(H, n, o) PROVE InARow(k, o) /\ k.toId[Self(o)] > m.last
  <2>1. o \in new
    BY <1>16 DEF new, News
  <2> QED BY <2>1, <1>9, <1>10, <1>11
<1> QED BY <1>11, <1>13, <1>14, <1>15, <1>16 DEF NumbersFrom, NumbersOver, k

\* What the publisher has when it publishes, and what the guards of Publish say.
CanPublish(H) ==
  /\ History(H, pending, seen) /\ IdsOK(ids) /\ GraphOK(live) /\ SameBelow(seen, live)
  /\ \A o : Self(o) \in DOMAIN ids.toId => o \in Below(H[0])
  /\ \A o : Always(H, Len(pending), o) => Self(o) \in DOMAIN ids.toId
  /\ Clean(pending)

Linked(removed) ==
  \A o \in Below(live) \ removed.new : \A p \in Ports :
    HasId(removed.map, Self(o)) => HasId(removed.map, <<o, p>>)

LEMMA NewObjectIs ==
  ASSUME GraphOK(live), NEW o \in Objects
  PROVE  /\ NewObject(o) \in Entry /\ NewObject(o).object = o /\ NewObject(o).now = live[o]
         /\ \A f \in Fields : f \notin NewObject(o).fields => f = "link" /\ live[o].link = Nil
<1>1. live[o] \in Data
  BY DEF GraphOK
<1>2. {"members", "val"} \cup (IF live[o].link = Nil THEN {} ELSE {"link"}) \in SUBSET Fields
  BY DEF Fields
<1> QED BY <1>1, <1>2 DEF NewObject, Entry, Fields

\* The first pass of publish is a fold over the pending changes.
LEMMA ProcessNewIs ==
  ASSUME NEW m, NEW p
  PROVE  ProcessNewObjects(m, p) = ProcessEnd(m, live, p)
BY DEF ProcessNewObjects, ProcessEnd, ProcessStep

\* The data of a publication: the new objects, then all that is pending.
LEMMA TellIs ==
  ASSUME NEW H, CanPublish(H), NEW k, NumbersOver(k, Below(seen)),
         NEW order \in Seq(News(H, Len(pending), Below(seen))),
         ToSet(order) = News(H, Len(pending), Below(seen))
  PROVE  LET E == [i \in DOMAIN order |-> NewObject(order[i])]
                     \o FlattenSeq([i \in DOMAIN pending |-> Numbered(k, pending[i].changed)])
         IN  \E now : TableSays(TableEnd(k, E), k, now) /\ NowTells(now, H, Len(pending), seen, Below(seen))
<1> DEFINE n == Len(pending)
           B == Below(seen)
           new == News(H, n, B)
           first == [i \in DOMAIN order |-> NewObject(order[i])]
           E == first \o FlattenSeq(ChangesIn(pending))
<1>1. /\ History(H, pending, seen) /\ GraphOK(live) /\ Clean(pending)
      /\ \A o \in B : live[o] = seen[o]
  BY DEF CanPublish, SameBelow
<1>2. /\ n \in Nat /\ DOMAIN pending = 1..n /\ H[n] = seen
      /\ \A i \in 1..n : Differs(H[i - 1], H[i], pending[i]) /\ pending[i] \in ChangeSet
      /\ GraphOK(seen)
  <2>1. /\ n \in Nat /\ DOMAIN pending = 1..n /\ H[n] = seen /\ \A i \in 0..n : GraphOK(H[i])
        /\ \A i \in 1..n : Differs(H[i - 1], H[i], pending[i]) /\ pending[i] \in ChangeSet
    BY <1>1, HistoryIs
  <2> QED BY <2>1
<1>3. B \subseteq Objects /\ new \subseteq B
  <2>1. B \subseteq Objects
    BY <1>2, BelowIs DEF BelowOK
  <2> QED BY <2>1 DEF News
<1>4. \A i \in DOMAIN pending : Numbered(k, pending[i].changed) = pending[i].changed
  <2> SUFFICES ASSUME NEW i \in DOMAIN pending PROVE Numbered(k, pending[i].changed) = pending[i].changed
    OBVIOUS
  <2> DEFINE cs == pending[i].changed
  <2>1. cs \in Seq(Entry) /\ i \in 1..n
    BY <1>2 DEF ChangeSet
  <2>2. \A q \in DOMAIN cs : cs[q].object \in B
    <3> SUFFICES ASSUME NEW q \in DOMAIN cs PROVE cs[q].object \in B
      OBVIOUS
    <3>1. \A j \in i..n : cs[q].object \in Below(H[j])
      BY <1>1, <2>1, ChangedStays
    <3>2. n \in i..n
      BY <1>2, <2>1
    <3> QED BY <3>1, <3>2, <1>2
  <2>3. \A o \in B : HasId(k, Self(o))
    <3>1. \A o \in B : Self(o) \in Services(B)
      BY DEF Services, Self, Ports
    <3> QED BY <3>1 DEF NumbersOver, HasId
  <2> HIDE DEF cs
  <2>4. Numbered(k, cs) = cs
    BY <2>1, <2>2, <2>3, NumberedIs
  <2> QED BY <2>4 DEF cs
<1>5. [i \in DOMAIN pending |-> Numbered(k, pending[i].changed)] = ChangesIn(pending)
  BY <1>4 DEF ChangesIn
<1>6. \A i \in DOMAIN order : order[i] \in new /\ order[i] \in B /\ order[i] \in Objects
  <2>1. \A i \in DOMAIN order : order[i] \in ToSet(order)
    BY DEF ToSet
  <2> QED BY <2>1, <1>3
<1>7. DOMAIN first = DOMAIN order /\ \A i \in DOMAIN order : first[i] = NewObject(order[i])
  OBVIOUS
<1> HIDE DEF first
<1>8. AsNow(first, seen, B)
  <2>1. \A i \in DOMAIN order : first[i] \in Entry /\ first[i].object = order[i] /\ first[i].now = live[order[i]]
    BY <1>1, <1>6, <1>7, NewObjectIs
  <2>2. first \in Seq(Entry)
    <3>1. DOMAIN order = 1..Len(order) /\ Len(order) \in Nat
      OBVIOUS
    <3> QED BY <2>1, <1>7, <3>1 DEF first
  <2> QED BY <2>1, <2>2, <1>1, <1>6, <1>7 DEF AsNow
<1> HIDE DEF E
<1>9. /\ UpToDate(E, seen, B)
      /\ \A x : (\E q \in DOMAIN first : Hit(first[q], x)) => \E q \in DOMAIN E : Hit(E[q], x)
      /\ \A i \in DOMAIN pending : \A q \in DOMAIN pending[i].changed : \A x :
              Hit(pending[i].changed[q], x) => \E y \in DOMAIN E : Hit(E[y], x)
  BY <1>1, <1>8, DataIs DEF E
<1>10. PICK now : TableSays(TableEnd(k, E), k, now) /\ NowSays(now, E, seen, B)
  BY <1>9, NowIs
<1>11. \A x : (\E q \in DOMAIN E : Hit(E[q], x)) => x \in DOMAIN now
  BY <1>10 DEF NowSays
<1>12. ASSUME NEW o \in B, NEW f \in Fields, <<o, f>> \notin DOMAIN now
       PROVE  IF Always(H, n, o) THEN \A j \in 0..n : H[j][o][f] = seen[o][f] ELSE f = "link" /\ seen[o].link = Nil
  <2> DEFINE x == <<o, f>>
  <2>1. CASE Always(H, n, o)
    <3>1. (\A j \in 0..n : H[j][o][f] = seen[o][f]) \/ ChangedIn(pending, 0, n, x)
      <4>1. 0 \in 0..n /\ \A j \in 0..n : o \in Below(H[j])
        BY <2>1, <1>2 DEF Always
      <4> QED BY <4>1, <1>1, FieldChanged
    <3>2. ~ChangedIn(pending, 0, n, x)
      <4> SUFFICES ASSUME NEW j \in (0 + 1)..n, NEW q \in DOMAIN pending[j].changed, Hit(pending[j].changed[q], x)
                   PROVE  FALSE
        BY DEF ChangedIn
      <4>1. j \in DOMAIN pending
        BY <1>2
      <4> QED BY <4>1, <1>9, <1>11, <1>12
    <3> QED BY <3>1, <3>2, <2>1
  <2>2. CASE ~Always(H, n, o)
    <3>1. o \in ToSet(order)
      BY <2>2 DEF News
    <3>2. PICK i \in DOMAIN order : order[i] = o
      BY <3>1 DEF ToSet
    <3>3. ~Hit(first[i], x)
      BY <3>2, <1>7, <1>9, <1>11, <1>12
    <3>4. first[i].object = o /\ first[i].now = live[o]
          /\ (f \notin first[i].fields => f = "link" /\ live[o].link = Nil)
      BY <3>2, <1>1, <1>6, <1>7, NewObjectIs
    <3>5. f \notin first[i].fields
      BY <3>3, <3>4 DEF Hit
    <3> QED BY <3>4, <3>5, <2>2, <1>1
  <2> QED BY <2>1, <2>2
<1>13. NowTells(now, H, n, seen, B)
  BY <1>10, <1>12 DEF NowTells, NowSays
<1> QED BY <1>5, <1>10, <1>13 DEF E, first

\* What publish composes of the pending changes takes every graph of the history to the last one.
LEMMA PublicationIs ==
  ASSUME NEW H, CanPublish(H), NEW removed, removed = ProcessNewObjects(ids, pending), Linked(removed),
         NEW order \in SetToSeqs(removed.new)
  PROVE  Planned(Publication(order, removed), ids, H, pending, seen)
<1> DEFINE n == Len(pending)
           B == Below(seen)
           new == News(H, n, B)
           l == removed.map
           k == FoldLeft(ShallowObjectId, l, order)
           pub == Publication(order, removed)
<1>1. /\ History(H, pending, seen) /\ IdsOK(ids) /\ GraphOK(live) /\ Below(live) = B
      /\ \A o : Self(o) \in DOMAIN ids.toId => o \in Below(H[0])
      /\ \A o : Always(H, n, o) => Self(o) \in DOMAIN ids.toId
  BY DEF CanPublish, SameBelow
<1>2. /\ Fewer(ids, l) /\ IdsOK(l)
      /\ \A o : o \in removed.new <=> o \in B /\ ~Always(H, n, o)
      /\ \A o : Self(o) \in DOMAIN l.toId <=> Self(o) \in DOMAIN ids.toId /\ Always(H, n, o)
  <2>1. removed = ProcessEnd(ids, live, pending)
    BY ProcessNewIs
  <2> QED BY <1>1, <2>1, ProcessIs
<1>3. removed.new = new
  BY <1>2 DEF News
<1>4. \A o : Self(o) \in DOMAIN l.toId <=> Always(H, n, o)
  BY <1>1, <1>2
<1>5. B \subseteq Objects
  <2>1. n \in Nat /\ H[n] = seen /\ \A i \in 0..n : GraphOK(H[i])
    BY <1>1, HistoryIs
  <2>2. GraphOK(seen)
    BY <2>1
  <2> QED BY <2>2, BelowIs DEF BelowOK
<1>6. order \in Seq(new) /\ IsInjective(order) /\ ToSet(order) = new
  <2>1. IsFiniteSet(new)
    <3>1. new \subseteq Objects
      BY <1>5 DEF News
    <3> QED BY <3>1, ObjectsFinite
  <2> HIDE DEF new
  <2> QED BY <1>3, <2>1, SetToSeqsIs
<1>7. \A o \in B : \A q \in Ports : Self(o) \in DOMAIN l.toId => <<o, q>> \in DOMAIN l.toId
  <2> SUFFICES ASSUME NEW o \in B, NEW q \in Ports, Self(o) \in DOMAIN l.toId PROVE <<o, q>> \in DOMAIN l.toId
    OBVIOUS
  <2>1. o \in Below(live) \ removed.new
    BY <1>1, <1>2, <1>4
  <2> QED BY <2>1 DEF Linked, HasId
<1> HIDE DEF new
<1>8. NumbersFrom(k, ids, H, n, B)
  <2> HIDE DEF l
  <2> QED BY <1>1, <1>2, <1>4, <1>6, <1>7, NumbersFromIs DEF new
<1> HIDE DEF k
<1>9. NumbersOver(k, B) /\ k.last \in Nat
  BY <1>8 DEF NumbersFrom
<1>10. PICK now : /\ TableSays(TableEnd(k, [i \in DOMAIN order |-> NewObject(order[i])]
                     \o FlattenSeq([i \in DOMAIN pending |-> Numbered(k, pending[i].changed)])), k, now)
                  /\ NowTells(now, H, n, seen, B)
  BY <1>6, <1>9, TellIs DEF new
<1>11. pub.map = k /\ pub.last = k.last
  BY DEF Publication, k
<1>12. pub.changes = TableEnd(k, [i \in DOMAIN order |-> NewObject(order[i])]
                     \o FlattenSeq([i \in DOMAIN pending |-> Numbered(k, pending[i].changed)]))
  BY DEF Publication, TableEnd, k
<1> DEFINE numbers == {GetId(k, Self(o)) : o \in new}
<1>13. pub.objects = Ascending(numbers, k.last)
  BY <1>6 DEF Publication, k
<1>14. numbers = {k.toId[Self(o)] : o \in new} /\ numbers \subseteq 1..k.last
  <2>1. MapOK(k, Services(Objects)) /\ DOMAIN k.toId = Services(B)
    BY <1>9 DEF NumbersOver, IdsOK
  <2>2. \A o \in new : Self(o) \in DOMAIN k.toId
    BY <2>1 DEF new, News, Services, Self, Ports
  <2>3. \A s \in DOMAIN k.toId : k.toId[s] \in 1..k.last
    BY <2>1, MapNumbers
  <2> QED BY <2>2, <2>3 DEF GetId, HasId
<1> HIDE DEF numbers, pub
<1>15. pub.objects \in Seq(Nat) /\ IsInjective(pub.objects) /\ ToSet(pub.objects) = numbers
  <2>1. numbers \cap 1..k.last = numbers
    BY <1>14
  <2> QED BY <1>9, <1>13, <2>1, AscendingIs
<1> QED BY <1>8, <1>10, <1>11, <1>12, <1>14, <1>15 DEF Planned, pub, new

-----------------------------------------------------------------------------
\* The numbers of new objects N, three in a row for each, above the last of m.
Grows(numbers, k, m, N) ==
  /\ numbers \in Seq(Nat) /\ IsInjective(numbers) /\ ToSet(numbers) = {k.toId[Self(o)] : o \in N}
  /\ MapOK(k, Services(Objects)) /\ m.last \in Nat
  /\ \A o \in N : InARow(k, o) /\ k.toId[Self(o)] > m.last
\* The numbers of a copy of l instances are among those of m.
NumbersWithin(V, m, l) == DOMAIN V.toService \subseteq 1..m.last /\ DOMAIN V.toId \subseteq Services(1..l)

\* The numbers of a new object are those of its services.
LEMMA GrowsIs ==
  ASSUME NEW numbers, NEW k, NEW m, NEW N, Grows(numbers, k, m, N), NEW i \in DOMAIN numbers
  PROVE  \E o \in N : /\ numbers[i] = k.toId[Self(o)] /\ numbers[i] \in Nat /\ numbers[i] > m.last
                      /\ \A a \in 0..2 : \E p \in Ports : <<o, p>> \in DOMAIN k.toId /\ k.toId[<<o, p>>] = numbers[i] + a
<1>1. PICK o \in N : numbers[i] = k.toId[Self(o)]
  BY DEF Grows, ToSet
<1>2. InARow(k, o) /\ k.toId[Self(o)] > m.last
  BY DEF Grows
<1>3. /\ Self(o) \in DOMAIN k.toId /\ <<o, "team">> \in DOMAIN k.toId /\ Referred(o) \in DOMAIN k.toId
      /\ k.toId[Self(o)] \in Nat
      /\ k.toId[<<o, "team">>] = k.toId[Self(o)] + 1 /\ k.toId[Referred(o)] = k.toId[Self(o)] + 2
  BY <1>2, ServicesOfOne DEF InARow
<1>4. \A a \in 0..2 : a = 0 \/ a = 1 \/ a = 2
  OBVIOUS
<1>5. "object" \in Ports /\ "team" \in Ports /\ "info" \in Ports
  BY DEF Ports
<1>6. \A a \in 0..2 : \E p \in Ports : <<o, p>> \in DOMAIN k.toId /\ k.toId[<<o, p>>] = numbers[i] + a
  <2> SUFFICES ASSUME NEW a \in 0..2
               PROVE  \E p \in Ports : <<o, p>> \in DOMAIN k.toId /\ k.toId[<<o, p>>] = numbers[i] + a
    OBVIOUS
  <2>1. CASE a = 0
    BY <2>1, <1>1, <1>3, <1>5 DEF Self
  <2>2. CASE a = 1
    BY <2>2, <1>1, <1>3, <1>5
  <2>3. CASE a = 2
    BY <2>3, <1>1, <1>3, <1>5 DEF Referred
  <2> QED BY <1>4, <2>1, <2>2, <2>3
<1> QED BY <1>1, <1>2, <1>3, <1>6

\* So a subscriber has not given those numbers to anything.
LEMMA SpareIs ==
  ASSUME NEW numbers, NEW k, NEW m, NEW N, Grows(numbers, k, m, N), NEW V, NEW l, NumbersWithin(V, m, l)
  PROVE  Spare(V, l, numbers)
<1>1. ASSUME NEW i \in DOMAIN numbers, NEW a \in 0..2 PROVE numbers[i] + a \notin DOMAIN V.toService
  <2>1. numbers[i] \in Nat /\ numbers[i] > m.last
    BY GrowsIs
  <2>2. m.last \in Nat
    BY DEF Grows
  <2>3. numbers[i] + a \notin 1..m.last
    BY <2>1, <2>2
  <2> QED BY <2>3 DEF NumbersWithin
<1>2. ASSUME NEW i \in DOMAIN numbers, NEW j \in DOMAIN numbers, NEW a \in 0..2, NEW b \in 0..2,
             numbers[i] + a = numbers[j] + b
      PROVE  i = j
  <2>1. PICK o \in N : /\ numbers[i] = k.toId[Self(o)]
                       /\ \A c \in 0..2 : \E p \in Ports : <<o, p>> \in DOMAIN k.toId /\ k.toId[<<o, p>>] = numbers[i] + c
    BY GrowsIs
  <2>2. PICK x \in N : /\ numbers[j] = k.toId[Self(x)]
                       /\ \A c \in 0..2 : \E p \in Ports : <<x, p>> \in DOMAIN k.toId /\ k.toId[<<x, p>>] = numbers[j] + c
    BY SMTT(30), GrowsIs
  <2>3. PICK p \in Ports : <<o, p>> \in DOMAIN k.toId /\ k.toId[<<o, p>>] = numbers[i] + a
    BY <2>1
  <2>4. PICK q \in Ports : <<x, q>> \in DOMAIN k.toId /\ k.toId[<<x, q>>] = numbers[j] + b
    BY <2>2
  <2>5. <<o, p>> = <<x, q>>
    <3>1. MapOK(k, Services(Objects))
      BY DEF Grows
    <3>2. k.toId[<<o, p>>] = k.toId[<<x, q>>]
      BY <1>2, <2>3, <2>4
    <3> QED BY <2>3, <2>4, <3>1, <3>2, MapNumbers
  <2>6. numbers[i] = numbers[j]
    BY <2>1, <2>2, <2>5
  <2> QED BY <2>6 DEF Grows, IsInjective
<1>3. numbers \in Seq(Nat) /\ DOMAIN V.toId \subseteq Services(1..l)
  BY DEF Grows, NumbersWithin
<1> QED BY <1>1, <1>2, <1>3 DEF Spare

-----------------------------------------------------------------------------
\* Where the objects B are after new instances: those of N behind the l there were.
Moved(I, B, N, k, numbers, l) ==
  [o \in B |-> IF o \notin N THEN I[o] ELSE l + CHOOSE i \in DOMAIN numbers : numbers[i] = k.toId[Self(o)]]
MovesTo(J, I, B, N, k, numbers, l) ==
  /\ J \in [B -> 1..(l + Len(numbers))]
  /\ \A o \in B \ N : J[o] = I[o]
  /\ \A o \in N : \E i \in DOMAIN numbers : J[o] = l + i /\ numbers[i] = k.toId[Self(o)]
  /\ \A i \in DOMAIN numbers : \E o \in N : J[o] = l + i
\* What is new in k, and what stays as in m.
Renews(k, m, B, N, C) ==
  /\ N \subseteq B /\ B \ N \subseteq C
  /\ \A o \in B \ N : \A p \in Ports : <<o, p>> \in DOMAIN m.toId /\ k.toId[<<o, p>>] = m.toId[<<o, p>>]
\* A subscriber has new instances for the numbers.
Renewed(V, M, l, numbers) ==
  /\ Kept(M, V) /\ \A i \in DOMAIN numbers : Row(V, l + i, numbers[i])

LEMMA MovedIs ==
  ASSUME NEW numbers, NEW k, NEW m, NEW N, Grows(numbers, k, m, N), NEW B, NEW C, Renews(k, m, B, N, C),
         NEW l \in Nat, NEW I, I \in [C -> 1..l]
  PROVE  MovesTo(Moved(I, B, N, k, numbers, l), I, B, N, k, numbers, l)
<1> DEFINE J == Moved(I, B, N, k, numbers, l)
           at(o) == CHOOSE i \in DOMAIN numbers : numbers[i] = k.toId[Self(o)]
<1>1. DOMAIN numbers = 1..Len(numbers) /\ Len(numbers) \in Nat
  BY DEF Grows
<1>2. \A o \in N : at(o) \in DOMAIN numbers /\ numbers[at(o)] = k.toId[Self(o)]
  <2> SUFFICES ASSUME NEW o \in N PROVE \E i \in DOMAIN numbers : numbers[i] = k.toId[Self(o)]
    OBVIOUS
  <2>1. k.toId[Self(o)] \in ToSet(numbers)
    BY DEF Grows
  <2> QED BY <2>1 DEF ToSet
<1>3. N \subseteq B /\ B \ N \subseteq C
  BY DEF Renews
<1>4. J = [o \in B |-> IF o \notin N THEN I[o] ELSE l + at(o)]
  BY DEF Moved
<1> HIDE DEF at, J
<1>5. \A o \in B \ N : J[o] = I[o] /\ J[o] \in 1..(l + Len(numbers))
  BY <1>1, <1>3, <1>4
<1>6. \A o \in N : J[o] = l + at(o) /\ J[o] \in 1..(l + Len(numbers))
  BY <1>1, <1>2, <1>3, <1>4
<1>7. J \in [B -> 1..(l + Len(numbers))]
  <2>1. \A o \in B : J[o] \in 1..(l + Len(numbers))
    BY <1>5, <1>6
  <2>2. J = [o \in B |-> J[o]]
    BY <1>4
  <2> QED BY <2>1, <2>2
<1>8. \A o \in N : \E i \in DOMAIN numbers : J[o] = l + i /\ numbers[i] = k.toId[Self(o)]
  BY <1>2, <1>6
<1>9. \A i \in DOMAIN numbers : \E o \in N : J[o] = l + i
  <2> SUFFICES ASSUME NEW i \in DOMAIN numbers PROVE \E o \in N : J[o] = l + i
    OBVIOUS
  <2>1. PICK o \in N : numbers[i] = k.toId[Self(o)]
    BY GrowsIs
  <2>2. at(o) = i
    BY <2>1, <1>2 DEF Grows, IsInjective
  <2> QED BY <2>2, <1>6
<1> QED BY <1>5, <1>7, <1>8, <1>9 DEF J, MovesTo

\* With the new instances both ends agree on the numbers of the graph that is published.
LEMMA MovedAgrees ==
  ASSUME NEW numbers, NEW k, NEW m, NEW N, Grows(numbers, k, m, N), NEW B, NEW C, Renews(k, m, B, N, C),
         NEW l \in Nat, NEW I, I \in [C -> 1..l], NEW M, Agrees(M, m, C, I),
         NEW V, Renewed(V, M, l, numbers), DOMAIN k.toId = Services(B)
  PROVE  Agrees(V, k, B, Moved(I, B, N, k, numbers, l))
<1> DEFINE J == Moved(I, B, N, k, numbers, l)
<1>1. /\ \A o \in B \ N : J[o] = I[o]
      /\ \A o \in N : \E i \in DOMAIN numbers : J[o] = l + i /\ numbers[i] = k.toId[Self(o)]
  <2> HIDE DEF J
  <2>1. MovesTo(J, I, B, N, k, numbers, l)
    BY MovedIs DEF J
  <2> QED BY <2>1 DEF MovesTo
<1> HIDE DEF J
<1> SUFFICES ASSUME NEW o \in B, NEW p \in Ports
             PROVE  /\ <<o, p>> \in DOMAIN k.toId /\ k.toId[<<o, p>>] \in DOMAIN V.toService
                    /\ V.toService[k.toId[<<o, p>>]] = <<J[o], p>>
                    /\ <<J[o], p>> \in DOMAIN V.toId /\ V.toId[<<J[o], p>>] = k.toId[<<o, p>>]
  BY DEF Agrees, J
<1>2. <<o, p>> \in DOMAIN k.toId
  BY DEF Services
<1>3. CASE o \in B \ N
  <2>1. o \in C /\ k.toId[<<o, p>>] = m.toId[<<o, p>>] /\ J[o] = I[o]
    BY <1>1, <1>3 DEF Renews
  <2>2. /\ m.toId[<<o, p>>] \in DOMAIN M.toService
        /\ M.toService[m.toId[<<o, p>>]] = <<I[o], p>>
        /\ <<I[o], p>> \in DOMAIN M.toId /\ M.toId[<<I[o], p>>] = m.toId[<<o, p>>]
    BY <2>1 DEF Agrees
  <2> QED BY <1>2, <2>1, <2>2 DEF Renewed, Kept
<1>4. CASE o \in N
  <2>1. PICK i \in DOMAIN numbers : J[o] = l + i /\ numbers[i] = k.toId[Self(o)]
    BY <1>1, <1>4
  <2>2. Row(V, J[o], numbers[i])
    BY <2>1 DEF Renewed
  <2>3. k.toId[<<o, p>>] = numbers[i] + Off(p)
    <3>1. InARow(k, o)
      BY <1>4 DEF Grows
    <3>2. k.toId[Self(o)] \in Nat /\ k.toId[<<o, "team">>] = k.toId[Self(o)] + 1 /\ k.toId[Referred(o)] = k.toId[Self(o)] + 2
      BY <3>1 DEF InARow
    <3>3. p = "object" \/ p = "team" \/ p = "info"
      BY DEF Ports
    <3> QED BY <2>1, <3>2, <3>3 DEF Off, Self, Referred
  <2> QED BY <1>2, <2>2, <2>3 DEF Row
<1> QED BY <1>3, <1>4

\* By numbers on which both sides agree, instances are apart and are found.
LEMMA AgreesPlaced ==
  ASSUME NEW V, NEW k, NEW B, NEW J, NumbersOver(k, B), Agrees(V, k, B, J), NEW l \in Nat,
         J \in [B -> 1..l], DOMAIN V.toService \subseteq 1..k.last
  PROVE  Placed(V, k, B, J, l) /\ Apart(J, B)
<1>1. MapOK(k, Services(Objects))
  BY DEF NumbersOver, IdsOK
<1>2. Apart(J, B)
  <2> SUFFICES ASSUME NEW o \in B, NEW x \in B, J[o] = J[x] PROVE o = x
    BY DEF Apart
  <2>1. \A y \in B : Self(y) \in DOMAIN k.toId /\ V.toId[Self(J[y])] = k.toId[Self(y)]
    BY DEF Agrees, Self, Ports
  <2>2. Self(o) = Self(x)
    BY <1>1, <2>1, MapNumbers
  <2> QED BY <2>2 DEF Self
<1>3. 0 \notin DOMAIN V.toService
  <2>1. 0 \notin 1..k.last
    BY <1>1 DEF MapOK
  <2> QED BY <2>1
<1>4. \A o \in B : J[o] \in 1..l /\ J[o] \in Nat
  OBVIOUS
<1>5. Knows(V, k, B, J)
  BY <1>3, <1>4 DEF Knows, Agrees
<1> QED BY <1>2, <1>4, <1>5 DEF Placed

-----------------------------------------------------------------------------
\* What a field is for a copy depends on the field, and on where what it refers to is.
SameOn(I, J, S) == \A x \in S : I[x] = J[x]
SameField(d, e, f) == d[f] = e[f]

LEMMA ImageSame ==
  ASSUME NEW I, NEW J, NEW f \in Fields, NEW d, NEW e, SameField(d, e, f), SameOn(I, J, RefsIn(f, d))
  PROVE  ImageIn(I, f, d) = ImageIn(J, f, e)
<1> DEFINE S == RefsIn(f, d)
<1>0. d[f] = e[f] /\ \A x \in S : I[x] = J[x]
  BY DEF SameOn, SameField
<1>1. CASE f = "members"
  <2>1. d.members = e.members /\ ToSet(d.members) \subseteq S
    BY <1>0, <1>1 DEF RefsIn
  <2>2. \A j \in DOMAIN d.members : I[d.members[j]] = J[d.members[j]]
    BY <1>0, <2>1 DEF ToSet
  <2>3. [j \in DOMAIN d.members |-> I[d.members[j]]] = [j \in DOMAIN e.members |-> J[e.members[j]]]
    BY <2>1, <2>2
  <2> QED BY <1>1, <2>3 DEF ImageIn
<1>2. CASE f = "link"
  <2>1. d.link = e.link /\ {d.link} \ {Nil} \subseteq S
    BY <1>0, <1>2 DEF RefsIn
  <2>2. d.link = Nil \/ I[d.link] = J[d.link]
    BY <1>0, <2>1
  <2>3. (IF d.link = Nil THEN Nil ELSE I[d.link]) = IF e.link = Nil THEN Nil ELSE J[e.link]
    BY <2>1, <2>2
  <2> QED BY <1>2, <2>3 DEF ImageIn
<1>3. CASE f = "val"
  BY <1>0, <1>3 DEF ImageIn
<1> QED BY <1>1, <1>2, <1>3 DEF Fields

\* The references of a field depend on the field only.
LEMMA RefsInSame ==
  ASSUME NEW f \in Fields, NEW d, NEW e, d[f] = e[f]
  PROVE  RefsIn(f, d) = RefsIn(f, e) /\ RefsIn(f, e) \subseteq Refs(e)
<1>1. RefsIn(f, d) = RefsIn(f, e)
  BY DEF Fields, RefsIn
<1>2. RefsIn(f, e) \subseteq Refs(e)
  BY DEF RefsIn, Refs
<1> QED BY <1>1, <1>2

\* What is told refers to what is below.
LEMMA TellsWithin ==
  ASSUME NEW now, NEW H, NEW n, NEW g, GraphOK(g), NEW B, BelowOK(g, B), NowTells(now, H, n, g, B)
  PROVE  Within(now, B)
<1>1. Over(now, B) /\ DOMAIN now \subseteq B \X Fields
  BY DEF NowTells, Over
<1>2. ASSUME NEW x \in DOMAIN now PROVE now[x] \in Data /\ RefsIn(x[2], now[x]) \subseteq B
  <2>1. now[x] \in Data /\ now[x][x[2]] = g[x[1]][x[2]]
    BY DEF NowTells
  <2>2. x[1] \in B /\ x[2] \in Fields
    BY <1>1
  <2>3. RefsIn(x[2], now[x]) \subseteq Refs(g[x[1]])
    BY <2>1, <2>2, RefsInSame
  <2>4. Refs(g[x[1]]) \subseteq B
    BY <2>2 DEF BelowOK
  <2> QED BY <2>1, <2>3, <2>4
<1> QED BY <1>1, <1>2 DEF Within

-----------------------------------------------------------------------------
\* The heap h has copies of the objects B of g, and else what e had.
Overlays(h, e, g, B, J, l, n) ==
  /\ l \in Nat /\ n \in Nat /\ l <= n /\ DOMAIN e = 1..l /\ IsHeap(h, n) /\ J \in [B -> 1..n] /\ Apart(J, B)
  /\ \A o \in B : \A f \in Fields : h[J[o]][f] = ImageIn(J, f, g[o])
  /\ \A i \in 1..n : (\A o \in B : J[o] # i) => i \in 1..l /\ \A f \in Fields : h[i][f] = e[i][f]

LEMMA OverlaysHeap ==
  ASSUME NEW g, GraphOK(g), NEW B, BelowOK(g, B), NEW e, HeapOK(e), NEW h, NEW J, NEW l, NEW n,
         Overlays(h, e, g, B, J, l, n)
  PROVE  HeapOK(h) /\ Copied(h, g, B, J)
<1> DEFINE L == Len(Space)
<1>1. /\ l \in Nat /\ n \in Nat /\ l <= n /\ DOMAIN e = 1..l /\ IsHeap(h, n) /\ J \in [B -> 1..n] /\ Apart(J, B)
      /\ \A o \in B : \A f \in Fields : h[J[o]][f] = ImageIn(J, f, g[o])
      /\ \A i \in 1..n : (\A o \in B : J[o] # i) => i \in 1..l /\ \A f \in Fields : h[i][f] = e[i][f]
  BY DEF Overlays
<1>2. PICK rank, N : IsGraph(e, DOMAIN e, rank, N)
  BY DEF HeapOK
<1>3. e \in Seq(Node)
  BY DEF HeapOK
<1>4. IsGraph(g, Objects, Depth, L)
  BY GraphIs
<1>5. L \in Nat /\ N \in Nat /\ rank \in [1..l -> 0..N] /\ Depth \in [Objects -> 0..L]
  BY <1>1, <1>2, <1>4 DEF IsGraph
<1> HIDE DEF L
<1>6. \A o \in B : /\ o \in Objects /\ g[o] \in Data /\ Refs(g[o]) \subseteq B
                   /\ \A x \in Refs(g[o]) : x \in B /\ Depth[x] < Depth[o]
  <2>1. \A o \in B : o \in Objects /\ Refs(g[o]) \subseteq B
    BY DEF BelowOK
  <2>2. \A o \in Objects : g[o] \in Data
    BY DEF GraphOK
  <2>3. \A o \in Objects : \A x \in Refs(g[o]) : Depth[x] < Depth[o]
    BY <1>4 DEF IsGraph
  <2> QED BY <2>1, <2>2, <2>3
<1>7. Nil \notin Nat
  BY ReplicationAssumption
<1> DEFINE copy(i) == \E o \in B : J[o] = i
           rank2 == [i \in 1..n |-> IF copy(i) THEN Depth[CHOOSE o \in B : J[o] = i] ELSE L + 1 + rank[i]]
<1>8. \A o \in B : J[o] \in 1..n /\ rank2[J[o]] = Depth[o]
  <2> SUFFICES ASSUME NEW o \in B PROVE J[o] \in 1..n /\ rank2[J[o]] = Depth[o]
    OBVIOUS
  <2>1. J[o] \in 1..n /\ copy(J[o])
    BY <1>1
  <2>2. (CHOOSE x \in B : J[x] = J[o]) = o
    BY <1>1 DEF Apart
  <2> QED BY <2>1, <2>2
<1>9. \A i \in 1..n : ~copy(i) => /\ i \in 1..l /\ rank2[i] = L + 1 + rank[i]
                                   /\ h[i].members = e[i].members /\ h[i].link = e[i].link /\ h[i].val = e[i].val
  BY <1>1 DEF Fields
<1>10. \A i \in 1..n : h[i] = [members |-> h[i].members, val |-> h[i].val, link |-> h[i].link]
  <2> SUFFICES ASSUME NEW i \in 1..n PROVE h[i] = [members |-> h[i].members, val |-> h[i].val, link |-> h[i].link]
    OBVIOUS
  <2>1. h[i] = [f \in Fields |-> h[i][f]]
    BY <1>1 DEF IsHeap
  <2> QED BY <2>1 DEF Fields
<1>11. DOMAIN h = 1..n /\ h = [i \in 1..n |-> h[i]]
  BY <1>1 DEF IsHeap
\* An instance that is a copy.
<1>12. ASSUME NEW o \in B
       PROVE  /\ h[J[o]].members \in Seq(1..n) /\ h[J[o]].link \in (1..n) \cup {Nil} /\ h[J[o]].val \in Values
              /\ \A x \in Refs(h[J[o]]) : \E y \in Refs(g[o]) : x = J[y]
  <2>1. g[o].members \in Seq(Objects) /\ g[o].val \in Values
    BY <1>6 DEF Data
  <2>2. \A j \in DOMAIN g[o].members : g[o].members[j] \in Refs(g[o])
    BY DEF Refs, ToSet
  <2>3. g[o].link # Nil => g[o].link \in Refs(g[o])
    BY DEF Refs
  <2>4. \A x \in Refs(g[o]) : J[x] \in 1..n
    BY <1>1, <1>6
  <2>5. h[J[o]].members = [j \in DOMAIN g[o].members |-> J[g[o].members[j]]]
    BY <1>1 DEF ImageIn, Fields
  <2>6. h[J[o]].link = IF g[o].link = Nil THEN Nil ELSE J[g[o].link]
    BY <1>1 DEF ImageIn, Fields
  <2>7. h[J[o]].val = g[o].val
    BY <1>1 DEF ImageIn, Fields
  <2>8. h[J[o]].members \in Seq(1..n)
    <3>1. DOMAIN g[o].members = 1..Len(g[o].members) /\ Len(g[o].members) \in Nat
      BY <2>1
    <3> QED BY <2>2, <2>4, <2>5, <3>1
  <2>9. \A x \in ToSet(h[J[o]].members) : \E y \in Refs(g[o]) : x = J[y]
    BY <2>2, <2>5 DEF ToSet
  <2>10. \A x \in {h[J[o]].link} \ {Nil} : \E y \in Refs(g[o]) : x = J[y]
    BY <2>3, <2>6
  <2>11. h[J[o]].link \in (1..n) \cup {Nil}
    BY <2>3, <2>4, <2>6
  <2> QED BY <2>1, <2>7, <2>8, <2>9, <2>10, <2>11 DEF Refs
\* Another one.
<1>13. ASSUME NEW i \in 1..n, ~copy(i)
       PROVE  /\ h[i].members \in Seq(1..n) /\ h[i].link \in (1..n) \cup {Nil} /\ h[i].val \in Values
              /\ \A x \in Refs(h[i]) : x \in 1..l /\ rank[x] < rank[i]
  <2>1. i \in 1..l /\ h[i].members = e[i].members /\ h[i].link = e[i].link /\ h[i].val = e[i].val
    BY <1>9, <1>13
  <2>2. /\ e[i].members \in Seq(1..l) /\ e[i].link \in (1..l) \cup {Nil}
        /\ \A x \in Refs(e[i]) : rank[x] < rank[i]
    BY <1>1, <1>2, <2>1 DEF IsGraph
  <2>3. Refs(e[i]) \subseteq 1..l
    BY <1>1, <1>2, <2>1, RefsAre
  <2>4. Refs(h[i]) = Refs(e[i])
    BY <2>1 DEF Refs
  <2>5. e[i].val \in Values
    <3>1. e[i] \in Node
      BY <1>1, <1>3, <2>1
    <3> QED BY <3>1 DEF Node
  <2>6. h[i].members \in Seq(1..n)
    <3> DEFINE E == 1..l
               F == 1..n
    <3>1. E \subseteq F
      BY <1>1
    <3>2. h[i].members \in Seq(E)
      BY <2>1, <2>2
    <3> HIDE DEF E, F
    <3>3. ToSet(h[i].members) \subseteq F
      BY <3>1, <3>2 DEF ToSet
    <3>4. h[i].members \in Seq(F)
      BY <3>2, <3>3, SeqOver
    <3> QED BY <3>4 DEF F
  <2>7. h[i].link \in (1..n) \cup {Nil}
    BY <1>1, <2>1, <2>2
  <2> QED BY <2>1, <2>2, <2>3, <2>4, <2>5, <2>6, <2>7
<1>14. \A i \in 1..n : h[i].members \in Seq(1..n) /\ h[i].link \in (1..n) \cup {Nil} /\ h[i].val \in Values
  <2> SUFFICES ASSUME NEW i \in 1..n
               PROVE  h[i].members \in Seq(1..n) /\ h[i].link \in (1..n) \cup {Nil} /\ h[i].val \in Values
    OBVIOUS
  <2>1. CASE copy(i)
    <3>1. PICK o \in B : J[o] = i
      BY <2>1
    <3> HIDE DEF copy
    <3> QED BY <3>1, <1>12
  <2>2. CASE ~copy(i)
    <3> HIDE DEF copy
    <3> QED BY <2>2, <1>13
  <2> QED BY <2>1, <2>2
<1>15. rank2 \in [1..n -> 0..(L + 1 + N)]
  <2> SUFFICES ASSUME NEW i \in 1..n PROVE rank2[i] \in 0..(L + 1 + N)
    <3> DEFINE E == 0..(L + 1 + N)
    <3> HIDE DEF E
    <3> QED BY DEF E
  <2>1. CASE copy(i)
    <3>1. PICK o \in B : J[o] = i
      BY <2>1
    <3>2. Depth[o] \in 0..L
      BY <1>5, <1>6
    <3>3. rank2[i] = Depth[o]
      BY <3>1, <1>8
    <3> HIDE DEF rank2
    <3> QED BY <3>2, <3>3, <1>5
  <2>2. CASE ~copy(i)
    <3>1. i \in 1..l /\ rank2[i] = L + 1 + rank[i]
      BY <2>2, <1>9
    <3>2. rank[i] \in 0..N
      BY <3>1, <1>5
    <3> HIDE DEF rank2
    <3> QED BY <3>1, <3>2, <1>5
  <2> QED BY <2>1, <2>2
<1>16. ASSUME NEW i \in 1..n, NEW x \in Refs(h[i]) PROVE rank2[x] < rank2[i]
  <2>1. CASE copy(i)
    <3>1. PICK o \in B : J[o] = i
      BY <2>1
    <3>2. PICK y \in Refs(g[o]) : x = J[y]
      <4> HIDE DEF copy, rank2
      <4> QED BY <1>12, <1>16, <3>1
    <3>3. y \in B /\ Depth[y] < Depth[o]
      BY <1>6
    <3>4. rank2[x] = Depth[y] /\ rank2[i] = Depth[o]
      BY <1>8, <3>1, <3>2, <3>3
    <3> HIDE DEF rank2
    <3> QED BY <3>3, <3>4
  <2>2. CASE ~copy(i)
    <3>1. x \in 1..l /\ rank[x] < rank[i]
      <4> HIDE DEF copy, rank2
      <4> QED BY <2>2, <1>13, <1>16
    <3>2. i \in 1..l /\ rank2[i] = L + 1 + rank[i] /\ x \in 1..n
      BY <2>2, <1>1, <1>9, <3>1
    <3>3. rank[i] \in 0..N /\ rank[x] \in 0..N
      BY <3>1, <3>2, <1>5
    <3>4. CASE copy(x)
      <4>1. PICK o \in B : J[o] = x
        BY <3>4
      <4>2. rank2[x] = Depth[o] /\ Depth[o] \in 0..L
        BY <4>1, <1>5, <1>6, <1>8
      <4> HIDE DEF rank2
      <4> QED BY <4>2, <3>2, <3>3, <1>5
    <3>5. CASE ~copy(x)
      <4>1. rank2[x] = L + 1 + rank[x]
        BY <3>2, <3>5, <1>9
      <4> HIDE DEF rank2
      <4> QED BY <4>1, <3>1, <3>2, <3>3, <1>5
    <3> QED BY <3>4, <3>5
  <2> QED BY <2>1, <2>2
<1> HIDE DEF rank2, copy
<1>17. h \in Seq(Node)
  <2>1. ASSUME NEW i \in 1..n PROVE h[i] \in Node
    <3>1. h[i].members \in Seq(Nat)
      <4> DEFINE E == 1..n
      <4>0. h[i].members \in Seq(E)
        BY <1>14
      <4>1. E \subseteq Nat
        BY <1>1
      <4> HIDE DEF E
      <4>2. ToSet(h[i].members) \subseteq E
        BY <4>0 DEF ToSet
      <4>3. ToSet(h[i].members) \subseteq Nat
        BY <4>1, <4>2
      <4> QED BY <4>0, <4>3, SeqOver
    <3>2. h[i].link \in Nat \cup {Nil} /\ h[i].val \in Values
      BY <1>14, <1>1
    <3>3. h[i] = [members |-> h[i].members, val |-> h[i].val, link |-> h[i].link]
      BY <1>10
    <3> QED BY <3>1, <3>2, <3>3 DEF Node
  <2> QED BY <2>1, <1>1, <1>11
<1>18. IsGraph(h, DOMAIN h, rank2, L + 1 + N)
  <2>1. Nil \notin 1..n
    BY <1>1, <1>7
  <2>2. L + 1 + N \in Nat
    BY <1>5
  <2> QED BY <1>11, <1>14, <1>15, <1>16, <2>1, <2>2 DEF IsGraph
<1>19. Copied(h, g, B, J)
  BY <1>1, <1>11 DEF Copied
<1> QED BY <1>17, <1>18, <1>19 DEF HeapOK

-----------------------------------------------------------------------------
\* The numbers of a publication, as seen from any graph of the history.
LEMMA PlannedIs ==
  ASSUME NEW pub, NEW m, NEW H, NEW p, NEW g, Planned(pub, m, H, p, g), NEW b \in 0..Len(p)
  PROVE  /\ Grows(pub.objects, pub.map, m, News(H, Len(p), Below(g)))
         /\ Renews(pub.map, m, Below(g), News(H, Len(p), Below(g)), Below(H[b]))
<1> DEFINE n == Len(p)
           B == Below(g)
           k == pub.map
           N == News(H, n, B)
<1>1. /\ NumbersFrom(k, m, H, n, B)
      /\ pub.objects \in Seq(Nat) /\ IsInjective(pub.objects)
      /\ ToSet(pub.objects) = {k.toId[Self(o)] : o \in N}
  BY DEF Planned
<1> HIDE DEF B, n, k
<1>2. /\ NumbersOver(k, B) /\ m.last \in Nat
      /\ \A o \in B : ~Always(H, n, o) => InARow(k, o) /\ k.toId[Self(o)] > m.last
      /\ \A o \in B : Always(H, n, o) => \A q \in Ports : <<o, q>> \in DOMAIN m.toId /\ k.toId[<<o, q>>] = m.toId[<<o, q>>]
  BY <1>1 DEF NumbersFrom
<1>3. \A o \in N : o \in B /\ ~Always(H, n, o)
  BY DEF News
<1>4. \A o \in B \ N : Always(H, n, o) /\ o \in Below(H[b])
  BY DEF News, Always, n
<1>5. MapOK(k, Services(Objects))
  BY <1>2 DEF NumbersOver, IdsOK
<1>6. \A o \in N : InARow(k, o) /\ k.toId[Self(o)] > m.last
  BY <1>2, <1>3
<1> HIDE DEF N
<1>7. Grows(pub.objects, k, m, N)
  BY <1>1, <1>2, <1>5, <1>6 DEF Grows
<1>8. Renews(k, m, B, N, Below(H[b]))
  BY <1>2, <1>3, <1>4 DEF Renews
<1> QED BY <1>7, <1>8 DEF n, B, k, N

\* Every number of a subscriber with new instances is one of k.
LEMMA NumbersBelow ==
  ASSUME NEW numbers, NEW k, NEW m, NEW N, Grows(numbers, k, m, N), m.last <= k.last
  PROVE  \A i \in DOMAIN numbers : \A a \in 0..2 : numbers[i] + a \in 1..k.last
<1> SUFFICES ASSUME NEW i \in DOMAIN numbers, NEW a \in 0..2 PROVE numbers[i] + a \in 1..k.last
  OBVIOUS
<1>1. PICK o \in N : \A c \in 0..2 : \E p \in Ports : <<o, p>> \in DOMAIN k.toId /\ k.toId[<<o, p>>] = numbers[i] + c
  BY GrowsIs
<1>2. PICK p \in Ports : <<o, p>> \in DOMAIN k.toId /\ k.toId[<<o, p>>] = numbers[i] + a
  BY <1>1
<1>3. MapOK(k, Services(Objects))
  BY DEF Grows
<1> QED BY <1>2, <1>3, MapNumbers

\* What a subscriber is that has heard a publication.
Caught(q, r, g, k) ==
  /\ IsRep(q) /\ HasCopy(q) /\ Follows(q, g, k) /\ q.root = r.root /\ q.space = r.space /\ q.ready = TRUE
CanHear(r, H, b, m) == IsRep(r) /\ HasCopy(r) /\ r.ready = TRUE /\ Follows(r, H[b], m)

\* The fields of a subscriber's heap after what a publication told.
LEMMA HeardOverlays ==
  ASSUME NEW H, NEW p, NEW g, History(H, p, g), NEW b \in 0..Len(p),
         NEW e, NEW l \in Nat, DOMAIN e = 1..l, NEW I, Copied(e, H[b], Below(H[b]), I),
         NEW J, NEW k, NEW numbers, numbers \in Seq(Nat),
         MovesTo(J, I, Below(g), News(H, Len(p), Below(g)), k, numbers, l), Apart(J, Below(g)),
         NEW had, \A i \in 1..l : had[i] = e[i], \A i \in DOMAIN numbers : had[l + i] = Blank,
         NEW now, NowTells(now, H, Len(p), g, Below(g)),
         NEW h, Rewritten(had, h, J, now, l + Len(numbers))
  PROVE  Overlays(h, e, g, Below(g), J, l, l + Len(numbers))
<1> DEFINE n == Len(p)
           B == Below(g)
           C == Below(H[b])
           N == News(H, n, B)
           len == l + Len(numbers)
<1>1. /\ n \in Nat /\ H[n] = g /\ \A i \in 0..n : GraphOK(H[i])
  BY HistoryIs
<1>2. \A i \in 0..n : BelowOK(H[i], Below(H[i]))
  BY <1>1, BelowIs
<1>3. /\ J \in [B -> 1..len] /\ \A o \in B \ N : J[o] = I[o]
      /\ \A o \in N : \E i \in DOMAIN numbers : J[o] = l + i
      /\ \A i \in DOMAIN numbers : \E o \in N : J[o] = l + i
  BY DEF MovesTo
<1>4. DOMAIN numbers = 1..Len(numbers) /\ Len(numbers) \in Nat
  OBVIOUS
<1>5. /\ IsHeap(h, len) /\ \A x \in DOMAIN now : h[J[x[1]]][x[2]] = ImageIn(J, x[2], now[x])
      /\ \A i \in 1..len : \A f \in Fields : (\A x \in DOMAIN now : ~(J[x[1]] = i /\ x[2] = f)) => h[i][f] = had[i][f]
  BY DEF Rewritten
<1>6. /\ DOMAIN now \subseteq B \X Fields
      /\ \A x \in DOMAIN now : now[x][x[2]] = g[x[1]][x[2]]
      /\ \A o \in B : \A f \in Fields : <<o, f>> \notin DOMAIN now =>
            IF Always(H, n, o) THEN \A j \in 0..n : H[j][o][f] = g[o][f] ELSE f = "link" /\ g[o].link = Nil
  BY DEF NowTells, Over
<1>7. I \in [C -> 1..l] /\ \A o \in C : \A f \in Fields : e[I[o]][f] = ImageIn(I, f, H[b][o])
  BY DEF Copied
<1>8. \A o : Always(H, n, o) => o \in B \ N /\ o \in C /\ \A j \in 0..n : o \in Below(H[j])
  <2> SUFFICES ASSUME NEW o, Always(H, n, o) PROVE o \in B \ N /\ o \in C /\ \A j \in 0..n : o \in Below(H[j])
    OBVIOUS
  <2>1. \A j \in 0..n : o \in Below(H[j])
    BY DEF Always
  <2>2. n \in 0..n /\ b \in 0..n
    BY <1>1
  <2>3. o \in B
    BY <1>1, <2>1, <2>2
  <2> QED BY <2>1, <2>2, <2>3 DEF News
<1>9. \A o \in N : ~Always(H, n, o) /\ o \in B
  BY DEF News
<1>10. \A o \in B : o \in N \/ Always(H, n, o)
  BY DEF News
<1> HIDE DEF n, B, C, N, len
<1>11. ASSUME NEW o \in B, NEW f \in Fields PROVE h[J[o]][f] = ImageIn(J, f, g[o])
  <2>1. CASE <<o, f>> \in DOMAIN now
    <3> DEFINE x == <<o, f>>
    <3>1. h[J[o]][f] = ImageIn(J, f, now[x])
      BY <1>5, <2>1
    <3>2. now[x][f] = g[o][f]
      BY <1>6, <2>1
    <3> HIDE DEF x
    <3>3. ImageIn(J, f, now[x]) = ImageIn(J, f, g[o])
      <4>1. SameField(now[x], g[o], f) /\ SameOn(J, J, RefsIn(f, now[x]))
        BY <3>2 DEF SameField, SameOn
      <4> QED BY <4>1, ImageSame
    <3> QED BY <3>1, <3>3
  <2>2. CASE <<o, f>> \notin DOMAIN now
    <3>1. h[J[o]][f] = had[J[o]][f]
      <4>1. J[o] \in 1..len
        BY <1>3
      <4>2. \A x \in DOMAIN now : ~(J[x[1]] = J[o] /\ x[2] = f)
        <5> SUFFICES ASSUME NEW x \in DOMAIN now, J[x[1]] = J[o], x[2] = f PROVE FALSE
          OBVIOUS
        <5>1. x[1] \in B /\ x = <<x[1], x[2]>>
          BY <1>6
        <5>2. x[1] = o
          BY <5>1 DEF Apart, B
        <5> QED BY <5>1, <5>2, <2>2
      <4> QED BY <4>1, <4>2, <1>5
    <3>2. CASE Always(H, n, o)
      <4>1. o \in B \ N /\ o \in C
        BY <1>8, <3>2
      <4>2. J[o] = I[o] /\ I[o] \in 1..l
        BY <4>1, <1>3, <1>7
      <4>3. had[J[o]][f] = ImageIn(I, f, H[b][o])
        BY <4>1, <4>2, <1>7
      <4>4. \A j \in 0..n : H[j][o][f] = g[o][f]
        BY <1>6, <2>2, <3>2
      <4>5. b \in 0..n
        BY DEF n
      <4>6. H[b][o][f] = g[o][f]
        BY <4>4, <4>5
      <4>7. \A y \in RefsIn(f, H[b][o]) : Always(H, n, y)
        <5> SUFFICES ASSUME NEW y \in RefsIn(f, H[b][o]), NEW j \in 0..n PROVE y \in Below(H[j])
          BY DEF Always
        <5>1. H[b][o][f] = H[j][o][f]
          BY <4>4, <4>6
        <5>2. RefsIn(f, H[b][o]) \subseteq Refs(H[j][o])
          BY <5>1, RefsInSame
        <5>3. o \in Below(H[j])
          BY <1>8, <3>2
        <5>4. Refs(H[j][o]) \subseteq Below(H[j])
          BY <5>3, <1>2 DEF BelowOK
        <5> QED BY <5>2, <5>4
      <4>8. \A y \in RefsIn(f, H[b][o]) : I[y] = J[y]
        BY <4>7, <1>3, <1>8
      <4>9. ImageIn(I, f, H[b][o]) = ImageIn(J, f, g[o])
        <5>1. SameField(H[b][o], g[o], f) /\ SameOn(I, J, RefsIn(f, H[b][o]))
          BY <4>6, <4>8 DEF SameField, SameOn
        <5> QED BY <5>1, ImageSame
      <4> QED BY <3>1, <4>3, <4>9
    <3>3. CASE ~Always(H, n, o)
      <4>1. f = "link" /\ g[o].link = Nil
        BY <1>6, <2>2, <3>3
      <4>2. PICK i \in DOMAIN numbers : J[o] = l + i
        BY <1>3, <1>10, <3>3
      <4>3. had[J[o]] = Blank
        BY <4>2
      <4> QED BY <3>1, <4>1, <4>3 DEF Blank, ImageIn
    <3> QED BY <3>2, <3>3
  <2> QED BY <2>1, <2>2
<1>12. ASSUME NEW i \in 1..len, \A o \in B : J[o] # i
       PROVE  i \in 1..l /\ \A f \in Fields : h[i][f] = e[i][f]
  <2>1. i \in 1..l
    <3> SUFFICES ASSUME i \notin 1..l PROVE FALSE
      OBVIOUS
    <3>1. i - l \in DOMAIN numbers /\ i = l + (i - l)
      BY <1>4 DEF len
    <3>2. \E o \in N : J[o] = i
      BY <1>3, <3>1
    <3> QED BY <3>2, <1>9, <1>12
  <2>2. \A f \in Fields : h[i][f] = had[i][f]
    <3>1. \A x \in DOMAIN now : x[1] \in B
      BY <1>6
    <3> QED BY <3>1, <1>5, <1>12
  <2> QED BY <2>1, <2>2
<1>13. l <= len /\ len \in Nat
  BY <1>4 DEF len
<1>14. Overlays(h, e, g, B, J, l, len)
  <2>1. Apart(J, B)
    BY DEF B
  <2> QED BY <1>3, <1>5, <1>11, <1>12, <1>13, <2>1 DEF Overlays
<1> QED BY <1>14 DEF B, len

-----------------------------------------------------------------------------
\* The first and last numbers of a publication are not below those there were.
LEMMA PlannedLast ==
  ASSUME NEW pub, NEW m, NEW H, NEW p, NEW g, Planned(pub, m, H, p, g)
  PROVE  /\ NumbersOver(pub.map, Below(g)) /\ m.last \in Nat /\ pub.map.last \in Nat /\ m.last <= pub.map.last
         /\ pub.last = pub.map.last /\ pub.objects \in Seq(Nat)
         /\ \E now : TableSays(pub.changes, pub.map, now) /\ NowTells(now, H, Len(p), g, Below(g))
BY DEF Planned, NumbersFrom

LEMMA NodesHeap ==
  ASSUME NEW h \in Seq(Node)
  PROVE  IsHeap(h, Len(h))
<1>1. DOMAIN h = 1..Len(h) /\ h = [i \in 1..Len(h) |-> h[i]]
  OBVIOUS
<1>2. \A i \in 1..Len(h) : h[i] = [f \in Fields |-> h[i][f]]
  <2> SUFFICES ASSUME NEW i \in 1..Len(h) PROVE h[i] = [f \in Fields |-> h[i][f]]
    OBVIOUS
  <2>1. h[i] \in Node
    BY <1>1
  <2>2. h[i] = [members |-> h[i].members, val |-> h[i].val, link |-> h[i].link]
    BY <2>1 DEF Node
  <2> QED BY <2>2 DEF Fields
<1> QED BY <1>1, <1>2 DEF IsHeap

\* A subscriber that follows an earlier state hears it, and follows the later one.
LEMMA CaughtIs ==
  ASSUME NEW pub, NEW m, NEW H, NEW p, NEW g, Planned(pub, m, H, p, g), History(H, p, g),
         NEW b \in 0..Len(p), NEW r, CanHear(r, H, b, m)
  PROVE  OnPublish(r, pub).out = "ok" /\ Caught(OnPublish(r, pub).rep, r, g, pub.map)
<1> DEFINE n == Len(p)
           B == Below(g)
           C == Below(H[b])
           N == News(H, n, B)
           k == pub.map
           numbers == pub.objects
           l == Len(r.heap)
           len == l + Len(numbers)
           q == NewInstances(r, numbers)
<1>1. IsRep(r) /\ HasCopy(r) /\ r.ready = TRUE /\ Follows(r, H[b], m)
  BY DEF CanHear
<1>2. NumbersOf(r) = r.map
  BY <1>1 DEF NumbersOf
<1>3. PICK I : FollowsBy(r.heap, r.root, r.map, H[b], m, I)
  BY <1>1, <1>2 DEF Follows
<1>4. /\ r.root \in DOMAIN r.heap /\ HeapOK(r.heap) /\ r.heap \in Seq(Node) /\ r.space = r.root
      /\ \A i \in DOMAIN r.map.toService : r.map.toService[i] \in Services(DOMAIN r.heap)
  BY <1>1, <1>2 DEF HasCopy, HeapOK
<1>5. DOMAIN r.heap = 1..l /\ l \in Nat
  BY <1>4
<1>6. /\ Copied(r.heap, H[b], C, I) /\ I \in [C -> 1..l] /\ I[Root] = r.root /\ Agrees(r.map, m, C, I)
  BY <1>3, <1>5 DEF FollowsBy, Copied
<1>7. NumbersWithin(r.map, m, l)
  BY <1>3, <1>5 DEF FollowsBy, NumbersWithin
<1>8. /\ NumbersOver(k, B) /\ m.last \in Nat /\ k.last \in Nat /\ m.last <= k.last
      /\ pub.last = k.last /\ numbers \in Seq(Nat)
  BY PlannedLast
<1>9. PICK now : TableSays(pub.changes, k, now) /\ NowTells(now, H, n, g, B)
  BY PlannedLast
<1>10. Grows(numbers, k, m, N) /\ Renews(k, m, B, N, C)
  BY PlannedIs
<1>11. /\ n \in Nat /\ H[n] = g /\ \A i \in 0..n : GraphOK(H[i])
  BY HistoryIs
<1>12. GraphOK(g) /\ BelowOK(g, B) /\ \A i \in 0..n : BelowOK(H[i], Below(H[i]))
  BY <1>11, BelowIs
<1>13. Blank \in Node
  <2>1. Default \in Values
    BY ReplicationAssumption
  <2>2. <<>> \in Seq(Nat)
    OBVIOUS
  <2> QED BY <2>1, <2>2 DEF Blank, Node
<1>14. DOMAIN numbers = 1..Len(numbers) /\ Len(numbers) \in Nat
  BY <1>8
<1>15. Always(H, n, Root) /\ Root \in B \ N
  <2>1. Always(H, n, Root)
    BY <1>12 DEF BelowOK, Always
  <2>2. Root \in B
    BY <1>12 DEF BelowOK
  <2> QED BY <2>1, <2>2 DEF News
<1> HIDE DEF n, B, C, N, k, numbers, l, q
<1>16. Spare(r.map, l, numbers)
  BY <1>7, <1>10, SpareIs
<1>17. /\ IsRep(q) /\ SameBut(r, q) /\ Kept(r.map, q.map)
       /\ q.heap \in Seq(Node) /\ Len(q.heap) = len
       /\ \A i \in 1..l : q.heap[i] = r.heap[i]
       /\ \A i \in DOMAIN numbers : q.heap[l + i] = Blank /\ Row(q.map, l + i, numbers[i])
       /\ DOMAIN q.map.toId = DOMAIN r.map.toId \cup Services((l + 1)..len)
       /\ DOMAIN q.map.toService =
            DOMAIN r.map.toService \cup {numbers[i] + a : i \in DOMAIN numbers, a \in 0..2}
  BY <1>1, <1>4, <1>13, <1>16, NewInstancesIs DEF l, q
<1>18. Renewed(q.map, r.map, l, numbers)
  BY <1>17 DEF Renewed
<1> DEFINE J == Moved(I, B, N, k, numbers, l)
<1> HIDE DEF J
<1>19. MovesTo(J, I, B, N, k, numbers, l)
  BY <1>5, <1>6, <1>10, MovedIs DEF J
<1>20. J \in [B -> 1..len] /\ \A o \in B \ N : J[o] = I[o]
  BY <1>19 DEF MovesTo
<1>21. Agrees(q.map, k, B, J)
  <2>1. DOMAIN k.toId = Services(B)
    BY <1>8 DEF NumbersOver
  <2> QED BY <2>1, <1>5, <1>6, <1>10, <1>18, MovedAgrees DEF J
<1>22. DOMAIN q.map.toService \subseteq 1..k.last
  <2>1. \A i \in DOMAIN numbers : \A a \in 0..2 : numbers[i] + a \in 1..k.last
    BY <1>8, <1>10, NumbersBelow
  <2>2. DOMAIN r.map.toService \subseteq 1..k.last
    <3>1. DOMAIN r.map.toService \subseteq 1..m.last
      BY <1>7 DEF NumbersWithin
    <3>2. 1..m.last \subseteq 1..k.last
      BY <1>8
    <3> QED BY <3>1, <3>2
  <2> QED BY <2>1, <2>2, <1>17
<1>23. len \in Nat /\ l \in Nat /\ l <= len
  BY <1>5, <1>14
<1> HIDE DEF len
<1>24. Placed(q.map, k, B, J, len) /\ Apart(J, B)
  BY <1>8, <1>20, <1>21, <1>22, <1>23, AgreesPlaced
<1>25. Within(now, B)
  BY <1>9, <1>12, TellsWithin
<1>26. Publishes(pub, k, now, numbers)
  BY <1>8, <1>9 DEF Publishes, numbers
<1>27. IsHeap(q.heap, len)
  BY <1>17, NodesHeap
<1>28. PICK h : OnPublish(r, pub) = At(q, h) /\ Rewritten(q.heap, h, J, now, len)
  <2>1. r.ready = TRUE
    BY <1>1
  <2>2. q = NewInstances(r, numbers)
    BY DEF q
  <2>3. IsRep(q)
    BY <1>17
  <2>4. Placed(q.map, k, B, J, len) /\ Apart(J, B)
    BY <1>24
  <2>5. Heard(r, pub, q, J, now, len)
    BY <2>1, <2>2, <2>3, <2>4, <1>25, <1>26, <1>27, HeardIs
  <2> QED BY <2>5 DEF Heard
<1>29. Overlays(h, r.heap, g, B, J, l, len)
  BY <1>5, <1>6, <1>8, <1>9, <1>17, <1>19, <1>24, <1>28, HeardOverlays DEF n, B, C, N, len
<1>30. HeapOK(h) /\ Copied(h, g, B, J)
  BY <1>4, <1>12, <1>29, OverlaysHeap
<1>31. DOMAIN h = 1..len
  BY <1>28 DEF Rewritten, IsHeap
<1>32. J[Root] = r.root
  BY <1>6, <1>15, <1>20
<1>33. DOMAIN q.map.toId \subseteq Services(DOMAIN h)
  <2>1. DOMAIN r.map.toId \subseteq Services(1..l)
    BY <1>7 DEF NumbersWithin
  <2>2. 1..l \subseteq 1..len /\ (l + 1)..len \subseteq 1..len
    BY <1>23
  <2>3. Services(1..l) \subseteq Services(1..len) /\ Services((l + 1)..len) \subseteq Services(1..len)
    BY <2>2 DEF Services
  <2> QED BY <2>1, <2>3, <1>17, <1>31
<1>34. \A i \in DOMAIN q.map.toService : q.map.toService[i] \in Services(DOMAIN h)
  <2> SUFFICES ASSUME NEW i \in DOMAIN q.map.toService PROVE q.map.toService[i] \in Services(1..len)
    BY <1>31
  <2>1. CASE i \in DOMAIN r.map.toService
    <3>1. q.map.toService[i] = r.map.toService[i] /\ r.map.toService[i] \in Services(1..l)
      BY <2>1, <1>4, <1>5, <1>17 DEF Kept
    <3>2. 1..l \subseteq 1..len
      BY <1>23
    <3> QED BY <3>1, <3>2 DEF Services
  <2>2. CASE i \notin DOMAIN r.map.toService
    <3>1. PICK j \in DOMAIN numbers, a \in 0..2 : i = numbers[j] + a
      BY <2>2, <1>17
    <3>2. Row(q.map, l + j, numbers[j])
      BY <1>17
    <3>3. l + j \in 1..len
      BY <1>14, <1>23 DEF len
    <3>4. \E x \in Ports : Off(x) = a
      <4>1. a = 0 \/ a = 1 \/ a = 2
        OBVIOUS
      <4>2. Off("object") = 0 /\ Off("team") = 1 /\ Off("info") = 2
        BY DEF Off
      <4> QED BY <4>1, <4>2 DEF Ports
    <3>5. PICK x \in Ports : Off(x) = a
      BY <3>4
    <3>6. q.map.toService[i] = <<l + j, x>>
      BY <3>1, <3>2, <3>5 DEF Row
    <3> QED BY <3>3, <3>6 DEF Services
  <2> QED BY <2>1, <2>2
<1> DEFINE e == At(q, h).rep
<1>35. /\ e.heap = h /\ e.root = r.root /\ e.space = r.space /\ e.map = q.map /\ e.ready = TRUE /\ IsRep(e)
       /\ At(q, h).out = "ok"
  <2>1. q.root = r.root /\ q.space = r.space /\ q.ready = r.ready
    BY <1>17 DEF SameBut
  <2>2. /\ e.heap = h /\ e.root = q.root /\ e.space = q.space /\ e.map = q.map /\ e.ready = q.ready /\ e.ids = q.ids
        /\ At(q, h).out = "ok"
    BY DEF At
  <2>3. IsRep(e)
    BY DEF IsRep, At
  <2> QED BY <1>1, <2>1, <2>2, <2>3
<1> HIDE DEF e
<1>36. NumbersOf(e) = q.map
  BY <1>35 DEF NumbersOf
<1>37. HasCopy(e)
  <2>1. e.root \in DOMAIN e.heap
    <3>1. J[Root] \in 1..len
      BY <1>15, <1>20
    <3> QED BY <3>1, <1>31, <1>32, <1>35
  <2>2. e.space = e.root
    BY <1>4, <1>35
  <2> QED BY <2>1, <2>2, <1>30, <1>34, <1>35, <1>36 DEF HasCopy
<1>38. Follows(e, g, k)
  <2>1. FollowsBy(h, r.root, q.map, g, k, J)
    BY <1>21, <1>22, <1>30, <1>32, <1>33 DEF FollowsBy, B
  <2> QED BY <2>1, <1>35, <1>36 DEF Follows
<1>39. Caught(e, r, g, k)
  BY <1>35, <1>37, <1>38 DEF Caught
<1> QED BY <1>28, <1>35, <1>39 DEF e, k

-----------------------------------------------------------------------------
\* A sequence without an element that it has once.
LEMMA RemoveFirstIs ==
  ASSUME NEW S, NEW w \in Seq(S), IsInjective(w), NEW s \in ToSet(w)
  PROVE  /\ RemoveFirst(w, s) \in Seq(S) /\ IsInjective(RemoveFirst(w, s))
         /\ ToSet(RemoveFirst(w, s)) = ToSet(w) \ {s}
<1> DEFINE n == Len(w)
           u == RemoveFirst(w, s)
<1>1. n \in Nat /\ DOMAIN w = 1..n
  OBVIOUS
<1>2. PICK i \in 1..n : w[i] = s
  BY <1>1 DEF ToSet
<1>3. {j \in 1..n : w[j] = s} = {i}
  BY <1>1, <1>2 DEF IsInjective
<1>4. Min({i}) = i
  BY <1>1, <1>2 DEF Min
<1>5. SelectInSeq(w, LAMBDA v : v = s) = i
  BY <1>3, <1>4 DEF SelectInSeq
<1>6. u = SubSeq(w, 1, i - 1) \o SubSeq(w, i + 1, n)
  BY <1>2, <1>5 DEF RemoveFirst, RemoveAt
<1> DEFINE a == SubSeq(w, 1, i - 1)
           b == SubSeq(w, i + 1, n)
<1>7. /\ a \in Seq(S) /\ Len(a) = i - 1 /\ \A j \in 1..(i - 1) : a[j] = w[j]
      /\ b \in Seq(S) /\ Len(b) = n - i /\ \A j \in 1..(n - i) : b[j] = w[i + j]
  <2>1. a \in Seq(S) /\ Len(a) = i - 1 /\ \A j \in 1..(i - 1) : a[j] = w[j]
    BY <1>1, <1>2
  <2>2. b \in Seq(S) /\ Len(b) = n - i /\ \A j \in 1..(n - i) : b[j] = w[i + j]
    <3>1. b = [j \in 1..(n - i) |-> w[i + j]]
      <4>1. b = [j \in 1..(n - (i + 1) + 1) |-> w[j + (i + 1) - 1]]
        BY <1>1, <1>2
      <4>2. n - (i + 1) + 1 = n - i /\ \A j \in 1..(n - i) : j + (i + 1) - 1 = i + j
        BY <1>1, <1>2
      <4> QED BY <4>1, <4>2
    <3>2. \A j \in 1..(n - i) : i + j \in 1..n
      BY <1>1, <1>2
    <3>3. \A j \in 1..(n - i) : w[i + j] \in S
      BY <3>2, <1>1
    <3>4. n - i \in Nat
      BY <1>1, <1>2
    <3> HIDE DEF b, n
    <3> QED BY <3>1, <3>3, <3>4
  <2> QED BY <2>1, <2>2
<1> HIDE DEF a, b, n
<1>8. u = a \o b
  BY <1>6 DEF a, b
<1> HIDE DEF u
<1>9. u \in Seq(S) /\ DOMAIN u = 1..(n - 1)
  BY <1>1, <1>2, <1>7, <1>8
<1>10. \A j \in 1..(n - 1) : u[j] = IF j < i THEN w[j] ELSE w[j + 1]
  <2> SUFFICES ASSUME NEW j \in 1..(n - 1) PROVE u[j] = IF j < i THEN w[j] ELSE w[j + 1]
    OBVIOUS
  <2>1. CASE j < i
    <3>1. j \in 1..(i - 1)
      BY <2>1, <1>1, <1>2
    <3>2. u[j] = a[j]
      BY <3>1, <1>1, <1>2, <1>7, <1>8
    <3> QED BY <2>1, <3>1, <3>2, <1>7
  <2>2. CASE ~(j < i)
    <3>1. j - (i - 1) \in 1..(n - i) /\ i + (j - (i - 1)) = j + 1
      BY <2>2, <1>1, <1>2
    <3>2. u[j] = b[j - (i - 1)]
      BY <2>2, <3>1, <1>1, <1>2, <1>7, <1>8
    <3>3. b[j - (i - 1)] = w[j + 1]
      BY <3>1, <1>7
    <3> QED BY <2>2, <3>2, <3>3
  <2> QED BY <2>1, <2>2
<1>11. IsInjective(u)
  <2> SUFFICES ASSUME NEW j \in 1..(n - 1), NEW k \in 1..(n - 1), u[j] = u[k] PROVE j = k
    BY <1>9 DEF IsInjective
  <2> DEFINE at(x) == IF x < i THEN x ELSE x + 1
  <2>1. u[j] = w[at(j)] /\ u[k] = w[at(k)] /\ at(j) \in 1..n /\ at(k) \in 1..n
    BY <1>1, <1>2, <1>10
  <2>2. at(j) = at(k)
    <3> HIDE DEF at
    <3> QED BY <2>1, <1>1 DEF IsInjective
  <2> QED BY <2>2, <1>1, <1>2
<1>12. ToSet(u) = ToSet(w) \ {s}
  <2>1. ASSUME NEW j \in 1..(n - 1) PROVE u[j] \in ToSet(w) /\ u[j] # s
    <3>1. CASE j < i
      BY <3>1, <1>1, <1>2, <1>3, <1>10 DEF ToSet
    <3>2. CASE ~(j < i)
      <4>1. j + 1 \in 1..n /\ j + 1 # i /\ u[j] = w[j + 1]
        BY <3>2, <1>1, <1>2, <1>10
      <4> QED BY <4>1, <1>1, <1>3 DEF ToSet, n
    <3> QED BY <3>1, <3>2
  <2>2. ASSUME NEW j \in 1..n, w[j] # s PROVE \E k \in 1..(n - 1) : u[k] = w[j]
    <3>1. CASE j < i
      <4>1. j \in 1..(n - 1) /\ u[j] = w[j]
        BY <3>1, <1>1, <1>2, <1>10
      <4> QED BY <4>1
    <3>2. CASE ~(j < i)
      <4>1. j - 1 \in 1..(n - 1) /\ ~(j - 1 < i) /\ (j - 1) + 1 = j
        BY <2>2, <3>2, <1>1, <1>2
      <4>2. u[j - 1] = w[j]
        BY <4>1, <1>10
      <4> QED BY <4>1, <4>2
    <3> QED BY <3>1, <3>2
  <2>3. ToSet(u) = {u[j] : j \in 1..(n - 1)} /\ ToSet(w) = {w[j] : j \in 1..n}
    BY <1>1, <1>9 DEF ToSet
  <2> QED BY <2>1, <2>2, <2>3
<1> QED BY <1>9, <1>11, <1>12 DEF u

-----------------------------------------------------------------------------
\* The invariant, for given graphs H: of each follower there is one that it has,
\* and only what was below the root in the first one has numbers.
KnownIn(k, H, n, w) ==
  \A o : Self(o) \in DOMAIN k.toId => IF w = <<>> THEN \E i \in 0..n : o \in Below(H[i]) ELSE o \in Below(H[0])
RepsOK(R) == R = [s \in Subscribers |-> R[s]] /\ \A s \in Subscribers : RepOK(R[s])
Followed(H, n, k, w, R) == \A s \in ToSet(w) : HasCopy(R[s]) /\ \E b \in 0..n : Follows(R[s], H[b], k)
Flow(H, g, p, l, k, w, R) ==
  /\ GraphOK(g) /\ History(H, p, l) /\ IdsOK(k) /\ KnownIn(k, H, Len(p), w)
  /\ w \in Seq(Subscribers) /\ IsInjective(w) /\ RepsOK(R) /\ Followed(H, Len(p), k, w, R)

\* Nothing is pending, and only one graph counts.
LEMMA OneGraph ==
  ASSUME NEW l, GraphOK(l)
  PROVE  History([i \in 0..0 |-> l], <<>>, l) /\ [i \in 0..0 |-> l][0] = l
<1>1. [i \in 0..0 |-> l][0] = l
  OBVIOUS
<1>2. Len(<<>>) = 0 /\ <<>> \in Seq(ChangeSet)
  OBVIOUS
<1>3. \A i \in 0..0 : i = 0
  OBVIOUS
<1>4. \A i \in 1..0 : FALSE
  OBVIOUS
<1> QED BY <1>1, <1>2, <1>3, <1>4 DEF History

\* When notifyChanges finds nothing, nothing changed below the root.
LEMMA QuietIs ==
  ASSUME ~Unnotified
  PROVE  SameBelow(seen, live)
<1>1. Below(live) \ Below(seen) = {} /\ Below(seen) \ Below(live) = {}
  BY DEF Unnotified, Added, Removed
<1>2. {o \in Below(seen) \cap Below(live) : live[o] # seen[o]} = {}
  BY DEF Unnotified, Changed
<1>3. Below(live) = Below(seen)
  BY <1>1
<1>4. \A o \in Below(seen) : live[o] = seen[o]
  BY <1>2, <1>3
<1> QED BY <1>3, <1>4 DEF SameBelow

\* What the application edits stays a graph without cycles.
LEMMA LaterIs ==
  ASSUME NEW o
  PROVE  Later(o) \subseteq Objects
BY DEF Later, Objects, ToSet

LEMMA EditedIs ==
  ASSUME NEW g, GraphOK(g), NEW o \in Objects, NEW data \in Data, Refs(data) \subseteq Later(o)
  PROVE  GraphOK([g EXCEPT ![o] = data])
<1>1. g \in [Objects -> Data] /\ \A x \in Objects : Refs(g[x]) \subseteq Later(x)
  BY DEF GraphOK, Ordered
<1> DEFINE h == [g EXCEPT ![o] = data]
<1>2. h \in [Objects -> Data]
  BY <1>1
<1>3. \A x \in Objects : h[x] = IF x = o THEN data ELSE g[x]
  BY <1>1
<1> HIDE DEF h
<1>4. \A x \in Objects : Refs(h[x]) \subseteq Later(x)
  BY <1>1, <1>3
<1> QED BY <1>2, <1>4 DEF GraphOK, Ordered, h

-----------------------------------------------------------------------------
\* The steps, one by one.
LEMMA FlowIs ==
  ASSUME NEW H, NEW g, NEW p, NEW l, NEW k, NEW w, NEW R, Flow(H, g, p, l, k, w, R)
  PROVE  /\ GraphOK(g) /\ History(H, p, l) /\ IdsOK(k) /\ KnownIn(k, H, Len(p), w)
         /\ w \in Seq(Subscribers) /\ IsInjective(w) /\ RepsOK(R) /\ Followed(H, Len(p), k, w, R)
         /\ Len(p) \in Nat /\ DOMAIN p = 1..Len(p) /\ H[Len(p)] = l /\ GraphOK(l)
<1>1. GraphOK(g) /\ History(H, p, l) /\ IdsOK(k) /\ KnownIn(k, H, Len(p), w)
      /\ w \in Seq(Subscribers) /\ IsInjective(w) /\ RepsOK(R) /\ Followed(H, Len(p), k, w, R)
  BY DEF Flow
<1>2. /\ Len(p) \in Nat /\ DOMAIN p = 1..Len(p) /\ H[Len(p)] = l
      /\ \A i \in 0..Len(p) : GraphOK(H[i])
  BY <1>1, HistoryIs
<1>3. Len(p) \in 0..Len(p)
  BY <1>2
<1>4. GraphOK(l)
  BY <1>2, <1>3
<1> QED BY <1>1, <1>2, <1>4

\* What each action makes of the invariant's history: an edit is not looked at yet,
LEMMA EditKeeps ==
  ASSUME NEW H, NEW g, NEW p, NEW l, NEW k, NEW w, NEW R, Flow(H, g, p, l, k, w, R), NEW h, GraphOK(h)
  PROVE  Flow(H, h, p, l, k, w, R)
BY DEF Flow

\* What notifyChanges tells the publisher.
SetOf(order) ==
  [added |-> Added, removed |-> Removed,
   changed |-> [i \in DOMAIN order |->
     [object |-> order[i], now |-> live[order[i]],
      fields |-> {f \in DOMAIN Blank : live[order[i]][f] # seen[order[i]][f]}]]]
LEMMA NotifiedIs ==
  ASSUME GraphOK(live), GraphOK(seen), NEW order \in SetToSeqs(Changed)
  PROVE  SetOf(order) \in ChangeSet /\ Differs(seen, live, SetOf(order))
<1>1. Below(live) \subseteq Objects /\ Below(seen) \subseteq Objects
  BY BelowIs DEF BelowOK
<1>2. Changed \subseteq Objects
  BY <1>1 DEF Changed
<1>3. order \in Seq(Changed) /\ ToSet(order) = Changed
  BY <1>2, ObjectsFinite, SetToSeqsIs
<1>4. Added \subseteq Objects /\ Removed \subseteq Objects
  BY <1>1 DEF Added, Removed
<1>5. DOMAIN Blank = Fields
  BY DEF Blank, Fields
<1> DEFINE e(i) == [object |-> order[i], now |-> live[order[i]],
                    fields |-> {f \in DOMAIN Blank : live[order[i]][f] # seen[order[i]][f]}]
           cs == [i \in DOMAIN order |-> e(i)]
<1>6. DOMAIN order = 1..Len(order) /\ Len(order) \in Nat /\ \A i \in DOMAIN order : order[i] \in Changed
  BY <1>3
<1>7. \A i \in DOMAIN order : /\ e(i) \in Entry /\ e(i).object = order[i] /\ e(i).now = live[order[i]]
                               /\ e(i).fields = {f \in Fields : live[order[i]][f] # seen[order[i]][f]}
  <2> SUFFICES ASSUME NEW i \in DOMAIN order
               PROVE  /\ e(i) \in Entry /\ e(i).object = order[i] /\ e(i).now = live[order[i]]
                      /\ e(i).fields = {f \in Fields : live[order[i]][f] # seen[order[i]][f]}
    OBVIOUS
  <2> DEFINE x == order[i]
             d == live[x]
             F == {f \in Fields : live[x][f] # seen[x][f]}
  <2>1. x \in Objects
    BY <1>2, <1>6
  <2>2. d \in Data
    BY <2>1 DEF GraphOK
  <2>3. F \in SUBSET Fields
    OBVIOUS
  <2>4. e(i) = [object |-> x, now |-> d, fields |-> F]
    BY <1>5
  <2> HIDE DEF x, d, F, e
  <2>5. e(i) \in Entry
    BY <2>1, <2>2, <2>3, <2>4 DEF Entry
  <2> QED BY <2>4, <2>5 DEF x, d, F
<1> HIDE DEF e
<1>8. cs \in Seq(Entry)
  BY <1>6, <1>7
<1>9. {cs[j].object : j \in DOMAIN cs} = Changed
  <2>1. {cs[j].object : j \in DOMAIN cs} = {order[j] : j \in DOMAIN order}
    BY <1>7
  <2> QED BY <2>1, <1>3 DEF ToSet
<1>10. SetOf(order) = [added |-> Added, removed |-> Removed, changed |-> cs]
  BY DEF SetOf, e
<1>11. \A j \in DOMAIN cs : LET c == cs[j] IN
         c.now = live[c.object] /\ c.fields = {f \in Fields : live[c.object][f] # seen[c.object][f]}
  BY <1>7
<1> HIDE DEF cs
<1>12. SetOf(order) \in ChangeSet
  BY <1>4, <1>8, <1>10 DEF ChangeSet
<1>13. SetOf(order).added = Added /\ SetOf(order).removed = Removed /\ SetOf(order).changed = cs
  BY <1>10
<1> HIDE DEF SetOf
<1>14. Differs(seen, live, SetOf(order))
  BY <1>9, <1>11, <1>13 DEF Differs, Added, Removed, Changed
<1> QED BY <1>12, <1>14

\* a notification adds a graph,
LEMMA NotifyKeeps ==
  ASSUME NEW H, NEW g, NEW p, NEW l, NEW k, NEW w, NEW R, Flow(H, g, p, l, k, w, R),
         NEW cs \in ChangeSet, Differs(l, g, cs)
  PROVE  \E G : Flow(G, g, Append(p, cs), g, k, w, R)
<1> DEFINE n == Len(p)
           G == [i \in 0..(n + 1) |-> IF i = n + 1 THEN g ELSE H[i]]
           p2 == Append(p, cs)
<1>1. /\ GraphOK(g) /\ History(H, p, l) /\ IdsOK(k) /\ KnownIn(k, H, n, w)
      /\ w \in Seq(Subscribers) /\ IsInjective(w) /\ RepsOK(R) /\ Followed(H, n, k, w, R)
      /\ n \in Nat /\ H[n] = l
  BY FlowIs
<1>2. /\ p \in Seq(ChangeSet) /\ \A i \in 0..n : GraphOK(H[i])
      /\ \A i \in 1..n : Differs(H[i - 1], H[i], p[i])
  BY <1>1 DEF History
<1> HIDE DEF n
<1>3. \A i \in 0..n : G[i] = H[i] /\ i \in 0..(n + 1)
  BY <1>1
<1>4. G[n + 1] = g
  BY <1>1
<1>5. p2 \in Seq(ChangeSet) /\ Len(p2) = n + 1 /\ (\A i \in 1..n : p2[i] = p[i]) /\ p2[n + 1] = cs
  BY <1>2 DEF n
<1> HIDE DEF G, p2
<1>6. \A i \in 0..(n + 1) : GraphOK(G[i])
  <2>1. \A i \in 0..(n + 1) : i \in 0..n \/ i = n + 1
    BY <1>1
  <2> QED BY <2>1, <1>1, <1>2, <1>3, <1>4
<1>7. \A i \in 1..(n + 1) : Differs(G[i - 1], G[i], p2[i])
  <2> SUFFICES ASSUME NEW i \in 1..(n + 1) PROVE Differs(G[i - 1], G[i], p2[i])
    OBVIOUS
  <2>1. CASE i \in 1..n
    <3>1. i \in 0..n /\ i - 1 \in 0..n
      BY <2>1, <1>1
    <3> QED BY <2>1, <3>1, <1>2, <1>3, <1>5
  <2>2. CASE i = n + 1
    <3>1. i - 1 = n /\ n \in 0..n
      BY <2>2, <1>1
    <3> QED BY <2>2, <3>1, <1>1, <1>3, <1>4, <1>5
  <2>3. i \in 1..n \/ i = n + 1
    BY <1>1
  <2> QED BY <2>1, <2>2, <2>3
<1>8. History(G, p2, g)
  BY <1>4, <1>5, <1>6, <1>7 DEF History
<1>9. KnownIn(k, G, n + 1, w)
  <2>1. 0 \in 0..n
    BY <1>1
  <2> QED BY <2>1, <1>1, <1>3 DEF KnownIn
<1>10. Followed(G, n + 1, k, w, R)
  BY <1>1, <1>3 DEF Followed
<1>11. Flow(G, g, p2, g, k, w, R)
  BY <1>1, <1>5, <1>8, <1>9, <1>10 DEF Flow
<1> QED BY <1>11 DEF p2

\* a space published anew to nobody gets its numbers anew,
LEMMA SetPublishedKeeps ==
  ASSUME NEW H, NEW g, NEW p, NEW l, NEW k, NEW R, Flow(H, g, p, l, k, <<>>, R), SameBelow(l, g)
  PROVE  Flow(H, g, p, l, InitIds(g, Root), <<>>, R)
<1> DEFINE m == InitIds(g, Root)
<1>1. /\ GraphOK(g) /\ History(H, p, l) /\ RepsOK(R) /\ Len(p) \in Nat /\ H[Len(p)] = l
  BY FlowIs
<1>2. IdsOK(m) /\ DOMAIN m.toId = Services(Below(g))
  BY <1>1, InitIdsIs
<1>3. Below(g) = Below(H[Len(p)]) /\ Len(p) \in 0..Len(p)
  BY <1>1 DEF SameBelow
<1> HIDE DEF m
<1>4. KnownIn(m, H, Len(p), <<>>)
  BY <1>2, <1>3 DEF KnownIn, Services, Self
<1>5. Followed(H, Len(p), m, <<>>, R)
  BY DEF Followed, ToSet
<1>6. <<>> \in Seq(Subscribers) /\ IsInjective(<<>>)
  BY DEF IsInjective
<1> QED BY <1>1, <1>2, <1>4, <1>5, <1>6 DEF Flow, m

\* a subscriber less does not matter,
LEMMA FewerKeeps ==
  ASSUME NEW H, NEW g, NEW p, NEW l, NEW k, NEW w, NEW R, Flow(H, g, p, l, k, w, R),
         NEW u \in Seq(Subscribers), IsInjective(u), ToSet(u) \subseteq ToSet(w)
  PROVE  Flow(H, g, p, l, k, u, R)
<1>1. /\ GraphOK(g) /\ History(H, p, l) /\ IdsOK(k) /\ KnownIn(k, H, Len(p), w)
      /\ RepsOK(R) /\ Followed(H, Len(p), k, w, R) /\ Len(p) \in Nat
  BY FlowIs
<1>2. Followed(H, Len(p), k, u, R)
  BY <1>1 DEF Followed
<1>3. 0 \in 0..Len(p)
  BY <1>1
<1>4. u # <<>> => w # <<>>
  <2> SUFFICES ASSUME w = <<>> PROVE u = <<>>
    OBVIOUS
  <2>1. ToSet(u) = {}
    BY DEF ToSet
  <2>2. \A i \in 1..Len(u) : FALSE
    <3>1. DOMAIN u = 1..Len(u)
      OBVIOUS
    <3>2. \A i \in DOMAIN u : u[i] \in ToSet(u)
      BY DEF ToSet
    <3> QED BY <2>1, <3>1, <3>2
  <2>3. Len(u) = 0
    <3>1. Len(u) \in Nat
      OBVIOUS
    <3> QED BY <2>2, <3>1
  <2> QED BY <2>3
<1>5. KnownIn(k, H, Len(p), u)
  BY <1>1, <1>3, <1>4 DEF KnownIn
<1> QED BY <1>1, <1>2, <1>5 DEF Flow

-----------------------------------------------------------------------------
\* Without a copy, there is none to follow.
LEMMA NoRoot ==
  ASSUME NEW r, RepOK(r)
  PROVE  r.root = Nil <=> NoCopy(r) /\ ~HasCopy(r)
<1>1. Nil \notin Nat
  BY ReplicationAssumption
<1>2. ASSUME HasCopy(r) PROVE r.root # Nil
  <2>1. r.root \in DOMAIN r.heap /\ r.heap \in Seq(Node)
    BY <1>2 DEF HasCopy, HeapOK
  <2>2. DOMAIN r.heap = 1..Len(r.heap)
    BY <2>1
  <2> QED BY <2>1, <2>2, <1>1
<1>3. NoCopy(r) => r.root = Nil
  BY DEF NoCopy
<1> QED BY <1>2, <1>3 DEF RepOK

Noone(p) == \A i \in DOMAIN p : p[i].added = {}
\* and a new one has a copy of the last graph, when no object waits to be added.
LEMMA JoinKeeps ==
  ASSUME NEW H, NEW g, NEW p, NEW l, NEW k, NEW w, NEW R, Flow(H, g, p, l, k, w, R), SameBelow(l, g),
         Noone(p), NEW s \in Subscribers, R[s].root = Nil
  PROVE  Flow(H, g, p, l, GetOrderedIds(k, g, Root).map, Append(w, s),
              [R EXCEPT ![s] = OnSubscribed(R[s], g, GetOrderedIds(k, g, Root).ids)])
<1> DEFINE n == Len(p)
           m == GetOrderedIds(k, g, Root).map
           q == OnSubscribed(R[s], g, GetOrderedIds(k, g, Root).ids)
           u == Append(w, s)
           Q == [R EXCEPT ![s] = q]
<1>1. /\ GraphOK(g) /\ History(H, p, l) /\ IdsOK(k) /\ KnownIn(k, H, n, w)
      /\ w \in Seq(Subscribers) /\ IsInjective(w) /\ RepsOK(R) /\ Followed(H, n, k, w, R)
      /\ n \in Nat /\ DOMAIN p = 1..n /\ H[n] = l
  BY FlowIs
<1>2. IsRep(R[s]) /\ NoCopy(R[s]) /\ ~HasCopy(R[s])
  <2>1. RepOK(R[s])
    BY <1>1 DEF RepsOK
  <2> QED BY <2>1, NoRoot DEF RepOK
<1>3. Joined(q, g, m)
  BY <1>1, <1>2, JoinIs
<1>4. IdsOK(m) /\ Extends(k, m) /\ DOMAIN m.toId = DOMAIN k.toId \cup Services(Below(g))
  BY <1>1, OrderedGives DEF Numbering
<1>5. RepOK(q) /\ HasCopy(q) /\ Follows(q, g, m)
  BY <1>3 DEF Joined
<1> HIDE DEF m, q, n
<1>6. Q = [x \in Subscribers |-> Q[x]] /\ \A x \in Subscribers : Q[x] = IF x = s THEN q ELSE R[x]
  <2>1. R = [x \in Subscribers |-> R[x]]
    BY <1>1 DEF RepsOK
  <2> QED BY <2>1
<1> HIDE DEF Q
<1>7. RepsOK(Q)
  BY <1>1, <1>5, <1>6 DEF RepsOK
<1>8. SameBelow(g, l)
  BY DEF SameBelow
<1>9. s \notin ToSet(w)
  BY <1>1, <1>2 DEF Followed
<1>10. u \in Seq(Subscribers) /\ IsInjective(u) /\ ToSet(u) = ToSet(w) \cup {s} /\ u # <<>>
  <2>1. Len(u) = Len(w) + 1 /\ Len(w) \in Nat
    BY <1>1
  <2>2. u # <<>>
    BY <2>1
  <2>3. u \in Seq(Subscribers) /\ ToSet(u) = ToSet(w) \cup {s} /\ IsInjective(u)
    BY <1>1, <1>9, AppendElems
  <2> QED BY <2>2, <2>3
<1> HIDE DEF u
<1>11. Followed(H, n, m, u, Q)
  <2> SUFFICES ASSUME NEW x \in ToSet(u) PROVE HasCopy(Q[x]) /\ \E b \in 0..n : Follows(Q[x], H[b], m)
    BY DEF Followed
  <2>1. x \in Subscribers
    BY <1>10 DEF ToSet
  <2>2. CASE x = s
    <3>1. Q[x] = q
      BY <2>1, <2>2, <1>6
    <3>2. Follows(q, l, m)
      BY <1>5, <1>8, FollowsSame
    <3>3. n \in 0..n
      BY <1>1
    <3> QED BY <3>1, <3>2, <3>3, <1>1, <1>5
  <2>3. CASE x # s
    <3>1. Q[x] = R[x] /\ x \in ToSet(w)
      BY <2>1, <2>3, <1>6, <1>10
    <3>2. HasCopy(R[x]) /\ \E b \in 0..n : Follows(R[x], H[b], k)
      BY <3>1, <1>1 DEF Followed
    <3>3. PICK b \in 0..n : Follows(R[x], H[b], k)
      BY <3>2
    <3>4. Follows(R[x], H[b], m)
      BY <3>3, <1>4, FollowsExtends
    <3> QED BY <3>1, <3>2, <3>4
  <2> QED BY <2>2, <2>3
<1>12. \A i \in 0..n : \A o \in Below(H[i]) : o \in Below(H[0])
  <2> SUFFICES ASSUME NEW i \in 0..n, NEW o \in Below(H[i]) PROVE o \in Below(H[0])
    OBVIOUS
  <2>1. \A j \in 1..i : p[j].added = {}
    BY <1>1 DEF Noone
  <2>2. i \in 0..Len(p)
    BY DEF n
  <2>3. \A j \in 0..i : o \in Below(H[j])
    BY <2>1, <2>2, <1>1, NoneAdded
  <2>4. 0 \in 0..i
    BY <1>1
  <2> QED BY <2>3, <2>4
<1>13. KnownIn(m, H, n, u)
  <2> SUFFICES ASSUME NEW o, Self(o) \in DOMAIN m.toId PROVE o \in Below(H[0])
    BY <1>10 DEF KnownIn
  <2>1. CASE Self(o) \in DOMAIN k.toId
    <3>1. \E i \in 0..n : o \in Below(H[i])
      <4>1. 0 \in 0..n
        BY <1>1
      <4> QED BY <4>1, <2>1, <1>1 DEF KnownIn
    <3> QED BY <3>1, <1>12
  <2>2. CASE Self(o) \in Services(Below(g))
    <3>1. o \in Below(g)
      BY <2>2 DEF Services, Self
    <3>2. o \in Below(H[n]) /\ n \in 0..n
      BY <3>1, <1>1 DEF SameBelow
    <3> QED BY <3>2, <1>12
  <2> QED BY <2>1, <2>2, <1>4
<1>14. Flow(H, g, p, l, m, u, Q)
  BY <1>1, <1>4, <1>7, <1>10, <1>11, <1>13 DEF Flow, n
<1> QED BY <1>14 DEF m, u, Q, q

\* A subscriber that is refused leaves the publisher with numbers for all there is.
LEMMA RefuseKeeps ==
  ASSUME NEW H, NEW g, NEW p, NEW l, NEW k, NEW w, NEW R, Flow(H, g, p, l, k, w, R), SameBelow(l, g),
         Noone(p)
  PROVE  Flow(H, g, p, l, GetOrderedIds(k, g, Root).map, w, R)
<1> DEFINE n == Len(p)
           m == GetOrderedIds(k, g, Root).map
<1>1. /\ GraphOK(g) /\ History(H, p, l) /\ IdsOK(k) /\ KnownIn(k, H, n, w)
      /\ w \in Seq(Subscribers) /\ IsInjective(w) /\ RepsOK(R) /\ Followed(H, n, k, w, R)
      /\ n \in Nat /\ DOMAIN p = 1..n /\ H[n] = l
  BY FlowIs
<1>2. IdsOK(m) /\ Extends(k, m) /\ DOMAIN m.toId = DOMAIN k.toId \cup Services(Below(g))
  BY <1>1, OrderedGives DEF Numbering
<1> HIDE DEF m, n
<1>3. Followed(H, n, m, w, R)
  <2> SUFFICES ASSUME NEW x \in ToSet(w) PROVE HasCopy(R[x]) /\ \E b \in 0..n : Follows(R[x], H[b], m)
    BY DEF Followed
  <2>1. HasCopy(R[x]) /\ \E b \in 0..n : Follows(R[x], H[b], k)
    BY <1>1 DEF Followed
  <2>2. PICK b \in 0..n : Follows(R[x], H[b], k)
    BY <2>1
  <2>3. Follows(R[x], H[b], m)
    BY <2>2, <1>2, FollowsExtends
  <2> QED BY <2>1, <2>3
<1>4. \A o \in Below(g) : o \in Below(H[n]) /\ o \in Below(H[0])
  <2> SUFFICES ASSUME NEW o \in Below(g) PROVE o \in Below(H[n]) /\ o \in Below(H[0])
    OBVIOUS
  <2>1. o \in Below(H[n]) /\ n \in 0..Len(p)
    BY <1>1 DEF SameBelow, n
  <2>2. \A j \in 1..n : p[j].added = {}
    BY <1>1 DEF Noone
  <2>3. \A j \in 0..n : o \in Below(H[j])
    BY <2>1, <2>2, <1>1, NoneAdded
  <2> QED BY <2>1, <2>3, <1>1
<1>5. KnownIn(m, H, n, w)
  <2> SUFFICES ASSUME NEW o, Self(o) \in DOMAIN m.toId
               PROVE  IF w = <<>> THEN \E i \in 0..n : o \in Below(H[i]) ELSE o \in Below(H[0])
    BY DEF KnownIn
  <2>1. CASE Self(o) \in DOMAIN k.toId
    BY <2>1, <1>1 DEF KnownIn
  <2>2. CASE Self(o) \in Services(Below(g))
    <3>1. o \in Below(g)
      BY <2>2 DEF Services, Self
    <3>2. o \in Below(H[0]) /\ 0 \in 0..n
      BY <3>1, <1>4, <1>1
    <3> QED BY <3>2
  <2> QED BY <2>1, <2>2, <1>2
<1>6. Flow(H, g, p, l, m, w, R)
  BY <1>1, <1>2, <1>3, <1>5 DEF Flow, n
<1> QED BY <1>6 DEF m

-----------------------------------------------------------------------------
\* A subscriber that gets its space gets the numbers it was sent before.
LEMMA SpacedIs ==
  ASSUME NEW r, RepOK(r), r.ready = FALSE
  PROVE  /\ RepOK(Respaced(r)) /\ Respaced(r).root = r.root /\ Respaced(r).heap = r.heap
         /\ HasCopy(r) => HasCopy(Respaced(r)) /\ NumbersOf(Respaced(r)) = NumbersOf(r)
<1>1. r = Rec(r.heap, r.root, r.space, r.ids, r.map, r.ready)
  BY DEF RepOK, IsRep, Rec
<1>2. None # Nil /\ None \notin Nat /\ Nil \notin Nat
  BY ReplicationAssumption
<1> DEFINE r0 == [r EXCEPT !.space = Nil]
           no == FALSE
           yes == TRUE
<1>3. r0 = Rec(r.heap, r.root, Nil, r.ids, r.map, r.ready)
  BY <1>1 DEF Rec
<1>4. /\ r0.heap = r.heap /\ r0.root = r.root /\ r0.space = Nil /\ r0.ids = r.ids /\ r0.map = r.map
      /\ r0.ready = r.ready
  BY <1>3 DEF Rec
<1> HIDE DEF r0
<1>5. CASE NoCopy(r)
  <2>1. r.root = Nil /\ r.heap = <<>> /\ r.ready = FALSE /\ r.map = NoIds /\ ~HasCopy(r)
    <3>1. ~HasCopy(r)
      BY <1>5, NoRoot DEF NoCopy
    <3> QED BY <3>1, <1>5 DEF NoCopy
  <2>2. InitializeIds(r0) = [r0 EXCEPT !.space = Nil]
    BY <2>1, <1>4 DEF InitializeIds
  <2>3. InitializeIds(r0) = Rec(r.heap, r.root, Nil, r.ids, r.map, r.ready)
    BY <2>2, <1>3 DEF Rec
  <2> DEFINE e == InitializeIds(r0)
  <2>4. e.heap = r.heap /\ e.root = r.root /\ e.space = Nil /\ e.map = r.map /\ e.ready = r.ready /\ e.ids = r.ids
    BY <2>3 DEF Rec
  <2>5. IsRep(e)
    <3>1. e = Rec(e.heap, e.root, e.space, e.ids, e.map, e.ready)
      BY <2>3, <2>4
    <3> HIDE DEF e
    <3> QED BY <3>1 DEF IsRep, Rec
  <2> HIDE DEF e
  <2>6. NoCopy(e)
    BY <2>1, <2>4 DEF NoCopy
  <2>7. RepOK(e) /\ e.root = r.root /\ e.heap = r.heap
    BY <2>4, <2>5, <2>6 DEF RepOK
  <2> QED BY <2>1, <2>7 DEF Respaced, e, r0
<1>6. CASE HasCopy(r)
  <2>1. r.root \in DOMAIN r.heap /\ HeapOK(r.heap) /\ r.heap \in Seq(Node)
    BY <1>6 DEF HasCopy, HeapOK
  <2>2. r.root \in Nat /\ r.root # Nil
    BY <2>1, <1>2
  <2>3. r.ready = FALSE
    OBVIOUS
  <2> DEFINE V == InitWithIds(r.heap, r.root, r.ids)
  <2>4. NumbersOf(r) = V
    BY <2>3 DEF NumbersOf
  <2>5. InitializeIds(r0) = [r0 EXCEPT !.space = r.root, !.ready = TRUE, !.map = InitWithIds(r0.heap, r.root, r0.ids)]
    BY <2>2, <1>4 DEF InitializeIds
  <2>6. InitializeIds(r0) = [[[r0 EXCEPT !.space = r.root] EXCEPT !.ready = yes] EXCEPT !.map = V]
    BY <2>5, <1>4
  <2> HIDE DEF yes, V
  <2>7. InitializeIds(r0) = Rec(r.heap, r.root, r.root, r.ids, V, yes)
    BY <2>6, <1>3 DEF Rec
  <2> DEFINE e == InitializeIds(r0)
  <2>8. e.heap = r.heap /\ e.root = r.root /\ e.space = r.root /\ e.map = V /\ e.ready = yes /\ e.ids = r.ids
    BY <2>7 DEF Rec
  <2>9. IsRep(e)
    <3>1. e = Rec(e.heap, e.root, e.space, e.ids, e.map, e.ready)
      BY <2>7, <2>8
    <3> HIDE DEF e
    <3> QED BY <3>1 DEF IsRep, Rec
  <2> HIDE DEF e
  <2>10. e.ready = TRUE
    BY <2>8 DEF yes
  <2>11. NumbersOf(e) = V
    BY <2>8, <2>10 DEF NumbersOf
  <2>12. HasCopy(e)
    <3>1. \A i \in DOMAIN V.toService : V.toService[i] \in Services(DOMAIN r.heap)
      BY <1>6, <2>4 DEF HasCopy
    <3> QED BY <3>1, <2>1, <2>8, <2>10, <2>11 DEF HasCopy
  <2>13. RepOK(e)
    BY <2>9, <2>12 DEF RepOK
  <2> QED BY <2>4, <2>8, <2>11, <2>12, <2>13 DEF Respaced, e, r0
<1> QED BY <1>5, <1>6 DEF RepOK

\* It follows the same graph as before.
LEMMA SetSpaceKeeps ==
  ASSUME NEW H, NEW g, NEW p, NEW l, NEW k, NEW w, NEW R, Flow(H, g, p, l, k, w, R),
         NEW s \in Subscribers, R[s].ready = FALSE
  PROVE  Flow(H, g, p, l, k, w, [R EXCEPT ![s] = Respaced(R[s])])
<1> DEFINE n == Len(p)
           q == Respaced(R[s])
           Q == [R EXCEPT ![s] = q]
<1>1. /\ GraphOK(g) /\ History(H, p, l) /\ IdsOK(k) /\ KnownIn(k, H, n, w)
      /\ w \in Seq(Subscribers) /\ IsInjective(w) /\ RepsOK(R) /\ Followed(H, n, k, w, R)
  BY FlowIs
<1>2. RepOK(R[s])
  BY <1>1 DEF RepsOK
<1>3. /\ RepOK(q) /\ q.root = R[s].root /\ q.heap = R[s].heap
      /\ HasCopy(R[s]) => HasCopy(q) /\ NumbersOf(q) = NumbersOf(R[s])
  BY <1>2, SpacedIs
<1> HIDE DEF q, n
<1>4. Q = [x \in Subscribers |-> Q[x]] /\ \A x \in Subscribers : Q[x] = IF x = s THEN q ELSE R[x]
  <2>1. R = [x \in Subscribers |-> R[x]]
    BY <1>1 DEF RepsOK
  <2> QED BY <2>1
<1> HIDE DEF Q
<1>5. RepsOK(Q)
  BY <1>1, <1>3, <1>4 DEF RepsOK
<1>6. Followed(H, n, k, w, Q)
  <2> SUFFICES ASSUME NEW x \in ToSet(w) PROVE HasCopy(Q[x]) /\ \E b \in 0..n : Follows(Q[x], H[b], k)
    BY DEF Followed
  <2>1. x \in Subscribers
    BY <1>1 DEF ToSet
  <2>2. HasCopy(R[x]) /\ \E b \in 0..n : Follows(R[x], H[b], k)
    BY <1>1 DEF Followed
  <2>3. CASE x = s
    <3>1. Q[x] = q
      BY <2>1, <2>3, <1>4
    <3>2. HasCopy(q) /\ NumbersOf(q) = NumbersOf(R[x]) /\ q.heap = R[x].heap /\ q.root = R[x].root
      BY <2>2, <2>3, <1>3
    <3> QED BY <3>1, <3>2, <2>2 DEF Follows
  <2>4. CASE x # s
    BY <2>1, <2>2, <2>4, <1>4
  <2> QED BY <2>3, <2>4
<1>7. Flow(H, g, p, l, k, w, Q)
  BY <1>1, <1>5, <1>6 DEF Flow, n
<1> QED BY <1>7 DEF Q, q

-----------------------------------------------------------------------------
Ready == \A s \in ToSet(subs) : replica[s].ready
Published(pub) == Flow([i \in 0..0 |-> seen], live, <<>>, seen, pub.map, subs, HeardBy(replica, pub, subs))
\* A publication is heard by all, and all follow the last graph after it.
LEMMA PublishKeeps ==
  ASSUME NEW H, Flow(H, live, pending, seen, ids, subs, replica), SameBelow(seen, live), Clean(pending),
         Ready, subs # <<>>, NEW removed, removed = ProcessNewObjects(ids, pending), Linked(removed),
         NEW order \in SetToSeqs(removed.new)
  PROVE  AllHear(replica, Publication(order, removed), subs) /\ Published(Publication(order, removed))
<1> DEFINE n == Len(pending)
           pub == Publication(order, removed)
           G == [i \in 0..0 |-> seen]
           k == pub.map
           Q == HeardBy(replica, pub, subs)
<1>1. /\ GraphOK(live) /\ History(H, pending, seen) /\ IdsOK(ids) /\ KnownIn(ids, H, n, subs)
      /\ subs \in Seq(Subscribers) /\ IsInjective(subs) /\ RepsOK(replica) /\ Followed(H, n, ids, subs, replica)
      /\ n \in Nat /\ GraphOK(seen)
  BY FlowIs
<1>2. /\ replica = [s \in Subscribers |-> replica[s]] /\ \A s \in Subscribers : RepOK(replica[s])
  BY <1>1 DEF RepsOK
<1>3. \A s \in ToSet(subs) : s \in Subscribers
  BY <1>1 DEF ToSet
<1> HIDE DEF n
<1>4. \A o : Self(o) \in DOMAIN ids.toId => o \in Below(H[0])
  BY <1>1 DEF KnownIn
<1>5. \A o : Always(H, n, o) => Self(o) \in DOMAIN ids.toId
  <2> SUFFICES ASSUME NEW o, Always(H, n, o) PROVE Self(o) \in DOMAIN ids.toId
    OBVIOUS
  <2>1. subs[1] \in ToSet(subs)
    <3>1. 1 \in DOMAIN subs
      BY <1>1
    <3> QED BY <3>1 DEF ToSet
  <2>2. PICK b \in 0..n : Follows(replica[subs[1]], H[b], ids)
    BY <2>1, <1>1 DEF Followed
  <2>3. PICK I : Agrees(NumbersOf(replica[subs[1]]), ids, Below(H[b]), I)
    BY <2>2 DEF Follows, FollowsBy
  <2>4. o \in Below(H[b])
    BY DEF Always
  <2> QED BY <2>3, <2>4 DEF Agrees, Self, Ports
<1>6. CanPublish(H)
  BY <1>1, <1>4, <1>5 DEF CanPublish, n
<1>7. Planned(pub, ids, H, pending, seen)
  BY <1>6, PublicationIs
<1> HIDE DEF pub
<1>8. ASSUME NEW s \in ToSet(subs)
      PROVE  OnPublish(replica[s], pub).out = "ok" /\ Caught(OnPublish(replica[s], pub).rep, replica[s], seen, k)
  <2>1. HasCopy(replica[s]) /\ IsRep(replica[s])
    BY <1>1, <1>2, <1>3 DEF Followed, RepOK
  <2>2. replica[s].ready = TRUE
    BY <2>1 DEF Ready, HasCopy
  <2>3. PICK b \in 0..n : Follows(replica[s], H[b], ids)
    BY <1>1 DEF Followed
  <2>4. CanHear(replica[s], H, b, ids)
    BY <2>1, <2>2, <2>3 DEF CanHear
  <2>5. b \in 0..Len(pending)
    BY DEF n
  <2> QED BY <1>1, <1>7, <2>4, <2>5, CaughtIs
<1>9. \A s \in ToSet(subs) : LET q == OnPublish(replica[s], pub).rep IN
        RepOK(q) /\ HasCopy(q) /\ Follows(q, seen, k)
  BY <1>8 DEF Caught, RepOK
<1>10. Q = [s \in Subscribers |-> Q[s]]
       /\ \A s \in Subscribers : Q[s] = IF s \in ToSet(subs) THEN OnPublish(replica[s], pub).rep ELSE replica[s]
  BY DEF HeardBy
<1> HIDE DEF Q
<1>11. RepsOK(Q)
  BY <1>2, <1>9, <1>10 DEF RepsOK
<1>12. History(G, <<>>, seen) /\ G[0] = seen
  BY <1>1, OneGraph
<1> HIDE DEF G
<1>13. Followed(G, 0, k, subs, Q)
  <2>1. 0 \in 0..0
    OBVIOUS
  <2> QED BY <2>1, <1>3, <1>9, <1>10, <1>12 DEF Followed
<1>14. IdsOK(k) /\ KnownIn(k, G, 0, subs)
  <2>1. NumbersOver(k, Below(seen))
    BY <1>7, PlannedLast
  <2>2. IdsOK(k) /\ DOMAIN k.toId = Services(Below(seen))
    BY <2>1 DEF NumbersOver
  <2>3. \A o : Self(o) \in DOMAIN k.toId => o \in Below(seen)
    BY <2>2 DEF Services, Self
  <2> QED BY <2>2, <2>3, <1>12 DEF KnownIn
<1>15. Len(<<>>) = 0
  OBVIOUS
<1>16. Flow(G, live, <<>>, seen, k, subs, Q)
  BY <1>1, <1>11, <1>12, <1>13, <1>14, <1>15 DEF Flow
<1> QED BY <1>8, <1>16 DEF AllHear, Published, pub, Q, G

\* What Publish does when everyone hears.
LEMMA DeliveredIs ==
  ASSUME subs \in Seq(Subscribers), IsInjective(subs), RepsOK(replica), NEW pub, AllHear(replica, pub, subs), Deliver(pub)
  PROVE  replica' = HeardBy(replica, pub, subs) /\ broken' = broken /\ pending' = <<>>
<1> DEFINE end == DeliverEnd([replica |-> replica, out |-> "ok", broken |-> broken], pub, subs)
<1>1. end = [replica |-> HeardBy(replica, pub, subs), out |-> "ok", broken |-> broken]
  <2>1. IsTable(replica)
    BY DEF RepsOK, IsTable
  <2> QED BY <2>1, DeliverIs
<1>2. replica' = end.replica /\ broken' = end.broken /\ pending' = IF end.out = "ok" THEN <<>> ELSE pending
  BY DEF Deliver, DeliverEnd, DeliverStep
<1> HIDE DEF end
<1> QED BY <1>1, <1>2

\* Without subscribers, and without removals, what has a number is below.
NoneRemoved(p) == \A i \in DOMAIN p : p[i].removed = {}
\* A publication that nobody hears removes nothing, so that all its numbers stay.
LEMMA UnheardKeeps ==
  ASSUME NEW H, NEW g, NEW p, NEW l, NEW k, NEW R, Flow(H, g, p, l, k, <<>>, R), NoneRemoved(p)
  PROVE  Flow([i \in 0..0 |-> l], g, <<>>, l, k, <<>>, R)
<1> DEFINE n == Len(p)
           G == [i \in 0..0 |-> l]
<1>1. /\ GraphOK(g) /\ History(H, p, l) /\ IdsOK(k) /\ KnownIn(k, H, n, <<>>) /\ RepsOK(R)
      /\ n \in Nat /\ DOMAIN p = 1..n /\ H[n] = l /\ GraphOK(l)
  BY FlowIs
<1>2. History(G, <<>>, l) /\ G[0] = l
  BY <1>1, OneGraph
<1> HIDE DEF G
<1>3. KnownIn(k, G, 0, <<>>)
  <2> SUFFICES ASSUME NEW o, Self(o) \in DOMAIN k.toId PROVE o \in Below(l)
    <3>1. 0 \in 0..0
      OBVIOUS
    <3> QED BY <3>1, <1>2 DEF KnownIn
  <2>1. PICK i \in 0..n : o \in Below(H[i])
    BY <1>1 DEF KnownIn
  <2>2. \A j \in (i + 1)..n : o \notin p[j].removed
    <3>1. \A j \in (i + 1)..n : j \in 1..n
      BY <1>1
    <3> QED BY <3>1, <1>1 DEF NoneRemoved
  <2>3. \A j \in i..n : o \in Below(H[j])
    BY <2>1, <2>2, <1>1, NotRemoved
  <2>4. n \in i..n
    BY <1>1
  <2> QED BY <2>3, <2>4, <1>1
<1>4. Followed(G, 0, k, <<>>, R) /\ IsInjective(<<>>) /\ <<>> \in Seq(Subscribers) /\ Len(<<>>) = 0
  BY DEF Followed, ToSet, IsInjective
<1> QED BY <1>1, <1>2, <1>3, <1>4 DEF Flow, G

-----------------------------------------------------------------------------
\* The inductive invariant: there are graphs such as the changes that are pending
\* tell them apart, and each follower has a copy of one of them.
FlowInv == broken = {} /\ \E H : Flow(H, live, pending, seen, ids, subs, replica)

\* FlowInv holds at first, and every step keeps it.
LEMMA InitFlow == Init => FlowInv
<1> SUFFICES ASSUME Init PROVE FlowInv
  OBVIOUS
<1> DEFINE G == [i \in 0..0 |-> live]
<1>1. /\ live \in Starts /\ seen = live /\ pending = <<>> /\ ids = InitIds(live, Root) /\ subs = <<>>
      /\ replica = [s \in Subscribers |-> Fresh] /\ broken = {}
  BY DEF Init
<1>2. GraphOK(live)
  BY <1>1, ReplicationAssumption DEF GraphOK
<1>3. History(G, <<>>, live) /\ G[0] = live
  BY <1>2, OneGraph
<1> HIDE DEF G
<1>4. IdsOK(ids) /\ DOMAIN ids.toId = Services(Below(live))
  BY <1>1, <1>2, InitIdsIs
<1>5. KnownIn(ids, G, 0, <<>>)
  <2>1. 0 \in 0..0
    OBVIOUS
  <2> QED BY <2>1, <1>3, <1>4 DEF KnownIn, Services, Self
<1>6. RepOK(Fresh)
  <2>1. IsRep(Fresh)
    BY DEF IsRep, Fresh
  <2>2. NoCopy(Fresh)
    BY DEF NoCopy, Fresh
  <2> QED BY <2>1, <2>2 DEF RepOK
<1>7. RepsOK(replica)
  BY <1>1, <1>6 DEF RepsOK
<1>8. Followed(G, 0, ids, <<>>, replica) /\ IsInjective(<<>>) /\ <<>> \in Seq(Subscribers) /\ Len(<<>>) = 0
  BY DEF Followed, ToSet, IsInjective
<1>9. Flow(G, live, pending, seen, ids, subs, replica)
  BY <1>1, <1>2, <1>3, <1>4, <1>5, <1>7, <1>8 DEF Flow
<1> QED BY <1>1, <1>9 DEF FlowInv

LEMMA EditFlow ==
  ASSUME FlowInv, NEW o \in Objects, Edit(o)
  PROVE  FlowInv'
<1>1. PICK H : Flow(H, live, pending, seen, ids, subs, replica)
  BY DEF FlowInv
<1>2. /\ seen' = seen /\ pending' = pending /\ ids' = ids /\ subs' = subs /\ replica' = replica /\ broken' = broken
  BY DEF Edit
<1>3. PICK data \in {[live[o] EXCEPT !.val = v] : v \in Values}
                   \cup {[live[o] EXCEPT !.link = x] : x \in Later(o) \cup {Nil}}
                   \cup {[live[o] EXCEPT !.members = xs] : xs \in UNION {SetToSeqs(X) : X \in SUBSET Later(o)}} :
        live' = [live EXCEPT ![o] = data]
  BY DEF Edit
<1>4. GraphOK(live)
  BY <1>1, FlowIs
<1>5. live[o] \in Data /\ Refs(live[o]) \subseteq Later(o)
  BY <1>4 DEF GraphOK, Ordered
<1>6. Later(o) \subseteq Objects
  BY LaterIs
<1> DEFINE d == live[o]
<1>7. d.members \in Seq(Objects) /\ d.val \in Values /\ d.link \in Objects \cup {Nil}
      /\ d = [members |-> d.members, val |-> d.val, link |-> d.link]
  BY <1>5 DEF Data
<1>8. ToSet(d.members) \subseteq Later(o) /\ {d.link} \ {Nil} \subseteq Later(o)
  BY <1>5 DEF Refs
<1> HIDE DEF d
<1>9. data \in Data /\ Refs(data) \subseteq Later(o)
  <2>1. CASE data \in {[d EXCEPT !.val = v] : v \in Values}
    <3>1. PICK v \in Values : data = [d EXCEPT !.val = v]
      BY <2>1
    <3>2. data = [members |-> d.members, val |-> v, link |-> d.link]
      BY <3>1, <1>7
    <3> QED BY <3>2, <1>7, <1>8 DEF Data, Refs
  <2>2. CASE data \in {[d EXCEPT !.link = x] : x \in Later(o) \cup {Nil}}
    <3>1. PICK x \in Later(o) \cup {Nil} : data = [d EXCEPT !.link = x]
      BY <2>2
    <3>2. data = [members |-> d.members, val |-> d.val, link |-> x]
      BY <3>1, <1>7
    <3>3. x \in Objects \cup {Nil}
      BY <1>6
    <3> QED BY <3>2, <3>3, <1>7, <1>8 DEF Data, Refs
  <2>3. CASE data \in {[d EXCEPT !.members = xs] : xs \in UNION {SetToSeqs(X) : X \in SUBSET Later(o)}}
    <3>0. PICK X \in SUBSET Later(o) : \E xs \in SetToSeqs(X) : data = [d EXCEPT !.members = xs]
      BY <2>3
    <3>1. PICK xs \in SetToSeqs(X) : data = [d EXCEPT !.members = xs]
      BY <3>0
    <3>2. data = [members |-> xs, val |-> d.val, link |-> d.link]
      BY <3>1, <1>7
    <3>3. xs \in Seq(X) /\ ToSet(xs) = X
      <4>1. X \subseteq Objects
        BY <1>6
      <4> QED BY <4>1, ObjectsFinite, SetToSeqsIs
    <3>4. xs \in Seq(Objects)
      <4>1. ToSet(xs) \subseteq Objects
        BY <3>3, <1>6
      <4> QED BY <3>3, <4>1, SeqOver
    <3> QED BY <3>2, <3>3, <3>4, <1>7, <1>8 DEF Data, Refs
  <2> QED BY <2>1, <2>2, <2>3, <1>3 DEF d
<1>10. GraphOK(live')
  BY <1>3, <1>4, <1>9, EditedIs
<1>11. Flow(H, live', pending, seen, ids, subs, replica)
  BY <1>1, <1>10, EditKeeps
<1> QED BY <1>2, <1>11 DEF FlowInv

LEMMA NotifyFlow ==
  ASSUME FlowInv, Notify
  PROVE  FlowInv'
<1>1. PICK H : Flow(H, live, pending, seen, ids, subs, replica)
  BY DEF FlowInv
<1>2. /\ seen' = live /\ live' = live /\ ids' = ids /\ subs' = subs /\ replica' = replica /\ broken' = broken
  BY DEF Notify
<1>3. PICK order \in SetToSeqs(Changed) : pending' = Append(pending, SetOf(order))
  BY DEF Notify, SetOf
<1>4. GraphOK(live) /\ GraphOK(seen)
  BY <1>1, FlowIs
<1>5. SetOf(order) \in ChangeSet /\ Differs(seen, live, SetOf(order))
  BY <1>4, NotifiedIs
<1>6. \E G : Flow(G, live, Append(pending, SetOf(order)), live, ids, subs, replica)
  BY <1>1, <1>5, NotifyKeeps
<1> QED BY <1>2, <1>3, <1>6 DEF FlowInv

LEMMA SetPublishedFlow ==
  ASSUME Lapses = {}, FlowInv, SetPublished
  PROVE  FlowInv'
<1>1. PICK H : Flow(H, live, pending, seen, ids, subs, replica)
  BY DEF FlowInv
<1>2. /\ seen' = seen /\ live' = live /\ pending' = pending /\ subs' = subs /\ replica' = replica /\ broken' = broken
      /\ ids' = InitIds(live, Root)
  BY DEF SetPublished
<1>3. subs = <<>> /\ ~Unnotified
  BY DEF SetPublished, Allowed
<1>4. SameBelow(seen, live)
  BY <1>3, QuietIs
<1>5. Flow(H, live, pending, seen, ids, <<>>, replica)
  BY <1>1, <1>3
<1>6. Flow(H, live, pending, seen, InitIds(live, Root), <<>>, replica)
  BY <1>4, <1>5, SetPublishedKeeps
<1>7. \E G : Flow(G, live', pending', seen', ids', subs', replica')
  BY <1>2, <1>3, <1>6
<1> QED BY <1>2, <1>7 DEF FlowInv

LEMMA AddSubscriberFlow ==
  ASSUME Lapses = {}, FlowInv, NEW s \in Subscribers, AddSubscriber(s)
  PROVE  FlowInv'
<1>1. PICK H : Flow(H, live, pending, seen, ids, subs, replica)
  BY DEF FlowInv
<1> DEFINE ordered == GetOrderedIds(ids, live, Root)
<1>2. /\ seen' = seen /\ live' = live /\ pending' = pending /\ broken' = broken
      /\ subs' = Append(subs, s) /\ ids' = ordered.map
      /\ replica' = [replica EXCEPT ![s] = OnSubscribed(replica[s], live, ordered.ids)]
  <2>1. /\ ids' = Snapshot.map
        /\ replica' = [replica EXCEPT ![s] = OnSubscribed(replica[s], Snapshot.space, Snapshot.ids)]
    <3> HIDE DEF ordered
    <3> QED BY DEF AddSubscriber
  <2>2. Snapshot.map = ordered.map /\ Snapshot.ids = ordered.ids /\ Snapshot.space = live
    BY DEF Snapshot
  <2>3. /\ seen' = seen /\ live' = live /\ pending' = pending /\ broken' = broken
        /\ subs' = Append(subs, s)
    BY DEF AddSubscriber
  <2> QED BY <2>1, <2>2, <2>3
<1>3. ~Unnotified /\ replica[s].root = Nil /\ Noone(pending)
  BY DEF AddSubscriber, Allowed, Noone
<1>4. SameBelow(seen, live)
  BY <1>3, QuietIs
<1>5. Flow(H, live, pending, seen, ordered.map, Append(subs, s),
           [replica EXCEPT ![s] = OnSubscribed(replica[s], live, ordered.ids)])
  BY <1>1, <1>3, <1>4, JoinKeeps
<1> HIDE DEF ordered
<1>6. \E G : Flow(G, live', pending', seen', ids', subs', replica')
  BY <1>2, <1>5
<1> QED BY <1>2, <1>6 DEF FlowInv

LEMMA RefuseSubscriberFlow ==
  ASSUME Lapses = {}, FlowInv, RefuseSubscriber
  PROVE  FlowInv'
<1>1. PICK H : Flow(H, live, pending, seen, ids, subs, replica)
  BY DEF FlowInv
<1> DEFINE map == GetOrderedIds(ids, live, Root).map
<1>2. /\ seen' = seen /\ live' = live /\ pending' = pending /\ subs' = subs /\ replica' = replica
      /\ broken' = broken /\ ids' = map
  <2>1. ids' = Snapshot.map
    <3> HIDE DEF map
    <3> QED BY DEF RefuseSubscriber
  <2>2. Snapshot.map = map
    BY DEF Snapshot
  <2>3. /\ seen' = seen /\ live' = live /\ pending' = pending /\ subs' = subs /\ replica' = replica
        /\ broken' = broken
    BY DEF RefuseSubscriber
  <2> QED BY <2>1, <2>2, <2>3
<1>3. ~Unnotified /\ Noone(pending)
  BY DEF RefuseSubscriber, Allowed, Noone
<1>4. SameBelow(seen, live)
  BY <1>3, QuietIs
<1>5. Flow(H, live, pending, seen, map, subs, replica)
  BY <1>1, <1>3, <1>4, RefuseKeeps
<1> HIDE DEF map
<1>6. \E G : Flow(G, live', pending', seen', ids', subs', replica')
  BY <1>2, <1>5
<1> QED BY <1>2, <1>6 DEF FlowInv

LEMMA RemoveSubscriberFlow ==
  ASSUME FlowInv, NEW s \in Subscribers, RemoveSubscriber(s)
  PROVE  FlowInv'
<1>1. PICK H : Flow(H, live, pending, seen, ids, subs, replica)
  BY DEF FlowInv
<1>2. /\ seen' = seen /\ live' = live /\ pending' = pending /\ broken' = broken /\ ids' = ids /\ replica' = replica
      /\ s \in ToSet(subs) /\ subs' = RemoveFirst(subs, s)
  BY DEF RemoveSubscriber
<1>3. subs \in Seq(Subscribers) /\ IsInjective(subs)
  BY <1>1, FlowIs
<1>4. subs' \in Seq(Subscribers) /\ IsInjective(subs') /\ ToSet(subs') = ToSet(subs) \ {s}
  BY <1>2, <1>3, RemoveFirstIs
<1>5. ToSet(subs') \subseteq ToSet(subs)
  BY <1>4
<1>6. Flow(H, live, pending, seen, ids, subs', replica)
  BY <1>1, <1>4, <1>5, FewerKeeps
<1> QED BY <1>2, <1>6 DEF FlowInv

LEMMA ClearSubscribersFlow ==
  ASSUME FlowInv, ClearSubscribers
  PROVE  FlowInv'
<1>1. PICK H : Flow(H, live, pending, seen, ids, subs, replica)
  BY DEF FlowInv
<1>2. /\ seen' = seen /\ live' = live /\ pending' = pending /\ broken' = broken /\ ids' = ids /\ replica' = replica
      /\ subs' = <<>>
  BY DEF ClearSubscribers
<1>3. <<>> \in Seq(Subscribers) /\ IsInjective(<<>>) /\ ToSet(<<>>) \subseteq ToSet(subs)
  BY DEF IsInjective, ToSet
<1>4. Flow(H, live, pending, seen, ids, <<>>, replica)
  BY <1>1, <1>3, FewerKeeps
<1>5. \E G : Flow(G, live', pending', seen', ids', subs', replica')
  BY <1>2, <1>4
<1> QED BY <1>2, <1>5 DEF FlowInv

\* A space that is set again changes nothing, unless that is a lapse.
LEMMA SetSpaceIs ==
  ASSUME Lapses = {}, NEW s \in Subscribers, SetSpace(s), NEW R, R = replica, RepsOK(R)
  PROVE  /\ broken' = broken /\ subs' = subs /\ live' = live
         /\ \/ replica' = R
            \/ R[s].ready = FALSE /\ replica' = [R EXCEPT ![s] = Respaced(R[s])]
<1>1. ~TooFewIds(R[s]) /\ (R[s].ready => Respaced(R[s]) = R[s])
  BY DEF SetSpace, Allowed
<1>2. /\ broken' = broken /\ subs' = subs /\ live' = live
      /\ replica' = [R EXCEPT ![s] = Respaced(R[s])]
  BY <1>1 DEF SetSpace
<1>3. R = [x \in Subscribers |-> R[x]] /\ R[s].ready \in BOOLEAN
  <2>1. RepOK(R[s]) /\ R = [x \in Subscribers |-> R[x]]
    BY DEF RepsOK
  <2> QED BY <2>1 DEF RepOK, NoCopy, HasCopy
<1>4. CASE R[s].ready = FALSE
  BY <1>2, <1>4
<1>5. CASE R[s].ready = TRUE
  <2>1. Respaced(R[s]) = R[s]
    BY <1>1, <1>5
  <2>2. [R EXCEPT ![s] = R[s]] = R
    BY <1>3
  <2> QED BY <1>2, <2>1, <2>2
<1> QED BY <1>3, <1>4, <1>5

LEMMA SetSpaceFlow ==
  ASSUME Lapses = {}, FlowInv, NEW s \in Subscribers, SetSpace(s)
  PROVE  FlowInv'
<1>1. PICK H : Flow(H, live, pending, seen, ids, subs, replica)
  BY DEF FlowInv
<1>2. seen' = seen /\ pending' = pending /\ ids' = ids
  BY DEF SetSpace
<1>3. RepsOK(replica)
  BY <1>1, FlowIs
<1>4. /\ broken' = broken /\ subs' = subs /\ live' = live
      /\ \/ replica' = replica
         \/ replica[s].ready = FALSE /\ replica' = [replica EXCEPT ![s] = Respaced(replica[s])]
  BY <1>3, SetSpaceIs
<1>5. Flow(H, live, pending, seen, ids, subs, replica')
  <2>1. CASE replica' = replica
    BY <1>1, <2>1
  <2>2. CASE replica[s].ready = FALSE /\ replica' = [replica EXCEPT ![s] = Respaced(replica[s])]
    <3>1. Flow(H, live, pending, seen, ids, subs, [replica EXCEPT ![s] = Respaced(replica[s])])
      BY <1>1, <2>2, SetSpaceKeeps
    <3> QED BY <2>2, <3>1
  <2> QED BY <1>4, <2>1, <2>2
<1>6. \E G : Flow(G, live', pending', seen', ids', subs', replica')
  BY <1>2, <1>4, <1>5
<1> QED BY <1>4, <1>6 DEF FlowInv

\* A publication reaches all subscribers.
LEMMA PublishReaches ==
  ASSUME Lapses = {}, FlowInv, Publish
  PROVE  \E pub : /\ replica' = HeardBy(replica, pub, subs) /\ broken' = broken /\ pending' = <<>> /\ ids' = pub.map
                  /\ Published(pub)
<1>1. PICK H : Flow(H, live, pending, seen, ids, subs, replica)
  BY DEF FlowInv
<1>2. SameBelow(seen, live)
  <2>1. ~Unnotified
    BY DEF Publish, Allowed
  <2> QED BY <2>1, QuietIs
<1>3. Clean(pending)
  <2>1. ~ChangedAndRemoved
    BY DEF Publish, Allowed
  <2> QED BY <2>1 DEF ChangedAndRemoved, Clean
<1>4. Ready /\ subs # <<>>
  BY DEF Publish, Allowed, Ready
<1>5. PICK removed \in {ProcessNewObjects(ids, pending)} :
        /\ Allowed("linked", \E o \in Below(live) \ removed.new : \E p \in Ports :
                              HasId(removed.map, Self(o)) /\ ~HasId(removed.map, <<o, p>>))
        /\ \E publication \in {Publication(order, removed) : order \in SetToSeqs(removed.new)} :
             ids' = publication.map /\ Deliver(publication)
  BY DEF Publish
<1>6. Linked(removed)
  BY <1>5 DEF Linked, Allowed
<1>7. PICK order \in SetToSeqs(removed.new) :
        ids' = Publication(order, removed).map /\ Deliver(Publication(order, removed))
  BY <1>5
<1> DEFINE pub == Publication(order, removed)
<1>8. AllHear(replica, pub, subs) /\ Published(pub)
  <2>1. removed = ProcessNewObjects(ids, pending)
    BY <1>5
  <2> QED BY <1>1, <1>2, <1>3, <1>4, <1>6, <2>1, PublishKeeps
<1>9. ids' = pub.map /\ Deliver(pub)
  BY <1>7
<1> HIDE DEF pub
<1>10. subs \in Seq(Subscribers) /\ IsInjective(subs) /\ RepsOK(replica)
  BY <1>1, FlowIs
<1>11. replica' = HeardBy(replica, pub, subs) /\ broken' = broken /\ pending' = <<>>
  BY <1>8, <1>9, <1>10, DeliveredIs
<1> QED BY <1>8, <1>9, <1>11

LEMMA PublishFlow ==
  ASSUME Lapses = {}, FlowInv, Publish
  PROVE  FlowInv'
<1>1. PICK pub : /\ replica' = HeardBy(replica, pub, subs) /\ broken' = broken /\ pending' = <<>> /\ ids' = pub.map
                 /\ Published(pub)
  BY PublishReaches
<1>2. live' = live /\ seen' = seen /\ subs' = subs
  BY DEF Publish
<1>3. Flow([i \in 0..0 |-> seen], live, <<>>, seen, pub.map, subs, HeardBy(replica, pub, subs))
  BY <1>1 DEF Published
<1>4. \E G : Flow(G, live', pending', seen', ids', subs', replica')
  BY <1>1, <1>2, <1>3
<1> QED BY <1>1, <1>4 DEF FlowInv

LEMMA PublishUnheardFlow ==
  ASSUME Lapses = {}, FlowInv, PublishUnheard
  PROVE  FlowInv'
<1>1. PICK H : Flow(H, live, pending, seen, ids, subs, replica)
  BY DEF FlowInv
<1>2. /\ seen' = seen /\ live' = live /\ pending' = <<>> /\ broken' = broken /\ ids' = ids /\ subs' = subs
      /\ replica' = replica /\ subs = <<>>
  BY DEF PublishUnheard
<1>3. NoneRemoved(pending)
  BY DEF PublishUnheard, Allowed, NoneRemoved
<1>4. Flow(H, live, pending, seen, ids, <<>>, replica)
  BY <1>1, <1>2
<1>5. Flow([i \in 0..0 |-> seen], live, <<>>, seen, ids, <<>>, replica)
  BY <1>3, <1>4, UnheardKeeps
<1>6. \E G : Flow(G, live', pending', seen', ids', subs', replica')
  BY <1>2, <1>5
<1> QED BY <1>2, <1>6 DEF FlowInv

\* All actions together.
LEMMA StepFlow ==
  ASSUME Lapses = {}
  PROVE  FlowInv /\ [Next]_vars => FlowInv'
<1> SUFFICES ASSUME FlowInv, [Next]_vars PROVE FlowInv'
  OBVIOUS
<1>1. CASE UNCHANGED vars
  BY <1>1 DEF FlowInv, vars
<1>2. CASE Next
  BY <1>2, EditFlow, NotifyFlow, SetPublishedFlow, AddSubscriberFlow, RefuseSubscriberFlow,
     RemoveSubscriberFlow, ClearSubscribersFlow, SetSpaceFlow, PublishFlow, PublishUnheardFlow DEF Next
<1> QED BY <1>1, <1>2

\* FlowInv is an invariant of applications without lapse.
LEMMA FlowAlways ==
  ASSUME Lapses = {}
  PROVE  Spec => []FlowInv
BY InitFlow, StepFlow, PTL DEF Spec

-----------------------------------------------------------------------------
\* It implies the type invariant,
LEMMA FlowType == FlowInv => TypeOK
<1> SUFFICES ASSUME FlowInv PROVE TypeOK
  OBVIOUS
<1>1. PICK H : Flow(H, live, pending, seen, ids, subs, replica)
  BY DEF FlowInv
<1>2. /\ IdsOK(ids) /\ subs \in Seq(Subscribers) /\ RepsOK(replica) /\ Followed(H, Len(pending), ids, subs, replica)
  BY <1>1, FlowIs
<1>3. MapOK(ids, Services(Objects))
  BY <1>2 DEF IdsOK
<1>4. \A s \in DOMAIN ids.toId : s[1] \in Objects /\ ids.toId[s] \in 1..ids.last
  <2>1. \A s \in DOMAIN ids.toId : ids.toId[s] \in 1..ids.last
    BY <1>3, MapNumbers
  <2>2. DOMAIN ids.toId \subseteq Services(Objects)
    BY <1>3 DEF MapOK
  <2> QED BY <2>1, <2>2 DEF Services
<1>5. \A n \in DOMAIN ids.toService : n \in 1..ids.last
  BY <1>3 DEF MapOK
<1>6. \A s \in Subscribers : RepOK(replica[s])
  BY <1>2 DEF RepsOK
<1>7. \A s \in ToSet(subs) : replica[s].root # Nil
  <2> SUFFICES ASSUME NEW s \in ToSet(subs) PROVE replica[s].root # Nil
    OBVIOUS
  <2>1. HasCopy(replica[s])
    BY <1>2 DEF Followed
  <2>2. RepOK(replica[s])
    BY <1>2, <1>6 DEF ToSet
  <2> QED BY <2>1, <2>2, NoRoot
<1>8. ASSUME NEW s \in Subscribers
      PROVE  /\ replica[s].ready => replica[s].space \in DOMAIN replica[s].heap
             /\ \A n \in DOMAIN replica[s].map.toService :
                  replica[s].map.toService[n][1] \in DOMAIN replica[s].heap
  <2> DEFINE r == replica[s]
  <2>1. RepOK(r)
    BY <1>6
  <2> HIDE DEF r
  <2>2. r.map = NoIds => DOMAIN r.map.toService = {}
    BY DEF NoIds
  <2>3. CASE NoCopy(r)
    BY <2>2, <2>3 DEF NoCopy, r
  <2>4. CASE HasCopy(r)
    <3>1. r.ready = TRUE \/ r.ready = FALSE
      BY <2>4 DEF HasCopy
    <3>2. CASE r.ready = TRUE
      <4>1. NumbersOf(r) = r.map
        BY <3>2 DEF NumbersOf
      <4>2. r.space = r.root /\ r.root \in DOMAIN r.heap
        BY <2>4, <3>2 DEF HasCopy
      <4>3. \A n \in DOMAIN r.map.toService : r.map.toService[n] \in Services(DOMAIN r.heap)
        BY <2>4, <4>1 DEF HasCopy
      <4>4. \A x \in Services(DOMAIN r.heap) : x[1] \in DOMAIN r.heap
        BY DEF Services
      <4> QED BY <4>2, <4>3, <4>4 DEF r
    <3>3. CASE r.ready = FALSE
      <4>1. r.map = NoIds
        BY <2>4, <3>3 DEF HasCopy
      <4> QED BY <4>1, <2>2, <3>3 DEF r
    <3> QED BY <3>1, <3>2, <3>3
  <2> QED BY <2>1, <2>3, <2>4 DEF RepOK
<1>9. broken \subseteq Subscribers
  BY DEF FlowInv
<1> QED BY <1>4, <1>5, <1>7, <1>8, <1>9 DEF TypeOK

\* Numbers and instances stay within what has been handed out, subscriptions are
\* of subscribers that have a copy, and only those with a space are ready: for any
\* objects, subscribers and edits, as long as none of the lapses happens.
THEOREM TypeCorrect ==
  ASSUME Lapses = {}
  PROVE  Spec => []TypeOK
BY FlowAlways, FlowType, PTL

\* A follower's copy, when nothing is pending.
LEMMA FollowsLive ==
  ASSUME NEW H, NEW g, NEW l, NEW k, NEW w, NEW R, Flow(H, g, <<>>, l, k, w, R), SameBelow(l, g),
         NEW s \in ToSet(w)
  PROVE  HasCopy(R[s]) /\ Follows(R[s], g, k)
<1>1. Followed(H, 0, k, w, R) /\ H[0] = l
  <2>1. Len(<<>>) = 0
    OBVIOUS
  <2> QED BY <2>1, FlowIs
<1>2. HasCopy(R[s]) /\ \E b \in 0..0 : Follows(R[s], H[b], k)
  BY <1>1 DEF Followed
<1>3. \A b \in 0..0 : b = 0
  OBVIOUS
<1>4. Follows(R[s], l, k)
  BY <1>1, <1>2, <1>3
<1> QED BY <1>2, <1>4, FollowsSame

\* A copy that follows a graph looks like it.
LEMMA FollowsView ==
  ASSUME NEW r, HasCopy(r), NEW g, GraphOK(g), NEW k, Follows(r, g, k)
  PROVE  View(r.heap)[r.root] = View(g)[Root] /\ Matched(Walk(g)[Root], Walk(r.heap)[r.root], k, NumbersOf(r))
<1>1. PICK I : FollowsBy(r.heap, r.root, NumbersOf(r), g, k, I)
  BY DEF Follows
<1>2. HeapOK(r.heap)
  BY DEF HasCopy
<1> QED BY <1>1, <1>2, FollowsWalk

\* and that the numbers agree.
LEMMA FlowAgrees == FlowInv => NumbersAgree
<1> SUFFICES ASSUME FlowInv, ~Unnotified, pending = <<>>, NEW s \in ToSet(subs), replica[s].ready
             PROVE  Matched(Walk(live)[Root], Walk(replica[s].heap)[replica[s].root], ids, replica[s].map)
  BY DEF NumbersAgree, Matched
<1>1. PICK H : Flow(H, live, <<>>, seen, ids, subs, replica)
  BY DEF FlowInv
<1>2. SameBelow(seen, live)
  BY QuietIs
<1>3. HasCopy(replica[s]) /\ Follows(replica[s], live, ids)
  BY <1>1, <1>2, FollowsLive
<1>4. GraphOK(live)
  BY <1>1, FlowIs
<1>5. NumbersOf(replica[s]) = replica[s].map
  BY DEF NumbersOf
<1> QED BY <1>3, <1>4, <1>5, FollowsView

\* Whenever a follower has been told everything, the walks over the space and over
\* its copy meet services under the same numbers, and by its number the follower
\* finds each one.
THEOREM NumbersAlwaysAgree ==
  ASSUME Lapses = {}
  PROVE  Spec => []NumbersAgree
BY FlowAlways, FlowAgrees, PTL

\* No publication makes a subscriber look for a service it does not have, and
\* each one that has subscribers is over with nothing pending.
THEOREM EveryoneHears ==
  ASSUME Lapses = {}
  PROVE  Spec => EveryServiceKnown
<1>1. FlowInv /\ [Next]_vars => [broken' = broken /\ (Publish => pending' = <<>>)]_vars
  <2> SUFFICES ASSUME FlowInv, Next PROVE broken' = broken /\ (Publish => pending' = <<>>)
    OBVIOUS
  <2>1. FlowInv'
    BY StepFlow
  <2>2. broken' = broken
    BY <2>1 DEF FlowInv
  <2>3. Publish => pending' = <<>>
    BY PublishReaches
  <2> QED BY <2>2, <2>3
<1> QED BY <1>1, FlowAlways, PTL DEF Spec, EveryServiceKnown

-----------------------------------------------------------------------------
\* What a walk over the copy of a subscriber sees.
Looks(r) == IF r.root = Nil THEN None ELSE View(r.heap)[r.root]
LEMMA LooksLike ==
  ASSUME NEW r, RepOK(r), HasCopy(r), NEW g, GraphOK(g), NEW k, Follows(r, g, k)
  PROVE  Looks(r) = View(g)[Root]
<1>1. r.root # Nil
  BY NoRoot
<1>2. View(r.heap)[r.root] = View(g)[Root]
  BY FollowsView
<1> QED BY <1>1, <1>2 DEF Looks

Copies == [s \in Subscribers |-> Looks(replica[s])]
\* The copies before and after a step, as the abstract specification sees them.
LEMMA CopiesAre == Copies = [s \in Subscribers |-> Copy(s)] /\ Copies' = [s \in Subscribers |-> Copy(s)']
BY DEF Copies, Looks, Copy

\* The steps of the detailed specification are steps of SpaceMirror, or leave its state alone.
LEMMA MirrorInit == Init => Mirror!Init
<1> SUFFICES ASSUME Init PROVE Mirror!Init
  OBVIOUS
<1>1. replica = [s \in Subscribers |-> Fresh] /\ subs = <<>>
  BY DEF Init
<1>2. Fresh.root = Nil
  BY DEF Fresh
<1>3. \A s \in Subscribers : Copy(s) = None
  BY <1>1, <1>2 DEF Copy
<1>4. ToSet(subs) = {}
  BY <1>1 DEF ToSet
<1> QED BY <1>3, <1>4 DEF Mirror!Init

\* The mirrored step is of the copies and of who follows.
LEMMA MirrorChange ==
  ASSUME Copies' = Copies, subs' = subs
  PROVE  Mirror!Change
<1>1. ToSet(subs)' = ToSet(subs)
  OBVIOUS
<1> QED BY <1>1, CopiesAre DEF Mirror!Change

LEMMA MirrorAdd ==
  ASSUME Lapses = {}, FlowInv, NEW s \in Subscribers, AddSubscriber(s)
  PROVE  Mirror!Join(s)
<1>1. PICK H : Flow(H, live, pending, seen, ids, subs, replica)
  BY DEF FlowInv
<1> DEFINE ordered == GetOrderedIds(ids, live, Root)
           q == OnSubscribed(replica[s], live, ordered.ids)
<1>2. live' = live /\ subs' = Append(subs, s) /\ replica' = [replica EXCEPT ![s] = q]
  <2>1. replica' = [replica EXCEPT ![s] = OnSubscribed(replica[s], Snapshot.space, Snapshot.ids)]
    <3> HIDE DEF ordered, q
    <3> QED BY DEF AddSubscriber
  <2>2. Snapshot.ids = ordered.ids /\ Snapshot.space = live
    BY DEF Snapshot
  <2>3. live' = live /\ subs' = Append(subs, s)
    BY DEF AddSubscriber
  <2> QED BY <2>1, <2>2, <2>3
<1>3. replica[s].root = Nil
  BY DEF AddSubscriber, Allowed
<1>4. /\ GraphOK(live) /\ IdsOK(ids) /\ subs \in Seq(Subscribers) /\ RepsOK(replica)
      /\ Followed(H, Len(pending), ids, subs, replica)
  BY <1>1, FlowIs
<1>5. RepOK(replica[s]) /\ replica = [x \in Subscribers |-> replica[x]]
  BY <1>4 DEF RepsOK
<1>6. NoCopy(replica[s]) /\ ~HasCopy(replica[s]) /\ IsRep(replica[s])
  <2>1. NoCopy(replica[s]) /\ ~HasCopy(replica[s])
    BY <1>3, <1>5, NoRoot
  <2> QED BY <2>1, <1>5 DEF RepOK
<1>7. Joined(q, live, ordered.map)
  BY <1>4, <1>6, JoinIs
<1>8. Looks(q) = View(live)[Root]
  <2>1. RepOK(q) /\ HasCopy(q) /\ Follows(q, live, ordered.map)
    BY <1>7 DEF Joined
  <2> HIDE DEF q, ordered
  <2> QED BY <2>1, <1>4, LooksLike
<1> HIDE DEF q
<1>9. \A x \in Subscribers : replica'[x] = IF x = s THEN q ELSE replica[x]
  BY <1>2, <1>5
<1>10. Copies' = [Copies EXCEPT ![s] = View(live)[Root]]
  <2>1. Copies' = [x \in Subscribers |-> Looks(replica'[x])]
    BY DEF Copies, Looks
  <2>2. \A x \in Subscribers : Looks(replica'[x]) = IF x = s THEN View(live)[Root] ELSE Looks(replica[x])
    BY <1>8, <1>9
  <2>3. [Copies EXCEPT ![s] = View(live)[Root]]
          = [x \in Subscribers |-> IF x = s THEN View(live)[Root] ELSE Looks(replica[x])]
    BY DEF Copies
  <2> QED BY <2>1, <2>2, <2>3
<1>11. s \notin ToSet(subs)
  BY <1>4, <1>6 DEF Followed
<1>12. ToSet(subs') = ToSet(subs) \cup {s}
  BY <1>2, <1>4, AppendElems
<1>13. ToSet(subs)' = ToSet(subs')
  OBVIOUS
<1>14. (View(live)[Root])' = View(live)[Root]
  BY <1>2 DEF View, Root
<1> QED BY <1>10, <1>11, <1>12, <1>13, <1>14, CopiesAre DEF Mirror!Join

LEMMA MirrorLeave ==
  ASSUME ToSet(subs') \subseteq ToSet(subs), Copies' = Copies, live' = live
  PROVE  Mirror!Leave
<1>1. ToSet(subs)' = ToSet(subs')
  OBVIOUS
<1>2. (View(live)[Root])' = View(live)[Root]
  BY DEF View, Root
<1> QED BY <1>1, <1>2, CopiesAre DEF Mirror!Leave

LEMMA MirrorSetSpace ==
  ASSUME Lapses = {}, FlowInv, NEW s \in Subscribers, SetSpace(s)
  PROVE  Mirror!Change
<1>1. PICK H : Flow(H, live, pending, seen, ids, subs, replica)
  BY DEF FlowInv
<1>2. RepsOK(replica)
  BY <1>1, FlowIs
<1>3. RepOK(replica[s]) /\ replica = [x \in Subscribers |-> replica[x]]
  BY <1>2 DEF RepsOK
<1>4. /\ subs' = subs
      /\ \/ replica' = replica
         \/ replica[s].ready = FALSE /\ replica' = [replica EXCEPT ![s] = Respaced(replica[s])]
  BY <1>2, SetSpaceIs
<1>5. \A x \in Subscribers : Looks(replica'[x]) = Looks(replica[x])
  <2>1. CASE replica' = replica
    BY <2>1
  <2>2. CASE replica[s].ready = FALSE /\ replica' = [replica EXCEPT ![s] = Respaced(replica[s])]
    <3>1. Respaced(replica[s]).root = replica[s].root /\ Respaced(replica[s]).heap = replica[s].heap
      BY <1>3, <2>2, SpacedIs
    <3>2. Looks(Respaced(replica[s])) = Looks(replica[s])
      BY <3>1 DEF Looks
    <3>3. \A x \in Subscribers : replica'[x] = IF x = s THEN Respaced(replica[s]) ELSE replica[x]
      BY <1>3, <2>2
    <3> QED BY <3>2, <3>3
  <2> QED BY <1>4, <2>1, <2>2
<1>6. Copies' = Copies
  <2>1. Copies' = [x \in Subscribers |-> Looks(replica'[x])]
    BY DEF Copies, Looks
  <2> QED BY <2>1, <1>5 DEF Copies
<1> QED BY <1>4, <1>6, MirrorChange

LEMMA MirrorPublish ==
  ASSUME Lapses = {}, FlowInv, Publish
  PROVE  Mirror!Publish
<1>1. PICK pub : /\ replica' = HeardBy(replica, pub, subs) /\ broken' = broken /\ pending' = <<>> /\ ids' = pub.map
                 /\ Published(pub)
  BY PublishReaches
<1>2. live' = live /\ subs' = subs
  BY DEF Publish
<1>3. Flow([i \in 0..0 |-> seen], live, <<>>, seen, pub.map, subs, replica')
  BY <1>1 DEF Published
<1>4. SameBelow(seen, live)
  <2>1. ~Unnotified
    BY DEF Publish, Allowed
  <2> QED BY <2>1, QuietIs
<1>5. GraphOK(live) /\ RepsOK(replica') /\ subs \in Seq(Subscribers)
  BY <1>3, FlowIs
<1>6. ASSUME NEW s \in ToSet(subs) PROVE Looks(replica'[s]) = View(live)[Root]
  <2>1. HasCopy(replica'[s]) /\ Follows(replica'[s], live, pub.map)
    BY <1>3, <1>4, FollowsLive
  <2>2. RepOK(replica'[s])
    BY <1>5 DEF RepsOK, ToSet
  <2> QED BY <2>1, <2>2, <1>5, LooksLike
<1>7. \A s \in Subscribers : s \notin ToSet(subs) => replica'[s] = replica[s]
  BY <1>1 DEF HeardBy
<1>8. Copies' = [s \in Subscribers |-> IF s \in ToSet(subs) THEN View(live)[Root] ELSE Copies[s]]
  <2>1. Copies' = [s \in Subscribers |-> Looks(replica'[s])]
    BY DEF Copies, Looks
  <2>2. \A s \in Subscribers : Copies[s] = Looks(replica[s])
    BY DEF Copies
  <2>3. \A s \in Subscribers : Looks(replica'[s]) = IF s \in ToSet(subs) THEN View(live)[Root] ELSE Copies[s]
    BY <2>2, <1>6, <1>7
  <2> QED BY <2>1, <2>3
<1>9. ToSet(subs)' = ToSet(subs) /\ (View(live)[Root])' = View(live)[Root]
  BY <1>2 DEF View, Root
<1> QED BY <1>8, <1>9, CopiesAre DEF Mirror!Publish

LEMMA MirrorStep ==
  ASSUME Lapses = {}
  PROVE  FlowInv /\ [Next]_vars => [Mirror!Next]_(Mirror!vars)
<1> SUFFICES ASSUME FlowInv, [Next]_vars PROVE Mirror!Next \/ UNCHANGED Mirror!vars
  OBVIOUS
<1>1. replica' = replica /\ subs' = subs => Mirror!Change
  <2> SUFFICES ASSUME replica' = replica, subs' = subs PROVE Mirror!Change
    OBVIOUS
  <2>1. Copies' = Copies
    BY DEF Copies, Looks
  <2> QED BY <2>1, MirrorChange
<1>2. CASE UNCHANGED vars
  BY <1>1, <1>2 DEF vars, Mirror!Next
<1>3. ASSUME NEW o \in Objects, Edit(o) PROVE Mirror!Change
  BY <1>1, <1>3 DEF Edit
<1>4. CASE Notify
  BY <1>1, <1>4 DEF Notify, Mirror!Next
<1>5. CASE SetPublished
  BY <1>1, <1>5 DEF SetPublished, Mirror!Next
<1>6. CASE PublishUnheard
  BY <1>1, <1>6 DEF PublishUnheard, Mirror!Next
<1>7. CASE Publish
  BY <1>7, MirrorPublish DEF Mirror!Next
<1>8. CASE ClearSubscribers
  <2>1. live' = live /\ replica' = replica /\ subs' = <<>>
    BY <1>8 DEF ClearSubscribers
  <2>2. ToSet(subs') \subseteq ToSet(subs)
    BY <2>1 DEF ToSet
  <2>3. Copies' = Copies
    BY <2>1 DEF Copies, Looks
  <2> QED BY <2>1, <2>2, <2>3, MirrorLeave DEF Mirror!Next
<1>9. ASSUME NEW s \in Subscribers, RemoveSubscriber(s) PROVE Mirror!Leave
  <2>1. live' = live /\ replica' = replica /\ s \in ToSet(subs) /\ subs' = RemoveFirst(subs, s)
    BY <1>9 DEF RemoveSubscriber
  <2>2. PICK H : Flow(H, live, pending, seen, ids, subs, replica)
    BY DEF FlowInv
  <2>3. subs \in Seq(Subscribers) /\ IsInjective(subs)
    BY <2>2, FlowIs
  <2>4. ToSet(subs') = ToSet(subs) \ {s}
    BY <2>1, <2>3, RemoveFirstIs
  <2>5. Copies' = Copies
    BY <2>1 DEF Copies, Looks
  <2>6. ToSet(subs') \subseteq ToSet(subs)
    BY <2>4
  <2> QED BY <2>1, <2>5, <2>6, MirrorLeave
<1>10. ASSUME NEW s \in Subscribers, SetSpace(s) PROVE Mirror!Change
  BY <1>10, MirrorSetSpace
<1>11. ASSUME NEW s \in Subscribers, AddSubscriber(s) PROVE Mirror!Join(s)
  BY <1>11, MirrorAdd
<1>12. CASE RefuseSubscriber
  BY <1>1, <1>12 DEF RefuseSubscriber, Mirror!Next
<1> QED BY <1>2, <1>3, <1>4, <1>5, <1>6, <1>7, <1>8, <1>9, <1>10, <1>11, <1>12 DEF Next, Mirror!Next

\* The copies implement the mirror of the space: each subscriber starts with what a
\* walk over the space sees, and each publication makes the copies of all followers,
\* and no other, just that, whole and at once.
THEOREM Refinement ==
  ASSUME Lapses = {}
  PROVE  Spec => ImplementsMirror
BY MirrorInit, MirrorStep, FlowAlways, PTL DEF Spec, ImplementsMirror, Mirror!Spec
=============================================================================
