------------------------- MODULE ReplicationLemmas --------------------------
(***************************************************************************)
(* What the operators of Replication and ServiceIds compute, for every     *)
(* graph, map of numbers, list of changes and subscriber.  They are folds  *)
(* and recursive functions over the graph.  A fold is taken to be a run, a *)
(* sequence of values each of which is made from the one before, so that   *)
(* what holds of it is proved by induction up to the length; a walk is     *)
(* proved about by induction over the rank of the objects, since references*)
(* lead to later ones only.  Induction is over sets (the set of lengths, or*)
(* of objects, for which the claim holds).                                 *)
(***************************************************************************)
EXTENDS Replication, WellFoundedInduction, FiniteSetTheorems, SequenceTheorems, TLAPS

\* Induction over the naturals, for a set: the library states it for a predicate.
LEMMA NatSetInduction ==
  ASSUME NEW S, 0 \in S, \A n \in Nat : n \in S => n + 1 \in S
  PROVE  Nat \subseteq S
<1> SUFFICES ASSUME Nat \ S # {} PROVE FALSE
  OBVIOUS
<1> DEFINE T == Nat \ S
<1>1. PICK x \in T : \A y \in T : ~(<<y, x>> \in OpToRel(<, Nat))
  BY WFMin, NatLessThanWellFounded
<1>2. x # 0 /\ x - 1 \in Nat /\ x - 1 \in T
  OBVIOUS
<1>3. OpToRel(<, Nat) = {ss \in Nat \X Nat : ss[1] < ss[2]}
  BY Zenon DEF OpToRel
<1>4. <<x - 1, x>> \in {ss \in Nat \X Nat : ss[1] < ss[2]}
  BY <1>2
<1>5. <<x - 1, x>> \in OpToRel(<, Nat)
  BY <1>3, <1>4, Zenon
<1> QED BY <1>1, <1>2, <1>5, Zenon

\* Induction up to a number.
LEMMA UpTo ==
  ASSUME NEW n \in Nat, NEW S, 0 \in S, \A i \in 1..n : i - 1 \in S => i \in S
  PROVE  0..n \subseteq S
<1> DEFINE T == {i \in Nat : i <= n => i \in S}
<1>1. 0 \in T
  OBVIOUS
<1>2. ASSUME NEW i \in Nat, i \in T PROVE i + 1 \in T
  <2>1. CASE i + 1 <= n
    <3>1. i + 1 \in 1..n /\ (i + 1) - 1 = i /\ i \in S
      BY <1>2, <2>1
    <3> QED BY <3>1
  <2>2. CASE ~(i + 1 <= n)
    BY <2>2
  <2> QED BY <2>1, <2>2
<1> HIDE DEF T
<1>3. Nat \subseteq T
  BY <1>1, <1>2, NatSetInduction
<1> QED BY <1>3 DEF T

LEMMA UpFromOne ==
  ASSUME NEW n \in Nat, NEW S, 1 \in S, \A i \in 2..n : i - 1 \in S => i \in S
  PROVE  1..n \subseteq S
<1> DEFINE T == {0} \cup S
<1>1. ASSUME NEW i \in 1..n, i - 1 \in T PROVE i \in T
  <2>1. CASE i = 1
    BY <2>1
  <2>2. CASE i # 1
    <3>1. i \in 2..n /\ i - 1 # 0
      BY <2>2
    <3> QED BY <3>1, <1>1
  <2> QED BY <2>1, <2>2
<1> HIDE DEF T
<1>2. 0 \in T
  BY DEF T
<1>3. 0..n \subseteq T
  BY <1>1, <1>2, UpTo
<1> QED BY <1>3 DEF T

LEMMA MaxOfSome ==
  ASSUME NEW n \in Nat, NEW s \in SUBSET (1..n), s # {}
  PROVE  Max(s) \in s /\ \A y \in s : Max(s) >= y
<1> DEFINE P(k) == \A t \in SUBSET (1..k) : t # {} => \E x \in t : \A y \in t : x >= y
<1> DEFINE T == {k \in Nat : P(k)}
<1>1. P(0)
  <2>1. 1..0 = {}
    OBVIOUS
  <2> QED BY <2>1, Zenon
<1>2. ASSUME NEW k \in Nat, P(k) PROVE P(k + 1)
  <2> SUFFICES ASSUME NEW t \in SUBSET (1..(k + 1)), t # {}
               PROVE  \E x \in t : \A y \in t : x >= y
    OBVIOUS
  <2>1. CASE k + 1 \in t
    BY <2>1
  <2>2. CASE k + 1 \notin t
    <3>1. t \in SUBSET (1..k)
      BY <2>2
    <3> QED BY <3>1, <1>2
  <2> QED BY <2>1, <2>2
<1>3. n \in T
  <2> HIDE DEF P
  <2>1. 0 \in T /\ \A k \in Nat : k \in T => k + 1 \in T
    BY <1>1, <1>2
  <2> HIDE DEF T
  <2> QED BY <2>1, NatSetInduction
<1>4. \E x \in s : \A y \in s : x >= y
  BY <1>3
<1> QED BY <1>4, Zenon DEF Max

Initial(k) == 1..k
Subsets(k) == SUBSET Initial(k)
Prev(s) == s \ {Max(s)}

\* The sets 1..k, without their maximum, are a well-founded order of sets.
LEMMA SubsetsOf ==
  /\ Initial(0) = {} /\ \A s \in Subsets(0) : s = {}
  /\ \A k \in Nat : {} \in Subsets(k) /\ Subsets(k) \subseteq Subsets(k + 1)
  /\ \A k \in Nat : \A s \in Subsets(k + 1) : s # {} => Prev(s) \in Subsets(k)
  /\ \A n \in Nat : Initial(0) \in Subsets(n) /\ Initial(n) \in Subsets(n)
<1>1. ASSUME NEW k \in Nat, NEW s \in Subsets(k + 1), s # {} PROVE Prev(s) \in Subsets(k)
  <2>1. k + 1 \in Nat /\ s \in SUBSET (1..(k + 1))
    BY DEF Subsets, Initial
  <2>2. Max(s) \in s /\ \A y \in s : Max(s) >= y
    BY <2>1, <1>1, MaxOfSome
  <2>3. \A y \in s : y \in Int /\ 1 <= y /\ y <= k + 1
    BY <2>1
  <2>4. ASSUME NEW y \in s \ {Max(s)} PROVE y \in 1..k
    <3>1. y \in s /\ y # Max(s)
      OBVIOUS
    <3> QED BY <3>1, <2>2, <2>3
  <2> QED BY <2>4 DEF Subsets, Prev, Initial
<1>2. Initial(0) = {} /\ \A k \in Nat : Initial(k) \subseteq Initial(k + 1)
  BY DEF Initial
<1>3. \A n \in Nat : Initial(n) \in Subsets(n) /\ Initial(0) \in Subsets(n)
  BY <1>2 DEF Initial, Subsets
<1>5. \A s \in Subsets(0) : s = {}
  BY <1>2 DEF Subsets
<1>6. \A k \in Nat : {} \in Subsets(k) /\ Subsets(k) \subseteq Subsets(k + 1)
  BY <1>2 DEF Subsets
<1> QED BY <1>1, <1>2, <1>3, <1>5, <1>6

LEMMA InitialOf ==
  ASSUME NEW n \in Nat, NEW i \in 1..n
  PROVE  /\ Initial(i) \in Subsets(n) /\ Initial(i - 1) \in Subsets(n) /\ Initial(i) # {}
         /\ Max(Initial(i)) = i /\ Prev(Initial(i)) = Initial(i - 1)
<1>1. i \in Nat /\ 1..i # {} /\ 1..i \in SUBSET (1..i) /\ i \in 1..i
  OBVIOUS
<1>2. Max(1..i) \in 1..i /\ \A y \in 1..i : Max(1..i) >= y
  BY MaxOfSome, <1>1
<1>3. Max(1..i) = i
  BY <1>1, <1>2
<1> QED BY <1>1, <1>3 DEF Prev, Initial, Subsets

-----------------------------------------------------------------------------
\* One step of each fold of the model, by its name.
MetStep(met, s) == IF s[2] # "object" \/ Contains(met, s[1]) THEN met ELSE Append(met, s[1])
ObjectIdStep(m, s) == IF HasId(m, s) THEN m ELSE InsertNext(m, s)
OrderedStep(g, acc, s) ==
  LET map == IF HasId(acc.map, s) THEN acc.map ELSE ObjectId(acc.map, g, s[1])
  IN  IF s \in acc.marked THEN [map |-> map, marked |-> acc.marked, ids |-> acc.ids]
      ELSE [map |-> map, marked |-> acc.marked \cup {s}, ids |-> Append(acc.ids, GetId(map, s))]
GivenStep(acc, s) ==
  IF HasId(acc.map, s) THEN acc
  ELSE [map |-> InsertInMap(acc.map, s, Head(acc.ids)), ids |-> Tail(acc.ids)]
AmongStep(set, acc, x) == IF x \in set THEN Append(acc, x) ELSE acc
ProcessStep(g, acc, set) ==
  LET new == acc.new \cup set.added
  IN  [map |-> RemoveObjects(acc.map, g, set.removed \ new), new |-> new \ set.removed]
InstanceStep(acc, n) ==
  [acc EXCEPT !.heap = Append(@, Blank), !.map = ShallowGivenObjectId(@, Len(acc.heap) + 1, n)]
ChangesEnd(acc, id, w) == FoldLeft(LAMBDA a, c : ApplyChange(a, id, c), acc, w)
ApplyStep(table, acc, n) == ChangesEnd(acc, n, table[n])
DeliverStep(publication, acc, s) ==
  IF acc.out # "ok" THEN acc
  ELSE LET heard == OnPublish(acc.replica[s], publication) IN
       [replica |-> [acc.replica EXCEPT ![s] = heard.rep], out |-> heard.out,
        broken |-> IF heard.out = "broken" THEN acc.broken \cup {s} ELSE acc.broken]

Step(kind, context, acc, x) ==
  CASE kind = "met" -> MetStep(acc, x)
    [] kind = "id" -> ObjectIdStep(acc, x)
    [] kind = "ordered" -> OrderedStep(context, acc, x)
    [] kind = "given" -> GivenStep(acc, x)
    [] kind = "among" -> AmongStep(context, acc, x)
    [] kind = "process" -> ProcessStep(context, acc, x)
    [] kind = "number" -> ShallowObjectId(acc, x)
    [] kind = "table" -> ObjectChanges(context, x, acc)
    [] kind = "instance" -> InstanceStep(acc, x)
    [] kind = "change" -> ApplyChange(acc, context, x)
    [] kind = "apply" -> ApplyStep(context, acc, x)
    [] kind = "deliver" -> DeliverStep(context, acc, x)

\* The function by which FoldLeft is defined, and what it gives for the first elements.
IsFold(kind, context, base, w, n, it) ==
  it = [s \in Subsets(n) |-> IF s = {} THEN base ELSE Step(kind, context, it[Prev(s)], w[Max(s)])]

IsRun(kind, context, base, w, n, run) ==
  run[0] = base /\ \A i \in 1..n : run[i] = Step(kind, context, run[i - 1], w[i])

LEMMA FoldExists ==
  ASSUME NEW kind, NEW context, NEW base, NEW w, NEW n \in Nat
  PROVE  \E it : IsFold(kind, context, base, w, n, it)
<1> DEFINE E(it, s) == IF s = {} THEN base ELSE Step(kind, context, it[Prev(s)], w[Max(s)])
<1> DEFINE Is(it, k) == it = [s \in Subsets(k) |-> E(it, s)]
<1> DEFINE T == {k \in Nat : \E it : Is(it, k)}
<1>2. 0 \in T
  <2>1. Is([s \in Subsets(0) |-> base], 0)
    BY SubsetsOf
  <2> QED BY <2>1
<1>3. ASSUME NEW k \in Nat, NEW f, Is(f, k) PROVE k + 1 \in T
  <2> DEFINE h == [s \in Subsets(k + 1) |-> E(f, s)]
  <2>1. \A s \in Subsets(k) : h[s] = f[s]
    BY <1>3, SubsetsOf
  <2>2. \A s \in Subsets(k + 1) : E(f, s) = E(h, s)
    BY <2>1, SubsetsOf
  <2>3. Is(h, k + 1)
    BY <2>2
  <2> HIDE DEF h, Is
  <2> QED BY <2>3
<1>4. n \in T
  <2> HIDE DEF Is
  <2>1. \A k \in Nat : k \in T => k + 1 \in T
    BY <1>3
  <2> HIDE DEF T
  <2> QED BY <1>2, <2>1, NatSetInduction
<1> QED BY <1>4 DEF IsFold

\* A fold over the first n places goes through the values of a run.
LEMMA FoldRun ==
  ASSUME NEW kind, NEW context, NEW base, NEW w, NEW n \in Nat, NEW it,
         IsFold(kind, context, base, w, n, it)
  PROVE  \E run : IsRun(kind, context, base, w, n, run) /\ run[n] = it[1..n]
<1> DEFINE E(s) == IF s = {} THEN base ELSE Step(kind, context, it[Prev(s)], w[Max(s)])
<1>1. \A s \in Subsets(n) : it[s] = E(s)
  <2>1. it = [s \in Subsets(n) |-> E(s)]
    BY DEF IsFold
  <2> HIDE DEF E
  <2> QED BY <2>1
<1> DEFINE run == [i \in 0..n |-> it[Initial(i)]]
<1>2. run[0] = base
  BY <1>1, SubsetsOf
<1>3. ASSUME NEW i \in 1..n PROVE run[i] = Step(kind, context, run[i - 1], w[i])
  <2>1. Initial(i) \in Subsets(n) /\ Initial(i) # {} /\ Max(Initial(i)) = i /\ Prev(Initial(i)) = Initial(i - 1)
    BY InitialOf
  <2>2. run[i] = it[Initial(i)] /\ run[i - 1] = it[Initial(i - 1)]
    OBVIOUS
  <2> QED BY <1>1, <2>1, <2>2
<1>4. run[n] = it[1..n]
  BY DEF Initial
<1> HIDE DEF run
<1> QED BY <1>2, <1>3, <1>4 DEF IsRun

\* The folds of the model, each as a run.
LEMMA MetRun ==
  ASSUME NEW g, NEW o, NEW n \in Nat, DOMAIN Walk(g)[o] = 1..n
  PROVE  \E run : IsRun("met", {}, <<>>, Walk(g)[o], n, run) /\ Met(g, o) = run[n]
<1> DEFINE w == Walk(g)[o]
           Is(it) == it = [s \in Subsets(n) |-> IF s = {} THEN <<>> ELSE MetStep(it[Prev(s)], w[Max(s)])]
           it == CHOOSE it : Is(it)
<1>1. Met(g, o) = it[1..n]
  BY DEF Met, MetStep, FoldLeft, MapThenFoldSet, Subsets, Prev, Initial
<1> HIDE DEF w
<1>2. \A f : IsFold("met", {}, <<>>, w, n, f) <=> Is(f)
  BY DEF IsFold, Step
<1> HIDE DEF Is
<1>3. IsFold("met", {}, <<>>, w, n, it)
  BY <1>2, FoldExists
<1> HIDE DEF it
<1>4. \E run : IsRun("met", {}, <<>>, w, n, run) /\ run[n] = it[1..n]
  BY <1>3, FoldRun
<1> QED BY <1>1, <1>4 DEF w

LEMMA ObjectIdRun ==
  ASSUME NEW m, NEW g, NEW o, NEW n \in Nat, DOMAIN Walk(g)[o] = 1..n
  PROVE  \E run : IsRun("id", {}, m, Walk(g)[o], n, run) /\ ObjectId(m, g, o) = run[n]
<1> DEFINE w == Walk(g)[o]
           Is(it) == it = [s \in Subsets(n) |-> IF s = {} THEN m ELSE ObjectIdStep(it[Prev(s)], w[Max(s)])]
           it == CHOOSE it : Is(it)
<1>1. ObjectId(m, g, o) = it[1..n]
  BY DEF ObjectId, ObjectIdStep, FoldLeft, MapThenFoldSet, Subsets, Prev, Initial
<1> HIDE DEF w
<1>2. \A f : IsFold("id", {}, m, w, n, f) <=> Is(f)
  BY DEF IsFold, Step
<1> HIDE DEF Is
<1>3. IsFold("id", {}, m, w, n, it)
  BY <1>2, FoldExists
<1> HIDE DEF it
<1>4. \E run : IsRun("id", {}, m, w, n, run) /\ run[n] = it[1..n]
  BY <1>3, FoldRun
<1> QED BY <1>1, <1>4 DEF w

OrderedEnd(m, g, o) ==
  FoldLeft(LAMBDA acc, s : OrderedStep(g, acc, s), [map |-> m, ids |-> <<>>, marked |-> {}], Walk(g)[o])

LEMMA OrderedRun ==
  ASSUME NEW m, NEW g, NEW o, NEW n \in Nat, DOMAIN Walk(g)[o] = 1..n
  PROVE  \E run : IsRun("ordered", g, [map |-> m, ids |-> <<>>, marked |-> {}], Walk(g)[o], n, run) /\ OrderedEnd(m, g, o) = run[n]
<1> DEFINE w == Walk(g)[o]
           Is(it) == it = [s \in Subsets(n) |-> IF s = {} THEN [map |-> m, ids |-> <<>>, marked |-> {}] ELSE OrderedStep(g, it[Prev(s)], w[Max(s)])]
           it == CHOOSE it : Is(it)
<1>1. OrderedEnd(m, g, o) = it[1..n]
  BY DEF OrderedEnd, FoldLeft, MapThenFoldSet, Subsets, Prev, Initial
<1> HIDE DEF w
<1>2. \A f : IsFold("ordered", g, [map |-> m, ids |-> <<>>, marked |-> {}], w, n, f) <=> Is(f)
  BY DEF IsFold, Step
<1> HIDE DEF Is
<1>3. IsFold("ordered", g, [map |-> m, ids |-> <<>>, marked |-> {}], w, n, it)
  BY <1>2, FoldExists
<1> HIDE DEF it
<1>4. \E run : IsRun("ordered", g, [map |-> m, ids |-> <<>>, marked |-> {}], w, n, run) /\ run[n] = it[1..n]
  BY <1>3, FoldRun
<1> QED BY <1>1, <1>4 DEF w

GivenEnd(g, o, ids0) == FoldLeft(GivenStep, [map |-> NoIds, ids |-> ids0], Walk(g)[o])

LEMMA GivenRun ==
  ASSUME NEW g, NEW o, NEW ids0, NEW n \in Nat, DOMAIN Walk(g)[o] = 1..n
  PROVE  \E run : IsRun("given", {}, [map |-> NoIds, ids |-> ids0], Walk(g)[o], n, run) /\ GivenEnd(g, o, ids0) = run[n]
<1> DEFINE w == Walk(g)[o]
           Is(it) == it = [s \in Subsets(n) |-> IF s = {} THEN [map |-> NoIds, ids |-> ids0] ELSE GivenStep(it[Prev(s)], w[Max(s)])]
           it == CHOOSE it : Is(it)
<1>1. GivenEnd(g, o, ids0) = it[1..n]
  BY DEF GivenEnd, FoldLeft, MapThenFoldSet, Subsets, Prev, Initial
<1> HIDE DEF w
<1>2. \A f : IsFold("given", {}, [map |-> NoIds, ids |-> ids0], w, n, f) <=> Is(f)
  BY DEF IsFold, Step
<1> HIDE DEF Is
<1>3. IsFold("given", {}, [map |-> NoIds, ids |-> ids0], w, n, it)
  BY <1>2, FoldExists
<1> HIDE DEF it
<1>4. \E run : IsRun("given", {}, [map |-> NoIds, ids |-> ids0], w, n, run) /\ run[n] = it[1..n]
  BY <1>3, FoldRun
<1> QED BY <1>1, <1>4 DEF w

LEMMA AmongRun ==
  ASSUME NEW w, NEW set, NEW n \in Nat, DOMAIN w = 1..n
  PROVE  \E run : IsRun("among", set, <<>>, w, n, run) /\ Among(w, set) = run[n]
<1> DEFINE Is(it) == it = [s \in Subsets(n) |-> IF s = {} THEN <<>> ELSE AmongStep(set, it[Prev(s)], w[Max(s)])]
           it == CHOOSE it : Is(it)
<1>1. Among(w, set) = it[1..n]
  BY DEF Among, AmongStep, FoldLeft, MapThenFoldSet, Subsets, Prev, Initial
<1>2. \A f : IsFold("among", set, <<>>, w, n, f) <=> Is(f)
  BY DEF IsFold, Step
<1> HIDE DEF Is
<1>3. IsFold("among", set, <<>>, w, n, it)
  BY <1>2, FoldExists
<1> HIDE DEF it
<1>4. \E run : IsRun("among", set, <<>>, w, n, run) /\ run[n] = it[1..n]
  BY <1>3, FoldRun
<1> QED BY <1>1, <1>4

ProcessEnd(m, g, p) ==
  FoldLeft(LAMBDA acc, set : ProcessStep(g, acc, set), [map |-> m, new |-> {}], p)

LEMMA ProcessRun ==
  ASSUME NEW m, NEW g, NEW w, NEW n \in Nat, DOMAIN w = 1..n
  PROVE  \E run : IsRun("process", g, [map |-> m, new |-> {}], w, n, run) /\ ProcessEnd(m, g, w) = run[n]
<1> DEFINE Is(it) == it = [s \in Subsets(n) |-> IF s = {} THEN [map |-> m, new |-> {}] ELSE ProcessStep(g, it[Prev(s)], w[Max(s)])]
           it == CHOOSE it : Is(it)
<1>1. ProcessEnd(m, g, w) = it[1..n]
  BY DEF ProcessEnd, FoldLeft, MapThenFoldSet, Subsets, Prev, Initial
<1>2. \A f : IsFold("process", g, [map |-> m, new |-> {}], w, n, f) <=> Is(f)
  BY DEF IsFold, Step
<1> HIDE DEF Is
<1>3. IsFold("process", g, [map |-> m, new |-> {}], w, n, it)
  BY <1>2, FoldExists
<1> HIDE DEF it
<1>4. \E run : IsRun("process", g, [map |-> m, new |-> {}], w, n, run) /\ run[n] = it[1..n]
  BY <1>3, FoldRun
<1> QED BY <1>1, <1>4

LEMMA NumberRun ==
  ASSUME NEW m, NEW w, NEW n \in Nat, DOMAIN w = 1..n
  PROVE  \E run : IsRun("number", {}, m, w, n, run) /\ FoldLeft(ShallowObjectId, m, w) = run[n]
<1> DEFINE Is(it) == it = [s \in Subsets(n) |-> IF s = {} THEN m ELSE ShallowObjectId(it[Prev(s)], w[Max(s)])]
           it == CHOOSE it : Is(it)
<1>1. FoldLeft(ShallowObjectId, m, w) = it[1..n]
  BY DEF FoldLeft, MapThenFoldSet, Subsets, Prev, Initial
<1>2. \A f : IsFold("number", {}, m, w, n, f) <=> Is(f)
  BY DEF IsFold, Step
<1> HIDE DEF Is
<1>3. IsFold("number", {}, m, w, n, it)
  BY <1>2, FoldExists
<1> HIDE DEF it
<1>4. \E run : IsRun("number", {}, m, w, n, run) /\ run[n] = it[1..n]
  BY <1>3, FoldRun
<1> QED BY <1>1, <1>4

TableEnd(m, w) == FoldLeft(LAMBDA table, c : ObjectChanges(m, c, table), <<>>, w)

LEMMA TableRun ==
  ASSUME NEW m, NEW w, NEW n \in Nat, DOMAIN w = 1..n
  PROVE  \E run : IsRun("table", m, <<>>, w, n, run) /\ TableEnd(m, w) = run[n]
<1> DEFINE Is(it) == it = [s \in Subsets(n) |-> IF s = {} THEN <<>> ELSE ObjectChanges(m, w[Max(s)], it[Prev(s)])]
           it == CHOOSE it : Is(it)
<1>1. TableEnd(m, w) = it[1..n]
  BY DEF TableEnd, FoldLeft, MapThenFoldSet, Subsets, Prev, Initial
<1>2. \A f : IsFold("table", m, <<>>, w, n, f) <=> Is(f)
  BY DEF IsFold, Step
<1> HIDE DEF Is
<1>3. IsFold("table", m, <<>>, w, n, it)
  BY <1>2, FoldExists
<1> HIDE DEF it
<1>4. \E run : IsRun("table", m, <<>>, w, n, run) /\ run[n] = it[1..n]
  BY <1>3, FoldRun
<1> QED BY <1>1, <1>4

LEMMA InstanceRun ==
  ASSUME NEW r, NEW w, NEW n \in Nat, DOMAIN w = 1..n
  PROVE  \E run : IsRun("instance", {}, r, w, n, run) /\ NewInstances(r, w) = run[n]
<1> DEFINE Is(it) == it = [s \in Subsets(n) |-> IF s = {} THEN r ELSE InstanceStep(it[Prev(s)], w[Max(s)])]
           it == CHOOSE it : Is(it)
<1>1. NewInstances(r, w) = it[1..n]
  BY DEF NewInstances, InstanceStep, FoldLeft, MapThenFoldSet, Subsets, Prev, Initial
<1>2. \A f : IsFold("instance", {}, r, w, n, f) <=> Is(f)
  BY DEF IsFold, Step
<1> HIDE DEF Is
<1>3. IsFold("instance", {}, r, w, n, it)
  BY <1>2, FoldExists
<1> HIDE DEF it
<1>4. \E run : IsRun("instance", {}, r, w, n, run) /\ run[n] = it[1..n]
  BY <1>3, FoldRun
<1> QED BY <1>1, <1>4

LEMMA ChangeRun ==
  ASSUME NEW acc, NEW id, NEW w, NEW n \in Nat, DOMAIN w = 1..n
  PROVE  \E run : IsRun("change", id, acc, w, n, run) /\ ChangesEnd(acc, id, w) = run[n]
<1> DEFINE Is(it) == it = [s \in Subsets(n) |-> IF s = {} THEN acc ELSE ApplyChange(it[Prev(s)], id, w[Max(s)])]
           it == CHOOSE it : Is(it)
<1>1. ChangesEnd(acc, id, w) = it[1..n]
  BY DEF ChangesEnd, FoldLeft, MapThenFoldSet, Subsets, Prev, Initial
<1>2. \A f : IsFold("change", id, acc, w, n, f) <=> Is(f)
  BY DEF IsFold, Step
<1> HIDE DEF Is
<1>3. IsFold("change", id, acc, w, n, it)
  BY <1>2, FoldExists
<1> HIDE DEF it
<1>4. \E run : IsRun("change", id, acc, w, n, run) /\ run[n] = it[1..n]
  BY <1>3, FoldRun
<1> QED BY <1>1, <1>4

ApplyEnd(acc, table, w) == FoldLeft(LAMBDA a, k : ApplyStep(table, a, k), acc, w)

LEMMA ApplyRun ==
  ASSUME NEW acc, NEW table, NEW w, NEW n \in Nat, DOMAIN w = 1..n
  PROVE  \E run : IsRun("apply", table, acc, w, n, run) /\ ApplyEnd(acc, table, w) = run[n]
<1> DEFINE Is(it) == it = [s \in Subsets(n) |-> IF s = {} THEN acc ELSE ApplyStep(table, it[Prev(s)], w[Max(s)])]
           it == CHOOSE it : Is(it)
<1>1. ApplyEnd(acc, table, w) = it[1..n]
  BY DEF ApplyEnd, FoldLeft, MapThenFoldSet, Subsets, Prev, Initial
<1>2. \A f : IsFold("apply", table, acc, w, n, f) <=> Is(f)
  BY DEF IsFold, Step
<1> HIDE DEF Is
<1>3. IsFold("apply", table, acc, w, n, it)
  BY <1>2, FoldExists
<1> HIDE DEF it
<1>4. \E run : IsRun("apply", table, acc, w, n, run) /\ run[n] = it[1..n]
  BY <1>3, FoldRun
<1> QED BY <1>1, <1>4

DeliverEnd(acc, publication, w) == FoldLeft(LAMBDA a, s : DeliverStep(publication, a, s), acc, w)

LEMMA DeliverRun ==
  ASSUME NEW acc, NEW publication, NEW w, NEW n \in Nat, DOMAIN w = 1..n
  PROVE  \E run : IsRun("deliver", publication, acc, w, n, run) /\ DeliverEnd(acc, publication, w) = run[n]
<1> DEFINE Is(it) == it = [s \in Subsets(n) |-> IF s = {} THEN acc ELSE DeliverStep(publication, it[Prev(s)], w[Max(s)])]
           it == CHOOSE it : Is(it)
<1>1. DeliverEnd(acc, publication, w) = it[1..n]
  BY DEF DeliverEnd, FoldLeft, MapThenFoldSet, Subsets, Prev, Initial
<1>2. \A f : IsFold("deliver", publication, acc, w, n, f) <=> Is(f)
  BY DEF IsFold, Step
<1> HIDE DEF Is
<1>3. IsFold("deliver", publication, acc, w, n, it)
  BY <1>2, FoldExists
<1> HIDE DEF it
<1>4. \E run : IsRun("deliver", publication, acc, w, n, run) /\ run[n] = it[1..n]
  BY <1>3, FoldRun
<1> QED BY <1>1, <1>4

\* The elements of two sequences one after the other.
LEMMA ConcatElems ==
  ASSUME NEW S, NEW a \in Seq(S), NEW b \in Seq(S)
  PROVE  a \o b \in Seq(S) /\ ToSet(a \o b) = ToSet(a) \cup ToSet(b)
<1>1. /\ a \o b \in Seq(S) /\ Len(a \o b) = Len(a) + Len(b)
      /\ \A i \in 1..(Len(a) + Len(b)) : (a \o b)[i] = IF i <= Len(a) THEN a[i] ELSE b[i - Len(a)]
  BY ConcatProperties
<1>2. DOMAIN a = 1..Len(a) /\ DOMAIN b = 1..Len(b) /\ DOMAIN (a \o b) = 1..(Len(a) + Len(b))
      /\ Len(a) \in Nat /\ Len(b) \in Nat
  BY <1>1, LenProperties
<1>3. ASSUME NEW x \in ToSet(a \o b) PROVE x \in ToSet(a) \cup ToSet(b)
  <2>1. PICK i \in 1..(Len(a) + Len(b)) : x = (a \o b)[i]
    BY <1>2 DEF ToSet
  <2>2. CASE i <= Len(a)
    BY <2>1, <2>2, <1>1, <1>2 DEF ToSet
  <2>3. CASE ~(i <= Len(a))
    <3>1. i - Len(a) \in DOMAIN b /\ x = b[i - Len(a)]
      BY <2>1, <2>3, <1>1, <1>2
    <3> QED BY <3>1 DEF ToSet
  <2> QED BY <2>2, <2>3
<1>4. ASSUME NEW x \in ToSet(a) PROVE x \in ToSet(a \o b)
  <2>1. PICK i \in 1..Len(a) : x = a[i]
    BY <1>2 DEF ToSet
  <2>2. i \in DOMAIN (a \o b) /\ x = (a \o b)[i]
    BY <2>1, <1>1, <1>2
  <2> QED BY <2>2 DEF ToSet
<1>5. ASSUME NEW x \in ToSet(b) PROVE x \in ToSet(a \o b)
  <2>1. PICK i \in 1..Len(b) : x = b[i]
    BY <1>2 DEF ToSet
  <2>2. Len(a) + i \in DOMAIN (a \o b) /\ x = (a \o b)[Len(a) + i]
    BY <2>1, <1>1, <1>2
  <2> QED BY <2>2 DEF ToSet
<1> QED BY <1>1, <1>3, <1>4, <1>5

\* A sequence with its elements renamed.
Renamed(w, F) == [i \in DOMAIN w |-> F[w[i]]]

IsMap(F, S, T) == \A x \in S : F[x] \in T

LEMMA RenamedSeq ==
  ASSUME NEW S, NEW T, NEW F, IsMap(F, S, T), NEW w \in Seq(S)
  PROVE  Renamed(w, F) \in Seq(T) /\ Len(Renamed(w, F)) = Len(w)
<1>1. DOMAIN w = 1..Len(w) /\ Len(w) \in Nat /\ \A i \in 1..Len(w) : w[i] \in S
  OBVIOUS
<1>2. Renamed(w, F) \in [1..Len(w) -> T]
  BY <1>1 DEF Renamed, IsMap
<1> QED BY <1>1, <1>2

\* Renaming before or after joining sequences is the same.
LEMMA RenamedConcat ==
  ASSUME NEW S, NEW F, NEW a \in Seq(S), NEW b \in Seq(S)
  PROVE  Renamed(a \o b, F) = Renamed(a, F) \o Renamed(b, F)
<1>1. /\ a \o b \in Seq(S) /\ Len(a \o b) = Len(a) + Len(b)
      /\ \A i \in 1..(Len(a) + Len(b)) : (a \o b)[i] = IF i <= Len(a) THEN a[i] ELSE b[i - Len(a)]
  BY ConcatProperties
<1> DEFINE p == Renamed(a, F)
           q == Renamed(b, F)
           c == a \o b
           T == {F[x] : x \in S}
<1>0. IsMap(F, S, T)
  BY DEF IsMap
<1> HIDE DEF T
<1>2. p \in Seq(T) /\ q \in Seq(T) /\ Len(p) = Len(a) /\ Len(q) = Len(b)
  <2>1. p \in Seq(T) /\ Len(p) = Len(a)
    BY <1>0, RenamedSeq
  <2>2. q \in Seq(T) /\ Len(q) = Len(b)
    BY <1>0, RenamedSeq
  <2> QED BY <2>1, <2>2
<1> HIDE DEF p, q
<1>3. /\ p \o q \in Seq(T) /\ Len(p \o q) = Len(a) + Len(b)
      /\ \A i \in 1..(Len(a) + Len(b)) : (p \o q)[i] = IF i <= Len(a) THEN p[i] ELSE q[i - Len(a)]
  <2>1. /\ p \o q \in Seq(T) /\ Len(p \o q) = Len(p) + Len(q)
        /\ \A i \in 1..(Len(p) + Len(q)) : (p \o q)[i] = IF i <= Len(p) THEN p[i] ELSE q[i - Len(p)]
    BY <1>2, ConcatProperties
  <2> QED BY <2>1, <1>2
<1>4. Len(a) \in Nat /\ Len(b) \in Nat /\ DOMAIN a = 1..Len(a) /\ DOMAIN b = 1..Len(b)
      /\ DOMAIN (a \o b) = 1..(Len(a) + Len(b))
  BY <1>1, LenProperties
<1>5. Renamed(c, F) \in Seq(T) /\ Len(Renamed(c, F)) = Len(a) + Len(b)
  <2>1. ASSUME NEW x \in Seq(S) PROVE Renamed(x, F) \in Seq(T) /\ Len(Renamed(x, F)) = Len(x)
    BY <1>0, RenamedSeq
  <2> QED BY <2>1, <1>1
<1>6. ASSUME NEW i \in 1..(Len(a) + Len(b)) PROVE Renamed(a \o b, F)[i] = (p \o q)[i]
  <2>1. Renamed(a \o b, F)[i] = F[(a \o b)[i]]
    BY <1>4 DEF Renamed
  <2>2. CASE i <= Len(a)
    BY <2>1, <2>2, <1>1, <1>3, <1>4 DEF Renamed, p
  <2>3. CASE ~(i <= Len(a))
    BY <2>1, <2>3, <1>1, <1>3, <1>4 DEF Renamed, q
  <2> QED BY <2>2, <2>3
<1>7. Renamed(a \o b, F) = p \o q
  BY <1>3, <1>5, <1>6, SeqEqual
<1> QED BY <1>7 DEF p, q

-----------------------------------------------------------------------------
\* FlattenSeq joins the sequences one by one.
LEMMA FlattenRun ==
  ASSUME NEW S, NEW ss \in Seq(Seq(S)), ss # <<>>
  PROVE  \E f : /\ f[1] = ss[1] /\ FlattenSeq(ss) = f[Len(ss)]
                /\ \A i \in 2..Len(ss) : f[i] = f[i - 1] \o ss[i]
<1> DEFINE n == Len(ss)
           E(it, i) == IF i = 1 THEN ss[i] ELSE it[i - 1] \o ss[i]
           Is(it, k) == it = [i \in 1..k |-> E(it, i)]
           T == {k \in Nat : \E it : Is(it, k)}
           flatten == CHOOSE it : Is(it, n)
<1>1. n \in Nat /\ n # 0
  OBVIOUS
<1>2. FlattenSeq(ss) = flatten[n]
  BY <1>1 DEF FlattenSeq
<1>3. 0 \in T
  <2>1. Is([i \in 1..0 |-> i], 0)
    OBVIOUS
  <2> QED BY <2>1
<1>4. ASSUME NEW k \in Nat, NEW f, Is(f, k) PROVE k + 1 \in T
  <2> DEFINE h == [i \in 1..(k + 1) |-> E(f, i)]
  <2>1. \A i \in 1..k : h[i] = f[i]
    <3> HIDE DEF E
    <3> QED BY SMTT(30), <1>4
  <2>2. ASSUME NEW i \in 1..(k + 1) PROVE E(f, i) = E(h, i)
    <3>1. i = 1 \/ i - 1 \in 1..k
      OBVIOUS
    <3> HIDE DEF h
    <3> QED BY <2>1, <3>1
  <2>3. Is(h, k + 1)
    BY <2>2
  <2> HIDE DEF h, Is
  <2> QED BY <2>3
<1>5. Is(flatten, n)
  <2> HIDE DEF Is
  <2>1. \A k \in Nat : k \in T => k + 1 \in T
    BY <1>4
  <2> HIDE DEF T, n
  <2>2. n \in T
    BY <1>1, <1>3, <2>1, NatSetInduction
  <2> QED BY <2>2 DEF T
<1> HIDE DEF flatten
<1>6. \A i \in 1..n : flatten[i] = E(flatten, i)
  <2> HIDE DEF E
  <2> QED BY <1>5
<1>7. flatten[1] = ss[1]
  BY <1>1, <1>6
<1>8. ASSUME NEW i \in 2..n PROVE flatten[i] = flatten[i - 1] \o ss[i]
  <2>1. i \in 1..n /\ i # 1
    BY <1>1
  <2> QED BY <2>1, <1>6
<1> QED BY <1>2, <1>7, <1>8

\* The elements of all the sequences.
LEMMA FlattenElems ==
  ASSUME NEW S, NEW ss \in Seq(Seq(S))
  PROVE  FlattenSeq(ss) \in Seq(S) /\ ToSet(FlattenSeq(ss)) = UNION {ToSet(ss[i]) : i \in DOMAIN ss}
<1>1. CASE ss = <<>>
  BY <1>1 DEF FlattenSeq, ToSet
<1>2. CASE ss # <<>>
  <2> DEFINE n == Len(ss)
  <2>1. n \in Nat /\ n # 0 /\ DOMAIN ss = 1..n /\ \A i \in 1..n : ss[i] \in Seq(S)
    BY <1>2
  <2>2. PICK f : /\ f[1] = ss[1] /\ FlattenSeq(ss) = f[n]
                 /\ \A i \in 2..n : f[i] = f[i - 1] \o ss[i]
    BY <1>2, FlattenRun
  <2> HIDE DEF n
  <2> DEFINE T == {i \in 1..n : f[i] \in Seq(S) /\ ToSet(f[i]) = UNION {ToSet(ss[j]) : j \in 1..i}}
  <2>3. 1 \in T
    <3>1. 1..1 = {1} /\ 1 \in 1..n
      BY <2>1
    <3> QED BY <3>1, <2>1, <2>2
  <2>4. ASSUME NEW i \in 2..n, i - 1 \in T PROVE i \in T
    <3>1. f[i - 1] \in Seq(S) /\ ToSet(f[i - 1]) = UNION {ToSet(ss[j]) : j \in 1..(i - 1)}
      BY <2>4
    <3>0. i \in 1..n
      BY <2>1
    <3>2. f[i] = f[i - 1] \o ss[i] /\ ss[i] \in Seq(S) /\ i \in 1..n
      BY <3>0, <2>1, <2>2
    <3>3. f[i] \in Seq(S) /\ ToSet(f[i]) = ToSet(f[i - 1]) \cup ToSet(ss[i])
      BY <3>1, <3>2, ConcatElems
    <3>4. 1..i = 1..(i - 1) \cup {i}
      BY <3>2, <2>1
    <3>5. UNION {ToSet(ss[j]) : j \in 1..i} = (UNION {ToSet(ss[j]) : j \in 1..(i - 1)}) \cup ToSet(ss[i])
      BY <3>4, Zenon
    <3> QED BY <3>1, <3>2, <3>3, <3>5
  <2> HIDE DEF T
  <2>5. n \in T
    <3>1. \A i \in 2..n : i - 1 \in T => i \in T
      BY <2>4
    <3>2. 1..n \subseteq T
      BY <2>1, <2>3, <3>1, UpFromOne
    <3> QED BY <3>2, <2>1
  <2> QED BY <2>1, <2>2, <2>5 DEF T
<1> QED BY <1>1, <1>2

\* Renaming before or after flattening is the same.
LEMMA FlattenRenamed ==
  ASSUME NEW S, NEW F, NEW ss \in Seq(Seq(S))
  PROVE  FlattenSeq([i \in DOMAIN ss |-> Renamed(ss[i], F)]) = Renamed(FlattenSeq(ss), F)
<1> DEFINE tt == [i \in DOMAIN ss |-> Renamed(ss[i], F)]
           n == Len(ss)
           U == {F[x] : x \in S}
<1>0. IsMap(F, S, U)
  BY DEF IsMap
<1> HIDE DEF U
<1>1. n \in Nat /\ DOMAIN ss = 1..n /\ \A i \in 1..n : ss[i] \in Seq(S)
  OBVIOUS
<1>2. \A i \in 1..n : Renamed(ss[i], F) \in Seq(U)
  BY <1>0, <1>1, RenamedSeq
<1>3. tt \in [1..n -> Seq(U)]
  BY <1>1, <1>2
<1>4. tt \in Seq(Seq(U)) /\ Len(tt) = n /\ \A i \in 1..n : tt[i] = Renamed(ss[i], F)
  BY <1>1, <1>3
<1> HIDE DEF tt, n
<1>5. CASE n = 0
  <2>1. ss = <<>> /\ tt = <<>>
    BY <1>5, <1>1, <1>3, <1>4 DEF n
  <2>2. FlattenSeq(ss) = <<>> /\ FlattenSeq(tt) = <<>>
    BY <2>1 DEF FlattenSeq
  <2>3. Renamed(<<>>, F) = <<>>
    BY DEF Renamed
  <2> QED BY <2>2, <2>3 DEF tt
<1>6. CASE n # 0
  <2>1. ss # <<>> /\ tt # <<>>
    BY <1>6, <1>4 DEF n
  <2>2. PICK f : /\ f[1] = ss[1] /\ FlattenSeq(ss) = f[n]
                 /\ \A i \in 2..n : f[i] = f[i - 1] \o ss[i]
    BY <2>1, FlattenRun DEF n
  <2>3. PICK h : /\ h[1] = tt[1] /\ FlattenSeq(tt) = h[n]
                 /\ \A i \in 2..n : h[i] = h[i - 1] \o tt[i]
    BY <2>1, <1>4, FlattenRun
  <2> DEFINE T == {i \in 1..n : f[i] \in Seq(S) /\ h[i] = Renamed(f[i], F)}
  <2>4. 1 \in T
    <3>1. 1 \in 1..n
      BY <1>1, <1>6
    <3> QED BY <3>1, <1>1, <1>4, <2>2, <2>3
  <2>5. ASSUME NEW i \in 2..n, i - 1 \in T PROVE i \in T
    <3>1. f[i - 1] \in Seq(S) /\ h[i - 1] = Renamed(f[i - 1], F)
      BY <2>5
    <3>0. i \in 1..n
      BY <1>1
    <3>2. f[i] = f[i - 1] \o ss[i] /\ ss[i] \in Seq(S) /\ i \in 1..n
      BY <3>0, <1>1, <2>2
    <3>3. h[i] = h[i - 1] \o Renamed(ss[i], F)
      BY <3>2, <1>4, <2>3
    <3>4. f[i] \in Seq(S)
      BY <3>1, <3>2, ConcatElems
    <3>5. Renamed(f[i], F) = Renamed(f[i - 1], F) \o Renamed(ss[i], F)
      BY <3>1, <3>2, RenamedConcat
    <3> QED BY <3>1, <3>2, <3>3, <3>4, <3>5
  <2> HIDE DEF T
  <2>6. n \in T
    <3>1. \A i \in 2..n : i - 1 \in T => i \in T
      BY <2>5
    <3>2. 1..n \subseteq T
      BY <1>1, <2>4, <3>1, UpFromOne
    <3> QED BY <3>2, <1>1, <1>6
  <2> QED BY <2>2, <2>3, <2>6 DEF T, tt
<1> QED BY <1>1, <1>5, <1>6

-----------------------------------------------------------------------------
\* A graph of the objects D without cycles: references lead to objects of lower rank.
IsGraph(g, D, rank, N) ==
  /\ DOMAIN g = D /\ Nil \notin D /\ N \in Nat
  /\ \A o \in D : g[o].members \in Seq(D) /\ g[o].link \in D \cup {Nil}
  /\ rank \in [D -> 0..N]
  /\ \A o \in D : \A x \in Refs(g[o]) : rank[x] < rank[o]

WalkFrom(g, f, o) ==
  <<Self(o), <<o, "team">> >>
    \o FlattenSeq([i \in DOMAIN g[o].members |-> f[g[o].members[i]]])
    \o <<Referred(o)>>
    \o (IF g[o].link = Nil THEN <<>> ELSE f[g[o].link])

ViewFrom(g, f, o) ==
  [members |-> [k \in DOMAIN g[o].members |-> f[g[o].members[k]]],
   val |-> g[o].val,
   link |-> IF g[o].link = Nil THEN Nil ELSE f[g[o].link]]

\* What a recursive function over a graph gives for an object, by its name.
Unfold(kind, g, f, o) == IF kind = "walk" THEN WalkFrom(g, f, o) ELSE ViewFrom(g, f, o)

LEMMA RefsAre ==
  ASSUME NEW g, NEW D, NEW rank, NEW N, IsGraph(g, D, rank, N), NEW o \in D
  PROVE  /\ \A i \in DOMAIN g[o].members : g[o].members[i] \in Refs(g[o])
         /\ g[o].link # Nil => g[o].link \in Refs(g[o])
         /\ Refs(g[o]) \subseteq D
         /\ \A x \in Refs(g[o]) : x = g[o].link \/ \E i \in DOMAIN g[o].members : x = g[o].members[i]
  BY DEF IsGraph, Refs, ToSet

\* What holds of an object when it does of those it refers to holds of all.
LEMMA RankInduction ==
  ASSUME NEW g, NEW D, NEW rank, NEW N, IsGraph(g, D, rank, N), NEW S,
         \A o \in D : Refs(g[o]) \subseteq S => o \in S
  PROVE  D \subseteq S
<1> DEFINE T == {k \in Nat : \A o \in D : rank[o] < k => o \in S}
<1>0. rank \in [D -> 0..N] /\ N \in Nat /\ \A o \in D : \A x \in Refs(g[o]) : rank[x] < rank[o]
  BY DEF IsGraph
<1>1. 0 \in T
  BY <1>0
<1>2. ASSUME NEW k \in Nat, k \in T PROVE k + 1 \in T
  <2> SUFFICES ASSUME NEW o \in D, rank[o] < k + 1 PROVE o \in S
    OBVIOUS
  <2>1. ASSUME NEW x \in Refs(g[o]) PROVE x \in S
    <3>1. x \in D /\ rank[x] < rank[o]
      BY <1>0, RefsAre
    <3>2. rank[x] \in Nat /\ rank[o] \in Nat
      BY <3>1, <1>0
    <3>3. rank[x] < k
      BY <3>1, <3>2
    <3> QED BY <3>1, <3>3, <1>2
  <2> QED BY <2>1
<1> HIDE DEF T
<1>3. N + 1 \in T
  BY <1>0, <1>1, <1>2, NatSetInduction
<1>4. \A o \in D : rank[o] < N + 1
  BY <1>0
<1> QED BY <1>3, <1>4 DEF T

\* A step of a recursive function looks at the objects referred to only.
LEMMA UnfoldSame ==
  ASSUME NEW g, NEW D, NEW rank, NEW N, IsGraph(g, D, rank, N), NEW o \in D, NEW kind,
         NEW f, NEW h, \A x \in Refs(g[o]) : f[x] = h[x]
  PROVE  Unfold(kind, g, f, o) = Unfold(kind, g, h, o)
<1>1. \A i \in DOMAIN g[o].members : f[g[o].members[i]] = h[g[o].members[i]]
  BY RefsAre
<1>2. g[o].link # Nil => f[g[o].link] = h[g[o].link]
  BY RefsAre
<1>3. [i \in DOMAIN g[o].members |-> f[g[o].members[i]]] = [i \in DOMAIN g[o].members |-> h[g[o].members[i]]]
  BY <1>1
<1>4. (IF g[o].link = Nil THEN <<>> ELSE f[g[o].link]) = (IF g[o].link = Nil THEN <<>> ELSE h[g[o].link])
  BY <1>2
<1>5. (IF g[o].link = Nil THEN Nil ELSE f[g[o].link]) = (IF g[o].link = Nil THEN Nil ELSE h[g[o].link])
  BY <1>2
<1>6. WalkFrom(g, f, o) = WalkFrom(g, h, o)
  BY <1>3, <1>4, Zenon DEF WalkFrom
<1>7. ViewFrom(g, f, o) = ViewFrom(g, h, o)
  BY <1>3, <1>5, Zenon DEF ViewFrom
<1> QED BY <1>6, <1>7, Zenon DEF Unfold

\* There is a function that each such step defines from itself, by induction over the rank.
LEMMA UnfoldExists ==
  ASSUME NEW g, NEW D, NEW rank, NEW N, IsGraph(g, D, rank, N), NEW kind
  PROVE  \E f : f = [o \in D |-> Unfold(kind, g, f, o)]
<1> DEFINE Is(f, k) == \A o \in D : rank[o] < k => f[o] = Unfold(kind, g, f, o)
           T == {k \in Nat : \E f : Is(f, k)}
<1>0. rank \in [D -> 0..N] /\ N \in Nat /\ \A o \in D : \A x \in Refs(g[o]) : x \in D /\ rank[x] < rank[o]
  BY RefsAre DEF IsGraph
<1>1. 0 \in T
  <2>1. Is({}, 0)
    BY <1>0
  <2> QED BY <2>1
<1>2. ASSUME NEW k \in Nat, NEW f, Is(f, k) PROVE Is([o \in D |-> Unfold(kind, g, f, o)], k + 1)
  <2> DEFINE h == [o \in D |-> Unfold(kind, g, f, o)]
  <2>1. \A o \in D : h[o] = Unfold(kind, g, f, o)
    OBVIOUS
  <2> HIDE DEF h
  <2>2. SUFFICES ASSUME NEW o \in D, rank[o] < k + 1 PROVE h[o] = Unfold(kind, g, h, o)
    BY DEF h
  <2>3. ASSUME NEW x \in Refs(g[o]) PROVE f[x] = h[x]
    <3>1. x \in D /\ rank[x] < rank[o] /\ rank[x] \in Nat /\ rank[o] \in Nat
      BY <1>0
    <3>2. rank[x] < k
      BY <3>1, <2>2
    <3> QED BY <3>1, <3>2, <1>2, <2>1
  <2>4. Unfold(kind, g, f, o) = Unfold(kind, g, h, o)
    BY <2>3, UnfoldSame
  <2> QED BY <2>1, <2>4
<1>3. \E f : Is(f, N + 1)
  <2>1. ASSUME NEW k \in Nat, k \in T PROVE k + 1 \in T
    <3>1. PICK f : Is(f, k)
      BY <2>1
    <3>2. Is([o \in D |-> Unfold(kind, g, f, o)], k + 1)
      BY <3>1, <1>2
    <3> HIDE DEF Is
    <3> QED BY <3>2
  <2> HIDE DEF T
  <2>2. N + 1 \in T
    BY <1>0, <1>1, <2>1, NatSetInduction
  <2> QED BY <2>2 DEF T
<1>4. PICK f : Is(f, N + 1)
  BY <1>3
<1> DEFINE h == [o \in D |-> Unfold(kind, g, f, o)]
<1>5. \A o \in D : f[o] = Unfold(kind, g, f, o)
  BY <1>4, <1>0
<1>6. \A o \in D : h[o] = f[o]
  BY <1>5
<1>7. ASSUME NEW o \in D PROVE Unfold(kind, g, f, o) = Unfold(kind, g, h, o)
  <2> HIDE DEF h
  <2> QED BY <1>0, <1>6, UnfoldSame
<1>8. h = [o \in D |-> Unfold(kind, g, h, o)]
  <2>1. \A o \in D : h[o] = Unfold(kind, g, h, o)
    BY <1>7
  <2> QED BY <1>7
<1> QED BY <1>8

\* A walk and a view are what their definitions say: the recursion ends.
LEMMA WalkIs ==
  ASSUME NEW g, NEW D, NEW rank, NEW N, IsGraph(g, D, rank, N)
  PROVE  \A o \in D : Walk(g)[o] = WalkFrom(g, Walk(g), o)
<1> DEFINE Is(f) == f = [o \in D |-> WalkFrom(g, f, o)]
<1>1. Walk(g) = CHOOSE f : Is(f)
  BY DEF Walk, WalkFrom, IsGraph
<1>2. \E f : f = [o \in D |-> Unfold("walk", g, f, o)]
  BY UnfoldExists
<1>3. \A f : f = [o \in D |-> Unfold("walk", g, f, o)] => Is(f)
  BY DEF Unfold
<1>4. Is(Walk(g))
  <2> HIDE DEF Is
  <2> QED BY <1>1, <1>2, <1>3
<1> HIDE DEF Is
<1> QED BY <1>4 DEF Is

\* View satisfies its recursive definition.
LEMMA ViewIs ==
  ASSUME NEW g, NEW D, NEW rank, NEW N, IsGraph(g, D, rank, N)
  PROVE  \A o \in D : View(g)[o] = ViewFrom(g, View(g), o)
<1> DEFINE Is(f) == f = [o \in D |-> ViewFrom(g, f, o)]
<1>1. View(g) = CHOOSE f : Is(f)
  BY DEF View, ViewFrom, IsGraph
<1>2. \E f : f = [o \in D |-> Unfold("view", g, f, o)]
  BY UnfoldExists
<1>3. \A f : f = [o \in D |-> Unfold("view", g, f, o)] => Is(f)
  BY DEF Unfold
<1>4. Is(View(g))
  <2> HIDE DEF Is
  <2> QED BY <1>1, <1>2, <1>3
<1> HIDE DEF Is
<1> QED BY <1>4 DEF Is

\* Walks are of services.
Services(D) == D \X Ports

LEMMA FourElems ==
  ASSUME NEW S, NEW a \in Seq(S), NEW b \in Seq(S), NEW c \in Seq(S), NEW d \in Seq(S)
  PROVE  /\ a \o b \o c \o d \in Seq(S)
         /\ ToSet(a \o b \o c \o d) = ToSet(a) \cup ToSet(b) \cup ToSet(c) \cup ToSet(d)
<1>1. \A x, y \in Seq(S) : x \o y \in Seq(S) /\ ToSet(x \o y) = ToSet(x) \cup ToSet(y)
  BY ConcatElems
<1>2. a \o b \in Seq(S) /\ ToSet(a \o b) = ToSet(a) \cup ToSet(b)
  BY <1>1
<1>3. (a \o b) \o c \in Seq(S) /\ ToSet((a \o b) \o c) = ToSet(a) \cup ToSet(b) \cup ToSet(c)
  BY <1>1, <1>2
<1> QED BY <1>1, <1>3

\* A walk meets the services of the object and what the walks from its references meet.
LEMMA WalkType ==
  ASSUME NEW g, NEW D, NEW rank, NEW N, IsGraph(g, D, rank, N)
  PROVE  /\ \A o \in D : Walk(g)[o] \in Seq(Services(D))
         /\ \A o \in D : ToSet(Walk(g)[o]) =
              {Self(o), <<o, "team">>, Referred(o)} \cup UNION {ToSet(Walk(g)[x]) : x \in Refs(g[o])}
<1> DEFINE V == Services(D)
           w == Walk(g)
           S == {o \in D : w[o] \in Seq(V)}
<1>1. ASSUME NEW o \in D, Refs(g[o]) \subseteq S
      PROVE  /\ w[o] \in Seq(V)
             /\ ToSet(w[o]) = {Self(o), <<o, "team">>, Referred(o)} \cup UNION {ToSet(w[x]) : x \in Refs(g[o])}
  <2> DEFINE ms == g[o].members
             below == [i \in DOMAIN ms |-> w[ms[i]]]
             a == <<Self(o), <<o, "team">> >>
             b == FlattenSeq(below)
             c == <<Referred(o)>>
             d == IF g[o].link = Nil THEN <<>> ELSE w[g[o].link]
  <2>1. w[o] = a \o b \o c \o d
    BY WalkIs DEF WalkFrom
  <2>2. /\ a \in Seq(V) /\ ToSet(a) = {Self(o), <<o, "team">>}
        /\ c \in Seq(V) /\ ToSet(c) = {Referred(o)}
    <3>1. Self(o) \in V /\ <<o, "team">> \in V /\ Referred(o) \in V
      BY DEF Self, Referred, Services, Ports
    <3> HIDE DEF V
    <3> QED BY <3>1 DEF ToSet
  <2>3. ms \in Seq(D) /\ g[o].link \in D \cup {Nil}
    BY DEF IsGraph
  <2>4. \A i \in DOMAIN ms : ms[i] \in Refs(g[o]) /\ w[ms[i]] \in Seq(V)
    BY <1>1, RefsAre
  <2>5. below \in Seq(Seq(V)) /\ DOMAIN below = DOMAIN ms
    <3>1. DOMAIN ms = 1..Len(ms) /\ Len(ms) \in Nat
      BY <2>3
    <3> HIDE DEF V, w, ms
    <3>2. below \in [1..Len(ms) -> Seq(V)]
      BY <2>4, <3>1
    <3> QED BY <3>1, <3>2
  <2>6. b \in Seq(V) /\ ToSet(b) = UNION {ToSet(below[i]) : i \in DOMAIN below}
    <3> HIDE DEF below, V
    <3> QED BY <2>5, FlattenElems
  <2>7. d \in Seq(V) /\ ToSet(d) = IF g[o].link = Nil THEN {} ELSE ToSet(w[g[o].link])
    <3>1. CASE g[o].link = Nil
      BY <3>1 DEF ToSet
    <3>2. CASE g[o].link # Nil
      <4>1. g[o].link \in S
        BY <3>2, <1>1, RefsAre
      <4> QED BY <4>1, <3>2
    <3> QED BY <3>1, <3>2
  <2>8. UNION {ToSet(below[i]) : i \in DOMAIN below} = UNION {ToSet(w[x]) : x \in ToSet(ms)}
    <3>1. \A i \in DOMAIN ms : below[i] = w[ms[i]]
      OBVIOUS
    <3> HIDE DEF w, ms, below
    <3>2. ASSUME NEW y, NEW i \in DOMAIN below, y \in ToSet(below[i])
          PROVE  \E x \in ToSet(ms) : y \in ToSet(w[x])
      <4>1. below[i] = w[ms[i]] /\ ms[i] \in ToSet(ms)
        BY <3>1, <2>5 DEF ToSet
      <4> QED BY <4>1, <3>2
    <3>3. ASSUME NEW y, NEW x \in ToSet(ms), y \in ToSet(w[x])
          PROVE  \E i \in DOMAIN below : y \in ToSet(below[i])
      <4>1. PICK i \in DOMAIN ms : x = ms[i]
        BY DEF ToSet
      <4> QED BY <4>1, <3>1, <3>3, <2>5
    <3> QED BY <3>2, <3>3
  <2>9. Refs(g[o]) = ToSet(ms) \cup (IF g[o].link = Nil THEN {} ELSE {g[o].link})
    BY DEF Refs
  <2> HIDE DEF a, b, c, d, w, ms, V, below
  <2>10. a \o b \o c \o d \in Seq(V)
         /\ ToSet(a \o b \o c \o d) = ToSet(a) \cup ToSet(b) \cup ToSet(c) \cup ToSet(d)
    BY <2>2, <2>6, <2>7, FourElems
  <2> DEFINE U == UNION {ToSet(w[x]) : x \in Refs(g[o])}
             M == UNION {ToSet(w[x]) : x \in ToSet(ms)}
  <2>11. U = M \cup ToSet(d)
    <3>1. \A y : y \in U <=> \E x \in Refs(g[o]) : y \in ToSet(w[x])
      OBVIOUS
    <3>2. \A y : y \in M <=> \E x \in ToSet(ms) : y \in ToSet(w[x])
      OBVIOUS
    <3> HIDE DEF U, M
    <3>3. CASE g[o].link = Nil
      <4>1. Refs(g[o]) = ToSet(ms) /\ ToSet(d) = {}
        BY <3>3, <2>7, <2>9
      <4> QED BY <4>1, <3>1, <3>2
    <3>4. CASE g[o].link # Nil
      <4>1. Refs(g[o]) = ToSet(ms) \cup {g[o].link} /\ ToSet(d) = ToSet(w[g[o].link])
        BY <3>4, <2>7, <2>9
      <4>2. \A y : (\E x \in Refs(g[o]) : y \in ToSet(w[x]))
                   <=> (\E x \in ToSet(ms) : y \in ToSet(w[x])) \/ y \in ToSet(d)
        BY <4>1, Zenon
      <4> QED BY <4>2, <3>1, <3>2
    <3> QED BY <3>3, <3>4
  <2>12. ToSet(w[o]) = ToSet(a) \cup ToSet(b) \cup ToSet(c) \cup ToSet(d)
    BY <2>1, <2>10
  <2>13. ToSet(b) = M
    BY <2>6, <2>8
  <2>14. w[o] \in Seq(V)
    BY <2>1, <2>10
  <2>15. ToSet(w[o]) = {Self(o), <<o, "team">>, Referred(o)} \cup U
    <3> HIDE DEF U, M
    <3> QED BY <2>2, <2>11, <2>12, <2>13
  <2> QED BY <2>14, <2>15 DEF w, V
<1>2. D \subseteq S
  <2>1. \A o \in D : Refs(g[o]) \subseteq S => o \in S
    BY <1>1
  <2> HIDE DEF S
  <2> QED BY <2>1, RankInduction
<1> QED BY <1>1, <1>2, RefsAre

-----------------------------------------------------------------------------
\* The objects a walk from o meets.
Reach(g, o) == {x \in DOMAIN g : Self(x) \in ToSet(Walk(g)[o])}

LEMMA ReachIs ==
  ASSUME NEW g, NEW D, NEW rank, NEW N, IsGraph(g, D, rank, N), NEW o \in D
  PROVE  \A x : x \in Reach(g, o) <=> x = o \/ \E y \in Refs(g[o]) : x \in Reach(g, y)
<1>1. DOMAIN g = D /\ Refs(g[o]) \subseteq D
  BY RefsAre DEF IsGraph
<1>2. \A s : s \in ToSet(Walk(g)[o]) <=>
               s \in {Self(o), <<o, "team">>, Referred(o)} \/ \E y \in Refs(g[o]) : s \in ToSet(Walk(g)[y])
  BY WalkType
<1>3. \A x : Self(x) \in {Self(o), <<o, "team">>, Referred(o)} <=> x = o
  BY DEF Self, Referred
<1>4. \A x : x \in Reach(g, o) <=> x \in D /\ (x = o \/ \E y \in Refs(g[o]) : Self(x) \in ToSet(Walk(g)[y]))
  BY <1>1, <1>2, <1>3 DEF Reach
<1>5. \A y \in Refs(g[o]) : \A x : x \in Reach(g, y) <=> x \in D /\ Self(x) \in ToSet(Walk(g)[y])
  BY <1>1 DEF Reach
<1> QED BY <1>4, <1>5

\* A walk meets all services of what can be reached, and no other.
LEMMA ReachServices ==
  ASSUME NEW g, NEW D, NEW rank, NEW N, IsGraph(g, D, rank, N)
  PROVE  \A o \in D : ToSet(Walk(g)[o]) = Services(Reach(g, o)) /\ o \in Reach(g, o) /\ Reach(g, o) \subseteq D
<1> DEFINE S == {o \in D : ToSet(Walk(g)[o]) = Services(Reach(g, o))}
<1>1. ASSUME NEW o \in D, Refs(g[o]) \subseteq S PROVE o \in S
  <2>1. \A s : s \in ToSet(Walk(g)[o]) <=>
               s \in {Self(o), <<o, "team">>, Referred(o)} \/ \E y \in Refs(g[o]) : s \in ToSet(Walk(g)[y])
    BY WalkType
  <2>2. \A s : s \in {Self(o), <<o, "team">>, Referred(o)} <=> s \in {o} \X Ports
    BY DEF Self, Referred, Ports
  <2>3. \A y \in Refs(g[o]) : ToSet(Walk(g)[y]) = Reach(g, y) \X Ports
    BY <1>1 DEF Services
  <2>4. \A x : x \in Reach(g, o) <=> x = o \/ \E y \in Refs(g[o]) : x \in Reach(g, y)
    BY ReachIs
  <2>5. ASSUME NEW s \in ToSet(Walk(g)[o]) PROVE s \in Reach(g, o) \X Ports
    BY <2>1, <2>2, <2>3, <2>4
  <2>6. ASSUME NEW s \in Reach(g, o) \X Ports PROVE s \in ToSet(Walk(g)[o])
    BY <2>1, <2>2, <2>3, <2>4
  <2> QED BY <2>5, <2>6 DEF Services
<1>2. D \subseteq S
  <2> HIDE DEF S
  <2> QED BY <1>1, RankInduction
<1>3. \A o \in D : o \in Reach(g, o)
  BY ReachIs
<1>4. DOMAIN g = D
  BY DEF IsGraph
<1> QED BY <1>2, <1>3, <1>4 DEF Reach

\* What can be reached is in every closed set.
LEMMA ReachLeast ==
  ASSUME NEW g, NEW D, NEW rank, NEW N, IsGraph(g, D, rank, N),
         NEW C, \A x \in C : Refs(g[x]) \subseteq C
  PROVE  \A o \in C \cap D : Reach(g, o) \subseteq C
<1> DEFINE S == {o \in D : o \in C => Reach(g, o) \subseteq C}
<1>1. ASSUME NEW o \in D, Refs(g[o]) \subseteq S PROVE o \in S
  BY <1>1, ReachIs
<1>2. D \subseteq S
  <2> HIDE DEF S
  <2> QED BY <1>1, RankInduction
<1> QED BY <1>2

\* What can be reached is closed.
LEMMA ReachClosed ==
  ASSUME NEW g, NEW D, NEW rank, NEW N, IsGraph(g, D, rank, N), NEW o \in D
  PROVE  \A x \in Reach(g, o) : x \in D /\ Reach(g, x) \subseteq Reach(g, o) /\ Refs(g[x]) \subseteq Reach(g, o)
<1> DEFINE S == {y \in D : \A x \in Reach(g, y) : Reach(g, x) \subseteq Reach(g, y)}
<1>1. ASSUME NEW y \in D, Refs(g[y]) \subseteq S PROVE y \in S
  BY <1>1, ReachIs
<1>2. D \subseteq S
  <2> HIDE DEF S
  <2> QED BY <1>1, RankInduction
<1>3. ASSUME NEW x \in Reach(g, o) PROVE x \in D /\ Reach(g, x) \subseteq Reach(g, o)
  BY <1>2, ReachServices
<1>4. ASSUME NEW x \in Reach(g, o), NEW y \in Refs(g[x]) PROVE y \in Reach(g, o)
  <2>1. x \in D /\ Reach(g, x) \subseteq Reach(g, o)
    BY <1>3
  <2>2. y \in D /\ y \in Reach(g, y)
    BY <2>1, RefsAre, ReachServices
  <2>3. y \in Reach(g, x)
    BY <2>1, <2>2, ReachIs
  <2> QED BY <2>1, <2>3
<1> QED BY <1>3, <1>4

\* A sequence with one more element.
LEMMA AppendElems ==
  ASSUME NEW S, NEW s \in Seq(S), NEW x \in S
  PROVE  /\ Append(s, x) \in Seq(S) /\ ToSet(Append(s, x)) = ToSet(s) \cup {x}
         /\ Len(Append(s, x)) = Len(s) + 1
         /\ \A i \in 1..Len(s) : Append(s, x)[i] = s[i]
         /\ Append(s, x)[Len(s) + 1] = x
         /\ IsInjective(s) /\ x \notin ToSet(s) => IsInjective(Append(s, x))
<1> DEFINE t == Append(s, x)
           n == Len(s)
<1>1. /\ t \in Seq(S) /\ Len(t) = n + 1 /\ t[n + 1] = x /\ \A i \in 1..n : t[i] = s[i]
      /\ n \in Nat /\ DOMAIN s = 1..n /\ DOMAIN t = 1..(n + 1)
  OBVIOUS
<1> HIDE DEF t, n
<1>2. 1..(n + 1) = 1..n \cup {n + 1} /\ n + 1 \notin 1..n
  BY <1>1
<1>3. \A y : y \in ToSet(t) <=> y \in ToSet(s) \/ y = x
  BY <1>1, <1>2 DEF ToSet
<1>4. IsInjective(s) /\ x \notin ToSet(s) => IsInjective(t)
  BY <1>1, <1>2 DEF ToSet, IsInjective
<1> QED BY <1>1, <1>3, <1>4 DEF t, n

\* The objects met are those that can be reached, each once.
LEMMA MetIs ==
  ASSUME NEW g, NEW D, NEW rank, NEW N, IsGraph(g, D, rank, N), NEW o \in D
  PROVE  /\ Met(g, o) \in Seq(Reach(g, o)) /\ IsInjective(Met(g, o))
         /\ ToSet(Met(g, o)) = Reach(g, o)
<1> DEFINE w == Walk(g)[o]
           n == Len(w)
<1>1. w \in Seq(Services(D)) /\ n \in Nat /\ DOMAIN w = 1..n
  BY WalkType
<1>2. PICK run : IsRun("met", {}, <<>>, w, n, run) /\ Met(g, o) = run[n]
  BY <1>1, MetRun
<1> HIDE DEF w, n
<1>3. run[0] = <<>> /\ \A i \in 1..n : run[i] = MetStep(run[i - 1], w[i])
  BY <1>2 DEF IsRun, Step
<1> DEFINE P(i) == /\ run[i] \in Seq(D) /\ IsInjective(run[i])
                   /\ \A x : x \in ToSet(run[i]) <=> \E j \in 1..i : w[j] = Self(x)
           T == {i \in 0..n : P(i)}
<1>4. 0 \in T
  <2>1. 1..0 = {} /\ ToSet(<<>>) = {} /\ IsInjective(<<>>) /\ <<>> \in Seq(D)
    BY DEF ToSet, IsInjective
  <2>2. P(0)
    BY <2>1, <1>3
  <2> QED BY <2>2, <1>1
<1>5. ASSUME NEW i \in 1..n, i - 1 \in T PROVE i \in T
  <2>1. P(i - 1) /\ i \in 0..n
    BY <1>5
  <2>2. w[i] \in Services(D) /\ run[i] = MetStep(run[i - 1], w[i]) /\ 1..i = 1..(i - 1) \cup {i}
    BY <1>1, <1>3
  <2>3. PICK y \in D, p \in Ports : w[i] = <<y, p>>
    BY <2>2 DEF Services
  <2>4. \A x : w[i] = Self(x) <=> x = y /\ p = "object"
    BY <2>3 DEF Self
  <2>5. Contains(run[i - 1], y) <=> y \in ToSet(run[i - 1])
    BY <2>1 DEF Contains, ToSet
  <2>6. CASE p # "object" \/ y \in ToSet(run[i - 1])
    <3>1. run[i] = run[i - 1]
      BY <2>2, <2>3, <2>5, <2>6 DEF MetStep
    <3>2. \A x : (\E j \in 1..i : w[j] = Self(x)) <=> (\E j \in 1..(i - 1) : w[j] = Self(x)) \/ w[i] = Self(x)
      BY <2>2, Zenon
    <3> QED BY <2>1, <2>4, <2>6, <3>1, <3>2
  <2>7. CASE p = "object" /\ y \notin ToSet(run[i - 1])
    <3>1. run[i] = Append(run[i - 1], y)
      BY <2>2, <2>3, <2>5, <2>7 DEF MetStep
    <3>2. \A x : (\E j \in 1..i : w[j] = Self(x)) <=> (\E j \in 1..(i - 1) : w[j] = Self(x)) \/ w[i] = Self(x)
      BY <2>2, Zenon
    <3>3. run[i] \in Seq(D) /\ IsInjective(run[i]) /\ ToSet(run[i]) = ToSet(run[i - 1]) \cup {y}
      BY <2>1, <2>7, <3>1, AppendElems
    <3> QED BY <2>1, <2>4, <2>7, <3>2, <3>3
  <2> QED BY <2>6, <2>7
<1>6. P(n)
  <2> HIDE DEF P
  <2>1. 0..n \subseteq T
    <3> HIDE DEF T
    <3> QED BY <1>1, <1>4, <1>5, UpTo
  <2> QED BY <2>1, <1>1
<1>7. DOMAIN g = D
  BY DEF IsGraph
<1>8. \A x : x \in ToSet(run[n]) <=> x \in Reach(g, o)
  <2>1. \A x : x \in ToSet(run[n]) <=> Self(x) \in ToSet(w)
    BY <1>1, <1>6 DEF ToSet
  <2>2. \A x : x \in ToSet(run[n]) => x \in D
    BY <1>6 DEF ToSet
  <2> QED BY <2>1, <2>2, <1>7 DEF Reach, w
<1>9. run[n] \in Seq(Reach(g, o))
  BY <1>6, <1>8 DEF ToSet
<1> QED BY <1>2, <1>6, <1>8, <1>9

-----------------------------------------------------------------------------
\* What I makes of the objects C of a graph is alike in another graph.
Image(C, I) == [s \in Services(C) |-> <<I[s[1]], s[2]>>]

Alike(g, C, h, I) ==
  \A o \in C : /\ h[I[o]].members = [k \in DOMAIN g[o].members |-> I[g[o].members[k]]]
               /\ h[I[o]].link = IF g[o].link = Nil THEN Nil ELSE I[g[o].link]

AreSeqs(S, a, b, c, d) == a \in Seq(S) /\ b \in Seq(S) /\ c \in Seq(S) /\ d \in Seq(S)

LEMMA FourRenamed ==
  ASSUME NEW S, NEW F, NEW a, NEW b, NEW c, NEW d, AreSeqs(S, a, b, c, d)
  PROVE  Renamed(a \o b \o c \o d, F) = Renamed(a, F) \o Renamed(b, F) \o Renamed(c, F) \o Renamed(d, F)
<1>1. \A x, y \in Seq(S) : x \o y \in Seq(S) /\ Renamed(x \o y, F) = Renamed(x, F) \o Renamed(y, F)
  BY ConcatElems, RenamedConcat
<1>0. a \in Seq(S) /\ b \in Seq(S) /\ c \in Seq(S) /\ d \in Seq(S)
  BY DEF AreSeqs
<1>2. a \o b \in Seq(S) /\ Renamed(a \o b, F) = Renamed(a, F) \o Renamed(b, F)
  BY <1>0, <1>1
<1>3. /\ (a \o b) \o c \in Seq(S)
      /\ Renamed((a \o b) \o c, F) = Renamed(a, F) \o Renamed(b, F) \o Renamed(c, F)
  BY <1>0, <1>1, <1>2
<1> QED BY <1>0, <1>1, <1>3

\* A sequence over the set of its elements.
LEMMA SeqOver ==
  ASSUME NEW S, NEW s \in Seq(S), NEW T, ToSet(s) \subseteq T
  PROVE  s \in Seq(T)
<1>1. s \in [1..Len(s) -> S] /\ Len(s) \in Nat
  OBVIOUS
<1>2. \A i \in 1..Len(s) : s[i] \in T
  BY <1>1 DEF ToSet
<1> QED BY <1>1, <1>2

\* The walk over a copy is the walk over the original, renamed.
LEMMA WalkIso ==
  ASSUME NEW g, NEW D, NEW rank, NEW N, IsGraph(g, D, rank, N),
         NEW h, NEW E, NEW rank2, NEW N2, IsGraph(h, E, rank2, N2),
         NEW C \in SUBSET D, \A o \in C : Refs(g[o]) \subseteq C,
         NEW I \in [C -> E], Alike(g, C, h, I)
  PROVE  \A o \in C : /\ Walk(g)[o] \in Seq(Services(C))
                      /\ Walk(h)[I[o]] = Renamed(Walk(g)[o], Image(C, I))
<1> DEFINE F == Image(C, I)
           w == Walk(g)
           v == Walk(h)
           S == {o \in D : o \in C => v[I[o]] = Renamed(w[o], F)}
<1>1. \A o \in C : w[o] \in Seq(Services(C))
  <2>1. ASSUME NEW o \in C PROVE w[o] \in Seq(Services(C))
    <3>1. Reach(g, o) \subseteq C
      BY ReachLeast
    <3>2. w[o] \in Seq(Services(D)) /\ ToSet(w[o]) = Services(Reach(g, o))
      BY WalkType, ReachServices
    <3>3. ToSet(w[o]) \subseteq Services(C)
      BY <3>1, <3>2 DEF Services
    <3> HIDE DEF w
    <3> QED BY <3>2, <3>3, SeqOver
  <2> QED BY <2>1
<1>2. F \in [Services(C) -> Services(E)]
  BY DEF Image, Services
<1>3. ASSUME NEW o \in D, Refs(g[o]) \subseteq S, o \in C PROVE v[I[o]] = Renamed(w[o], F)
  <2> DEFINE V == Services(C)
             ms == g[o].members
             below == [i \in DOMAIN ms |-> w[ms[i]]]
             a == <<Self(o), <<o, "team">> >>
             b == FlattenSeq(below)
             c == <<Referred(o)>>
             d == IF g[o].link = Nil THEN <<>> ELSE w[g[o].link]
             bb == FlattenSeq([i \in DOMAIN below |-> Renamed(below[i], F)])
  <2>1. w[o] = a \o b \o c \o d
    BY WalkIs DEF WalkFrom
  <2>2. /\ h[I[o]].members = [k \in DOMAIN ms |-> I[ms[k]]]
        /\ h[I[o]].link = IF g[o].link = Nil THEN Nil ELSE I[g[o].link]
        /\ I[o] \in E
    BY <1>3 DEF Alike
  <2>3. v[I[o]] = <<Self(I[o]), <<I[o], "team">> >>
                    \o FlattenSeq([i \in DOMAIN h[I[o]].members |-> v[h[I[o]].members[i]]])
                    \o <<Referred(I[o])>>
                    \o (IF h[I[o]].link = Nil THEN <<>> ELSE v[h[I[o]].link])
    BY <2>2, WalkIs DEF WalkFrom
  <2>4. \A x \in Refs(g[o]) : x \in C /\ v[I[x]] = Renamed(w[x], F) /\ w[x] \in Seq(V)
    BY <1>1, <1>3
  <2>5. ms \in Seq(D) /\ \A i \in DOMAIN ms : ms[i] \in Refs(g[o])
    BY RefsAre DEF IsGraph
  <2>6. /\ a \in V \X V /\ a \in Seq(V) /\ Renamed(a, F) = <<Self(I[o]), <<I[o], "team">> >>
        /\ c \in Seq(V) /\ Renamed(c, F) = <<Referred(I[o])>>
    <3>1. Self(o) \in V /\ <<o, "team">> \in V /\ Referred(o) \in V
      BY <1>3 DEF Self, Referred, Services, Ports
    <3>2. F[Self(o)] = Self(I[o]) /\ F[<<o, "team">>] = <<I[o], "team">> /\ F[Referred(o)] = Referred(I[o])
      BY <3>1 DEF Image, Self, Referred
    <3> HIDE DEF V, F
    <3> QED BY <3>1, <3>2 DEF Renamed
  <2>7. below \in Seq(Seq(V)) /\ DOMAIN below = DOMAIN ms
    <3>1. DOMAIN ms = 1..Len(ms) /\ Len(ms) \in Nat
      BY <2>5
    <3> HIDE DEF V, w, ms
    <3>2. below \in [1..Len(ms) -> Seq(V)]
      BY <2>4, <2>5, <3>1
    <3> QED BY <3>1, <3>2
  <2>8. b \in Seq(V) /\ bb = Renamed(b, F)
    <3> HIDE DEF below, V, F
    <3> QED BY <1>2, <2>7, FlattenElems, FlattenRenamed DEF V
  <2>9. [i \in DOMAIN h[I[o]].members |-> v[h[I[o]].members[i]]] = [i \in DOMAIN below |-> Renamed(below[i], F)]
    <3>1. \A i \in DOMAIN ms : below[i] = w[ms[i]] /\ v[I[ms[i]]] = Renamed(w[ms[i]], F)
      BY <2>4, <2>5
    <3> HIDE DEF w, v, ms, below, F
    <3>2. DOMAIN h[I[o]].members = DOMAIN ms /\ \A i \in DOMAIN ms : h[I[o]].members[i] = I[ms[i]]
      BY <2>2
    <3> QED BY <3>1, <3>2, <2>7
  <2>10. d \in Seq(V) /\ (IF h[I[o]].link = Nil THEN <<>> ELSE v[h[I[o]].link]) = Renamed(d, F)
    <3>1. CASE g[o].link = Nil
      <4>1. Renamed(<<>>, F) = <<>>
        BY DEF Renamed
      <4> QED BY <3>1, <4>1, <2>2
    <3>2. CASE g[o].link # Nil
      <4>1. g[o].link \in C /\ v[I[g[o].link]] = Renamed(w[g[o].link], F) /\ w[g[o].link] \in Seq(V)
        BY <3>2, <2>4, RefsAre
      <4>2. h[I[o]].link = I[g[o].link] /\ h[I[o]].link # Nil
        BY <3>2, <4>1, <2>2 DEF IsGraph
      <4> QED BY <3>2, <4>1, <4>2
    <3> QED BY <3>1, <3>2
  <2> DEFINE dd == IF h[I[o]].link = Nil THEN <<>> ELSE v[h[I[o]].link]
  <2>11. v[I[o]] = Renamed(a, F) \o bb \o Renamed(c, F) \o dd
    <3> HIDE DEF v, F
    <3> QED BY <2>3, <2>6, <2>9
  <2> HIDE DEF a, b, c, d, dd, w, v, ms, V, below, F, bb
  <2>12. Renamed(a \o b \o c \o d, F) = Renamed(a, F) \o Renamed(b, F) \o Renamed(c, F) \o Renamed(d, F)
    <3>2. AreSeqs(V, a, b, c, d)
      BY <2>6, <2>8, <2>10 DEF AreSeqs
    <3> QED BY <3>2, FourRenamed
  <2> QED BY <2>1, <2>8, <2>10, <2>11, <2>12 DEF dd
<1>4. D \subseteq S
  <2>1. \A o \in D : Refs(g[o]) \subseteq S => o \in S
    BY <1>3
  <2> HIDE DEF S
  <2> QED BY <2>1, RankInduction
<1> QED BY <1>1, <1>4

SameVals(g, C, h, I) == \A o \in C : h[I[o]].val = g[o].val

\* A copy with the same values looks like the original.
LEMMA ViewIso ==
  ASSUME NEW g, NEW D, NEW rank, NEW N, IsGraph(g, D, rank, N),
         NEW h, NEW E, NEW rank2, NEW N2, IsGraph(h, E, rank2, N2),
         NEW C \in SUBSET D, \A o \in C : Refs(g[o]) \subseteq C,
         NEW I \in [C -> E], Alike(g, C, h, I), SameVals(g, C, h, I)
  PROVE  \A o \in C : View(h)[I[o]] = View(g)[o]
<1> DEFINE S == {o \in D : o \in C => View(h)[I[o]] = View(g)[o]}
<1>1. ASSUME NEW o \in D, Refs(g[o]) \subseteq S, o \in C PROVE View(h)[I[o]] = View(g)[o]
  <2> DEFINE ms == g[o].members
  <2>1. /\ h[I[o]].members = [k \in DOMAIN ms |-> I[ms[k]]]
        /\ h[I[o]].link = IF g[o].link = Nil THEN Nil ELSE I[g[o].link]
        /\ h[I[o]].val = g[o].val /\ I[o] \in E
    BY <1>1 DEF Alike, SameVals
  <2>2. \A x \in Refs(g[o]) : x \in C /\ View(h)[I[x]] = View(g)[x]
    BY <1>1
  <2>3. \A i \in DOMAIN ms : ms[i] \in Refs(g[o])
    BY RefsAre
  <2>4. View(h)[I[o]] = ViewFrom(h, View(h), I[o]) /\ View(g)[o] = ViewFrom(g, View(g), o)
    BY <2>1, ViewIs
  <2>5. DOMAIN h[I[o]].members = DOMAIN ms /\ \A k \in DOMAIN ms : h[I[o]].members[k] = I[ms[k]]
    BY <2>1
  <2>6. [k \in DOMAIN h[I[o]].members |-> View(h)[h[I[o]].members[k]]] = [k \in DOMAIN ms |-> View(g)[ms[k]]]
    BY <2>2, <2>3, <2>5
  <2>7. (IF h[I[o]].link = Nil THEN Nil ELSE View(h)[h[I[o]].link])
          = (IF g[o].link = Nil THEN Nil ELSE View(g)[g[o].link])
    <3>1. CASE g[o].link = Nil
      BY <3>1, <2>1
    <3>2. CASE g[o].link # Nil
      <4>1. g[o].link \in Refs(g[o])
        BY <3>2, RefsAre
      <4>2. h[I[o]].link = I[g[o].link] /\ h[I[o]].link # Nil
        BY <3>2, <4>1, <2>1, <2>2 DEF IsGraph
      <4> QED BY <3>2, <4>1, <4>2, <2>2
    <3> QED BY <3>1, <3>2
  <2> QED BY <2>1, <2>4, <2>6, <2>7 DEF ViewFrom
<1>2. D \subseteq S
  <2>1. \A o \in D : Refs(g[o]) \subseteq S => o \in S
    BY <1>1
  <2> HIDE DEF S
  <2> QED BY <2>1, RankInduction
<1> QED BY <1>2

-----------------------------------------------------------------------------
\* A map of services in V: the services that have a number are found by it.
MapOK(m, V) ==
  /\ m.last \in Nat /\ DOMAIN m.toId \subseteq V /\ DOMAIN m.toService \subseteq 1..m.last
  /\ \A n \in DOMAIN m.toService : m.toService[n] \in V
  /\ \A s \in DOMAIN m.toId : /\ m.toId[s] \in DOMAIN m.toService
                              /\ m.toService[m.toId[s]] = s

\* Another map has more: numbers above the last one, of services without one.
Extends(m, k) ==
  /\ m.last \in Nat /\ k.last \in Nat /\ m.last <= k.last
  /\ DOMAIN m.toId \subseteq DOMAIN k.toId
  /\ \A s \in DOMAIN m.toId : k.toId[s] = m.toId[s]
  /\ \A s \in DOMAIN k.toId \ DOMAIN m.toId : k.toId[s] \in Nat /\ k.toId[s] > m.last

LEMMA MapNumbers ==
  ASSUME NEW m, NEW V, MapOK(m, V)
  PROVE  /\ \A s \in DOMAIN m.toId : m.toId[s] \in 1..m.last /\ m.toId[s] # 0 /\ m.toId[s] \in Nat
         /\ \A s, t \in DOMAIN m.toId : m.toId[s] = m.toId[t] => s = t
         /\ \A s : GetId(m, s) = IF s \in DOMAIN m.toId THEN m.toId[s] ELSE 0
         /\ \A n \in DOMAIN m.toService : n \in 1..m.last /\ n \in Nat
<1>1. \A s \in DOMAIN m.toId : m.toId[s] \in 1..m.last
  BY DEF MapOK
<1>2. \A x \in 1..m.last : x # 0 /\ x \in Nat
  BY DEF MapOK
<1> QED BY <1>1, <1>2 DEF MapOK, GetId, HasId

\* Extends is reflexive and transitive.
LEMMA ExtendsSelf ==
  ASSUME NEW m, m.last \in Nat
  PROVE  Extends(m, m)
  BY DEF Extends

LEMMA ExtendsTrans ==
  ASSUME NEW m, NEW k, NEW l, Extends(m, k), Extends(k, l)
  PROVE  Extends(m, l)
<1>1. m.last \in Nat /\ k.last \in Nat /\ l.last \in Nat /\ m.last <= k.last /\ k.last <= l.last
  BY DEF Extends
<1>2. DOMAIN m.toId \subseteq DOMAIN l.toId /\ \A s \in DOMAIN m.toId : l.toId[s] = m.toId[s]
  BY DEF Extends
<1>3. ASSUME NEW s \in DOMAIN l.toId \ DOMAIN m.toId PROVE l.toId[s] \in Nat /\ l.toId[s] > m.last
  <2>1. CASE s \in DOMAIN k.toId
    <3>1. l.toId[s] = k.toId[s] /\ k.toId[s] \in Nat /\ k.toId[s] > m.last
      BY <2>1 DEF Extends
    <3> QED BY <3>1
  <2>2. CASE s \notin DOMAIN k.toId
    <3>1. l.toId[s] \in Nat /\ l.toId[s] > k.last
      BY <2>2 DEF Extends
    <3> QED BY <3>1, <1>1
  <2> QED BY <2>1, <2>2
<1> QED BY <1>1, <1>2, <1>3 DEF Extends

\* map::insert keeps what is there.
LEMMA InsertIs ==
  ASSUME NEW map, NEW key, NEW x
  PROVE  /\ DOMAIN Insert(map, key, x) = DOMAIN map \cup {key}
         /\ \A k \in DOMAIN map : Insert(map, key, x)[k] = map[k]
         /\ key \notin DOMAIN map => Insert(map, key, x)[key] = x
  BY DEF Insert

\* A service with a number of its own.
LEMMA InsertInMapIs ==
  ASSUME NEW m, NEW s, NEW n
  PROVE  LET k == InsertInMap(m, s, n) IN
         /\ DOMAIN k.toId = DOMAIN m.toId \cup {s} /\ DOMAIN k.toService = DOMAIN m.toService \cup {n}
         /\ \A t \in DOMAIN m.toId : k.toId[t] = m.toId[t]
         /\ \A i \in DOMAIN m.toService : k.toService[i] = m.toService[i]
         /\ s \notin DOMAIN m.toId => k.toId[s] = n
         /\ n \notin DOMAIN m.toService => k.toService[n] = s
         /\ k.last = m.last
<1> DEFINE k == InsertInMap(m, s, n)
<1>1. k.toId = Insert(m.toId, s, n) /\ k.toService = Insert(m.toService, n, s) /\ k.last = m.last
  BY DEF InsertInMap
<1> HIDE DEF k
<1>2. /\ DOMAIN k.toId = DOMAIN m.toId \cup {s} /\ (s \notin DOMAIN m.toId => k.toId[s] = n)
      /\ \A t \in DOMAIN m.toId : k.toId[t] = m.toId[t]
  BY <1>1 DEF Insert
<1>3. /\ DOMAIN k.toService = DOMAIN m.toService \cup {n} /\ (n \notin DOMAIN m.toService => k.toService[n] = s)
      /\ \A i \in DOMAIN m.toService : k.toService[i] = m.toService[i]
  BY <1>1 DEF Insert
<1> QED BY <1>1, <1>2, <1>3 DEF k

\* A service without a number gets the next one.
LEMMA InsertNextIs ==
  ASSUME NEW m, NEW V, MapOK(m, V), NEW s \in V, s \notin DOMAIN m.toId
  PROVE  LET k == InsertNext(m, s) IN
         /\ MapOK(k, V) /\ Extends(m, k)
         /\ DOMAIN k.toId = DOMAIN m.toId \cup {s} /\ k.toId[s] = m.last + 1
         /\ k.last = m.last + 1
         /\ DOMAIN k.toService = DOMAIN m.toService \cup {m.last + 1}
         /\ \A i \in DOMAIN m.toService : k.toService[i] = m.toService[i]
<1> DEFINE n == m.last + 1
           k0 == [toId |-> m.toId, toService |-> m.toService, last |-> n]
           k == InsertNext(m, s)
<1>1. k0.toId = m.toId /\ k0.toService = m.toService /\ k0.last = n
  OBVIOUS
<1>2. k = InsertInMap(k0, s, n)
  BY DEF InsertNext
<1>3. m.last \in Nat /\ n \in Nat /\ n > m.last /\ n \notin DOMAIN m.toService
  <2>1. n \notin 1..m.last /\ m.last \in Nat
    BY DEF MapOK
  <2> QED BY <2>1 DEF MapOK
<1> HIDE DEF k0, k, n
<1>4. /\ DOMAIN k.toId = DOMAIN m.toId \cup {s} /\ DOMAIN k.toService = DOMAIN m.toService \cup {n}
      /\ \A t \in DOMAIN m.toId : k.toId[t] = m.toId[t]
      /\ \A i \in DOMAIN m.toService : k.toService[i] = m.toService[i]
      /\ k.toId[s] = n /\ k.toService[n] = s /\ k.last = n
  BY <1>1, <1>2, <1>3, InsertInMapIs
<1>5. DOMAIN k.toService \subseteq 1..n
  BY <1>3, <1>4 DEF MapOK, n
<1>6. MapOK(k, V)
  BY <1>3, <1>4, <1>5 DEF MapOK
<1>7. Extends(m, k)
  BY <1>3, <1>4 DEF Extends
<1> QED BY <1>4, <1>6, <1>7 DEF k, n

\* getObjectId numbers what can be reached from the object, and changes no number.
LEMMA ObjectIdIs ==
  ASSUME NEW g, NEW D, NEW rank, NEW N, IsGraph(g, D, rank, N), NEW o \in D,
         NEW V, Services(D) \subseteq V, NEW m, MapOK(m, V)
  PROVE  LET k == ObjectId(m, g, o) IN
         /\ MapOK(k, V) /\ Extends(m, k)
         /\ DOMAIN k.toId = DOMAIN m.toId \cup Services(Reach(g, o))
<1> DEFINE w == Walk(g)[o]
           n == Len(w)
<1>1. w \in Seq(Services(D)) /\ n \in Nat /\ DOMAIN w = 1..n /\ ToSet(w) = Services(Reach(g, o))
  BY WalkType, ReachServices
<1>2. PICK run : IsRun("id", {}, m, w, n, run) /\ ObjectId(m, g, o) = run[n]
  BY ZenonT(40), <1>1, ObjectIdRun
<1> HIDE DEF w, n
<1>3. run[0] = m /\ \A i \in 1..n : run[i] = ObjectIdStep(run[i - 1], w[i])
  BY <1>2 DEF IsRun, Step
<1> DEFINE P(i) == /\ MapOK(run[i], V) /\ Extends(m, run[i])
                   /\ DOMAIN run[i].toId = DOMAIN m.toId \cup {w[j] : j \in 1..i}
           T == {i \in 0..n : P(i)}
<1>4. 0 \in T
  <2>1. 1..0 = {} /\ Extends(m, m)
    BY ExtendsSelf DEF MapOK
  <2>2. P(0)
    BY <2>1, <1>3
  <2> QED BY <2>2, <1>1
<1>5. ASSUME NEW i \in 1..n, i - 1 \in T PROVE i \in T
  <2>1. P(i - 1) /\ i \in 0..n
    BY <1>5
  <2>2. w[i] \in V /\ run[i] = ObjectIdStep(run[i - 1], w[i]) /\ 1..i = 1..(i - 1) \cup {i}
    BY <1>1, <1>3
  <2>3. {w[j] : j \in 1..i} = {w[j] : j \in 1..(i - 1)} \cup {w[i]}
    BY <2>2
  <2>4. CASE w[i] \in DOMAIN run[i - 1].toId
    BY <2>1, <2>2, <2>3, <2>4 DEF ObjectIdStep, HasId
  <2>5. CASE w[i] \notin DOMAIN run[i - 1].toId
    <3>1. run[i] = InsertNext(run[i - 1], w[i])
      BY <2>2, <2>5 DEF ObjectIdStep, HasId
    <3>2. /\ MapOK(run[i], V) /\ Extends(run[i - 1], run[i])
          /\ DOMAIN run[i].toId = DOMAIN run[i - 1].toId \cup {w[i]}
      BY <2>1, <2>2, <2>5, <3>1, InsertNextIs
    <3> QED BY <2>1, <2>3, <3>2, ExtendsTrans
  <2> QED BY <2>4, <2>5
<1>6. P(n)
  <2> HIDE DEF P
  <2>1. 0..n \subseteq T
    <3> HIDE DEF T
    <3> QED BY <1>1, <1>4, <1>5, UpTo
  <2> QED BY <2>1, <1>1
<1>7. {w[j] : j \in 1..n} = ToSet(w)
  BY <1>1 DEF ToSet
<1> QED BY <1>1, <1>2, <1>6, <1>7

-----------------------------------------------------------------------------
\* The first n elements of w are listed in L by their numbers, each once: the i-th
\* comes among the first c[i] of the list.
Lists(w, n, num, L, c) ==
  /\ L \in Seq(Nat) /\ c \in [0..n -> 0..Len(L)] /\ c[0] = 0 /\ c[n] = Len(L)
  /\ \A i \in 1..n : IF \E j \in 1..(i - 1) : w[j] = w[i] THEN c[i] = c[i - 1]
                     ELSE c[i] = c[i - 1] + 1 /\ L[c[i]] = num[w[i]]

LEMMA OrderedIs ==
  ASSUME NEW g, NEW D, NEW rank, NEW N, IsGraph(g, D, rank, N), NEW o \in D,
         NEW V, Services(D) \subseteq V, NEW m, MapOK(m, V)
  PROVE  LET k == GetOrderedIds(m, g, o).map
             L == GetOrderedIds(m, g, o).ids
             w == Walk(g)[o]
         IN  /\ MapOK(k, V) /\ Extends(m, k)
             /\ DOMAIN k.toId = DOMAIN m.toId \cup Services(Reach(g, o))
             /\ \E c : Lists(w, Len(w), k.toId, L, c)
<1> DEFINE w == Walk(g)[o]
           n == Len(w)
<1>1. w \in Seq(Services(D)) /\ n \in Nat /\ DOMAIN w = 1..n /\ ToSet(w) = Services(Reach(g, o))
  BY WalkType, ReachServices
<1>2. PICK run : IsRun("ordered", g, [map |-> m, ids |-> <<>>, marked |-> {}], w, n, run)
                 /\ OrderedEnd(m, g, o) = run[n]
  BY ZenonT(40), <1>1, OrderedRun
<1>3. GetOrderedIds(m, g, o).map = run[n].map /\ GetOrderedIds(m, g, o).ids = run[n].ids
  <2>1. GetOrderedIds(m, g, o) = [map |-> OrderedEnd(m, g, o).map, ids |-> OrderedEnd(m, g, o).ids]
    BY DEF GetOrderedIds, OrderedEnd, OrderedStep
  <2> QED BY <2>1, <1>2
<1>a. \A i \in 1..n : w[i] \in Services(Reach(g, o))
  BY <1>1 DEF ToSet
<1> HIDE DEF w, n
<1>4. /\ run[0] = [map |-> m, ids |-> <<>>, marked |-> {}]
      /\ \A i \in 1..n : run[i] = OrderedStep(g, run[i - 1], w[i])
  BY <1>2 DEF IsRun, Step
<1> DEFINE R == Services(Reach(g, o))
           After(i) == {w[j] : j \in 1..i}
           Longer(s, t) == Len(s) <= Len(t) /\ \A x \in 1..Len(s) : t[x] = s[x]
           More(i, j) == /\ Extends(run[i].map, run[j].map) /\ run[i].ids \in Seq(Nat)
                         /\ Longer(run[i].ids, run[j].ids)
           P(i) == /\ MapOK(run[i].map, V) /\ Extends(m, run[i].map)
                   /\ DOMAIN run[i].map.toId \subseteq DOMAIN m.toId \cup R
                   /\ After(i) \subseteq DOMAIN run[i].map.toId
                   /\ run[i].marked = After(i) /\ run[i].ids \in Seq(Nat)
                   /\ \A j \in 0..i : More(j, i)
           T == {i \in 0..n : P(i)}
<1>5. 0 \in T
  <2>1. After(0) = {} /\ Extends(m, m) /\ m.last \in Nat /\ 0..0 = {0}
    BY ExtendsSelf DEF MapOK
  <2>2. run[0].map = m /\ run[0].ids = <<>> /\ run[0].marked = {} /\ <<>> \in Seq(Nat)
    BY <1>4
  <2>3. Longer(<<>>, <<>>)
    OBVIOUS
  <2> HIDE DEF After, Longer
  <2>4. P(0)
    BY <2>1, <2>2, <2>3
  <2> QED BY <2>4, <1>1
<1>6. ASSUME NEW i \in 1..n, P(i - 1)
      PROVE  /\ P(i)
             /\ IF w[i] \in After(i - 1) THEN run[i].ids = run[i - 1].ids
                ELSE /\ Len(run[i].ids) = Len(run[i - 1].ids) + 1
                     /\ run[i].ids[Len(run[i].ids)] = run[i].map.toId[w[i]]
  <2> DEFINE acc == run[i - 1]
             map == IF HasId(acc.map, w[i]) THEN acc.map ELSE ObjectId(acc.map, g, w[i][1])
  <2>1. /\ run[i].map = map
        /\ run[i].marked = acc.marked \cup {w[i]}
        /\ run[i].ids = IF w[i] \in acc.marked THEN acc.ids ELSE Append(acc.ids, GetId(map, w[i]))
    <3>1. run[i] = OrderedStep(g, acc, w[i])
      BY <1>4
    <3>2. CASE w[i] \in acc.marked
      BY <3>1, <3>2 DEF OrderedStep
    <3>3. CASE w[i] \notin acc.marked
      BY <3>1, <3>3 DEF OrderedStep
    <3> QED BY <3>2, <3>3
  <2>2. After(i) = After(i - 1) \cup {w[i]} /\ w[i] \in R /\ i \in Nat
    <3>1. 1..i = 1..(i - 1) \cup {i}
      BY <1>1
    <3> QED BY <3>1, <1>a
  <2>3. /\ MapOK(map, V) /\ Extends(acc.map, map) /\ w[i] \in DOMAIN map.toId
        /\ DOMAIN map.toId \subseteq DOMAIN m.toId \cup R
    <3>1. CASE w[i] \in DOMAIN acc.map.toId
      <4>1. map = acc.map /\ Extends(acc.map, acc.map)
        BY <3>1, <1>6, ExtendsSelf DEF HasId, MapOK
      <4> QED BY <3>1, <4>1, <1>6
    <3>2. CASE w[i] \notin DOMAIN acc.map.toId
      <4>1. map = ObjectId(acc.map, g, w[i][1])
        BY <3>2 DEF HasId
      <4>2. PICK x \in Reach(g, o), p \in Ports : w[i] = <<x, p>>
        BY <2>2 DEF Services
      <4>3. x \in D /\ x \in Reach(g, x) /\ Reach(g, x) \subseteq Reach(g, o)
        BY <4>2, ReachServices, ReachClosed
      <4>4. /\ MapOK(map, V) /\ Extends(acc.map, map)
            /\ DOMAIN map.toId = DOMAIN acc.map.toId \cup Services(Reach(g, x))
        <5>1. w[i][1] = x
          BY <4>2
        <5>2. map = ObjectId(acc.map, g, x) /\ MapOK(acc.map, V)
          BY <4>1, <5>1, <1>6
        <5> HIDE DEF map, acc
        <5> QED BY <4>3, <5>2, ObjectIdIs
      <4>5. Services(Reach(g, x)) \subseteq R /\ w[i] \in Services(Reach(g, x))
        BY <4>2, <4>3 DEF Services
      <4> QED BY <4>4, <4>5, <1>6
    <3> QED BY <3>1, <3>2
  <2> HIDE DEF map, After, R
  <2>4. Extends(m, map)
    BY <2>3, <1>6, ExtendsTrans
  <2>5. map.toId[w[i]] \in Nat /\ GetId(map, w[i]) = map.toId[w[i]]
    BY <2>3, MapNumbers
  <2>6. DOMAIN acc.map.toId \subseteq DOMAIN map.toId
    BY <2>3 DEF Extends
  <2>7. /\ run[i].ids \in Seq(Nat) /\ Longer(acc.ids, run[i].ids)
        /\ IF w[i] \in After(i - 1) THEN run[i].ids = acc.ids
           ELSE Len(run[i].ids) = Len(acc.ids) + 1 /\ run[i].ids[Len(run[i].ids)] = map.toId[w[i]]
    <3>1. CASE w[i] \in After(i - 1)
      BY <3>1, <2>1, <1>6
    <3>2. CASE w[i] \notin After(i - 1)
      <4>1. run[i].ids = Append(acc.ids, map.toId[w[i]])
        BY <3>2, <2>1, <2>5, <1>6
      <4> QED BY <3>2, <4>1, <2>5, <1>6
    <3> QED BY <3>1, <3>2
  <2>8. ASSUME NEW j \in 0..i PROVE More(j, i)
    <3>1. CASE j = i
      <4>1. Extends(map, map) /\ Longer(run[i].ids, run[i].ids)
        BY <2>3, <2>7, ExtendsSelf DEF MapOK
      <4> QED BY <3>1, <4>1, <2>1, <2>7
    <3>2. CASE j # i
      <4>1. j \in 0..(i - 1)
        BY <3>2, <2>2
      <4>2. Extends(run[j].map, acc.map) /\ Longer(run[j].ids, acc.ids) /\ run[j].ids \in Seq(Nat)
        BY <4>1, <1>6
      <4>3. Extends(run[j].map, run[i].map)
        BY <4>2, <2>1, <2>3, ExtendsTrans
      <4>4. Len(run[j].ids) \in Nat /\ Len(acc.ids) \in Nat /\ Len(run[i].ids) \in Nat
        <5>1. acc.ids \in Seq(Nat) /\ run[j].ids \in Seq(Nat) /\ run[i].ids \in Seq(Nat)
          BY <4>1, <1>6, <2>7
        <5> QED BY <5>1
      <4>5. Longer(run[j].ids, run[i].ids)
        BY SMTT(30), <4>2, <4>4, <2>7
      <4> QED BY <4>2, <4>3, <4>5
    <3> QED BY <3>1, <3>2
  <2>9. P(i)
    BY <2>1, <2>2, <2>3, <2>4, <2>6, <2>7, <2>8, <1>6
  <2> QED BY <2>1, <2>7, <2>9
<1>7. \A i \in 0..n : P(i)
  <2> HIDE DEF P
  <2>1. \A i \in 1..n : i - 1 \in T => i \in T
    BY <1>6, <1>1
  <2>2. 0..n \subseteq T
    <3> HIDE DEF T
    <3> QED BY <1>1, <1>5, <2>1, UpTo
  <2> QED BY <2>2
<1> DEFINE num == run[n].map.toId
           L == run[n].ids
           c == [i \in 0..n |-> Len(run[i].ids)]
<1>8. P(n) /\ n \in 0..n /\ 0 \in 0..n
  BY <1>7, <1>1
<1>9. ASSUME NEW i \in 1..n
      PROVE  IF \E j \in 1..(i - 1) : w[j] = w[i] THEN c[i] = c[i - 1]
             ELSE c[i] = c[i - 1] + 1 /\ L[c[i]] = num[w[i]]
  <2>0. i \in 0..n /\ i - 1 \in 0..n
    BY <1>1
  <2>1. P(i) /\ P(i - 1) /\ i \in 0..n /\ i - 1 \in 0..n
    <3> HIDE DEF P
    <3> QED BY <2>0, <1>7
  <2>2. c[i] = Len(run[i].ids) /\ c[i - 1] = Len(run[i - 1].ids)
    BY <2>1
  <2>3. (\E j \in 1..(i - 1) : w[j] = w[i]) <=> w[i] \in After(i - 1)
    OBVIOUS
  <2>4. More(i, n)
    BY <1>8, <2>1
  <2>5. CASE w[i] \in After(i - 1)
    <3>1. run[i].ids = run[i - 1].ids
      BY <2>1, <2>5, <1>6
    <3> QED BY <2>2, <2>3, <2>5, <3>1
  <2>6. CASE w[i] \notin After(i - 1)
    <3>1. /\ Len(run[i].ids) = Len(run[i - 1].ids) + 1
          /\ run[i].ids[Len(run[i].ids)] = run[i].map.toId[w[i]]
      BY <2>1, <2>6, <1>6
    <3>2. Len(run[i - 1].ids) \in Nat
      <4>1. run[i - 1].ids \in Seq(Nat)
        BY <2>1
      <4> QED BY <4>1
    <3>3. Len(run[i].ids) \in 1..Len(run[i].ids)
      BY <3>1, <3>2
    <3>4. L[Len(run[i].ids)] = run[i].ids[Len(run[i].ids)]
      BY <2>4, <3>3
    <3>5. w[i] \in DOMAIN run[i].map.toId
      <4>1. w[i] \in After(i) /\ After(i) \subseteq DOMAIN run[i].map.toId
        BY <2>1
      <4> QED BY <4>1
    <3>6. num[w[i]] = run[i].map.toId[w[i]]
      BY <2>4, <3>5 DEF Extends
    <3> HIDE DEF After, L, num, c
    <3> QED BY <2>2, <2>3, <2>6, <3>1, <3>4, <3>6
  <2> QED BY <2>5, <2>6
<1>10. c \in [0..n -> 0..Len(L)] /\ c[0] = 0 /\ c[n] = Len(L) /\ L \in Seq(Nat)
  <2>1. L \in Seq(Nat)
    BY <1>8
  <2>2. ASSUME NEW i \in 0..n PROVE Len(run[i].ids) \in 0..Len(L)
    <3>1. More(i, n)
      BY <1>8
    <3>2. run[i].ids \in Seq(Nat) /\ Len(run[i].ids) <= Len(L)
      BY <3>1
    <3> QED BY <2>1, <3>2
  <2>3. Len(run[0].ids) = 0
    BY <1>4
  <2> HIDE DEF L
  <2> QED BY <1>8, <2>1, <2>2, <2>3 DEF L
<1>11. Lists(w, n, num, L, c)
  <2> HIDE DEF L, c, num
  <2> QED BY <1>9, <1>10 DEF Lists
<1>12. DOMAIN num = DOMAIN m.toId \cup R
  <2>1. After(n) = R
    BY <1>1 DEF ToSet
  <2>2. DOMAIN m.toId \subseteq DOMAIN num
    BY <1>8 DEF Extends
  <2> HIDE DEF After, R
  <2> QED BY <1>8, <2>1, <2>2
<1>13. MapOK(run[n].map, V) /\ Extends(m, run[n].map)
  BY <1>8
<1> HIDE DEF c
<1> QED BY <1>3, <1>11, <1>12, <1>13 DEF w, n

\* The rest of a list from a place on.
LEMMA HeadTailFrom ==
  ASSUME NEW S, NEW L \in Seq(S), NEW i \in 1..Len(L)
  PROVE  Head(SubSeq(L, i, Len(L))) = L[i] /\ Tail(SubSeq(L, i, Len(L))) = SubSeq(L, i + 1, Len(L))
<1> DEFINE n == Len(L)
           s == SubSeq(L, i, n)
           t == SubSeq(L, i + 1, n)
<1>1. n \in Nat /\ i \in Nat /\ i <= n /\ i >= 1
  OBVIOUS
<1>2. /\ s \in Seq(S) /\ Len(s) = n - i + 1 /\ \A j \in 1..(n - i + 1) : s[j] = L[i + j - 1]
  BY <1>1, SubSeqProperties
<1>3. /\ t \in Seq(S) /\ Len(t) = n - i /\ \A j \in 1..(n - i) : t[j] = L[i + j]
  BY <1>1, SubSeqProperties
<1> HIDE DEF s, t, n
<1>4. s # <<>> /\ Head(s) = L[i]
  BY <1>1, <1>2
<1>5. Tail(s) \in Seq(S) /\ Len(Tail(s)) = n - i /\ \A j \in 1..(n - i) : Tail(s)[j] = s[j + 1]
  BY <1>1, <1>2, <1>4, HeadTailProperties
<1>6. Tail(s) = t
  BY <1>1, <1>2, <1>3, <1>5, SeqEqual
<1> QED BY <1>4, <1>6 DEF s, t, n

\* A copy: its services, which F gives, get the numbers of the originals.
LEMMA GivenIs ==
  ASSUME NEW h, NEW E, NEW rank, NEW N, IsGraph(h, E, rank, N), NEW root \in E,
         NEW w, NEW n \in Nat, DOMAIN w = 1..n, NEW F, Walk(h)[root] = Renamed(w, F),
         NEW num, NEW L, NEW c, Lists(w, n, num, L, c),
         \A i, j \in 1..n : F[w[i]] = F[w[j]] => w[i] = w[j],
         \A i, j \in 1..n : num[w[i]] = num[w[j]] => w[i] = w[j]
  PROVE  LET k == InitWithIds(h, root, L) IN
         /\ DOMAIN k.toId = {F[w[i]] : i \in 1..n} /\ DOMAIN k.toService = {num[w[i]] : i \in 1..n}
         /\ \A i \in 1..n : k.toId[F[w[i]]] = num[w[i]] /\ k.toService[num[w[i]]] = F[w[i]]
<1> DEFINE v == Walk(h)[root]
<1>1. DOMAIN v = 1..n /\ \A i \in 1..n : v[i] = F[w[i]]
  BY DEF Renamed
<1>2. PICK run : IsRun("given", {}, [map |-> NoIds, ids |-> L], v, n, run) /\ GivenEnd(h, root, L) = run[n]
  BY <1>1, GivenRun
<1>3. InitWithIds(h, root, L) = run[n].map
  <2>1. InitWithIds(h, root, L) = GivenEnd(h, root, L).map
    BY DEF InitWithIds, GivenEnd, GivenStep
  <2> QED BY <2>1, <1>2
<1> HIDE DEF v
<1>4. run[0] = [map |-> NoIds, ids |-> L] /\ \A i \in 1..n : run[i] = GivenStep(run[i - 1], F[w[i]])
  BY <1>1, <1>2 DEF IsRun, Step
<1>5. L \in Seq(Nat) /\ c \in [0..n -> 0..Len(L)] /\ c[0] = 0 /\ Len(L) \in Nat
  BY DEF Lists
<1>a. \A x \in 1..Len(L) : /\ Head(SubSeq(L, x, Len(L))) = L[x]
                           /\ Tail(SubSeq(L, x, Len(L))) = SubSeq(L, x + 1, Len(L))
  BY <1>5, HeadTailFrom
<1> DEFINE P(i) == /\ DOMAIN run[i].map.toId = {F[w[j]] : j \in 1..i}
                   /\ DOMAIN run[i].map.toService = {num[w[j]] : j \in 1..i}
                   /\ \A j \in 1..i : /\ run[i].map.toId[F[w[j]]] = num[w[j]]
                                      /\ run[i].map.toService[num[w[j]]] = F[w[j]]
                   /\ run[i].ids = SubSeq(L, c[i] + 1, Len(L))
           T == {i \in 0..n : P(i)}
<1>6. 0 \in T
  <2>1. 1..0 = {}
    OBVIOUS
  <2>2. run[0].map.toId = <<>> /\ run[0].map.toService = <<>> /\ run[0].ids = L
    BY <1>4 DEF NoIds
  <2>3. SubSeq(L, 0 + 1, Len(L)) = L
    BY <1>5
  <2>4. DOMAIN <<>> = {}
    OBVIOUS
  <2>5. P(0)
    BY <2>1, <2>2, <2>3, <2>4, <1>5
  <2> QED BY <2>5
<1>7. ASSUME NEW i \in 1..n, i - 1 \in T PROVE i \in T
  <2> DEFINE acc == run[i - 1]
  <2>1. P(i - 1) /\ i \in 0..n /\ i - 1 \in 0..n
    BY <1>7
  <2>2. 1..i = 1..(i - 1) \cup {i} /\ i \notin 1..(i - 1) /\ 1..(i - 1) \subseteq 1..n
    OBVIOUS
  <2>3. /\ {F[w[j]] : j \in 1..i} = {F[w[j]] : j \in 1..(i - 1)} \cup {F[w[i]]}
        /\ {num[w[j]] : j \in 1..i} = {num[w[j]] : j \in 1..(i - 1)} \cup {num[w[i]]}
    BY <2>2
  <2>4. run[i] = GivenStep(acc, F[w[i]])
    BY <1>4
  <2>5. F[w[i]] \in DOMAIN acc.map.toId <=> \E j \in 1..(i - 1) : w[j] = w[i]
    BY <2>1, <2>2
  <2>6. CASE \E j \in 1..(i - 1) : w[j] = w[i]
    <3>1. run[i] = acc
      BY <2>4, <2>5, <2>6 DEF GivenStep, HasId
    <3>2. c[i] = c[i - 1]
      BY <2>6 DEF Lists
    <3>3. PICK j \in 1..(i - 1) : w[j] = w[i]
      BY <2>6
    <3>4. /\ {F[w[k]] : k \in 1..i} = {F[w[k]] : k \in 1..(i - 1)}
          /\ {num[w[k]] : k \in 1..i} = {num[w[k]] : k \in 1..(i - 1)}
      BY <2>3, <3>3
    <3>5. \A k \in 1..i : k \in 1..(i - 1) \/ w[k] = w[j]
      BY <2>2, <3>3
    <3>6. /\ DOMAIN run[i].map.toId = {F[w[k]] : k \in 1..i}
          /\ DOMAIN run[i].map.toService = {num[w[k]] : k \in 1..i}
      BY <2>1, <3>1, <3>4
    <3>7. \A k \in 1..i : /\ run[i].map.toId[F[w[k]]] = num[w[k]]
                          /\ run[i].map.toService[num[w[k]]] = F[w[k]]
      <4>1. \A k \in 1..(i - 1) : /\ run[i].map.toId[F[w[k]]] = num[w[k]]
                                  /\ run[i].map.toService[num[w[k]]] = F[w[k]]
        BY <2>1, <3>1
      <4> QED BY <4>1, <3>3, <3>5
    <3>8. run[i].ids = SubSeq(L, c[i] + 1, Len(L))
      BY <2>1, <3>1, <3>2
    <3>9. P(i)
      BY <3>6, <3>7, <3>8
    <3> QED BY <3>9, <2>1
  <2>7. CASE ~ \E j \in 1..(i - 1) : w[j] = w[i]
    <3>1. c[i] = c[i - 1] + 1 /\ L[c[i]] = num[w[i]] /\ c[i] \in 0..Len(L) /\ c[i - 1] \in 0..Len(L)
      BY <2>1, <2>7, <1>5 DEF Lists
    <3>2. acc.ids = SubSeq(L, c[i], Len(L))
      BY <2>1, <3>1
    <3>3. Head(acc.ids) = num[w[i]] /\ Tail(acc.ids) = SubSeq(L, c[i] + 1, Len(L))
      <4>1. c[i] \in 1..Len(L) /\ Len(L) \in Nat /\ L \in Seq(Nat)
        BY <3>1, <1>5
      <4>2. /\ Head(SubSeq(L, c[i], Len(L))) = L[c[i]]
            /\ Tail(SubSeq(L, c[i], Len(L))) = SubSeq(L, c[i] + 1, Len(L))
        BY <4>1, <1>a
      <4> HIDE DEF acc
      <4> QED BY <4>2, <3>1, <3>2
    <3> DEFINE A == InsertInMap(acc.map, F[w[i]], num[w[i]])
               B == SubSeq(L, c[i] + 1, Len(L))
    <3>4. run[i] = [map |-> A, ids |-> B]
      BY <2>4, <2>5, <2>7, <3>3 DEF GivenStep, HasId
    <3>a. run[i].map = A /\ run[i].ids = B
      <4> HIDE DEF A, B
      <4> QED BY <3>4
    <3>5. F[w[i]] \notin DOMAIN acc.map.toId /\ num[w[i]] \notin DOMAIN acc.map.toService
      BY <2>1, <2>2, <2>5, <2>7
    <3> DEFINE k == run[i].map
    <3>6. k = InsertInMap(acc.map, F[w[i]], num[w[i]]) /\ run[i].ids = SubSeq(L, c[i] + 1, Len(L))
      BY <3>a
    <3> HIDE DEF k, acc
    <3>7. /\ DOMAIN k.toId = DOMAIN acc.map.toId \cup {F[w[i]]}
          /\ DOMAIN k.toService = DOMAIN acc.map.toService \cup {num[w[i]]}
          /\ \A t \in DOMAIN acc.map.toId : k.toId[t] = acc.map.toId[t]
          /\ \A j \in DOMAIN acc.map.toService : k.toService[j] = acc.map.toService[j]
          /\ k.toId[F[w[i]]] = num[w[i]] /\ k.toService[num[w[i]]] = F[w[i]]
      BY <3>5, <3>6, InsertInMapIs
    <3>8. ASSUME NEW j \in 1..i PROVE k.toId[F[w[j]]] = num[w[j]] /\ k.toService[num[w[j]]] = F[w[j]]
      <4>1. CASE j = i
        BY <4>1, <3>7
      <4>2. CASE j \in 1..(i - 1)
        BY SMTT(30), <4>2, <3>7, <2>1 DEF acc
      <4> QED BY <4>1, <4>2, <2>2
    <3>9. /\ DOMAIN k.toId = {F[w[j]] : j \in 1..i} /\ DOMAIN k.toService = {num[w[j]] : j \in 1..i}
      BY <3>7, <2>1, <2>3 DEF acc
    <3>10. P(i)
      BY <3>6, <3>8, <3>9 DEF k
    <3> QED BY <3>10, <2>1
  <2> QED BY <2>6, <2>7
<1>8. P(n)
  <2> HIDE DEF P
  <2>1. 0..n \subseteq T
    <3> HIDE DEF T
    <3> QED BY <1>6, <1>7, UpTo
  <2> QED BY <2>1
<1> QED BY <1>3, <1>8

-----------------------------------------------------------------------------
\* The numbers of a publisher: an object has one if any of its services has.
IdsOK(m) == MapOK(m, Services(Objects)) /\ \A s \in DOMAIN m.toId : Self(s[1]) \in DOMAIN m.toId

\* A map has lost numbers.
Fewer(m, k) ==
  /\ DOMAIN k.toId \subseteq DOMAIN m.toId /\ \A s \in DOMAIN k.toId : k.toId[s] = m.toId[s]
  /\ k.toService = m.toService /\ k.last = m.last

LEMMA FewerTrans ==
  ASSUME NEW m, NEW k, NEW l, Fewer(m, k), Fewer(k, l)
  PROVE  Fewer(m, l)
  BY DEF Fewer

\* A map that lost numbers has no new ones, and is a map still.
LEMMA FewerOK ==
  ASSUME NEW m, NEW k, NEW V, MapOK(m, V), Fewer(m, k)
  PROVE  MapOK(k, V)
  BY DEF Fewer, MapOK

LEMMA ForgetIs ==
  ASSUME NEW m, NEW gone
  PROVE  Fewer(m, Forget(m, gone)) /\ DOMAIN Forget(m, gone).toId = DOMAIN m.toId \ gone
<1> DEFINE k == Forget(m, gone)
<1>1. /\ k.toId = [s \in DOMAIN m.toId \ gone |-> m.toId[s]] /\ k.toService = m.toService /\ k.last = m.last
  BY DEF Forget, Restrict
<1> HIDE DEF k
<1> QED BY <1>1 DEF Fewer, k

\* The services of an object are told apart by their ports.
LEMMA PortsAre ==
  \A o, x : \A p \in Ports : /\ <<o, p>> = Self(o) \/ <<o, p>> = <<o, "team">> \/ <<o, p>> = Referred(o)
                             /\ Self(o) # Referred(x) /\ Self(o) # <<x, "team">>
                             /\ (Self(o) = Self(x) => o = x)
  BY DEF Ports, Self, Referred

\* removeObject takes the numbers of the objects away, and no others.
LEMMA RemoveIs ==
  ASSUME NEW m, NEW g, NEW objects, IdsOK(m)
  PROVE  LET k == RemoveObjects(m, g, objects) IN
         /\ Fewer(m, k) /\ IdsOK(k)
         /\ \A o : Self(o) \in DOMAIN k.toId <=> Self(o) \in DOMAIN m.toId /\ o \notin objects
<1> DEFINE ports(o) == {Self(o), <<o, "team">>, Referred(o)}
                         \cup (IF g[o].link = Nil THEN {} ELSE {Referred(g[o].link)})
           gone == UNION {ports(o) : o \in {x \in objects : HasId(m, Self(x))}}
           k == RemoveObjects(m, g, objects)
<1>1. k = Forget(m, gone)
  BY DEF RemoveObjects
<1>2. Fewer(m, k) /\ DOMAIN k.toId = DOMAIN m.toId \ gone
  BY <1>1, ForgetIs
<1>3. \A s : s \in gone <=> \E o \in objects : HasId(m, Self(o)) /\ s \in ports(o)
  OBVIOUS
<1> HIDE DEF k, gone
<1>4. \A o : Self(o) \in gone <=> o \in objects /\ HasId(m, Self(o))
  <2>1. ASSUME NEW o, Self(o) \in gone PROVE o \in objects /\ HasId(m, Self(o))
    <3>1. PICK x \in objects : HasId(m, Self(x)) /\ Self(o) \in ports(x)
      BY <2>1, <1>3
    <3>2. Self(o) = Self(x)
      BY <3>1, PortsAre DEF Ports
    <3>3. o = x
      BY <3>2, PortsAre DEF Ports
    <3> QED BY <3>1, <3>3
  <2>2. ASSUME NEW o, o \in objects, HasId(m, Self(o)) PROVE Self(o) \in gone
    BY <2>2, <1>3
  <2> QED BY <2>1, <2>2
<1>5. \A o : Self(o) \in DOMAIN k.toId <=> Self(o) \in DOMAIN m.toId /\ o \notin objects
  BY <1>2, <1>4 DEF HasId
<1>6. ASSUME NEW s \in DOMAIN k.toId PROVE Self(s[1]) \in DOMAIN k.toId
  <2>1. s \in DOMAIN m.toId /\ s \notin gone
    BY <1>2
  <2>2. PICK o \in Objects, p \in Ports : s = <<o, p>>
    BY <2>1 DEF IdsOK, MapOK, Services
  <2>3. s[1] = o /\ Self(o) \in DOMAIN m.toId
    BY <2>1, <2>2 DEF IdsOK
  <2>4. o \notin objects
    <3>1. s \in ports(o)
      BY <2>2, PortsAre
    <3> QED BY <2>1, <2>3, <3>1, <1>3 DEF HasId
  <2> QED BY <2>3, <2>4, <1>5
<1>7. MapOK(k, Services(Objects))
  BY <1>2, FewerOK DEF IdsOK
<1> QED BY <1>2, <1>5, <1>6, <1>7 DEF IdsOK, k

-----------------------------------------------------------------------------
\* What was, when the changes that are pending were notified: from one graph of H
\* to the next.
Fields == {"members", "val", "link"}
GraphOK(g) == g \in [Objects -> Data] /\ Ordered(g)
Entry == [object : Objects, now : Data, fields : SUBSET Fields]
ChangeSet == [added : SUBSET Objects, removed : SUBSET Objects, changed : Seq(Entry)]
Differs(g, h, p) ==
  /\ p.added = Below(h) \ Below(g) /\ p.removed = Below(g) \ Below(h)
  /\ {p.changed[j].object : j \in DOMAIN p.changed} = {o \in Below(g) \cap Below(h) : g[o] # h[o]}
  /\ \A j \in DOMAIN p.changed :
       LET c == p.changed[j] IN
       c.now = h[c.object] /\ c.fields = {f \in Fields : h[c.object][f] # g[c.object][f]}
History(H, p, g) ==
  /\ p \in Seq(ChangeSet) /\ H[Len(p)] = g
  /\ \A i \in 0..Len(p) : GraphOK(H[i])
  /\ \A i \in 1..Len(p) : Differs(H[i - 1], H[i], p[i])

\* Below the root in the first n graphs.
Always(H, n, o) == \A i \in 0..n : o \in Below(H[i])

LEMMA ProcessIs ==
  ASSUME NEW H, NEW p, NEW g, History(H, p, g), NEW m, IdsOK(m),
         \A o : Self(o) \in DOMAIN m.toId => o \in Below(H[0]), NEW h
  PROVE  LET k == ProcessEnd(m, h, p).map
             new == ProcessEnd(m, h, p).new
         IN  /\ Fewer(m, k) /\ IdsOK(k)
             /\ \A o : o \in new <=> o \in Below(g) /\ ~Always(H, Len(p), o)
             /\ \A o : Self(o) \in DOMAIN k.toId <=> Self(o) \in DOMAIN m.toId /\ Always(H, Len(p), o)
<1> DEFINE n == Len(p)
<1>1. n \in Nat /\ DOMAIN p = 1..n /\ H[n] = g
  BY DEF History
<1>2. PICK run : IsRun("process", h, [map |-> m, new |-> {}], p, n, run) /\ ProcessEnd(m, h, p) = run[n]
  BY <1>1, ProcessRun
<1>3. run[0] = [map |-> m, new |-> {}] /\ \A i \in 1..n : run[i] = ProcessStep(h, run[i - 1], p[i])
  BY <1>2 DEF IsRun, Step
<1>4. \A i \in 1..n : /\ p[i].added = Below(H[i]) \ Below(H[i - 1])
                      /\ p[i].removed = Below(H[i - 1]) \ Below(H[i])
  BY DEF History, Differs
<1> HIDE DEF n
<1> DEFINE P(i) == /\ Fewer(m, run[i].map) /\ IdsOK(run[i].map)
                   /\ \A o : o \in run[i].new <=> o \in Below(H[i]) /\ ~Always(H, i, o)
                   /\ \A o : Self(o) \in DOMAIN run[i].map.toId <=>
                               Self(o) \in DOMAIN m.toId /\ Always(H, i, o)
           T == {i \in 0..n : P(i)}
<1>5. 0 \in T
  <2>1. run[0].map = m /\ run[0].new = {} /\ Fewer(m, m)
    BY <1>3 DEF Fewer
  <2>2. \A o : Always(H, 0, o) <=> o \in Below(H[0])
    BY DEF Always
  <2>3. P(0)
    BY <2>1, <2>2
  <2> QED BY <2>3, <1>1
<1>6. ASSUME NEW i \in 1..n, i - 1 \in T PROVE i \in T
  <2>1. P(i - 1) /\ i \in 0..n
    BY <1>6
  <2>2. \A o : /\ Always(H, i, o) <=> Always(H, i - 1, o) /\ o \in Below(H[i])
               /\ Always(H, i - 1, o) => o \in Below(H[i - 1])
    <3>1. 0..i = 0..(i - 1) \cup {i} /\ i - 1 \in 0..(i - 1)
      BY <1>1
    <3> QED BY <3>1 DEF Always
  <2> DEFINE acc == run[i - 1]
             new == acc.new \cup p[i].added
             gone == p[i].removed \ new
  <2>3. run[i].map = RemoveObjects(acc.map, h, gone) /\ run[i].new = new \ p[i].removed
    <3> DEFINE map == RemoveObjects(acc.map, h, gone)
               rest == new \ p[i].removed
    <3>1. run[i] = [map |-> map, new |-> rest]
      BY <1>3 DEF ProcessStep
    <3>2. run[i].map = map /\ run[i].new = rest
      <4> HIDE DEF map, rest
      <4> QED BY <3>1
    <3> QED BY <3>2
  <2>4. /\ Fewer(acc.map, run[i].map) /\ IdsOK(run[i].map)
        /\ \A o : Self(o) \in DOMAIN run[i].map.toId <=> Self(o) \in DOMAIN acc.map.toId /\ o \notin gone
    <3>1. IdsOK(acc.map)
      BY <2>1
    <3> HIDE DEF acc, gone
    <3> QED BY <2>3, <3>1, RemoveIs
  <2>5. \A o : o \in acc.new <=> o \in Below(H[i - 1]) /\ ~Always(H, i - 1, o)
    BY <2>1
  <2>6. \A o : o \in run[i].new <=> o \in Below(H[i]) /\ ~Always(H, i, o)
    BY <2>2, <2>3, <2>5, <1>4
  <2>7. ASSUME NEW o
        PROVE  Self(o) \in DOMAIN run[i].map.toId <=> Self(o) \in DOMAIN m.toId /\ Always(H, i, o)
    <3>1. Self(o) \in DOMAIN acc.map.toId <=> Self(o) \in DOMAIN m.toId /\ Always(H, i - 1, o)
      BY <2>1
    <3>2. o \in gone <=> o \in Below(H[i - 1]) /\ o \notin Below(H[i]) /\ Always(H, i - 1, o)
      BY <2>5, <1>4
    <3> QED BY <3>1, <3>2, <2>2, <2>4
  <2>8. Fewer(m, run[i].map)
    BY <2>1, <2>4, FewerTrans
  <2> QED BY <2>1, <2>4, <2>6, <2>7, <2>8
<1>7. P(n)
  <2> HIDE DEF P
  <2>1. 0..n \subseteq T
    <3> HIDE DEF T
    <3> QED BY <1>1, <1>5, <1>6, UpTo
  <2> QED BY <2>1, <1>1
<1> QED BY <1>1, <1>2, <1>7 DEF n

\* An object whose services have three numbers in a row.
InARow(m, o) ==
  /\ Services({o}) \subseteq DOMAIN m.toId /\ m.toId[Self(o)] \in Nat
  /\ m.toId[<<o, "team">>] = m.toId[Self(o)] + 1 /\ m.toId[Referred(o)] = m.toId[Self(o)] + 2

\* One whose services may be numbered from V, and are not.
Unnumbered(m, V, o) == Services({o}) \subseteq V /\ \A s \in Services({o}) : s \notin DOMAIN m.toId

LEMMA ServicesOfOne ==
  \A o : /\ Services({o}) = {Self(o), <<o, "team">>, Referred(o)}
         /\ Self(o) # <<o, "team">> /\ Self(o) # Referred(o) /\ <<o, "team">> # Referred(o)
  BY DEF Services, Self, Referred, Ports

\* A number that was given stays.
LEMMA ExtendsDomain ==
  ASSUME NEW m, NEW k, Extends(m, k), NEW s \in DOMAIN m.toId
  PROVE  s \in DOMAIN k.toId /\ k.toId[s] = m.toId[s]
  BY DEF Extends

\* An object without numbers gets three in a row.
LEMMA ShallowIs ==
  ASSUME NEW m, NEW V, MapOK(m, V), NEW o, Unnumbered(m, V, o)
  PROVE  LET k == ShallowObjectId(m, o) IN
         /\ MapOK(k, V) /\ Extends(m, k) /\ DOMAIN k.toId = DOMAIN m.toId \cup Services({o})
         /\ InARow(k, o) /\ k.toId[Self(o)] > m.last
<1> DEFINE a == InsertNext(m, Self(o))
           b == InsertNext(a, <<o, "team">>)
           k == InsertNext(b, Referred(o))
<1>1. ShallowObjectId(m, o) = k
  BY DEF ShallowObjectId
<1>2. m.last \in Nat
  BY DEF MapOK
<1>3. /\ Self(o) \in V /\ <<o, "team">> \in V /\ Referred(o) \in V
      /\ Self(o) \notin DOMAIN m.toId /\ <<o, "team">> \notin DOMAIN m.toId /\ Referred(o) \notin DOMAIN m.toId
      /\ Self(o) # <<o, "team">> /\ Self(o) # Referred(o) /\ <<o, "team">> # Referred(o)
  BY ServicesOfOne DEF Unnumbered
<1>4. /\ MapOK(a, V) /\ Extends(m, a) /\ DOMAIN a.toId = DOMAIN m.toId \cup {Self(o)}
      /\ a.toId[Self(o)] = m.last + 1 /\ a.last = m.last + 1
  BY <1>3, InsertNextIs
<1> HIDE DEF a
<1>5. <<o, "team">> \notin DOMAIN a.toId /\ Referred(o) \notin DOMAIN a.toId
  BY <1>3, <1>4
<1>6. /\ MapOK(b, V) /\ Extends(a, b) /\ DOMAIN b.toId = DOMAIN a.toId \cup {<<o, "team">>}
      /\ b.toId[<<o, "team">>] = a.last + 1 /\ b.last = a.last + 1
  BY <1>3, <1>4, <1>5, InsertNextIs
<1> HIDE DEF b
<1>7. Referred(o) \notin DOMAIN b.toId
  BY <1>3, <1>5, <1>6
<1>8. /\ MapOK(k, V) /\ Extends(b, k) /\ DOMAIN k.toId = DOMAIN b.toId \cup {Referred(o)}
      /\ k.toId[Referred(o)] = b.last + 1
  BY <1>3, <1>6, <1>7, InsertNextIs
<1> HIDE DEF k
<1>9. Extends(m, b) /\ Extends(a, k)
  BY <1>4, <1>6, <1>8, ExtendsTrans
<1>10. Extends(m, k)
  BY <1>8, <1>9, ExtendsTrans
<1>11. k.toId[<<o, "team">>] = b.toId[<<o, "team">>] /\ k.toId[Self(o)] = a.toId[Self(o)]
  BY <1>4, <1>6, <1>8, <1>9, ExtendsDomain
<1>12. DOMAIN k.toId = DOMAIN m.toId \cup Services({o})
  BY <1>4, <1>6, <1>8, ServicesOfOne
<1>13. InARow(k, o) /\ k.toId[Self(o)] > m.last
  <2>1. /\ k.toId[Self(o)] = m.last + 1 /\ k.toId[<<o, "team">>] = m.last + 1 + 1
        /\ k.toId[Referred(o)] = m.last + 1 + 1 + 1
    BY <1>4, <1>6, <1>8, <1>11
  <2>2. Services({o}) \subseteq DOMAIN k.toId
    BY <1>12
  <2> QED BY <1>2, <2>1, <2>2 DEF InARow
<1> QED BY <1>1, <1>8, <1>10, <1>12, <1>13

LEMMA InARowStays ==
  ASSUME NEW m, NEW k, Extends(m, k), NEW o, InARow(m, o)
  PROVE  InARow(k, o) /\ k.toId[Self(o)] = m.toId[Self(o)]
<1>1. \A s \in Services({o}) : s \in DOMAIN k.toId /\ k.toId[s] = m.toId[s]
  BY ExtendsDomain DEF InARow
<1>2. Self(o) \in Services({o}) /\ <<o, "team">> \in Services({o}) /\ Referred(o) \in Services({o})
  BY ServicesOfOne
<1> QED BY <1>1, <1>2 DEF InARow

\* The new objects get numbers in a row, each above all old ones.
LEMMA NumberIs ==
  ASSUME NEW m, NEW V, MapOK(m, V), NEW D, Services(D) \subseteq V,
         NEW order \in Seq(D), IsInjective(order),
         \A s \in Services(ToSet(order)) : s \notin DOMAIN m.toId
  PROVE  LET k == FoldLeft(ShallowObjectId, m, order) IN
         /\ MapOK(k, V) /\ Extends(m, k)
         /\ DOMAIN k.toId = DOMAIN m.toId \cup Services(ToSet(order))
         /\ \A o \in ToSet(order) : InARow(k, o) /\ k.toId[Self(o)] > m.last
<1> DEFINE n == Len(order)
<1>1. n \in Nat /\ DOMAIN order = 1..n
  OBVIOUS
<1>2. PICK run : IsRun("number", {}, m, order, n, run) /\ FoldLeft(ShallowObjectId, m, order) = run[n]
  BY <1>1, NumberRun
<1>3. run[0] = m /\ \A i \in 1..n : run[i] = ShallowObjectId(run[i - 1], order[i])
  BY <1>2 DEF IsRun, Step
<1>4. \A i \in 1..n : order[i] \in D /\ order[i] \in ToSet(order)
  BY <1>1 DEF ToSet
<1> HIDE DEF n
<1> DEFINE First(i) == {order[j] : j \in 1..i}
           P(i) == /\ MapOK(run[i], V) /\ Extends(m, run[i])
                   /\ DOMAIN run[i].toId = DOMAIN m.toId \cup Services(First(i))
                   /\ \A o \in First(i) : InARow(run[i], o) /\ run[i].toId[Self(o)] > m.last
           T == {i \in 0..n : P(i)}
<1>5. 0 \in T
  <2>1. First(0) = {} /\ Extends(m, m)
    BY ExtendsSelf DEF MapOK
  <2>2. Services({}) = {}
    BY DEF Services
  <2> HIDE DEF First
  <2>3. P(0)
    BY <2>1, <2>2, <1>3
  <2> QED BY <2>3, <1>1
<1>6. ASSUME NEW i \in 1..n, i - 1 \in T PROVE i \in T
  <2> DEFINE acc == run[i - 1]
             o == order[i]
  <2>1. P(i - 1) /\ i \in 0..n
    BY <1>6
  <2>2. First(i) = First(i - 1) \cup {o} /\ o \notin First(i - 1) /\ o \in ToSet(order) /\ o \in D
    <3>1. 1..i = 1..(i - 1) \cup {i} /\ 1..(i - 1) \subseteq DOMAIN order /\ i \notin 1..(i - 1) /\ i \in DOMAIN order
      BY <1>1
    <3> QED BY <3>1, <1>4 DEF IsInjective
  <2>3. run[i] = ShallowObjectId(acc, o)
    BY <1>3
  <2> HIDE DEF First, acc, o
  <2>4. MapOK(acc, V) /\ Extends(m, acc) /\ DOMAIN acc.toId = DOMAIN m.toId \cup Services(First(i - 1))
    BY <2>1 DEF acc
  <2>5. Unnumbered(acc, V, o)
    <3>1. Services({o}) \subseteq Services(D) /\ Services({o}) \subseteq Services(ToSet(order))
      BY <2>2 DEF Services
    <3>2. \A s \in Services({o}) : s \notin Services(First(i - 1))
      BY <2>2 DEF Services
    <3> QED BY <2>4, <3>1, <3>2 DEF Unnumbered
  <2>6. /\ MapOK(run[i], V) /\ Extends(acc, run[i])
        /\ DOMAIN run[i].toId = DOMAIN acc.toId \cup Services({o})
        /\ InARow(run[i], o) /\ run[i].toId[Self(o)] > acc.last
    <3> DEFINE k == ShallowObjectId(acc, o)
    <3>1. /\ MapOK(k, V) /\ Extends(acc, k) /\ DOMAIN k.toId = DOMAIN acc.toId \cup Services({o})
          /\ InARow(k, o) /\ k.toId[Self(o)] > acc.last
      <4>1. MapOK(acc, V)
        BY <2>4
      <4> HIDE DEF P, T
      <4> QED BY <4>1, <2>5, ShallowIs
    <3> HIDE DEF k, P, T
    <3> QED BY <3>1, <2>3 DEF k
  <2>7. Extends(m, run[i])
    BY <2>4, <2>6, ExtendsTrans
  <2>8. DOMAIN run[i].toId = DOMAIN m.toId \cup Services(First(i))
    <3>1. Services(First(i)) = Services(First(i - 1)) \cup Services({o})
      BY <2>2 DEF Services
    <3> QED BY <2>4, <2>6, <3>1
  <2>9. ASSUME NEW x \in First(i) PROVE InARow(run[i], x) /\ run[i].toId[Self(x)] > m.last
    <3>1. CASE x = o
      <4>1. acc.last >= m.last /\ acc.last \in Nat /\ m.last \in Nat /\ run[i].toId[Self(o)] \in Nat
        BY <2>4, <2>6 DEF Extends, InARow
      <4> QED BY <3>1, <4>1, <2>6
    <3>2. CASE x \in First(i - 1)
      <4>1. InARow(acc, x) /\ acc.toId[Self(x)] > m.last
        BY <3>2, <2>1 DEF acc
      <4> QED BY <4>1, <2>6, InARowStays
    <3> QED BY <3>1, <3>2, <2>2
  <2>10. P(i)
    BY <2>6, <2>7, <2>8, <2>9
  <2> QED BY <2>1, <2>10
<1>7. P(n)
  <2> HIDE DEF P
  <2>1. 0..n \subseteq T
    <3> HIDE DEF T
    <3> QED BY <1>1, <1>5, <1>6, UpTo
  <2> QED BY <2>1, <1>1
<1>8. First(n) = ToSet(order)
  BY <1>1 DEF ToSet
<1> QED BY <1>2, <1>7, <1>8

-----------------------------------------------------------------------------
\* The elements of a sequence that are in a set, in their order.
LEMMA AmongIs ==
  ASSUME NEW S, NEW w \in Seq(S), NEW set
  PROVE  /\ Among(w, set) \in Seq(S) /\ ToSet(Among(w, set)) = ToSet(w) \cap set
         /\ IsInjective(w) => IsInjective(Among(w, set))
         /\ ToSet(w) \subseteq set => Among(w, set) = w
<1> DEFINE n == Len(w)
<1>1. n \in Nat /\ DOMAIN w = 1..n /\ \A i \in 1..n : w[i] \in S
  OBVIOUS
<1>2. PICK run : IsRun("among", set, <<>>, w, n, run) /\ Among(w, set) = run[n]
  BY <1>1, AmongRun
<1>3. /\ run[0] = <<>>
      /\ \A i \in 1..n : run[i] = IF w[i] \in set THEN Append(run[i - 1], w[i]) ELSE run[i - 1]
  BY <1>2 DEF IsRun, Step, AmongStep
<1> HIDE DEF n
<1> DEFINE First(i) == {w[j] : j \in 1..i}
           P(i) == /\ run[i] \in Seq(S) /\ ToSet(run[i]) = First(i) \cap set
                   /\ IsInjective(w) => IsInjective(run[i])
                   /\ ToSet(w) \subseteq set => Len(run[i]) = i /\ \A j \in 1..i : run[i][j] = w[j]
           T == {i \in 0..n : P(i)}
<1>4. 0 \in T
  <2>1. /\ First(0) = {} /\ run[0] \in Seq(S) /\ Len(run[0]) = 0 /\ DOMAIN run[0] = {}
        /\ \A j \in 1..0 : FALSE
    BY <1>3
  <2>2. ToSet(run[0]) = {} /\ IsInjective(run[0])
    BY <2>1 DEF ToSet, IsInjective
  <2> HIDE DEF First
  <2>3. P(0)
    BY <2>1, <2>2
  <2> QED BY <2>3, <1>1
<1>5. ASSUME NEW i \in 1..n, i - 1 \in T PROVE i \in T
  <2> DEFINE acc == run[i - 1]
  <2>1. P(i - 1) /\ i \in 0..n /\ w[i] \in S /\ i \in Nat
    BY <1>1, <1>5
  <2>2. First(i) = First(i - 1) \cup {w[i]} /\ w[i] \in ToSet(w) /\ (IsInjective(w) => w[i] \notin First(i - 1))
    <3>1. 1..i = 1..(i - 1) \cup {i} /\ 1..(i - 1) \subseteq DOMAIN w /\ i \notin 1..(i - 1) /\ i \in DOMAIN w
      BY <1>1
    <3> QED BY <3>1 DEF IsInjective, ToSet
  <2> HIDE DEF First
  <2>3. CASE w[i] \notin set
    <3>1. run[i] = acc
      BY <2>3, <1>3
    <3>2. ~(ToSet(w) \subseteq set)
      BY <2>2, <2>3
    <3>3. P(i)
      BY <2>1, <2>2, <2>3, <3>1, <3>2
    <3> QED BY <2>1, <3>3
  <2>4. CASE w[i] \in set
    <3>1. run[i] = Append(acc, w[i])
      BY <2>4, <1>3
    <3>2. acc \in Seq(S) /\ ToSet(acc) = First(i - 1) \cap set
      BY <2>1
    <3> HIDE DEF acc
    <3>3. /\ run[i] \in Seq(S) /\ ToSet(run[i]) = ToSet(acc) \cup {w[i]}
          /\ Len(run[i]) = Len(acc) + 1 /\ \A j \in 1..Len(acc) : run[i][j] = acc[j]
          /\ run[i][Len(acc) + 1] = w[i]
          /\ (IsInjective(acc) /\ w[i] \notin ToSet(acc) => IsInjective(run[i]))
      BY <2>1, <3>1, <3>2, AppendElems
    <3>4. IsInjective(w) => IsInjective(run[i])
      BY <2>1, <2>2, <3>2, <3>3 DEF acc
    <3>5. ToSet(w) \subseteq set => Len(run[i]) = i /\ \A j \in 1..i : run[i][j] = w[j]
      <4> SUFFICES ASSUME ToSet(w) \subseteq set PROVE Len(run[i]) = i /\ \A j \in 1..i : run[i][j] = w[j]
        OBVIOUS
      <4>1. Len(acc) = i - 1 /\ \A j \in 1..(i - 1) : acc[j] = w[j]
        BY <2>1 DEF acc
      <4>2. 1..i = 1..(i - 1) \cup {i}
        BY <2>1
      <4>3. Len(run[i]) = i /\ run[i][i] = w[i]
        BY <4>1, <3>3, <2>1
      <4>4. \A j \in 1..(i - 1) : run[i][j] = w[j]
        BY <4>1, <3>3
      <4> QED BY <4>2, <4>3, <4>4
    <3>6. ToSet(run[i]) = First(i) \cap set
      BY <3>2, <3>3, <2>2, <2>4
    <3>7. P(i)
      BY <3>3, <3>4, <3>5, <3>6
    <3> QED BY <2>1, <3>7
  <2> QED BY <2>3, <2>4
<1>6. P(n)
  <2> HIDE DEF P
  <2>1. 0..n \subseteq T
    <3> HIDE DEF T
    <3> QED BY <1>1, <1>4, <1>5, UpTo
  <2> QED BY <2>1, <1>1
<1>7. First(n) = ToSet(w)
  BY <1>1 DEF ToSet
<1>8. ToSet(w) \subseteq set => run[n] = w
  <2> SUFFICES ASSUME ToSet(w) \subseteq set PROVE run[n] = w
    OBVIOUS
  <2>1. run[n] \in Seq(S) /\ Len(run[n]) = n /\ \A j \in 1..n : run[n][j] = w[j]
    BY <1>6
  <2>2. Len(w) = n
    BY DEF n
  <2> HIDE DEF First, P, T
  <2> QED BY <2>1, <2>2, <1>1, SeqEqual
<1> HIDE DEF First
<1> QED BY <1>2, <1>6, <1>7, <1>8

\* Ascending lists the numbers of a set, each once.
LEMMA AscendingIs ==
  ASSUME NEW set, NEW n \in Nat
  PROVE  /\ Ascending(set, n) \in Seq(Nat) /\ IsInjective(Ascending(set, n))
         /\ ToSet(Ascending(set, n)) = set \cap 1..n
<1> DEFINE w == [i \in 1..n |-> i]
<1>1. w \in Seq(Nat) /\ ToSet(w) = 1..n /\ IsInjective(w)
  BY DEF ToSet, IsInjective
<1> HIDE DEF w
<1>2. Among(w, set) \in Seq(Nat) /\ ToSet(Among(w, set)) = ToSet(w) \cap set /\ IsInjective(Among(w, set))
  BY <1>1, AmongIs
<1> QED BY <1>1, <1>2 DEF Ascending, w

-----------------------------------------------------------------------------
\* The place of a port in the numbers of an object.
Off(p) == IF p = "object" THEN 0 ELSE IF p = "team" THEN 1 ELSE 2

\* A map has all that another has.
Kept(m, k) ==
  /\ DOMAIN m.toId \subseteq DOMAIN k.toId /\ \A s \in DOMAIN m.toId : k.toId[s] = m.toId[s]
  /\ DOMAIN m.toService \subseteq DOMAIN k.toService
  /\ \A n \in DOMAIN m.toService : k.toService[n] = m.toService[n]

\* The services of o have the numbers from id on, and are found by them.
Row(k, o, id) ==
  \A p \in Ports : /\ <<o, p>> \in DOMAIN k.toId /\ k.toId[<<o, p>>] = id + Off(p)
                   /\ id + Off(p) \in DOMAIN k.toService /\ k.toService[id + Off(p)] = <<o, p>>

LEMMA KeptTrans ==
  ASSUME NEW m, NEW k, NEW l, Kept(m, k), Kept(k, l)
  PROVE  Kept(m, l)
  BY DEF Kept

\* Numbers once given are kept by what is given later.
LEMMA RowKept ==
  ASSUME NEW m, NEW k, Kept(m, k), NEW o, NEW id, Row(m, o, id)
  PROVE  Row(k, o, id)
  BY DEF Kept, Row

LEMMA InsertKept ==
  ASSUME NEW m, NEW s, NEW n
  PROVE  Kept(m, InsertInMap(m, s, n))
<1> DEFINE k == InsertInMap(m, s, n)
<1>1. k.toId = Insert(m.toId, s, n) /\ k.toService = Insert(m.toService, n, s)
  BY DEF InsertInMap
<1> HIDE DEF k
<1>2. DOMAIN m.toId \subseteq DOMAIN k.toId /\ \A t \in DOMAIN m.toId : k.toId[t] = m.toId[t]
  BY <1>1 DEF Insert
<1>3. /\ DOMAIN m.toService \subseteq DOMAIN k.toService
      /\ \A t \in DOMAIN m.toService : k.toService[t] = m.toService[t]
  BY <1>1 DEF Insert
<1> QED BY <1>2, <1>3 DEF Kept, k

\* No number is taken from id on, and none of the services of o has one.
Vacant(m, o, id) ==
  /\ id \in Nat /\ id \notin DOMAIN m.toService /\ id + 1 \notin DOMAIN m.toService
  /\ id + 2 \notin DOMAIN m.toService /\ \A s \in Services({o}) : s \notin DOMAIN m.toId

LEMMA GivenRow ==
  ASSUME NEW m, NEW o, NEW id, Vacant(m, o, id)
  PROVE  LET k == ShallowGivenObjectId(m, o, id) IN
         /\ Kept(m, k) /\ Row(k, o, id)
         /\ DOMAIN k.toId = DOMAIN m.toId \cup Services({o})
         /\ DOMAIN k.toService = DOMAIN m.toService \cup {id, id + 1, id + 2}
<1> DEFINE a == InsertInMap(m, Self(o), id)
           b == InsertInMap(a, <<o, "team">>, id + 1)
           k == InsertInMap(b, Referred(o), id + 2)
<1>1. ShallowGivenObjectId(m, o, id) = k
  BY DEF ShallowGivenObjectId
<1>2. /\ Self(o) \notin DOMAIN m.toId /\ <<o, "team">> \notin DOMAIN m.toId /\ Referred(o) \notin DOMAIN m.toId
      /\ Self(o) # <<o, "team">> /\ Self(o) # Referred(o) /\ <<o, "team">> # Referred(o)
      /\ id \in Nat /\ id \notin DOMAIN m.toService /\ id + 1 \notin DOMAIN m.toService
      /\ id + 2 \notin DOMAIN m.toService /\ id # id + 1 /\ id # id + 2 /\ id + 1 # id + 2
  BY ServicesOfOne DEF Vacant
<1>3. /\ DOMAIN a.toId = DOMAIN m.toId \cup {Self(o)} /\ DOMAIN a.toService = DOMAIN m.toService \cup {id}
      /\ a.toId[Self(o)] = id /\ a.toService[id] = Self(o) /\ Kept(m, a)
  BY <1>2, InsertInMapIs, InsertKept
<1> HIDE DEF a
<1>4. /\ DOMAIN b.toId = DOMAIN a.toId \cup {<<o, "team">>}
      /\ DOMAIN b.toService = DOMAIN a.toService \cup {id + 1}
      /\ b.toId[<<o, "team">>] = id + 1 /\ b.toService[id + 1] = <<o, "team">> /\ Kept(a, b)
  <2>1. <<o, "team">> \notin DOMAIN a.toId /\ id + 1 \notin DOMAIN a.toService
    BY <1>2, <1>3
  <2> QED BY <2>1, InsertInMapIs, InsertKept
<1> HIDE DEF b
<1>5. /\ DOMAIN k.toId = DOMAIN b.toId \cup {Referred(o)}
      /\ DOMAIN k.toService = DOMAIN b.toService \cup {id + 2}
      /\ k.toId[Referred(o)] = id + 2 /\ k.toService[id + 2] = Referred(o) /\ Kept(b, k)
  <2>1. Referred(o) \notin DOMAIN b.toId /\ id + 2 \notin DOMAIN b.toService
    BY <1>2, <1>3, <1>4
  <2> QED BY <2>1, InsertInMapIs, InsertKept
<1> HIDE DEF k
<1>6. Kept(m, k) /\ Kept(a, k)
  BY <1>3, <1>4, <1>5, KeptTrans
<1>7. /\ k.toId[Self(o)] = id /\ k.toService[id] = Self(o)
      /\ k.toId[<<o, "team">>] = id + 1 /\ k.toService[id + 1] = <<o, "team">>
  BY <1>3, <1>4, <1>5, <1>6 DEF Kept
<1>8. DOMAIN k.toId = DOMAIN m.toId \cup Services({o})
  BY <1>3, <1>4, <1>5, ServicesOfOne
<1>9. DOMAIN k.toService = DOMAIN m.toService \cup {id, id + 1, id + 2}
  BY <1>3, <1>4, <1>5
<1>10. ASSUME NEW p \in Ports
       PROVE  /\ <<o, p>> \in DOMAIN k.toId /\ k.toId[<<o, p>>] = id + Off(p)
              /\ id + Off(p) \in DOMAIN k.toService /\ k.toService[id + Off(p)] = <<o, p>>
  <2>1. CASE p = "object"
    <3>1. <<o, p>> = Self(o) /\ id + Off(p) = id
      BY <2>1, <1>2 DEF Self, Off
    <3> QED BY <3>1, <1>7, <1>8, <1>9, ServicesOfOne
  <2>2. CASE p = "team"
    <3>1. <<o, p>> = <<o, "team">> /\ id + Off(p) = id + 1
      BY <2>2 DEF Off
    <3> QED BY <3>1, <1>7, <1>8, <1>9, ServicesOfOne
  <2>3. CASE p = "info"
    <3>1. <<o, p>> = Referred(o) /\ id + Off(p) = id + 2
      BY <2>3 DEF Off, Referred
    <3> QED BY <3>1, <1>5, <1>8, <1>9, ServicesOfOne
  <2> QED BY <2>1, <2>2, <2>3 DEF Ports
<1> QED BY <1>1, <1>6, <1>8, <1>9, <1>10 DEF Row

-----------------------------------------------------------------------------
\* A subscriber is a record.
IsRep(r) == r = [heap |-> r.heap, root |-> r.root, space |-> r.space,
                 ids |-> r.ids, map |-> r.map, ready |-> r.ready]
SameBut(r, q) == q.root = r.root /\ q.space = r.space /\ q.ids = r.ids /\ q.ready = r.ready

\* Each three from one of the numbers on are vacant, and apart from the others.
Spare(m, l, numbers) ==
  /\ numbers \in Seq(Nat) /\ DOMAIN m.toId \subseteq Services(1..l)
  /\ \A i \in DOMAIN numbers : \A a \in 0..2 : numbers[i] + a \notin DOMAIN m.toService
  /\ \A i, j \in DOMAIN numbers : \A a, b \in 0..2 : numbers[i] + a = numbers[j] + b => i = j

LEMMA NewInstancesIs ==
  ASSUME NEW r, IsRep(r), NEW X, r.heap \in Seq(X), Blank \in X,
         NEW numbers, Spare(r.map, Len(r.heap), numbers)
  PROVE  LET q == NewInstances(r, numbers)
             l == Len(r.heap)
         IN  /\ IsRep(q) /\ SameBut(r, q) /\ Kept(r.map, q.map)
             /\ q.heap \in Seq(X) /\ Len(q.heap) = l + Len(numbers)
             /\ \A i \in 1..l : q.heap[i] = r.heap[i]
             /\ \A i \in DOMAIN numbers : q.heap[l + i] = Blank /\ Row(q.map, l + i, numbers[i])
             /\ DOMAIN q.map.toId = DOMAIN r.map.toId \cup Services((l + 1)..(l + Len(numbers)))
             /\ DOMAIN q.map.toService =
                  DOMAIN r.map.toService \cup {numbers[i] + a : i \in DOMAIN numbers, a \in 0..2}
<1> DEFINE n == Len(numbers)
           l == Len(r.heap)
<1>1. n \in Nat /\ DOMAIN numbers = 1..n /\ l \in Nat /\ \A i \in 1..n : numbers[i] \in Nat
  BY DEF Spare
<1>2. PICK run : IsRun("instance", {}, r, numbers, n, run) /\ NewInstances(r, numbers) = run[n]
  BY <1>1, InstanceRun
<1>3. run[0] = r /\ \A i \in 1..n : run[i] = InstanceStep(run[i - 1], numbers[i])
  BY <1>2 DEF IsRun, Step
<1>4. \A i \in 1..n : \A a \in 0..2 : numbers[i] + a \notin DOMAIN r.map.toService
  BY <1>1 DEF Spare
<1>5. DOMAIN r.map.toId \subseteq Services(1..l)
  BY DEF Spare
<1>6. \A i, j \in 1..n : \A a, b \in 0..2 : numbers[i] + a = numbers[j] + b => i = j
  BY <1>1 DEF Spare
<1> HIDE DEF n, l
<1> DEFINE Nums(i) == {numbers[j] + a : j \in 1..i, a \in 0..2}
           Heap(i) == /\ run[i].heap \in Seq(X) /\ Len(run[i].heap) = l + i
                      /\ \A j \in 1..l : run[i].heap[j] = r.heap[j]
                      /\ \A j \in 1..i : run[i].heap[l + j] = Blank
           Doms(i) == /\ DOMAIN run[i].map.toId = DOMAIN r.map.toId \cup Services((l + 1)..(l + i))
                      /\ DOMAIN run[i].map.toService = DOMAIN r.map.toService \cup Nums(i)
           Rows(i) == \A j \in 1..i : Row(run[i].map, l + j, numbers[j])
           P(i) == /\ IsRep(run[i]) /\ SameBut(r, run[i]) /\ Kept(r.map, run[i].map)
                   /\ Heap(i) /\ Doms(i) /\ Rows(i)
           T == {i \in 0..n : P(i)}
<1>7. 0 \in T
  <2>1. SameBut(r, r) /\ Kept(r.map, r.map)
    BY DEF SameBut, Kept
  <2>2. Heap(0)
    BY <1>1, <1>3 DEF l
  <2>3. Doms(0)
    <3>1. Services((l + 1)..(l + 0)) = {}
      <4>1. (l + 1)..(l + 0) = {}
        BY <1>1
      <4> QED BY <4>1 DEF Services
    <3>2. Nums(0) = {}
      OBVIOUS
    <3> HIDE DEF Nums
    <3> QED BY <3>1, <3>2, <1>3
  <2>4. Rows(0)
    OBVIOUS
  <2> HIDE DEF Heap, Doms, Rows
  <2>5. P(0)
    BY <1>3, <2>1, <2>2, <2>3, <2>4
  <2> QED BY <2>5, <1>1
<1>8. ASSUME NEW i \in 1..n, i - 1 \in T PROVE i \in T
  <2> DEFINE acc == run[i - 1]
             map == ShallowGivenObjectId(acc.map, Len(acc.heap) + 1, numbers[i])
  <2>1. P(i - 1) /\ i \in 0..n /\ i \in Nat /\ i >= 1 /\ numbers[i] \in Nat
    <3>1. P(i - 1)
      <4> HIDE DEF P
      <4> QED BY <1>8
    <3>2. i \in 0..n /\ i \in Nat /\ i >= 1 /\ numbers[i] \in Nat
      BY <1>1
    <3> HIDE DEF P
    <3> QED BY <3>1, <3>2
  <2> HIDE DEF T
  <2>2. IsRep(acc) /\ acc.heap \in Seq(X) /\ Len(acc.heap) + 1 = l + i /\ l + i \in Nat
    BY <2>1, <1>1
  <2>3. run[i] = [acc EXCEPT !.heap = Append(@, Blank), !.map = map]
    BY <1>3 DEF InstanceStep
  <2>4. run[i] = [heap |-> Append(acc.heap, Blank), root |-> acc.root, space |-> acc.space,
                  ids |-> acc.ids, map |-> map, ready |-> acc.ready]
    <3> HIDE DEF acc, map, P
    <3> QED BY <2>2, <2>3 DEF IsRep
  <2> HIDE DEF map
  <2>5. IsRep(run[i]) /\ SameBut(acc, run[i]) /\ run[i].map = map /\ run[i].heap = Append(acc.heap, Blank)
    <3> HIDE DEF acc, P
    <3> QED BY <2>4 DEF IsRep, SameBut
  <2>6. Doms(i - 1) /\ Heap(i - 1) /\ Rows(i - 1) /\ SameBut(r, acc) /\ Kept(r.map, acc.map)
    BY <2>1
  <2>7. Vacant(acc.map, l + i, numbers[i])
    <3>1. DOMAIN acc.map.toId = DOMAIN r.map.toId \cup Services((l + 1)..(l + (i - 1)))
      BY <2>6
    <3>2. ASSUME NEW s \in Services({l + i}) PROVE s \notin DOMAIN acc.map.toId
      <4>1. l + i \notin 1..l /\ l + i \notin (l + 1)..(l + (i - 1))
        BY <1>1, <2>1
      <4>2. s[1] = l + i
        BY DEF Services
      <4>3. \A t \in Services(1..l) : t[1] \in 1..l
        BY DEF Services
      <4>4. \A t \in Services((l + 1)..(l + (i - 1))) : t[1] \in (l + 1)..(l + (i - 1))
        BY DEF Services
      <4> QED BY <3>1, <4>1, <4>2, <4>3, <4>4, <1>5
    <3>3. ASSUME NEW a \in 0..2 PROVE numbers[i] + a \notin DOMAIN acc.map.toService
      <4>1. DOMAIN acc.map.toService = DOMAIN r.map.toService \cup Nums(i - 1)
        BY <2>6
      <4>2. numbers[i] + a \notin Nums(i - 1)
        <5>1. ASSUME NEW j \in 1..(i - 1), NEW b \in 0..2 PROVE numbers[i] + a # numbers[j] + b
          <6>1. j \in 1..n /\ j # i
            BY <1>1
          <6> QED BY <6>1, <1>6
        <5> QED BY <5>1
      <4> HIDE DEF Nums
      <4> QED BY <4>1, <4>2, <1>4
    <3>4. 0 \in 0..2 /\ 1 \in 0..2 /\ 2 \in 0..2 /\ numbers[i] + 0 = numbers[i]
      BY <2>1
    <3>5. /\ numbers[i] \notin DOMAIN acc.map.toService /\ numbers[i] + 1 \notin DOMAIN acc.map.toService
          /\ numbers[i] + 2 \notin DOMAIN acc.map.toService
      <4> HIDE DEF acc
      <4> QED BY <3>3, <3>4
    <3> HIDE DEF acc, P
    <3> QED BY <2>1, <3>2, <3>5 DEF Vacant
  <2>8. /\ Kept(acc.map, map) /\ Row(map, l + i, numbers[i])
        /\ DOMAIN map.toId = DOMAIN acc.map.toId \cup Services({l + i})
        /\ DOMAIN map.toService = DOMAIN acc.map.toService \cup {numbers[i], numbers[i] + 1, numbers[i] + 2}
    <3>1. map = ShallowGivenObjectId(acc.map, l + i, numbers[i])
      BY <2>2 DEF map
    <3> HIDE DEF acc, P
    <3> QED BY ZenonT(40), <2>7, <3>1, GivenRow
  <2>9. Heap(i)
    <3>1. /\ run[i].heap \in Seq(X) /\ Len(run[i].heap) = Len(acc.heap) + 1
          /\ \A j \in 1..Len(acc.heap) : run[i].heap[j] = acc.heap[j]
          /\ run[i].heap[Len(acc.heap) + 1] = Blank
      <4> HIDE DEF acc, P
      <4> QED BY <2>2, <2>5, AppendElems
    <3>2. Len(acc.heap) = l + (i - 1) /\ Len(acc.heap) + 1 = l + i
      BY <2>2, <2>6
    <3>3. \A j \in 1..l : run[i].heap[j] = r.heap[j]
      <4>1. 1..l \subseteq 1..Len(acc.heap)
        BY <3>2, <1>1, <2>1
      <4> QED BY <4>1, <3>1, <2>6
    <3>4. ASSUME NEW j \in 1..i PROVE run[i].heap[l + j] = Blank
      <4>1. CASE j = i
        BY <4>1, <3>1, <3>2
      <4>2. CASE j # i
        <5>1. j \in 1..(i - 1) /\ l + j \in 1..Len(acc.heap)
          BY SMTT(30), <4>2, <3>2, <1>1, <2>1
        <5>2. acc.heap[l + j] = Blank
          BY <5>1, <2>6
        <5> QED BY <5>1, <5>2, <3>1
      <4> QED BY <4>1, <4>2
    <3> HIDE DEF acc
    <3> QED BY <3>1, <3>2, <3>3, <3>4
  <2>10. Doms(i)
    <3>1. Nums(i) = Nums(i - 1) \cup {numbers[i], numbers[i] + 1, numbers[i] + 2}
      <4>1. 1..i = 1..(i - 1) \cup {i} /\ 0..2 = {0, 1, 2} /\ numbers[i] + 0 = numbers[i]
        BY <2>1
      <4>2. ASSUME NEW x \in Nums(i) PROVE x \in Nums(i - 1) \cup {numbers[i], numbers[i] + 1, numbers[i] + 2}
        BY <4>1
      <4>3. ASSUME NEW x \in Nums(i - 1) \cup {numbers[i], numbers[i] + 1, numbers[i] + 2} PROVE x \in Nums(i)
        <5>1. CASE x \in Nums(i - 1)
          BY <5>1, <4>1
        <5>2. CASE x \in {numbers[i], numbers[i] + 1, numbers[i] + 2}
          <6>1. i \in 1..i /\ \E a \in 0..2 : x = numbers[i] + a
            BY <5>2, <4>1, <2>1
          <6> QED BY <6>1
        <5> QED BY <4>3, <5>1, <5>2
      <4> HIDE DEF Nums
      <4> QED BY <4>2, <4>3
    <3>2. Services((l + 1)..(l + i)) = Services((l + 1)..(l + (i - 1))) \cup Services({l + i})
      <4>1. (l + 1)..(l + i) = (l + 1)..(l + (i - 1)) \cup {l + i}
        BY <1>1, <2>1
      <4> QED BY <4>1 DEF Services
    <3> HIDE DEF Nums, acc
    <3>3. /\ DOMAIN acc.map.toId = DOMAIN r.map.toId \cup Services((l + 1)..(l + (i - 1)))
          /\ DOMAIN acc.map.toService = DOMAIN r.map.toService \cup Nums(i - 1)
      BY <2>6 DEF acc
    <3> QED BY <2>5, <2>8, <3>1, <3>2, <3>3
  <2>11. Rows(i)
    <3>1. ASSUME NEW j \in 1..i PROVE Row(map, l + j, numbers[j])
      <4>1. CASE j = i
        BY <4>1, <2>8
      <4>2. CASE j # i
        <5>1. Row(acc.map, l + j, numbers[j])
          BY <4>2, <2>1, <2>6
        <5> HIDE DEF acc
        <5> QED BY <5>1, <2>8, RowKept
      <4> QED BY <4>1, <4>2
    <3> QED BY <3>1, <2>5
  <2>12. SameBut(r, run[i]) /\ Kept(r.map, run[i].map)
    <3> HIDE DEF acc, P
    <3>1. SameBut(r, run[i])
      BY <2>5, <2>6 DEF SameBut
    <3>2. Kept(r.map, run[i].map)
      BY <2>5, <2>6, <2>8, KeptTrans
    <3> QED BY <3>1, <3>2
  <2>13. P(i)
    <3> HIDE DEF Heap, Doms, Rows
    <3> QED BY <2>5, <2>9, <2>10, <2>11, <2>12
  <2> QED BY <2>1, <2>13 DEF T
<1>9. P(n)
  <2> HIDE DEF P
  <2>1. 0..n \subseteq T
    <3> HIDE DEF T
    <3> QED BY <1>1, <1>7, <1>8, UpTo
  <2> QED BY <2>1, <1>1
<1>10. \A i \in DOMAIN numbers : run[n].heap[l + i] = Blank /\ Row(run[n].map, l + i, numbers[i])
  BY <1>1, <1>9
<1>11. Nums(n) = {numbers[i] + a : i \in DOMAIN numbers, a \in 0..2}
  BY <1>1
<1> QED BY <1>1, <1>2, <1>9, <1>10, <1>11 DEF n, l

-----------------------------------------------------------------------------
\* The number of the service with a field of an object.
Num(k, o, f) == k.toId[<<o, PortOf[f]>>]
ChangesOf(k, f) == {ChangeOf(k, f, d) : d \in Data}

\* A table has the changes of the fields in DOMAIN now, for each of one, last to now.
TableSays(t, k, now) ==
  /\ DOMAIN t = {Num(k, x[1], x[2]) : x \in DOMAIN now}
  /\ \A x \in DOMAIN now :
       LET c == t[Num(k, x[1], x[2])] IN
       c \in Seq(ChangesOf(k, x[2])) /\ Len(c) > 0 /\ c[Len(c)] = ChangeOf(k, x[2], now[x])

\* The numbers are those of the objects B.
NumbersOver(k, B) == IdsOK(k) /\ DOMAIN k.toId = Services(B)

LEMMA PortOfIs ==
  /\ \A f \in Fields : PortOf[f] \in Ports
  /\ \A f, e \in Fields : PortOf[f] = PortOf[e] => f = e
  BY DEF Fields, PortOf, Ports

\* Services have different numbers, none of them 0.
LEMMA NumIs ==
  ASSUME NEW k, NEW B, NumbersOver(k, B)
  PROVE  /\ \A o \in B : \A f \in Fields : /\ Num(k, o, f) \in 1..k.last /\ Num(k, o, f) # 0
                                           /\ Num(k, o, f) \in Nat
                                           /\ GetId(k, <<o, PortOf[f]>>) = Num(k, o, f)
         /\ \A o, x \in B : \A f, e \in Fields : Num(k, o, f) = Num(k, x, e) => o = x /\ f = e
<1>1. \A o \in B : \A f \in Fields : <<o, PortOf[f]>> \in DOMAIN k.toId
  BY PortOfIs DEF NumbersOver, Services
<1>2. MapOK(k, Services(Objects))
  BY DEF NumbersOver, IdsOK
<1>3. /\ \A s \in DOMAIN k.toId : k.toId[s] \in 1..k.last /\ k.toId[s] # 0 /\ k.toId[s] \in Nat
      /\ \A s, t \in DOMAIN k.toId : k.toId[s] = k.toId[t] => s = t
      /\ \A s : GetId(k, s) = IF s \in DOMAIN k.toId THEN k.toId[s] ELSE 0
  BY <1>2, MapNumbers
<1>4. ASSUME NEW o \in B, NEW x \in B, NEW f \in Fields, NEW e \in Fields, Num(k, o, f) = Num(k, x, e)
      PROVE  o = x /\ f = e
  <2>1. <<o, PortOf[f]>> = <<x, PortOf[e]>>
    BY <1>1, <1>3, <1>4 DEF Num
  <2>2. o = x /\ PortOf[f] = PortOf[e]
    BY <2>1
  <2> QED BY <2>2, PortOfIs
<1> QED BY <1>1, <1>3, <1>4 DEF Num

\* What is told when field f of o is data.
Told(now, o, f, data) ==
  [x \in DOMAIN now \cup {<<o, f>>} |-> IF x = <<o, f>> THEN data ELSE now[x]]

LEMMA AddChangeIs ==
  ASSUME NEW k, NEW B, NumbersOver(k, B), NEW now, DOMAIN now \subseteq B \X Fields,
         NEW t, TableSays(t, k, now), NEW o \in B, NEW f \in Fields, NEW data \in Data
  PROVE  TableSays(AddChange(t, Num(k, o, f), ChangeOf(k, f, data)), k, Told(now, o, f, data))
<1> DEFINE n == Num(k, o, f)
           change == ChangeOf(k, f, data)
           u == AddChange(t, n, change)
           new == Told(now, o, f, data)
<1>1. u = [i \in DOMAIN t \cup {n} |-> IF i # n THEN t[i]
                                        ELSE IF i \in DOMAIN t THEN Append(t[i], change) ELSE <<change>>]
  BY DEF AddChange
<1>2. new = [x \in DOMAIN now \cup {<<o, f>>} |-> IF x = <<o, f>> THEN data ELSE now[x]]
  BY DEF Told
<1>3. \A x \in DOMAIN now : x[1] \in B /\ x[2] \in Fields /\ x = <<x[1], x[2]>>
  OBVIOUS
<1>4. \A x \in DOMAIN now : Num(k, x[1], x[2]) = n => x = <<o, f>>
  BY <1>3, NumIs
<1>5. /\ DOMAIN t = {Num(k, x[1], x[2]) : x \in DOMAIN now}
      /\ \A x \in DOMAIN now : /\ t[Num(k, x[1], x[2])] \in Seq(ChangesOf(k, x[2]))
                               /\ Len(t[Num(k, x[1], x[2])]) > 0
                               /\ t[Num(k, x[1], x[2])][Len(t[Num(k, x[1], x[2])])] = ChangeOf(k, x[2], now[x])
  BY DEF TableSays
<1>6. change \in ChangesOf(k, f)
  BY DEF ChangesOf
<1> HIDE DEF u, n, change, new
<1>7. DOMAIN u = {Num(k, x[1], x[2]) : x \in DOMAIN new}
  <2>1. DOMAIN new = DOMAIN now \cup {<<o, f>>} /\ <<o, f>>[1] = o /\ <<o, f>>[2] = f
    BY <1>2
  <2>2. DOMAIN u = DOMAIN t \cup {n}
    BY <1>1
  <2>3. {Num(k, x[1], x[2]) : x \in DOMAIN new} = {Num(k, x[1], x[2]) : x \in DOMAIN now} \cup {Num(k, o, f)}
    BY <2>1
  <2> QED BY <2>2, <2>3, <1>5 DEF n
<1>8. ASSUME NEW x \in DOMAIN new
      PROVE  /\ u[Num(k, x[1], x[2])] \in Seq(ChangesOf(k, x[2])) /\ Len(u[Num(k, x[1], x[2])]) > 0
             /\ u[Num(k, x[1], x[2])][Len(u[Num(k, x[1], x[2])])] = ChangeOf(k, x[2], new[x])
  <2>1. CASE x = <<o, f>>
    <3>1. x[1] = o /\ x[2] = f /\ Num(k, x[1], x[2]) = n /\ ChangeOf(k, x[2], new[x]) = change
      BY <2>1, <1>2 DEF n, change
    <3>2. CASE n \in DOMAIN t
      <4>1. PICK y \in DOMAIN now : n = Num(k, y[1], y[2])
        BY <3>2, <1>5
      <4>2. y = <<o, f>>
        BY <4>1, <1>4
      <4>3. y[1] = o /\ y[2] = f
        BY <4>2
      <4>4. t[n] \in Seq(ChangesOf(k, f)) /\ u[n] = Append(t[n], change)
        BY <4>1, <4>3, <1>1, <1>5, <3>2
      <4>5. u[n] \in Seq(ChangesOf(k, f)) /\ Len(u[n]) > 0 /\ u[n][Len(u[n])] = change
        BY <4>4, <1>6
      <4> QED BY <3>1, <4>5
    <3>3. CASE n \notin DOMAIN t
      <4>1. u[n] = <<change>>
        BY <1>1, <3>3
      <4>2. u[n] \in Seq(ChangesOf(k, f)) /\ Len(u[n]) > 0 /\ u[n][Len(u[n])] = change
        BY <4>1, <1>6
      <4> QED BY <3>1, <4>2
    <3> QED BY <3>2, <3>3
  <2>2. CASE x # <<o, f>>
    <3>1. x \in DOMAIN now /\ new[x] = now[x]
      BY <2>2, <1>2
    <3>2. Num(k, x[1], x[2]) # n /\ Num(k, x[1], x[2]) \in DOMAIN t
      BY <2>2, <3>1, <1>4, <1>5
    <3>3. u[Num(k, x[1], x[2])] = t[Num(k, x[1], x[2])]
      BY <3>2, <1>1
    <3> QED BY <3>1, <3>3, <1>5
  <2> QED BY <2>1, <2>2
<1>9. TableSays(u, k, new)
  BY <1>7, <1>8 DEF TableSays
<1> QED BY <1>9 DEF u, n, change, new

\* What is told after a change c of an object.
After(now, c) ==
  [x \in DOMAIN now \cup {c.object} \X c.fields |->
     IF x[1] = c.object /\ x[2] \in c.fields THEN c.now ELSE now[x]]

\* One field of it.
AddField(k, c, t, f) ==
  IF f \notin c.fields THEN t ELSE AddChange(t, GetId(k, <<c.object, PortOf[f]>>), ChangeOf(k, f, c.now))
ToldField(now, c, f) == IF f \notin c.fields THEN now ELSE Told(now, c.object, f, c.now)

Over(now, B) == DOMAIN now \subseteq B \X Fields /\ now = [x \in DOMAIN now |-> now[x]]
EntryOf(c, B) == c \in Entry /\ c.object \in B

LEMMA AddFieldIs ==
  ASSUME NEW k, NEW B, NumbersOver(k, B), NEW now, Over(now, B), NEW t, TableSays(t, k, now),
         NEW c, EntryOf(c, B), NEW f \in Fields
  PROVE  TableSays(AddField(k, c, t, f), k, ToldField(now, c, f)) /\ Over(ToldField(now, c, f), B)
<1>1. CASE f \notin c.fields
  BY <1>1 DEF AddField, ToldField
<1>2. CASE f \in c.fields
  <2>1. c.object \in B /\ c.now \in Data /\ GetId(k, <<c.object, PortOf[f]>>) = Num(k, c.object, f)
    BY NumIs DEF EntryOf, Entry
  <2> DEFINE o == c.object
             d == c.now
  <2>2. TableSays(AddChange(t, Num(k, o, f), ChangeOf(k, f, d)), k, Told(now, o, f, d))
    <3>1. o \in B /\ d \in Data /\ DOMAIN now \subseteq B \X Fields
      BY <2>1 DEF Over
    <3> HIDE DEF o, d
    <3> QED BY <3>1, AddChangeIs
  <2>3. AddField(k, c, t, f) = AddChange(t, Num(k, o, f), ChangeOf(k, f, d)) /\ ToldField(now, c, f) = Told(now, o, f, d)
    BY <1>2, <2>1 DEF AddField, ToldField
  <2>4. Over(Told(now, o, f, d), B)
    BY <2>1 DEF Over, Told
  <2> QED BY <2>2, <2>3, <2>4
<1> QED BY <1>1, <1>2

\* The changes of one object come in the place of earlier ones of the same field.
LEMMA ObjectChangesIs ==
  ASSUME NEW k, NEW B, NumbersOver(k, B), NEW now, Over(now, B), NEW t, TableSays(t, k, now),
         NEW c, EntryOf(c, B)
  PROVE  TableSays(ObjectChanges(k, c, t), k, After(now, c)) /\ Over(After(now, c), B)
<1> DEFINE t1 == AddField(k, c, t, "link")
           t2 == AddField(k, c, t1, "members")
           t3 == AddField(k, c, t2, "val")
           n1 == ToldField(now, c, "link")
           n2 == ToldField(n1, c, "members")
           n3 == ToldField(n2, c, "val")
<1>1. ObjectChanges(k, c, t) = t3
  BY DEF ObjectChanges, AddField
<1>a. "link" \in Fields /\ "members" \in Fields /\ "val" \in Fields
  BY DEF Fields
<1>2. TableSays(t1, k, n1) /\ Over(n1, B)
  BY <1>a, AddFieldIs
<1> HIDE DEF t1, n1
<1>3. TableSays(t2, k, n2) /\ Over(n2, B)
  BY <1>2, <1>a, AddFieldIs
<1> HIDE DEF t2, n2
<1>4. TableSays(t3, k, n3) /\ Over(n3, B)
  BY <1>3, <1>a, AddFieldIs
<1>5. n3 = After(now, c)
  <2>1. c.fields \subseteq Fields
    BY DEF EntryOf, Entry
  <2>2. \A x \in DOMAIN now : x = <<x[1], x[2]>>
    BY DEF Over
  <2>3. DOMAIN n3 = DOMAIN now \cup {c.object} \X c.fields
    <3>1. /\ DOMAIN n1 = DOMAIN now \cup {c.object} \X (c.fields \cap {"link"})
          /\ DOMAIN n2 = DOMAIN n1 \cup {c.object} \X (c.fields \cap {"members"})
          /\ DOMAIN n3 = DOMAIN n2 \cup {c.object} \X (c.fields \cap {"val"})
      BY DEF n1, n2, ToldField, Told
    <3> HIDE DEF n3
    <3> QED BY <3>1, <2>1 DEF Fields
  <2>4. ASSUME NEW x \in DOMAIN n3
        PROVE  n3[x] = IF x[1] = c.object /\ x[2] \in c.fields THEN c.now ELSE now[x]
    <3>0. x = <<x[1], x[2]>>
      BY <2>2, <2>3
    <3>1. x \in DOMAIN n2 => n3[x] = IF x = <<c.object, "val">> /\ "val" \in c.fields THEN c.now ELSE n2[x]
      BY DEF ToldField, Told
    <3>2. x \in DOMAIN n1 => n2[x] = IF x = <<c.object, "members">> /\ "members" \in c.fields THEN c.now ELSE n1[x]
      BY DEF n2, ToldField, Told
    <3>3. x \in DOMAIN now => n1[x] = IF x = <<c.object, "link">> /\ "link" \in c.fields THEN c.now ELSE now[x]
      BY DEF n1, ToldField, Told
    <3>4. CASE x[1] = c.object /\ x[2] \in c.fields
      <4>1. x[2] \in {"members", "val", "link"}
        BY <3>4, <2>1 DEF Fields
      <4>2. CASE x[2] = "val"
        BY <4>2, <3>0, <3>4 DEF ToldField, Told
      <4>3. CASE x[2] = "members"
        <5>1. x = <<c.object, "members">> /\ x # <<c.object, "val">>
          BY <4>3, <3>0, <3>4
        <5>2. x \in DOMAIN n2 /\ n2[x] = c.now
          BY <5>1, <3>4, <4>3 DEF n2, ToldField, Told
        <5> HIDE DEF n3
        <5> QED BY <5>1, <5>2, <3>1, <3>4
      <4>4. CASE x[2] = "link"
        <5>1. x = <<c.object, "link">> /\ x # <<c.object, "val">> /\ x # <<c.object, "members">>
          BY <4>4, <3>0, <3>4
        <5>2. x \in DOMAIN n1 /\ n1[x] = c.now
          BY <5>1, <3>4, <4>4 DEF n1, ToldField, Told
        <5>3. x \in DOMAIN n2
          BY <5>2 DEF n2, ToldField, Told
        <5> HIDE DEF n3
        <5> QED BY <5>1, <5>2, <5>3, <3>1, <3>2, <3>4
      <4> QED BY <4>1, <4>2, <4>3, <4>4
    <3>5. CASE ~(x[1] = c.object /\ x[2] \in c.fields)
      <4>1. x \in DOMAIN now
        BY <3>0, <3>5, <2>3
      <4>2. x \in DOMAIN n1 /\ x \in DOMAIN n2
        BY <4>1 DEF n1, n2, ToldField, Told
      <4>3. /\ ~(x = <<c.object, "val">> /\ "val" \in c.fields)
            /\ ~(x = <<c.object, "members">> /\ "members" \in c.fields)
            /\ ~(x = <<c.object, "link">> /\ "link" \in c.fields)
        BY <3>0, <3>5
      <4> HIDE DEF n3
      <4> QED BY <4>1, <4>2, <4>3, <3>1, <3>2, <3>3, <3>5
    <3> QED BY <3>4, <3>5
  <2>5. n3 = [x \in DOMAIN n3 |-> n3[x]]
    <3>1. CASE "val" \in c.fields
      BY <3>1 DEF ToldField, Told
    <3>2. CASE "val" \notin c.fields
      <4>1. n3 = n2
        BY <3>2 DEF ToldField
      <4>2. CASE "members" \in c.fields
        BY SMTT(30), <4>1, <4>2 DEF n2, ToldField, Told
      <4>3. CASE "members" \notin c.fields
        <5>1. n3 = n1
          BY <4>1, <4>3 DEF n2, ToldField
        <5> QED BY <5>1 DEF n1, ToldField, Told, Over
      <4> QED BY <4>2, <4>3
    <3> QED BY <3>1, <3>2
  <2> HIDE DEF n3
  <2> QED BY <2>3, <2>4, <2>5 DEF After
<1> QED BY <1>1, <1>4, <1>5

\* A change of an object is about a field of it.
Hit(c, x) == x \in {c.object} \X c.fields
Latest(E, n, x, q) == q \in 1..n /\ Hit(E[q], x) /\ \A y \in (q + 1)..n : ~Hit(E[y], x)

\* What the first n changes tell.
Tells(E, n, now) ==
  /\ \A x : x \in DOMAIN now <=> \E q \in 1..n : Hit(E[q], x)
  /\ \A x, q : Latest(E, n, x, q) => now[x] = E[q].now

LEMMA TellsNext ==
  ASSUME NEW E, NEW n \in Nat, n > 0, NEW now, Tells(E, n - 1, now)
  PROVE  Tells(E, n, After(now, E[n]))
<1> DEFINE c == E[n]
           new == After(now, c)
<1>1. 1..n = 1..(n - 1) \cup {n} /\ n \notin 1..(n - 1)
  OBVIOUS
<1>2. new = [x \in DOMAIN now \cup {c.object} \X c.fields |->
               IF x[1] = c.object /\ x[2] \in c.fields THEN c.now ELSE now[x]]
  BY DEF After
<1>3. \A x : Hit(c, x) => new[x] = c.now
  BY <1>2 DEF Hit
<1>4. \A x \in DOMAIN now : ~Hit(c, x) => new[x] = now[x]
  <2>1. ASSUME NEW x \in DOMAIN now, ~Hit(c, x) PROVE new[x] = now[x]
    <3>1. PICK q \in 1..(n - 1) : Hit(E[q], x)
      BY DEF Tells
    <3>2. x = <<x[1], x[2]>>
      BY <3>1 DEF Hit
    <3>3. ~(x[1] = c.object /\ x[2] \in c.fields)
      BY <3>2, <2>1 DEF Hit
    <3> HIDE DEF c, new
    <3> QED BY <1>2, <3>3
  <2> QED BY <2>1
<1>5. \A x : x \in DOMAIN new <=> x \in DOMAIN now \/ Hit(c, x)
  BY <1>2 DEF Hit
<1> HIDE DEF new
<1>6. ASSUME NEW x PROVE x \in DOMAIN new <=> \E q \in 1..n : Hit(E[q], x)
  BY <1>1, <1>5 DEF Tells
<1>7. ASSUME NEW x, NEW q, Latest(E, n, x, q) PROVE new[x] = E[q].now
  <2>1. CASE q = n
    BY <2>1, <1>3, <1>7 DEF Latest
  <2>2. CASE q # n
    <3>1. q \in 1..(n - 1) /\ n \in (q + 1)..n /\ \A y \in (q + 1)..(n - 1) : y \in (q + 1)..n
      BY <2>2, <1>1, <1>7 DEF Latest
    <3>2. Latest(E, n - 1, x, q) /\ ~Hit(c, x)
      BY <3>1, <1>7 DEF Latest
    <3>3. x \in DOMAIN now /\ now[x] = E[q].now
      BY <3>1, <3>2 DEF Tells, Latest
    <3> QED BY <3>2, <3>3, <1>4
  <2> QED BY <2>1, <2>2
<1> QED BY <1>6, <1>7 DEF Tells, new

EntriesOver(E, B) == E \in Seq(Entry) /\ \A q \in DOMAIN E : EntryOf(E[q], B)

\* The table says, for each field that any entry changed, what the latest of them says.
LEMMA TableIs ==
  ASSUME NEW k, NEW B, NumbersOver(k, B), NEW E, EntriesOver(E, B)
  PROVE  \E now : /\ TableSays(TableEnd(k, E), k, now)
                  /\ Over(now, B) /\ Tells(E, Len(E), now)
<1> DEFINE n == Len(E)
<1>1. n \in Nat /\ DOMAIN E = 1..n
  BY DEF EntriesOver
<1>2. PICK run : /\ IsRun("table", k, <<>>, E, n, run)
                 /\ TableEnd(k, E) = run[n]
  BY <1>1, TableRun
<1>3. run[0] = <<>> /\ \A i \in 1..n : run[i] = ObjectChanges(k, E[i], run[i - 1])
  BY <1>2 DEF IsRun, Step
<1>a. \A i \in 1..n : EntryOf(E[i], B)
  BY <1>1 DEF EntriesOver
<1> HIDE DEF n
<1> DEFINE P(i) == \E now : TableSays(run[i], k, now) /\ Over(now, B) /\ Tells(E, i, now)
           T == {i \in 0..n : P(i)}
<1>4. 0 \in T
  <2>1. TableSays(<<>>, k, <<>>)
    BY DEF TableSays
  <2>2. Over(<<>>, B)
    BY DEF Over
  <2>3. Tells(E, 0, <<>>)
    BY DEF Tells, Latest
  <2>4. P(0)
    BY <2>1, <2>2, <2>3, <1>3
  <2> QED BY <2>4, <1>1
<1>5. ASSUME NEW i \in 1..n, i - 1 \in T PROVE i \in T
  <2>1. P(i - 1) /\ i \in 0..n /\ i \in Nat /\ i > 0
    BY <1>1, <1>5
  <2>2. PICK now : TableSays(run[i - 1], k, now) /\ Over(now, B) /\ Tells(E, i - 1, now)
    BY <2>1
  <2> HIDE DEF P, T
  <2>3. TableSays(run[i], k, After(now, E[i])) /\ Over(After(now, E[i]), B)
    BY <2>2, <1>3, <1>a, ObjectChangesIs
  <2>4. Tells(E, i, After(now, E[i]))
    BY <2>1, <2>2, TellsNext
  <2>5. P(i)
    BY <2>3, <2>4 DEF P
  <2> QED BY <2>1, <2>5 DEF T
<1>6. P(n)
  <2> HIDE DEF P
  <2>1. 0..n \subseteq T
    <3> HIDE DEF T
    <3> QED BY <1>1, <1>4, <1>5, UpTo
  <2> QED BY <2>1, <1>1
<1> QED BY <1>2, <1>6 DEF n

-----------------------------------------------------------------------------
\* A list whose last change of x says v, or else a later list has one of x.
Coming(ss, n, i, x) == \E j \in (i + 1)..n : \E q \in DOMAIN ss[j] : Hit(ss[j][q], x)
Good(E, x, v, more) == \A q : Latest(E, Len(E), x, q) => E[q].now[x[2]] = v \/ more
AllGood(E, x, v, more) == \A q \in DOMAIN E : Hit(E[q], x) => E[q].now[x[2]] = v \/ more

LEMMA GoodNext ==
  ASSUME NEW S, NEW a \in Seq(S), NEW b \in Seq(S), NEW x, NEW v, NEW before, NEW more,
         Good(a, x, v, before), AllGood(b, x, v, more),
         before => more \/ \E q \in DOMAIN b : Hit(b[q], x)
  PROVE  Good(a \o b, x, v, more)
<1> DEFINE E == a \o b
<1>1. /\ Len(E) = Len(a) + Len(b) /\ Len(a) \in Nat /\ Len(b) \in Nat
      /\ \A i \in 1..Len(a) : E[i] = a[i]
      /\ \A i \in 1..Len(b) : E[Len(a) + i] = b[i]
      /\ DOMAIN b = 1..Len(b)
  OBVIOUS
<1> HIDE DEF E
<1> SUFFICES ASSUME NEW q, Latest(E, Len(E), x, q) PROVE E[q].now[x[2]] = v \/ more
  BY DEF Good, E
<1>2. q \in 1..Len(E) /\ Hit(E[q], x) /\ \A y \in (q + 1)..Len(E) : ~Hit(E[y], x)
  BY DEF Latest
<1>3. CASE q > Len(a)
  <2>1. q - Len(a) \in 1..Len(b) /\ E[q] = b[q - Len(a)]
    <3>1. q - Len(a) \in 1..Len(b) /\ Len(a) + (q - Len(a)) = q
      BY <1>1, <1>2, <1>3
    <3> QED BY <3>1, <1>1
  <2> QED BY <2>1, <1>1, <1>2 DEF AllGood
<1>4. CASE ~(q > Len(a))
  <2>1. q \in 1..Len(a) /\ E[q] = a[q]
    BY <1>1, <1>2, <1>4
  <2>2. \A i \in 1..Len(b) : ~Hit(b[i], x)
    <3> SUFFICES ASSUME NEW i \in 1..Len(b) PROVE ~Hit(b[i], x)
      OBVIOUS
    <3>1. Len(a) + i \in (q + 1)..Len(E) /\ E[Len(a) + i] = b[i]
      BY <1>1, <2>1
    <3> QED BY <3>1, <1>2
  <2>3. \A y \in (q + 1)..Len(a) : ~Hit(a[y], x)
    <3> SUFFICES ASSUME NEW y \in (q + 1)..Len(a) PROVE ~Hit(a[y], x)
      OBVIOUS
    <3>1. y \in (q + 1)..Len(E) /\ E[y] = a[y]
      BY <1>1, <2>1
    <3> QED BY <3>1, <1>2
  <2>4. Latest(a, Len(a), x, q)
    BY <2>1, <2>3, <1>2 DEF Latest
  <2>5. a[q].now[x[2]] = v \/ before
    BY <2>4 DEF Good
  <2> QED BY <2>1, <2>2, <2>5, <1>1
<1> QED BY <1>3, <1>4

\* If every entry is right or followed by a later one, the last is right.
LEMMA GoodFlat ==
  ASSUME NEW S, NEW a \in Seq(S), NEW ss \in Seq(Seq(S)), NEW x, NEW v,
         AllGood(a, x, v, FALSE),
         \A i \in 1..Len(ss) : AllGood(ss[i], x, v, Coming(ss, Len(ss), i, x))
  PROVE  Good(a \o FlattenSeq(ss), x, v, FALSE)
<1> DEFINE n == Len(ss)
           C(i) == Coming(ss, n, i, x)
<1>0. n \in Nat /\ \A i \in 1..n : ss[i] \in Seq(S)
  OBVIOUS
<1>1. Good(a, x, v, FALSE)
  <2>1. DOMAIN a = 1..Len(a)
    OBVIOUS
  <2> QED BY <2>1 DEF Good, AllGood, Latest
<1>2. CASE ss = <<>>
  <2>1. FlattenSeq(ss) = <<>>
    BY <1>2 DEF FlattenSeq
  <2>2. a \o <<>> = a
    OBVIOUS
  <2> QED BY <1>1, <2>1, <2>2
<1>3. CASE ss # <<>>
  <2>1. PICK f : f[1] = ss[1] /\ FlattenSeq(ss) = f[n] /\ \A i \in 2..n : f[i] = f[i - 1] \o ss[i]
    BY <1>3, FlattenRun
  <2>2. n >= 1
    BY <1>3
  <2> HIDE DEF n
  <2> DEFINE P(i) == f[i] \in Seq(S) /\ Good(a \o f[i], x, v, C(i))
             T == {i \in 1..n : P(i)}
  <2>3. \A i \in 1..n : /\ AllGood(ss[i], x, v, C(i))
                        /\ C(i - 1) => C(i) \/ \E q \in DOMAIN ss[i] : Hit(ss[i][q], x)
    <3> SUFFICES ASSUME NEW i \in 1..n
                 PROVE  /\ AllGood(ss[i], x, v, C(i))
                        /\ C(i - 1) => C(i) \/ \E q \in DOMAIN ss[i] : Hit(ss[i][q], x)
      OBVIOUS
    <3>1. ((i - 1) + 1)..n = {i} \cup (i + 1)..n
      BY <1>0
    <3> QED BY <3>1 DEF Coming, n
  <2>4. 1 \in T
    <3>1. 1 \in 1..n /\ f[1] \in Seq(S)
      BY <2>1, <2>2, <1>0
    <3>2. AllGood(ss[1], x, v, C(1))
      BY <3>1, <2>3
    <3>3. Good(a \o f[1], x, v, C(1))
      <4> HIDE DEF C, P, T
      <4> QED BY <3>1, <3>2, <1>1, <2>1, GoodNext
    <3> QED BY <3>1, <3>3
  <2>5. ASSUME NEW i \in 2..n, i - 1 \in T PROVE i \in T
    <3>1. P(i - 1) /\ i \in 1..n /\ ss[i] \in Seq(S)
      BY <1>0, <2>5
    <3>2. f[i] = f[i - 1] \o ss[i] /\ f[i - 1] \in Seq(S)
      BY <2>1, <3>1
    <3>3. f[i] \in Seq(S) /\ a \o f[i] = (a \o f[i - 1]) \o ss[i]
      <4>1. f[i] \in Seq(S)
        BY <3>1, <3>2, ConcatElems
      <4> HIDE DEF P, T
      <4>2. ASSUME NEW b \in Seq(S), NEW c \in Seq(S) PROVE a \o (b \o c) = (a \o b) \o c
        BY SMTT(30), ConcatAssociative
      <4> QED BY <3>1, <3>2, <4>1, <4>2
    <3>4. Good((a \o f[i - 1]) \o ss[i], x, v, C(i))
      <4>1. a \o f[i - 1] \in Seq(S) /\ Good(a \o f[i - 1], x, v, C(i - 1))
        BY <3>1, <3>2
      <4>2. AllGood(ss[i], x, v, C(i)) /\ (C(i - 1) => C(i) \/ \E q \in DOMAIN ss[i] : Hit(ss[i][q], x))
        BY <3>1, <2>3
      <4> DEFINE E == a \o f[i - 1]
      <4> HIDE DEF C, P, T, E
      <4> QED BY <3>1, <4>1, <4>2, GoodNext DEF E
    <3> QED BY <3>1, <3>3, <3>4
  <2>6. P(n)
    <3> HIDE DEF P
    <3>1. 1..n \subseteq T
      <4> HIDE DEF T
      <4> QED BY <1>0, <2>4, <2>5, UpFromOne
    <3> QED BY <3>1, <2>2, <1>0
  <2>7. ~C(n)
    <3>1. (n + 1)..n = {}
      BY <1>0
    <3> QED BY <3>1 DEF Coming
  <2> QED BY <2>1, <2>6, <2>7 DEF Good
<1> QED BY <1>2, <1>3

-----------------------------------------------------------------------------
\* A subscriber q whose heap is h, while changes are applied.
At(q, h) == [rep |-> [heap |-> h, root |-> q.root, space |-> q.space,
                      ids |-> q.ids, map |-> q.map, ready |-> q.ready], out |-> "ok"]
Put(h, i, f, v) == [h EXCEPT ![i] = [@ EXCEPT ![f] = v]]

\* By the numbers that k gives the objects B, M finds the instances that I gives them.
Knows(M, k, B, I) ==
  /\ 0 \notin DOMAIN M.toService
  /\ \A o \in B : /\ I[o] \in Nat
                  /\ \A p \in Ports : /\ k.toId[<<o, p>>] \in DOMAIN M.toService
                                      /\ M.toService[k.toId[<<o, p>>]] = <<I[o], p>>

\* The objects that field f of data refers to, and what I makes of it.
RefsIn(f, data) ==
  IF f = "members" THEN ToSet(data.members) ELSE IF f = "link" THEN {data.link} \ {Nil} ELSE {}
ImageIn(I, f, data) ==
  IF f = "members" THEN [j \in DOMAIN data.members |-> I[data.members[j]]]
  ELSE IF f = "link" THEN IF data.link = Nil THEN Nil ELSE I[data.link]
  ELSE data.val

\* What it is to know a number.
Known(M, k, B, I) ==
  /\ \A o \in B : \A p \in Ports : /\ GetId(k, <<o, p>>) = k.toId[<<o, p>>]
                                   /\ GetService(M, k.toId[<<o, p>>]) = <<I[o], p>>
                                   /\ k.toId[<<o, p>>] \in Nat \ {0}
                                   /\ <<I[o], p>> # Nil
  /\ \A o : \A p \in Ports : o \notin B => GetId(k, <<o, p>>) = 0
  /\ GetService(M, 0) = Nil
  /\ Nil \notin Nat

LEMMA KnownIs ==
  ASSUME NEW M, NEW k, NEW B, NEW I, NumbersOver(k, B), Knows(M, k, B, I)
  PROVE  Known(M, k, B, I)
<1>1. \A o \in B : \A p \in Ports : <<o, p>> \in DOMAIN k.toId
  BY DEF NumbersOver, Services
<1>2. \A o \in B : \A p \in Ports : <<I[o], p>> \in Nat \X Ports
  BY DEF Knows
<1>3. MapOK(k, Services(Objects))
  BY DEF NumbersOver, IdsOK
<1>4. \A s \in DOMAIN k.toId : k.toId[s] \in Nat \ {0}
  BY <1>3, MapNumbers
<1>5. \A o : \A p \in Ports : o \notin B => <<o, p>> \notin DOMAIN k.toId
  BY DEF NumbersOver, Services
<1>6. \A o \in B : \A p \in Ports : k.toId[<<o, p>>] \in DOMAIN M.toService /\ M.toService[k.toId[<<o, p>>]] = <<I[o], p>>
  BY DEF Knows
<1>7. GetService(M, 0) = Nil
  BY DEF GetService, Knows
<1>8. ASSUME NEW o \in B, NEW p \in Ports
      PROVE  /\ GetId(k, <<o, p>>) = k.toId[<<o, p>>]
             /\ GetService(M, k.toId[<<o, p>>]) = <<I[o], p>>
             /\ k.toId[<<o, p>>] \in Nat \ {0}
             /\ <<I[o], p>> # Nil
  BY <1>1, <1>2, <1>4, <1>6, ReplicationAssumption DEF GetId, GetService, HasId
<1>9. ASSUME NEW o, NEW p \in Ports, o \notin B PROVE GetId(k, <<o, p>>) = 0
  BY <1>5, <1>9 DEF GetId, HasId
<1> QED BY <1>7, <1>8, <1>9, ReplicationAssumption DEF Known

\* The numbers of members: those without one left out.
NumbersAre(ns, k, B, xs) ==
  /\ \A j \in DOMAIN ns : \E o \in B : ns[j] = k.toId[<<o, "info">>]
  /\ ToSet(xs) \subseteq B => ns = [j \in DOMAIN xs |-> k.toId[<<xs[j], "info">>]]

LEMMA NumbersIs ==
  ASSUME NEW M, NEW k, NEW B, NEW I, NumbersOver(k, B), Knows(M, k, B, I), NEW xs \in Seq(Objects)
  PROVE  NumbersAre(Among(Numbers(k, xs), Nat \ {0}), k, B, xs)
<1> DEFINE all == Numbers(k, xs)
           ns == Among(all, Nat \ {0})
<1>0. "info" \in Ports
  BY DEF Ports
<1>1. all = [j \in DOMAIN xs |-> GetId(k, <<xs[j], "info">>)]
  BY DEF Numbers, Referred
<1>2. \A j \in DOMAIN xs : \/ xs[j] \in B /\ GetId(k, <<xs[j], "info">>) = k.toId[<<xs[j], "info">>]
                                          /\ k.toId[<<xs[j], "info">>] \in Nat \ {0}
                           \/ xs[j] \notin B /\ GetId(k, <<xs[j], "info">>) = 0
  <2>1. /\ \A o \in B : \A p \in Ports : GetId(k, <<o, p>>) = k.toId[<<o, p>>] /\ k.toId[<<o, p>>] \in Nat \ {0}
        /\ \A o : \A p \in Ports : o \notin B => GetId(k, <<o, p>>) = 0
    <3>1. Known(M, k, B, I)
      BY KnownIs
    <3> QED BY <3>1 DEF Known
  <2> QED BY <1>0, <2>1
<1>3. all \in Seq(Nat)
  <2>1. \A j \in DOMAIN xs : GetId(k, <<xs[j], "info">>) \in Nat
    BY <1>2
  <2>2. Len(xs) \in Nat /\ DOMAIN xs = 1..Len(xs)
    OBVIOUS
  <2> QED BY <1>1, <2>1, <2>2
<1> HIDE DEF all
<1>4. /\ ns \in Seq(Nat) /\ ToSet(ns) = ToSet(all) \cap (Nat \ {0})
      /\ ToSet(all) \subseteq Nat \ {0} => ns = all
  BY <1>3, AmongIs
<1> HIDE DEF ns
<1>5. ASSUME NEW j \in DOMAIN ns PROVE \E o \in B : ns[j] = k.toId[<<o, "info">>]
  <2>1. ns[j] \in ToSet(all) /\ ns[j] # 0
    BY <1>4 DEF ToSet, Range
  <2>2. PICK i \in DOMAIN all : ns[j] = all[i]
    BY <2>1 DEF ToSet, Range
  <2> QED BY <2>1, <2>2, <1>1, <1>2
<1>6. ASSUME ToSet(xs) \subseteq B PROVE ns = [j \in DOMAIN xs |-> k.toId[<<xs[j], "info">>]]
  <2>1. \A j \in DOMAIN xs : xs[j] \in B
    BY <1>6 DEF ToSet, Range
  <2>2. all = [j \in DOMAIN xs |-> k.toId[<<xs[j], "info">>]]
    BY <2>1, <1>1, <1>2
  <2>3. ToSet(all) \subseteq Nat \ {0}
    BY <2>1, <2>2, <1>2 DEF ToSet, Range
  <2> QED BY <2>2, <2>3, <1>4
<1> QED BY <1>5, <1>6 DEF NumbersAre, ns, all

\* The change of one field: the instance gets it, from data about the objects B as it is.
ChangedTo(acc, q, h, I, o, f, data, B) ==
  \E v : acc = At(q, Put(h, I[o], f, v)) /\ (RefsIn(f, data) \subseteq B => v = ImageIn(I, f, data))

LEMMA ChangeIs ==
  ASSUME NEW q, NEW k, NEW B, NEW I, NumbersOver(k, B), Knows(q.map, k, B, I), NEW h,
         NEW o \in B, NEW f \in Fields, NEW data \in Data
  PROVE  ChangedTo(ApplyChange(At(q, h), Num(k, o, f), ChangeOf(k, f, data)), q, h, I, o, f, data, B)
<1> DEFINE acc == At(q, h)
           n == Num(k, o, f)
           change == ChangeOf(k, f, data)
           out == ApplyChange(acc, n, change)
<1>k. Known(q.map, k, B, I)
  BY KnownIs
<1>1. /\ acc.out = "ok" /\ acc.rep.map = q.map
      /\ GetService(q.map, n) = <<I[o], PortOf[f]>> /\ change.name = f
  BY <1>k, PortOfIs DEF At, Num, Known, ChangeOf
<1>i. \A x \in B : /\ GetId(k, <<x, "info">>) = k.toId[<<x, "info">>]
                   /\ k.toId[<<x, "info">>] \in Nat /\ k.toId[<<x, "info">>] # Nil
                   /\ GetService(q.map, k.toId[<<x, "info">>]) = <<I[x], "info">>
                   /\ <<I[x], "info">> # Nil
  <2>1. "info" \in Ports
    BY DEF Ports
  <2> QED BY <2>1, <1>k DEF Known
<1>j. /\ \A x : x \notin B => GetId(k, <<x, "info">>) = 0
      /\ GetService(q.map, 0) = Nil /\ 0 # Nil
  <2>1. "info" \in Ports /\ 0 \in Nat
    BY DEF Ports
  <2> QED BY <2>1, <1>k DEF Known
<1>2. \A i, v : [acc EXCEPT !.rep.heap[i].val = v] = At(q, Put(h, i, "val", v))
  BY DEF At, Put
<1>3. \A i, v : [acc EXCEPT !.rep.heap[i].link = v] = At(q, Put(h, i, "link", v))
  BY DEF At, Put
<1>4. \A i, v : [acc EXCEPT !.rep.heap[i].members = v] = At(q, Put(h, i, "members", v))
  BY DEF At, Put
<1>5. CASE f = "val"
  <2>1. PortOf[f] = "info" /\ change.value = data.val
    BY <1>5 DEF PortOf, ChangeOf
  <2> HIDE DEF acc, n, change
  <2>2. out = [acc EXCEPT !.rep.heap[I[o]].val = data.val]
    BY <1>1, <2>1, <1>5 DEF ApplyChange
  <2> QED BY <2>2, <1>2, <1>5 DEF ChangedTo, ImageIn, acc, n, change
<1>6. CASE f = "link"
  <2>1. PortOf[f] = "object" /\ change.value = IF data.link = Nil THEN Nil ELSE GetId(k, <<data.link, "info">>)
    BY <1>6 DEF PortOf, ChangeOf, Referred
  <2> HIDE DEF acc, n, change
  <2>2. CASE data.link = Nil
    <3>1. out = [acc EXCEPT !.rep.heap[I[o]].link = Nil]
      BY <1>1, <2>1, <2>2, <1>6 DEF ApplyChange
    <3> QED BY <3>1, <2>2, <1>3, <1>6 DEF ChangedTo, ImageIn, acc, n, change
  <2>3. CASE data.link # Nil /\ data.link \in B
    <3>1. /\ change.value = k.toId[<<data.link, "info">>] /\ change.value # Nil
          /\ GetService(q.map, change.value) = <<I[data.link], "info">>
          /\ <<I[data.link], "info">> # Nil
      BY <2>1, <2>3, <1>i
    <3>2. out = [acc EXCEPT !.rep.heap[I[o]].link = I[data.link]]
      BY <1>1, <2>1, <3>1, <1>6 DEF ApplyChange
    <3> QED BY <3>2, <2>3, <1>3, <1>6 DEF ChangedTo, ImageIn, acc, n, change
  <2>4. CASE data.link # Nil /\ data.link \notin B
    <3>1. change.value = 0 /\ change.value # Nil /\ GetService(q.map, change.value) = Nil
      BY <2>1, <2>4, <1>j
    <3>2. out = [acc EXCEPT !.rep.heap[I[o]].link = Nil]
      BY <1>1, <2>1, <3>1, <1>6 DEF ApplyChange
    <3>3. ~(RefsIn(f, data) \subseteq B)
      BY <2>4, <1>6 DEF RefsIn
    <3>4. out = At(q, Put(h, I[o], f, Nil))
      BY <3>2, <1>3, <1>6
    <3> HIDE DEF out
    <3> QED BY <3>3, <3>4 DEF ChangedTo, out, acc, n, change
  <2> QED BY <2>2, <2>3, <2>4
<1>7. CASE f = "members"
  <2>1. PortOf[f] = "team" /\ change.value = Among(Numbers(k, data.members), Nat \ {0})
    BY <1>7 DEF PortOf, ChangeOf
  <2>2. data.members \in Seq(Objects)
    BY DEF Data
  <2>n. NumbersAre(change.value, k, B, data.members)
    BY <2>1, <2>2, NumbersIs
  <2>3. \A j \in DOMAIN change.value : \E x \in B : change.value[j] = k.toId[<<x, "info">>]
    BY <2>n DEF NumbersAre
  <2>4. ToSet(data.members) \subseteq B =>
          change.value = [j \in DOMAIN data.members |-> k.toId[<<data.members[j], "info">>]]
    BY <2>n DEF NumbersAre
  <2> HIDE DEF acc, n, change
  <2>5. \A j \in DOMAIN change.value : \E x \in B :
          /\ change.value[j] = k.toId[<<x, "info">>]
          /\ GetService(q.map, change.value[j]) = <<I[x], "info">>
          /\ <<I[x], "info">> # Nil
    BY <2>3, <1>i
  <2> DEFINE v == [j \in DOMAIN change.value |-> GetService(q.map, change.value[j])[1]]
  <2>6. out = [acc EXCEPT !.rep.heap[I[o]].members = v]
    <3> DEFINE S(j) == GetService(q.map, change.value[j])
               u == [j \in DOMAIN change.value |-> IF S(j) # Nil THEN S(j)[1] ELSE Nil]
    <3>1. \A j \in DOMAIN change.value : S(j) # Nil /\ S(j)[2] = "info"
      <4> SUFFICES ASSUME NEW j \in DOMAIN change.value PROVE S(j) # Nil /\ S(j)[2] = "info"
        OBVIOUS
      <4>1. PICK x \in B : S(j) = <<I[x], "info">> /\ <<I[x], "info">> # Nil
        BY <2>5
      <4>2. <<I[x], "info">>[2] = "info"
        OBVIOUS
      <4> HIDE DEF S
      <4> QED BY <4>1, <4>2
    <3>2. out = [acc EXCEPT !.rep.heap[I[o]].members = u]
      <4>1. \A j \in DOMAIN change.value : S(j) # Nil /\ (S(j) # Nil => S(j)[2] = "info")
        BY <3>1
      <4> QED BY <4>1, <1>1, <2>1, <1>7 DEF ApplyChange
    <3>3. u = v
      BY <3>1
    <3> QED BY <3>2, <3>3
  <2>7. ASSUME RefsIn(f, data) \subseteq B PROVE v = ImageIn(I, f, data)
    <3>1. ToSet(data.members) \subseteq B
      BY <2>7, <1>7 DEF RefsIn
    <3>2. \A j \in DOMAIN data.members : data.members[j] \in B
      BY <3>1 DEF ToSet
    <3>3. change.value = [j \in DOMAIN data.members |-> k.toId[<<data.members[j], "info">>]]
      BY <3>1, <2>4
    <3>4. \A j \in DOMAIN data.members : GetService(q.map, change.value[j]) = <<I[data.members[j]], "info">>
      BY <3>2, <3>3, <1>i
    <3> QED BY <3>3, <3>4, <1>7 DEF ImageIn
  <2> HIDE DEF v
  <2> QED BY <2>6, <2>7, <1>4, <1>7 DEF ChangedTo, acc, n, change
<1> QED BY <1>5, <1>6, <1>7 DEF Fields

\* A heap of l instances.
IsHeap(h, l) == h = [i \in 1..l |-> [f \in Fields |-> h[i][f]]]

LEMMA PutIs ==
  ASSUME NEW l, NEW h, IsHeap(h, l), NEW i \in 1..l, NEW f \in Fields, NEW v
  PROVE  /\ IsHeap(Put(h, i, f, v), l) /\ Put(h, i, f, v)[i][f] = v
         /\ \A j \in 1..l : \A e \in Fields : j # i \/ e # f => Put(h, i, f, v)[j][e] = h[j][e]
         /\ \A w : Put(Put(h, i, f, v), i, f, w) = Put(h, i, f, w)
<1>1. h = [j \in 1..l |-> [e \in Fields |-> h[j][e]]]
  BY DEF IsHeap
<1> DEFINE F(w) == [j \in 1..l |-> [e \in Fields |-> IF j = i /\ e = f THEN w ELSE h[j][e]]]
<1>2. \A w : Put(h, i, f, w) = F(w)
  <2> SUFFICES ASSUME NEW w PROVE Put(h, i, f, w) = F(w)
    OBVIOUS
  <2>1. /\ DOMAIN h = 1..l
        /\ \A j \in 1..l : h[j] = [e \in Fields |-> h[j][e]]
    BY <1>1
  <2>2. [h[i] EXCEPT ![f] = w] = [e \in Fields |-> IF e = f THEN w ELSE h[i][e]]
    BY <2>1
  <2> QED BY <1>1, <2>1, <2>2 DEF Put
<1>3. \A w : Put(F(v), i, f, w) = F(w)
  <2> SUFFICES ASSUME NEW w PROVE Put(F(v), i, f, w) = F(w)
    OBVIOUS
  <2>1. [F(v)[i] EXCEPT ![f] = w] = [e \in Fields |-> IF e = f THEN w ELSE h[i][e]]
    OBVIOUS
  <2> QED BY <2>1 DEF Put
<1>4. IsHeap(F(v), l) /\ F(v)[i][f] = v
  BY DEF IsHeap
<1>5. \A j \in 1..l : \A e \in Fields : j # i \/ e # f => F(v)[j][e] = h[j][e]
  OBVIOUS
<1> HIDE DEF F
<1> QED BY <1>2, <1>3, <1>4, <1>5

\* The instances of the objects B are in the heap, and are known.
Placed(M, k, B, I, l) ==
  NumbersOver(k, B) /\ Knows(M, k, B, I) /\ \A o \in B : I[o] \in 1..l

\* All changes of a field: the last one counts.
ChangesTo(cs, k, f, data) ==
  cs \in Seq(ChangesOf(k, f)) /\ Len(cs) > 0 /\ cs[Len(cs)] = ChangeOf(k, f, data)

LEMMA ChangesIs ==
  ASSUME NEW q, NEW k, NEW B, NEW I, NEW l, Placed(q.map, k, B, I, l), NEW h, IsHeap(h, l),
         NEW o \in B, NEW f \in Fields, NEW data \in Data, RefsIn(f, data) \subseteq B,
         NEW cs, ChangesTo(cs, k, f, data)
  PROVE  ChangesEnd(At(q, h), Num(k, o, f), cs) = At(q, Put(h, I[o], f, ImageIn(I, f, data)))
<1> DEFINE n == Len(cs)
           id == Num(k, o, f)
<1>1. n \in Nat /\ n > 0 /\ DOMAIN cs = 1..n
  BY DEF ChangesTo
<1>2. \A i \in 1..n : \E d \in Data : cs[i] = ChangeOf(k, f, d)
  <2>1. \A i \in 1..n : cs[i] \in ChangesOf(k, f)
    BY <1>1 DEF ChangesTo
  <2> QED BY <2>1 DEF ChangesOf
<1>3. cs[n] = ChangeOf(k, f, data)
  BY DEF ChangesTo
<1>4. NumbersOver(k, B) /\ Knows(q.map, k, B, I) /\ I[o] \in 1..l
  BY DEF Placed
<1> HIDE DEF n, id
<1>5. PICK run : IsRun("change", id, At(q, h), cs, n, run) /\ ChangesEnd(At(q, h), id, cs) = run[n]
  BY <1>1, ChangeRun
<1>6. run[0] = At(q, h) /\ \A i \in 1..n : run[i] = ApplyChange(run[i - 1], id, cs[i])
  BY <1>5 DEF IsRun, Step
<1> DEFINE P(i) == \E g : /\ run[i] = At(q, g) /\ IsHeap(g, l)
                          /\ \A v : Put(g, I[o], f, v) = Put(h, I[o], f, v)
           T == {i \in 0..n : P(i)}
<1>7. 0 \in T
  BY <1>1, <1>6
<1>8. ASSUME NEW i \in 1..n, P(i - 1), NEW d \in Data, cs[i] = ChangeOf(k, f, d)
      PROVE  P(i) /\ (RefsIn(f, d) \subseteq B => run[i] = At(q, Put(h, I[o], f, ImageIn(I, f, d))))
  <2>1. PICK g : /\ run[i - 1] = At(q, g) /\ IsHeap(g, l)
                 /\ \A v : Put(g, I[o], f, v) = Put(h, I[o], f, v)
    BY <1>8
  <2>2. ChangedTo(ApplyChange(At(q, g), id, cs[i]), q, g, I, o, f, d, B)
    BY <1>4, <1>8, ChangeIs DEF id
  <2>3. PICK v : /\ run[i] = At(q, Put(g, I[o], f, v))
                 /\ RefsIn(f, d) \subseteq B => v = ImageIn(I, f, d)
    BY <1>6, <2>1, <2>2 DEF ChangedTo
  <2>4. IsHeap(Put(g, I[o], f, v), l) /\ \A w : Put(Put(g, I[o], f, v), I[o], f, w) = Put(g, I[o], f, w)
    BY <1>4, <2>1, PutIs
  <2>5. P(i)
    BY <2>1, <2>3, <2>4
  <2> HIDE DEF P
  <2> QED BY <2>1, <2>3, <2>5
<1>9. ASSUME NEW i \in 1..n, i - 1 \in T PROVE i \in T
  <2>1. P(i - 1) /\ i \in 0..n
    BY <1>1, <1>9
  <2> HIDE DEF P
  <2>2. P(i)
    BY <1>2, <1>8, <2>1
  <2> QED BY <2>1, <2>2
<1>10. P(n - 1) /\ n \in 1..n
  <2> HIDE DEF P
  <2>1. 0..n \subseteq T
    <3> HIDE DEF T
    <3> QED BY <1>1, <1>7, <1>9, UpTo
  <2>2. n - 1 \in 0..n
    BY <1>1
  <2> QED BY <2>1, <2>2, <1>1
<1> HIDE DEF P, T
<1>11. run[n] = At(q, Put(h, I[o], f, ImageIn(I, f, data)))
  BY <1>3, <1>8, <1>10
<1> QED BY <1>5, <1>11 DEF id

-----------------------------------------------------------------------------
\* The changes of fields in DOMAIN now whose numbers are in S have been applied.
Written(h, g, k, I, now, S, l) ==
  /\ IsHeap(g, l)
  /\ \A x \in DOMAIN now : Num(k, x[1], x[2]) \in S => g[I[x[1]]][x[2]] = ImageIn(I, x[2], now[x])
  /\ \A i \in 1..l : \A f \in Fields :
       (\A x \in DOMAIN now : ~(Num(k, x[1], x[2]) \in S /\ I[x[1]] = i /\ x[2] = f)) => g[i][f] = h[i][f]

\* What is told is about the objects B, and refers to them.
Within(now, B) ==
  Over(now, B) /\ \A x \in DOMAIN now : now[x] \in Data /\ RefsIn(x[2], now[x]) \subseteq B

Apart(I, B) == \A o, x \in B : I[o] = I[x] => o = x

LEMMA WrittenNext ==
  ASSUME NEW k, NEW B, NEW I, NEW l, NumbersOver(k, B), Apart(I, B), \A o \in B : I[o] \in 1..l,
         NEW now, Within(now, B), NEW h, NEW g, NEW S, Written(h, g, k, I, now, S, l),
         NEW x \in DOMAIN now
  PROVE  Written(h, Put(g, I[x[1]], x[2], ImageIn(I, x[2], now[x])), k, I, now, S \cup {Num(k, x[1], x[2])}, l)
<1> DEFINE i == I[x[1]]
           f == x[2]
           v == ImageIn(I, x[2], now[x])
           new == Put(g, i, f, v)
           id == Num(k, x[1], x[2])
<1>1. \A y \in DOMAIN now : y = <<y[1], y[2]>> /\ y[1] \in B /\ y[2] \in Fields
  BY DEF Within, Over
<1>2. i \in 1..l /\ f \in Fields /\ IsHeap(g, l)
  BY <1>1 DEF Written
<1>3. /\ IsHeap(new, l) /\ new[i][f] = v
      /\ \A j \in 1..l : \A e \in Fields : j # i \/ e # f => new[j][e] = g[j][e]
  <2> HIDE DEF i, f, v
  <2> QED BY <1>2, PutIs
<1>4. \A y \in DOMAIN now : I[y[1]] = i /\ y[2] = f => y = x
  BY <1>1 DEF Apart
<1>5. \A y \in DOMAIN now : Num(k, y[1], y[2]) = id => y = x
  <2>1. \A a, b \in B : \A e, c \in Fields : Num(k, a, e) = Num(k, b, c) => a = b /\ e = c
    BY NumIs
  <2> HIDE DEF Num
  <2> QED BY <2>1, <1>1
<1> HIDE DEF new
<1>6. ASSUME NEW y \in DOMAIN now, Num(k, y[1], y[2]) \in S \cup {id}
      PROVE  new[I[y[1]]][y[2]] = ImageIn(I, y[2], now[y])
  <2>1. CASE y = x
    BY <2>1, <1>3
  <2>2. CASE y # x
    <3>1. Num(k, y[1], y[2]) \in S /\ I[y[1]] \in 1..l /\ y[2] \in Fields /\ (I[y[1]] # i \/ y[2] # f)
      BY <2>2, <1>1, <1>4, <1>5, <1>6
    <3>2. g[I[y[1]]][y[2]] = ImageIn(I, y[2], now[y])
      BY <3>1 DEF Written
    <3> QED BY <3>1, <3>2, <1>3
  <2> QED BY <2>1, <2>2
<1>7. ASSUME NEW j \in 1..l, NEW e \in Fields,
             \A y \in DOMAIN now : ~(Num(k, y[1], y[2]) \in S \cup {id} /\ I[y[1]] = j /\ y[2] = e)
      PROVE  new[j][e] = h[j][e]
  <2>1. j # i \/ e # f
    BY <1>7
  <2>2. g[j][e] = h[j][e]
    BY <1>7 DEF Written
  <2> QED BY <2>1, <2>2, <1>3
<1> QED BY <1>3, <1>6, <1>7 DEF Written, new

FirstOf(w, n) == {w[j] : j \in 1..n}
Picks(w, n, t) == n \in Nat /\ DOMAIN w = 1..n /\ \A i \in 1..n : w[i] \in DOMAIN t

\* A subscriber that goes through the changes of some objects has written these.
LEMMA AppliedIs ==
  ASSUME NEW q, NEW k, NEW B, NEW I, NEW l, Placed(q.map, k, B, I, l), Apart(I, B),
         NEW now, Within(now, B), NEW t, TableSays(t, k, now), NEW h, IsHeap(h, l),
         NEW w, NEW n, Picks(w, n, t)
  PROVE  \E g : /\ ApplyEnd(At(q, h), t, w) = At(q, g)
                /\ Written(h, g, k, I, now, FirstOf(w, n), l)
<1>0. n \in Nat /\ DOMAIN w = 1..n /\ \A i \in 1..n : w[i] \in DOMAIN t
  BY DEF Picks
<1>1. PICK run : IsRun("apply", t, At(q, h), w, n, run) /\ ApplyEnd(At(q, h), t, w) = run[n]
  BY <1>0, ApplyRun
<1>2. run[0] = At(q, h) /\ \A i \in 1..n : run[i] = ChangesEnd(run[i - 1], w[i], t[w[i]])
  BY <1>1 DEF IsRun, Step, ApplyStep
<1>3. NumbersOver(k, B) /\ Knows(q.map, k, B, I) /\ \A o \in B : I[o] \in 1..l
  BY DEF Placed
<1>4. \A y \in DOMAIN now : y[1] \in B /\ y[2] \in Fields /\ now[y] \in Data /\ RefsIn(y[2], now[y]) \subseteq B
  BY DEF Within, Over
<1> DEFINE S(i) == {w[j] : j \in 1..i}
           P(i) == \E g : run[i] = At(q, g) /\ Written(h, g, k, I, now, S(i), l)
           T == {i \in 0..n : P(i)}
<1>5. 0 \in T
  <2>1. S(0) = {}
    OBVIOUS
  <2>2. Written(h, h, k, I, now, {}, l)
    BY DEF Written
  <2>3. run[0] = At(q, h) /\ Written(h, h, k, I, now, S(0), l)
    BY <2>1, <2>2, <1>2
  <2> HIDE DEF S
  <2>4. P(0) /\ 0 \in 0..n
    BY <2>3, <1>0
  <2> HIDE DEF P
  <2> QED BY <2>4
<1>6. ASSUME NEW i \in 1..n, i - 1 \in T PROVE i \in T
  <2>1. P(i - 1) /\ i \in 0..n
    <3> HIDE DEF P
    <3> QED BY <1>0, <1>6
  <2>2. PICK g : run[i - 1] = At(q, g) /\ Written(h, g, k, I, now, S(i - 1), l)
    BY <2>1
  <2>3. PICK x \in DOMAIN now : w[i] = Num(k, x[1], x[2])
    BY <1>0 DEF TableSays
  <2>4. ChangesTo(t[w[i]], k, x[2], now[x])
    BY <2>3 DEF TableSays, ChangesTo
  <2>5. S(i) = S(i - 1) \cup {w[i]}
    <3>1. 1..i = 1..(i - 1) \cup {i}
      OBVIOUS
    <3> QED BY <3>1
  <2> DEFINE v == ImageIn(I, x[2], now[x])
             new == Put(g, I[x[1]], x[2], v)
  <2>6. IsHeap(g, l)
    BY <2>2 DEF Written
  <2> HIDE DEF P, T, S
  <2>7. run[i] = At(q, new)
    BY <1>2, <1>4, <2>2, <2>3, <2>4, <2>6, ChangesIs
  <2>8. Written(h, new, k, I, now, S(i), l)
    <3>1. Written(h, new, k, I, now, S(i - 1) \cup {Num(k, x[1], x[2])}, l)
      BY <1>3, <2>2, WrittenNext
    <3> QED BY <3>1, <2>3, <2>5
  <2>9. P(i)
    BY <2>7, <2>8 DEF P
  <2> QED BY <2>1, <2>9 DEF T
<1>7. P(n)
  <2> HIDE DEF P
  <2>1. 0..n \subseteq T
    <3> HIDE DEF T
    <3> QED BY <1>0, <1>5, <1>6, UpTo
  <2> QED BY <1>0, <2>1
<1> QED BY <1>1, <1>7 DEF FirstOf

\* From h to g the fields in DOMAIN now have changed, and no other.
Rewritten(h, g, I, now, l) ==
  /\ IsHeap(g, l)
  /\ \A x \in DOMAIN now : g[I[x[1]]][x[2]] = ImageIn(I, x[2], now[x])
  /\ \A i \in 1..l : \A f \in Fields :
       (\A x \in DOMAIN now : ~(I[x[1]] = i /\ x[2] = f)) => g[i][f] = h[i][f]

\* A publication of what is told, under the numbers k.
Publishes(pub, k, now, numbers) ==
  TableSays(pub.changes, k, now) /\ pub.objects = numbers /\ pub.last = k.last

Heard(r, pub, q, I, now, l) ==
  \E g : OnPublish(r, pub) = At(q, g) /\ Rewritten(q.heap, g, I, now, l)

LEMMA HeardIs ==
  ASSUME NEW pub, NEW k, NEW now, NEW numbers, Publishes(pub, k, now, numbers), NEW r, r.ready = TRUE,
         NEW q, q = NewInstances(r, numbers), IsRep(q), NEW l, IsHeap(q.heap, l),
         NEW B, NEW I, Placed(q.map, k, B, I, l), Apart(I, B), Within(now, B)
  PROVE  Heard(r, pub, q, I, now, l)
<1> DEFINE t == pub.changes
           h == q.heap
           all == {n \in DOMAIN t : GetService(q.map, n) # Nil}
           w == Ascending(all, pub.last)
<1>1. TableSays(t, k, now) /\ pub.objects = numbers /\ pub.last = k.last
  BY DEF Publishes
<1>2. \A y \in DOMAIN now : y[1] \in B /\ y[2] \in Fields
  BY DEF Within, Over
<1>3. DOMAIN t = {Num(k, x[1], x[2]) : x \in DOMAIN now}
  BY <1>1 DEF TableSays
<1>4. NumbersOver(k, B) /\ Known(q.map, k, B, I)
  BY KnownIs DEF Placed
<1>5. \A n \in DOMAIN t : GetService(q.map, n) # Nil /\ n \in 1..k.last
  <2> SUFFICES ASSUME NEW x \in DOMAIN now
               PROVE  GetService(q.map, Num(k, x[1], x[2])) # Nil /\ Num(k, x[1], x[2]) \in 1..k.last
    BY <1>3
  <2>1. Num(k, x[1], x[2]) \in 1..k.last
    <3>1. \A o \in B : \A f \in Fields : Num(k, o, f) \in 1..k.last
      BY <1>4, NumIs
    <3> QED BY <3>1, <1>2
  <2>2. GetService(q.map, k.toId[<<x[1], PortOf[x[2]]>>]) # Nil
    BY <1>2, <1>4, PortOfIs DEF Known
  <2> QED BY <2>1, <2>2 DEF Num
<1>6. all = DOMAIN t
  BY <1>5
<1>7. k.last \in Nat
  BY <1>4 DEF NumbersOver, IdsOK, MapOK
<1>8. w \in Seq(Nat) /\ ToSet(w) = DOMAIN t
  <2>1. all \cap 1..pub.last = DOMAIN t
    BY <1>1, <1>5, <1>6
  <2> HIDE DEF all
  <2> QED BY <2>1, <1>1, <1>7, AscendingIs
<1> HIDE DEF w
<1>9. Len(w) \in Nat /\ DOMAIN w = 1..Len(w) /\ \A i \in 1..Len(w) : w[i] \in DOMAIN t
  BY <1>8 DEF ToSet
<1>h. IsHeap(h, l)
  OBVIOUS
<1> HIDE DEF t, h
<1> DEFINE len == Len(w)
<1>10. PICK g : /\ ApplyEnd(At(q, h), t, w) = At(q, g)
                /\ Written(h, g, k, I, now, FirstOf(w, len), l)
  <2>1. Picks(w, len, t)
    BY <1>9 DEF Picks
  <2> HIDE DEF len
  <2> QED BY <1>1, <1>h, <2>1, AppliedIs
<1>11. FirstOf(w, len) = DOMAIN t
  BY <1>8, <1>9 DEF ToSet, FirstOf
<1>12. Rewritten(h, g, I, now, l)
  <2>1. Written(h, g, k, I, now, DOMAIN t, l)
    BY <1>10, <1>11
  <2> QED BY <2>1, <1>3 DEF Written, Rewritten
<1>13. At(q, h) = [rep |-> q, out |-> "ok"]
  BY DEF At, IsRep, h
<1>14. ApplyReceivedChanges(r, pub) =
         LET applied == ApplyEnd(At(q, h), t, w) IN
         IF applied.out = "ok" /\ \E n \in DOMAIN t : ~(GetService(q.map, n) # Nil)
         THEN [applied EXCEPT !.out = "broken"] ELSE applied
  BY <1>1, <1>13 DEF ApplyReceivedChanges, ApplyEnd, ApplyStep, ChangesEnd, t, w, all
<1>15. ApplyReceivedChanges(r, pub) = At(q, g)
  BY <1>5, <1>10, <1>14
<1> QED BY <1>12, <1>15 DEF OnPublish, Heard, h

-----------------------------------------------------------------------------
\* Everyone who is subscribed hears it.
IsTable(had) == had = [s \in Subscribers |-> had[s]]
AllHear(had, pub, w) == \A s \in ToSet(w) : OnPublish(had[s], pub).out = "ok"
HeardBy(had, pub, w) == [s \in Subscribers |-> IF s \in ToSet(w) THEN OnPublish(had[s], pub).rep ELSE had[s]]
LEMMA DeliverIs ==
  ASSUME NEW pub, NEW w \in Seq(Subscribers), IsInjective(w), NEW had, IsTable(had), NEW lost,
         AllHear(had, pub, w)
  PROVE  DeliverEnd([replica |-> had, out |-> "ok", broken |-> lost], pub, w) =
           [replica |-> HeardBy(had, pub, w), out |-> "ok", broken |-> lost]
<1> DEFINE n == Len(w)
           start == [replica |-> had, out |-> "ok", broken |-> lost]
           told(S) == [s \in Subscribers |-> IF s \in S THEN OnPublish(had[s], pub).rep ELSE had[s]]
           S(i) == {w[j] : j \in 1..i}
           after(i) == [replica |-> told(S(i)), out |-> "ok", broken |-> lost]
<1>0. had = [s \in Subscribers |-> had[s]] /\ \A s \in ToSet(w) : OnPublish(had[s], pub).out = "ok"
  BY DEF IsTable, AllHear
<1>1. n \in Nat /\ DOMAIN w = 1..n /\ ToSet(w) = S(n)
  BY DEF ToSet
<1>2. PICK run : IsRun("deliver", pub, start, w, n, run) /\ DeliverEnd(start, pub, w) = run[n]
  <2> HIDE DEF n, start
  <2> QED BY <1>1, DeliverRun
<1>3. run[0] = start /\ \A i \in 1..n : run[i] = DeliverStep(pub, run[i - 1], w[i])
  BY <1>2 DEF IsRun, Step
<1> DEFINE T == {i \in 0..n : run[i] = after(i)}
<1>4. 0 \in T
  <2>1. S(0) = {}
    OBVIOUS
  <2>2. told({}) = had
    BY <1>0
  <2> QED BY <2>1, <2>2, <1>1, <1>3
<1>5. ASSUME NEW i \in 1..n, i - 1 \in T PROVE i \in T
  <2>1. run[i - 1] = after(i - 1) /\ i \in 0..n /\ i - 1 \in Nat
    BY <1>1, <1>5
  <2>2. S(i) = S(i - 1) \cup {w[i]} /\ w[i] \in Subscribers /\ w[i] \in ToSet(w)
    <3>1. 1..i = 1..(i - 1) \cup {i}
      OBVIOUS
    <3> QED BY <3>1, <1>1 DEF ToSet
  <2>3. w[i] \notin S(i - 1)
    <3> SUFFICES ASSUME NEW j \in 1..(i - 1) PROVE w[j] # w[i]
      OBVIOUS
    <3>1. j \in DOMAIN w /\ i \in DOMAIN w /\ j # i
      BY <1>1
    <3> QED BY <3>1 DEF IsInjective
  <2> DEFINE heard == OnPublish(had[w[i]], pub)
  <2>4. heard.out = "ok"
    BY <1>0, <2>2
  <2>5. told(S(i - 1))[w[i]] = had[w[i]]
    BY <2>2, <2>3
  <2>6. [told(S(i - 1)) EXCEPT ![w[i]] = heard.rep] = told(S(i))
    <3> HIDE DEF S
    <3> QED BY <2>2
  <2> HIDE DEF told, S
  <2>7. run[i] = after(i)
    BY <1>3, <2>1, <2>4, <2>5, <2>6 DEF DeliverStep
  <2> QED BY <2>1, <2>7
<1>6. run[n] = after(n)
  <2>1. 0..n \subseteq T
    <3> HIDE DEF T, n
    <3> QED BY <1>1, <1>4, <1>5, UpTo
  <2>2. n \in 0..n
    BY <1>1
  <2> QED BY <2>1, <2>2
<1>7. told(S(n)) = HeardBy(had, pub, w)
  BY <1>1 DEF HeardBy
<1> HIDE DEF told, n, S
<1> QED BY <1>2, <1>6, <1>7

-----------------------------------------------------------------------------
\* The place of an object from the end of the space: references lead down.
Depth == [o \in Objects |-> Len(Space) - CHOOSE i \in DOMAIN Space : Space[i] = o]

LEMMA GraphIs ==
  ASSUME NEW g, GraphOK(g)
  PROVE  IsGraph(g, Objects, Depth, Len(Space)) /\ Root \in Objects
<1>1. Space \in Seq(Objects) /\ Len(Space) \in Nat /\ Len(Space) > 0 /\ DOMAIN Space = 1..Len(Space)
  BY ReplicationAssumption
<1>2. \A i, j \in DOMAIN Space : Space[i] = Space[j] => i = j
  BY ReplicationAssumption DEF IsInjective
<1>3. Objects = {Space[i] : i \in DOMAIN Space}
  BY DEF Objects, ToSet
<1>4. Root \in Objects
  BY <1>1, <1>3 DEF Root
<1>5. \A i \in DOMAIN Space : Depth[Space[i]] = Len(Space) - i
  BY <1>2, <1>3 DEF Depth
<1>6. Depth \in [Objects -> 0..Len(Space)]
  BY <1>1, <1>3, <1>5 DEF Depth
<1>7. g \in [Objects -> Data] /\ \A o \in Objects : Refs(g[o]) \subseteq Later(o)
  BY DEF GraphOK, Ordered
<1>8. ASSUME NEW o \in Objects, NEW x \in Refs(g[o]) PROVE Depth[x] < Depth[o]
  <2>1. x \in Later(o)
    BY <1>7, <1>8
  <2>2. PICK j \in DOMAIN Space : x = Space[j] /\ \E k \in 1..(j - 1) : Space[k] = o
    BY <2>1 DEF Later
  <2>3. PICK k \in 1..(j - 1) : Space[k] = o
    BY <2>2
  <2>4. k \in DOMAIN Space /\ k < j /\ k \in Nat /\ j \in Nat
    BY <1>1, <2>2, <2>3
  <2>5. Depth[x] = Len(Space) - j /\ Depth[o] = Len(Space) - k
    BY <1>5, <2>2, <2>3, <2>4
  <2> QED BY <2>4, <2>5, <1>1
<1>9. \A o \in Objects : g[o].members \in Seq(Objects) /\ g[o].link \in Objects \cup {Nil}
  BY <1>7 DEF Data
<1>10. DOMAIN g = Objects /\ Nil \notin Objects
  BY <1>7, ReplicationAssumption
<1> QED BY <1>1, <1>4, <1>6, <1>8, <1>9, <1>10 DEF IsGraph

\* What is below the root: it is closed, and a walk meets the services of all of it.
BelowOK(g, B) ==
  /\ B \subseteq Objects /\ Root \in B /\ \A o \in B : Refs(g[o]) \subseteq B
  /\ ToSet(Walk(g)[Root]) = Services(B) /\ Walk(g)[Root] \in Seq(Services(B))
  /\ Met(g, Root) \in Seq(B) /\ IsInjective(Met(g, Root)) /\ ToSet(Met(g, Root)) = B
  /\ B = Reach(g, Root)

LEMMA BelowIs ==
  ASSUME NEW g, GraphOK(g)
  PROVE  BelowOK(g, Below(g))
<1>1. IsGraph(g, Objects, Depth, Len(Space)) /\ Root \in Objects
  BY GraphIs
<1> DEFINE R == Reach(g, Root)
<1>2. Met(g, Root) \in Seq(R) /\ IsInjective(Met(g, Root)) /\ ToSet(Met(g, Root)) = R
  BY <1>1, MetIs
<1>3. ToSet(Walk(g)[Root]) = Services(R) /\ Root \in R /\ R \subseteq Objects
  BY <1>1, ReachServices
<1>4. \A x \in R : Refs(g[x]) \subseteq R
  BY <1>1, ReachClosed
<1>5. Walk(g)[Root] \in Seq(Services(Objects))
  BY <1>1, WalkType
<1>6. Walk(g)[Root] \in Seq(Services(R))
  BY <1>3, <1>5, SeqOver
<1>7. Below(g) = R
  BY <1>2 DEF Below
<1> HIDE DEF R
<1> QED BY <1>2, <1>3, <1>4, <1>6, <1>7 DEF BelowOK, R

\* Two graphs alike below the root.
SameBelow(g, h) == Below(h) = Below(g) /\ \A o \in Below(g) : h[o] = g[o]

LEMMA WalkSame ==
  ASSUME NEW g, NEW h, GraphOK(g), GraphOK(h), \A o \in Below(g) : h[o] = g[o]
  PROVE  /\ SameBelow(g, h) /\ Walk(h)[Root] = Walk(g)[Root]
         /\ View(h)[Root] = View(g)[Root]
<1> DEFINE B == Below(g)
           I == [o \in B |-> o]
<1>1. IsGraph(g, Objects, Depth, Len(Space)) /\ IsGraph(h, Objects, Depth, Len(Space)) /\ Root \in Objects
  BY GraphIs
<1>2. BelowOK(g, B) /\ BelowOK(h, Below(h))
  BY BelowIs
<1>3. B \in SUBSET Objects /\ Root \in B /\ \A o \in B : Refs(g[o]) \subseteq B
  BY <1>2 DEF BelowOK
<1>4. Walk(g)[Root] \in Seq(Services(B)) /\ ToSet(Walk(g)[Root]) = Services(B) /\ ToSet(Walk(h)[Root]) = Services(Below(h))
  BY <1>2 DEF BelowOK
<1> HIDE DEF B
<1>5. I \in [B -> Objects] /\ I[Root] = Root /\ \A o \in B : I[o] = o
  BY <1>3
<1>6. \A o \in B : h[I[o]] = g[o]
  BY <1>5 DEF B
<1>7. Alike(g, B, h, I)
  <2> SUFFICES ASSUME NEW o \in B
               PROVE  /\ g[o].members = [k \in DOMAIN g[o].members |-> I[g[o].members[k]]]
                      /\ g[o].link = IF g[o].link = Nil THEN Nil ELSE I[g[o].link]
    BY <1>6 DEF Alike
  <2>1. o \in Objects /\ g[o].members \in Seq(Objects)
    BY <1>1, <1>3 DEF IsGraph
  <2>2. \A k \in DOMAIN g[o].members : g[o].members[k] \in B
    BY <1>3 DEF Refs, ToSet
  <2>3. g[o].link # Nil => g[o].link \in B
    BY <1>3 DEF Refs
  <2>4. g[o].members = [k \in DOMAIN g[o].members |-> g[o].members[k]]
    BY <2>1
  <2> HIDE DEF I
  <2>5. [k \in DOMAIN g[o].members |-> I[g[o].members[k]]] = [k \in DOMAIN g[o].members |-> g[o].members[k]]
    BY <2>2, <1>5
  <2> QED BY <2>3, <2>4, <2>5, <1>5
<1>8. SameVals(g, B, h, I)
  BY <1>6 DEF SameVals
<1> HIDE DEF I
<1>9. Walk(h)[I[Root]] = Renamed(Walk(g)[Root], Image(B, I))
  BY <1>1, <1>3, <1>5, <1>7, WalkIso
<1>10. View(h)[I[Root]] = View(g)[Root]
  BY <1>1, <1>3, <1>5, <1>7, <1>8, ViewIso
<1>11. \A s \in Services(B) : Image(B, I)[s] = s
  BY <1>5 DEF Image, Services
<1>12. Renamed(Walk(g)[Root], Image(B, I)) = Walk(g)[Root]
  <2>1. \A i \in DOMAIN Walk(g)[Root] : Walk(g)[Root][i] \in Services(B)
    BY <1>4
  <2>2. Walk(g)[Root] = [i \in DOMAIN Walk(g)[Root] |-> Walk(g)[Root][i]]
    BY <1>4
  <2> QED BY <2>1, <2>2, <1>11 DEF Renamed
<1>13. Walk(h)[Root] = Walk(g)[Root]
  BY <1>5, <1>9, <1>12
<1>14. Services(Below(h)) = Services(B)
  BY <1>4, <1>13
<1>15. Below(h) = B
  <2>1. "object" \in Ports
    BY DEF Ports
  <2>2. ASSUME NEW S, NEW T, Services(S) = Services(T), NEW o \in S PROVE o \in T
    <3>1. <<o, "object">> \in Services(T)
      BY <2>1, <2>2 DEF Services
    <3> QED BY <3>1 DEF Services
  <2> QED BY <2>2, <1>14
<1> QED BY <1>5, <1>6, <1>10, <1>13, <1>15 DEF SameBelow, B
=============================================================================
