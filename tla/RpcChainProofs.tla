--------------------------- MODULE RpcChainProofs ---------------------------
(***************************************************************************)
(* Blocking calls whose services call on, to any depth and back to any     *)
(* node, take their own replies as long as one application starts them all *)
(* (the regime of the run rpc_chain; rpc_crossed shows that with           *)
(* asynchronous calls, which let two services run at once, they need not). *)
(*                                                                         *)
(* The calls under way form a chain: each but the first was made by the    *)
(* service of the one before it.  Only the last call of the chain is       *)
(* on its way, served or answered; all services below it wait.  The frames *)
(* of a stack climb along the chain, so that the reply a node finds is for *)
(* the wait on top of its stack.                                           *)
(*                                                                         *)
(* A service that waits loses its client as soon as it reacts and nothing  *)
(* has come, or is entered again: its reply is dropped, and all nodes      *)
(* wait.  The theorems hold then too: nobody takes a reply that is not     *)
(* his.                                                                    *)
(***************************************************************************)
EXTENDS RpcCallsProofs

\* One application makes calls, and all calls wait for their replies.
Blocking ==
  /\ \A p, q \in AppCalls : p[1] = q[1]
  /\ Kinds \subseteq {"sync", "management"} /\ Throws = {} /\ MaxTimeouts = 0

-----------------------------------------------------------------------------
(* The inductive invariant.                                                *)

Waits(st, s, i) ==
  \E h \in 1..Len(st) :
    Waiting(FrameAt(st, h)) /\ FrameAt(st, h).peer = s /\ FrameAt(st, h).call = i

\* pos[i] is the place of call i in the chain, 0 if it is not under way; m is the
\* length of the chain.
Numbered(pos, m) ==
  /\ m \in Nat /\ pos \in [Calls -> 0..m]
  /\ \A i, j \in Calls : pos[i] = pos[j] /\ pos[i] > 0 => i = j
  /\ \A k \in 1..m : \E i \in Calls : pos[i] = k
  /\ \A i \in Calls : pos[i] > 0 => stage[i] # "unsent"

\* Frame f comes later in the chain than g; a call is waited for before it is served.
Above(pos, f, g) ==
  \/ pos[g.call] < pos[f.call]
  \/ pos[g.call] = pos[f.call] /\ Serving(f) /\ Waiting(g)

Climbing(pos) ==
  \A n \in Nodes : \A g, h \in 1..Len(stack[n]) :
    g < h => Above(pos, FrameAt(stack[n], h), FrameAt(stack[n], g))

UnderWay(pos) ==
  \A n \in Nodes : \A h \in 1..Len(stack[n]) :
    LET f == FrameAt(stack[n], h) IN f.at # "raised" /\ f.kind # "async" /\ pos[f.call] > 0

OneWaits ==
  \A n, o, s, t \in Nodes, i \in Calls :
    Waits(stack[n], s, i) /\ Waits(stack[o], t, i) => n = o

\* The first call is waited for where the application runs ...
Root(c) == \E s \in Nodes : <<c, s>> \in AppCalls
FirstWaits(pos) ==
  \A i \in Calls : pos[i] = 1 => \E c, s \in Nodes : Root(c) /\ Waits(stack[c], s, i)

\* ... and every other one where the call before it is served.
NextWaits(pos) ==
  \A n \in Nodes : \A h \in 1..Len(stack[n]) : \A j \in Calls :
    Serving(FrameAt(stack[n], h)) /\ pos[j] = pos[FrameAt(stack[n], h).call] + 1
      => \E s \in Nodes : Waits(stack[n], s, j)

\* Requests and replies on their way are those of the last call, and waited for.
LastQueued(pos, m) ==
  \A c, s \in Nodes : \A p \in DOMAIN requests[c][s] :
    /\ m > 0 /\ pos[requests[c][s][p].call] = m
    /\ requests[c][s][p].kind # "async"
    /\ Waits(stack[c], s, requests[c][s][p].call)

LastReplied(pos, m) ==
  \A c, s \in Nodes : \A p \in DOMAIN replies[c][s] :
    m > 0 /\ pos[replies[c][s][p]] = m /\ Waits(stack[c], s, replies[c][s][p])

\* No call has another's reply, nor ended with an exception.
TakesOwn == \A i \in Calls : result[i] \in {None, i}

ServiceWaited ==
  \A n \in Nodes : \A h \in 1..Len(stack[n]) :
    Serving(FrameAt(stack[n], h)) =>
      Waits(stack[FrameAt(stack[n], h).peer], n, FrameAt(stack[n], h).call)

\* The highest service of a node finds its client in _lastSender, or nobody.
SenderOrNone ==
  \A n \in Nodes : \A h \in 1..Len(stack[n]) :
    /\ Serving(FrameAt(stack[n], h))
    /\ \A g \in 1..Len(stack[n]) : h < g => Waiting(FrameAt(stack[n], g))
    => lastSender[n] \in {None, FrameAt(stack[n], h).peer}

Chain(pos, m) ==
  /\ Numbered(pos, m) /\ Climbing(pos) /\ UnderWay(pos)
  /\ FirstWaits(pos) /\ NextWaits(pos)
  /\ LastQueued(pos, m) /\ LastReplied(pos, m)

ChainInv ==
  /\ PlaceInv /\ TakesOwn /\ OneWaits /\ ServiceWaited /\ SenderOrNone
  /\ \E pos, m : Chain(pos, m)

-----------------------------------------------------------------------------
(* Stacks, frame by frame.                                                 *)

LEMMA FrameType ==
  ASSUME NEW st \in Seq(Frame), NEW h \in 1..Len(st)
  PROVE  /\ FrameAt(st, h) \in Frame
         /\ FrameAt(st, h).call \in Calls /\ FrameAt(st, h).peer \in Nodes
         /\ Waiting(FrameAt(st, h)) <=> ~Serving(FrameAt(st, h))
<1>1. Len(st) \in Nat
  BY LenProperties
<1>2. Len(st) + 1 - h \in 1..Len(st)
  BY <1>1
<1>3. FrameAt(st, h) \in Frame
  BY <1>2, ElementOfSeq DEF FrameAt
<1> QED BY <1>3 DEF Frame, Waiting, Serving, WaitPoints, ServePoints

\* The same request, waited for or served as before.
Alike(f, g) ==
  /\ f.call = g.call /\ f.peer = g.peer /\ f.kind = g.kind
  /\ Serving(f) <=> Serving(g)
  /\ Waiting(f) <=> Waiting(g)
  /\ f.at = "raised" => g.at = "raised"

AlikeTo(d, new, old) == \A h \in 1..d : Alike(FrameAt(new, h), FrameAt(old, h))

Kept(new, old) == Len(new) = Len(old) /\ AlikeTo(Len(old), new, old)

Grown(new, old, f) ==
  /\ Len(new) = Len(old) + 1 /\ AlikeTo(Len(old), new, old)
  /\ FrameAt(new, Len(old) + 1) = f

Shrunk(new, old) == Len(new) = Len(old) - 1 /\ Len(old) > 0 /\ AlikeTo(Len(new), new, old)

LEMMA KeptSame == ASSUME NEW st PROVE Kept(st, st)
BY DEF Kept, AlikeTo, Alike

LEMMA TopMoves ==
  ASSUME NEW st \in Seq(Frame), st # <<>>, NEW p \in WaitPoints, Waiting(Head(st))
  PROVE  Kept([st EXCEPT ![1].at = p], st)
<1> DEFINE new == [st EXCEPT ![1].at = p]
<1>1. new \in Seq(Frame) /\ Len(new) = Len(st) /\ Len(st) \in Nat \ {0}
  BY MovedTop, Popped DEF Points
<1>2. st[1] \in Frame /\ 1 \in DOMAIN st /\ DOMAIN st = 1..Len(st) /\ Head(st) = st[1]
  BY <1>1, ElementOfSeq, LenProperties, Popped
<1>3. new[1] = [st[1] EXCEPT !.at = p] /\ \A d \in DOMAIN st : d # 1 => new[d] = st[d]
  BY <1>2
<1>4. /\ new[1].at = p /\ new[1].call = st[1].call
      /\ new[1].peer = st[1].peer /\ new[1].kind = st[1].kind
  BY <1>2, <1>3 DEF Frame
<1> HIDE DEF new
<1>5. Alike(new[1], st[1])
  BY <1>2, <1>4 DEF Alike, Serving, Waiting, WaitPoints, ServePoints
<1>6. ASSUME NEW h \in 1..Len(st) PROVE Alike(FrameAt(new, h), FrameAt(st, h))
  <2> DEFINE d == Len(st) + 1 - h
  <2>1. d \in DOMAIN st
    BY <1>1, <1>2
  <2>2. FrameAt(new, h) = new[d] /\ FrameAt(st, h) = st[d]
    BY <1>1 DEF FrameAt
  <2>3. new[d] = st[d] => Alike(new[d], st[d])
    BY DEF Alike
  <2> HIDE DEF d
  <2> QED BY <1>3, <1>5, <2>1, <2>2, <2>3
<1>7. Kept(new, st)
  BY <1>1, <1>6 DEF Kept, AlikeTo
<1> QED BY <1>7 DEF new

LEMMA ReactedKept ==
  ASSUME TypeOK, NEW n \in Nodes, MayReact(n)
  PROVE  Kept(Reacted(stack[n]), stack[n]) /\ Reacted(stack[n]) \in Seq(Frame)
<1>1. stack[n] \in Seq(Frame)
  BY DEF TypeOK
<1>2. CASE stack[n] = <<>>
  BY <1>1, <1>2, KeptSame DEF Reacted
<1>3. CASE IsTop(n, {"reacting"})
  <2>1. stack[n] # <<>> /\ Waiting(Head(stack[n])) /\ "checked" \in WaitPoints
    BY <1>3 DEF IsTop, Waiting, WaitPoints
  <2>2. Reacted(stack[n]) = [stack[n] EXCEPT ![1].at = "checked"]
    BY <2>1 DEF Reacted
  <2> QED BY <1>1, <2>1, <2>2, TopMoves, ReactedType
<1> QED BY <1>2, <1>3 DEF MayReact

LEMMA PushGrows ==
  ASSUME NEW old \in Seq(Frame), NEW st \in Seq(Frame), Kept(st, old), NEW f \in Frame
  PROVE  Grown(Push(f, st), old, f)
<1>1. /\ Len(Push(f, st)) = Len(st) + 1 /\ Len(st) \in Nat
      /\ FrameAt(Push(f, st), Len(Push(f, st))) = f
      /\ \A h \in 1..Len(st) : FrameAt(Push(f, st), h) = FrameAt(st, h)
  BY PushedOn
<1> QED BY <1>1 DEF Grown, Kept, AlikeTo

LEMMA PopShrinks ==
  ASSUME NEW st \in Seq(Frame), st # <<>>
  PROVE  Shrunk(Tail(st), st) /\ Head(st) = FrameAt(st, Len(st)) /\ Len(st) \in Nat \ {0}
<1>1. /\ Len(Tail(st)) = Len(st) - 1 /\ Len(st) \in Nat \ {0}
      /\ Head(st) = FrameAt(st, Len(st))
      /\ \A h \in 1..Len(Tail(st)) : FrameAt(Tail(st), h) = FrameAt(st, h)
  BY Popped
<1> QED BY <1>1 DEF Shrunk, AlikeTo, Alike

LEMMA WaitsKept ==
  ASSUME NEW new, NEW old, Kept(new, old), NEW s, NEW i
  PROVE  Waits(new, s, i) <=> Waits(old, s, i)
BY DEF Kept, AlikeTo, Alike, Waits

LEMMA WaitsGrown ==
  ASSUME NEW old \in Seq(Frame), NEW new, NEW f, Grown(new, old, f), NEW s, NEW i
  PROVE  Waits(new, s, i) <=> Waits(old, s, i) \/ (Waiting(f) /\ f.peer = s /\ f.call = i)
<1>1. Len(old) \in Nat /\ Len(new) = Len(old) + 1
  BY LenProperties DEF Grown
<1>2. ASSUME Waits(new, s, i)
      PROVE  Waits(old, s, i) \/ (Waiting(f) /\ f.peer = s /\ f.call = i)
  <2>1. PICK h \in 1..Len(new) :
          Waiting(FrameAt(new, h)) /\ FrameAt(new, h).peer = s /\ FrameAt(new, h).call = i
    BY <1>2 DEF Waits
  <2>2. h \in 1..Len(old) \/ h = Len(old) + 1
    BY <1>1
  <2> QED BY <2>1, <2>2 DEF Grown, AlikeTo, Alike, Waits
<1>3. ASSUME Waits(old, s, i) PROVE Waits(new, s, i)
  <2>1. PICK h \in 1..Len(old) :
          Waiting(FrameAt(old, h)) /\ FrameAt(old, h).peer = s /\ FrameAt(old, h).call = i
    BY <1>3 DEF Waits
  <2>2. h \in 1..Len(new)
    BY <1>1
  <2> QED BY <2>1, <2>2 DEF Grown, AlikeTo, Alike, Waits
<1>4. ASSUME Waiting(f), f.peer = s, f.call = i PROVE Waits(new, s, i)
  <2>1. Len(old) + 1 \in 1..Len(new) /\ FrameAt(new, Len(old) + 1) = f
    BY <1>1 DEF Grown
  <2> QED BY <1>4, <2>1 DEF Waits
<1> QED BY <1>2, <1>3, <1>4

LEMMA WaitsShrunk ==
  ASSUME NEW old \in Seq(Frame), NEW new, Shrunk(new, old), NEW s, NEW i
  PROVE  /\ Waits(new, s, i) => Waits(old, s, i)
         /\ Waits(old, s, i) =>
              \/ Waits(new, s, i)
              \/ LET f == FrameAt(old, Len(old)) IN Waiting(f) /\ f.peer = s /\ f.call = i
<1>1. Len(old) \in Nat /\ Len(new) = Len(old) - 1 /\ Len(old) > 0
  BY LenProperties DEF Shrunk
<1>2. ASSUME Waits(new, s, i) PROVE Waits(old, s, i)
  <2>1. PICK h \in 1..Len(new) :
          Waiting(FrameAt(new, h)) /\ FrameAt(new, h).peer = s /\ FrameAt(new, h).call = i
    BY <1>2 DEF Waits
  <2>2. h \in 1..Len(old)
    BY <1>1
  <2> QED BY <2>1, <2>2 DEF Shrunk, AlikeTo, Alike, Waits
<1>3. ASSUME Waits(old, s, i)
      PROVE  \/ Waits(new, s, i)
             \/ LET f == FrameAt(old, Len(old)) IN Waiting(f) /\ f.peer = s /\ f.call = i
  <2>1. PICK h \in 1..Len(old) :
          Waiting(FrameAt(old, h)) /\ FrameAt(old, h).peer = s /\ FrameAt(old, h).call = i
    BY <1>3 DEF Waits
  <2>2. h \in 1..Len(new) \/ h = Len(old)
    BY <1>1
  <2> QED BY <2>1, <2>2 DEF Shrunk, AlikeTo, Alike, Waits
<1> QED BY <1>2, <1>3

-----------------------------------------------------------------------------
(* The end of the chain.                                                   *)

\* Where a node's top frame serves, it serves the last call.
LEMMA TopServesLast ==
  ASSUME TypeOK, NEW pos, NEW m, Chain(pos, m), NEW n \in Nodes, stack[n] # <<>>,
         Serving(FrameAt(stack[n], Len(stack[n])))
  PROVE  pos[FrameAt(stack[n], Len(stack[n])).call] = m /\ m > 0
<1> DEFINE d == Len(stack[n])
           f == FrameAt(stack[n], d)
<1>1. stack[n] \in Seq(Frame) /\ d \in Nat \ {0}
  BY Popped DEF TypeOK
<1>2. d \in 1..d /\ f.call \in Calls
  BY <1>1, FrameType
<1>3. /\ m \in Nat /\ pos \in [Calls -> 0..m] /\ pos[f.call] > 0
      /\ \A k \in 1..m : \E i \in Calls : pos[i] = k
  BY <1>2 DEF Chain, Numbered, UnderWay
<1>4. SUFFICES ASSUME pos[f.call] # m PROVE FALSE
  BY <1>2, <1>3
<1>5. pos[f.call] + 1 \in 1..m
  BY <1>2, <1>3, <1>4
<1>6. PICK j \in Calls : pos[j] = pos[f.call] + 1
  BY <1>3, <1>5
<1>7. PICK s \in Nodes : Waits(stack[n], s, j)
  BY <1>2, <1>6 DEF Chain, NextWaits
<1>8. PICK h \in 1..d : FrameAt(stack[n], h).call = j
  BY <1>7 DEF Waits
<1> HIDE DEF d, f
<1>9. CASE h = d
  <2>1. pos[f.call] = pos[f.call] + 1
    BY <1>6, <1>8, <1>9 DEF f
  <2> QED BY <1>2, <1>3, <2>1
<1>10. CASE h < d
  <2>1. Above(pos, f, FrameAt(stack[n], h))
    BY <1>2, <1>10 DEF Chain, Climbing, d, f
  <2>2. pos[f.call] + 1 <= pos[f.call]
    BY <1>2, <1>3, <1>6, <1>8, <2>1 DEF Above
  <2> QED BY <1>2, <1>3, <2>2
<1> QED BY <1>1, <1>9, <1>10

\* Where a node's top frame waits, and the node waits for the last call, it is that wait.
LEMMA TopWaitsLast ==
  ASSUME TypeOK, NEW pos, NEW m, Chain(pos, m), NEW n \in Nodes, stack[n] # <<>>,
         Waiting(FrameAt(stack[n], Len(stack[n]))),
         NEW s \in Nodes, NEW i \in Calls, Waits(stack[n], s, i), pos[i] = m
  PROVE  FrameAt(stack[n], Len(stack[n])).call = i /\ FrameAt(stack[n], Len(stack[n])).peer = s
<1> DEFINE d == Len(stack[n])
           f == FrameAt(stack[n], d)
<1>1. stack[n] \in Seq(Frame) /\ d \in Nat \ {0}
  BY Popped DEF TypeOK
<1>2. d \in 1..d /\ f.call \in Calls /\ ~Serving(f)
  BY <1>1, FrameType
<1>3. m \in Nat /\ pos \in [Calls -> 0..m]
  BY DEF Chain, Numbered
<1>4. PICK h \in 1..d : FrameAt(stack[n], h).call = i /\ FrameAt(stack[n], h).peer = s
  BY DEF Waits
<1> HIDE DEF d, f
<1>5. CASE h = d
  BY <1>4, <1>5 DEF d
<1>6. CASE h < d
  <2>1. Above(pos, f, FrameAt(stack[n], h))
    BY <1>2, <1>6 DEF Chain, Climbing, d, f
  <2>2. m < pos[f.call]
    BY <1>2, <1>4, <2>1 DEF Above
  <2> QED BY <1>2, <1>3, <2>2
<1> QED BY <1>1, <1>5, <1>6

\* While the last call is served, and while there is none, nothing is on its way.
LEMMA NothingOnItsWay ==
  ASSUME PlaceInv, NEW pos, NEW m, Chain(pos, m),
         \/ m = 0
         \/ \E n \in Nodes, i \in Calls : \E h \in Nat : ServesAt(stack[n], h, i) /\ pos[i] = m
  PROVE  \A c, s \in Nodes : DOMAIN requests[c][s] = {} /\ DOMAIN replies[c][s] = {}
<1> SUFFICES ASSUME NEW c \in Nodes, NEW s \in Nodes,
                    DOMAIN requests[c][s] # {} \/ DOMAIN replies[c][s] # {}
             PROVE  FALSE
  OBVIOUS
<1>1. TypeOK /\ InQueue /\ InService /\ InReply
  BY DEF PlaceInv
<1>2. /\ \A p \in DOMAIN requests[c][s] : requests[c][s][p].call \in Calls
      /\ \A p \in DOMAIN replies[c][s] : replies[c][s][p] \in Calls
  BY <1>1, QueueElements
<1>3. \E j \in Calls : m > 0 /\ pos[j] = m /\ stage[j] # "serving"
  <2>1. ASSUME NEW p \in DOMAIN requests[c][s]
        PROVE  \E j \in Calls : m > 0 /\ pos[j] = m /\ stage[j] # "serving"
    BY <1>1, <1>2 DEF Chain, LastQueued, InQueue
  <2>2. ASSUME NEW p \in DOMAIN replies[c][s]
        PROVE  \E j \in Calls : m > 0 /\ pos[j] = m /\ stage[j] # "serving"
    BY <1>1, <1>2 DEF Chain, LastReplied, InReply
  <2> QED BY <2>1, <2>2
<1>4. PICK j \in Calls : m > 0 /\ pos[j] = m /\ stage[j] # "serving"
  BY <1>3
<1>5. PICK n \in Nodes, i \in Calls : \E h \in Nat : ServesAt(stack[n], h, i) /\ pos[i] = m
  BY <1>4
<1>6. i = j
  BY <1>4, <1>5 DEF Chain, Numbered
<1>7. stage[i] = "serving"
  BY <1>1, <1>5 DEF InService
<1> QED BY <1>4, <1>6, <1>7

-----------------------------------------------------------------------------
(* The steps.                                                              *)

LEMMA ChainInit == Init => ChainInv
<1> SUFFICES ASSUME Init PROVE ChainInv
  OBVIOUS
<1>1. PlaceInv
  BY PlaceInit
<1>2. \A n \in Nodes : stack[n] = <<>>
  BY DEF Init
<1>4. ASSUME NEW n \in Nodes PROVE 1..Len(stack[n]) = {}
  <2>1. Len(stack[n]) = 0
    BY <1>2
  <2> QED BY <2>1
<1>5. \A n \in Nodes : \A s, i : ~Waits(stack[n], s, i)
  BY <1>4 DEF Waits
<1>6. OneWaits /\ ServiceWaited /\ SenderOrNone
  BY <1>4, <1>5 DEF OneWaits, ServiceWaited, SenderOrNone
<1>7. TakesOwn
  BY DEF TakesOwn, Init
<1> DEFINE pos == [i \in Calls |-> 0]
<1>8. Numbered(pos, 0)
  BY DEF Numbered
<1>9. Climbing(pos) /\ UnderWay(pos) /\ NextWaits(pos)
  BY <1>4 DEF Climbing, UnderWay, NextWaits
<1>10. FirstWaits(pos)
  BY DEF FirstWaits
<1>11. \A c, s \in Nodes : DOMAIN requests[c][s] = {} /\ DOMAIN replies[c][s] = {}
  BY DEF Init
<1>12. LastQueued(pos, 0) /\ LastReplied(pos, 0)
  BY <1>11 DEF LastQueued, LastReplied
<1> HIDE DEF pos
<1>13. Chain(pos, 0)
  BY <1>8, <1>9, <1>10, <1>12 DEF Chain
<1> QED BY <1>1, <1>6, <1>7, <1>13 DEF ChainInv

\* Waits that go on, and steps that change nothing.
LEMMA KeptStep ==
  ASSUME ChainInv, PlaceInv', UNCHANGED <<requests, replies, stage, result>>,
         \A n \in Nodes : lastSender'[n] \in {None, lastSender[n]},
         \A n \in Nodes : Kept(stack'[n], stack[n])
  PROVE  ChainInv'
<1>1. PICK pos, m : Chain(pos, m)
  BY DEF ChainInv
<1>2. \A n \in Nodes : \A s, i : Waits(stack'[n], s, i) <=> Waits(stack[n], s, i)
  BY WaitsKept
<1>3. \A n \in Nodes : Len(stack'[n]) = Len(stack[n])
  BY DEF Kept
<1>4. \A n \in Nodes : \A h \in 1..Len(stack[n]) :
        LET f == FrameAt(stack[n], h)
            g == FrameAt(stack'[n], h)
        IN  /\ g.call = f.call /\ g.peer = f.peer /\ g.kind = f.kind
            /\ Serving(g) <=> Serving(f)
            /\ Waiting(g) <=> Waiting(f)
            /\ g.at = "raised" => f.at = "raised"
  BY DEF Kept, AlikeTo, Alike
<1>5. TakesOwn' /\ OneWaits'
  <2>1. TakesOwn'
    BY DEF ChainInv, TakesOwn
  <2>2. OneWaits'
    BY <1>2 DEF ChainInv, OneWaits
  <2> QED BY <2>1, <2>2
<1>6. ServiceWaited'
  <2> SUFFICES ASSUME NEW n \in Nodes, NEW h \in 1..Len(stack'[n]), Serving(FrameAt(stack'[n], h))
               PROVE  Waits(stack'[FrameAt(stack'[n], h).peer], n, FrameAt(stack'[n], h).call)
    BY DEF ServiceWaited
  <2>1. h \in 1..Len(stack[n]) /\ FrameAt(stack[n], h).peer \in Nodes
    BY <1>3, FrameType DEF ChainInv, PlaceInv, TypeOK
  <2>2. Waits(stack[FrameAt(stack[n], h).peer], n, FrameAt(stack[n], h).call)
    BY <1>4, <2>1 DEF ChainInv, ServiceWaited
  <2> QED BY <1>2, <1>4, <2>1, <2>2
<1>7. SenderOrNone'
  <2> SUFFICES ASSUME NEW n \in Nodes, NEW h \in 1..Len(stack'[n]), Serving(FrameAt(stack'[n], h)),
                      \A g \in 1..Len(stack'[n]) : h < g => Waiting(FrameAt(stack'[n], g))
               PROVE  lastSender'[n] \in {None, FrameAt(stack'[n], h).peer}
    BY DEF SenderOrNone
  <2>1. /\ h \in 1..Len(stack[n]) /\ Serving(FrameAt(stack[n], h))
        /\ \A g \in 1..Len(stack[n]) : h < g => Waiting(FrameAt(stack[n], g))
    BY <1>3, <1>4
  <2>2. lastSender[n] \in {None, FrameAt(stack[n], h).peer}
    BY <2>1 DEF ChainInv, SenderOrNone
  <2> QED BY <1>4, <2>1, <2>2
<1>8. Climbing(pos)' /\ UnderWay(pos)'
  <2>1. ASSUME NEW n \in Nodes, NEW g \in 1..Len(stack'[n]), NEW h \in 1..Len(stack'[n]), g < h
        PROVE  Above(pos, FrameAt(stack'[n], h), FrameAt(stack'[n], g))
    <3>1. g \in 1..Len(stack[n]) /\ h \in 1..Len(stack[n])
      BY <1>3
    <3>2. Above(pos, FrameAt(stack[n], h), FrameAt(stack[n], g))
      BY <1>1, <2>1, <3>1 DEF Chain, Climbing
    <3> QED BY <1>4, <3>1, <3>2 DEF Above
  <2>2. ASSUME NEW n \in Nodes, NEW h \in 1..Len(stack'[n])
        PROVE  LET f == FrameAt(stack'[n], h)
               IN  f.at # "raised" /\ f.kind # "async" /\ pos[f.call] > 0
    <3>1. h \in 1..Len(stack[n])
      BY <1>3
    <3> QED BY <1>1, <1>4, <3>1 DEF Chain, UnderWay
  <2> QED BY <2>1, <2>2 DEF Climbing, UnderWay
<1>9. NextWaits(pos)' /\ FirstWaits(pos)'
  <2>1. ASSUME NEW i \in Calls, pos[i] = 1
        PROVE  \E c, s \in Nodes : Root(c) /\ Waits(stack'[c], s, i)
    BY <1>1, <1>2, <2>1 DEF Chain, FirstWaits
  <2>2. ASSUME NEW n \in Nodes, NEW h \in 1..Len(stack'[n]), NEW j \in Calls,
               Serving(FrameAt(stack'[n], h)), pos[j] = pos[FrameAt(stack'[n], h).call] + 1
        PROVE  \E s \in Nodes : Waits(stack'[n], s, j)
    <3>1. /\ h \in 1..Len(stack[n]) /\ Serving(FrameAt(stack[n], h))
          /\ pos[j] = pos[FrameAt(stack[n], h).call] + 1
      BY <1>3, <1>4, <2>2
    <3>2. \E s \in Nodes : Waits(stack[n], s, j)
      BY <1>1, <3>1 DEF Chain, NextWaits
    <3> QED BY <1>2, <3>2
  <2> QED BY <2>1, <2>2 DEF NextWaits, FirstWaits, Root
<1>10. Numbered(pos, m)'
  BY <1>1 DEF Chain, Numbered
<1>12. LastQueued(pos, m)' /\ LastReplied(pos, m)'
  <2>1. LastQueued(pos, m) /\ LastReplied(pos, m) /\ UNCHANGED <<requests, replies>>
    BY <1>1 DEF Chain
  <2>2. ASSUME NEW c \in Nodes, NEW s \in Nodes, NEW p \in DOMAIN requests'[c][s]
        PROVE  /\ m > 0 /\ pos[requests'[c][s][p].call] = m
               /\ requests'[c][s][p].kind # "async"
               /\ Waits(stack'[c], s, requests'[c][s][p].call)
    <3>1. p \in DOMAIN requests[c][s] /\ requests'[c][s][p] = requests[c][s][p]
      BY <2>1
    <3>2. /\ m > 0 /\ pos[requests[c][s][p].call] = m
          /\ requests[c][s][p].kind # "async"
          /\ Waits(stack[c], s, requests[c][s][p].call)
      BY <2>1, <3>1 DEF LastQueued
    <3> QED BY <1>2, <3>1, <3>2
  <2>3. ASSUME NEW c \in Nodes, NEW s \in Nodes, NEW p \in DOMAIN replies'[c][s]
        PROVE  m > 0 /\ pos[replies'[c][s][p]] = m /\ Waits(stack'[c], s, replies'[c][s][p])
    <3>1. p \in DOMAIN replies[c][s] /\ replies'[c][s][p] = replies[c][s][p]
      BY <2>1
    <3>2. m > 0 /\ pos[replies[c][s][p]] = m /\ Waits(stack[c], s, replies[c][s][p])
      BY <2>1, <3>1 DEF LastReplied
    <3> QED BY <1>2, <3>1, <3>2
  <2> QED BY <2>2, <2>3 DEF LastQueued, LastReplied
<1>11. Chain(pos, m)'
  BY <1>8, <1>9, <1>10, <1>12 DEF Chain
<1> QED BY <1>5, <1>6, <1>7, <1>11 DEF ChainInv

\* Where code runs that can issue a request: the application, with no call under
\* way, or the service of the last call.
LEMMA IssuerLast ==
  ASSUME Blocking, PlaceInv, NEW pos, NEW m, Chain(pos, m),
         NEW n \in Nodes, NEW s \in Nodes, MayIssue(n, s)
  PROVE  \/ m = 0 /\ stack[n] = <<>> /\ Root(n)
         \/ LET f == FrameAt(stack[n], Len(stack[n])) IN
              /\ stack[n] # <<>> /\ Len(stack[n]) \in Nat \ {0}
              /\ Serving(f) /\ pos[f.call] = m /\ m > 0 /\ f.call \in Calls
<1>1. stack[n] \in Seq(Frame) /\ TypeOK
  BY DEF PlaceInv, TypeOK
<1>2. CASE stack[n] = <<>> /\ <<n, s>> \in AppCalls
  <2>1. Root(n)
    BY <1>2 DEF Root
  <2>2. \A t, j : ~Waits(stack[n], t, j)
    <3>1. Len(stack[n]) = 0
      BY <1>2
    <3>2. 1..Len(stack[n]) = {}
      BY <3>1
    <3> QED BY <3>2 DEF Waits
  <2>3. \A c \in Nodes : Root(c) => c = n
    <3> SUFFICES ASSUME NEW c \in Nodes, NEW t \in Nodes, <<c, t>> \in AppCalls PROVE c = n
      BY DEF Root
    <3>1. <<c, t>>[1] = <<n, s>>[1]
      BY <1>2 DEF Blocking
    <3> QED BY <3>1
  <2>4. m \in Nat /\ \A k \in 1..m : \E i \in Calls : pos[i] = k
    BY DEF Chain, Numbered
  <2>5. \A i \in Calls : pos[i] # 1
    BY <2>2, <2>3 DEF Chain, FirstWaits
  <2>6. 1 \notin 1..m
    BY <2>4, <2>5
  <2>7. m = 0
    BY <2>4, <2>6
  <2> QED BY <1>2, <2>1, <2>7
<1>3. CASE IsTop(n, ServePoints)
  <2>1. stack[n] # <<>> /\ Serving(Head(stack[n]))
    BY <1>3 DEF IsTop, Serving
  <2>2. Head(stack[n]) = FrameAt(stack[n], Len(stack[n])) /\ Len(stack[n]) \in Nat \ {0}
    BY <1>1, <2>1, Popped
  <2>3. FrameAt(stack[n], Len(stack[n])).call \in Calls
    <3>1. Len(stack[n]) \in 1..Len(stack[n])
      BY <2>2
    <3> QED BY <1>1, <3>1, FrameType
  <2> QED BY <1>1, <2>1, <2>2, <2>3, TopServesLast
<1> QED BY <1>2, <1>3 DEF MayIssue

\* A request makes the chain longer.
LEMMA SynchChain ==
  ASSUME Blocking, ChainInv, PlaceInv', NEW n \in Nodes, NEW s \in Nodes, NEW i \in Calls,
         NEW k \in AllKinds, SynchRequest(n, s, i, k)
  PROVE  ChainInv'
<1> DEFINE f == [call |-> i, peer |-> s, kind |-> k, at |-> "sent"]
           d == Len(stack[n]) + 1
<1>1. /\ PlaceInv /\ TypeOK /\ TypeOK' /\ OneService
      /\ TakesOwn /\ OneWaits /\ ServiceWaited /\ SenderOrNone
  BY DEF ChainInv, PlaceInv
<1>2. PICK pos, m : Chain(pos, m)
  BY DEF ChainInv
<1>3. /\ MayIssue(n, s) /\ Send(n, s, i, k) /\ k # "async"
      /\ UNCHANGED <<replies, lastSender, result>>
      /\ stack' = [stack EXCEPT ![n] = Push(f, stack[n])]
  BY DEF SynchRequest, Push
<1>4. \A o \in Nodes : stack[o] \in Seq(Frame)
  BY <1>1 DEF TypeOK
<1>5. /\ f \in Frame /\ Waiting(f) /\ ~Serving(f) /\ f.call = i /\ f.peer = s
      /\ f.kind = k /\ f.at # "raised"
  BY DEF Frame, WaitPoints, ServePoints, Serving, Waiting
<1> HIDE DEF f
<1>6. stack'[n] = Push(f, stack[n]) /\ \A o \in Nodes : o # n => stack'[o] = stack[o]
  BY <1>1, <1>3, OneStack
<1>7. Grown(stack'[n], stack[n], f)
  BY <1>4, <1>5, <1>6, KeptSame, PushGrows
<1>8. /\ stage[i] = "unsent" /\ stage'[i] = "sent"
      /\ \A j \in Calls : j # i => stage'[j] = stage[j]
  BY <1>1, <1>3 DEF Send, TypeOK
<1>9. /\ m \in Nat /\ pos \in [Calls -> 0..m]
      /\ \A j, l \in Calls : pos[j] = pos[l] /\ pos[j] > 0 => j = l
      /\ \A l \in 1..m : \E j \in Calls : pos[j] = l
      /\ \A j \in Calls : pos[j] > 0 => stage[j] # "unsent"
  BY <1>2 DEF Chain, Numbered
<1>10. pos[i] = 0
  BY <1>8, <1>9
<1> DEFINE npos == [pos EXCEPT ![i] = m + 1]
<1>11. npos[i] = m + 1 /\ \A j \in Calls : j # i => npos[j] = pos[j]
  BY <1>9
<1>12. npos \in [Calls -> 0..(m + 1)]
  BY <1>9
<1> HIDE DEF npos
\* The frames there were are not of i.
<1>13. ASSUME NEW o \in Nodes, NEW h \in 1..Len(stack[o])
       PROVE  LET g == FrameAt(stack[o], h) IN
                /\ g.call \in Calls /\ g.call # i /\ npos[g.call] = pos[g.call]
                /\ pos[g.call] \in 1..m /\ g.peer \in Nodes
                /\ g.at # "raised" /\ g.kind # "async"
  <2>1. FrameAt(stack[o], h).call \in Calls /\ FrameAt(stack[o], h).peer \in Nodes
    BY <1>4, FrameType
  <2>2. /\ pos[FrameAt(stack[o], h).call] > 0 /\ FrameAt(stack[o], h).at # "raised"
        /\ FrameAt(stack[o], h).kind # "async"
    BY <1>2 DEF Chain, UnderWay
  <2>3. pos[FrameAt(stack[o], h).call] \in 1..m
    BY <1>9, <2>1, <2>2
  <2> QED BY <1>10, <1>11, <2>1, <2>2, <2>3
\* The frames there are.
<1>14. ASSUME NEW o \in Nodes, NEW h \in 1..Len(stack'[o])
       PROVE  \/ h \in 1..Len(stack[o]) /\ Alike(FrameAt(stack'[o], h), FrameAt(stack[o], h))
              \/ o = n /\ h = d /\ FrameAt(stack'[o], h) = f
  <2>1. CASE o = n
    <3>1. Len(stack'[n]) = Len(stack[n]) + 1 /\ Len(stack[n]) \in Nat
      BY <1>4, <1>7, LenProperties DEF Grown
    <3>2. h \in 1..Len(stack[n]) \/ h = d
      BY <2>1, <3>1
    <3> QED BY <1>7, <2>1, <3>2 DEF Grown, AlikeTo
  <2>2. CASE o # n
    BY <1>6, <2>2, KeptSame DEF Kept, AlikeTo
  <2> QED BY <2>1, <2>2
<1>15. \A o \in Nodes : \A t, j :
         Waits(stack'[o], t, j) <=> Waits(stack[o], t, j) \/ (o = n /\ t = s /\ j = i)
  <2> SUFFICES ASSUME NEW o \in Nodes, NEW t, NEW j
               PROVE  Waits(stack'[o], t, j) <=>
                        Waits(stack[o], t, j) \/ (o = n /\ t = s /\ j = i)
    OBVIOUS
  <2>1. CASE o = n
    BY <1>4, <1>5, <1>7, <2>1, WaitsGrown
  <2>2. CASE o # n
    BY <1>6, <2>2
  <2> QED BY <2>1, <2>2
<1>16. \A o \in Nodes : \A t : ~Waits(stack[o], t, i)
  BY <1>13 DEF Waits
<1>17. \/ m = 0 /\ stack[n] = <<>> /\ Root(n)
       \/ LET g == FrameAt(stack[n], Len(stack[n])) IN
            /\ stack[n] # <<>> /\ Len(stack[n]) \in Nat \ {0}
            /\ Serving(g) /\ pos[g.call] = m /\ m > 0 /\ g.call \in Calls
  BY <1>1, <1>2, <1>3, IssuerLast
<1>18. \A c, t \in Nodes : DOMAIN requests[c][t] = {} /\ DOMAIN replies[c][t] = {}
  <2>1. CASE m = 0
    BY <1>1, <1>2, <2>1, NothingOnItsWay
  <2>2. CASE m # 0
    <3> DEFINE h == Len(stack[n])
               j == FrameAt(stack[n], h).call
    <3>1. h \in Nat \ {0} /\ Serving(FrameAt(stack[n], h)) /\ pos[j] = m /\ j \in Calls
      BY <1>17, <2>2
    <3>2. h \in 1..Len(stack[n])
      BY <3>1
    <3>3. ServesAt(stack[n], h, j)
      BY <3>1, <3>2 DEF ServesAt
    <3> HIDE DEF h, j
    <3> QED BY <1>1, <1>2, <3>1, <3>3, NothingOnItsWay
  <2> QED BY <2>1, <2>2
<1> DEFINE len == m + 1
<1>19. Numbered(npos, len)'
  <2>1. len \in Nat
    BY <1>9
  <2>2. ASSUME NEW j \in Calls, NEW l \in Calls, npos[j] = npos[l], npos[j] > 0 PROVE j = l
    <3>1. CASE j = i \/ l = i
      BY <1>9, <1>11, <2>2, <3>1
    <3>2. CASE j # i /\ l # i
      BY <1>9, <1>11, <2>2, <3>2
    <3> QED BY <3>1, <3>2
  <2>3. ASSUME NEW l \in 1..len PROVE \E j \in Calls : npos[j] = l
    <3>1. CASE l = m + 1
      BY <1>11, <3>1
    <3>2. CASE l # m + 1
      <4>1. l \in 1..m
        BY <1>9, <3>2
      <4>2. PICK j \in Calls : pos[j] = l
        BY <1>9, <4>1
      <4>3. j # i
        BY <1>10, <4>1, <4>2
      <4> QED BY <1>11, <4>2, <4>3
    <3> QED BY <3>1, <3>2
  <2>4. ASSUME NEW j \in Calls, npos[j] > 0 PROVE stage'[j] # "unsent"
    BY <1>8, <1>9, <1>11, <2>4
  <2> HIDE DEF len
  <2>5. npos \in [Calls -> 0..len]
    BY <1>12 DEF len
  <2> QED BY <2>1, <2>2, <2>3, <2>4, <2>5 DEF Numbered
<1>20. Climbing(npos)'
  <2> SUFFICES ASSUME NEW o \in Nodes, NEW g \in 1..Len(stack'[o]), NEW h \in 1..Len(stack'[o]), g < h
               PROVE  Above(npos, FrameAt(stack'[o], h), FrameAt(stack'[o], g))
    BY DEF Climbing
  <2>1. CASE /\ g \in 1..Len(stack[o]) /\ Alike(FrameAt(stack'[o], g), FrameAt(stack[o], g))
             /\ h \in 1..Len(stack[o]) /\ Alike(FrameAt(stack'[o], h), FrameAt(stack[o], h))
    <3>1. Above(pos, FrameAt(stack[o], h), FrameAt(stack[o], g))
      BY <1>2, <2>1 DEF Chain, Climbing
    <3>2. /\ npos[FrameAt(stack[o], g).call] = pos[FrameAt(stack[o], g).call]
          /\ npos[FrameAt(stack[o], h).call] = pos[FrameAt(stack[o], h).call]
      BY <1>13, <2>1
    <3> QED BY <2>1, <3>1, <3>2 DEF Above, Alike
  <2>2. CASE /\ g \in 1..Len(stack[o]) /\ Alike(FrameAt(stack'[o], g), FrameAt(stack[o], g))
             /\ FrameAt(stack'[o], h) = f
    <3>1. npos[FrameAt(stack[o], g).call] \in 1..m
      BY <1>13, <2>2
    <3>2. npos[FrameAt(stack[o], g).call] < npos[i]
      BY <1>9, <1>11, <3>1
    <3> QED BY <1>5, <2>2, <3>2 DEF Above, Alike
  <2>3. CASE o = n /\ g = d
    <3>1. Len(stack'[n]) = d /\ Len(stack[n]) \in Nat
      BY <1>4, <1>7, LenProperties DEF Grown
    <3> QED BY <2>3, <3>1
  <2> QED BY <1>14, <2>1, <2>2, <2>3
<1>21. UnderWay(npos)'
  <2> SUFFICES ASSUME NEW o \in Nodes, NEW h \in 1..Len(stack'[o])
               PROVE  LET g == FrameAt(stack'[o], h) IN
                        g.at # "raised" /\ g.kind # "async" /\ npos[g.call] > 0
    BY DEF UnderWay
  <2>1. CASE h \in 1..Len(stack[o]) /\ Alike(FrameAt(stack'[o], h), FrameAt(stack[o], h))
    <3>1. /\ FrameAt(stack[o], h).at # "raised" /\ FrameAt(stack[o], h).kind # "async"
          /\ npos[FrameAt(stack[o], h).call] > 0
      BY <1>13, <2>1
    <3> QED BY <2>1, <3>1 DEF Alike
  <2>2. CASE FrameAt(stack'[o], h) = f
    BY <1>3, <1>5, <1>9, <1>11, <2>2
  <2> QED BY <1>14, <2>1, <2>2
<1>22. OneWaits'
  <2> SUFFICES ASSUME NEW a \in Nodes, NEW o \in Nodes, NEW t \in Nodes, NEW u \in Nodes, NEW j \in Calls,
                      Waits(stack'[a], t, j), Waits(stack'[o], u, j)
               PROVE  a = o
    BY DEF OneWaits
  <2>1. CASE j = i
    BY <1>15, <1>16, <2>1
  <2>2. CASE j # i
    <3>1. Waits(stack[a], t, j) /\ Waits(stack[o], u, j)
      BY <1>15, <2>2
    <3>2. OneWaits
      BY <1>1
    <3> QED BY <3>1, <3>2 DEF OneWaits
  <2> QED BY <2>1, <2>2
<1>23. FirstWaits(npos)'
  <2> SUFFICES ASSUME NEW j \in Calls, npos[j] = 1
               PROVE  \E c, t \in Nodes : Root(c) /\ Waits(stack'[c], t, j)
    BY DEF FirstWaits, Root
  <2>1. CASE j = i
    <3>1. m = 0
      BY <1>9, <1>11, <2>1
    <3>2. Root(n)
      BY <1>17, <3>1
    <3>3. Waits(stack'[n], s, j)
      BY <1>15, <2>1
    <3> QED BY <3>2, <3>3
  <2>2. CASE j # i
    <3>1. PICK c, t \in Nodes : Root(c) /\ Waits(stack[c], t, j)
      BY <1>2, <1>11, <2>2 DEF Chain, FirstWaits
    <3>2. Waits(stack'[c], t, j)
      BY <1>15, <3>1
    <3> QED BY <3>1, <3>2
  <2> QED BY <2>1, <2>2
<1>24. NextWaits(npos)'
  <2> SUFFICES ASSUME NEW o \in Nodes, NEW h \in 1..Len(stack'[o]), NEW j \in Calls,
                      Serving(FrameAt(stack'[o], h)),
                      npos[j] = npos[FrameAt(stack'[o], h).call] + 1
               PROVE  \E t \in Nodes : Waits(stack'[o], t, j)
    BY DEF NextWaits
  <2> DEFINE g == FrameAt(stack[o], h)
  <2>1. h \in 1..Len(stack[o]) /\ Alike(FrameAt(stack'[o], h), g)
    BY <1>5, <1>14
  <2>2. /\ Serving(g) /\ g.call \in Calls /\ pos[g.call] \in 1..m
        /\ npos[j] = pos[g.call] + 1
    BY <1>13, <2>1 DEF Alike
  <2>3. CASE j # i
    <3>1. pos[j] = pos[g.call] + 1
      BY <1>11, <2>2, <2>3
    <3>2. \E t \in Nodes : Waits(stack[o], t, j)
      BY <1>2, <2>1, <2>2, <3>1 DEF Chain, NextWaits
    <3> QED BY <1>15, <3>2
  <2>4. CASE j = i
    <3> DEFINE e == FrameAt(stack[n], Len(stack[n]))
    <3>1. pos[g.call] = m /\ m > 0
      BY <1>9, <1>11, <2>2, <2>4
    <3>2. /\ Serving(e) /\ pos[e.call] = m /\ e.call \in Calls
          /\ Len(stack[n]) \in Nat \ {0}
      BY <1>17, <3>1
    <3>3. e.call = g.call
      BY <1>9, <2>2, <3>1, <3>2
    <3>4. Len(stack[n]) \in 1..Len(stack[n])
      BY <3>2
    <3>5. ServesAt(stack[n], Len(stack[n]), e.call) /\ ServesAt(stack[o], h, g.call)
      BY <2>1, <2>2, <3>2, <3>4 DEF ServesAt
    <3> HIDE DEF e, g
    <3>6. h \in Nat
      BY <2>1
    <3>7. o = n
      BY <1>1, <2>2, <3>2, <3>3, <3>5, <3>6 DEF OneService
    <3> QED BY <1>15, <2>4, <3>7
  <2> QED BY <2>3, <2>4
<1>25. LastQueued(npos, len)'
  <2> SUFFICES ASSUME NEW c \in Nodes, NEW t \in Nodes, NEW p \in DOMAIN requests'[c][t]
               PROVE  /\ len > 0 /\ npos[requests'[c][t][p].call] = len
                      /\ requests'[c][t][p].kind # "async"
                      /\ Waits(stack'[c], t, requests'[c][t][p].call)
    BY DEF LastQueued
  <2>1. /\ c = n /\ t = s
        /\ requests'[c][t][p].call = i /\ requests'[c][t][p].kind = k
    BY <1>1, <1>3, <1>18, SendQueues
  <2> QED BY <1>3, <1>9, <1>11, <1>15, <2>1
<1>26. LastReplied(npos, len)'
  BY <1>3, <1>18 DEF LastReplied
<1>27. ServiceWaited'
  <2> SUFFICES ASSUME NEW o \in Nodes, NEW h \in 1..Len(stack'[o]), Serving(FrameAt(stack'[o], h))
               PROVE  Waits(stack'[FrameAt(stack'[o], h).peer], o, FrameAt(stack'[o], h).call)
    BY DEF ServiceWaited
  <2> DEFINE g == FrameAt(stack[o], h)
  <2>1. h \in 1..Len(stack[o]) /\ Alike(FrameAt(stack'[o], h), g)
    BY <1>5, <1>14
  <2>2. Serving(g) /\ g.peer \in Nodes
    BY <1>13, <2>1 DEF Alike
  <2>3. Waits(stack[g.peer], o, g.call)
    BY <1>1, <2>1, <2>2 DEF ServiceWaited
  <2>4. Waits(stack'[g.peer], o, g.call)
    BY <1>15, <2>2, <2>3
  <2> QED BY <2>1, <2>4 DEF Alike
<1>28. SenderOrNone'
  <2> SUFFICES ASSUME NEW o \in Nodes, NEW h \in 1..Len(stack'[o]), Serving(FrameAt(stack'[o], h)),
                      \A g \in 1..Len(stack'[o]) : h < g => Waiting(FrameAt(stack'[o], g))
               PROVE  lastSender'[o] \in {None, FrameAt(stack'[o], h).peer}
    BY DEF SenderOrNone
  <2>1. h \in 1..Len(stack[o]) /\ Alike(FrameAt(stack'[o], h), FrameAt(stack[o], h))
    BY <1>5, <1>14
  <2>2. ASSUME NEW g \in 1..Len(stack[o]), h < g PROVE Waiting(FrameAt(stack[o], g))
    <3>1. Len(stack[o]) \in Nat /\ Len(stack'[o]) \in {Len(stack[o]), Len(stack[o]) + 1}
      <4>1. Len(stack[o]) \in Nat
        BY <1>4, LenProperties
      <4> QED BY <1>6, <1>7, <4>1 DEF Grown
    <3>2. g \in 1..Len(stack'[o])
      BY <3>1
    <3>3. Alike(FrameAt(stack'[o], g), FrameAt(stack[o], g))
      <4>1. CASE o = n
        BY <1>7, <4>1 DEF Grown, AlikeTo
      <4>2. CASE o # n
        BY <1>6, <4>2, KeptSame DEF Kept, AlikeTo
      <4> QED BY <4>1, <4>2
    <3> QED BY <2>2, <3>2, <3>3 DEF Alike
  <2>3. lastSender[o] \in {None, FrameAt(stack[o], h).peer}
    BY <1>1, <2>1, <2>2 DEF SenderOrNone, Alike
  <2> QED BY <1>3, <2>1, <2>3 DEF Alike
<1>29. TakesOwn'
  BY <1>1, <1>3 DEF TakesOwn
<1> HIDE DEF len
<1>30. Chain(npos, len)'
  BY <1>19, <1>20, <1>21, <1>23, <1>24, <1>25, <1>26 DEF Chain
<1> QED BY <1>22, <1>27, <1>28, <1>29, <1>30 DEF ChainInv

\* The last call comes to be served.
LEMMA DispatchChain ==
  ASSUME ChainInv, PlaceInv', NEW n \in Nodes, NEW c \in Nodes, Dispatch(n, c)
  PROVE  ChainInv'
<1> DEFINE i == Head(requests[c][n]).call
           k == Head(requests[c][n]).kind
           f == [call |-> i, peer |-> c, kind |-> k, at |-> "running"]
           d == Len(stack[n]) + 1
<1>1. /\ PlaceInv /\ TypeOK /\ TypeOK' /\ InQueue /\ InService
      /\ TakesOwn /\ OneWaits /\ ServiceWaited /\ SenderOrNone
  BY DEF ChainInv, PlaceInv
<1>2. PICK pos, m : Chain(pos, m)
  BY DEF ChainInv
<1>3. /\ MayReact(n) /\ requests[c][n] # <<>>
      /\ UNCHANGED <<replies, result>>
      /\ requests' = [requests EXCEPT ![c][n] = Tail(requests[c][n])]
      /\ stage' = [stage EXCEPT ![i] = "serving"]
      /\ lastSender' = [lastSender EXCEPT ![n] = c]
      /\ stack' = [stack EXCEPT ![n] = Push(f, Reacted(stack[n]))]
  BY DEF Dispatch, SaveSender, Push
<1>4. \A o \in Nodes : stack[o] \in Seq(Frame)
  BY <1>1 DEF TypeOK
<1>5. requests[c][n] \in Seq(Request)
  BY <1>1, QueueElements
<1>6. /\ 1 \in DOMAIN requests[c][n] /\ i = requests[c][n][1].call /\ k = requests[c][n][1].kind
      /\ i \in Calls /\ k \in AllKinds
  BY <1>1, <1>3, <1>5, First, QueueElements
<1>7. m > 0 /\ pos[i] = m /\ k # "async" /\ Waits(stack[c], n, i) /\ stage[i] = "sent"
  BY <1>1, <1>2, <1>6 DEF Chain, LastQueued, InQueue
<1>8. /\ f \in Frame /\ ~Waiting(f) /\ Serving(f) /\ f.call = i /\ f.peer = c
      /\ f.kind = k /\ f.at # "raised"
  BY <1>6 DEF Frame, WaitPoints, ServePoints, Serving, Waiting
<1> HIDE DEF f, i, k
<1>9. stack'[n] = Push(f, Reacted(stack[n])) /\ \A o \in Nodes : o # n => stack'[o] = stack[o]
  BY <1>1, <1>3, OneStack
<1>10. Grown(stack'[n], stack[n], f)
  BY <1>1, <1>3, <1>4, <1>8, <1>9, ReactedKept, PushGrows
<1>11. stage'[i] = "serving" /\ \A j \in Calls : j # i => stage'[j] = stage[j]
  BY <1>1, <1>3, <1>6 DEF TypeOK
<1>12. /\ m \in Nat /\ pos \in [Calls -> 0..m]
       /\ \A j, l \in Calls : pos[j] = pos[l] /\ pos[j] > 0 => j = l
       /\ \A l \in 1..m : \E j \in Calls : pos[j] = l
       /\ \A j \in Calls : pos[j] > 0 => stage[j] # "unsent"
  BY <1>2 DEF Chain, Numbered
\* No service of i was there.
<1>13. ASSUME NEW o \in Nodes, NEW h \in 1..Len(stack[o])
       PROVE  LET g == FrameAt(stack[o], h) IN
                /\ g.call \in Calls /\ g.peer \in Nodes
                /\ pos[g.call] \in 1..m
                /\ g.at # "raised" /\ g.kind # "async"
                /\ g.call = i => Waiting(g)
  <2>1. /\ FrameAt(stack[o], h).call \in Calls /\ FrameAt(stack[o], h).peer \in Nodes
        /\ Waiting(FrameAt(stack[o], h)) <=> ~Serving(FrameAt(stack[o], h))
    BY <1>4, FrameType
  <2>2. /\ pos[FrameAt(stack[o], h).call] > 0 /\ FrameAt(stack[o], h).at # "raised"
        /\ FrameAt(stack[o], h).kind # "async"
    BY <1>2 DEF Chain, UnderWay
  <2>3. pos[FrameAt(stack[o], h).call] \in 1..m
    BY <1>12, <2>1, <2>2
  <2>4. ASSUME FrameAt(stack[o], h).call = i, Serving(FrameAt(stack[o], h)) PROVE FALSE
    <3>1. h \in Nat /\ ServesAt(stack[o], h, i)
      BY <2>4 DEF ServesAt
    <3> QED BY <1>1, <1>6, <1>7, <3>1 DEF InService
  <2> QED BY <2>1, <2>2, <2>3, <2>4
<1>14. ASSUME NEW o \in Nodes, NEW h \in 1..Len(stack'[o])
       PROVE  \/ h \in 1..Len(stack[o]) /\ Alike(FrameAt(stack'[o], h), FrameAt(stack[o], h))
              \/ o = n /\ h = d /\ FrameAt(stack'[o], h) = f
  <2>1. CASE o = n
    <3>1. Len(stack'[n]) = Len(stack[n]) + 1 /\ Len(stack[n]) \in Nat
      BY <1>4, <1>10, LenProperties DEF Grown
    <3>2. h \in 1..Len(stack[n]) \/ h = d
      BY <2>1, <3>1
    <3> QED BY <1>10, <2>1, <3>2 DEF Grown, AlikeTo
  <2>2. CASE o # n
    BY <1>9, <2>2, KeptSame DEF Kept, AlikeTo
  <2> QED BY <2>1, <2>2
<1>15. \A o \in Nodes : \A t, j : Waits(stack'[o], t, j) <=> Waits(stack[o], t, j)
  <2> SUFFICES ASSUME NEW o \in Nodes, NEW t, NEW j
               PROVE  Waits(stack'[o], t, j) <=> Waits(stack[o], t, j)
    OBVIOUS
  <2>1. CASE o = n
    BY <1>4, <1>8, <1>10, <2>1, WaitsGrown
  <2>2. CASE o # n
    BY <1>9, <2>2
  <2> QED BY <2>1, <2>2
<1>16. Numbered(pos, m)'
  <2>1. ASSUME NEW j \in Calls, pos[j] > 0 PROVE stage'[j] # "unsent"
    BY <1>11, <1>12, <2>1
  <2> QED BY <1>12, <2>1 DEF Numbered
<1>17. Climbing(pos)'
  <2> SUFFICES ASSUME NEW o \in Nodes, NEW g \in 1..Len(stack'[o]), NEW h \in 1..Len(stack'[o]), g < h
               PROVE  Above(pos, FrameAt(stack'[o], h), FrameAt(stack'[o], g))
    BY DEF Climbing
  <2>1. CASE /\ g \in 1..Len(stack[o]) /\ Alike(FrameAt(stack'[o], g), FrameAt(stack[o], g))
             /\ h \in 1..Len(stack[o]) /\ Alike(FrameAt(stack'[o], h), FrameAt(stack[o], h))
    <3>1. Above(pos, FrameAt(stack[o], h), FrameAt(stack[o], g))
      BY <1>2, <2>1 DEF Chain, Climbing
    <3> QED BY <2>1, <3>1 DEF Above, Alike
  <2>2. CASE /\ g \in 1..Len(stack[o]) /\ Alike(FrameAt(stack'[o], g), FrameAt(stack[o], g))
             /\ FrameAt(stack'[o], h) = f
    <3> DEFINE e == FrameAt(stack[o], g)
    <3>1. e.call \in Calls /\ pos[e.call] \in 1..m /\ (e.call = i => Waiting(e))
      BY <1>13, <2>2
    <3>2. CASE e.call = i
      BY <1>8, <2>2, <3>1, <3>2 DEF Above, Alike
    <3>3. CASE e.call # i
      <4>1. pos[e.call] # m
        BY <1>6, <1>7, <1>12, <3>1, <3>3
      <4>2. pos[e.call] < pos[i]
        BY <1>7, <1>12, <3>1, <4>1
      <4> QED BY <1>8, <2>2, <4>2 DEF Above, Alike
    <3> QED BY <3>2, <3>3
  <2>3. CASE o = n /\ g = d
    <3>1. Len(stack'[n]) = d /\ Len(stack[n]) \in Nat
      BY <1>4, <1>10, LenProperties DEF Grown
    <3> QED BY <2>3, <3>1
  <2> QED BY <1>14, <2>1, <2>2, <2>3
<1>18. UnderWay(pos)'
  <2> SUFFICES ASSUME NEW o \in Nodes, NEW h \in 1..Len(stack'[o])
               PROVE  LET g == FrameAt(stack'[o], h) IN
                        g.at # "raised" /\ g.kind # "async" /\ pos[g.call] > 0
    BY DEF UnderWay
  <2>1. CASE h \in 1..Len(stack[o]) /\ Alike(FrameAt(stack'[o], h), FrameAt(stack[o], h))
    <3>1. /\ FrameAt(stack[o], h).at # "raised" /\ FrameAt(stack[o], h).kind # "async"
          /\ pos[FrameAt(stack[o], h).call] > 0
      BY <1>13, <2>1
    <3> QED BY <2>1, <3>1 DEF Alike
  <2>2. CASE FrameAt(stack'[o], h) = f
    BY <1>7, <1>8, <2>2
  <2> QED BY <1>14, <2>1, <2>2
<1>19. OneWaits'
  BY <1>1, <1>15 DEF OneWaits
<1>20. FirstWaits(pos)'
  <2> SUFFICES ASSUME NEW j \in Calls, pos[j] = 1
               PROVE  \E b, t \in Nodes : Root(b) /\ Waits(stack'[b], t, j)
    BY DEF FirstWaits, Root
  <2>1. PICK b, t \in Nodes : Root(b) /\ Waits(stack[b], t, j)
    BY <1>2 DEF Chain, FirstWaits
  <2>2. Waits(stack'[b], t, j)
    BY <1>15, <2>1
  <2> QED BY <2>1, <2>2
<1>21. NextWaits(pos)'
  <2> SUFFICES ASSUME NEW o \in Nodes, NEW h \in 1..Len(stack'[o]), NEW j \in Calls,
                      Serving(FrameAt(stack'[o], h)),
                      pos[j] = pos[FrameAt(stack'[o], h).call] + 1
               PROVE  \E t \in Nodes : Waits(stack'[o], t, j)
    BY DEF NextWaits
  <2> DEFINE g == FrameAt(stack[o], h)
  <2>1. CASE h \in 1..Len(stack[o]) /\ Alike(FrameAt(stack'[o], h), g)
    <3>1. \E t \in Nodes : Waits(stack[o], t, j)
      BY <1>2, <2>1 DEF Chain, NextWaits, Alike
    <3> QED BY <1>15, <3>1
  <2>2. CASE FrameAt(stack'[o], h) = f
    <3>1. pos[j] = m + 1
      BY <1>7, <1>8, <2>2
    <3> QED BY <1>12, <3>1
  <2> QED BY <1>14, <2>1, <2>2
<1>22. LastQueued(pos, m)'
  <2> SUFFICES ASSUME NEW b \in Nodes, NEW t \in Nodes, NEW p \in DOMAIN requests'[b][t]
               PROVE  /\ m > 0 /\ pos[requests'[b][t][p].call] = m
                      /\ requests'[b][t][p].kind # "async"
                      /\ Waits(stack'[b], t, requests'[b][t][p].call)
    BY DEF LastQueued
  <2>1. \E q \in DOMAIN requests[b][t] : requests'[b][t][p] = requests[b][t][q]
    <3>1. requests \in [Nodes -> [Nodes -> Seq(Request)]]
      BY <1>1 DEF TypeOK
    <3>2. requests' = [requests EXCEPT ![c][n] = Tail(requests[c][n])] /\ requests[c][n] # <<>>
      BY <1>3
    <3>3. \/ p \in DOMAIN requests[b][t] /\ requests'[b][t][p] = requests[b][t][p]
          \/ p + 1 \in DOMAIN requests[b][t] /\ requests'[b][t][p] = requests[b][t][p + 1]
      BY <3>1, <3>2, TakenFrom
    <3> QED BY <3>3
  <2>2. PICK q \in DOMAIN requests[b][t] : requests'[b][t][p] = requests[b][t][q]
    BY <2>1
  <2>3. /\ m > 0 /\ pos[requests[b][t][q].call] = m
        /\ requests[b][t][q].kind # "async"
        /\ Waits(stack[b], t, requests[b][t][q].call)
    BY <1>2, <2>2 DEF Chain, LastQueued
  <2>4. Waits(stack'[b], t, requests[b][t][q].call)
    BY <1>15, <2>3
  <2> QED BY <2>2, <2>3, <2>4
<1>23. LastReplied(pos, m)'
  <2> SUFFICES ASSUME NEW b \in Nodes, NEW t \in Nodes, NEW p \in DOMAIN replies'[b][t]
               PROVE  m > 0 /\ pos[replies'[b][t][p]] = m /\ Waits(stack'[b], t, replies'[b][t][p])
    BY DEF LastReplied
  <2>1. p \in DOMAIN replies[b][t] /\ replies'[b][t][p] = replies[b][t][p]
    BY <1>3
  <2>2. m > 0 /\ pos[replies[b][t][p]] = m /\ Waits(stack[b], t, replies[b][t][p])
    BY <1>2, <2>1 DEF Chain, LastReplied
  <2> QED BY <1>15, <2>1, <2>2
<1>24. ServiceWaited'
  <2> SUFFICES ASSUME NEW o \in Nodes, NEW h \in 1..Len(stack'[o]), Serving(FrameAt(stack'[o], h))
               PROVE  Waits(stack'[FrameAt(stack'[o], h).peer], o, FrameAt(stack'[o], h).call)
    BY DEF ServiceWaited
  <2> DEFINE g == FrameAt(stack[o], h)
  <2>1. CASE h \in 1..Len(stack[o]) /\ Alike(FrameAt(stack'[o], h), g)
    <3>1. Serving(g) /\ g.peer \in Nodes
      BY <1>13, <2>1 DEF Alike
    <3>2. Waits(stack[g.peer], o, g.call)
      BY <1>1, <2>1, <3>1 DEF ServiceWaited
    <3>3. Waits(stack'[g.peer], o, g.call)
      BY <1>15, <3>1, <3>2
    <3> QED BY <2>1, <3>3 DEF Alike
  <2>2. CASE o = n /\ FrameAt(stack'[o], h) = f
    <3>1. Waits(stack'[c], n, i)
      BY <1>7, <1>15
    <3> QED BY <1>8, <2>2, <3>1
  <2> QED BY <1>14, <2>1, <2>2
<1>25. SenderOrNone'
  <2> SUFFICES ASSUME NEW o \in Nodes, NEW h \in 1..Len(stack'[o]), Serving(FrameAt(stack'[o], h)),
                      \A g \in 1..Len(stack'[o]) : h < g => Waiting(FrameAt(stack'[o], g))
               PROVE  lastSender'[o] \in {None, FrameAt(stack'[o], h).peer}
    BY DEF SenderOrNone
  <2>1. CASE o = n
    <3>1. d \in 1..Len(stack'[n]) /\ FrameAt(stack'[n], d) = f /\ Len(stack[n]) \in Nat
      BY <1>4, <1>10, LenProperties DEF Grown
    <3>2. ~(h < d)
      BY <1>8, <2>1, <3>1
    <3>3. FrameAt(stack'[n], h) = f
      BY <1>14, <2>1, <3>1, <3>2
    <3>4. lastSender'[n] = c
      BY <1>1, <1>3 DEF TypeOK
    <3> QED BY <1>8, <2>1, <3>3, <3>4
  <2>2. CASE o # n
    <3>1. stack'[o] = stack[o] /\ lastSender'[o] = lastSender[o]
      BY <1>1, <1>3, <1>9, <2>2 DEF TypeOK
    <3> QED BY <1>1, <3>1 DEF SenderOrNone
  <2> QED BY <2>1, <2>2
<1>26. TakesOwn'
  BY <1>1, <1>3 DEF TakesOwn
<1>27. Chain(pos, m)'
  BY <1>16, <1>17, <1>18, <1>20, <1>21, <1>22, <1>23 DEF Chain
<1> QED BY <1>19, <1>24, <1>25, <1>26, <1>27 DEF ChainInv

\* The service of the last call ends: nobody but its caller can be the last sender.
LEMMA ReplyChain ==
  ASSUME ChainInv, PlaceInv', NEW n \in Nodes, Reply(n)
  PROVE  ChainInv'
<1> DEFINE d == Len(stack[n])
           f == FrameAt(stack[n], d)
<1>1. /\ PlaceInv /\ TypeOK /\ TypeOK' /\ InQueue /\ InService /\ InReply /\ OneReply
      /\ TakesOwn /\ OneWaits /\ ServiceWaited /\ SenderOrNone
  BY DEF ChainInv, PlaceInv
<1>2. PICK pos, m : Chain(pos, m)
  BY DEF ChainInv
<1>3. \A o \in Nodes : stack[o] \in Seq(Frame)
  BY <1>1 DEF TypeOK
<1>4. /\ stack[n] # <<>> /\ Serving(Head(stack[n])) /\ HasReply(Head(stack[n]).kind)
      /\ SendReply(n, Head(stack[n]).call)
      /\ stage' = [stage EXCEPT ![Head(stack[n]).call] = "answered"]
      /\ stack' = [stack EXCEPT ![n] = Tail(stack[n])]
      /\ UNCHANGED <<requests, result>>
  BY DEF Reply, IsTop, Serving
<1>5. Head(stack[n]) = f /\ d \in Nat \ {0} /\ Shrunk(Tail(stack[n]), stack[n])
  BY <1>3, <1>4, PopShrinks
<1>6. d \in 1..d /\ f.call \in Calls /\ f.peer \in Nodes /\ Serving(f) /\ ~Waiting(f)
  BY <1>3, <1>4, <1>5, FrameType
<1> HIDE DEF f
<1>7. pos[f.call] = m /\ m > 0
  BY <1>1, <1>2, <1>4, <1>6, TopServesLast DEF f
<1>8. \A c, s \in Nodes : DOMAIN requests[c][s] = {} /\ DOMAIN replies[c][s] = {}
  <2>1. ServesAt(stack[n], d, f.call)
    BY <1>6 DEF ServesAt, f
  <2> HIDE DEF d
  <2> QED BY <1>1, <1>2, <1>5, <1>6, <1>7, <2>1, NothingOnItsWay
<1>9. Shrunk(stack'[n], stack[n]) /\ \A o \in Nodes : o # n => stack'[o] = stack[o]
  BY <1>1, <1>4, <1>5, OneStack
<1>10. /\ m \in Nat /\ pos \in [Calls -> 0..m]
       /\ \A j, l \in Calls : pos[j] = pos[l] /\ pos[j] > 0 => j = l
       /\ \A l \in 1..m : \E j \in Calls : pos[j] = l
       /\ \A j \in Calls : pos[j] > 0 => stage[j] # "unsent"
  BY <1>2 DEF Chain, Numbered
<1>11. stage'[f.call] = "answered" /\ \A j \in Calls : j # f.call => stage'[j] = stage[j]
  BY <1>1, <1>4, <1>5, <1>6 DEF TypeOK
<1>12. ASSUME NEW o \in Nodes, NEW h \in 1..Len(stack'[o])
       PROVE  /\ h \in 1..Len(stack[o])
              /\ Alike(FrameAt(stack'[o], h), FrameAt(stack[o], h))
              /\ FrameAt(stack[o], h).call \in Calls /\ FrameAt(stack[o], h).peer \in Nodes
  <2>1. CASE o = n
    <3>1. h \in 1..Len(stack[o])
      BY <1>5, <1>9, <2>1 DEF Shrunk
    <3>2. Alike(FrameAt(stack'[o], h), FrameAt(stack[o], h))
      BY <1>9, <2>1 DEF Shrunk, AlikeTo
    <3> QED BY <1>3, <3>1, <3>2, FrameType
  <2>2. CASE o # n
    <3>1. stack'[o] = stack[o]
      BY <1>9, <2>2
    <3> QED BY <1>3, <3>1, KeptSame, FrameType DEF Kept, AlikeTo
  <2> QED BY <2>1, <2>2
<1>13. \A o \in Nodes : \A t, j : Waits(stack'[o], t, j) <=> Waits(stack[o], t, j)
  <2> SUFFICES ASSUME NEW o \in Nodes, NEW t, NEW j
               PROVE  Waits(stack'[o], t, j) <=> Waits(stack[o], t, j)
    OBVIOUS
  <2>1. CASE o = n
    BY <1>3, <1>6, <1>9, <2>1, WaitsShrunk DEF f
  <2>2. CASE o # n
    BY <1>9, <2>2
  <2> QED BY <2>1, <2>2
<1>14. Numbered(pos, m)'
  <2>1. ASSUME NEW j \in Calls, pos[j] > 0 PROVE stage'[j] # "unsent"
    BY <1>10, <1>11, <2>1
  <2> QED BY <1>10, <2>1 DEF Numbered
<1>15. Climbing(pos)'
  <2> SUFFICES ASSUME NEW o \in Nodes, NEW g \in 1..Len(stack'[o]), NEW h \in 1..Len(stack'[o]), g < h
               PROVE  Above(pos, FrameAt(stack'[o], h), FrameAt(stack'[o], g))
    BY DEF Climbing
  <2>1. Above(pos, FrameAt(stack[o], h), FrameAt(stack[o], g))
    BY <1>2, <1>12 DEF Chain, Climbing
  <2> QED BY <1>12, <2>1 DEF Above, Alike
<1>16. UnderWay(pos)'
  <2> SUFFICES ASSUME NEW o \in Nodes, NEW h \in 1..Len(stack'[o])
               PROVE  LET g == FrameAt(stack'[o], h) IN
                        g.at # "raised" /\ g.kind # "async" /\ pos[g.call] > 0
    BY DEF UnderWay
  <2>1. /\ FrameAt(stack[o], h).at # "raised" /\ FrameAt(stack[o], h).kind # "async"
        /\ pos[FrameAt(stack[o], h).call] > 0
    BY <1>2, <1>12 DEF Chain, UnderWay
  <2> QED BY <1>12, <2>1 DEF Alike
<1>17. OneWaits'
  BY <1>1, <1>13 DEF OneWaits
<1>18. FirstWaits(pos)'
  <2> SUFFICES ASSUME NEW j \in Calls, pos[j] = 1
               PROVE  \E b, t \in Nodes : Root(b) /\ Waits(stack'[b], t, j)
    BY DEF FirstWaits, Root
  <2>1. PICK b, t \in Nodes : Root(b) /\ Waits(stack[b], t, j)
    BY <1>2 DEF Chain, FirstWaits
  <2>2. Waits(stack'[b], t, j)
    BY <1>13, <2>1
  <2> QED BY <2>1, <2>2
<1>19. NextWaits(pos)'
  <2> SUFFICES ASSUME NEW o \in Nodes, NEW h \in 1..Len(stack'[o]), NEW j \in Calls,
                      Serving(FrameAt(stack'[o], h)),
                      pos[j] = pos[FrameAt(stack'[o], h).call] + 1
               PROVE  \E t \in Nodes : Waits(stack'[o], t, j)
    BY DEF NextWaits
  <2>1. \E t \in Nodes : Waits(stack[o], t, j)
    BY <1>2, <1>12 DEF Chain, NextWaits, Alike
  <2> QED BY <1>13, <2>1
<1>20. LastQueued(pos, m)'
  BY <1>4, <1>8 DEF LastQueued
<1>21. LastReplied(pos, m)'
  <2> SUFFICES ASSUME NEW b \in Nodes, NEW t \in Nodes, NEW p \in DOMAIN replies'[b][t]
               PROVE  m > 0 /\ pos[replies'[b][t][p]] = m /\ Waits(stack'[b], t, replies'[b][t][p])
    BY DEF LastReplied
  <2>1. AddsReply(n, lastSender[n], Len(replies[lastSender[n]][n]) + 1, f.call)
    BY <1>1, <1>5, ReplyAdds
  <2>2. b = lastSender[n] /\ t = n /\ replies'[b][t][p] = f.call
    BY <1>8, <2>1 DEF AddsReply
  <2>3. lastSender[n] \in {None, f.peer}
    BY <1>1, <1>5, <1>6 DEF SenderOrNone, f
  <2>4. b = f.peer
    BY <2>2, <2>3, RpcAssumption
  <2>5. Waits(stack[f.peer], n, f.call)
    BY <1>1, <1>6 DEF ServiceWaited, f
  <2> QED BY <1>7, <1>13, <2>2, <2>4, <2>5
<1>22. ServiceWaited'
  <2> SUFFICES ASSUME NEW o \in Nodes, NEW h \in 1..Len(stack'[o]), Serving(FrameAt(stack'[o], h))
               PROVE  Waits(stack'[FrameAt(stack'[o], h).peer], o, FrameAt(stack'[o], h).call)
    BY DEF ServiceWaited
  <2> DEFINE g == FrameAt(stack[o], h)
  <2>1. Serving(g) /\ g.peer \in Nodes /\ h \in 1..Len(stack[o])
    BY <1>12 DEF Alike
  <2>2. Waits(stack[g.peer], o, g.call)
    BY <1>1, <2>1 DEF ServiceWaited
  <2>3. Waits(stack'[g.peer], o, g.call)
    BY <1>13, <2>1, <2>2
  <2> QED BY <1>12, <2>3 DEF Alike
<1>23. SenderOrNone'
  <2> SUFFICES ASSUME NEW o \in Nodes, NEW h \in 1..Len(stack'[o]), Serving(FrameAt(stack'[o], h)),
                      \A g \in 1..Len(stack'[o]) : h < g => Waiting(FrameAt(stack'[o], g))
               PROVE  lastSender'[o] \in {None, FrameAt(stack'[o], h).peer}
    BY DEF SenderOrNone
  <2>1. CASE o = n
    <3>1. lastSender'[n] = None
      BY <1>1, <1>4 DEF SendReply, TypeOK
    <3> QED BY <2>1, <3>1
  <2>2. CASE o # n
    <3>1. stack'[o] = stack[o] /\ lastSender'[o] = lastSender[o]
      BY <1>1, <1>4, <1>9, <2>2 DEF SendReply, TypeOK
    <3> QED BY <1>1, <3>1 DEF SenderOrNone
  <2> QED BY <2>1, <2>2
<1>24. TakesOwn'
  BY <1>1, <1>4 DEF TakesOwn
<1>25. Chain(pos, m)'
  BY <1>14, <1>15, <1>16, <1>18, <1>19, <1>20, <1>21 DEF Chain
<1> QED BY <1>17, <1>22, <1>23, <1>24, <1>25 DEF ChainInv

\* The reply that is found is the one waited for: the last call returns.
LEMMA ReceiveChain ==
  ASSUME ChainInv, PlaceInv', NEW n \in Nodes, ReceiveReply(n)
  PROVE  ChainInv'
<1> DEFINE d == Len(stack[n])
           f == FrameAt(stack[n], d)
<1>1. /\ PlaceInv /\ TypeOK /\ TypeOK' /\ InQueue /\ InService /\ InReply /\ OneReply
      /\ TakesOwn /\ OneWaits /\ ServiceWaited /\ SenderOrNone
  BY DEF ChainInv, PlaceInv
<1>2. PICK pos, m : Chain(pos, m)
  BY DEF ChainInv
<1>3. \A o \in Nodes : stack[o] \in Seq(Frame)
  BY <1>1 DEF TypeOK
<1>4. /\ stack[n] # <<>> /\ Waiting(Head(stack[n]))
      /\ replies[n][Head(stack[n]).peer] # <<>>
      /\ result' = [result EXCEPT ![Head(stack[n]).call] = Head(replies[n][Head(stack[n]).peer])]
      /\ replies' = [replies EXCEPT ![n][Head(stack[n]).peer] = Tail(replies[n][Head(stack[n]).peer])]
      /\ stack' = [stack EXCEPT ![n] = Tail(stack[n])]
      /\ UNCHANGED <<requests, lastSender, stage>>
  BY DEF ReceiveReply, Consume, IsTop, Waiting, WaitPoints
<1>5. Head(stack[n]) = f /\ d \in Nat \ {0} /\ Shrunk(Tail(stack[n]), stack[n])
  BY <1>3, <1>4, PopShrinks
<1>6. d \in 1..d /\ f.call \in Calls /\ f.peer \in Nodes /\ Waiting(f) /\ ~Serving(f)
  BY <1>3, <1>4, <1>5, FrameType
<1>7. PICK i \in Calls : f.call = i
  BY <1>6
<1>8. d \in 1..d /\ i \in Calls /\ f.call = i /\ f.peer \in Nodes /\ Waiting(f) /\ ~Serving(f)
  BY <1>6, <1>7
<1> HIDE DEF f
<1>9. replies[n][f.peer] \in Seq(Calls) /\ replies[n][f.peer] # <<>>
  BY <1>1, <1>4, <1>5, <1>8, QueueElements
<1>10. 1 \in DOMAIN replies[n][f.peer] /\ Head(replies[n][f.peer]) = replies[n][f.peer][1]
  BY <1>9, First
<1>11. PICK r \in Calls, s \in Nodes : replies[n][f.peer][1] = r /\ f.peer = s
  BY <1>1, <1>8, <1>10, QueueElements
<1>12. m > 0 /\ pos[r] = m /\ Waits(stack[n], s, r) /\ stage[r] = "answered"
  BY <1>1, <1>2, <1>10, <1>11 DEF Chain, LastReplied, InReply
<1>13. i = r
  <2>1. Waiting(FrameAt(stack[n], Len(stack[n]))) /\ FrameAt(stack[n], Len(stack[n])).call = i
    BY <1>8 DEF f
  <2>2. TypeOK /\ stack[n] # <<>> /\ Waits(stack[n], s, r) /\ pos[r] = m
    BY <1>1, <1>4, <1>12
  <2>3. FrameAt(stack[n], Len(stack[n])).call = r
    BY <1>2, <2>1, <2>2, TopWaitsLast
  <2> QED BY <2>1, <2>3
<1>14. m > 0 /\ pos[i] = m /\ stage[i] = "answered" /\ replies[n][f.peer][1] = i
  BY <1>12, <1>13, <1>11
<1>15. Shrunk(stack'[n], stack[n]) /\ \A o \in Nodes : o # n => stack'[o] = stack[o]
  BY <1>1, <1>4, <1>5, OneStack
<1>16. /\ m \in Nat /\ pos \in [Calls -> 0..m]
       /\ \A j, l \in Calls : pos[j] = pos[l] /\ pos[j] > 0 => j = l
       /\ \A l \in 1..m : \E j \in Calls : pos[j] = l
       /\ \A j \in Calls : pos[j] > 0 => stage[j] # "unsent"
  BY <1>2 DEF Chain, Numbered
<1> DEFINE npos == [pos EXCEPT ![i] = 0]
           len == m - 1
<1>17. npos[i] = 0 /\ \A j \in Calls : j # i => npos[j] = pos[j]
  BY <1>16, <1>8
<1>18. npos \in [Calls -> 0..len] /\ len \in Nat
  <2>1. len \in Nat
    BY <1>14, <1>16
  <2>2. ASSUME NEW j \in Calls PROVE npos[j] \in 0..len
    <3>1. CASE j = i
      BY <1>17, <2>1, <3>1
    <3>2. CASE j # i
      <4>1. pos[j] # m
        BY <1>8, <1>14, <1>16, <3>2
      <4>2. pos[j] \in 0..(m - 1)
        BY <1>16, <4>1
      <4> QED BY <1>17, <3>2, <4>2
    <3> QED BY <3>1, <3>2
  <2>3. DOMAIN npos = Calls
    BY <1>16
  <2>4. npos = [j \in Calls |-> npos[j]]
    BY <1>16
  <2> HIDE DEF npos, len
  <2> QED BY <2>1, <2>2, <2>4
<1> HIDE DEF npos
\* No frame but the one that goes is of i.
<1>19. ASSUME NEW o \in Nodes, NEW h \in 1..Len(stack'[o])
       PROVE  LET g == FrameAt(stack[o], h) IN
                /\ h \in 1..Len(stack[o])
                /\ Alike(FrameAt(stack'[o], h), g)
                /\ g.call \in Calls /\ g.peer \in Nodes /\ g.call # i
                /\ npos[g.call] = pos[g.call]
  <2> DEFINE g == FrameAt(stack[o], h)
  <2>1. h \in 1..Len(stack[o]) /\ Alike(FrameAt(stack'[o], h), g) /\ (o = n => h < d)
    <3>1. CASE o = n
      <4>1. h \in 1..Len(stack[o]) /\ h < d
        BY <1>5, <1>15, <3>1 DEF Shrunk
      <4>2. Alike(FrameAt(stack'[o], h), FrameAt(stack[o], h))
        BY <1>15, <3>1 DEF Shrunk, AlikeTo
      <4> QED BY <4>1, <4>2
    <3>2. CASE o # n
      <4>1. stack'[o] = stack[o]
        BY <1>15, <3>2
      <4> QED BY <3>2, <4>1, KeptSame DEF Kept, AlikeTo
    <3> QED BY <3>1, <3>2
  <2>2. g.call \in Calls /\ g.peer \in Nodes /\ (Waiting(g) <=> ~Serving(g))
    BY <1>3, <2>1, FrameType
  <2> HIDE DEF g
  <2>3. ASSUME g.call = i PROVE FALSE
    <3>1. CASE Serving(g)
      <4>1. h \in Nat /\ ServesAt(stack[o], h, i)
        BY <2>1, <2>3, <3>1 DEF ServesAt, g
      <4>2. stage[i] = "serving"
        BY <1>1, <1>8, <4>1 DEF InService
      <4> QED BY <1>14, <4>2
    <3>2. CASE Waiting(g)
      <4>1. Waits(stack[o], g.peer, i)
        BY <2>1, <2>3, <3>2 DEF Waits, g
      <4>2. Waits(stack[n], f.peer, i)
        BY <1>12, <1>13, <1>11
      <4>3. o = n
        BY <1>1, <1>8, <2>2, <4>1, <4>2 DEF OneWaits
      <4>4. Above(pos, f, g)
        BY <1>2, <1>8, <2>1, <4>3 DEF Chain, Climbing, f, g
      <4>5. pos[i] < pos[i]
        BY <1>8, <2>3, <4>4 DEF Above
      <4> QED BY <1>14, <1>16, <4>5
    <3> QED BY <2>2, <3>1, <3>2
  <2> QED BY <1>17, <2>1, <2>2, <2>3 DEF g
<1>20. ASSUME NEW o \in Nodes, NEW t, NEW j
       PROVE  /\ Waits(stack'[o], t, j) => Waits(stack[o], t, j)
              /\ j # i /\ Waits(stack[o], t, j) => Waits(stack'[o], t, j)
  <2>1. CASE o = n
    <3>1. /\ Waits(stack'[n], t, j) => Waits(stack[n], t, j)
          /\ Waits(stack[n], t, j) =>
               \/ Waits(stack'[n], t, j)
               \/ Waiting(f) /\ f.peer = t /\ f.call = j
      BY <1>3, <1>15, WaitsShrunk DEF f
    <3> QED BY <1>8, <2>1, <3>1
  <2>2. CASE o # n
    BY <1>15, <2>2
  <2> QED BY <2>1, <2>2
<1>21. Numbered(npos, len)'
  <2>1. ASSUME NEW j \in Calls, NEW l \in Calls, npos[j] = npos[l], npos[j] > 0 PROVE j = l
    <3>1. j # i /\ l # i
      BY <1>17, <2>1
    <3> QED BY <1>16, <1>17, <2>1, <3>1
  <2>2. ASSUME NEW l \in 1..len PROVE \E j \in Calls : npos[j] = l
    <3>1. l \in 1..m /\ l # m
      BY <1>16
    <3>2. PICK j \in Calls : pos[j] = l
      BY <1>16, <3>1
    <3>3. j # i
      BY <1>14, <3>1, <3>2
    <3> QED BY <1>17, <3>2, <3>3
  <2>3. ASSUME NEW j \in Calls, npos[j] > 0 PROVE stage'[j] # "unsent"
    <3>1. j # i
      BY <1>17, <2>3
    <3> QED BY <1>4, <1>16, <1>17, <2>3, <3>1
  <2> HIDE DEF len
  <2> QED BY <1>18, <2>1, <2>2, <2>3 DEF Numbered
<1> HIDE DEF len
<1>22. Climbing(npos)'
  <2> SUFFICES ASSUME NEW o \in Nodes, NEW g \in 1..Len(stack'[o]), NEW h \in 1..Len(stack'[o]), g < h
               PROVE  Above(npos, FrameAt(stack'[o], h), FrameAt(stack'[o], g))
    BY DEF Climbing
  <2>1. Above(pos, FrameAt(stack[o], h), FrameAt(stack[o], g))
    BY <1>2, <1>19 DEF Chain, Climbing
  <2> QED BY <1>19, <2>1 DEF Above, Alike
<1>23. UnderWay(npos)'
  <2> SUFFICES ASSUME NEW o \in Nodes, NEW h \in 1..Len(stack'[o])
               PROVE  LET g == FrameAt(stack'[o], h) IN
                        g.at # "raised" /\ g.kind # "async" /\ npos[g.call] > 0
    BY DEF UnderWay
  <2>1. /\ FrameAt(stack[o], h).at # "raised" /\ FrameAt(stack[o], h).kind # "async"
        /\ pos[FrameAt(stack[o], h).call] > 0
    BY <1>2, <1>19 DEF Chain, UnderWay
  <2> QED BY <1>19, <2>1 DEF Alike
<1>24. OneWaits'
  <2> SUFFICES ASSUME NEW a \in Nodes, NEW o \in Nodes, NEW t \in Nodes, NEW u \in Nodes, NEW j \in Calls,
                      Waits(stack'[a], t, j), Waits(stack'[o], u, j)
               PROVE  a = o
    BY DEF OneWaits
  <2>1. Waits(stack[a], t, j) /\ Waits(stack[o], u, j)
    BY <1>20
  <2>2. OneWaits
    BY <1>1
  <2> QED BY <2>1, <2>2 DEF OneWaits
<1>25. FirstWaits(npos)'
  <2> SUFFICES ASSUME NEW j \in Calls, npos[j] = 1
               PROVE  \E b, t \in Nodes : Root(b) /\ Waits(stack'[b], t, j)
    BY DEF FirstWaits, Root
  <2>1. j # i /\ pos[j] = 1
    BY <1>17
  <2>2. PICK b, t \in Nodes : Root(b) /\ Waits(stack[b], t, j)
    BY <1>2, <2>1 DEF Chain, FirstWaits
  <2>3. Waits(stack'[b], t, j)
    BY <1>20, <2>1, <2>2
  <2> QED BY <2>2, <2>3
<1>26. NextWaits(npos)'
  <2> SUFFICES ASSUME NEW o \in Nodes, NEW h \in 1..Len(stack'[o]), NEW j \in Calls,
                      Serving(FrameAt(stack'[o], h)),
                      npos[j] = npos[FrameAt(stack'[o], h).call] + 1
               PROVE  \E t \in Nodes : Waits(stack'[o], t, j)
    BY DEF NextWaits
  <2> DEFINE g == FrameAt(stack[o], h)
  <2>1. /\ h \in 1..Len(stack[o]) /\ Serving(g) /\ g.call \in Calls
        /\ npos[j] = pos[g.call] + 1 /\ pos[g.call] \in Nat
    BY <1>16, <1>19 DEF Alike
  <2>2. j # i
    BY <1>17, <2>1
  <2>3. \E t \in Nodes : Waits(stack[o], t, j)
    BY <1>2, <1>17, <2>1, <2>2 DEF Chain, NextWaits
  <2> QED BY <1>20, <2>2, <2>3
<1>27. LastQueued(npos, len)'
  <2> SUFFICES ASSUME NEW b \in Nodes, NEW t \in Nodes, NEW p \in DOMAIN requests[b][t] PROVE FALSE
    BY <1>4 DEF LastQueued
  <2>1. /\ requests[b][t][p].call \in Calls /\ pos[requests[b][t][p].call] = m
        /\ stage[requests[b][t][p].call] = "sent"
    BY <1>1, <1>2, QueueElements DEF Chain, LastQueued, InQueue
  <2>2. requests[b][t][p].call = i
    BY <1>8, <1>14, <1>16, <2>1
  <2> QED BY <1>14, <2>1, <2>2
<1>28. LastReplied(npos, len)'
  <2> SUFFICES ASSUME NEW b \in Nodes, NEW t \in Nodes, NEW p \in DOMAIN replies'[b][t] PROVE FALSE
    BY DEF LastReplied
  <2>1. PICK q \in DOMAIN replies[b][t] : ~(b = n /\ t = f.peer /\ q = 1)
    <3>1. replies \in [Nodes -> [Nodes -> Seq(Calls)]]
      BY <1>1 DEF TypeOK
    <3>2. replies' = [replies EXCEPT ![n][s] = Tail(replies[n][s])] /\ replies[n][s] # <<>>
      BY <1>4, <1>5, <1>9, <1>11
    <3>3. \/ ~(b = n /\ t = s) /\ p \in DOMAIN replies[b][t]
          \/ p + 1 # 1 /\ p + 1 \in DOMAIN replies[b][t]
      BY <3>1, <3>2, TakenFrom
    <3> QED BY <1>11, <3>3
  <2>2. replies[b][t][q] \in Calls /\ pos[replies[b][t][q]] = m
    BY <1>1, <1>2, QueueElements DEF Chain, LastReplied
  <2>3. replies[b][t][q] = i
    BY <1>8, <1>14, <1>16, <2>2
  <2>4. OneReply
    BY <1>1
  <2> QED BY <1>8, <1>10, <1>14, <2>1, <2>3, <2>4 DEF OneReply
<1>29. ServiceWaited'
  <2> SUFFICES ASSUME NEW o \in Nodes, NEW h \in 1..Len(stack'[o]), Serving(FrameAt(stack'[o], h))
               PROVE  Waits(stack'[FrameAt(stack'[o], h).peer], o, FrameAt(stack'[o], h).call)
    BY DEF ServiceWaited
  <2> DEFINE g == FrameAt(stack[o], h)
  <2>1. Serving(g) /\ g.peer \in Nodes /\ h \in 1..Len(stack[o]) /\ g.call # i
    BY <1>19 DEF Alike
  <2>2. Waits(stack[g.peer], o, g.call)
    BY <1>1, <2>1 DEF ServiceWaited
  <2>3. Waits(stack'[g.peer], o, g.call)
    BY <1>20, <2>1, <2>2
  <2> QED BY <1>19, <2>3 DEF Alike
<1>30. SenderOrNone'
  <2> SUFFICES ASSUME NEW o \in Nodes, NEW h \in 1..Len(stack'[o]), Serving(FrameAt(stack'[o], h)),
                      \A g \in 1..Len(stack'[o]) : h < g => Waiting(FrameAt(stack'[o], g))
               PROVE  lastSender'[o] \in {None, FrameAt(stack'[o], h).peer}
    BY DEF SenderOrNone
  <2>1. ASSUME NEW g \in 1..Len(stack[o]), h < g PROVE Waiting(FrameAt(stack[o], g))
    <3>1. CASE g \in 1..Len(stack'[o])
      BY <1>19, <2>1, <3>1 DEF Alike
    <3>2. CASE g \notin 1..Len(stack'[o])
      <4>1. o = n
        BY <1>15, <3>2
      <4>2. Len(stack'[n]) = d - 1
        BY <1>15 DEF Shrunk
      <4>3. g = d
        BY <1>5, <3>2, <4>1, <4>2
      <4> QED BY <1>8, <4>1, <4>3 DEF f
    <3> QED BY <3>1, <3>2
  <2>2. lastSender[o] \in {None, FrameAt(stack[o], h).peer}
    BY <1>1, <1>19, <2>1 DEF SenderOrNone, Alike
  <2> QED BY <1>4, <1>19, <2>2 DEF Alike
<1>31. TakesOwn'
  <2> SUFFICES ASSUME NEW j \in Calls PROVE result'[j] \in {None, j}
    BY DEF TakesOwn
  <2>1. CASE j = i
    BY <1>1, <1>4, <1>5, <1>8, <1>10, <1>14, <2>1 DEF TypeOK
  <2>2. CASE j # i
    <3>1. result'[j] = result[j]
      BY <1>1, <1>4, <1>5, <1>8, <2>2 DEF TypeOK
    <3>2. TakesOwn
      BY <1>1
    <3> QED BY <3>1, <3>2 DEF TakesOwn
  <2> QED BY <2>1, <2>2
<1>32. Chain(npos, len)'
  BY <1>21, <1>22, <1>23, <1>25, <1>26, <1>27, <1>28 DEF Chain
<1> QED BY <1>24, <1>29, <1>30, <1>31, <1>32 DEF ChainInv

\* No service is asynchronous, nor left by an exception.
LEMMA ServiceReplies ==
  ASSUME ChainInv, NEW n \in Nodes, IsTop(n, ServePoints)
  PROVE  Head(stack[n]).kind \in {"sync", "management"} /\ Head(stack[n]).at # "raised"
<1>1. stack[n] \in Seq(Frame) /\ stack[n] # <<>>
  BY DEF ChainInv, PlaceInv, TypeOK, IsTop
<1>2. Head(stack[n]) = FrameAt(stack[n], Len(stack[n])) /\ Len(stack[n]) \in Nat \ {0}
  BY <1>1, PopShrinks
<1>3. Len(stack[n]) \in 1..Len(stack[n])
  BY <1>2
<1>4. FrameAt(stack[n], Len(stack[n])) \in Frame
  BY <1>1, <1>3, FrameType
<1>5. PICK pos, m : Chain(pos, m)
  BY DEF ChainInv
<1> QED BY <1>2, <1>3, <1>4, <1>5 DEF Chain, UnderWay, Frame, AllKinds

LEMMA ChainNext ==
  ASSUME Blocking, ChainInv, [Next]_vars
  PROVE  ChainInv'
<1>1. PlaceInv /\ TypeOK /\ TypeOK' /\ PlaceInv'
  BY PlaceNext DEF ChainInv, PlaceInv
<1>2. \A o \in Nodes : stack[o] \in Seq(Frame)
  BY <1>1 DEF TypeOK
<1>3. ASSUME NEW n \in Nodes, IsTop(n, ServePoints)
      PROVE  Head(stack[n]).kind \in {"sync", "management"} /\ Head(stack[n]).at # "raised"
  BY <1>3, ServiceReplies
<1>4. ASSUME NEW n \in Nodes, NEW s \in Nodes, NEW i \in Calls, AsynchRequest(n, s, i) PROVE ChainInv'
  <2>1. "async" \in Kinds
    BY <1>4 DEF AsynchRequest, Send
  <2> QED BY <2>1 DEF Blocking
<1>5. ASSUME NEW n \in Nodes, NEW s \in Nodes, NEW i \in Calls, NEW k \in AllKinds,
             SynchRequest(n, s, i, k)
      PROVE  ChainInv'
  BY <1>1, <1>5, SynchChain
<1>6. ASSUME NEW n \in Nodes, NoReplyYet(n) PROVE ChainInv'
  <2>1. /\ IsTop(n, {"sent", "checked"}) /\ stack' = [stack EXCEPT ![n] = KeepWaiting(stack[n])]
        /\ UNCHANGED <<requests, replies, lastSender, stage, result>>
    BY <1>6 DEF NoReplyYet
  <2>2. stack[n] # <<>> /\ Waiting(Head(stack[n])) /\ "reacting" \in WaitPoints
    BY <2>1 DEF IsTop, Waiting, WaitPoints
  <2>3. Kept(KeepWaiting(stack[n]), stack[n])
    BY <1>2, <2>2, TopMoves DEF KeepWaiting
  <2>4. \A o \in Nodes : Kept(stack'[o], stack[o])
    <3>1. stack'[n] = KeepWaiting(stack[n]) /\ \A o \in Nodes : o # n => stack'[o] = stack[o]
      BY <1>1, <2>1, OneStack
    <3> QED BY <2>3, <3>1, KeptSame
  <2> QED BY <1>1, <2>1, <2>4, KeptStep
<1>7. ASSUME NEW n \in Nodes, NothingToReact(n) PROVE ChainInv'
  <2>1. /\ IsTop(n, {"reacting"}) /\ stack' = [stack EXCEPT ![n] = Reacted(stack[n])]
        /\ UNCHANGED <<requests, replies, stage, result>>
    BY <1>7 DEF NothingToReact
  <2>2. Kept(Reacted(stack[n]), stack[n])
    BY <1>1, <2>1, ReactedKept DEF MayReact
  <2>3. \A o \in Nodes : Kept(stack'[o], stack[o])
    <3>1. stack'[n] = Reacted(stack[n]) /\ \A o \in Nodes : o # n => stack'[o] = stack[o]
      BY <1>1, <2>1, OneStack
    <3> QED BY <2>2, <3>1, KeptSame
  <2>4. \A o \in Nodes : lastSender'[o] \in {None, lastSender[o]}
    BY <1>1, <1>7 DEF NothingToReact, LoseSender, TypeOK
  <2> QED BY <1>1, <2>1, <2>3, <2>4, KeptStep
<1>8. ASSUME NEW n \in Nodes, ReplyTimeout(n) PROVE ChainInv'
  <2>1. timeouts \in 0..0 /\ timeouts < 0
    BY <1>1, <1>8 DEF ReplyTimeout, Blocking, TypeOK
  <2> QED BY <2>1
<1>9. ASSUME NEW n \in Nodes, ReturnNothing(n) PROVE ChainInv'
  BY <1>3, <1>9 DEF ReturnNothing, HasReply
<1>10. ASSUME NEW n \in Nodes, Throw(n) PROVE ChainInv'
  <2>1. Head(stack[n]).at = "raised"
    BY <1>10 DEF Throw, Blocking
  <2>2. IsTop(n, ServePoints)
    BY <1>10 DEF Throw
  <2> QED BY <1>3, <2>1, <2>2
<1>11. CASE UNCHANGED vars
  <2>1. UNCHANGED <<requests, replies, lastSender, stage, result>> /\ stack' = stack
    BY <1>11 DEF vars
  <2>2. \A o \in Nodes : Kept(stack'[o], stack[o])
    BY <2>1, KeptSame
  <2> QED BY <1>1, <2>1, <2>2, KeptStep
<1>12. ASSUME NEW n \in Nodes, ReceiveReply(n) PROVE ChainInv'
  BY <1>1, <1>12, ReceiveChain
<1>13. ASSUME NEW n \in Nodes, NEW c \in Nodes, Dispatch(n, c) PROVE ChainInv'
  BY <1>1, <1>13, DispatchChain
<1>14. ASSUME NEW n \in Nodes, Reply(n) PROVE ChainInv'
  BY <1>1, <1>14, ReplyChain
<1> QED
  BY <1>4, <1>5, <1>6, <1>7, <1>8, <1>9, <1>10, <1>11, <1>12, <1>13, <1>14 DEF Next, Issue, Step

LEMMA ChainAlways ==
  ASSUME Blocking
  PROVE  Spec => []ChainInv
<1>1. Init => ChainInv
  BY ChainInit
<1>2. ChainInv /\ [Next]_vars => ChainInv'
  BY ChainNext
<1> QED BY <1>1, <1>2, PTL DEF Spec

-----------------------------------------------------------------------------
(* The theorems.                                                           *)

LEMMA WaitsAwaited ==
  ASSUME NEW n \in Nodes, stack[n] \in Seq(Frame), NEW s, NEW i, Waits(stack[n], s, i)
  PROVE  /\ Awaits(n, i)
         /\ \E d \in DOMAIN stack[n] :
              Waiting(stack[n][d]) /\ stack[n][d].peer = s /\ stack[n][d].call = i
<1>1. PICK h \in 1..Len(stack[n]) :
        /\ Waiting(FrameAt(stack[n], h))
        /\ FrameAt(stack[n], h).peer = s /\ FrameAt(stack[n], h).call = i
  BY DEF Waits
<1>2. Len(stack[n]) \in Nat /\ DOMAIN stack[n] = 1..Len(stack[n])
  BY LenProperties
<1>3. Len(stack[n]) + 1 - h \in DOMAIN stack[n]
  BY <1>2
<1> QED BY <1>1, <1>3 DEF FrameAt, Awaits

\* However deep services call on, and back to nodes that wait, a call takes its own
\* reply: handleSynchRequest may take what comes next on the connector, as long as one
\* application starts the calls and all are waited for.
THEOREM ChainOwnReplies ==
  ASSUME Blocking
  PROVE  Spec => []OwnReply
<1>1. ChainInv => OwnReply
  BY RpcAssumption DEF ChainInv, TakesOwn, OwnReply
<1> QED BY <1>1, ChainAlways, PTL

\* In that regime a service runs only for a call its client waits on.
THEOREM ChainServesWaiters ==
  ASSUME Blocking
  PROVE  Spec => []ServedForWaiter
<1>1. ASSUME ChainInv PROVE ServedForWaiter
  <2> SUFFICES ASSUME NEW s \in Nodes, NEW d \in DOMAIN stack[s], Serving(stack[s][d])
               PROVE  Awaits(stack[s][d].peer, stack[s][d].call)
    BY DEF ServedForWaiter
  <2>1. \A n \in Nodes : stack[n] \in Seq(Frame)
    BY <1>1 DEF ChainInv, PlaceInv, TypeOK
  <2>2. Len(stack[s]) \in Nat /\ DOMAIN stack[s] = 1..Len(stack[s])
    BY <2>1, LenProperties
  <2>3. PICK h \in 1..Len(stack[s]) : d = Len(stack[s]) + 1 - h
    <3>1. Len(stack[s]) + 1 - d \in 1..Len(stack[s])
      BY <2>2
    <3>2. d = Len(stack[s]) + 1 - (Len(stack[s]) + 1 - d)
      BY <2>2
    <3> QED BY <3>1, <3>2
  <2>4. FrameAt(stack[s], h) = stack[s][d]
    BY <2>3 DEF FrameAt
  <2>5. Waits(stack[stack[s][d].peer], s, stack[s][d].call)
    BY <1>1, <2>4 DEF ChainInv, ServiceWaited
  <2>6. stack[s][d].peer \in Nodes
    BY <2>1, <2>4, FrameType
  <2> QED BY <2>1, <2>5, <2>6, WaitsAwaited
<1> QED BY <1>1, ChainAlways, PTL

\* In that regime no reply is under way that its client does not wait for at the
\* server it comes from.
THEOREM ChainRepliesAwaited ==
  ASSUME Blocking
  PROVE  Spec => []RepliesAwaited
<1>1. ASSUME ChainInv PROVE RepliesAwaited
  <2> SUFFICES ASSUME NEW c \in Nodes, NEW s \in Nodes, NEW k \in DOMAIN replies[c][s]
               PROVE  \E d \in DOMAIN stack[c] :
                        /\ Waiting(stack[c][d])
                        /\ stack[c][d].peer = s
                        /\ stack[c][d].call = replies[c][s][k]
    BY DEF RepliesAwaited
  <2>1. stack[c] \in Seq(Frame)
    BY <1>1 DEF ChainInv, PlaceInv, TypeOK
  <2>2. Waits(stack[c], s, replies[c][s][k])
    BY <1>1 DEF ChainInv, Chain, LastReplied
  <2> QED BY <2>1, <2>2, WaitsAwaited
<1> QED BY <1>1, ChainAlways, PTL

LEMMA ChainPhase ==
  ASSUME Blocking, ChainInv, [Next]_vars
  PROVE  [Calling!Next]_([i \in Calls |-> Phase(i)])
<1>1. /\ TypeOK /\ InQueue /\ InService /\ InReply /\ InResult /\ ReplyTakenOnce /\ TakesOwn
      /\ \A n \in Nodes : stack[n] \in Seq(Frame)
  BY DEF ChainInv, PlaceInv, TypeOK
<1>2. OverWhenAnswered
  BY <1>1 DEF InResult, TakesOwn, OverWhenAnswered
<1>3. ASSUME UNCHANGED <<stage, result>> PROVE UNCHANGED [i \in Calls |-> Phase(i)]
  BY <1>3 DEF Phase
<1>4. ASSUME NEW n \in Nodes, Issue(n) PROVE Calling!Next
  BY <1>1, <1>2, <1>4, MakePhase DEF Issue, AsynchRequest, SynchRequest
<1>5. ASSUME NEW n \in Nodes, NEW c \in Nodes, Dispatch(n, c) PROVE Calling!Next
  <2> DEFINE q == requests[c][n]
  <2>1. q \in Seq(Request) /\ q # <<>>
    BY <1>1, <1>5, QueueElements DEF Dispatch
  <2>2. 1 \in DOMAIN q /\ Head(q) = q[1] /\ Head(q).call \in Calls
    BY <1>1, <2>1, First, QueueElements
  <2> PICK i \in Calls : i = Head(q).call
    BY <2>2
  <2>3. stage[i] = "sent"
    BY <1>1, <2>2 DEF InQueue
  <2>4. stage' = [stage EXCEPT ![i] = "serving"] /\ result' = result
    BY <1>5 DEF Dispatch
  <2> QED BY <1>1, <1>2, <2>3, <2>4, BeginPhase
\* The reply that is taken is the call's own, and it had none.
<1>6. ASSUME NEW n \in Nodes, ReceiveReply(n) PROVE Calling!Next
  <2> DEFINE f == Head(stack[n])
             q == replies[n][f.peer]
  <2>1. /\ f.call \in Calls /\ f.peer \in Nodes /\ q # <<>>
        /\ result' = [result EXCEPT ![f.call] = Head(q)] /\ stage' = stage
    BY <1>1, <1>6, TopFrame DEF ReceiveReply
  <2>2. q \in Seq(Calls)
    BY <1>1, <2>1, QueueElements
  <2>3. 1 \in DOMAIN q /\ Head(q) = q[1] /\ q[1] \in Calls
    BY <1>1, <2>1, <2>2, First, QueueElements
  <2> HIDE DEF f
  <2>4. result'[f.call] = q[1]
    BY <1>1, <2>1, <2>3 DEF TypeOK
  <2>5. TakesOwn'
    BY ChainNext DEF ChainInv
  <2>6. q[1] = f.call
    BY <2>1, <2>3, <2>4, <2>5, RpcAssumption DEF TakesOwn
  <2> PICK i \in Calls : i = f.call
    BY <2>1
  <2>7. stage[i] = "answered"
    BY <1>1, <2>1, <2>3, <2>6 DEF InReply
  <2>8. result[i] # i
    BY <1>1, <2>1, <2>3, <2>6 DEF ReplyTakenOnce
  <2>9. result[i] = None
    BY <1>1, <2>8 DEF TakesOwn
  <2>10. result' = [result EXCEPT ![i] = i] /\ stage' = stage
    BY <2>1, <2>3, <2>6
  <2> QED BY <1>1, <2>7, <2>9, <2>10, ReturnPhase
<1>7. ASSUME NEW n \in Nodes, Reply(n) PROVE Calling!Next
  <2> DEFINE f == FrameAt(stack[n], Len(stack[n]))
  <2>1. /\ stack[n] # <<>> /\ Serving(Head(stack[n])) /\ result' = result
        /\ stage' = [stage EXCEPT ![Head(stack[n]).call] = "answered"]
    BY <1>7 DEF Reply, IsTop, Serving
  <2>2. Head(stack[n]) = f /\ Len(stack[n]) \in Nat \ {0}
    BY <1>1, <2>1, PopShrinks
  <2>3. Len(stack[n]) \in 1..Len(stack[n])
    BY <2>2
  <2>4. f.call \in Calls
    BY <1>1, <2>3, FrameType
  <2> PICK i \in Calls : i = f.call
    BY <2>4
  <2>5. ServesAt(stack[n], Len(stack[n]), i)
    BY <2>1, <2>2, <2>3 DEF ServesAt
  <2> HIDE DEF f
  <2>6. stage[i] = "serving"
    BY <1>1, <2>2, <2>5 DEF InService
  <2> QED BY <1>1, <1>2, <2>1, <2>2, <2>6, FinishPhase
<1>8. ASSUME NEW n \in Nodes, ReturnNothing(n) \/ Throw(n) PROVE FALSE
  <2>1. IsTop(n, ServePoints)
    BY <1>8 DEF ReturnNothing, Throw
  <2>2. Head(stack[n]).kind \in {"sync", "management"} /\ Head(stack[n]).at # "raised"
    BY <2>1, ServiceReplies
  <2> QED BY <1>8, <2>2 DEF ReturnNothing, Throw, HasReply, Blocking
<1>9. ASSUME NEW n \in Nodes, ReplyTimeout(n) PROVE FALSE
  <2>1. timeouts \in 0..0 /\ timeouts < 0
    BY <1>1, <1>9 DEF ReplyTimeout, Blocking, TypeOK
  <2> QED BY <2>1
<1>10. ASSUME NEW n \in Nodes, NoReplyYet(n) \/ NothingToReact(n) PROVE UNCHANGED <<stage, result>>
  BY <1>10 DEF NoReplyYet, NothingToReact
<1>11. UNCHANGED vars => UNCHANGED <<stage, result>>
  BY DEF vars
<1> QED
  BY <1>3, <1>4, <1>5, <1>6, <1>7, <1>8, <1>9, <1>10, <1>11 DEF Next, Step

\* Nested calls, too, behave as if calls had an identity: each is executed once at
\* most, and its caller returns only after that and because of it.
THEOREM ChainRefinement ==
  ASSUME Blocking
  PROVE  Spec => ImplementsRemoteCall
<1>1. Init => Calling!Init
  BY DEF Init, Calling!Init, Phase
<1>2. ChainInv /\ [Next]_vars => [Calling!Next]_([i \in Calls |-> Phase(i)])
  BY ChainPhase
<1> QED BY <1>1, <1>2, ChainAlways, PTL DEF Spec, ImplementsRemoteCall, Calling!Spec

=============================================================================
