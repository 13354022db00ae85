--------------------------- MODULE RpcCallsProofs ---------------------------
(***************************************************************************)
(* The calling convention, in three parts: its shape, for all constants;   *)
(* blocking calls whose services make no calls (the regime of rpc_leaf);   *)
(* and what is left when replies are late and methods throw (the regime of *)
(* rpc_late).  Services that call on are the matter of RpcChainProofs.     *)
(***************************************************************************)
EXTENDS RpcCalls, SequenceTheorems, TLAPS

-----------------------------------------------------------------------------
(* Stacks.                                                                 *)

Points == WaitPoints \cup ServePoints

\* Moving the point a stack's top frame is at leaves the rest alone.
LEMMA MovedTop ==
  ASSUME NEW st \in Seq(Frame), st # <<>>, NEW p \in Points
  PROVE  /\ [st EXCEPT ![1].at = p] \in Seq(Frame)
         /\ Len([st EXCEPT ![1].at = p]) = Len(st)
         /\ [st EXCEPT ![1].at = p] # <<>>
<1>1. Len(st) >= 1 /\ Len(st) \in Nat
  BY EmptySeq
<1>2. st[1] \in Frame
  BY <1>1, ElementOfSeq
<1>3. [st[1] EXCEPT !.at = p] \in Frame
  BY <1>2 DEF Frame, Points
<1>4. /\ [st EXCEPT ![1] = [st[1] EXCEPT !.at = p]] \in Seq(Frame)
      /\ Len([st EXCEPT ![1] = [st[1] EXCEPT !.at = p]]) = Len(st)
  BY <1>1, <1>3, ExceptSeq
<1>5. [st EXCEPT ![1].at = p] = [st EXCEPT ![1] = [st[1] EXCEPT !.at = p]]
  OBVIOUS
<1> QED BY <1>1, <1>4, <1>5, EmptySeq

LEMMA Pushed ==
  ASSUME NEW st \in Seq(Frame), NEW f \in Frame
  PROVE  <<f>> \o st \in Seq(Frame)
<1>1. <<f>> \in Seq(Frame)
  OBVIOUS
<1> QED BY <1>1, ConcatProperties

LEMMA UnwoundType ==
  ASSUME NEW st \in Seq(Frame), st # <<>>
  PROVE  Unwound(st) \in Seq(Frame)
<1>1. Tail(st) \in Seq(Frame) /\ <<>> \in Seq(Frame)
  BY HeadTailProperties, EmptySeq
<1>2. "raised" \in Points
  BY DEF Points, ServePoints
<1> QED BY <1>1, <1>2, MovedTop DEF Unwound

LEMMA ReactedType ==
  ASSUME NEW st \in Seq(Frame)
  PROVE  Reacted(st) \in Seq(Frame)
<1>1. "checked" \in Points
  BY DEF Points, WaitPoints
<1> QED BY <1>1, MovedTop, EmptySeq DEF Reacted

LEMMA TopFrame ==
  ASSUME TypeOK, NEW n \in Nodes, NEW at, IsTop(n, at)
  PROVE  /\ stack[n] \in Seq(Frame) /\ stack[n] # <<>>
         /\ Head(stack[n]) \in Frame
         /\ Head(stack[n]).call \in Calls /\ Head(stack[n]).peer \in Nodes
         /\ Tail(stack[n]) \in Seq(Frame)
<1>1. stack[n] \in Seq(Frame) /\ stack[n] # <<>>
  BY DEF TypeOK, IsTop
<1>2. Head(stack[n]) \in Frame /\ Tail(stack[n]) \in Seq(Frame)
  BY <1>1, HeadTailProperties
<1> QED BY <1>1, <1>2 DEF Frame

-----------------------------------------------------------------------------
(* The shape of the state.                                                 *)

LEMMA TypeInit == Init => TypeOK
<1> SUFFICES ASSUME Init PROVE TypeOK
  OBVIOUS
<1>1. <<>> \in Seq(Request) /\ <<>> \in Seq(Calls) /\ <<>> \in Seq(Frame)
  BY EmptySeq
<1>2. requests \in [Nodes -> [Nodes -> Seq(Request)]] /\ replies \in [Nodes -> [Nodes -> Seq(Calls)]]
  BY <1>1 DEF Init
<1>3. sent \in [Nodes -> [Nodes -> Seq(Calls)]] /\ stack \in [Nodes -> Seq(Frame)]
  BY <1>1 DEF Init
<1>4. lastSender \in [Nodes -> Nodes \cup {None}] /\ result \in [Calls -> Calls \cup {None, Thrown}]
  BY DEF Init
<1>5. timeouts \in 0..MaxTimeouts
  BY RpcAssumption DEF Init
<1>6. stage \in [Calls -> Stages]
  BY DEF Init, Stages
<1> QED BY <1>2, <1>3, <1>4, <1>5, <1>6 DEF TypeOK

LEMMA SendType ==
  ASSUME TypeOK, NEW n \in Nodes, NEW s \in Nodes, NEW i \in Calls, NEW k, Send(n, s, i, k)
  PROVE  /\ k \in AllKinds
         /\ requests' \in [Nodes -> [Nodes -> Seq(Request)]]
         /\ sent' \in [Nodes -> [Nodes -> Seq(Calls)]]
         /\ stage' \in [Calls -> Stages]
<1>1. k \in AllKinds
  BY RpcAssumption DEF Send
<1>2. [call |-> i, kind |-> k] \in Request
  BY <1>1 DEF Request
<1>3. requests[n][s] \in Seq(Request) /\ sent[n][s] \in Seq(Calls)
  BY DEF TypeOK
<1>4. Append(requests[n][s], [call |-> i, kind |-> k]) \in Seq(Request)
  BY <1>2, <1>3, AppendProperties
<1>5. Append(sent[n][s], i) \in Seq(Calls)
  BY <1>3, AppendProperties
<1> QED BY <1>1, <1>4, <1>5 DEF Send, TypeOK, Stages

LEMMA TypeNext == TypeOK /\ [Next]_vars => TypeOK'
<1> SUFFICES ASSUME TypeOK, [Next]_vars PROVE TypeOK'
  OBVIOUS
<1> USE RpcAssumption
<1>1. ASSUME NEW n \in Nodes, NEW s \in Nodes, NEW i \in Calls, AsynchRequest(n, s, i) PROVE TypeOK'
  BY <1>1, SendType DEF AsynchRequest, TypeOK
<1>2. ASSUME NEW n \in Nodes, NEW s \in Nodes, NEW i \in Calls, NEW k \in AllKinds, SynchRequest(n, s, i, k)
      PROVE  TypeOK'
  <2> DEFINE f == [call |-> i, peer |-> s, kind |-> k, at |-> "sent"]
  <2>1. f \in Frame
    BY DEF Frame, WaitPoints
  <2>2. <<f>> \o stack[n] \in Seq(Frame)
    BY <2>1, Pushed DEF TypeOK
  <2>3. stack' \in [Nodes -> Seq(Frame)]
    BY <1>2, <2>2 DEF SynchRequest, TypeOK
  <2> QED BY <1>2, <2>3, SendType DEF SynchRequest, TypeOK
<1>3. ASSUME NEW n \in Nodes, ReceiveReply(n) PROVE TypeOK'
  <2> DEFINE f == Head(stack[n])
  <2>1. f.call \in Calls /\ f.peer \in Nodes /\ Tail(stack[n]) \in Seq(Frame)
    BY <1>3, TopFrame DEF ReceiveReply
  <2>2. replies[n][f.peer] \in Seq(Calls) /\ replies[n][f.peer] # <<>>
    BY <1>3, <2>1 DEF ReceiveReply, TypeOK
  <2>3. Head(replies[n][f.peer]) \in Calls /\ Tail(replies[n][f.peer]) \in Seq(Calls)
    BY <2>2, HeadTailProperties
  <2>4. replies' \in [Nodes -> [Nodes -> Seq(Calls)]]
    BY <1>3, <2>1, <2>3 DEF ReceiveReply, Consume, TypeOK
  <2>5. result' \in [Calls -> Calls \cup {None, Thrown}]
    BY <1>3, <2>1, <2>3 DEF ReceiveReply, TypeOK
  <2>6. stack' \in [Nodes -> Seq(Frame)]
    BY <1>3, <2>1 DEF ReceiveReply, TypeOK
  <2> QED BY <1>3, <2>4, <2>5, <2>6 DEF ReceiveReply, TypeOK
<1>4. ASSUME NEW n \in Nodes, NoReplyYet(n) PROVE TypeOK'
  <2>1. "reacting" \in Points
    BY DEF Points, WaitPoints
  <2>2. KeepWaiting(stack[n]) \in Seq(Frame)
    BY <1>4, <2>1, TopFrame, MovedTop DEF NoReplyYet, KeepWaiting
  <2>3. stack' \in [Nodes -> Seq(Frame)]
    BY <1>4, <2>2 DEF NoReplyYet, TypeOK
  <2> QED BY <1>4, <2>3 DEF NoReplyYet, TypeOK
<1>5. ASSUME NEW n \in Nodes, NEW c \in Nodes, Dispatch(n, c) PROVE TypeOK'
  <2> DEFINE m == Head(requests[c][n])
             f == [call |-> m.call, peer |-> c, kind |-> m.kind, at |-> "running"]
  <2>1. requests[c][n] \in Seq(Request) /\ requests[c][n] # <<>>
    BY <1>5 DEF Dispatch, TypeOK
  <2>2. m \in Request /\ Tail(requests[c][n]) \in Seq(Request)
    BY <2>1, HeadTailProperties
  <2>3. f \in Frame /\ m.call \in Calls
    BY <2>2 DEF Request, Frame, ServePoints
  <2>4. <<f>> \o Reacted(stack[n]) \in Seq(Frame)
    BY <2>3, Pushed, ReactedType DEF TypeOK
  <2>5. stack' \in [Nodes -> Seq(Frame)]
    BY <1>5, <2>4 DEF Dispatch, TypeOK
  <2>6. requests' \in [Nodes -> [Nodes -> Seq(Request)]]
    BY <1>5, <2>2 DEF Dispatch, TypeOK
  <2>7. stage' \in [Calls -> Stages]
    BY <1>5, <2>3 DEF Dispatch, TypeOK, Stages
  <2>8. lastSender' \in [Nodes -> Nodes \cup {None}]
    BY <1>5 DEF Dispatch, SaveSender, TypeOK
  <2> QED BY <1>5, <2>5, <2>6, <2>7, <2>8 DEF Dispatch, TypeOK
<1>6. ASSUME NEW n \in Nodes, NothingToReact(n) PROVE TypeOK'
  <2>1. Reacted(stack[n]) \in Seq(Frame)
    BY ReactedType DEF TypeOK
  <2>2. stack' \in [Nodes -> Seq(Frame)]
    BY <1>6, <2>1 DEF NothingToReact, TypeOK
  <2>3. lastSender' \in [Nodes -> Nodes \cup {None}]
    BY <1>6 DEF NothingToReact, LoseSender, TypeOK
  <2> QED BY <1>6, <2>2, <2>3 DEF NothingToReact, TypeOK
<1>7. ASSUME NEW n \in Nodes, ReturnNothing(n) PROVE TypeOK'
  <2>1. Head(stack[n]).call \in Calls /\ Tail(stack[n]) \in Seq(Frame)
    BY <1>7, TopFrame DEF ReturnNothing
  <2>2. stack' \in [Nodes -> Seq(Frame)] /\ stage' \in [Calls -> Stages]
    BY <1>7, <2>1 DEF ReturnNothing, TypeOK, Stages
  <2> QED BY <1>7, <2>2 DEF ReturnNothing, TypeOK
<1>8. ASSUME NEW n \in Nodes, Reply(n) PROVE TypeOK'
  <2> DEFINE i == Head(stack[n]).call
             c == lastSender[n]
  <2>1. i \in Calls /\ Tail(stack[n]) \in Seq(Frame)
    BY <1>8, TopFrame DEF Reply
  <2>2. stack' \in [Nodes -> Seq(Frame)] /\ stage' \in [Calls -> Stages]
    BY <1>8, <2>1 DEF Reply, TypeOK, Stages
  <2>3. lastSender' \in [Nodes -> Nodes \cup {None}]
    BY <1>8 DEF Reply, SendReply, TypeOK
  <2>4. replies' \in [Nodes -> [Nodes -> Seq(Calls)]]
    <3>1. CASE c = None
      BY <1>8, <3>1 DEF Reply, SendReply, TypeOK
    <3>2. CASE c # None
      <4>1. c \in Nodes /\ replies[c][n] \in Seq(Calls)
        BY <3>2 DEF TypeOK
      <4>2. Append(replies[c][n], i) \in Seq(Calls)
        BY <2>1, <4>1, AppendProperties
      <4>3. replies' = [replies EXCEPT ![c][n] = Append(@, i)]
        BY <1>8, <3>2 DEF Reply, SendReply
      <4> QED BY <4>1, <4>2, <4>3 DEF TypeOK
    <3> QED BY <3>1, <3>2
  <2> QED BY <1>8, <2>2, <2>3, <2>4 DEF Reply, TypeOK
<1>9. ASSUME NEW n \in Nodes, Throw(n) PROVE TypeOK'
  <2> DEFINE below == Tail(stack[n])
  <2>1. Head(stack[n]).call \in Calls /\ below \in Seq(Frame)
    BY <1>9, TopFrame DEF Throw
  <2>2. stage' \in [Calls -> Stages]
    BY <1>9, <2>1 DEF Throw, TypeOK, Stages
  <2>3. CASE below = <<>>
    <3>1. <<>> \in Seq(Frame)
      BY EmptySeq
    <3>2. stack' = [stack EXCEPT ![n] = <<>>] /\ result' = result
      BY <1>9, <2>3 DEF Throw
    <3>3. stack' \in [Nodes -> Seq(Frame)]
      BY <3>1, <3>2 DEF TypeOK
    <3> QED BY <1>9, <2>2, <3>2, <3>3 DEF Throw, TypeOK
  <2>4. CASE below # <<>>
    <3>1. Unwound(below) \in Seq(Frame) /\ Head(below) \in Frame
      BY <2>1, <2>4, UnwoundType, HeadTailProperties
    <3>2. stack' \in [Nodes -> Seq(Frame)]
      BY <1>9, <2>4, <3>1 DEF Throw, TypeOK
    <3>3. result' \in [Calls -> Calls \cup {None, Thrown}]
      BY <1>9, <2>4, <3>1 DEF Throw, TypeOK, Frame
    <3> QED BY <1>9, <2>2, <3>2, <3>3 DEF Throw, TypeOK
  <2> QED BY <2>3, <2>4
<1>10. ASSUME NEW n \in Nodes, ReplyTimeout(n) PROVE TypeOK'
  <2>1. stack[n] \in Seq(Frame) /\ stack[n] # <<>> /\ Head(stack[n]).call \in Calls
    BY <1>10, TopFrame DEF ReplyTimeout
  <2>2. Unwound(stack[n]) \in Seq(Frame)
    BY <2>1, UnwoundType
  <2>3. stack' \in [Nodes -> Seq(Frame)]
    BY <1>10, <2>2 DEF ReplyTimeout, TypeOK
  <2>4. result' \in [Calls -> Calls \cup {None, Thrown}] /\ timeouts' \in 0..MaxTimeouts
    BY <1>10, <2>1 DEF ReplyTimeout, TypeOK
  <2> QED BY <1>10, <2>3, <2>4 DEF ReplyTimeout, TypeOK
<1>11. CASE UNCHANGED vars
  BY <1>11 DEF vars, TypeOK
<1> QED
  BY <1>1, <1>2, <1>3, <1>4, <1>5, <1>6, <1>7, <1>8, <1>9, <1>10, <1>11 DEF Next, Issue, Step

\* Every message, frame and result belongs to a known call of known nodes, for any
\* topology and whatever throws or is late.
THEOREM TypeCorrect == Spec => []TypeOK
BY TypeInit, TypeNext, PTL DEF Spec

-----------------------------------------------------------------------------
(***************************************************************************)
(* A blocking call returns the reply to its own request, for any number of *)
(* nodes calling each other in any way, as long as services make no calls, *)
(* no reply is given up and nothing but a method throws (the regime of the *)
(* run rpc_leaf; rpc_stale and rpc_crossed show that it cannot be left).   *)
(*                                                                         *)
(* The argument: a node waits for one call at most, and whatever belongs   *)
(* to that call (its request, its service, its reply) is in one place,     *)
(* told by its stage.  The connector of a node therefore never holds any   *)
(* reply but the awaited one, and _lastSender of a serving node is still   *)
(* the client it serves, since nothing is received in between.             *)
(***************************************************************************)

\* Services make no calls, and no call ends but with its reply.
Leaf == HandlerCalls = {} /\ Throws = {} /\ MaxTimeouts = 0

-----------------------------------------------------------------------------
(* The inductive invariant.                                                *)

\* A node is idle, waits, serves, or serves while it waits.
LeafStack(st) ==
  \/ st = <<>>
  \/ \E f \in Frame : st = <<f>> /\ f.at # "raised"
  \/ \E f, w \in Frame : st = <<f, w>> /\ f.at = "running" /\ w.at = "checked"

WaitsIn(st, s, i) == \E d \in DOMAIN st : Waiting(st[d]) /\ st[d].peer = s /\ st[d].call = i

ServesIn(st, c, i, k) ==
  st # <<>> /\ Serving(st[1]) /\ st[1].peer = c /\ st[1].call = i /\ st[1].kind = k

Shapes == \A n \in Nodes : LeafStack(stack[n])

\* What a wait, a queued request, a service and a reply tell of their call.
WaitedInv ==
  \A c, s \in Nodes, i \in Calls :
    WaitsIn(stack[c], s, i) => stage[i] # "unsent" /\ result[i] = None

QueuedInv ==
  \A c, s \in Nodes : \A p \in DOMAIN requests[c][s] :
    LET m == requests[c][s][p] IN
      stage[m.call] = "sent" /\ (m.kind # "async" => WaitsIn(stack[c], s, m.call))

ServedInv ==
  \A n, c \in Nodes, i \in Calls, k \in AllKinds :
    ServesIn(stack[n], c, i, k) =>
      /\ stage[i] = "serving"
      /\ lastSender[n] = c
      /\ k # "async" => WaitsIn(stack[c], n, i)

RepliedInv ==
  \A c, s \in Nodes : \A p \in DOMAIN replies[c][s] :
    /\ p = 1
    /\ stage[replies[c][s][p]] = "answered"
    /\ WaitsIn(stack[c], s, replies[c][s][p])

ResultInv == \A i \in Calls : result[i] # None => result[i] = i /\ stage[i] = "answered"

\* No call is waited for, queued or served twice.
WaitedOnce ==
  \A c, d, s, t \in Nodes, i \in Calls :
    WaitsIn(stack[c], s, i) /\ WaitsIn(stack[d], t, i) => c = d /\ s = t

QueuedOnce ==
  \A c, d, s, t \in Nodes : \A p \in DOMAIN requests[c][s], q \in DOMAIN requests[d][t] :
    requests[c][s][p].call = requests[d][t][q].call => c = d /\ s = t /\ p = q

ServedOnce ==
  \A m, n, c, d \in Nodes, i \in Calls, k, l \in AllKinds :
    ServesIn(stack[m], c, i, k) /\ ServesIn(stack[n], d, i, l) => m = n

LeafInv ==
  /\ TypeOK /\ Shapes
  /\ WaitedInv /\ QueuedInv /\ ServedInv /\ RepliedInv /\ ResultInv
  /\ WaitedOnce /\ QueuedOnce /\ ServedOnce

-----------------------------------------------------------------------------
(* What the stacks of the regime hold.                                     *)

LEMMA EmptyStack ==
  ASSUME NEW st, st = <<>>
  PROVE  \A c, i, k : ~WaitsIn(st, c, i) /\ ~ServesIn(st, c, i, k)
<1>1. DOMAIN st = {}
  OBVIOUS
<1> QED BY <1>1 DEF WaitsIn, ServesIn

\* ... of a stack of one frame, whatever else is known of the stack.
LEMMA OneFramePlain ==
  ASSUME NEW f, NEW st, DOMAIN st = {1}, st[1] = f, st # <<>>
  PROVE  /\ \A s, i : WaitsIn(st, s, i) <=> Waiting(f) /\ f.peer = s /\ f.call = i
         /\ \A c, i, k : ServesIn(st, c, i, k)
                           <=> Serving(f) /\ f.peer = c /\ f.call = i /\ f.kind = k
BY DEF WaitsIn, ServesIn

LEMMA OneFrame ==
  ASSUME NEW f \in Frame, NEW st, st = <<f>>
  PROVE  /\ \A s, i : WaitsIn(st, s, i) <=> Waiting(f) /\ f.peer = s /\ f.call = i
         /\ \A c, i, k : ServesIn(st, c, i, k)
                           <=> Serving(f) /\ f.peer = c /\ f.call = i /\ f.kind = k
         /\ Head(st) = f /\ Tail(st) = <<>> /\ st # <<>>
<1>1. DOMAIN st = {1} /\ st[1] = f /\ st # <<>>
  OBVIOUS
<1>2. Head(st) = f /\ Tail(st) = <<>>
  OBVIOUS
<1> QED BY <1>1, <1>2, OneFramePlain

\* ... and of a stack of two.
LEMMA TwoFramesPlain ==
  ASSUME NEW f, NEW w, NEW st, DOMAIN st = {1, 2}, st[1] = f, st[2] = w, st # <<>>,
         ~Waiting(f), Waiting(w), Serving(f)
  PROVE  /\ \A s, i : WaitsIn(st, s, i) <=> w.peer = s /\ w.call = i
         /\ \A c, i, k : ServesIn(st, c, i, k) <=> f.peer = c /\ f.call = i /\ f.kind = k
BY DEF WaitsIn, ServesIn

LEMMA TwoFrames ==
  ASSUME NEW f \in Frame, NEW w \in Frame, f.at = "running", w.at = "checked",
         NEW st, st = <<f, w>>
  PROVE  /\ \A s, i : WaitsIn(st, s, i) <=> w.peer = s /\ w.call = i
         /\ \A c, i, k : ServesIn(st, c, i, k) <=> f.peer = c /\ f.call = i /\ f.kind = k
         /\ Head(st) = f /\ Tail(st) = <<w>> /\ st # <<>>
<1>1. DOMAIN st = {1, 2} /\ st[1] = f /\ st[2] = w /\ st # <<>>
  OBVIOUS
<1>2. ~Waiting(f) /\ Waiting(w) /\ Serving(f)
  BY DEF Waiting, Serving, WaitPoints, ServePoints
<1>3. Head(st) = f /\ Tail(st) = <<w>>
  OBVIOUS
<1> QED BY <1>1, <1>2, <1>3, TwoFramesPlain

\* A node waits for one call at most.
LEMMA OneWait ==
  ASSUME NEW st, LeafStack(st), NEW s, NEW t, NEW i, NEW j, WaitsIn(st, s, i), WaitsIn(st, t, j)
  PROVE  s = t /\ i = j
<1>1. CASE st = <<>>
  BY <1>1, EmptyStack
<1>2. ASSUME NEW f \in Frame, st = <<f>> PROVE s = t /\ i = j
  <2>1. \A u, h : WaitsIn(st, u, h) <=> Waiting(f) /\ f.peer = u /\ f.call = h
    BY <1>2, OneFrame
  <2> QED BY <2>1
<1>3. ASSUME NEW f \in Frame, NEW w \in Frame, st = <<f, w>>, f.at = "running", w.at = "checked"
      PROVE  s = t /\ i = j
  <2>1. \A u, h : WaitsIn(st, u, h) <=> w.peer = u /\ w.call = h
    BY <1>3, TwoFrames
  <2> QED BY <2>1
<1> QED BY <1>1, <1>2, <1>3 DEF LeafStack

\* The stack of a node that takes a reply, or goes on waiting: one frame.
LEMMA WaitStack ==
  ASSUME Shapes, NEW n \in Nodes, NEW at, at \subseteq WaitPoints, IsTop(n, at)
  PROVE  \E w \in Frame : stack[n] = <<w>> /\ Waiting(w)
<1>1. LeafStack(stack[n]) /\ stack[n] # <<>> /\ Head(stack[n]).at \in WaitPoints
  BY DEF Shapes, IsTop
<1>2. CASE \E f \in Frame : stack[n] = <<f>> /\ f.at # "raised"
  BY <1>1, <1>2, OneFrame DEF Waiting
<1>3. CASE \E f, w \in Frame : stack[n] = <<f, w>> /\ f.at = "running" /\ w.at = "checked"
  BY <1>1, <1>3, TwoFrames DEF WaitPoints
<1> QED BY <1>1, <1>2, <1>3 DEF LeafStack

\* The end of a service leaves what the node waits for.
LEMMA ServeStack ==
  ASSUME Shapes, NEW n \in Nodes, IsTop(n, ServePoints)
  PROVE  LET f == Head(stack[n]) IN
           /\ f \in Frame /\ f.at = "running"
           /\ ServesIn(stack[n], f.peer, f.call, f.kind)
           /\ LeafStack(Tail(stack[n]))
           /\ \A c, i, k : ~ServesIn(Tail(stack[n]), c, i, k)
           /\ \A s, i : WaitsIn(Tail(stack[n]), s, i) <=> WaitsIn(stack[n], s, i)
<1>1. LeafStack(stack[n]) /\ stack[n] # <<>> /\ Head(stack[n]).at \in ServePoints
  BY DEF Shapes, IsTop
<1>2. CASE \E f \in Frame : stack[n] = <<f>> /\ f.at # "raised"
  <2>1. PICK f \in Frame : stack[n] = <<f>> /\ f.at # "raised"
    BY <1>2
  <2>2. /\ \A s, i : WaitsIn(stack[n], s, i) <=> Waiting(f) /\ f.peer = s /\ f.call = i
        /\ \A c, i, k : ServesIn(stack[n], c, i, k)
                          <=> Serving(f) /\ f.peer = c /\ f.call = i /\ f.kind = k
        /\ Head(stack[n]) = f /\ Tail(stack[n]) = <<>>
    BY <2>1, OneFrame
  <2>3. f.at = "running" /\ ~Waiting(f) /\ Serving(f)
    BY <1>1, <2>1, <2>2 DEF ServePoints, WaitPoints, Waiting, Serving
  <2>4. LeafStack(Tail(stack[n])) /\ \A c, i, k : ~WaitsIn(Tail(stack[n]), c, i) /\ ~ServesIn(Tail(stack[n]), c, i, k)
    BY <2>2, EmptyStack DEF LeafStack
  <2> QED BY <2>2, <2>3, <2>4
<1>3. CASE \E f, w \in Frame : stack[n] = <<f, w>> /\ f.at = "running" /\ w.at = "checked"
  <2>1. PICK f, w \in Frame : stack[n] = <<f, w>> /\ f.at = "running" /\ w.at = "checked"
    BY <1>3
  <2>2. /\ \A s, i : WaitsIn(stack[n], s, i) <=> w.peer = s /\ w.call = i
        /\ \A c, i, k : ServesIn(stack[n], c, i, k) <=> f.peer = c /\ f.call = i /\ f.kind = k
        /\ Head(stack[n]) = f /\ Tail(stack[n]) = <<w>>
    BY <2>1, TwoFrames
  <2>3. Waiting(w) /\ ~Serving(w) /\ w.at # "raised"
    BY <2>1 DEF ServePoints, WaitPoints, Waiting, Serving
  <2>4. LeafStack(Tail(stack[n]))
    BY <2>1, <2>2, <2>3 DEF LeafStack
  <2>5. /\ \A s, i : WaitsIn(Tail(stack[n]), s, i) <=> Waiting(w) /\ w.peer = s /\ w.call = i
        /\ \A c, i, k : ServesIn(Tail(stack[n]), c, i, k)
                          <=> Serving(w) /\ w.peer = c /\ w.call = i /\ w.kind = k
    BY <2>1, <2>2, OneFrame
  <2> QED BY <2>1, <2>2, <2>3, <2>4, <2>5
<1> QED BY <1>1, <1>2, <1>3 DEF LeafStack

\* A frame that moves on within its wait is the same wait.
LEMMA SameWait ==
  ASSUME NEW w \in Frame, Waiting(w), NEW p \in WaitPoints, NEW st, st = <<w>>
  PROVE  LET next == [st EXCEPT ![1].at = p] IN
           /\ \E v \in Frame : next = <<v>> /\ v.at = p
           /\ LeafStack(next)
           /\ \A s, i : WaitsIn(next, s, i) <=> WaitsIn(st, s, i)
           /\ \A c, i, k : ~ServesIn(next, c, i, k) /\ ~ServesIn(st, c, i, k)
<1> DEFINE v == [w EXCEPT !.at = p]
           next == [st EXCEPT ![1].at = p]
<1>1. v \in Frame /\ v.at = p /\ v.peer = w.peer /\ v.call = w.call
  BY DEF Frame
<1>2. next = <<v>>
  OBVIOUS
<1> HIDE DEF v, next
<1>3. Waiting(v) /\ ~Serving(v) /\ ~Serving(w) /\ v.at # "raised"
  BY <1>1 DEF Waiting, Serving, WaitPoints, ServePoints
<1>4. LeafStack(next)
  BY <1>1, <1>2, <1>3 DEF LeafStack
<1>5. /\ \A s, i : WaitsIn(next, s, i) <=> Waiting(v) /\ v.peer = s /\ v.call = i
      /\ \A c, i, k : ServesIn(next, c, i, k)
                        <=> Serving(v) /\ v.peer = c /\ v.call = i /\ v.kind = k
  BY <1>1, <1>2, OneFrame
<1>6. /\ \A s, i : WaitsIn(st, s, i) <=> Waiting(w) /\ w.peer = s /\ w.call = i
      /\ \A c, i, k : ServesIn(st, c, i, k)
                        <=> Serving(w) /\ w.peer = c /\ w.call = i /\ w.kind = k
  BY OneFrame
<1>7. /\ \E u \in Frame : next = <<u>> /\ u.at = p
      /\ LeafStack(next)
      /\ \A s, i : WaitsIn(next, s, i) <=> WaitsIn(st, s, i)
      /\ \A c, i, k : ~ServesIn(next, c, i, k) /\ ~ServesIn(st, c, i, k)
  BY <1>1, <1>2, <1>3, <1>4, <1>5, <1>6
<1> QED BY <1>7 DEF next

LEMMA PushedOnOne ==
  ASSUME NEW f \in Frame, NEW v \in Frame
  PROVE  <<f>> \o <<v>> = <<f, v>>
<1>1. <<f>> \in Seq(Frame) /\ <<v>> \in Seq(Frame) /\ <<f, v>> \in Seq(Frame)
  OBVIOUS
<1>2. Len(<<f>>) = 1 /\ Len(<<v>>) = 1 /\ Len(<<f, v>>) = 2
  OBVIOUS
<1>3. /\ <<f>> \o <<v>> \in Seq(Frame)
      /\ Len(<<f>> \o <<v>>) = 2
      /\ \A i \in 1..2 : (<<f>> \o <<v>>)[i] = IF i <= 1 THEN <<f>>[i] ELSE <<v>>[i - 1]
  BY <1>1, <1>2, ConcatProperties
<1>4. <<f>>[1] = f /\ <<v>>[1] = v /\ <<f, v>>[1] = f /\ <<f, v>>[2] = v
  OBVIOUS
<1>5. \A i \in 1..2 : (<<f>> \o <<v>>)[i] = <<f, v>>[i]
  <2>1. (<<f>> \o <<v>>)[1] = f /\ (<<f>> \o <<v>>)[2] = v
    BY <1>3, <1>4
  <2> QED BY <1>4, <2>1
<1> QED BY <1>1, <1>2, <1>3, <1>5, SeqEqual

\* The service that react begins comes above what the node waits for.
LEMMA DispatchStack ==
  ASSUME Shapes, NEW n \in Nodes, MayReact(n), NEW f \in Frame, f.at = "running",
         NEW st, st = <<f>> \o Reacted(stack[n])
  PROVE  /\ LeafStack(st)
         /\ \A s, i : WaitsIn(st, s, i) <=> WaitsIn(stack[n], s, i)
         /\ \A c, i, k : ServesIn(st, c, i, k) <=> f.peer = c /\ f.call = i /\ f.kind = k
         /\ \A c, i, k : ~ServesIn(stack[n], c, i, k)
<1>1. CASE stack[n] = <<>>
  <2>1. st = <<f>>
    BY <1>1 DEF Reacted
  <2>2. ~Waiting(f) /\ Serving(f) /\ f.at # "raised"
    BY DEF Waiting, Serving, WaitPoints, ServePoints
  <2>3. LeafStack(st)
    BY <2>1, <2>2 DEF LeafStack
  <2>4. \A c, i, k : ~WaitsIn(stack[n], c, i) /\ ~ServesIn(stack[n], c, i, k)
    BY <1>1, EmptyStack
  <2>5. /\ \A s, i : WaitsIn(st, s, i) <=> Waiting(f) /\ f.peer = s /\ f.call = i
        /\ \A c, i, k : ServesIn(st, c, i, k)
                          <=> Serving(f) /\ f.peer = c /\ f.call = i /\ f.kind = k
    BY <2>1, OneFrame
  <2> QED BY <2>2, <2>3, <2>4, <2>5
<1>2. CASE IsTop(n, {"reacting"})
  <2> DEFINE next == [stack[n] EXCEPT ![1].at = "checked"]
  <2>1. PICK w \in Frame : stack[n] = <<w>> /\ Waiting(w)
    BY <1>2, WaitStack DEF WaitPoints
  <2>2. "checked" \in WaitPoints
    BY DEF WaitPoints
  <2>3. /\ \E v \in Frame : next = <<v>> /\ v.at = "checked"
        /\ \A s, i : WaitsIn(next, s, i) <=> WaitsIn(stack[n], s, i)
        /\ \A c, i, k : ~ServesIn(stack[n], c, i, k)
    BY <2>1, <2>2, SameWait
  <2>4. Reacted(stack[n]) = next
    BY <2>1 DEF Reacted
  <2> HIDE DEF next
  <2>5. PICK v \in Frame : next = <<v>> /\ v.at = "checked"
    BY <2>3
  <2>6. Waiting(v)
    BY <2>5 DEF Waiting, WaitPoints
  <2>7. \A s, i : WaitsIn(next, s, i) <=> v.peer = s /\ v.call = i
    BY <2>5, <2>6, OneFrame
  <2>8. st = <<f, v>>
    BY <2>4, <2>5, PushedOnOne
  <2>9. LeafStack(st)
    BY <2>5, <2>8 DEF LeafStack
  <2>10. /\ \A s, i : WaitsIn(st, s, i) <=> v.peer = s /\ v.call = i
         /\ \A c, i, k : ServesIn(st, c, i, k) <=> f.peer = c /\ f.call = i /\ f.kind = k
    BY <2>5, <2>8, TwoFrames
  <2> QED BY <2>3, <2>7, <2>9, <2>10
<1> QED BY <1>1, <1>2 DEF MayReact

-----------------------------------------------------------------------------
(* What the queues hold.                                                   *)

LEMMA QueueElements ==
  ASSUME TypeOK, NEW c \in Nodes, NEW s \in Nodes
  PROVE  /\ requests[c][s] \in Seq(Request) /\ replies[c][s] \in Seq(Calls)
         /\ DOMAIN requests[c][s] = 1..Len(requests[c][s]) /\ Len(requests[c][s]) \in Nat
         /\ DOMAIN replies[c][s] = 1..Len(replies[c][s]) /\ Len(replies[c][s]) \in Nat
         /\ \A p \in DOMAIN requests[c][s] :
              requests[c][s][p].call \in Calls /\ requests[c][s][p].kind \in AllKinds
         /\ \A p \in DOMAIN replies[c][s] : replies[c][s][p] \in Calls
<1>1. requests[c][s] \in Seq(Request) /\ replies[c][s] \in Seq(Calls)
  BY DEF TypeOK
<1>2. /\ DOMAIN requests[c][s] = 1..Len(requests[c][s]) /\ Len(requests[c][s]) \in Nat
      /\ DOMAIN replies[c][s] = 1..Len(replies[c][s]) /\ Len(replies[c][s]) \in Nat
  BY <1>1, LenProperties
<1>3. \A p \in DOMAIN requests[c][s] : requests[c][s][p] \in Request
  BY <1>1, <1>2, ElementOfSeq
<1>4. \A p \in DOMAIN replies[c][s] : replies[c][s][p] \in Calls
  BY <1>1, <1>2, ElementOfSeq
<1> QED BY <1>1, <1>2, <1>3, <1>4 DEF Request

\* Only the request that is sent is new in a queue.
LEMMA SendQueues ==
  ASSUME TypeOK, NEW n \in Nodes, NEW s \in Nodes, NEW i \in Calls, NEW k, Send(n, s, i, k),
         NEW c \in Nodes, NEW t \in Nodes, NEW p \in DOMAIN requests'[c][t]
  PROVE  \/ p \in DOMAIN requests[c][t] /\ requests'[c][t][p] = requests[c][t][p]
         \/ /\ c = n /\ t = s /\ p = Len(requests[n][s]) + 1
            /\ requests'[c][t][p].call = i /\ requests'[c][t][p].kind = k
<1> DEFINE m == [call |-> i, kind |-> k]
           q == requests[n][s]
<1>1. m \in Request
  BY SendType DEF Request
<1>2. q \in Seq(Request) /\ DOMAIN q = 1..Len(q) /\ Len(q) \in Nat
  BY QueueElements
<1>3. requests' = [requests EXCEPT ![n][s] = Append(q, m)]
  BY DEF Send
<1>4. CASE c = n /\ t = s
  <2>1. requests'[c][t] = Append(q, m)
    BY <1>3, <1>4 DEF TypeOK
  <2>2. /\ Append(q, m) \in Seq(Request) /\ Len(Append(q, m)) = Len(q) + 1
        /\ \A j \in 1..Len(q) : Append(q, m)[j] = q[j]
        /\ Append(q, m)[Len(q) + 1] = m
    BY <1>1, <1>2, AppendProperties
  <2>3. p \in 1..(Len(q) + 1)
    BY <2>1, <2>2, LenProperties
  <2>4. m.call = i /\ m.kind = k
    OBVIOUS
  <2> HIDE DEF m, q
  <2>5. p \in 1..Len(q) \/ p = Len(q) + 1
    BY <1>2, <2>3
  <2>6. q = requests[c][t]
    BY <1>4 DEF q
  <2> QED BY <1>2, <1>4, <2>1, <2>2, <2>4, <2>5, <2>6
<1>5. CASE ~(c = n /\ t = s)
  <2>1. requests'[c][t] = requests[c][t]
    BY <1>3, <1>5 DEF TypeOK
  <2> QED BY <2>1
<1> QED BY <1>4, <1>5

\* Taking the first of a queue moves the others up.
LEMMA Rest ==
  ASSUME NEW S, NEW q \in Seq(S), q # <<>>, NEW p \in DOMAIN Tail(q)
  PROVE  p \in Nat \ {0} /\ p + 1 \in DOMAIN q /\ Tail(q)[p] = q[p + 1]
<1>1. /\ Tail(q) \in Seq(S) /\ Len(Tail(q)) = Len(q) - 1
      /\ \A i \in 1..Len(Tail(q)) : Tail(q)[i] = q[i + 1]
  BY HeadTailProperties
<1>2. DOMAIN Tail(q) = 1..Len(Tail(q)) /\ DOMAIN q = 1..Len(q) /\ Len(q) \in Nat
  BY <1>1, LenProperties
<1> QED BY <1>1, <1>2

\* One queue of all changes.
LEMMA OneQueue ==
  ASSUME NEW S, NEW f \in [Nodes -> [Nodes -> S]], NEW a \in Nodes, NEW b \in Nodes, NEW q,
         NEW c \in Nodes, NEW d \in Nodes
  PROVE  [f EXCEPT ![a][b] = q][c][d] = IF c = a /\ d = b THEN q ELSE f[c][d]
OBVIOUS

LEMMA NoElement ==
  ASSUME NEW S, NEW q \in Seq(S), DOMAIN q = {}
  PROVE  Len(q) = 0
<1>1. Len(q) \in Nat /\ DOMAIN q = 1..Len(q)
  BY LenProperties
<1> QED BY <1>1

LEMMA First ==
  ASSUME NEW S, NEW q \in Seq(S), q # <<>>
  PROVE  1 \in DOMAIN q /\ Head(q) = q[1]
<1>1. Len(q) \in Nat \ {0} /\ DOMAIN q = 1..Len(q)
  BY EmptySeq, LenProperties
<1>2. Head(q) = q[1]
  OBVIOUS
<1> QED BY <1>1, <1>2

-----------------------------------------------------------------------------
(* The steps.                                                              *)

\* Steps that leave what is waited for, served, queued and known.
LEMMA QuietStep ==
  ASSUME LeafInv, TypeOK', Shapes',
         UNCHANGED <<requests, replies, stage, result>>,
         \A n, c \in Nodes, i \in Calls, k \in AllKinds :
           ServesIn(stack[n], c, i, k) => lastSender'[n] = lastSender[n],
         \A n, s \in Nodes, i \in Calls : WaitsIn(stack'[n], s, i) <=> WaitsIn(stack[n], s, i),
         \A n, c \in Nodes, i \in Calls, k \in AllKinds :
           ServesIn(stack'[n], c, i, k) <=> ServesIn(stack[n], c, i, k)
  PROVE  LeafInv'
<1> USE DEF LeafInv
<1>1. WaitedInv' /\ ResultInv' /\ WaitedOnce' /\ QueuedOnce'
  BY DEF WaitedInv, ResultInv, WaitedOnce, QueuedOnce
<1>2. QueuedInv'
  <2> SUFFICES ASSUME NEW c \in Nodes, NEW s \in Nodes, NEW p \in DOMAIN requests[c][s]
               PROVE  LET m == requests[c][s][p] IN
                        stage[m.call] = "sent" /\ (m.kind # "async" => WaitsIn(stack'[c], s, m.call))
    BY DEF QueuedInv
  <2>1. requests[c][s][p].call \in Calls
    BY QueueElements
  <2> QED BY <2>1 DEF QueuedInv
<1>3. RepliedInv'
  <2> SUFFICES ASSUME NEW c \in Nodes, NEW s \in Nodes, NEW p \in DOMAIN replies[c][s]
               PROVE  /\ p = 1 /\ stage[replies[c][s][p]] = "answered"
                      /\ WaitsIn(stack'[c], s, replies[c][s][p])
    BY DEF RepliedInv
  <2>1. replies[c][s][p] \in Calls
    BY QueueElements
  <2> QED BY <2>1 DEF RepliedInv
<1>4. ServedInv' /\ ServedOnce'
  BY DEF ServedInv, ServedOnce
<1> QED BY <1>1, <1>2, <1>3, <1>4

\* A request is sent for a new call; unless it is asynchronous, its sender waits.
LEMMA SendStep ==
  ASSUME LeafInv, TypeOK', Shapes',
         NEW n \in Nodes, NEW s \in Nodes, NEW i \in Calls, NEW k, Send(n, s, i, k),
         UNCHANGED <<replies, lastSender, result>>,
         \A c, t \in Nodes, j \in Calls :
           WaitsIn(stack'[c], t, j)
             <=> WaitsIn(stack[c], t, j) \/ (k # "async" /\ c = n /\ t = s /\ j = i),
         \A m, c \in Nodes, j \in Calls, l \in AllKinds :
           ServesIn(stack'[m], c, j, l) <=> ServesIn(stack[m], c, j, l)
  PROVE  LeafInv'
<1> USE DEF LeafInv
<1>1. stage[i] = "unsent" /\ stage' = [stage EXCEPT ![i] = "sent"] /\ stage'[i] = "sent"
  BY DEF Send, TypeOK
<1>2. \A j \in Calls : stage[j] # "unsent" => stage'[j] = stage[j] /\ j # i
  BY <1>1 DEF TypeOK
<1>3. result[i] = None
  BY <1>1 DEF ResultInv
<1>4. WaitedInv'
  BY <1>1, <1>2, <1>3 DEF WaitedInv
<1>5. WaitedOnce'
  BY <1>1 DEF WaitedOnce, WaitedInv
<1>6. ResultInv'
  BY <1>2 DEF ResultInv
<1>7. ServedInv' /\ ServedOnce'
  BY <1>2 DEF ServedInv, ServedOnce
<1>8. RepliedInv'
  <2> SUFFICES ASSUME NEW c \in Nodes, NEW t \in Nodes, NEW p \in DOMAIN replies[c][t]
               PROVE  /\ p = 1 /\ stage'[replies[c][t][p]] = "answered"
                      /\ WaitsIn(stack'[c], t, replies[c][t][p])
    BY DEF RepliedInv
  <2>1. replies[c][t][p] \in Calls
    BY QueueElements
  <2> QED BY <1>2, <2>1 DEF RepliedInv
<1>9. ASSUME NEW c \in Nodes, NEW t \in Nodes, NEW p \in DOMAIN requests[c][t]
      PROVE  /\ requests[c][t][p].call \in Calls /\ requests[c][t][p].call # i
             /\ stage'[requests[c][t][p].call] = "sent"
             /\ requests[c][t][p].kind # "async" => WaitsIn(stack'[c], t, requests[c][t][p].call)
  BY <1>2, QueueElements DEF QueuedInv
<1>10. QueuedInv'
  <2> SUFFICES ASSUME NEW c \in Nodes, NEW t \in Nodes, NEW p \in DOMAIN requests'[c][t]
               PROVE  LET m == requests'[c][t][p] IN
                        stage'[m.call] = "sent" /\ (m.kind # "async" => WaitsIn(stack'[c], t, m.call))
    BY DEF QueuedInv
  <2> QED BY <1>1, <1>9, SendQueues
<1>11. QueuedOnce'
  <2> SUFFICES ASSUME NEW c \in Nodes, NEW d \in Nodes, NEW t \in Nodes, NEW u \in Nodes,
                      NEW p \in DOMAIN requests'[c][t], NEW q \in DOMAIN requests'[d][u],
                      requests'[c][t][p].call = requests'[d][u][q].call
               PROVE  c = d /\ t = u /\ p = q
    BY DEF QueuedOnce
  <2>1. \/ p \in DOMAIN requests[c][t] /\ requests'[c][t][p] = requests[c][t][p]
        \/ c = n /\ t = s /\ p = Len(requests[n][s]) + 1 /\ requests'[c][t][p].call = i
    BY SendQueues
  <2>2. \/ q \in DOMAIN requests[d][u] /\ requests'[d][u][q] = requests[d][u][q]
        \/ d = n /\ u = s /\ q = Len(requests[n][s]) + 1 /\ requests'[d][u][q].call = i
    BY SendQueues
  <2>3. CASE p \in DOMAIN requests[c][t] /\ requests'[c][t][p] = requests[c][t][p]
    <3>1. requests[c][t][p].call # i
      BY <1>9, <2>3
    <3>2. q \in DOMAIN requests[d][u] /\ requests'[d][u][q] = requests[d][u][q]
      BY <2>2, <2>3, <3>1
    <3> QED BY <2>3, <3>2 DEF QueuedOnce
  <2>4. CASE c = n /\ t = s /\ p = Len(requests[n][s]) + 1 /\ requests'[c][t][p].call = i
    <3>1. ~(q \in DOMAIN requests[d][u] /\ requests'[d][u][q] = requests[d][u][q])
      BY <1>9, <2>4
    <3> QED BY <2>2, <2>4, <3>1
  <2> QED BY <2>1, <2>3, <2>4
<1> QED BY <1>4, <1>5, <1>6, <1>7, <1>8, <1>10, <1>11

\* The reply on the connector of a waiting node is the one it waits for, alone.
LEMMA AwaitedReply ==
  ASSUME LeafInv, NEW n \in Nodes, NEW w \in Frame, WaitsIn(stack[n], w.peer, w.call),
         w.peer \in Nodes, replies[n][w.peer] # <<>>
  PROVE  /\ Head(replies[n][w.peer]) = w.call /\ stage[w.call] = "answered"
         /\ DOMAIN Tail(replies[n][w.peer]) = {}
<1> DEFINE q == replies[n][w.peer]
<1>1. TypeOK /\ RepliedInv /\ LeafStack(stack[n])
  BY DEF LeafInv, Shapes
<1>2. q \in Seq(Calls)
  BY <1>1, QueueElements
<1>3. 1 \in DOMAIN q /\ Head(q) = q[1]
  BY <1>2, First
<1>4. WaitsIn(stack[n], w.peer, q[1]) /\ stage[q[1]] = "answered"
  BY <1>1, <1>3 DEF RepliedInv
<1>5. q[1] = w.call
  BY <1>1, <1>4, OneWait
<1>6. ASSUME NEW p \in DOMAIN Tail(q) PROVE FALSE
  <2>1. p \in Nat \ {0} /\ p + 1 \in DOMAIN q
    BY <1>2, Rest
  <2>2. p + 1 = 1
    BY <1>1, <2>1 DEF RepliedInv
  <2> QED BY <2>1, <2>2
<1> QED BY <1>3, <1>4, <1>5, <1>6

LEMMA ReceiveReplyStep ==
  ASSUME LeafInv, TypeOK', NEW n \in Nodes, ReceiveReply(n)
  PROVE  LeafInv'
<1> USE DEF LeafInv
<1>1. PICK w \in Frame : stack[n] = <<w>> /\ Waiting(w)
  <2>1. IsTop(n, {"sent", "checked"}) /\ {"sent", "checked"} \subseteq WaitPoints
    BY DEF ReceiveReply, WaitPoints
  <2> QED BY <2>1, WaitStack
<1>2. w.call \in Calls /\ w.peer \in Nodes
  BY DEF Frame
<1>3. /\ \A s, i : WaitsIn(stack[n], s, i) <=> w.peer = s /\ w.call = i
      /\ \A c, i, k : ~ServesIn(stack[n], c, i, k)
      /\ Head(stack[n]) = w /\ Tail(stack[n]) = <<>>
  <2>1. ~Serving(w)
    BY <1>1 DEF Waiting, Serving, WaitPoints, ServePoints
  <2> QED BY <1>1, <2>1, OneFrame
<1>4. replies[n][w.peer] # <<>>
  BY <1>3 DEF ReceiveReply
<1>5. /\ Head(replies[n][w.peer]) = w.call /\ stage[w.call] = "answered"
      /\ DOMAIN Tail(replies[n][w.peer]) = {}
  BY <1>2, <1>3, <1>4, AwaitedReply
<1>6. /\ result' = [result EXCEPT ![w.call] = w.call]
      /\ replies' = [replies EXCEPT ![n][w.peer] = Tail(@)]
      /\ stack' = [stack EXCEPT ![n] = <<>>]
      /\ UNCHANGED <<requests, lastSender, stage>>
  BY <1>3, <1>5 DEF ReceiveReply, Consume
<1> HIDE DEF LeafInv
<1>7. /\ TypeOK /\ Shapes /\ WaitedInv /\ QueuedInv /\ ServedInv /\ RepliedInv /\ ResultInv
      /\ WaitedOnce /\ QueuedOnce /\ ServedOnce
  BY DEF LeafInv
<1>8. /\ stack'[n] = <<>>
      /\ \A m \in Nodes : m # n => stack'[m] = stack[m]
  BY <1>6, <1>7 DEF TypeOK
<1>9. /\ \A c, s \in Nodes, i \in Calls : WaitsIn(stack'[c], s, i) <=> c # n /\ WaitsIn(stack[c], s, i)
      /\ \A m, c \in Nodes, i \in Calls, k \in AllKinds :
           ServesIn(stack'[m], c, i, k) <=> ServesIn(stack[m], c, i, k)
  BY <1>3, <1>8, EmptyStack
<1>10. Shapes'
  BY <1>7, <1>8 DEF Shapes, LeafStack
<1>11. /\ \A i \in Calls : i # w.call => result'[i] = result[i]
       /\ result'[w.call] = w.call
  BY <1>2, <1>6, <1>7 DEF TypeOK
<1>12. WaitedInv'
  <2> SUFFICES ASSUME NEW c \in Nodes, NEW s \in Nodes, NEW i \in Calls, WaitsIn(stack'[c], s, i)
               PROVE  stage[i] # "unsent" /\ result'[i] = None
    BY <1>6 DEF WaitedInv
  <2>1. c # n /\ WaitsIn(stack[c], s, i)
    BY <1>9
  <2>2. i # w.call
    BY <1>2, <1>3, <1>7, <2>1 DEF WaitedOnce
  <2> QED BY <1>7, <1>11, <2>1, <2>2 DEF WaitedInv
<1>13. WaitedOnce'
  BY <1>7, <1>9 DEF WaitedOnce
<1>14. QueuedInv'
  <2> SUFFICES ASSUME NEW c \in Nodes, NEW s \in Nodes, NEW p \in DOMAIN requests[c][s]
               PROVE  LET m == requests[c][s][p] IN
                        stage[m.call] = "sent" /\ (m.kind # "async" => WaitsIn(stack'[c], s, m.call))
    BY <1>6 DEF QueuedInv
  <2>1. requests[c][s][p].call \in Calls
    BY <1>7, QueueElements
  <2> QED BY <1>3, <1>5, <1>7, <1>9, <2>1 DEF QueuedInv
<1>15. ServedInv'
  BY <1>3, <1>5, <1>6, <1>7, <1>9 DEF ServedInv
<1>16. RepliedInv'
  <2> SUFFICES ASSUME NEW c \in Nodes, NEW s \in Nodes, NEW p \in DOMAIN replies'[c][s]
               PROVE  /\ p = 1 /\ stage[replies'[c][s][p]] = "answered"
                      /\ WaitsIn(stack'[c], s, replies'[c][s][p])
    BY <1>6 DEF RepliedInv
  <2>1. ~(c = n /\ s = w.peer) /\ replies'[c][s] = replies[c][s]
    <3>1. replies' = [replies EXCEPT ![n][w.peer] = Tail(replies[n][w.peer])]
      BY <1>6
    <3> DEFINE rest == Tail(replies[n][w.peer])
    <3>2. replies'[c][s] = IF c = n /\ s = w.peer THEN rest ELSE replies[c][s]
      <4>1. replies \in [Nodes -> [Nodes -> Seq(Calls)]]
        BY <1>7 DEF TypeOK
      <4> HIDE DEF rest
      <4> QED BY <1>2, <3>1, <4>1, OneQueue DEF rest
    <3> QED BY <1>5, <3>2
  <2>2. replies[c][s][p] \in Calls
    BY <1>7, <2>1, QueueElements
  <2> QED BY <1>3, <1>7, <1>9, <2>1, <2>2 DEF RepliedInv
<1>17. ResultInv'
  BY <1>2, <1>5, <1>6, <1>7, <1>11 DEF ResultInv
<1>18. QueuedOnce' /\ ServedOnce'
  BY <1>6, <1>7, <1>9 DEF QueuedOnce, ServedOnce
<1> QED BY <1>10, <1>12, <1>13, <1>14, <1>15, <1>16, <1>17, <1>18 DEF LeafInv

LEMMA DispatchStep ==
  ASSUME LeafInv, TypeOK', NEW n \in Nodes, NEW c \in Nodes, Dispatch(n, c)
  PROVE  LeafInv'
<1> DEFINE q == requests[c][n]
           m == Head(q)
           f == [call |-> m.call, peer |-> c, kind |-> m.kind, at |-> "running"]
<1>1. /\ TypeOK /\ Shapes /\ WaitedInv /\ QueuedInv /\ ServedInv /\ RepliedInv /\ ResultInv
      /\ WaitedOnce /\ QueuedOnce /\ ServedOnce
  BY DEF LeafInv
<1>2. q \in Seq(Request) /\ q # <<>>
  BY <1>1, QueueElements DEF Dispatch
<1>3. 1 \in DOMAIN q /\ m = q[1] /\ m.call \in Calls /\ m.kind \in AllKinds
  BY <1>1, <1>2, First, QueueElements
<1>4. stage[m.call] = "sent" /\ (m.kind # "async" => WaitsIn(stack[c], n, m.call))
  BY <1>1, <1>3 DEF QueuedInv
<1>5. f \in Frame /\ f.at = "running" /\ f.peer = c /\ f.call = m.call /\ f.kind = m.kind
  BY <1>3 DEF Frame, ServePoints
<1>6. /\ stack' = [stack EXCEPT ![n] = <<f>> \o Reacted(stack[n])]
      /\ stage' = [stage EXCEPT ![m.call] = "serving"]
      /\ requests' = [requests EXCEPT ![c][n] = Tail(q)]
      /\ lastSender' = [lastSender EXCEPT ![n] = c]
      /\ UNCHANGED <<replies, result>>
      /\ MayReact(n)
  BY DEF Dispatch, SaveSender
<1>7. /\ stack'[n] = <<f>> \o Reacted(stack[n])
      /\ \A d \in Nodes : d # n => stack'[d] = stack[d]
  BY <1>1, <1>6 DEF TypeOK
<1> HIDE DEF f, m
<1>8. /\ LeafStack(stack'[n])
      /\ \A s, i : WaitsIn(stack'[n], s, i) <=> WaitsIn(stack[n], s, i)
      /\ \A d, i, k : ServesIn(stack'[n], d, i, k) <=> d = c /\ i = m.call /\ k = m.kind
      /\ \A d, i, k : ~ServesIn(stack[n], d, i, k)
  <2>1. /\ LeafStack(stack'[n])
        /\ \A s, i : WaitsIn(stack'[n], s, i) <=> WaitsIn(stack[n], s, i)
        /\ \A d, i, k : ServesIn(stack'[n], d, i, k) <=> f.peer = d /\ f.call = i /\ f.kind = k
        /\ \A d, i, k : ~ServesIn(stack[n], d, i, k)
    <3>1. Shapes /\ MayReact(n) /\ f \in Frame /\ f.at = "running"
      BY <1>1, <1>5, <1>6
    <3> HIDE DEF q
    <3> QED BY <1>7, <3>1, DispatchStack
  <2> QED BY <1>5, <2>1
<1>9. /\ \A d, s \in Nodes, i \in Calls : WaitsIn(stack'[d], s, i) <=> WaitsIn(stack[d], s, i)
      /\ \A e, d \in Nodes, i \in Calls, k \in AllKinds :
           ServesIn(stack'[e], d, i, k)
             <=> \/ e = n /\ d = c /\ i = m.call /\ k = m.kind
                 \/ e # n /\ ServesIn(stack[e], d, i, k)
  BY <1>7, <1>8
<1>10. Shapes'
  BY <1>1, <1>7, <1>8 DEF Shapes
<1>11. stage'[m.call] = "serving" /\ \A i \in Calls : i # m.call => stage'[i] = stage[i]
  BY <1>1, <1>3, <1>6 DEF TypeOK
<1>12. WaitedInv' /\ WaitedOnce'
  BY <1>1, <1>6, <1>9, <1>11 DEF WaitedInv, WaitedOnce
<1>13. ResultInv'
  BY <1>1, <1>4, <1>6, <1>11 DEF ResultInv
<1>14. RepliedInv'
  <2> SUFFICES ASSUME NEW d \in Nodes, NEW s \in Nodes, NEW p \in DOMAIN replies[d][s]
               PROVE  /\ p = 1 /\ stage'[replies[d][s][p]] = "answered"
                      /\ WaitsIn(stack'[d], s, replies[d][s][p])
    BY <1>6 DEF RepliedInv
  <2>1. replies[d][s][p] \in Calls
    BY <1>1, QueueElements
  <2> QED BY <1>1, <1>4, <1>9, <1>11, <2>1 DEF RepliedInv
<1>15. ServedInv'
  <2> SUFFICES ASSUME NEW e \in Nodes, NEW d \in Nodes, NEW i \in Calls, NEW k \in AllKinds,
                      ServesIn(stack'[e], d, i, k)
               PROVE  stage'[i] = "serving" /\ lastSender'[e] = d
                      /\ (k # "async" => WaitsIn(stack'[d], e, i))
    BY DEF ServedInv
  <2>1. CASE e = n
    <3>1. d = c /\ i = m.call /\ k = m.kind
      BY <1>9, <2>1
    <3>2. lastSender'[n] = c
      BY <1>1, <1>6 DEF TypeOK
    <3> QED BY <1>3, <1>4, <1>9, <1>11, <2>1, <3>1, <3>2
  <2>2. CASE e # n
    <3>1. ServesIn(stack[e], d, i, k)
      BY <1>9, <2>2
    <3>2. lastSender'[e] = lastSender[e]
      BY <1>1, <1>6, <2>2 DEF TypeOK
    <3> QED BY <1>1, <1>4, <1>9, <1>11, <3>1, <3>2 DEF ServedInv
  <2> QED BY <2>1, <2>2
<1>16. ServedOnce'
  <2> SUFFICES ASSUME NEW e \in Nodes, NEW g \in Nodes, NEW d \in Nodes, NEW h \in Nodes,
                      NEW i \in Calls, NEW k \in AllKinds, NEW l \in AllKinds,
                      ServesIn(stack'[e], d, i, k), ServesIn(stack'[g], h, i, l)
               PROVE  e = g
    BY DEF ServedOnce
  <2>1. \/ e = n /\ i = m.call
        \/ ServesIn(stack[e], d, i, k) /\ stage[i] = "serving"
    BY <1>1, <1>9 DEF ServedInv
  <2>2. \/ g = n /\ i = m.call
        \/ ServesIn(stack[g], h, i, l) /\ stage[i] = "serving"
    BY <1>1, <1>9 DEF ServedInv
  <2> QED BY <1>1, <1>4, <2>1, <2>2 DEF ServedOnce
\* A request left in a queue was there before, behind the one that was taken.
<1>17. ASSUME NEW d \in Nodes, NEW s \in Nodes, NEW p \in DOMAIN requests'[d][s]
       PROVE  \E r \in DOMAIN requests[d][s] :
                /\ requests'[d][s][p] = requests[d][s][r]
                /\ ~(d = c /\ s = n /\ r = 1)
                /\ r = IF d = c /\ s = n THEN p + 1 ELSE p
  <2>1. CASE d = c /\ s = n
    <3>1. requests'[d][s] = Tail(q) /\ requests[d][s] = q
      BY <1>1, <1>6, <2>1 DEF TypeOK
    <3>2. p \in Nat \ {0} /\ p + 1 \in DOMAIN q /\ Tail(q)[p] = q[p + 1]
      BY <1>2, <3>1, Rest
    <3>3. p + 1 # 1
      BY <3>2
    <3> QED BY <2>1, <3>1, <3>2, <3>3
  <2>2. CASE ~(d = c /\ s = n)
    <3>1. requests'[d][s] = requests[d][s]
      BY <1>1, <1>6, <2>2 DEF TypeOK
    <3> QED BY <2>2, <3>1
  <2> QED BY <2>1, <2>2
<1>18. QueuedInv'
  <2> SUFFICES ASSUME NEW d \in Nodes, NEW s \in Nodes, NEW p \in DOMAIN requests'[d][s]
               PROVE  LET x == requests'[d][s][p] IN
                        stage'[x.call] = "sent" /\ (x.kind # "async" => WaitsIn(stack'[d], s, x.call))
    BY DEF QueuedInv
  <2>1. PICK r \in DOMAIN requests[d][s] :
          requests'[d][s][p] = requests[d][s][r] /\ ~(d = c /\ s = n /\ r = 1)
    BY <1>17
  <2>2. requests[d][s][r].call \in Calls /\ requests[d][s][r].call # m.call
    BY <1>1, <1>3, <2>1, QueueElements DEF QueuedOnce
  <2> QED BY <1>1, <1>9, <1>11, <2>1, <2>2 DEF QueuedInv
<1>19. QueuedOnce'
  <2> SUFFICES ASSUME NEW d \in Nodes, NEW e \in Nodes, NEW s \in Nodes, NEW t \in Nodes,
                      NEW p \in DOMAIN requests'[d][s], NEW g \in DOMAIN requests'[e][t],
                      requests'[d][s][p].call = requests'[e][t][g].call
               PROVE  d = e /\ s = t /\ p = g
    BY DEF QueuedOnce
  <2>1. PICK r \in DOMAIN requests[d][s] :
          requests'[d][s][p] = requests[d][s][r] /\ r = IF d = c /\ s = n THEN p + 1 ELSE p
    BY <1>17
  <2>2. PICK u \in DOMAIN requests[e][t] :
          requests'[e][t][g] = requests[e][t][u] /\ u = IF e = c /\ t = n THEN g + 1 ELSE g
    BY <1>17
  <2>3. d = e /\ s = t /\ r = u
    BY <1>1, <2>1, <2>2 DEF QueuedOnce
  <2>4. p \in Nat /\ g \in Nat
    <3>1. requests'[d][s] \in Seq(Request) /\ requests'[e][t] \in Seq(Request)
      BY DEF TypeOK
    <3> QED BY <3>1, LenProperties
  <2> QED BY <2>1, <2>2, <2>3, <2>4
<1> QED BY <1>10, <1>12, <1>13, <1>14, <1>15, <1>16, <1>18, <1>19 DEF LeafInv

\* Steps within a wait: the loop of handleSynchRequest goes on.
LEMMA WaitStep ==
  ASSUME LeafInv, TypeOK', NEW n \in Nodes, NEW at, at \subseteq WaitPoints, IsTop(n, at),
         NEW p \in WaitPoints, stack' = [stack EXCEPT ![n] = [stack[n] EXCEPT ![1].at = p]],
         \A m \in Nodes : m # n => lastSender'[m] = lastSender[m],
         UNCHANGED <<requests, replies, stage, result>>
  PROVE  LeafInv'
<1> DEFINE next == [stack[n] EXCEPT ![1].at = p]
<1>1. TypeOK /\ Shapes
  BY DEF LeafInv
<1>2. PICK w \in Frame : stack[n] = <<w>> /\ Waiting(w)
  BY <1>1, WaitStack
<1>3. /\ LeafStack(next)
      /\ \A s, i : WaitsIn(next, s, i) <=> WaitsIn(stack[n], s, i)
      /\ \A c, i, k : ~ServesIn(next, c, i, k) /\ ~ServesIn(stack[n], c, i, k)
  BY <1>2, SameWait
<1> HIDE DEF next
<1>4. stack'[n] = next /\ \A m \in Nodes : m # n => stack'[m] = stack[m]
  BY <1>1 DEF TypeOK, next
<1>5. Shapes'
  BY <1>1, <1>3, <1>4 DEF Shapes
<1>6. \A m, s \in Nodes, i \in Calls : WaitsIn(stack'[m], s, i) <=> WaitsIn(stack[m], s, i)
  BY <1>3, <1>4
<1>7. \A m, c \in Nodes, i \in Calls, k \in AllKinds :
        ServesIn(stack'[m], c, i, k) <=> ServesIn(stack[m], c, i, k)
  BY <1>3, <1>4
<1>8. \A m, c \in Nodes, i \in Calls, k \in AllKinds :
        ServesIn(stack[m], c, i, k) => lastSender'[m] = lastSender[m]
  BY <1>3
<1> QED BY <1>5, <1>6, <1>7, <1>8, QuietStep

LEMMA AsynchStep ==
  ASSUME LeafInv, TypeOK', NEW n \in Nodes, NEW s \in Nodes, NEW i \in Calls, AsynchRequest(n, s, i)
  PROVE  LeafInv'
<1>1. /\ Send(n, s, i, "async")
      /\ UNCHANGED <<replies, lastSender, result>>
      /\ stack' = stack
  BY DEF AsynchRequest
<1>2. Shapes'
  BY <1>1 DEF LeafInv, Shapes
<1> QED BY <1>1, <1>2, SendStep

LEMMA SynchStep ==
  ASSUME Leaf, LeafInv, TypeOK', NEW n \in Nodes, NEW s \in Nodes, NEW i \in Calls,
         NEW k \in AllKinds, SynchRequest(n, s, i, k)
  PROVE  LeafInv'
<1> DEFINE w == [call |-> i, peer |-> s, kind |-> k, at |-> "sent"]
<1>1. TypeOK /\ Shapes
  BY DEF LeafInv
<1>2. stack[n] = <<>>
  BY DEF SynchRequest, MayIssue, Leaf
<1>3. w \in Frame /\ Waiting(w) /\ ~Serving(w) /\ w.at # "raised" /\ w.peer = s /\ w.call = i
  BY DEF Frame, Waiting, Serving, WaitPoints, ServePoints
<1>4. /\ Send(n, s, i, k) /\ k # "async"
      /\ UNCHANGED <<replies, lastSender, result>>
      /\ stack' = [stack EXCEPT ![n] = <<w>> \o @]
  BY DEF SynchRequest
<1> HIDE DEF w
<1>5. stack'[n] = <<w>> /\ \A m \in Nodes : m # n => stack'[m] = stack[m]
  <2>1. <<w>> \o <<>> = <<w>>
    OBVIOUS
  <2> QED BY <1>1, <1>2, <1>4, <2>1 DEF TypeOK
<1>6. /\ \A t, j : WaitsIn(stack'[n], t, j) <=> t = s /\ j = i
      /\ \A c, j, l : ~ServesIn(stack'[n], c, j, l)
  BY <1>3, <1>5, OneFrame
<1>7. \A t, j, l : ~WaitsIn(stack[n], t, j) /\ ~ServesIn(stack[n], t, j, l)
  BY <1>2, EmptyStack
<1>8. LeafStack(stack'[n])
  BY <1>3, <1>5 DEF LeafStack
<1>9. Shapes'
  BY <1>1, <1>5, <1>8 DEF Shapes
<1>10. \A c, t \in Nodes, j \in Calls :
         WaitsIn(stack'[c], t, j)
           <=> WaitsIn(stack[c], t, j) \/ (k # "async" /\ c = n /\ t = s /\ j = i)
  BY <1>4, <1>5, <1>6, <1>7
<1>11. \A m, c \in Nodes, j \in Calls, l \in AllKinds :
         ServesIn(stack'[m], c, j, l) <=> ServesIn(stack[m], c, j, l)
  BY <1>5, <1>6, <1>7
<1> QED BY <1>4, <1>9, <1>10, <1>11, SendStep

\* The end of a service, but for what it does to the replies.
LEMMA EndStep ==
  ASSUME LeafInv, TypeOK', NEW n \in Nodes, IsTop(n, ServePoints),
         NEW g, g \in {"answered", "unanswered"},
         stack' = [stack EXCEPT ![n] = Tail(@)],
         stage' = [stage EXCEPT ![Head(stack[n]).call] = g],
         UNCHANGED <<requests, result>>,
         \A m \in Nodes : m # n => lastSender'[m] = lastSender[m],
         RepliedInv'
  PROVE  LeafInv'
<1> DEFINE f == Head(stack[n])
<1>1. /\ TypeOK /\ Shapes /\ WaitedInv /\ QueuedInv /\ ServedInv /\ RepliedInv /\ ResultInv
      /\ WaitedOnce /\ QueuedOnce /\ ServedOnce
  BY DEF LeafInv
<1>2. /\ f \in Frame
      /\ ServesIn(stack[n], f.peer, f.call, f.kind)
      /\ LeafStack(Tail(stack[n]))
      /\ \A c, i, k : ~ServesIn(Tail(stack[n]), c, i, k)
      /\ \A s, i : WaitsIn(Tail(stack[n]), s, i) <=> WaitsIn(stack[n], s, i)
  BY <1>1, ServeStack
<1>3. f.call \in Calls /\ f.peer \in Nodes /\ f.kind \in AllKinds
  BY <1>2 DEF Frame
<1>4. stage[f.call] = "serving"
  BY <1>1, <1>2, <1>3 DEF ServedInv
<1> HIDE DEF f
<1>5. stack'[n] = Tail(stack[n]) /\ \A m \in Nodes : m # n => stack'[m] = stack[m]
  BY <1>1 DEF TypeOK
<1>6. stage'[f.call] = g /\ \A i \in Calls : i # f.call => stage'[i] = stage[i]
  BY <1>1, <1>3 DEF TypeOK, f
<1>7. /\ \A c, s \in Nodes, i \in Calls : WaitsIn(stack'[c], s, i) <=> WaitsIn(stack[c], s, i)
      /\ \A m, c \in Nodes, i \in Calls, k \in AllKinds :
           ServesIn(stack'[m], c, i, k) <=> m # n /\ ServesIn(stack[m], c, i, k)
  BY <1>2, <1>5
<1>8. Shapes'
  BY <1>1, <1>2, <1>5 DEF Shapes
<1>9. WaitedInv' /\ WaitedOnce' /\ ResultInv' /\ QueuedOnce' /\ ServedOnce'
  <2>1. g # "unsent"
    OBVIOUS
  <2> QED BY <1>1, <1>4, <1>6, <1>7, <2>1
          DEF WaitedInv, WaitedOnce, ResultInv, QueuedOnce, ServedOnce
<1>10. QueuedInv'
  <2> SUFFICES ASSUME NEW c \in Nodes, NEW s \in Nodes, NEW p \in DOMAIN requests[c][s]
               PROVE  LET m == requests[c][s][p] IN
                        stage'[m.call] = "sent" /\ (m.kind # "async" => WaitsIn(stack'[c], s, m.call))
    BY DEF QueuedInv
  <2>1. requests[c][s][p].call \in Calls
    BY <1>1, QueueElements
  <2> QED BY <1>1, <1>4, <1>6, <1>7, <2>1 DEF QueuedInv
<1>11. ServedInv'
  <2> SUFFICES ASSUME NEW m \in Nodes, NEW c \in Nodes, NEW i \in Calls, NEW k \in AllKinds,
                      ServesIn(stack'[m], c, i, k)
               PROVE  stage'[i] = "serving" /\ lastSender'[m] = c
                      /\ (k # "async" => WaitsIn(stack'[c], m, i))
    BY DEF ServedInv
  <2>1. m # n /\ ServesIn(stack[m], c, i, k)
    BY <1>7
  <2>2. i # f.call
    BY <1>1, <1>2, <1>3, <2>1 DEF ServedOnce, f
  <2> QED BY <1>1, <1>6, <1>7, <2>1, <2>2 DEF ServedInv
<1> QED BY <1>1, <1>8, <1>9, <1>10, <1>11 DEF LeafInv

LEMMA ReturnNothingStep ==
  ASSUME LeafInv, TypeOK', NEW n \in Nodes, ReturnNothing(n)
  PROVE  LeafInv'
<1> DEFINE f == Head(stack[n])
<1>1. TypeOK /\ Shapes /\ RepliedInv /\ ServedInv
  BY DEF LeafInv
<1>2. /\ IsTop(n, ServePoints)
      /\ stack' = [stack EXCEPT ![n] = Tail(@)]
      /\ stage' = [stage EXCEPT ![f.call] = "unanswered"]
      /\ UNCHANGED <<requests, replies, lastSender, result>>
  BY DEF ReturnNothing
<1>3. /\ f \in Frame /\ ServesIn(stack[n], f.peer, f.call, f.kind)
      /\ \A s, i : WaitsIn(Tail(stack[n]), s, i) <=> WaitsIn(stack[n], s, i)
  BY <1>1, <1>2, ServeStack
<1>4. f.call \in Calls /\ stage[f.call] = "serving"
  BY <1>1, <1>3 DEF ServedInv, Frame
<1>5. stack'[n] = Tail(stack[n]) /\ \A m \in Nodes : m # n => stack'[m] = stack[m]
  BY <1>1, <1>2 DEF TypeOK
<1> HIDE DEF f
<1>6. \A i \in Calls : stage[i] = "answered" => stage'[i] = "answered"
  BY <1>1, <1>2, <1>4 DEF TypeOK
<1>7. RepliedInv'
  <2> SUFFICES ASSUME NEW c \in Nodes, NEW s \in Nodes, NEW p \in DOMAIN replies[c][s]
               PROVE  /\ p = 1 /\ stage'[replies[c][s][p]] = "answered"
                      /\ WaitsIn(stack'[c], s, replies[c][s][p])
    BY <1>2 DEF RepliedInv
  <2>1. replies[c][s][p] \in Calls
    BY <1>1, QueueElements
  <2>2. WaitsIn(stack'[c], s, replies[c][s][p]) <=> WaitsIn(stack[c], s, replies[c][s][p])
    BY <1>3, <1>5
  <2> QED BY <1>1, <1>6, <2>1, <2>2 DEF RepliedInv
<1>8. /\ stage' = [stage EXCEPT ![Head(stack[n]).call] = "unanswered"]
      /\ UNCHANGED <<requests, result>>
      /\ \A m \in Nodes : m # n => lastSender'[m] = lastSender[m]
      /\ "unanswered" \in {"answered", "unanswered"}
  BY <1>2 DEF f
<1> QED BY <1>2, <1>7, <1>8, EndStep

\* The connector that a reply is sent to is empty: only one reply can be awaited
\* there, and the call that is served has none yet.
LEMMA ReplyStep ==
  ASSUME LeafInv, TypeOK', NEW n \in Nodes, Reply(n)
  PROVE  LeafInv'
<1> DEFINE f == Head(stack[n])
           q == replies[f.peer][n]
<1>1. TypeOK /\ Shapes /\ RepliedInv /\ ServedInv
  BY DEF LeafInv
<1>2. /\ IsTop(n, ServePoints) /\ f.kind # "async"
      /\ stack' = [stack EXCEPT ![n] = Tail(@)]
      /\ stage' = [stage EXCEPT ![f.call] = "answered"]
      /\ SendReply(n, f.call)
      /\ UNCHANGED <<requests, result>>
  BY DEF Reply, HasReply
<1>3. /\ f \in Frame /\ ServesIn(stack[n], f.peer, f.call, f.kind)
      /\ \A s, i : WaitsIn(Tail(stack[n]), s, i) <=> WaitsIn(stack[n], s, i)
  BY <1>1, <1>2, ServeStack
<1>4. f.call \in Calls /\ f.peer \in Nodes /\ f.kind \in AllKinds
  BY <1>3 DEF Frame
<1>5. stage[f.call] = "serving" /\ lastSender[n] = f.peer /\ WaitsIn(stack[f.peer], n, f.call)
  BY <1>1, <1>2, <1>3, <1>4 DEF ServedInv
<1>6. /\ replies' = [replies EXCEPT ![f.peer][n] = Append(q, f.call)]
      /\ \A m \in Nodes : m # n => lastSender'[m] = lastSender[m]
  <2>1. lastSender[n] # None
    BY <1>4, <1>5, RpcAssumption
  <2> QED BY <1>1, <1>2, <1>5, <2>1 DEF SendReply, TypeOK
<1>7. stack'[n] = Tail(stack[n]) /\ \A m \in Nodes : m # n => stack'[m] = stack[m]
  BY <1>1, <1>2 DEF TypeOK
<1>8. stage'[f.call] = "answered" /\ \A i \in Calls : i # f.call => stage'[i] = stage[i]
  BY <1>1, <1>2, <1>4 DEF TypeOK
<1>9. q \in Seq(Calls) /\ DOMAIN q = {}
  <2>1. ASSUME NEW p \in DOMAIN q PROVE FALSE
    <3>1. stage[q[p]] = "answered" /\ WaitsIn(stack[f.peer], n, q[p])
      BY <1>1, <1>4, <2>1 DEF RepliedInv
    <3>2. q[p] = f.call
      BY <1>1, <1>4, <1>5, <3>1, OneWait DEF Shapes
    <3> QED BY <1>5, <3>1, <3>2
  <2> QED BY <1>1, <1>4, <2>1, QueueElements
<1>10. DOMAIN Append(q, f.call) = {1} /\ Append(q, f.call)[1] = f.call
  <2>1. Len(q) = 0
    BY <1>9, NoElement
  <2> HIDE DEF q, f
  <2>2. /\ Append(q, f.call) \in Seq(Calls) /\ Len(Append(q, f.call)) = 1
        /\ Append(q, f.call)[1] = f.call
    BY <1>4, <1>9, <2>1, AppendProperties
  <2>3. DOMAIN Append(q, f.call) = 1..1
    BY <2>2, LenProperties
  <2> QED BY <2>2, <2>3
<1>11. RepliedInv'
  <2> SUFFICES ASSUME NEW c \in Nodes, NEW s \in Nodes, NEW p \in DOMAIN replies'[c][s]
               PROVE  /\ p = 1 /\ stage'[replies'[c][s][p]] = "answered"
                      /\ WaitsIn(stack'[c], s, replies'[c][s][p])
    BY DEF RepliedInv
  <2>0. replies'[c][s] = IF c = f.peer /\ s = n THEN Append(q, f.call) ELSE replies[c][s]
    <3> DEFINE more == Append(q, f.call)
    <3>1. replies \in [Nodes -> [Nodes -> Seq(Calls)]] /\ replies' = [replies EXCEPT ![f.peer][n] = more]
      BY <1>1, <1>6 DEF TypeOK
    <3> HIDE DEF more, f
    <3>2. replies'[c][s] = IF c = f.peer /\ s = n THEN more ELSE replies[c][s]
      BY <1>4, <3>1, OneQueue
    <3> QED BY <3>2 DEF more
  <2>1. \A i : WaitsIn(stack'[c], s, i) <=> WaitsIn(stack[c], s, i)
    BY <1>3, <1>7
  <2>2. CASE c = f.peer /\ s = n
    <3>1. replies'[c][s] = Append(q, f.call)
      BY <2>0, <2>2
    <3>2. p = 1 /\ replies'[c][s][p] = f.call
      BY <1>10, <3>1
    <3> QED BY <1>5, <1>8, <2>1, <2>2, <3>2
  <2>3. CASE ~(c = f.peer /\ s = n)
    <3>1. replies'[c][s] = replies[c][s]
      BY <2>0, <2>3
    <3>2. replies[c][s][p] \in Calls
      BY <1>1, <3>1, QueueElements
    <3> QED BY <1>1, <1>5, <1>8, <2>1, <3>1, <3>2 DEF RepliedInv
  <2> QED BY <2>2, <2>3
<1>12. /\ stage' = [stage EXCEPT ![Head(stack[n]).call] = "answered"]
       /\ UNCHANGED <<requests, result>>
       /\ "answered" \in {"answered", "unanswered"}
  BY <1>2
<1> QED BY <1>2, <1>6, <1>11, <1>12, EndStep

LEMMA LeafInit == Init => LeafInv
<1> SUFFICES ASSUME Init PROVE LeafInv
  OBVIOUS
<1>1. TypeOK
  BY TypeInit
<1>2. \A n \in Nodes : stack[n] = <<>>
  BY DEF Init
<1>3. \A n \in Nodes : \A c, i, k : ~WaitsIn(stack[n], c, i) /\ ~ServesIn(stack[n], c, i, k)
  BY <1>2, EmptyStack
<1>4. \A c, s \in Nodes : DOMAIN requests[c][s] = {} /\ DOMAIN replies[c][s] = {}
  BY DEF Init
<1>5. \A i \in Calls : result[i] = None
  BY DEF Init
<1>6. Shapes
  BY <1>2 DEF Shapes, LeafStack
<1> QED BY <1>1, <1>3, <1>4, <1>5, <1>6
        DEF LeafInv, WaitedInv, QueuedInv, ServedInv, RepliedInv, ResultInv,
            WaitedOnce, QueuedOnce, ServedOnce

LEMMA LeafNext ==
  ASSUME Leaf
  PROVE  LeafInv /\ [Next]_vars => LeafInv'
<1> SUFFICES ASSUME LeafInv, [Next]_vars PROVE LeafInv'
  OBVIOUS
<1>1. TypeOK'
  BY TypeNext DEF LeafInv
<1>2. ASSUME NEW n \in Nodes, Issue(n) PROVE LeafInv'
  BY <1>1, <1>2, AsynchStep, SynchStep DEF Issue
<1>3. ASSUME NEW n \in Nodes, ReceiveReply(n) PROVE LeafInv'
  BY <1>1, <1>3, ReceiveReplyStep
<1>4. ASSUME NEW n \in Nodes, NoReplyYet(n) PROVE LeafInv'
  <2>1. /\ IsTop(n, {"sent", "checked"}) /\ {"sent", "checked"} \subseteq WaitPoints
        /\ "reacting" \in WaitPoints
        /\ stack' = [stack EXCEPT ![n] = [stack[n] EXCEPT ![1].at = "reacting"]]
        /\ UNCHANGED <<requests, replies, lastSender, stage, result>>
    BY <1>4 DEF NoReplyYet, KeepWaiting, WaitPoints
  <2> QED BY <1>1, <2>1, WaitStep
<1>5. ASSUME NEW n \in Nodes, NEW c \in Nodes, Dispatch(n, c) PROVE LeafInv'
  BY <1>1, <1>5, DispatchStep
<1>6. ASSUME NEW n \in Nodes, NothingToReact(n) PROVE LeafInv'
  <2>1. /\ IsTop(n, {"reacting"}) /\ {"reacting"} \subseteq WaitPoints /\ "checked" \in WaitPoints
        /\ stack' = [stack EXCEPT ![n] = [stack[n] EXCEPT ![1].at = "checked"]]
        /\ UNCHANGED <<requests, replies, stage, result>>
    BY <1>6 DEF NothingToReact, Reacted, WaitPoints, IsTop
  <2>2. \A m \in Nodes : m # n => lastSender'[m] = lastSender[m]
    BY <1>1, <1>6 DEF NothingToReact, LoseSender, TypeOK
  <2> QED BY <1>1, <2>1, <2>2, WaitStep
<1>7. ASSUME NEW n \in Nodes, ReturnNothing(n) PROVE LeafInv'
  BY <1>1, <1>7, ReturnNothingStep
<1>8. ASSUME NEW n \in Nodes, Reply(n) PROVE LeafInv'
  BY <1>1, <1>8, ReplyStep
<1>9. ASSUME NEW n \in Nodes, Throw(n) PROVE LeafInv'
  <2>1. Shapes /\ IsTop(n, ServePoints)
    BY <1>9 DEF LeafInv, Throw
  <2>2. Head(stack[n]).at = "running"
    BY <2>1, ServeStack
  <2> QED BY <1>9, <2>2 DEF Throw, Leaf
<1>10. ASSUME NEW n \in Nodes, ReplyTimeout(n) PROVE LeafInv'
  <2>1. timeouts \in 0..0 /\ timeouts < 0
    BY <1>10 DEF ReplyTimeout, Leaf, LeafInv, TypeOK
  <2> QED BY <2>1
<1>11. CASE UNCHANGED vars
  <2>1. UNCHANGED <<requests, replies, lastSender, stage, result, stack>>
    BY <1>11 DEF vars
  <2>2. Shapes'
    BY <2>1 DEF LeafInv, Shapes
  <2> QED BY <1>1, <2>1, <2>2, QuietStep
<1> QED
  BY <1>2, <1>3, <1>4, <1>5, <1>6, <1>7, <1>8, <1>9, <1>10, <1>11 DEF Next, Step

-----------------------------------------------------------------------------
(* What the properties ask, for any number of nodes and calls.             *)

LEMMA LeafAlways ==
  ASSUME Leaf
  PROVE  Spec => []LeafInv
BY LeafInit, LeafNext, PTL DEF Spec

LEMMA WaitsAwaits ==
  ASSUME NEW n, NEW s, NEW i, WaitsIn(stack[n], s, i)
  PROVE  Awaits(n, i)
BY DEF WaitsIn, Awaits

\* handleSynchRequest returns the reply to its own request, although it asks for
\* none: nothing but that reply ever comes next on its connector.
THEOREM OwnReplies ==
  ASSUME Leaf
  PROVE  Spec => []OwnReply
<1>1. LeafInv => OwnReply
  BY RpcAssumption DEF LeafInv, ResultInv, OwnReply
<1> QED BY <1>1, LeafAlways, PTL

\* sendReply finds the right client in _lastSender: every reply under way is
\* awaited by the client it goes to, at the server it comes from.
THEOREM RepliesHaveWaiters ==
  ASSUME Leaf
  PROVE  Spec => []RepliesAwaited
<1>1. LeafInv => RepliesAwaited
  <2> SUFFICES ASSUME LeafInv, NEW c \in Nodes, NEW s \in Nodes, NEW k \in DOMAIN replies[c][s]
               PROVE  \E d \in DOMAIN stack[c] :
                        /\ Waiting(stack[c][d]) /\ stack[c][d].peer = s
                        /\ stack[c][d].call = replies[c][s][k]
    BY DEF RepliesAwaited
  <2>1. WaitsIn(stack[c], s, replies[c][s][k])
    BY DEF LeafInv, RepliedInv
  <2> QED BY <2>1 DEF WaitsIn
<1> QED BY <1>1, LeafAlways, PTL

\* The frames of a stack of the regime, one by one.
LEMMA LeafFrames ==
  ASSUME NEW st, LeafStack(st)
  PROVE  /\ Len(st) <= 2
         /\ \A d \in DOMAIN st : Serving(st[d]) =>
              st[d] \in Frame /\ ServesIn(st, st[d].peer, st[d].call, st[d].kind)
<1>1. CASE st = <<>>
  BY <1>1
<1>2. ASSUME NEW f \in Frame, st = <<f>>
      PROVE  /\ Len(st) <= 2
             /\ \A d \in DOMAIN st : Serving(st[d]) =>
                  st[d] \in Frame /\ ServesIn(st, st[d].peer, st[d].call, st[d].kind)
  <2>1. Len(st) = 1 /\ DOMAIN st = {1} /\ st[1] = f /\ st # <<>>
    BY <1>2
  <2> QED BY <2>1 DEF ServesIn
<1>3. ASSUME NEW f \in Frame, NEW w \in Frame, st = <<f, w>>, f.at = "running", w.at = "checked"
      PROVE  /\ Len(st) <= 2
             /\ \A d \in DOMAIN st : Serving(st[d]) =>
                  st[d] \in Frame /\ ServesIn(st, st[d].peer, st[d].call, st[d].kind)
  <2>1. Len(st) = 2 /\ DOMAIN st = {1, 2} /\ st[1] = f /\ st[2] = w /\ st # <<>>
    BY <1>3
  <2>2. ~Serving(w)
    BY <1>3 DEF Serving, ServePoints
  <2> QED BY <2>1, <2>2 DEF ServesIn
<1> QED BY <1>1, <1>2, <1>3 DEF LeafStack

\* No service runs for a caller that has gone: the client of a request that is
\* served still waits in handleSynchRequest.
THEOREM ServiceForWaiters ==
  ASSUME Leaf
  PROVE  Spec => []ServedForWaiter
<1>1. LeafInv => ServedForWaiter
  <2> SUFFICES ASSUME LeafInv, NEW s \in Nodes, NEW d \in DOMAIN stack[s],
                      Serving(stack[s][d]), stack[s][d].kind # "async"
               PROVE  Awaits(stack[s][d].peer, stack[s][d].call)
    BY DEF ServedForWaiter
  <2> DEFINE f == stack[s][d]
  <2>1. f \in Frame /\ ServesIn(stack[s], f.peer, f.call, f.kind)
    BY LeafFrames DEF LeafInv, Shapes
  <2>2. f.call \in Calls /\ f.peer \in Nodes /\ f.kind \in AllKinds
    BY <2>1 DEF Frame
  <2>3. WaitsIn(stack[f.peer], s, f.call)
    BY <2>1, <2>2 DEF LeafInv, ServedInv
  <2> QED BY <2>3, WaitsAwaits
<1> QED BY <1>1, LeafAlways, PTL

\* The react of handleSynchRequest does not nest further: one service above one
\* wait, however many requests arrive.
THEOREM ReentrancyBounds ==
  ASSUME Leaf
  PROVE  Spec => []BoundedReentrancy
<1>1. LeafInv => BoundedReentrancy
  BY LeafFrames DEF LeafInv, Shapes, BoundedReentrancy
<1> QED BY <1>1, LeafAlways, PTL

-----------------------------------------------------------------------------
(* Queues, stacks and senders implement remote calls.                      *)

\* A step that takes one call from one phase to another.
LEMMA OneMoves ==
  ASSUME NEW i \in Calls, NEW from, NEW to, Phase(i) = from, Phase(i)' = to,
         \A j \in Calls : j # i => Phase(j)' = Phase(j)
  PROVE  Calling!Move(i, from, to)
<1> DEFINE now == [j \in Calls |-> Phase(j)]
           then == [j \in Calls |-> Phase(j)']
<1>1. then = [now EXCEPT ![i] = to]
  <2> HIDE DEF Phase
  <2> QED OBVIOUS
<1>2. now[i] = from
  OBVIOUS
<1> QED BY <1>1, <1>2 DEF Calling!Move

\* A call's phase changes only with what is known of it.
LEMMA PhaseOf ==
  ASSUME NEW j, stage'[j] = stage[j], result'[j] = result[j]
  PROVE  Phase(j)' = Phase(j)
BY DEF Phase

\* Only a call that was answered may be over for its caller.
OverWhenAnswered == \A j \in Calls : stage[j] # "answered" => result[j] = None

LEMMA MakePhase ==
  ASSUME TypeOK, OverWhenAnswered, NEW n \in Nodes, NEW s \in Nodes, NEW i \in Calls, NEW k,
         Send(n, s, i, k), UNCHANGED result
  PROVE  Calling!Next
<1>1. stage[i] = "unsent" /\ stage'[i] = "sent" /\ \A j \in Calls : j # i => stage'[j] = stage[j]
  BY DEF Send, TypeOK
<1>2. result[i] = None /\ result'[i] = None
  BY <1>1 DEF OverWhenAnswered
<1>3. Phase(i) = "idle" /\ Phase(i)' = "made"
  BY <1>1, <1>2 DEF Phase
<1>4. \A j \in Calls : j # i => Phase(j)' = Phase(j)
  BY <1>1, PhaseOf
<1>5. Calling!Move(i, "idle", "made")
  BY <1>3, <1>4, OneMoves
<1> QED BY <1>5 DEF Calling!Next, Calling!Make

LEMMA BeginPhase ==
  ASSUME TypeOK, OverWhenAnswered, NEW i \in Calls, stage[i] = "sent",
         stage' = [stage EXCEPT ![i] = "serving"], result' = result
  PROVE  Calling!Next
<1>1. stage'[i] = "serving" /\ \A j \in Calls : j # i => stage'[j] = stage[j]
  BY DEF TypeOK
<1>2. result[i] = None /\ result'[i] = None
  BY DEF OverWhenAnswered
<1>3. Phase(i) = "made" /\ Phase(i)' = "executing"
  BY <1>1, <1>2 DEF Phase
<1>4. \A j \in Calls : j # i => Phase(j)' = Phase(j)
  BY <1>1, PhaseOf
<1>5. Calling!Move(i, "made", "executing")
  BY <1>3, <1>4, OneMoves
<1> QED BY <1>5 DEF Calling!Next, Calling!Begin

LEMMA FinishPhase ==
  ASSUME TypeOK, OverWhenAnswered, NEW i \in Calls, stage[i] = "serving",
         NEW g, g \in {"answered", "unanswered"},
         stage' = [stage EXCEPT ![i] = g], result' = result
  PROVE  Calling!Next
<1> DEFINE to == IF g = "answered" THEN "executed" ELSE "over"
<1>1. stage'[i] = g /\ \A j \in Calls : j # i => stage'[j] = stage[j]
  BY DEF TypeOK
<1>2. result[i] = None /\ result'[i] = None
  BY DEF OverWhenAnswered
<1>3. Phase(i) = "executing" /\ Phase(i)' = to
  <2>1. Phase(i) = "executing"
    BY <1>2 DEF Phase
  <2>2. CASE g = "answered"
    BY <1>1, <1>2, <2>1, <2>2 DEF Phase
  <2>3. CASE g = "unanswered"
    BY <1>1, <1>2, <2>1, <2>3 DEF Phase
  <2> QED BY <2>2, <2>3
<1>4. \A j \in Calls : j # i => Phase(j)' = Phase(j)
  BY <1>1, PhaseOf
<1>5. CASE g = "answered"
  BY <1>3, <1>4, <1>5, OneMoves DEF Calling!Next, Calling!Finish
<1>6. CASE g = "unanswered"
  BY <1>3, <1>4, <1>6, OneMoves DEF Calling!Next, Calling!Finish
<1> QED BY <1>5, <1>6

LEMMA ReturnPhase ==
  ASSUME TypeOK, NEW i \in Calls, stage[i] = "answered", result[i] = None,
         result' = [result EXCEPT ![i] = i], stage' = stage
  PROVE  Calling!Next
<1>1. result'[i] = i /\ i # None /\ \A j \in Calls : j # i => result'[j] = result[j]
  BY RpcAssumption DEF TypeOK
<1>2. Phase(i) = "executed" /\ Phase(i)' = "over"
  <2>1. stage[i] = "answered" /\ result[i] = None /\ result'[i] # None
    BY <1>1
  <2>2. Phase(i) = "executed"
    BY <2>1 DEF Phase
  <2>3. Phase(i)' = "over"
    BY <2>1 DEF Phase
  <2> QED BY <2>2, <2>3
<1>3. \A j \in Calls : j # i => Phase(j)' = Phase(j)
  BY <1>1, PhaseOf
<1>4. Calling!Move(i, "executed", "over")
  BY <1>2, <1>3, OneMoves
<1> QED BY <1>4 DEF Calling!Next, Calling!Return

LEMMA PhaseStep ==
  ASSUME Leaf, LeafInv, [Next]_vars
  PROVE  [Calling!Next]_([i \in Calls |-> Phase(i)])
<1>1. TypeOK /\ Shapes /\ WaitedInv /\ QueuedInv /\ ServedInv /\ OverWhenAnswered
  BY DEF LeafInv, ResultInv, OverWhenAnswered
<1>2. ASSUME UNCHANGED <<stage, result>> PROVE UNCHANGED [i \in Calls |-> Phase(i)]
  BY <1>2 DEF Phase
<1>3. ASSUME NEW n \in Nodes, Issue(n) PROVE Calling!Next
  BY <1>1, <1>3, MakePhase DEF Issue, AsynchRequest, SynchRequest
<1>4. ASSUME NEW n \in Nodes, NEW c \in Nodes, Dispatch(n, c) PROVE Calling!Next
  <2> DEFINE q == requests[c][n]
  <2>1. q \in Seq(Request) /\ q # <<>>
    BY <1>1, <1>4, QueueElements DEF Dispatch
  <2>2. 1 \in DOMAIN q /\ Head(q) = q[1] /\ Head(q).call \in Calls
    BY <1>1, <2>1, First, QueueElements
  <2> PICK i \in Calls : i = Head(q).call
    BY <2>2
  <2>3. stage[i] = "sent"
    BY <1>1, <2>2 DEF QueuedInv
  <2>4. stage' = [stage EXCEPT ![i] = "serving"] /\ result' = result
    BY <1>4 DEF Dispatch
  <2> QED BY <1>1, <2>3, <2>4, BeginPhase
<1>5. ASSUME NEW n \in Nodes, ReceiveReply(n) PROVE Calling!Next
  <2>1. IsTop(n, {"sent", "checked"}) /\ {"sent", "checked"} \subseteq WaitPoints
    BY <1>5 DEF ReceiveReply, WaitPoints
  <2>2. PICK w \in Frame : stack[n] = <<w>> /\ Waiting(w)
    BY <1>1, <2>1, WaitStack
  <2>3. w.call \in Calls /\ w.peer \in Nodes
    BY DEF Frame
  <2>4. WaitsIn(stack[n], w.peer, w.call) /\ Head(stack[n]) = w
    BY <2>2, OneFrame
  <2>5. replies[n][w.peer] # <<>>
    BY <1>5, <2>4 DEF ReceiveReply
  <2>6. Head(replies[n][w.peer]) = w.call /\ stage[w.call] = "answered"
    BY <2>3, <2>4, <2>5, AwaitedReply
  <2>7. result[w.call] = None
    BY <1>1, <2>3, <2>4 DEF WaitedInv
  <2>8. result' = [result EXCEPT ![w.call] = w.call] /\ stage' = stage
    BY <1>5, <2>4, <2>6 DEF ReceiveReply
  <2> QED BY <1>1, <2>3, <2>6, <2>7, <2>8, ReturnPhase
<1>6. ASSUME NEW n \in Nodes, IsTop(n, ServePoints), NEW g, g \in {"answered", "unanswered"},
             stage' = [stage EXCEPT ![Head(stack[n]).call] = g], result' = result
      PROVE  Calling!Next
  <2> DEFINE f == Head(stack[n])
  <2>1. f \in Frame /\ ServesIn(stack[n], f.peer, f.call, f.kind)
    BY <1>1, <1>6, ServeStack
  <2>2. f.call \in Calls /\ stage[f.call] = "serving"
    BY <1>1, <2>1 DEF ServedInv, Frame
  <2> PICK i \in Calls : i = f.call
    BY <2>2
  <2> QED BY <1>1, <1>6, <2>2, FinishPhase
<1>7. ASSUME NEW n \in Nodes, ReturnNothing(n) PROVE Calling!Next
  <2>1. /\ IsTop(n, ServePoints) /\ result' = result
        /\ stage' = [stage EXCEPT ![Head(stack[n]).call] = "unanswered"]
    BY <1>7 DEF ReturnNothing
  <2> QED BY <1>6, <2>1
<1>8. ASSUME NEW n \in Nodes, Reply(n) PROVE Calling!Next
  <2>1. /\ IsTop(n, ServePoints) /\ result' = result
        /\ stage' = [stage EXCEPT ![Head(stack[n]).call] = "answered"]
    BY <1>8 DEF Reply
  <2> QED BY <1>6, <2>1
<1>9. ASSUME NEW n \in Nodes, Throw(n) PROVE FALSE
  <2>1. IsTop(n, ServePoints)
    BY <1>9 DEF Throw
  <2>2. Head(stack[n]).at = "running"
    BY <1>1, <2>1, ServeStack
  <2> QED BY <1>9, <2>2 DEF Throw, Leaf
<1>10. ASSUME NEW n \in Nodes, ReplyTimeout(n) PROVE FALSE
  <2>1. timeouts \in 0..0 /\ timeouts < 0
    BY <1>1, <1>10 DEF ReplyTimeout, Leaf, TypeOK
  <2> QED BY <2>1
<1>11. ASSUME NEW n \in Nodes, NoReplyYet(n) \/ NothingToReact(n) PROVE UNCHANGED <<stage, result>>
  BY <1>11 DEF NoReplyYet, NothingToReact
<1>12. UNCHANGED vars => UNCHANGED <<stage, result>>
  BY DEF vars
<1> QED
  BY <1>2, <1>3, <1>4, <1>5, <1>7, <1>8, <1>9, <1>10, <1>11, <1>12 DEF Next, Step

\* Each call is executed once at most, and its caller returns only after that: the
\* queues, stacks and last senders behave as if calls had an identity.
THEOREM Refinement ==
  ASSUME Leaf
  PROVE  Spec => ImplementsRemoteCall
<1>1. Init => Calling!Init
  BY DEF Init, Calling!Init, Phase
<1>2. LeafInv /\ [Next]_vars => [Calling!Next]_([i \in Calls |-> Phase(i)])
  BY PhaseStep
<1> QED BY <1>1, <1>2, LeafAlways, PTL DEF Spec, ImplementsRemoteCall, Calling!Spec

-----------------------------------------------------------------------------
(***************************************************************************)
(* What is left of the calling convention when replies are late and        *)
(* methods throw (the regime of the run rpc_late).                         *)
(*                                                                         *)
(* A reply is taken once at most, whatever nodes call each other for: each *)
(* call is in one place, a queue, a service or a connector, and its stage  *)
(* tells which.                                                            *)
(*                                                                         *)
(* Where services make no calls, replies come in the order of the calls,   *)
(* and a call takes no later reply for its own: the requests still queued  *)
(* are the last of those sent, the one that is served comes right before   *)
(* them, and the replies under way are to earlier ones.                    *)
(***************************************************************************)

-----------------------------------------------------------------------------
(* Stacks that are nested to any depth, by height above the bottom.        *)

FrameAt(st, h) == st[Len(st) + 1 - h]

ServesAt(st, h, i) == h \in 1..Len(st) /\ Serving(FrameAt(st, h)) /\ FrameAt(st, h).call = i

\* A wait is what a service called for, and a service what a wait reacted with.
Alternates(st) ==
  \A h \in 1..Len(st) : h + 1 <= Len(st) =>
    (Serving(FrameAt(st, h)) <=> ~Serving(FrameAt(st, h + 1)))

\* new has nothing but frames of old, in the same roles, from the bottom up.
Within(new, old) ==
  /\ Len(new) <= Len(old)
  /\ \A h \in 1..Len(new) :
       /\ FrameAt(new, h).call = FrameAt(old, h).call
       /\ Serving(FrameAt(new, h)) <=> Serving(FrameAt(old, h))

LEMMA WithinSame ==
  ASSUME NEW st \in Seq(Frame)
  PROVE  Within(st, st)
<1>1. Len(st) \in Nat
  BY LenProperties
<1> QED BY <1>1 DEF Within

LEMMA WithinServes ==
  ASSUME NEW old \in Seq(Frame), NEW new \in Seq(Frame), Within(new, old), NEW h, NEW i,
         ServesAt(new, h, i)
  PROVE  ServesAt(old, h, i)
<1>1. Len(new) \in Nat /\ Len(old) \in Nat /\ Len(new) <= Len(old)
  BY LenProperties DEF Within
<1>2. h \in 1..Len(new) /\ h \in 1..Len(old)
  BY <1>1 DEF ServesAt
<1> QED BY <1>2 DEF ServesAt, Within

LEMMA WithinAlternates ==
  ASSUME NEW old \in Seq(Frame), NEW new \in Seq(Frame), Within(new, old), Alternates(old)
  PROVE  Alternates(new)
<1>1. Len(new) \in Nat /\ Len(old) \in Nat /\ Len(new) <= Len(old)
  BY LenProperties DEF Within
<1> SUFFICES ASSUME NEW h \in 1..Len(new), h + 1 <= Len(new)
             PROVE  Serving(FrameAt(new, h)) <=> ~Serving(FrameAt(new, h + 1))
  BY DEF Alternates
<1>2. h \in 1..Len(old) /\ h + 1 <= Len(old) /\ h + 1 \in 1..Len(new)
  BY <1>1
<1>3. Serving(FrameAt(old, h)) <=> ~Serving(FrameAt(old, h + 1))
  BY <1>2 DEF Alternates
<1>4. /\ Serving(FrameAt(new, h)) <=> Serving(FrameAt(old, h))
      /\ Serving(FrameAt(new, h + 1)) <=> Serving(FrameAt(old, h + 1))
  BY <1>2 DEF Within
<1> QED BY <1>3, <1>4

LEMMA WithinTrans ==
  ASSUME NEW a \in Seq(Frame), NEW b \in Seq(Frame), NEW c \in Seq(Frame), Within(a, b), Within(b, c)
  PROVE  Within(a, c)
<1>1. Len(a) \in Nat /\ Len(b) \in Nat /\ Len(c) \in Nat /\ Len(a) <= Len(b) /\ Len(b) <= Len(c)
  BY LenProperties DEF Within
<1> SUFFICES ASSUME NEW h \in 1..Len(a)
             PROVE  /\ FrameAt(a, h).call = FrameAt(c, h).call
                    /\ Serving(FrameAt(a, h)) <=> Serving(FrameAt(c, h))
  BY <1>1 DEF Within
<1>2. h \in 1..Len(b)
  BY <1>1
<1> QED BY <1>2 DEF Within

\* The top frame is the highest; without it the others stay.
LEMMA Popped ==
  ASSUME NEW st \in Seq(Frame), st # <<>>
  PROVE  /\ Tail(st) \in Seq(Frame) /\ Len(Tail(st)) = Len(st) - 1 /\ Len(st) \in Nat \ {0}
         /\ Head(st) = FrameAt(st, Len(st)) /\ Head(st) = st[1]
         /\ \A h \in 1..Len(Tail(st)) : FrameAt(Tail(st), h) = FrameAt(st, h)
         /\ Within(Tail(st), st)
<1>1. /\ Tail(st) \in Seq(Frame) /\ Len(Tail(st)) = Len(st) - 1
      /\ \A i \in 1..Len(Tail(st)) : Tail(st)[i] = st[i + 1]
  BY HeadTailProperties
<1>2. Len(st) \in Nat \ {0} /\ Len(Tail(st)) \in Nat
  BY <1>1, EmptySeq, LenProperties
<1>3. Head(st) = st[1]
  OBVIOUS
<1>4. Head(st) = FrameAt(st, Len(st))
  BY <1>2, <1>3 DEF FrameAt
<1>5. ASSUME NEW h \in 1..Len(Tail(st)) PROVE FrameAt(Tail(st), h) = FrameAt(st, h)
  <2> DEFINE p == Len(Tail(st)) + 1 - h
  <2>1. p \in 1..Len(Tail(st)) /\ p + 1 = Len(st) + 1 - h
    BY <1>1, <1>2
  <2>2. Tail(st)[p] = st[p + 1]
    BY <1>1, <2>1
  <2> QED BY <2>1, <2>2 DEF FrameAt
<1>6. Within(Tail(st), st)
  BY <1>1, <1>2, <1>5 DEF Within
<1> QED BY <1>1, <1>2, <1>3, <1>4, <1>5, <1>6

\* Within its wait, or within its service, the top frame moves on.
LEMMA MovedWithin ==
  ASSUME NEW st \in Seq(Frame), st # <<>>, NEW p \in Points,
         Serving(Head(st)) <=> p \in ServePoints
  PROVE  Within([st EXCEPT ![1].at = p], st)
<1> DEFINE new == [st EXCEPT ![1].at = p]
<1>1. new \in Seq(Frame) /\ Len(new) = Len(st) /\ Len(st) \in Nat \ {0}
  BY MovedTop, Popped
<1>2. st[1] \in Frame /\ 1 \in DOMAIN st /\ DOMAIN st = 1..Len(st) /\ Head(st) = st[1]
  BY <1>1, ElementOfSeq, LenProperties, Popped
<1>3. new[1] = [st[1] EXCEPT !.at = p] /\ \A d \in DOMAIN st : d # 1 => new[d] = st[d]
  BY <1>2
<1>4. new[1].at = p /\ new[1].call = st[1].call
  BY <1>2, <1>3 DEF Frame
<1> HIDE DEF new
<1>5. Serving(new[1]) <=> Serving(st[1])
  BY <1>2, <1>4 DEF Serving
<1>6. ASSUME NEW h \in 1..Len(new)
      PROVE  /\ FrameAt(new, h).call = FrameAt(st, h).call
             /\ Serving(FrameAt(new, h)) <=> Serving(FrameAt(st, h))
  <2> DEFINE d == Len(st) + 1 - h
  <2>1. d \in DOMAIN st
    BY <1>1, <1>2
  <2>2. FrameAt(new, h) = new[d] /\ FrameAt(st, h) = st[d]
    BY <1>1 DEF FrameAt
  <2> QED BY <1>3, <1>4, <1>5, <2>1, <2>2
<1>7. Within(new, st)
  BY <1>1, <1>6 DEF Within
<1> QED BY <1>7 DEF new

\* A reply that is given up: the service below the wait sees its call throw.
LEMMA UnwoundWithin ==
  ASSUME NEW st \in Seq(Frame), st # <<>>, Alternates(st), Waiting(Head(st))
  PROVE  Unwound(st) \in Seq(Frame) /\ Within(Unwound(st), st)
<1>1. Unwound(st) \in Seq(Frame)
  BY UnwoundType
<1>2. /\ Tail(st) \in Seq(Frame) /\ Len(Tail(st)) = Len(st) - 1 /\ Len(st) \in Nat \ {0}
      /\ Head(st) = FrameAt(st, Len(st))
      /\ \A h \in 1..Len(Tail(st)) : FrameAt(Tail(st), h) = FrameAt(st, h)
      /\ Within(Tail(st), st)
  BY Popped
<1>3. CASE Tail(st) = <<>>
  <2>1. Unwound(st) = Tail(st)
    BY <1>3 DEF Unwound
  <2> QED BY <1>1, <1>2, <2>1
<1>4. CASE Tail(st) # <<>>
  <2> DEFINE t == Tail(st)
  <2>1. Head(t) = FrameAt(t, Len(t)) /\ Len(t) \in Nat \ {0}
    BY <1>2, <1>4, Popped
  <2>2. Head(t) = FrameAt(st, Len(st) - 1) /\ Len(st) - 1 \in 1..Len(st) /\ (Len(st) - 1) + 1 = Len(st)
    BY <1>2, <2>1
  <2>3. ~Serving(Head(st))
    BY DEF Waiting, Serving, WaitPoints, ServePoints
  <2>4. Serving(Head(t))
    BY <1>2, <2>2, <2>3 DEF Alternates
  <2>5. "raised" \in ServePoints /\ "raised" \in Points
    BY DEF ServePoints, Points
  <2>6. Within([t EXCEPT ![1].at = "raised"], t)
    BY <1>2, <1>4, <2>4, <2>5, MovedWithin
  <2>7. Unwound(st) = [t EXCEPT ![1].at = "raised"]
    BY <1>4 DEF Unwound
  <2> HIDE DEF t
  <2>8. Within(Unwound(st), t)
    BY <2>6, <2>7
  <2> QED BY <1>1, <1>2, <2>8, WithinTrans DEF t
<1> QED BY <1>3, <1>4

\* A new frame is the highest.
Push(f, st) == <<f>> \o st

LEMMA PushedOn ==
  ASSUME NEW st \in Seq(Frame), NEW f \in Frame
  PROVE  /\ Push(f, st) \in Seq(Frame) /\ Len(Push(f, st)) = Len(st) + 1 /\ Len(st) \in Nat
         /\ FrameAt(Push(f, st), Len(Push(f, st))) = f
         /\ \A h \in 1..Len(st) : FrameAt(Push(f, st), h) = FrameAt(st, h)
<1>1. <<f>> \in Seq(Frame) /\ Len(<<f>>) = 1 /\ <<f>>[1] = f
  OBVIOUS
<1>2. /\ Push(f, st) \in Seq(Frame) /\ Len(Push(f, st)) = Len(st) + 1
      /\ \A i \in 1..(Len(st) + 1) : Push(f, st)[i] = IF i <= 1 THEN <<f>>[i] ELSE st[i - 1]
  BY <1>1, ConcatProperties DEF Push
<1>3. Len(st) \in Nat
  BY LenProperties
<1>4. Push(f, st)[1] = f
  BY <1>1, <1>2, <1>3
<1>5. ASSUME NEW h \in 1..Len(st) PROVE FrameAt(Push(f, st), h) = FrameAt(st, h)
  <2> DEFINE p == Len(st) + 2 - h
  <2>1. p \in 1..(Len(st) + 1) /\ ~(p <= 1) /\ p = Len(Push(f, st)) + 1 - h /\ p - 1 = Len(st) + 1 - h
    BY <1>2, <1>3
  <2>2. Push(f, st)[p] = st[p - 1]
    BY <1>2, <2>1
  <2> QED BY <2>1, <2>2 DEF FrameAt
<1>6. FrameAt(Push(f, st), Len(Push(f, st))) = f
  BY <1>2, <1>3, <1>4 DEF FrameAt
<1> QED BY <1>2, <1>3, <1>5, <1>6

LEMMA PushedAlternates ==
  ASSUME NEW st \in Seq(Frame), NEW f \in Frame, Alternates(st),
         st # <<>> => (Serving(Head(st)) <=> ~Serving(f))
  PROVE  Alternates(Push(f, st))
<1>1. /\ Push(f, st) \in Seq(Frame) /\ Len(Push(f, st)) = Len(st) + 1 /\ Len(st) \in Nat
      /\ FrameAt(Push(f, st), Len(Push(f, st))) = f
      /\ \A h \in 1..Len(st) : FrameAt(Push(f, st), h) = FrameAt(st, h)
  BY PushedOn
<1> SUFFICES ASSUME NEW h \in 1..Len(Push(f, st)), h + 1 <= Len(Push(f, st))
             PROVE  Serving(FrameAt(Push(f, st), h)) <=> ~Serving(FrameAt(Push(f, st), h + 1))
  BY DEF Alternates
<1>2. h \in 1..Len(st)
  BY <1>1
<1>3. CASE h + 1 <= Len(st)
  <2>1. h + 1 \in 1..Len(st)
    BY <1>1, <1>2, <1>3
  <2>2. FrameAt(Push(f, st), h) = FrameAt(st, h) /\ FrameAt(Push(f, st), h + 1) = FrameAt(st, h + 1)
    BY <1>1, <1>2, <2>1
  <2> QED BY <1>2, <1>3, <2>2 DEF Alternates
<1>4. CASE h = Len(st)
  <2>1. st # <<>>
    BY <1>2
  <2>2. Head(st) = FrameAt(st, h)
    BY <1>4, <2>1, Popped
  <2>3. FrameAt(Push(f, st), h) = FrameAt(st, h) /\ FrameAt(Push(f, st), h + 1) = f
    BY <1>1, <1>2, <1>4
  <2> QED BY <2>1, <2>2, <2>3
<1> QED BY <1>1, <1>2, <1>3, <1>4

LEMMA PushedServes ==
  ASSUME NEW st \in Seq(Frame), NEW f \in Frame, NEW h, NEW i,
         ServesAt(Push(f, st), h, i)
  PROVE  \/ ServesAt(st, h, i)
         \/ h = Len(st) + 1 /\ Serving(f) /\ f.call = i
<1>1. /\ Len(Push(f, st)) = Len(st) + 1 /\ Len(st) \in Nat
      /\ FrameAt(Push(f, st), Len(Push(f, st))) = f
      /\ \A g \in 1..Len(st) : FrameAt(Push(f, st), g) = FrameAt(st, g)
  BY PushedOn
<1>2. h \in 1..Len(Push(f, st)) /\ Serving(FrameAt(Push(f, st), h)) /\ FrameAt(Push(f, st), h).call = i
  BY DEF ServesAt
<1>3. h \in 1..Len(st) \/ h = Len(st) + 1
  BY <1>1, <1>2
<1> QED BY <1>1, <1>2, <1>3 DEF ServesAt

-----------------------------------------------------------------------------
(* Each call is in one place, and its stage tells which.                   *)

Nested == \A n \in Nodes : Alternates(stack[n])

InQueue ==
  \A c, s \in Nodes : \A p \in DOMAIN requests[c][s] : stage[requests[c][s][p].call] = "sent"

InService ==
  \A n \in Nodes, h \in Nat, i \in Calls : ServesAt(stack[n], h, i) => stage[i] = "serving"

InReply ==
  \A c, s \in Nodes : \A p \in DOMAIN replies[c][s] : stage[replies[c][s][p]] = "answered"

InResult == \A i, j \in Calls : result[j] = i => stage[i] = "answered"

\* The same for a place of each kind: no call is there twice (QueuedOnce is that of
\* requests, ReplyTakenOnce that of results).
OneService ==
  \A m, n \in Nodes, g, h \in Nat, i \in Calls :
    ServesAt(stack[m], g, i) /\ ServesAt(stack[n], h, i) => m = n /\ g = h

OneReply ==
  \A c, d, s, t \in Nodes : \A p \in DOMAIN replies[c][s], q \in DOMAIN replies[d][t] :
    replies[c][s][p] = replies[d][t][q] => c = d /\ s = t /\ p = q

PlaceInv ==
  /\ TypeOK /\ Nested
  /\ InQueue /\ InService /\ InReply /\ InResult
  /\ QueuedOnce /\ OneService /\ OneReply /\ ReplyTakenOnce

LEMMA PlaceInit == Init => PlaceInv
<1> SUFFICES ASSUME Init PROVE PlaceInv
  OBVIOUS
<1>1. TypeOK
  BY TypeInit
<1>2. \A n \in Nodes : stack[n] = <<>>
  BY DEF Init
<1>3. ASSUME NEW n \in Nodes PROVE Alternates(stack[n]) /\ \A h, i : ~ServesAt(stack[n], h, i)
  <2>1. Len(stack[n]) = 0
    BY <1>2
  <2> QED BY <2>1 DEF Alternates, ServesAt
<1>4. \A c, s \in Nodes : DOMAIN requests[c][s] = {} /\ DOMAIN replies[c][s] = {}
  BY DEF Init
<1>5. \A i, j \in Calls : result[j] # i
  BY RpcAssumption DEF Init
<1>6. Nested /\ InService /\ OneService
  BY <1>3 DEF Nested, InService, OneService
<1>7. InQueue /\ InReply /\ QueuedOnce /\ OneReply
  BY <1>4 DEF InQueue, InReply, QueuedOnce, OneReply
<1>8. InResult /\ ReplyTakenOnce
  BY <1>5 DEF InResult, ReplyTakenOnce
<1> QED BY <1>1, <1>6, <1>7, <1>8 DEF PlaceInv

\* Steps that bring nothing new: waits go on or end with an exception.
LEMMA NothingNew ==
  ASSUME PlaceInv, TypeOK', UNCHANGED <<requests, replies, stage>>,
         \A n \in Nodes : Within(stack'[n], stack[n]),
         \A j \in Calls : result'[j] = result[j] \/ result'[j] = Thrown
  PROVE  PlaceInv'
<1>1. /\ TypeOK /\ Nested /\ InQueue /\ InService /\ InReply /\ InResult
      /\ QueuedOnce /\ OneService /\ OneReply /\ ReplyTakenOnce
  BY DEF PlaceInv
<1>2. \A n \in Nodes : stack[n] \in Seq(Frame) /\ stack'[n] \in Seq(Frame)
  BY <1>1 DEF TypeOK
<1>3. Nested'
  BY <1>1, <1>2, WithinAlternates DEF Nested
<1>4. \A n \in Nodes, h \in Nat, i \in Calls : ServesAt(stack'[n], h, i) => ServesAt(stack[n], h, i)
  BY <1>2, WithinServes
<1>5. InService' /\ OneService'
  BY <1>1, <1>4 DEF InService, OneService
<1>6. InQueue' /\ InReply' /\ QueuedOnce' /\ OneReply'
  BY <1>1 DEF InQueue, InReply, QueuedOnce, OneReply
<1>7. \A i, j \in Calls : result'[j] = i => result[j] = i
  BY RpcAssumption
<1>8. InResult' /\ ReplyTakenOnce'
  BY <1>1, <1>7 DEF InResult, ReplyTakenOnce
<1> QED BY <1>3, <1>5, <1>6, <1>8 DEF PlaceInv

\* A request for a new call.
LEMMA SendPlaces ==
  ASSUME PlaceInv, TypeOK', NEW n \in Nodes, NEW s \in Nodes, NEW i \in Calls, NEW k,
         Send(n, s, i, k), UNCHANGED <<replies, result>>, Nested',
         \A m \in Nodes, h \in Nat, j \in Calls :
           ServesAt(stack'[m], h, j) => ServesAt(stack[m], h, j)
  PROVE  PlaceInv'
<1>1. /\ TypeOK /\ InQueue /\ InService /\ InReply /\ InResult
      /\ QueuedOnce /\ OneService /\ OneReply /\ ReplyTakenOnce
  BY DEF PlaceInv
<1>2. stage[i] = "unsent" /\ stage'[i] = "sent" /\ \A j \in Calls : j # i => stage'[j] = stage[j]
  BY <1>1 DEF Send, TypeOK
<1>3. InService' /\ OneService'
  BY <1>1, <1>2 DEF InService, OneService
<1>4. InReply'
  <2> SUFFICES ASSUME NEW c \in Nodes, NEW t \in Nodes, NEW p \in DOMAIN replies[c][t]
               PROVE  stage'[replies[c][t][p]] = "answered"
    BY DEF InReply
  <2>1. replies[c][t][p] \in Calls /\ stage[replies[c][t][p]] = "answered"
    BY <1>1, QueueElements DEF InReply
  <2> QED BY <1>2, <2>1
<1>5. InResult' /\ OneReply' /\ ReplyTakenOnce'
  BY <1>1, <1>2 DEF InResult, OneReply, ReplyTakenOnce
<1>6. ASSUME NEW c \in Nodes, NEW t \in Nodes, NEW p \in DOMAIN requests[c][t]
      PROVE  /\ requests[c][t][p].call \in Calls /\ requests[c][t][p].call # i
             /\ stage'[requests[c][t][p].call] = "sent"
  BY <1>1, <1>2, QueueElements DEF InQueue
<1>7. InQueue'
  <2> SUFFICES ASSUME NEW c \in Nodes, NEW t \in Nodes, NEW p \in DOMAIN requests'[c][t]
               PROVE  stage'[requests'[c][t][p].call] = "sent"
    BY DEF InQueue
  <2> QED BY <1>1, <1>2, <1>6, SendQueues
<1>8. QueuedOnce'
  <2> SUFFICES ASSUME NEW c \in Nodes, NEW d \in Nodes, NEW t \in Nodes, NEW u \in Nodes,
                      NEW p \in DOMAIN requests'[c][t], NEW q \in DOMAIN requests'[d][u],
                      requests'[c][t][p].call = requests'[d][u][q].call
               PROVE  c = d /\ t = u /\ p = q
    BY DEF QueuedOnce
  <2>1. \/ p \in DOMAIN requests[c][t] /\ requests'[c][t][p] = requests[c][t][p]
        \/ c = n /\ t = s /\ p = Len(requests[n][s]) + 1 /\ requests'[c][t][p].call = i
    BY <1>1, SendQueues
  <2>2. \/ q \in DOMAIN requests[d][u] /\ requests'[d][u][q] = requests[d][u][q]
        \/ d = n /\ u = s /\ q = Len(requests[n][s]) + 1 /\ requests'[d][u][q].call = i
    BY <1>1, SendQueues
  <2>3. CASE p \in DOMAIN requests[c][t] /\ requests'[c][t][p] = requests[c][t][p]
    <3>1. requests[c][t][p].call # i
      BY <1>6, <2>3
    <3>2. q \in DOMAIN requests[d][u] /\ requests'[d][u][q] = requests[d][u][q]
      BY <2>2, <2>3, <3>1
    <3> QED BY <1>1, <2>3, <3>2 DEF QueuedOnce
  <2>4. CASE c = n /\ t = s /\ p = Len(requests[n][s]) + 1 /\ requests'[c][t][p].call = i
    <3>1. ~(q \in DOMAIN requests[d][u] /\ requests'[d][u][q] = requests[d][u][q])
      BY <1>6, <2>4
    <3> QED BY <2>2, <2>4, <3>1
  <2> QED BY <2>1, <2>3, <2>4
<1> QED BY <1>3, <1>4, <1>5, <1>7, <1>8 DEF PlaceInv

\* At most the reply to i is new among the replies of n, at pos of those to one client.
AddsReply(n, to, pos, i) ==
  \A c, s \in Nodes : \A p \in DOMAIN replies'[c][s] :
    \/ p \in DOMAIN replies[c][s] /\ replies'[c][s][p] = replies[c][s][p]
    \/ c = to /\ s = n /\ p = pos /\ replies'[c][s][p] = i

\* A service ends, with a reply to a client or with none.
LEMMA EndPlaces ==
  ASSUME PlaceInv, TypeOK', NEW n \in Nodes, IsTop(n, ServePoints),
         NEW g, g \in {"answered", "unanswered"},
         UNCHANGED requests, stage' = [stage EXCEPT ![Head(stack[n]).call] = g],
         Within(stack'[n], Tail(stack[n])), \A m \in Nodes : m # n => stack'[m] = stack[m],
         \A j \in Calls : result'[j] = result[j] \/ result'[j] = Thrown,
         g = "answered" \/ UNCHANGED replies,
         NEW to, NEW pos, AddsReply(n, to, pos, Head(stack[n]).call)
  PROVE  PlaceInv'
<1> DEFINE i == Head(stack[n]).call
<1>1. /\ TypeOK /\ Nested /\ InQueue /\ InService /\ InReply /\ InResult
      /\ QueuedOnce /\ OneService /\ OneReply /\ ReplyTakenOnce
  BY DEF PlaceInv
<1>2. /\ stack[n] \in Seq(Frame) /\ stack[n] # <<>> /\ i \in Calls /\ Serving(Head(stack[n]))
  BY <1>1, TopFrame DEF IsTop, Serving
<1>3. /\ Tail(stack[n]) \in Seq(Frame) /\ Len(Tail(stack[n])) = Len(stack[n]) - 1
      /\ Len(stack[n]) \in Nat \ {0} /\ Head(stack[n]) = FrameAt(stack[n], Len(stack[n]))
      /\ Within(Tail(stack[n]), stack[n])
  BY <1>2, Popped
<1>4. ServesAt(stack[n], Len(stack[n]), i)
  BY <1>2, <1>3 DEF ServesAt
<1>5. \A m \in Nodes : stack[m] \in Seq(Frame) /\ stack'[m] \in Seq(Frame)
  BY <1>1 DEF TypeOK
<1>6. \A m \in Nodes : Within(stack'[m], stack[m])
  BY <1>3, <1>5, WithinTrans, WithinSame
<1>7. stage[i] = "serving" /\ stage'[i] = g /\ \A j \in Calls : j # i => stage'[j] = stage[j]
  BY <1>1, <1>2, <1>3, <1>4 DEF InService, TypeOK
<1>8. ASSUME NEW m \in Nodes, NEW h \in Nat, NEW j \in Calls, ServesAt(stack'[m], h, j)
      PROVE  ServesAt(stack[m], h, j) /\ j # i
  <2>1. ServesAt(stack[m], h, j)
    BY <1>5, <1>6, <1>8, WithinServes
  <2>2. h \in 1..Len(stack'[m])
    BY <1>8 DEF ServesAt
  <2>3. CASE m = n
    <3>1. Len(stack'[n]) <= Len(stack[n]) - 1 /\ Len(stack'[n]) \in Nat
      BY <1>3, <1>5, LenProperties DEF Within
    <3>2. h # Len(stack[n])
      BY <1>3, <2>2, <2>3, <3>1
    <3> QED BY <1>1, <1>2, <1>3, <1>4, <2>1, <2>2, <2>3, <3>2 DEF OneService
  <2>4. CASE m # n
    BY <1>1, <1>2, <1>3, <1>4, <2>1, <2>2, <2>4 DEF OneService
  <2> QED BY <2>1, <2>2, <2>3, <2>4
<1> HIDE DEF i
<1>9. Nested'
  BY <1>1, <1>5, <1>6, WithinAlternates DEF Nested
<1>10. InService' /\ OneService'
  BY <1>1, <1>7, <1>8 DEF InService, OneService
<1>11. InQueue'
  <2> SUFFICES ASSUME NEW c \in Nodes, NEW t \in Nodes, NEW p \in DOMAIN requests[c][t]
               PROVE  stage'[requests[c][t][p].call] = "sent"
    BY DEF InQueue
  <2>1. requests[c][t][p].call \in Calls /\ stage[requests[c][t][p].call] = "sent"
    BY <1>1, QueueElements DEF InQueue
  <2> QED BY <1>7, <2>1
<1>12. QueuedOnce'
  BY <1>1 DEF QueuedOnce
<1>13. \A u, j \in Calls : result'[j] = u => result[j] = u /\ stage[u] = "answered" /\ u # i
  BY <1>1, <1>7, RpcAssumption DEF InResult
<1>14. InResult'
  BY <1>7, <1>13 DEF InResult
<1>15. ASSUME NEW c \in Nodes, NEW s \in Nodes, NEW p \in DOMAIN replies[c][s]
       PROVE  replies[c][s][p] \in Calls /\ stage[replies[c][s][p]] = "answered" /\ replies[c][s][p] # i
  BY <1>1, <1>7, QueueElements DEF InReply
<1>16. \A c, s \in Nodes : \A p \in DOMAIN replies'[c][s] :
         \/ p \in DOMAIN replies[c][s] /\ replies'[c][s][p] = replies[c][s][p]
         \/ c = to /\ s = n /\ p = pos /\ g = "answered" /\ replies'[c][s][p] = i
  <2>1. CASE g = "answered"
    BY <2>1 DEF i, AddsReply
  <2>2. CASE UNCHANGED replies
    BY <2>2
  <2> QED BY <2>1, <2>2
<1>17. InReply'
  <2> SUFFICES ASSUME NEW c \in Nodes, NEW s \in Nodes, NEW p \in DOMAIN replies'[c][s]
               PROVE  stage'[replies'[c][s][p]] = "answered"
    BY DEF InReply
  <2> QED BY <1>7, <1>15, <1>16
<1>18. OneReply'
  <2> SUFFICES ASSUME NEW c \in Nodes, NEW d \in Nodes, NEW s \in Nodes, NEW t \in Nodes,
                      NEW p \in DOMAIN replies'[c][s], NEW q \in DOMAIN replies'[d][t],
                      replies'[c][s][p] = replies'[d][t][q]
               PROVE  c = d /\ s = t /\ p = q
    BY DEF OneReply
  <2> QED BY <1>1, <1>15, <1>16 DEF OneReply
<1>19. ReplyTakenOnce'
  BY <1>1, <1>13, <1>16 DEF ReplyTakenOnce
<1> QED BY <1>9, <1>10, <1>11, <1>12, <1>14, <1>17, <1>18, <1>19 DEF PlaceInv

\* What the first of a queue leaves behind.
LEMMA TakenFrom ==
  ASSUME NEW S, NEW f \in [Nodes -> [Nodes -> Seq(S)]], NEW a \in Nodes, NEW b \in Nodes,
         f[a][b] # <<>>, NEW g, g = [f EXCEPT ![a][b] = Tail(f[a][b])],
         NEW c \in Nodes, NEW d \in Nodes, NEW p \in DOMAIN g[c][d]
  PROVE  \/ ~(c = a /\ d = b) /\ p \in DOMAIN f[c][d] /\ g[c][d][p] = f[c][d][p]
         \/ /\ c = a /\ d = b /\ p + 1 # 1 /\ p \in Nat \ {0}
            /\ p + 1 \in DOMAIN f[c][d] /\ g[c][d][p] = f[c][d][p + 1]
<1> DEFINE rest == Tail(f[a][b])
<1> HIDE DEF rest
<1>1. g[c][d] = IF c = a /\ d = b THEN rest ELSE f[c][d]
  BY OneQueue DEF rest
<1>2. CASE c = a /\ d = b
  <2>1. p \in DOMAIN Tail(f[a][b]) /\ f[a][b] \in Seq(S)
    BY <1>1, <1>2 DEF rest
  <2>2. p \in Nat \ {0} /\ p + 1 \in DOMAIN f[a][b] /\ Tail(f[a][b])[p] = f[a][b][p + 1]
    BY <2>1, Rest
  <2>3. p + 1 # 1
    BY <2>2
  <2> QED BY <1>1, <1>2, <2>2, <2>3 DEF rest
<1>3. CASE ~(c = a /\ d = b)
  BY <1>1, <1>3
<1> QED BY <1>2, <1>3

\* A reply moves from its connector to the call that takes it, whichever that is.
LEMMA ReceivePlaces ==
  ASSUME PlaceInv, TypeOK', NEW n \in Nodes, ReceiveReply(n)
  PROVE  PlaceInv'
<1> DEFINE f == Head(stack[n])
           q == replies[n][f.peer]
           i == Head(q)
<1>1. /\ TypeOK /\ Nested /\ InQueue /\ InService /\ InReply /\ InResult
      /\ QueuedOnce /\ OneService /\ OneReply /\ ReplyTakenOnce
  BY DEF PlaceInv
<1>2. stack[n] \in Seq(Frame) /\ stack[n] # <<>> /\ f.call \in Calls /\ f.peer \in Nodes
  BY <1>1, TopFrame DEF ReceiveReply
<1>3. /\ q # <<>>
      /\ result' = [result EXCEPT ![f.call] = i]
      /\ replies' = [replies EXCEPT ![n][f.peer] = Tail(q)]
      /\ stack' = [stack EXCEPT ![n] = Tail(stack[n])]
      /\ UNCHANGED <<requests, lastSender, stage>>
  BY DEF ReceiveReply, Consume
<1>4. q \in Seq(Calls) /\ 1 \in DOMAIN q /\ i = q[1] /\ i \in Calls /\ stage[i] = "answered"
  <2>1. q \in Seq(Calls)
    BY <1>1, <1>2, QueueElements
  <2>2. 1 \in DOMAIN q /\ i = q[1]
    BY <1>3, <2>1, First
  <2> QED BY <1>1, <1>2, <2>1, <2>2, QueueElements DEF InReply
<1>5. \A m \in Nodes : stack[m] \in Seq(Frame) /\ stack'[m] \in Seq(Frame)
  BY <1>1 DEF TypeOK
<1>6. \A m \in Nodes : Within(stack'[m], stack[m])
  <2> SUFFICES ASSUME NEW m \in Nodes PROVE Within(stack'[m], stack[m])
    OBVIOUS
  <2>1. CASE m = n
    <3>1. stack'[n] = Tail(stack[n])
      BY <1>1, <1>3 DEF TypeOK
    <3> QED BY <1>2, <2>1, <3>1, Popped
  <2>2. CASE m # n
    <3>1. stack'[m] = stack[m]
      BY <1>1, <1>3, <2>2 DEF TypeOK
    <3> QED BY <1>5, <3>1, WithinSame
  <2> QED BY <2>1, <2>2
<1>7. ASSUME NEW c \in Nodes, NEW s \in Nodes, NEW p \in DOMAIN replies'[c][s]
      PROVE  \/ ~(c = n /\ s = f.peer) /\ p \in DOMAIN replies[c][s] /\ replies'[c][s][p] = replies[c][s][p]
             \/ /\ c = n /\ s = f.peer /\ p + 1 # 1 /\ p \in Nat \ {0}
                /\ p + 1 \in DOMAIN replies[c][s] /\ replies'[c][s][p] = replies[c][s][p + 1]
  <2>1. replies \in [Nodes -> [Nodes -> Seq(Calls)]]
    BY <1>1 DEF TypeOK
  <2>2. /\ f.peer \in Nodes /\ replies[n][f.peer] # <<>>
        /\ replies' = [replies EXCEPT ![n][f.peer] = Tail(replies[n][f.peer])]
    BY <1>2, <1>3
  <2> HIDE DEF f, q, i
  <2> QED BY <2>1, <2>2, TakenFrom
<1>8. \A j \in Calls : result'[j] = IF j = f.call THEN i ELSE result[j]
  BY <1>1, <1>3 DEF TypeOK
<1>9. n \in Nodes /\ f.peer \in Nodes /\ 1 \in DOMAIN replies[n][f.peer] /\ i = replies[n][f.peer][1]
      /\ f.call \in Calls /\ i \in Calls /\ stage[i] = "answered"
  BY <1>2, <1>4
<1> HIDE DEF f, q, i
<1>10. Nested'
  BY <1>1, <1>5, <1>6, WithinAlternates DEF Nested
<1>11. \A m \in Nodes, h \in Nat, j \in Calls : ServesAt(stack'[m], h, j) => ServesAt(stack[m], h, j)
  BY <1>5, <1>6, WithinServes
<1>12. InService' /\ OneService'
  BY <1>1, <1>3, <1>11 DEF InService, OneService
<1>13. InQueue' /\ QueuedOnce'
  BY <1>1, <1>3 DEF InQueue, QueuedOnce
<1>14. InReply'
  <2> SUFFICES ASSUME NEW c \in Nodes, NEW s \in Nodes, NEW p \in DOMAIN replies'[c][s]
               PROVE  stage[replies'[c][s][p]] = "answered"
    BY <1>3 DEF InReply
  <2> QED BY <1>1, <1>7 DEF InReply
<1>15. OneReply'
  <2> SUFFICES ASSUME NEW c \in Nodes, NEW d \in Nodes, NEW s \in Nodes, NEW t \in Nodes,
                      NEW p \in DOMAIN replies'[c][s], NEW r \in DOMAIN replies'[d][t],
                      replies'[c][s][p] = replies'[d][t][r]
               PROVE  c = d /\ s = t /\ p = r
    BY DEF OneReply
  <2>1. \/ ~(c = n /\ s = f.peer) /\ p \in DOMAIN replies[c][s] /\ replies'[c][s][p] = replies[c][s][p]
        \/ /\ c = n /\ s = f.peer /\ p \in Nat \ {0}
           /\ p + 1 \in DOMAIN replies[c][s] /\ replies'[c][s][p] = replies[c][s][p + 1]
    BY <1>7
  <2>2. \/ ~(d = n /\ t = f.peer) /\ r \in DOMAIN replies[d][t] /\ replies'[d][t][r] = replies[d][t][r]
        \/ /\ d = n /\ t = f.peer /\ r \in Nat \ {0}
           /\ r + 1 \in DOMAIN replies[d][t] /\ replies'[d][t][r] = replies[d][t][r + 1]
    BY <1>7
  <2>3. CASE c = n /\ s = f.peer
    <3>1. d = n /\ t = f.peer /\ p + 1 = r + 1
      BY <1>1, <2>1, <2>2, <2>3 DEF OneReply
    <3> QED BY <2>1, <2>2, <2>3, <3>1
  <2>4. CASE ~(c = n /\ s = f.peer)
    <3>1. c = d /\ s = t
      BY <1>1, <2>1, <2>2, <2>4 DEF OneReply
    <3> QED BY <1>1, <2>1, <2>2, <2>4, <3>1 DEF OneReply
  <2> QED BY <2>3, <2>4
<1>16. InResult'
  BY <1>1, <1>3, <1>8, <1>9 DEF InResult
<1>17. ASSUME NEW c \in Nodes, NEW s \in Nodes, NEW p \in DOMAIN replies'[c][s]
       PROVE  /\ replies'[c][s][p] # i
              /\ \E r \in DOMAIN replies[c][s] : replies'[c][s][p] = replies[c][s][r]
  BY <1>1, <1>7, <1>9 DEF OneReply
<1>18. ReplyTakenOnce'
  <2> SUFFICES ASSUME NEW u \in Calls, NEW j \in Calls, result'[j] = u
               PROVE  /\ \A h \in Calls : result'[h] = u => h = j
                      /\ \A c, s \in Nodes : \A p \in DOMAIN replies'[c][s] : replies'[c][s][p] # u
    BY DEF ReplyTakenOnce
  <2>1. \A h \in Calls : result[h] # i
    BY <1>1, <1>9 DEF ReplyTakenOnce
  <2>2. CASE j = f.call
    BY <1>8, <1>17, <2>1, <2>2
  <2>3. CASE j # f.call
    <3>1. result[j] = u /\ u # i
      BY <1>8, <2>1, <2>3
    <3>2. \A c, s \in Nodes : \A r \in DOMAIN replies[c][s] : replies[c][s][r] # u
      BY <1>1, <3>1 DEF ReplyTakenOnce
    <3> QED BY <1>1, <1>8, <1>17, <3>1, <3>2 DEF ReplyTakenOnce
  <2> QED BY <2>2, <2>3
<1> QED BY <1>10, <1>12, <1>13, <1>14, <1>15, <1>16, <1>18 DEF PlaceInv

\* A request moves from its queue to the service above what the node waits for.
LEMMA DispatchPlaces ==
  ASSUME PlaceInv, TypeOK', NEW n \in Nodes, NEW c \in Nodes, Dispatch(n, c)
  PROVE  PlaceInv'
<1> DEFINE q == requests[c][n]
           i == Head(q).call
           f == [call |-> i, peer |-> c, kind |-> Head(q).kind, at |-> "running"]
           below == Reacted(stack[n])
<1>1. /\ TypeOK /\ Nested /\ InQueue /\ InService /\ InReply /\ InResult
      /\ QueuedOnce /\ OneService /\ OneReply /\ ReplyTakenOnce
  BY DEF PlaceInv
<1>2. q \in Seq(Request) /\ q # <<>>
  BY <1>1, QueueElements DEF Dispatch
<1>3. 1 \in DOMAIN q /\ i = q[1].call /\ i \in Calls /\ Head(q).kind \in AllKinds
  BY <1>1, <1>2, First, QueueElements
<1>4. f \in Frame /\ Serving(f) /\ f.call = i
  BY <1>3 DEF Frame, ServePoints, Serving
<1>5. /\ stack' = [stack EXCEPT ![n] = Push(f, below)]
      /\ stage' = [stage EXCEPT ![i] = "serving"]
      /\ requests' = [requests EXCEPT ![c][n] = Tail(q)]
      /\ UNCHANGED <<replies, result>>
      /\ MayReact(n)
  BY DEF Dispatch, Push
<1>6. \A m \in Nodes : stack[m] \in Seq(Frame) /\ stack'[m] \in Seq(Frame)
  BY <1>1 DEF TypeOK
<1>7. stage[i] = "sent"
  BY <1>1, <1>3 DEF InQueue
<1>8. stage'[i] = "serving" /\ \A j \in Calls : j # i => stage'[j] = stage[j]
  BY <1>1, <1>3, <1>5 DEF TypeOK
<1>9. n \in Nodes /\ c \in Nodes /\ 1 \in DOMAIN requests[c][n] /\ i = requests[c][n][1].call /\ i \in Calls
  BY <1>3
<1>10. ASSUME NEW d \in Nodes, NEW s \in Nodes, NEW p \in DOMAIN requests'[d][s]
       PROVE  \/ ~(d = c /\ s = n) /\ p \in DOMAIN requests[d][s] /\ requests'[d][s][p] = requests[d][s][p]
              \/ /\ d = c /\ s = n /\ p + 1 # 1 /\ p \in Nat \ {0}
                 /\ p + 1 \in DOMAIN requests[d][s] /\ requests'[d][s][p] = requests[d][s][p + 1]
  <2>1. requests \in [Nodes -> [Nodes -> Seq(Request)]]
    BY <1>1 DEF TypeOK
  <2>2. requests[c][n] # <<>> /\ requests' = [requests EXCEPT ![c][n] = Tail(requests[c][n])]
    BY <1>2, <1>5
  <2> HIDE DEF q, i, f
  <2> QED BY <2>1, <2>2, TakenFrom
<1>11. stack'[n] = Push(f, below) /\ \A m \in Nodes : m # n => stack'[m] = stack[m]
  BY <1>1, <1>5 DEF TypeOK
<1> HIDE DEF q, i, f
<1>12. /\ below \in Seq(Frame) /\ Within(below, stack[n])
       /\ below # <<>> => ~Serving(Head(below))
  <2>1. below \in Seq(Frame)
    BY <1>6, ReactedType
  <2>2. CASE stack[n] = <<>>
    <3>1. below = stack[n]
      BY <2>2 DEF Reacted
    <3> QED BY <1>6, <2>1, <2>2, <3>1, WithinSame
  <2>3. CASE stack[n] # <<>>
    <3>1. Head(stack[n]).at = "reacting"
      BY <1>5, <2>3 DEF MayReact, IsTop
    <3>2. ~Serving(Head(stack[n])) /\ "checked" \in Points /\ "checked" \notin ServePoints
      BY <3>1 DEF Serving, ServePoints, Points, WaitPoints
    <3>3. below = [stack[n] EXCEPT ![1].at = "checked"]
      BY <2>3 DEF Reacted
    <3>4. Within(below, stack[n])
      BY <1>6, <2>3, <3>2, <3>3, MovedWithin
    <3>5. ~Serving(Head(below))
      <4>1. Len(below) = Len(stack[n]) /\ below # <<>> /\ Len(stack[n]) \in Nat \ {0}
        BY <1>6, <2>3, <3>2, <3>3, MovedTop, Popped
      <4>2. Head(below) = FrameAt(below, Len(below)) /\ Head(stack[n]) = FrameAt(stack[n], Len(stack[n]))
        BY <1>6, <2>1, <2>3, <4>1, Popped
      <4> QED BY <3>2, <3>4, <4>1, <4>2 DEF Within
    <3> QED BY <2>1, <3>4, <3>5
  <2> QED BY <2>2, <2>3
<1> HIDE DEF below
<1>13. Alternates(below)
  BY <1>1, <1>6, <1>12, WithinAlternates DEF Nested
<1>14. Alternates(Push(f, below))
  BY <1>4, <1>12, <1>13, PushedAlternates
<1>15. Nested'
  BY <1>1, <1>11, <1>14 DEF Nested
<1>16. ASSUME NEW m \in Nodes, NEW h \in Nat, NEW j \in Calls, ServesAt(stack'[m], h, j)
       PROVE  \/ ServesAt(stack[m], h, j) /\ j # i
              \/ m = n /\ h = Len(below) + 1 /\ j = i
  <2>1. CASE m = n
    <3>1. ServesAt(below, h, j) \/ (h = Len(below) + 1 /\ f.call = j)
      BY <1>4, <1>11, <1>12, <1>16, <2>1, PushedServes
    <3>2. ServesAt(below, h, j) => ServesAt(stack[n], h, j)
      BY <1>6, <1>12, WithinServes
    <3> QED BY <1>1, <1>4, <1>7, <2>1, <3>1, <3>2 DEF InService
  <2>2. CASE m # n
    BY <1>1, <1>7, <1>11, <1>16, <2>2 DEF InService
  <2> QED BY <2>1, <2>2
<1>17. InService'
  BY <1>1, <1>8, <1>9, <1>16 DEF InService
<1>18. OneService'
  BY <1>1, <1>16 DEF OneService
<1>19. InReply'
  <2> SUFFICES ASSUME NEW d \in Nodes, NEW t \in Nodes, NEW p \in DOMAIN replies[d][t]
               PROVE  stage'[replies[d][t][p]] = "answered"
    BY <1>5 DEF InReply
  <2>1. replies[d][t][p] \in Calls /\ stage[replies[d][t][p]] = "answered"
    BY <1>1, QueueElements DEF InReply
  <2> QED BY <1>7, <1>8, <2>1
<1>20. InResult' /\ OneReply' /\ ReplyTakenOnce'
  BY <1>1, <1>5, <1>7, <1>8 DEF InResult, OneReply, ReplyTakenOnce
<1>21. ASSUME NEW d \in Nodes, NEW t \in Nodes, NEW p \in DOMAIN requests'[d][t]
       PROVE  /\ requests'[d][t][p].call # i
              /\ \E r \in DOMAIN requests[d][t] : requests'[d][t][p] = requests[d][t][r]
  BY <1>1, <1>9, <1>10 DEF QueuedOnce
<1>22. InQueue'
  <2> SUFFICES ASSUME NEW d \in Nodes, NEW t \in Nodes, NEW p \in DOMAIN requests'[d][t]
               PROVE  stage'[requests'[d][t][p].call] = "sent"
    BY DEF InQueue
  <2>1. PICK r \in DOMAIN requests[d][t] : requests'[d][t][p] = requests[d][t][r]
    BY <1>21
  <2>2. requests[d][t][r].call \in Calls /\ stage[requests[d][t][r].call] = "sent"
    BY <1>1, QueueElements DEF InQueue
  <2> QED BY <1>8, <1>21, <2>1, <2>2
<1>23. QueuedOnce'
  <2> SUFFICES ASSUME NEW d \in Nodes, NEW e \in Nodes, NEW s \in Nodes, NEW t \in Nodes,
                      NEW p \in DOMAIN requests'[d][s], NEW r \in DOMAIN requests'[e][t],
                      requests'[d][s][p].call = requests'[e][t][r].call
               PROVE  d = e /\ s = t /\ p = r
    BY DEF QueuedOnce
  <2>1. \/ ~(d = c /\ s = n) /\ p \in DOMAIN requests[d][s] /\ requests'[d][s][p] = requests[d][s][p]
        \/ /\ d = c /\ s = n /\ p \in Nat \ {0}
           /\ p + 1 \in DOMAIN requests[d][s] /\ requests'[d][s][p] = requests[d][s][p + 1]
    BY <1>10
  <2>2. \/ ~(e = c /\ t = n) /\ r \in DOMAIN requests[e][t] /\ requests'[e][t][r] = requests[e][t][r]
        \/ /\ e = c /\ t = n /\ r \in Nat \ {0}
           /\ r + 1 \in DOMAIN requests[e][t] /\ requests'[e][t][r] = requests[e][t][r + 1]
    BY <1>10
  <2>3. CASE d = c /\ s = n
    <3>1. e = c /\ t = n /\ p + 1 = r + 1
      BY <1>1, <2>1, <2>2, <2>3 DEF QueuedOnce
    <3> QED BY <2>1, <2>2, <2>3, <3>1
  <2>4. CASE ~(d = c /\ s = n)
    <3>1. p \in DOMAIN requests[d][s] /\ requests'[d][s][p] = requests[d][s][p]
      BY <2>1, <2>4
    <3>2. ~(e = c /\ t = n)
      <4> SUFFICES ASSUME e = c, t = n PROVE FALSE
        OBVIOUS
      <4>1. r + 1 \in DOMAIN requests[e][t] /\ requests'[e][t][r] = requests[e][t][r + 1]
        BY <2>2
      <4>2. d = e /\ s = t
        BY <1>1, <3>1, <4>1 DEF QueuedOnce
      <4> QED BY <2>4, <4>2
    <3>3. r \in DOMAIN requests[e][t] /\ requests'[e][t][r] = requests[e][t][r]
      BY <2>2, <3>2
    <3> QED BY <1>1, <3>1, <3>3 DEF QueuedOnce
  <2> QED BY <2>3, <2>4
<1> QED BY <1>15, <1>17, <1>18, <1>19, <1>20, <1>22, <1>23 DEF PlaceInv

\* One node's stack changes.
LEMMA OneStack ==
  ASSUME TypeOK, TypeOK', NEW n \in Nodes, NEW st, stack' = [stack EXCEPT ![n] = st]
  PROVE  /\ stack'[n] = st /\ st \in Seq(Frame)
         /\ \A m \in Nodes : m # n => stack'[m] = stack[m]
         /\ Within(st, stack[n]) => \A m \in Nodes : Within(stack'[m], stack[m])
<1>1. stack'[n] = st /\ \A m \in Nodes : m # n => stack'[m] = stack[m]
  BY DEF TypeOK
<1>2. st \in Seq(Frame)
  BY <1>1 DEF TypeOK
<1>3. \A m \in Nodes : stack[m] \in Seq(Frame)
  BY DEF TypeOK
<1>4. \A m \in Nodes : m # n => Within(stack'[m], stack[m])
  BY <1>1, <1>3, WithinSame
<1> QED BY <1>1, <1>2, <1>4

\* Below a service there is a wait, if there is anything.
LEMMA BelowService ==
  ASSUME NEW st \in Seq(Frame), st # <<>>, Alternates(st), Serving(Head(st))
  PROVE  /\ Tail(st) \in Seq(Frame) /\ Alternates(Tail(st))
         /\ Tail(st) # <<>> => Waiting(Head(Tail(st))) /\ Head(Tail(st)).call \in Calls
<1>1. /\ Tail(st) \in Seq(Frame) /\ Len(Tail(st)) = Len(st) - 1
      /\ Len(st) \in Nat \ {0} /\ Head(st) = FrameAt(st, Len(st))
      /\ \A h \in 1..Len(Tail(st)) : FrameAt(Tail(st), h) = FrameAt(st, h)
      /\ Within(Tail(st), st)
  BY Popped
<1>2. Alternates(Tail(st))
  BY <1>1, WithinAlternates
<1>3. ASSUME Tail(st) # <<>> PROVE Waiting(Head(Tail(st))) /\ Head(Tail(st)).call \in Calls
  <2> DEFINE t == Tail(st)
  <2>1. Head(t) = FrameAt(t, Len(t)) /\ Len(t) \in Nat \ {0}
    BY <1>1, <1>3, Popped
  <2>2. Head(t) = FrameAt(st, Len(st) - 1) /\ Len(st) - 1 \in 1..Len(st) /\ (Len(st) - 1) + 1 = Len(st)
    BY <1>1, <2>1
  <2>3. ~Serving(Head(t))
    BY <1>1, <2>2 DEF Alternates
  <2>4. Head(t) \in Frame
    BY <1>1, <1>3, HeadTailProperties
  <2> QED BY <2>3, <2>4 DEF Frame, Serving, Waiting
<1> QED BY <1>1, <1>2, <1>3

LEMMA EndStackPlaces ==
  ASSUME PlaceInv, NEW n \in Nodes, IsTop(n, ServePoints)
  PROVE  LET below == Tail(stack[n]) IN
           /\ Within(below, below)
           /\ below # <<>> => Head(below).call \in Calls /\ Within(Unwound(below), below)
<1>1. TypeOK /\ Alternates(stack[n])
  BY DEF PlaceInv, Nested
<1>2. stack[n] \in Seq(Frame) /\ stack[n] # <<>> /\ Serving(Head(stack[n]))
  BY <1>1, TopFrame DEF IsTop, Serving
<1>3. /\ Tail(stack[n]) \in Seq(Frame) /\ Alternates(Tail(stack[n]))
      /\ Tail(stack[n]) # <<>> =>
           Waiting(Head(Tail(stack[n]))) /\ Head(Tail(stack[n])).call \in Calls
  BY <1>1, <1>2, BelowService
<1> QED BY <1>3, WithinSame, UnwoundWithin

LEMMA NoReplyAdded ==
  ASSUME UNCHANGED replies, NEW n, NEW to, NEW pos, NEW i
  PROVE  AddsReply(n, to, pos, i)
BY DEF AddsReply

\* A reply is for the client in _lastSender, if any.
LEMMA ReplyAdds ==
  ASSUME TypeOK, NEW n \in Nodes, Reply(n)
  PROVE  AddsReply(n, lastSender[n], Len(replies[lastSender[n]][n]) + 1, Head(stack[n]).call)
<1> DEFINE i == Head(stack[n]).call
           to == lastSender[n]
           q == replies[to][n]
<1>1. IsTop(n, ServePoints)
  BY DEF Reply
<1>2. i \in Calls
  BY <1>1, TopFrame
<1>3. ASSUME NEW c \in Nodes, NEW s \in Nodes, NEW p \in DOMAIN replies'[c][s]
      PROVE  \/ p \in DOMAIN replies[c][s] /\ replies'[c][s][p] = replies[c][s][p]
             \/ c = to /\ s = n /\ p = Len(q) + 1 /\ replies'[c][s][p] = i
  <2>1. CASE to = None
    BY <2>1 DEF Reply, SendReply
  <2>2. CASE to # None
    <3>1. to \in Nodes
      BY <2>2 DEF TypeOK
    <3>2. q \in Seq(Calls)
      BY <3>1, QueueElements
    <3>3. /\ Append(q, i) \in Seq(Calls) /\ Len(Append(q, i)) = Len(q) + 1
          /\ \A x \in 1..Len(q) : Append(q, i)[x] = q[x]
          /\ Append(q, i)[Len(q) + 1] = i
      BY <1>2, <3>2, AppendProperties
    <3>4. DOMAIN Append(q, i) = 1..(Len(q) + 1) /\ DOMAIN q = 1..Len(q) /\ Len(q) \in Nat
      BY <3>2, <3>3, LenProperties
    <3> DEFINE more == Append(q, i)
    <3>5. replies' = [replies EXCEPT ![to][n] = more] /\ replies \in [Nodes -> [Nodes -> Seq(Calls)]]
      BY <2>2 DEF Reply, SendReply, TypeOK
    <3>6. \A x \in DOMAIN more : (x \in DOMAIN q /\ more[x] = q[x]) \/ (x = Len(q) + 1 /\ more[x] = i)
      BY <3>3, <3>4
    <3> HIDE DEF more, i, to
    <3>7. replies'[c][s] = IF c = to /\ s = n THEN more ELSE replies[c][s]
      BY <3>1, <3>5, OneQueue
    <3>8. CASE c = to /\ s = n
      BY <3>6, <3>7, <3>8
    <3>9. CASE ~(c = to /\ s = n)
      BY <3>7, <3>9
    <3> QED BY <3>8, <3>9
  <2> QED BY <2>1, <2>2
<1> QED BY <1>3 DEF AddsReply

LEMMA PlaceNext == PlaceInv /\ [Next]_vars => PlaceInv'
<1> SUFFICES ASSUME PlaceInv, [Next]_vars PROVE PlaceInv'
  OBVIOUS
<1>1. TypeOK /\ TypeOK' /\ Nested
  BY TypeNext DEF PlaceInv
<1>2. \A m \in Nodes : stack[m] \in Seq(Frame) /\ stack'[m] \in Seq(Frame) /\ Alternates(stack[m])
  BY <1>1 DEF TypeOK, Nested
<1>3. ASSUME NEW n \in Nodes, NEW s \in Nodes, NEW i \in Calls, AsynchRequest(n, s, i) PROVE PlaceInv'
  <2>1. Send(n, s, i, "async") /\ UNCHANGED <<replies, result, stack>>
    BY <1>3 DEF AsynchRequest
  <2>2. Nested'
    BY <1>1, <2>1 DEF Nested
  <2> QED BY <1>1, <2>1, <2>2, SendPlaces
<1>4. ASSUME NEW n \in Nodes, NEW s \in Nodes, NEW i \in Calls, NEW k \in AllKinds,
             SynchRequest(n, s, i, k)
      PROVE  PlaceInv'
  <2> DEFINE f == [call |-> i, peer |-> s, kind |-> k, at |-> "sent"]
  <2>1. /\ Send(n, s, i, k) /\ UNCHANGED <<replies, result>> /\ MayIssue(n, s)
        /\ stack' = [stack EXCEPT ![n] = Push(f, stack[n])]
    BY <1>4 DEF SynchRequest, Push
  <2>2. f \in Frame /\ ~Serving(f)
    BY DEF Frame, WaitPoints, ServePoints, Serving
  <2> HIDE DEF f
  <2>3. stack'[n] = Push(f, stack[n]) /\ \A m \in Nodes : m # n => stack'[m] = stack[m]
    BY <1>1, <2>1, OneStack
  <2>4. stack[n] # <<>> => Serving(Head(stack[n]))
    BY <2>1 DEF MayIssue, IsTop, Serving
  <2>5. Nested'
    <3> SUFFICES ASSUME NEW m \in Nodes PROVE Alternates(stack'[m])
      BY DEF Nested
    <3>1. CASE m = n
      BY <1>2, <2>2, <2>3, <2>4, <3>1, PushedAlternates
    <3>2. CASE m # n
      BY <1>2, <2>3, <3>2
    <3> QED BY <3>1, <3>2
  <2>6. ASSUME NEW m \in Nodes, NEW h \in Nat, NEW j \in Calls, ServesAt(stack'[m], h, j)
        PROVE  ServesAt(stack[m], h, j)
    <3>1. CASE m = n
      BY <1>2, <2>2, <2>3, <2>6, <3>1, PushedServes
    <3>2. CASE m # n
      BY <2>3, <2>6, <3>2
    <3> QED BY <3>1, <3>2
  <2> QED BY <1>1, <2>1, <2>5, <2>6, SendPlaces
<1>5. ASSUME NEW n \in Nodes, NoReplyYet(n) PROVE PlaceInv'
  <2>1. IsTop(n, {"sent", "checked"}) /\ stack' = [stack EXCEPT ![n] = KeepWaiting(stack[n])]
    BY <1>5 DEF NoReplyYet
  <2>2. stack[n] # <<>> /\ ~Serving(Head(stack[n])) /\ "reacting" \in Points /\ "reacting" \notin ServePoints
    BY <2>1 DEF IsTop, Serving, ServePoints, Points, WaitPoints
  <2>3. Within(KeepWaiting(stack[n]), stack[n])
    BY <1>2, <2>2, MovedWithin DEF KeepWaiting
  <2>4. \A m \in Nodes : Within(stack'[m], stack[m])
    BY <1>1, <2>1, <2>3, OneStack
  <2>5. UNCHANGED <<requests, replies, stage, result>>
    BY <1>5 DEF NoReplyYet
  <2> QED BY <1>1, <2>4, <2>5, NothingNew
<1>6. ASSUME NEW n \in Nodes, NothingToReact(n) PROVE PlaceInv'
  <2>1. IsTop(n, {"reacting"}) /\ stack' = [stack EXCEPT ![n] = Reacted(stack[n])]
    BY <1>6 DEF NothingToReact
  <2>2. stack[n] # <<>> /\ ~Serving(Head(stack[n])) /\ "checked" \in Points /\ "checked" \notin ServePoints
    BY <2>1 DEF IsTop, Serving, ServePoints, Points, WaitPoints
  <2>3. Within(Reacted(stack[n]), stack[n])
    BY <1>2, <2>2, MovedWithin DEF Reacted
  <2>4. \A m \in Nodes : Within(stack'[m], stack[m])
    BY <1>1, <2>1, <2>3, OneStack
  <2>5. UNCHANGED <<requests, replies, stage, result>>
    BY <1>6 DEF NothingToReact
  <2> QED BY <1>1, <2>4, <2>5, NothingNew
<1>7. ASSUME NEW n \in Nodes, ReplyTimeout(n) PROVE PlaceInv'
  <2>1. IsTop(n, {"checked"}) /\ stack' = [stack EXCEPT ![n] = Unwound(stack[n])]
    BY <1>7 DEF ReplyTimeout
  <2>2. stack[n] # <<>> /\ Waiting(Head(stack[n])) /\ Head(stack[n]).call \in Calls
    BY <1>1, <2>1, TopFrame DEF IsTop, Waiting, WaitPoints
  <2>3. Within(Unwound(stack[n]), stack[n])
    BY <1>2, <2>2, UnwoundWithin
  <2>4. \A m \in Nodes : Within(stack'[m], stack[m])
    BY <1>1, <2>1, <2>3, OneStack
  <2>5. UNCHANGED <<requests, replies, stage>>
    BY <1>7 DEF ReplyTimeout
  <2>6. \A j \in Calls : result'[j] = result[j] \/ result'[j] = Thrown
    BY <1>1, <1>7 DEF ReplyTimeout, TypeOK
  <2> QED BY <1>1, <2>4, <2>5, <2>6, NothingNew
<1>8. ASSUME NEW n \in Nodes, ReturnNothing(n) PROVE PlaceInv'
  <2>1. /\ IsTop(n, ServePoints) /\ UNCHANGED <<requests, replies, result>>
        /\ stage' = [stage EXCEPT ![Head(stack[n]).call] = "unanswered"]
        /\ stack' = [stack EXCEPT ![n] = Tail(stack[n])]
    BY <1>8 DEF ReturnNothing
  <2>2. Within(Tail(stack[n]), Tail(stack[n]))
    BY <2>1, EndStackPlaces
  <2>3. Within(stack'[n], Tail(stack[n])) /\ \A m \in Nodes : m # n => stack'[m] = stack[m]
    BY <1>1, <2>1, <2>2, OneStack
  <2>4. AddsReply(n, n, 0, Head(stack[n]).call)
    BY <2>1, NoReplyAdded
  <2> QED BY <1>1, <2>1, <2>3, <2>4, EndPlaces
<1>9. ASSUME NEW n \in Nodes, Reply(n) PROVE PlaceInv'
  <2> DEFINE to == lastSender[n]
             q == replies[to][n]
  <2>1. /\ IsTop(n, ServePoints) /\ UNCHANGED <<requests, result>>
        /\ stage' = [stage EXCEPT ![Head(stack[n]).call] = "answered"]
        /\ stack' = [stack EXCEPT ![n] = Tail(stack[n])]
    BY <1>9 DEF Reply
  <2>2. Within(Tail(stack[n]), Tail(stack[n]))
    BY <2>1, EndStackPlaces
  <2>3. Within(stack'[n], Tail(stack[n])) /\ \A m \in Nodes : m # n => stack'[m] = stack[m]
    BY <1>1, <2>1, <2>2, OneStack
  <2>4. AddsReply(n, to, Len(q) + 1, Head(stack[n]).call)
    BY <1>1, <1>9, ReplyAdds
  <2>5. PlaceInv /\ TypeOK'
    BY <1>1
  <2> QED BY <2>1, <2>3, <2>4, <2>5, EndPlaces
<1>10. ASSUME NEW n \in Nodes, Throw(n) PROVE PlaceInv'
  <2> DEFINE below == Tail(stack[n])
  <2>1. /\ IsTop(n, ServePoints) /\ UNCHANGED <<requests, replies>>
        /\ stage' = [stage EXCEPT ![Head(stack[n]).call] = "unanswered"]
    BY <1>10 DEF Throw
  <2>2. /\ Within(below, below)
        /\ below # <<>> => Head(below).call \in Calls /\ Within(Unwound(below), below)
    BY <2>1, EndStackPlaces
  <2>5. AddsReply(n, n, 0, Head(stack[n]).call)
    BY <2>1, NoReplyAdded
  <2>3. CASE below = <<>>
    <3>1. stack' = [stack EXCEPT ![n] = below] /\ result' = result
      BY <1>10, <2>3 DEF Throw
    <3>2. Within(stack'[n], Tail(stack[n])) /\ \A m \in Nodes : m # n => stack'[m] = stack[m]
      BY <1>1, <2>2, <3>1, OneStack
    <3> QED BY <1>1, <2>1, <2>5, <3>1, <3>2, EndPlaces
  <2>4. CASE below # <<>>
    <3>1. stack' = [stack EXCEPT ![n] = Unwound(below)] /\ result' = [result EXCEPT ![Head(below).call] = Thrown]
      BY <1>10, <2>4 DEF Throw
    <3>2. Within(stack'[n], Tail(stack[n])) /\ \A m \in Nodes : m # n => stack'[m] = stack[m]
      BY <1>1, <2>2, <2>4, <3>1, OneStack
    <3>3. \A j \in Calls : result'[j] = result[j] \/ result'[j] = Thrown
      BY <1>1, <3>1 DEF TypeOK
    <3> QED BY <1>1, <2>1, <2>5, <3>2, <3>3, EndPlaces
  <2> QED BY <2>3, <2>4
<1>11. CASE UNCHANGED vars
  <2>1. UNCHANGED <<requests, replies, stage, result, stack>>
    BY <1>11 DEF vars
  <2>2. \A m \in Nodes : Within(stack'[m], stack[m])
    BY <1>2, <2>1, WithinSame
  <2> QED BY <1>1, <2>1, <2>2, NothingNew
<1>12. ASSUME NEW n \in Nodes, ReceiveReply(n) PROVE PlaceInv'
  BY <1>1, <1>12, ReceivePlaces
<1>13. ASSUME NEW n \in Nodes, NEW c \in Nodes, Dispatch(n, c) PROVE PlaceInv'
  BY <1>1, <1>13, DispatchPlaces
<1> QED
  BY <1>3, <1>4, <1>5, <1>6, <1>7, <1>8, <1>9, <1>10, <1>11, <1>12, <1>13 DEF Next, Issue, Step

\* A reply reaches one call at most, for any topology, however deep services call
\* each other, whatever throws and is late: receiveReply hands on no reply twice.
THEOREM RepliesTakenOnce == Spec => []ReplyTakenOnce
<1>1. PlaceInv => ReplyTakenOnce
  BY DEF PlaceInv
<1> QED BY <1>1, PlaceInit, PlaceNext, PTL DEF Spec

-----------------------------------------------------------------------------
(* The calls of one client to one server: those sent, the requests that    *)
(* are queued and the replies under way.                                   *)

\* How many have been dispatched.
Gone(calls, queue) == Len(calls) - Len(queue)

Distinct(calls) == \A k, l \in DOMAIN calls : calls[k] = calls[l] => k = l

\* The requests that are queued are to the last calls sent.
LastSent(calls, queue) ==
  /\ Len(queue) <= Len(calls)
  /\ \A p \in DOMAIN queue : queue[p].call = calls[Gone(calls, queue) + p]

\* The replies are to calls among the first m.
Among(calls, back, m) == \A p \in DOMAIN back : \E k \in 1..m : calls[k] = back[p]

\* They are in the order of the calls.
Ordered(calls, back) ==
  \A p, q \in DOMAIN back : \A k, l \in DOMAIN calls :
    p < q /\ calls[k] = back[p] /\ calls[l] = back[q] => k < l

InTurn(calls, queue, back) ==
  /\ LastSent(calls, queue)
  /\ Among(calls, back, Gone(calls, queue))
  /\ Ordered(calls, back)

\* The call that is served is the last that was dispatched, and not replied to.
ServedCall(calls, queue, back, i) ==
  /\ Gone(calls, queue) >= 1
  /\ calls[Gone(calls, queue)] = i
  /\ Among(calls, back, Gone(calls, queue) - 1)

\* Not called before.
NewTo(calls, i) == \A k \in DOMAIN calls : calls[k] # i

LEMMA GoneType ==
  ASSUME NEW calls \in Seq(Calls), NEW queue \in Seq(Request), LastSent(calls, queue)
  PROVE  /\ Gone(calls, queue) \in Nat /\ Gone(calls, queue) <= Len(calls)
         /\ Gone(calls, queue) + Len(queue) = Len(calls)
         /\ Len(calls) \in Nat /\ Len(queue) \in Nat
         /\ DOMAIN calls = 1..Len(calls) /\ DOMAIN queue = 1..Len(queue)
<1>1. Len(calls) \in Nat /\ Len(queue) \in Nat /\ DOMAIN calls = 1..Len(calls) /\ DOMAIN queue = 1..Len(queue)
  BY LenProperties
<1> QED BY <1>1 DEF LastSent, Gone

LEMMA AppendedElements ==
  ASSUME NEW S, NEW q \in Seq(S), NEW e \in S
  PROVE  /\ Append(q, e) \in Seq(S) /\ Len(q) \in Nat /\ Len(Append(q, e)) = Len(q) + 1
         /\ DOMAIN q = 1..Len(q) /\ DOMAIN Append(q, e) = 1..(Len(q) + 1)
         /\ \A k \in 1..Len(q) : Append(q, e)[k] = q[k]
         /\ Append(q, e)[Len(q) + 1] = e
<1>1. /\ Append(q, e) \in Seq(S) /\ Len(Append(q, e)) = Len(q) + 1
      /\ \A k \in 1..Len(q) : Append(q, e)[k] = q[k]
      /\ Append(q, e)[Len(q) + 1] = e
  BY AppendProperties
<1>2. Len(q) \in Nat /\ DOMAIN q = 1..Len(q) /\ DOMAIN Append(q, e) = 1..Len(Append(q, e))
  BY <1>1, LenProperties
<1> QED BY <1>1, <1>2

LEMMA TailElements ==
  ASSUME NEW S, NEW q \in Seq(S), q # <<>>
  PROVE  /\ Tail(q) \in Seq(S) /\ Len(q) \in Nat \ {0} /\ Len(Tail(q)) = Len(q) - 1
         /\ DOMAIN q = 1..Len(q) /\ DOMAIN Tail(q) = 1..(Len(q) - 1)
         /\ \A k \in 1..(Len(q) - 1) : Tail(q)[k] = q[k + 1]
         /\ Head(q) = q[1]
<1>1. /\ Tail(q) \in Seq(S) /\ Len(Tail(q)) = Len(q) - 1
      /\ \A k \in 1..Len(Tail(q)) : Tail(q)[k] = q[k + 1]
  BY HeadTailProperties
<1>2. Len(q) \in Nat \ {0} /\ DOMAIN q = 1..Len(q) /\ DOMAIN Tail(q) = 1..Len(Tail(q))
  BY <1>1, EmptySeq, LenProperties
<1>3. Head(q) = q[1]
  OBVIOUS
<1> QED BY <1>1, <1>2, <1>3

\* A new call is sent.
LEMMA SentOrder ==
  ASSUME NEW calls \in Seq(Calls), NEW queue \in Seq(Request), NEW back \in Seq(Calls),
         InTurn(calls, queue, back), NEW m \in Request, NewTo(calls, m.call),
         NEW more, more = Append(calls, m.call), NEW longer, longer = Append(queue, m)
  PROVE  /\ InTurn(more, longer, back)
         /\ \A i : ServedCall(calls, queue, back, i) => ServedCall(more, longer, back, i)
<1>0. /\ LastSent(calls, queue) /\ Among(calls, back, Gone(calls, queue)) /\ Ordered(calls, back)
      /\ \A k \in DOMAIN calls : calls[k] # m.call
  BY DEF InTurn, NewTo
<1>1. m.call \in Calls
  BY DEF Request
<1>2. /\ Len(calls) \in Nat /\ Len(more) = Len(calls) + 1
      /\ DOMAIN calls = 1..Len(calls) /\ DOMAIN more = 1..(Len(calls) + 1)
      /\ \A k \in 1..Len(calls) : more[k] = calls[k]
      /\ more[Len(calls) + 1] = m.call
  BY <1>1, AppendedElements
<1>3. /\ Len(queue) \in Nat /\ Len(longer) = Len(queue) + 1
      /\ DOMAIN queue = 1..Len(queue) /\ DOMAIN longer = 1..(Len(queue) + 1)
      /\ \A k \in 1..Len(queue) : longer[k] = queue[k]
      /\ longer[Len(queue) + 1] = m
  BY AppendedElements
<1>4. PICK g \in Nat : g = Gone(calls, queue) /\ g <= Len(calls) /\ g + Len(queue) = Len(calls)
  BY <1>0, GoneType
<1>5. Gone(more, longer) = g
  BY <1>2, <1>3, <1>4 DEF Gone
<1>6. LastSent(more, longer)
  <2>1. Len(longer) <= Len(more)
    BY <1>2, <1>3, <1>4
  <2>2. Len(calls) \in Nat /\ Len(queue) \in Nat /\ g + Len(queue) = Len(calls)
    BY <1>2, <1>3, <1>4
  <2>3. ASSUME NEW p \in 1..Len(queue) PROVE longer[p].call = more[g + p]
    <3>1. longer[p] = queue[p] /\ queue[p].call = calls[g + p]
      BY <1>0, <1>3, <1>4 DEF LastSent
    <3>2. g + p \in 1..Len(calls)
      BY <1>4, <2>2
    <3>3. more[g + p] = calls[g + p]
      BY <1>2, <3>2
    <3> QED BY <3>1, <3>3
  <2>4. longer[Len(queue) + 1].call = more[g + (Len(queue) + 1)]
    <3>1. g + (Len(queue) + 1) = Len(calls) + 1
      <4>1. PICK u \in Nat, v \in Nat : u = Len(calls) /\ v = Len(queue) /\ g + v = u
        BY <2>2
      <4>2. g \in Nat /\ u \in Nat /\ v \in Nat /\ g + v = u
        BY <1>4, <4>1
      <4>3. g + (v + 1) = u + 1
        BY <4>2
      <4> QED BY <4>1, <4>3
    <3>2. longer[Len(queue) + 1] = m /\ more[Len(calls) + 1] = m.call
      BY <1>2, <1>3
    <3> QED BY <3>1, <3>2
  <2>5. \A p \in 1..(Len(queue) + 1) : p \in 1..Len(queue) \/ p = Len(queue) + 1
    BY <2>2
  <2>6. \A p \in DOMAIN longer : longer[p].call = more[g + p]
    BY <1>3, <2>3, <2>4, <2>5
  <2> QED BY <1>5, <2>1, <2>6 DEF LastSent
<1>7. ASSUME NEW h \in Nat, h <= Len(calls), Among(calls, back, h) PROVE Among(more, back, h)
  <2> SUFFICES ASSUME NEW p \in DOMAIN back PROVE \E k \in 1..h : more[k] = back[p]
    BY DEF Among
  <2>1. PICK k \in 1..h : calls[k] = back[p]
    BY <1>7 DEF Among
  <2>2. k \in 1..Len(calls)
    BY <1>2, <1>7
  <2> QED BY <1>2, <2>1, <2>2
<1>8. Ordered(more, back)
  <2> SUFFICES ASSUME NEW p \in DOMAIN back, NEW q \in DOMAIN back, NEW k \in DOMAIN more,
                      NEW l \in DOMAIN more, p < q, more[k] = back[p], more[l] = back[q]
               PROVE  k < l
    BY DEF Ordered
  <2>1. \A r \in DOMAIN back : back[r] # m.call
    <3> SUFFICES ASSUME NEW r \in DOMAIN back PROVE back[r] # m.call
      OBVIOUS
    <3>1. PICK u \in 1..g : calls[u] = back[r]
      BY <1>0, <1>4 DEF Among
    <3>2. u \in DOMAIN calls
      BY <1>2, <1>4
    <3> QED BY <1>0, <3>1, <3>2
  <2>2. k \in DOMAIN calls /\ l \in DOMAIN calls
    BY <1>2, <2>1
  <2>3. calls[k] = back[p] /\ calls[l] = back[q]
    BY <1>2, <2>2
  <2> QED BY <1>0, <2>2, <2>3 DEF Ordered
<1>9. InTurn(more, longer, back)
  BY <1>0, <1>4, <1>5, <1>6, <1>7, <1>8 DEF InTurn
<1>10. ASSUME NEW i, ServedCall(calls, queue, back, i) PROVE ServedCall(more, longer, back, i)
  <2>1. g >= 1 /\ calls[g] = i /\ Among(calls, back, g - 1)
    BY <1>4, <1>10 DEF ServedCall
  <2>2. g - 1 \in Nat /\ g - 1 <= Len(calls) /\ g \in 1..Len(calls)
    BY <1>2, <1>4, <2>1
  <2>3. Among(more, back, g - 1)
    BY <1>7, <2>1, <2>2
  <2>4. more[g] = calls[g]
    BY <1>2, <2>2
  <2> QED BY <1>5, <2>1, <2>3, <2>4 DEF ServedCall
<1> QED BY <1>9, <1>10

\* The first request is dispatched: it is to the call after those gone before.
LEMMA DispatchedOrder ==
  ASSUME NEW calls \in Seq(Calls), NEW queue \in Seq(Request), NEW back,
         InTurn(calls, queue, back), queue # <<>>, NEW rest, rest = Tail(queue)
  PROVE  InTurn(calls, rest, back) /\ ServedCall(calls, rest, back, Head(queue).call)
<1>0. LastSent(calls, queue) /\ Among(calls, back, Gone(calls, queue)) /\ Ordered(calls, back)
  BY DEF InTurn
<1>1. /\ Len(queue) \in Nat \ {0} /\ Len(rest) = Len(queue) - 1
      /\ DOMAIN queue = 1..Len(queue) /\ DOMAIN rest = 1..(Len(queue) - 1)
      /\ \A k \in 1..(Len(queue) - 1) : rest[k] = queue[k + 1]
      /\ Head(queue) = queue[1]
  BY TailElements
<1>2. Len(calls) \in Nat /\ DOMAIN calls = 1..Len(calls)
  BY LenProperties
<1>3. PICK g \in Nat : g = Gone(calls, queue) /\ g + Len(queue) = Len(calls)
  BY <1>0, GoneType
<1>4. Gone(calls, rest) = g + 1
  BY <1>1, <1>2, <1>3 DEF Gone
<1>5. calls[g + 1] = Head(queue).call
  <2>1. 1 \in DOMAIN queue
    BY <1>1
  <2> QED BY <1>0, <1>1, <1>3, <2>1 DEF LastSent
<1>6. LastSent(calls, rest)
  <2>1. Len(rest) <= Len(calls)
    BY <1>1, <1>2, <1>3
  <2>2. ASSUME NEW p \in DOMAIN rest PROVE rest[p].call = calls[(g + 1) + p]
    <3>1. p + 1 \in DOMAIN queue /\ rest[p] = queue[p + 1] /\ g + (p + 1) = (g + 1) + p
      BY <1>1, <1>3
    <3>2. queue[p + 1].call = calls[g + (p + 1)]
      BY <1>0, <1>3, <3>1 DEF LastSent
    <3> QED BY <3>1, <3>2
  <2> QED BY <1>4, <2>1, <2>2 DEF LastSent
<1>7. Among(calls, back, g)
  BY <1>0, <1>3
<1>8. Among(calls, back, g + 1)
  <2> SUFFICES ASSUME NEW p \in DOMAIN back PROVE \E k \in 1..(g + 1) : calls[k] = back[p]
    BY DEF Among
  <2>1. PICK k \in 1..g : calls[k] = back[p]
    BY <1>7 DEF Among
  <2>2. k \in 1..(g + 1)
    OBVIOUS
  <2> QED BY <2>1, <2>2
<1>9. (g + 1) - 1 = g /\ g + 1 >= 1 /\ g + 1 \in Nat
  OBVIOUS
<1> QED BY <1>0, <1>4, <1>5, <1>6, <1>7, <1>8, <1>9 DEF InTurn, ServedCall

\* The first reply is taken.
LEMMA TakenOrder ==
  ASSUME NEW calls \in Seq(Calls), NEW queue, NEW back \in Seq(Calls), back # <<>>,
         InTurn(calls, queue, back), NEW rest, rest = Tail(back)
  PROVE  /\ InTurn(calls, queue, rest)
         /\ \A i : ServedCall(calls, queue, back, i) => ServedCall(calls, queue, rest, i)
<1>1. /\ Len(back) \in Nat \ {0} /\ DOMAIN back = 1..Len(back) /\ DOMAIN rest = 1..(Len(back) - 1)
      /\ \A k \in 1..(Len(back) - 1) : rest[k] = back[k + 1]
  BY TailElements
<1>2. ASSUME NEW p \in DOMAIN rest PROVE p \in Nat /\ p + 1 \in DOMAIN back /\ rest[p] = back[p + 1]
  BY <1>1
<1>3. Ordered(calls, rest)
  <2> SUFFICES ASSUME NEW p \in DOMAIN rest, NEW q \in DOMAIN rest, NEW k \in DOMAIN calls,
                      NEW l \in DOMAIN calls, p < q, calls[k] = rest[p], calls[l] = rest[q]
               PROVE  k < l
    BY DEF Ordered
  <2>1. p + 1 < q + 1
    BY <1>2
  <2> QED BY <1>2, <2>1 DEF InTurn, Ordered
<1>4. ASSUME NEW m, Among(calls, back, m) PROVE Among(calls, rest, m)
  BY <1>2, <1>4 DEF Among
<1> QED BY <1>3, <1>4 DEF InTurn, ServedCall

\* The reply to the last call that was dispatched comes after the others.
LEMMA RepliedOrder ==
  ASSUME NEW calls \in Seq(Calls), NEW queue \in Seq(Request), NEW back \in Seq(Calls),
         Distinct(calls), InTurn(calls, queue, back), NEW i, ServedCall(calls, queue, back, i),
         NEW longer, longer = Append(back, i)
  PROVE  InTurn(calls, queue, longer)
<1>0. PICK g \in Nat : /\ g = Gone(calls, queue) /\ g >= 1 /\ g <= Len(calls)
                       /\ calls[g] = i /\ Among(calls, back, g - 1)
  BY GoneType DEF InTurn, ServedCall
<1>1. Len(calls) \in Nat /\ DOMAIN calls = 1..Len(calls) /\ g \in DOMAIN calls /\ calls[g] \in Calls
  <2>1. Len(calls) \in Nat /\ DOMAIN calls = 1..Len(calls)
    BY LenProperties
  <2>2. g \in 1..Len(calls)
    BY <1>0, <2>1
  <2> QED BY <2>1, <2>2, ElementOfSeq
<1>2. /\ Len(back) \in Nat /\ DOMAIN back = 1..Len(back) /\ DOMAIN longer = 1..(Len(back) + 1)
      /\ \A k \in 1..Len(back) : longer[k] = back[k]
      /\ longer[Len(back) + 1] = calls[g]
  BY <1>0, <1>1, AppendedElements
<1>3. ASSUME NEW p \in DOMAIN back
      PROVE  \E k \in 1..g : k < g /\ k \in DOMAIN calls /\ calls[k] = back[p]
  <2>1. PICK k \in 1..(g - 1) : calls[k] = back[p]
    BY <1>0 DEF Among
  <2>2. k \in 1..g /\ k < g /\ k \in DOMAIN calls
    BY <1>0, <1>1
  <2> QED BY <2>1, <2>2
<1>4. Among(calls, longer, g)
  <2> SUFFICES ASSUME NEW p \in DOMAIN longer PROVE \E k \in 1..g : calls[k] = longer[p]
    BY DEF Among
  <2>1. CASE p \in DOMAIN back
    BY <1>2, <1>3, <2>1
  <2>2. CASE p = Len(back) + 1
    <3>1. g \in 1..g
      BY <1>0
    <3> QED BY <1>2, <2>2, <3>1
  <2> QED BY <1>2, <2>1, <2>2
<1>5. Ordered(calls, longer)
  <2> SUFFICES ASSUME NEW p \in DOMAIN longer, NEW q \in DOMAIN longer, NEW k \in DOMAIN calls,
                      NEW l \in DOMAIN calls, p < q, calls[k] = longer[p], calls[l] = longer[q]
               PROVE  k < l
    BY DEF Ordered
  <2>1. p \in DOMAIN back /\ longer[p] = back[p]
    BY <1>2
  <2>2. CASE q \in DOMAIN back
    <3>1. longer[q] = back[q]
      BY <1>2, <2>2
    <3> QED BY <2>1, <2>2, <3>1 DEF InTurn, Ordered
  <2>3. CASE q = Len(back) + 1
    <3>1. l = g
      BY <1>1, <1>2, <2>3 DEF Distinct
    <3>2. PICK u \in 1..g : u < g /\ u \in DOMAIN calls /\ calls[u] = back[p]
      BY <1>3, <2>1
    <3>3. k = u
      BY <2>1, <3>2 DEF Distinct
    <3> QED BY <3>1, <3>2, <3>3
  <2> QED BY <1>2, <2>2, <2>3
<1> QED BY <1>0, <1>4, <1>5 DEF InTurn

-----------------------------------------------------------------------------
(* The inductive invariant.                                                *)

\* Services make no calls.
Flat == HandlerCalls = {}

SentStaged == \A c, s \in Nodes : \A k \in DOMAIN sent[c][s] : stage[sent[c][s][k]] # "unsent"

SentOnce ==
  \A c, d, s, t \in Nodes : \A k \in DOMAIN sent[c][s], l \in DOMAIN sent[d][t] :
    sent[c][s][k] = sent[d][t][l] => c = d /\ s = t /\ k = l

InOrder == \A c, s \in Nodes : InTurn(sent[c][s], requests[c][s], replies[c][s])

\* _lastSender is the client that is served, and what is served is its last call.
ServedLast ==
  \A n, c \in Nodes, i \in Calls, k \in AllKinds :
    ServesIn(stack[n], c, i, k) =>
      lastSender[n] = c /\ ServedCall(sent[c][n], requests[c][n], replies[c][n], i)

\* A client that waits has made no call since.
WaitedLast ==
  \A c, s \in Nodes, i \in Calls :
    WaitsIn(stack[c], s, i) => Len(sent[c][s]) >= 1 /\ sent[c][s][Len(sent[c][s])] = i

ResultBefore ==
  \A i \in Calls : result[i] \in Calls =>
    \E c, s \in Nodes : \E k, l \in DOMAIN sent[c][s] :
      sent[c][s][k] = result[i] /\ sent[c][s][l] = i /\ k <= l

OrderInv ==
  /\ TypeOK /\ Shapes
  /\ SentStaged /\ SentOnce /\ InOrder /\ ServedLast /\ WaitedLast /\ ResultBefore

LEMMA SentElements ==
  ASSUME TypeOK, NEW c \in Nodes, NEW s \in Nodes
  PROVE  /\ sent[c][s] \in Seq(Calls) /\ Len(sent[c][s]) \in Nat
         /\ DOMAIN sent[c][s] = 1..Len(sent[c][s])
         /\ \A k \in DOMAIN sent[c][s] : sent[c][s][k] \in Calls
<1>1. sent[c][s] \in Seq(Calls)
  BY DEF TypeOK
<1>2. Len(sent[c][s]) \in Nat /\ DOMAIN sent[c][s] = 1..Len(sent[c][s])
  BY <1>1, LenProperties
<1>3. \A k \in DOMAIN sent[c][s] : sent[c][s][k] \in Calls
  BY <1>1, <1>2, ElementOfSeq
<1> QED BY <1>1, <1>2, <1>3

LEMMA OrderInit == Init => OrderInv
<1> SUFFICES ASSUME Init PROVE OrderInv
  OBVIOUS
<1>1. TypeOK
  BY TypeInit
<1>2. \A n \in Nodes : stack[n] = <<>>
  BY DEF Init
<1>3. \A n \in Nodes : \A c, i, k : ~WaitsIn(stack[n], c, i) /\ ~ServesIn(stack[n], c, i, k)
  BY <1>2, EmptyStack
<1>4. \A c, s \in Nodes : sent[c][s] = <<>> /\ requests[c][s] = <<>> /\ replies[c][s] = <<>>
  BY DEF Init
<1>5. DOMAIN <<>> = {} /\ Len(<<>>) = 0
  OBVIOUS
<1>6. SentStaged /\ SentOnce
  BY <1>4, <1>5 DEF SentStaged, SentOnce
<1>7. InOrder
  BY <1>4, <1>5 DEF InOrder, InTurn, LastSent, Among, Ordered
<1>8. ResultBefore
  BY RpcAssumption DEF ResultBefore, Init
<1>9. Shapes
  BY <1>2 DEF Shapes, LeafStack
<1> QED BY <1>1, <1>3, <1>6, <1>7, <1>8, <1>9 DEF OrderInv, ServedLast, WaitedLast

-----------------------------------------------------------------------------
(* The steps.                                                              *)

\* A step that sends, dispatches and replies nothing.
LEMMA QuietOrder ==
  ASSUME OrderInv, TypeOK', Shapes', UNCHANGED <<requests, replies, sent>>,
         \A i \in Calls : stage[i] # "unsent" => stage'[i] # "unsent",
         \A i \in Calls : result'[i] = result[i] \/ result'[i] = Thrown,
         \A c, s \in Nodes, i \in Calls : WaitsIn(stack'[c], s, i) => WaitsIn(stack[c], s, i),
         \A n, c \in Nodes, i \in Calls, k \in AllKinds :
           ServesIn(stack'[n], c, i, k)
             => ServesIn(stack[n], c, i, k) /\ lastSender'[n] = lastSender[n]
  PROVE  OrderInv'
<1> USE DEF OrderInv
<1>1. SentStaged'
  <2> SUFFICES ASSUME NEW c \in Nodes, NEW s \in Nodes, NEW k \in DOMAIN sent[c][s]
               PROVE  stage'[sent[c][s][k]] # "unsent"
    BY DEF SentStaged
  <2>1. sent[c][s][k] \in Calls
    BY SentElements
  <2> QED BY <2>1 DEF SentStaged
<1>2. SentOnce' /\ InOrder'
  BY DEF SentOnce, InOrder
<1>3. ServedLast'
  BY DEF ServedLast
<1>4. WaitedLast'
  BY DEF WaitedLast
<1>5. ResultBefore'
  BY RpcAssumption DEF ResultBefore
<1> QED BY <1>1, <1>2, <1>3, <1>4, <1>5

\* What sending i from n to s does to the calls sent and the requests queued.
SentKept ==
  \A c, t \in Nodes : \A p \in DOMAIN sent[c][t] :
    p \in DOMAIN sent'[c][t] /\ sent'[c][t][p] = sent[c][t][p]

SentNew(n, s, i) ==
  \A c, t \in Nodes : \A p \in DOMAIN sent'[c][t] :
    \/ p \in DOMAIN sent[c][t] /\ sent'[c][t][p] = sent[c][t][p]
    \/ c = n /\ t = s /\ p = Len(sent[n][s]) + 1 /\ sent'[c][t][p] = i

SentThere(n, s, i) ==
  \E m \in Request :
    /\ m.call = i
    /\ sent'[n][s] = Append(sent[n][s], i) /\ requests'[n][s] = Append(requests[n][s], m)

NothingElsewhere(n, s) ==
  \A c, t \in Nodes : ~(c = n /\ t = s) =>
    sent'[c][t] = sent[c][t] /\ requests'[c][t] = requests[c][t]

LEMMA SentQueues ==
  ASSUME TypeOK, NEW n \in Nodes, NEW s \in Nodes, NEW i \in Calls, NEW k, Send(n, s, i, k)
  PROVE  SentKept /\ SentNew(n, s, i) /\ SentThere(n, s, i) /\ NothingElsewhere(n, s)
<1> DEFINE m == [call |-> i, kind |-> k]
           calls == Append(sent[n][s], i)
           queue == Append(requests[n][s], m)
<1>1. k \in AllKinds /\ m \in Request
  BY SendType DEF Request
<1>2. sent' = [sent EXCEPT ![n][s] = calls] /\ requests' = [requests EXCEPT ![n][s] = queue]
  BY DEF Send
<1>3. /\ sent[n][s] \in Seq(Calls) /\ Len(calls) = Len(sent[n][s]) + 1
      /\ DOMAIN sent[n][s] = 1..Len(sent[n][s]) /\ DOMAIN calls = 1..(Len(sent[n][s]) + 1)
      /\ Len(sent[n][s]) \in Nat
      /\ \A p \in 1..Len(sent[n][s]) : calls[p] = sent[n][s][p]
      /\ calls[Len(sent[n][s]) + 1] = i
  BY SentElements, AppendedElements
<1> HIDE DEF m, calls, queue
<1>4. \A c, t \in Nodes : sent'[c][t] = IF c = n /\ t = s THEN calls ELSE sent[c][t]
  BY <1>2 DEF TypeOK
<1>5. \A c, t \in Nodes : requests'[c][t] = IF c = n /\ t = s THEN queue ELSE requests[c][t]
  BY <1>2 DEF TypeOK
<1>6. ASSUME NEW c \in Nodes, NEW t \in Nodes, NEW p \in DOMAIN sent[c][t]
      PROVE  p \in DOMAIN sent'[c][t] /\ sent'[c][t][p] = sent[c][t][p]
  <2>1. CASE c = n /\ t = s
    BY <1>3, <1>4, <2>1
  <2>2. CASE ~(c = n /\ t = s)
    BY <1>4, <2>2
  <2> QED BY <2>1, <2>2
<1>7. ASSUME NEW c \in Nodes, NEW t \in Nodes, NEW p \in DOMAIN sent'[c][t]
      PROVE  \/ p \in DOMAIN sent[c][t] /\ sent'[c][t][p] = sent[c][t][p]
             \/ c = n /\ t = s /\ p = Len(sent[n][s]) + 1 /\ sent'[c][t][p] = i
  <2>1. CASE c = n /\ t = s
    <3>1. p \in 1..(Len(sent[n][s]) + 1)
      BY <1>3, <1>4, <2>1
    <3>2. p \in 1..Len(sent[n][s]) \/ p = Len(sent[n][s]) + 1
      BY <1>3, <3>1
    <3> QED BY <1>3, <1>4, <2>1, <3>2
  <2>2. CASE ~(c = n /\ t = s)
    BY <1>4, <2>2
  <2> QED BY <2>1, <2>2
<1>8. SentThere(n, s, i)
  <2>1. m \in Request /\ m.call = i
    BY <1>1 DEF m
  <2>2. sent'[n][s] = Append(sent[n][s], i) /\ requests'[n][s] = Append(requests[n][s], m)
    BY <1>4, <1>5 DEF calls, queue
  <2> QED BY <2>1, <2>2 DEF SentThere
<1>9. NothingElsewhere(n, s)
  BY <1>4, <1>5 DEF NothingElsewhere
<1>10. SentKept /\ SentNew(n, s, i)
  BY <1>6, <1>7 DEF SentKept, SentNew
<1> QED BY <1>8, <1>9, <1>10

\* A call is sent by a node that does nothing else; it waits for it, or not.
LEMMA SendInOrder ==
  ASSUME OrderInv, TypeOK', Shapes',
         NEW n \in Nodes, NEW s \in Nodes, NEW i \in Calls, NEW k, Send(n, s, i, k),
         UNCHANGED <<replies, lastSender, result>>,
         \A c, t \in Nodes, j \in Calls :
           WaitsIn(stack'[c], t, j) => \/ c = n /\ t = s /\ j = i
                                       \/ c # n /\ WaitsIn(stack[c], t, j),
         \A m, c \in Nodes, j \in Calls, l \in AllKinds :
           ServesIn(stack'[m], c, j, l) => ServesIn(stack[m], c, j, l)
  PROVE  OrderInv'
<1> USE DEF OrderInv
<1>1. stage[i] = "unsent" /\ stage'[i] = "sent" /\ \A j \in Calls : j # i => stage'[j] = stage[j]
  BY DEF Send, TypeOK
<1>2. \A c, t \in Nodes : \A p \in DOMAIN sent[c][t] : sent[c][t][p] \in Calls /\ sent[c][t][p] # i
  BY <1>1, SentElements DEF SentStaged
<1>3. SentKept /\ SentNew(n, s, i) /\ SentThere(n, s, i) /\ NothingElsewhere(n, s)
  BY SentQueues
<1>4. \A c, t \in Nodes : \A p \in DOMAIN sent'[c][t] :
        \/ p \in DOMAIN sent[c][t] /\ sent'[c][t][p] = sent[c][t][p]
        \/ c = n /\ t = s /\ p = Len(sent[n][s]) + 1 /\ sent'[c][t][p] = i
  BY <1>3 DEF SentNew
<1>5. SentStaged'
  BY <1>1, <1>2, <1>4 DEF SentStaged
<1>6. SentOnce'
  <2> SUFFICES ASSUME NEW c \in Nodes, NEW d \in Nodes, NEW t \in Nodes, NEW u \in Nodes,
                      NEW p \in DOMAIN sent'[c][t], NEW q \in DOMAIN sent'[d][u],
                      sent'[c][t][p] = sent'[d][u][q]
               PROVE  c = d /\ t = u /\ p = q
    BY DEF SentOnce
  <2>1. \/ p \in DOMAIN sent[c][t] /\ sent'[c][t][p] = sent[c][t][p]
        \/ c = n /\ t = s /\ p = Len(sent[n][s]) + 1 /\ sent'[c][t][p] = i
    BY <1>4
  <2>2. \/ q \in DOMAIN sent[d][u] /\ sent'[d][u][q] = sent[d][u][q]
        \/ d = n /\ u = s /\ q = Len(sent[n][s]) + 1 /\ sent'[d][u][q] = i
    BY <1>4
  <2>3. CASE p \in DOMAIN sent[c][t] /\ sent'[c][t][p] = sent[c][t][p]
    <3>1. q \in DOMAIN sent[d][u] /\ sent'[d][u][q] = sent[d][u][q]
      BY <1>2, <2>2, <2>3
    <3>2. sent[c][t][p] = sent[d][u][q]
      BY <2>3, <3>1
    <3>3. SentOnce
      OBVIOUS
    <3> HIDE DEF OrderInv
    <3> QED BY <2>3, <3>1, <3>2, <3>3 DEF SentOnce
  <2>4. CASE c = n /\ t = s /\ p = Len(sent[n][s]) + 1 /\ sent'[c][t][p] = i
    <3>1. ~(q \in DOMAIN sent[d][u] /\ sent'[d][u][q] = sent[d][u][q])
      BY <1>2, <2>4
    <3> QED BY <2>2, <2>4, <3>1
  <2> QED BY <2>1, <2>3, <2>4
<1>7. PICK m \in Request :
        /\ m.call = i
        /\ sent'[n][s] = Append(sent[n][s], i) /\ requests'[n][s] = Append(requests[n][s], m)
  BY <1>3 DEF SentThere
<1>8. sent'[n][s] = Append(sent[n][s], m.call) /\ requests'[n][s] = Append(requests[n][s], m)
  BY <1>7
<1>9. /\ InTurn(sent'[n][s], requests'[n][s], replies[n][s])
      /\ \A j : ServedCall(sent[n][s], requests[n][s], replies[n][s], j)
                  => ServedCall(sent'[n][s], requests'[n][s], replies[n][s], j)
  <2>1. sent[n][s] \in Seq(Calls) /\ requests[n][s] \in Seq(Request) /\ replies[n][s] \in Seq(Calls)
    BY SentElements, QueueElements
  <2>2. InTurn(sent[n][s], requests[n][s], replies[n][s])
    BY DEF InOrder
  <2>3. NewTo(sent[n][s], m.call)
    BY <1>2, <1>7 DEF NewTo
  <2> QED BY <1>7, <1>8, <2>1, <2>2, <2>3, SentOrder
<1>10. \A c, t \in Nodes : ~(c = n /\ t = s) =>
         sent'[c][t] = sent[c][t] /\ requests'[c][t] = requests[c][t]
  BY <1>3 DEF NothingElsewhere
<1>11. InOrder'
  BY <1>9, <1>10 DEF InOrder
<1>12. ServedLast'
  <2> SUFFICES ASSUME NEW v \in Nodes, NEW c \in Nodes, NEW j \in Calls, NEW l \in AllKinds,
                      ServesIn(stack'[v], c, j, l)
               PROVE  lastSender[v] = c /\ ServedCall(sent'[c][v], requests'[c][v], replies[c][v], j)
    BY DEF ServedLast
  <2>1. lastSender[v] = c /\ ServedCall(sent[c][v], requests[c][v], replies[c][v], j)
    BY DEF ServedLast
  <2> QED BY <1>9, <1>10, <2>1
<1>13. WaitedLast'
  <2> SUFFICES ASSUME NEW c \in Nodes, NEW t \in Nodes, NEW j \in Calls, WaitsIn(stack'[c], t, j)
               PROVE  Len(sent'[c][t]) >= 1 /\ sent'[c][t][Len(sent'[c][t])] = j
    BY DEF WaitedLast
  <2>1. CASE c = n /\ t = s /\ j = i
    BY <1>7, <1>8, <2>1, SentElements, AppendedElements
  <2>2. CASE c # n /\ WaitsIn(stack[c], t, j)
    BY <1>10, <2>2 DEF WaitedLast
  <2> QED BY <2>1, <2>2
<1>14. ResultBefore'
  <2> SUFFICES ASSUME NEW j \in Calls, result[j] \in Calls
               PROVE  \E c, t \in Nodes : \E p, q \in DOMAIN sent'[c][t] :
                        sent'[c][t][p] = result[j] /\ sent'[c][t][q] = j /\ p <= q
    BY DEF ResultBefore
  <2>1. PICK c, t \in Nodes : \E p, q \in DOMAIN sent[c][t] :
               sent[c][t][p] = result[j] /\ sent[c][t][q] = j /\ p <= q
    BY DEF ResultBefore
  <2> QED BY <1>3, <2>1 DEF SentKept
<1> QED BY <1>5, <1>6, <1>11, <1>12, <1>13, <1>14

\* What is taken for a reply is to the call of the node that waits, or to one that
\* it made before.
LEMMA ReceiveInOrder ==
  ASSUME OrderInv, TypeOK', NEW n \in Nodes, ReceiveReply(n)
  PROVE  OrderInv'
<1>1. /\ TypeOK /\ Shapes
      /\ SentStaged /\ SentOnce /\ InOrder /\ ServedLast /\ WaitedLast /\ ResultBefore
  BY DEF OrderInv
<1>2. PICK w \in Frame : stack[n] = <<w>> /\ Waiting(w)
  <2>1. IsTop(n, {"sent", "checked"}) /\ {"sent", "checked"} \subseteq WaitPoints
    BY DEF ReceiveReply, WaitPoints
  <2> QED BY <1>1, <2>1, WaitStack
<1>3. w.call \in Calls /\ w.peer \in Nodes
  BY DEF Frame
<1>4. /\ WaitsIn(stack[n], w.peer, w.call)
      /\ Head(stack[n]) = w /\ Tail(stack[n]) = <<>>
  BY <1>2, OneFrame
<1> DEFINE q == replies[n][w.peer]
           rest == Tail(q)
           r == Head(q)
<1>5. /\ q # <<>> /\ result' = [result EXCEPT ![w.call] = r]
      /\ replies' = [replies EXCEPT ![n][w.peer] = rest]
      /\ stack' = [stack EXCEPT ![n] = <<>>]
      /\ UNCHANGED <<requests, lastSender, sent, stage>>
  BY <1>4 DEF ReceiveReply, Consume
<1>6. q \in Seq(Calls) /\ 1 \in DOMAIN q /\ r = q[1] /\ r \in Calls
  BY <1>1, <1>3, <1>5, QueueElements, First
<1>7. PICK k \in DOMAIN sent[n][w.peer] : sent[n][w.peer][k] = r
  <2>1. InTurn(sent[n][w.peer], requests[n][w.peer], q)
    BY <1>1, <1>3 DEF InOrder
  <2>2. PICK k \in 1..Gone(sent[n][w.peer], requests[n][w.peer]) : sent[n][w.peer][k] = q[1]
    BY <1>6, <2>1 DEF InTurn, Among
  <2>3. /\ Gone(sent[n][w.peer], requests[n][w.peer]) \in Nat
        /\ Gone(sent[n][w.peer], requests[n][w.peer]) <= Len(sent[n][w.peer])
        /\ Len(sent[n][w.peer]) \in Nat
        /\ DOMAIN sent[n][w.peer] = 1..Len(sent[n][w.peer])
    <3>1. sent[n][w.peer] \in Seq(Calls) /\ requests[n][w.peer] \in Seq(Request)
      BY <1>1, <1>3, SentElements, QueueElements
    <3>2. LastSent(sent[n][w.peer], requests[n][w.peer])
      BY <2>1 DEF InTurn
    <3> QED BY <3>1, <3>2, GoneType
  <2>4. k \in DOMAIN sent[n][w.peer]
    BY <2>3
  <2> QED BY <1>6, <2>2, <2>4
<1>8. PICK l \in DOMAIN sent[n][w.peer] : sent[n][w.peer][l] = w.call /\ k <= l
  <2>1. /\ Len(sent[n][w.peer]) >= 1
        /\ sent[n][w.peer][Len(sent[n][w.peer])] = w.call
    BY <1>1, <1>3, <1>4 DEF WaitedLast
  <2>2. DOMAIN sent[n][w.peer] = 1..Len(sent[n][w.peer]) /\ Len(sent[n][w.peer]) \in Nat
    BY <1>1, <1>3, SentElements
  <2>3. k \in 1..Len(sent[n][w.peer])
    BY <1>7, <2>2
  <2> QED BY <2>1, <2>2, <2>3
<1> HIDE DEF q, rest, r
<1>9. stack'[n] = <<>> /\ \A m \in Nodes : m # n => stack'[m] = stack[m]
  BY <1>1, <1>5 DEF TypeOK
<1>10. /\ \A s, i : ~WaitsIn(stack'[n], s, i)
       /\ \A c, i, j : ~ServesIn(stack'[n], c, i, j)
  BY <1>9, EmptyStack
<1>11. \A c, s \in Nodes : replies'[c][s] = IF c = n /\ s = w.peer THEN rest ELSE replies[c][s]
  <2>1. replies \in [Nodes -> [Nodes -> Seq(Calls)]]
    BY <1>1 DEF TypeOK
  <2>2. replies' = [replies EXCEPT ![n][w.peer] = rest]
    BY <1>5
  <2> QED BY <1>3, <2>1, <2>2, OneQueue
<1>12. /\ InTurn(sent[n][w.peer], requests[n][w.peer], rest)
       /\ \A i : ServedCall(sent[n][w.peer], requests[n][w.peer], q, i)
                   => ServedCall(sent[n][w.peer], requests[n][w.peer], rest, i)
  <2>1. sent[n][w.peer] \in Seq(Calls)
    BY <1>1, <1>3, SentElements
  <2>2. InTurn(sent[n][w.peer], requests[n][w.peer], q)
    BY <1>1, <1>3 DEF InOrder, q
  <2>3. rest = Tail(q) /\ q # <<>> /\ q \in Seq(Calls)
    BY <1>5, <1>6 DEF rest
  <2> QED BY <2>1, <2>2, <2>3, TakenOrder
<1>13. InOrder'
  <2> SUFFICES ASSUME NEW c \in Nodes, NEW s \in Nodes
               PROVE  InTurn(sent[c][s], requests[c][s], replies'[c][s])
    BY <1>5 DEF InOrder
  <2>1. CASE c = n /\ s = w.peer
    BY <1>11, <1>12, <2>1
  <2>2. CASE ~(c = n /\ s = w.peer)
    BY <1>1, <1>11, <2>2 DEF InOrder
  <2> QED BY <2>1, <2>2
<1>14. ServedLast'
  <2> SUFFICES ASSUME NEW m \in Nodes, NEW c \in Nodes, NEW i \in Calls, NEW j \in AllKinds,
                      ServesIn(stack'[m], c, i, j)
               PROVE  lastSender[m] = c /\ ServedCall(sent[c][m], requests[c][m], replies'[c][m], i)
    BY <1>5 DEF ServedLast
  <2>1. lastSender[m] = c /\ ServedCall(sent[c][m], requests[c][m], replies[c][m], i)
    BY <1>1, <1>9, <1>10 DEF ServedLast
  <2>2. CASE c = n /\ m = w.peer
    BY <1>11, <1>12, <2>1, <2>2 DEF q
  <2>3. CASE ~(c = n /\ m = w.peer)
    BY <1>11, <2>1, <2>3
  <2> QED BY <2>1, <2>2, <2>3
<1>15. WaitedLast'
  <2> SUFFICES ASSUME NEW c \in Nodes, NEW s \in Nodes, NEW i \in Calls, WaitsIn(stack'[c], s, i)
               PROVE  Len(sent[c][s]) >= 1 /\ sent[c][s][Len(sent[c][s])] = i
    BY <1>5 DEF WaitedLast
  <2>1. WaitsIn(stack[c], s, i)
    BY <1>9, <1>10
  <2> QED BY <1>1, <2>1 DEF WaitedLast
<1>16. ResultBefore'
  <2> SUFFICES ASSUME NEW i \in Calls, result'[i] \in Calls
               PROVE  \E c, s \in Nodes : \E g, h \in DOMAIN sent[c][s] :
                        sent[c][s][g] = result'[i] /\ sent[c][s][h] = i /\ g <= h
    BY <1>5 DEF ResultBefore
  <2>1. CASE i = w.call
    <3>1. result'[i] = r
      BY <1>1, <1>5, <2>1 DEF TypeOK
    <3> QED BY <1>3, <1>7, <1>8, <2>1, <3>1
  <2>2. CASE i # w.call
    <3>1. result'[i] = result[i]
      BY <1>1, <1>5, <2>2 DEF TypeOK
    <3> QED BY <1>1, <3>1 DEF ResultBefore
  <2> QED BY <2>1, <2>2
<1>17. Shapes'
  BY <1>1, <1>9 DEF Shapes, LeafStack
<1>18. SentStaged' /\ SentOnce'
  BY <1>1, <1>5 DEF SentStaged, SentOnce
<1> QED BY <1>13, <1>14, <1>15, <1>16, <1>17, <1>18 DEF OrderInv

\* The request that react finds is to the first call not dispatched yet, and _lastSender
\* becomes its client.
LEMMA DispatchInOrder ==
  ASSUME OrderInv, TypeOK', NEW n \in Nodes, NEW c \in Nodes, Dispatch(n, c)
  PROVE  OrderInv'
<1> DEFINE q == requests[c][n]
           m == Head(q)
           rest == Tail(q)
           f == [call |-> m.call, peer |-> c, kind |-> m.kind, at |-> "running"]
<1>1. /\ TypeOK /\ Shapes
      /\ SentStaged /\ SentOnce /\ InOrder /\ ServedLast /\ WaitedLast /\ ResultBefore
  BY DEF OrderInv
<1>2. q \in Seq(Request) /\ q # <<>>
  BY <1>1, QueueElements DEF Dispatch
<1>3. 1 \in DOMAIN q /\ m = q[1] /\ m.call \in Calls /\ m.kind \in AllKinds
  BY <1>1, <1>2, First, QueueElements
<1>4. f \in Frame /\ f.at = "running" /\ f.peer = c /\ f.call = m.call /\ f.kind = m.kind
  BY <1>3 DEF Frame, ServePoints
<1>5. /\ stack' = [stack EXCEPT ![n] = <<f>> \o Reacted(stack[n])]
      /\ stage' = [stage EXCEPT ![m.call] = "serving"]
      /\ requests' = [requests EXCEPT ![c][n] = rest]
      /\ lastSender' = [lastSender EXCEPT ![n] = c]
      /\ UNCHANGED <<replies, sent, result>>
      /\ MayReact(n)
  BY DEF Dispatch, SaveSender
<1>6. /\ stack'[n] = <<f>> \o Reacted(stack[n])
      /\ \A d \in Nodes : d # n => stack'[d] = stack[d]
  BY <1>1, <1>5 DEF TypeOK
<1> HIDE DEF f, m
<1>7. /\ LeafStack(stack'[n])
      /\ \A s, i : WaitsIn(stack'[n], s, i) <=> WaitsIn(stack[n], s, i)
      /\ \A d, i, k : ServesIn(stack'[n], d, i, k) <=> d = c /\ i = m.call /\ k = m.kind
  <2>1. /\ LeafStack(stack'[n])
        /\ \A s, i : WaitsIn(stack'[n], s, i) <=> WaitsIn(stack[n], s, i)
        /\ \A d, i, k : ServesIn(stack'[n], d, i, k) <=> f.peer = d /\ f.call = i /\ f.kind = k
        /\ \A d, i, k : ~ServesIn(stack[n], d, i, k)
    <3>1. Shapes /\ MayReact(n) /\ f \in Frame /\ f.at = "running"
      BY <1>1, <1>4, <1>5
    <3> HIDE DEF q, rest
    <3> QED BY <1>6, <3>1, DispatchStack
  <2> QED BY <1>4, <2>1
<1>8. /\ InTurn(sent[c][n], rest, replies[c][n])
      /\ ServedCall(sent[c][n], rest, replies[c][n], m.call)
  <2>1. InTurn(sent[c][n], q, replies[c][n])
    BY <1>1 DEF InOrder
  <2>2. sent[c][n] \in Seq(Calls)
    BY <1>1, SentElements
  <2>3. m.call = Head(q).call
    BY DEF m
  <2>4. rest = Tail(q)
    OBVIOUS
  <2> HIDE DEF q, rest
  <2>5. InTurn(sent[c][n], rest, replies[c][n]) /\ ServedCall(sent[c][n], rest, replies[c][n], Head(q).call)
    BY <1>2, <2>1, <2>2, <2>4, DispatchedOrder
  <2> QED BY <2>3, <2>5
<1> HIDE DEF rest
<1>9. \A d, s \in Nodes : requests'[d][s] = IF d = c /\ s = n THEN rest ELSE requests[d][s]
  <2>1. requests \in [Nodes -> [Nodes -> Seq(Request)]]
    BY <1>1 DEF TypeOK
  <2>2. requests' = [requests EXCEPT ![c][n] = rest]
    BY <1>5
  <2> QED BY <2>1, <2>2, OneQueue
<1>10. lastSender'[n] = c /\ \A d \in Nodes : d # n => lastSender'[d] = lastSender[d]
  BY <1>1, <1>5 DEF TypeOK
<1>11. Shapes'
  BY <1>1, <1>6, <1>7 DEF Shapes
<1>12. SentStaged'
  <2> SUFFICES ASSUME NEW d \in Nodes, NEW s \in Nodes, NEW k \in DOMAIN sent[d][s]
               PROVE  stage'[sent[d][s][k]] # "unsent"
    BY <1>5 DEF SentStaged
  <2>1. sent[d][s][k] \in Calls
    BY <1>1, SentElements
  <2> QED BY <1>1, <1>3, <1>5, <2>1 DEF SentStaged, TypeOK
<1>13. SentOnce' /\ ResultBefore'
  BY <1>1, <1>5 DEF SentOnce, ResultBefore
<1>14. InOrder'
  <2> SUFFICES ASSUME NEW d \in Nodes, NEW s \in Nodes
               PROVE  InTurn(sent[d][s], requests'[d][s], replies[d][s])
    BY <1>5 DEF InOrder
  <2>1. CASE d = c /\ s = n
    BY <1>8, <1>9, <2>1
  <2>2. CASE ~(d = c /\ s = n)
    BY <1>1, <1>9, <2>2 DEF InOrder
  <2> QED BY <2>1, <2>2
<1>15. ServedLast'
  <2> SUFFICES ASSUME NEW v \in Nodes, NEW d \in Nodes, NEW i \in Calls, NEW k \in AllKinds,
                      ServesIn(stack'[v], d, i, k)
               PROVE  /\ lastSender'[v] = d
                      /\ ServedCall(sent[d][v], requests'[d][v], replies[d][v], i)
    BY <1>5 DEF ServedLast
  <2>1. CASE v = n
    <3>1. d = c /\ i = m.call
      BY <1>7, <2>1
    <3> QED BY <1>8, <1>9, <1>10, <2>1, <3>1
  <2>2. CASE v # n
    <3>1. lastSender[v] = d /\ ServedCall(sent[d][v], requests[d][v], replies[d][v], i)
      BY <1>1, <1>6, <2>2 DEF ServedLast
    <3> QED BY <1>9, <1>10, <2>2, <3>1
  <2> QED BY <2>1, <2>2
<1>16. WaitedLast'
  <2> SUFFICES ASSUME NEW d \in Nodes, NEW s \in Nodes, NEW i \in Calls, WaitsIn(stack'[d], s, i)
               PROVE  Len(sent[d][s]) >= 1 /\ sent[d][s][Len(sent[d][s])] = i
    BY <1>5 DEF WaitedLast
  <2>1. WaitsIn(stack[d], s, i)
    BY <1>6, <1>7
  <2> QED BY <1>1, <2>1 DEF WaitedLast
<1> QED BY <1>11, <1>12, <1>13, <1>14, <1>15, <1>16 DEF OrderInv

\* A reply goes to the client of the call that is served, behind the replies to the
\* calls it made before.
LEMMA ReplyInOrder ==
  ASSUME OrderInv, TypeOK', NEW n \in Nodes, Reply(n)
  PROVE  OrderInv'
<1> DEFINE f == Head(stack[n])
<1>1. /\ TypeOK /\ Shapes
      /\ SentStaged /\ SentOnce /\ InOrder /\ ServedLast /\ WaitedLast /\ ResultBefore
  BY DEF OrderInv
<1>2. /\ f \in Frame
      /\ ServesIn(stack[n], f.peer, f.call, f.kind)
      /\ LeafStack(Tail(stack[n]))
      /\ \A c, i, k : ~ServesIn(Tail(stack[n]), c, i, k)
      /\ \A s, i : WaitsIn(Tail(stack[n]), s, i) <=> WaitsIn(stack[n], s, i)
  BY <1>1, ServeStack DEF Reply
<1>3. f.call \in Calls /\ f.peer \in Nodes /\ f.kind \in AllKinds
  BY <1>2 DEF Frame
<1>4. /\ lastSender[n] = f.peer
      /\ ServedCall(sent[f.peer][n], requests[f.peer][n], replies[f.peer][n], f.call)
  BY <1>1, <1>2, <1>3 DEF ServedLast
<1> DEFINE longer == Append(replies[f.peer][n], f.call)
<1>5. /\ stack' = [stack EXCEPT ![n] = Tail(@)]
      /\ stage' = [stage EXCEPT ![f.call] = "answered"]
      /\ replies' = [replies EXCEPT ![f.peer][n] = longer]
      /\ lastSender' = [lastSender EXCEPT ![n] = None]
      /\ UNCHANGED <<requests, sent, result>>
  <2>1. lastSender[n] # None
    BY <1>3, <1>4, RpcAssumption
  <2> QED BY <1>4, <2>1 DEF Reply, SendReply
<1>6. InTurn(sent[f.peer][n], requests[f.peer][n], longer)
  <2>1. Distinct(sent[f.peer][n])
    BY <1>1, <1>3 DEF SentOnce, Distinct
  <2>2. /\ sent[f.peer][n] \in Seq(Calls) /\ requests[f.peer][n] \in Seq(Request)
        /\ replies[f.peer][n] \in Seq(Calls)
    BY <1>1, <1>3, SentElements, QueueElements
  <2>3. InTurn(sent[f.peer][n], requests[f.peer][n], replies[f.peer][n])
    BY <1>1, <1>3 DEF InOrder
  <2> HIDE DEF f
  <2> QED BY <1>4, <2>1, <2>2, <2>3, RepliedOrder
<1> HIDE DEF f, longer
<1>7. stack'[n] = Tail(stack[n]) /\ \A m \in Nodes : m # n => stack'[m] = stack[m]
  BY <1>1, <1>5 DEF TypeOK
<1>8. /\ \A c, s \in Nodes, i \in Calls : WaitsIn(stack'[c], s, i) => WaitsIn(stack[c], s, i)
      /\ \A m, c \in Nodes, i \in Calls, k \in AllKinds :
           ServesIn(stack'[m], c, i, k) => m # n /\ ServesIn(stack[m], c, i, k)
  BY <1>2, <1>7
<1>9. \A c, s \in Nodes : replies'[c][s] = IF c = f.peer /\ s = n THEN longer ELSE replies[c][s]
  <2>1. replies \in [Nodes -> [Nodes -> Seq(Calls)]]
    BY <1>1 DEF TypeOK
  <2>2. replies' = [replies EXCEPT ![f.peer][n] = longer]
    BY <1>5
  <2> QED BY <1>3, <2>1, <2>2, OneQueue
<1>10. Shapes'
  BY <1>1, <1>2, <1>7 DEF Shapes
<1>11. SentStaged'
  <2> SUFFICES ASSUME NEW d \in Nodes, NEW s \in Nodes, NEW k \in DOMAIN sent[d][s]
               PROVE  stage'[sent[d][s][k]] # "unsent"
    BY <1>5 DEF SentStaged
  <2>1. sent[d][s][k] \in Calls
    BY <1>1, SentElements
  <2> QED BY <1>1, <1>3, <1>5, <2>1 DEF SentStaged, TypeOK
<1>12. SentOnce' /\ ResultBefore'
  BY <1>1, <1>5 DEF SentOnce, ResultBefore
<1>13. InOrder'
  <2> SUFFICES ASSUME NEW c \in Nodes, NEW s \in Nodes
               PROVE  InTurn(sent[c][s], requests[c][s], replies'[c][s])
    BY <1>5 DEF InOrder
  <2>1. CASE c = f.peer /\ s = n
    BY <1>6, <1>9, <2>1
  <2>2. CASE ~(c = f.peer /\ s = n)
    BY <1>1, <1>9, <2>2 DEF InOrder
  <2> QED BY <2>1, <2>2
<1>14. ServedLast'
  <2> SUFFICES ASSUME NEW m \in Nodes, NEW c \in Nodes, NEW i \in Calls, NEW k \in AllKinds,
                      ServesIn(stack'[m], c, i, k)
               PROVE  /\ lastSender'[m] = c
                      /\ ServedCall(sent[c][m], requests[c][m], replies'[c][m], i)
    BY <1>5 DEF ServedLast
  <2>1. m # n /\ ServesIn(stack[m], c, i, k)
    BY <1>8
  <2>2. replies'[c][m] = replies[c][m] /\ lastSender'[m] = lastSender[m]
    BY <1>1, <1>5, <1>9, <2>1 DEF TypeOK
  <2> QED BY <1>1, <2>1, <2>2 DEF ServedLast
<1>15. WaitedLast'
  BY <1>1, <1>5, <1>8 DEF WaitedLast
<1> QED BY <1>10, <1>11, <1>12, <1>13, <1>14, <1>15 DEF OrderInv

\* What an exception leaves of a stack: nothing, for it ends the one wait.
LEMMA FlatUnwound ==
  ASSUME NEW st, LeafStack(st), st # <<>>
  PROVE  /\ Head(st).at \in WaitPoints => Unwound(st) = <<>>
         /\ Head(st).at \in ServePoints => Tail(st) = <<>> \/ Unwound(Tail(st)) = <<>>
<1>1. CASE \E f \in Frame : st = <<f>> /\ f.at # "raised"
  <2>1. Tail(st) = <<>>
    BY <1>1
  <2> QED BY <2>1 DEF Unwound
<1>2. ASSUME NEW f \in Frame, NEW w \in Frame, st = <<f, w>>, f.at = "running", w.at = "checked"
      PROVE  /\ Head(st).at \notin WaitPoints
             /\ Unwound(Tail(st)) = <<>>
  <2>1. Head(st) = f /\ Tail(st) = <<w>> /\ Tail(<<w>>) = <<>>
    BY <1>2
  <2> QED BY <1>2, <2>1 DEF Unwound, WaitPoints
<1> QED BY <1>1, <1>2 DEF LeafStack

\* A step after which n waits for nothing and serves nothing.
LEMMA NodeIdle ==
  ASSUME OrderInv, TypeOK', NEW n \in Nodes, stack' = [stack EXCEPT ![n] = <<>>],
         UNCHANGED <<requests, replies, lastSender, sent>>,
         \A i \in Calls : stage[i] # "unsent" => stage'[i] # "unsent",
         \A i \in Calls : result'[i] = result[i] \/ result'[i] = Thrown
  PROVE  OrderInv'
<1>1. stack'[n] = <<>> /\ \A m \in Nodes : m # n => stack'[m] = stack[m]
  BY DEF OrderInv, TypeOK
<1>2. \A c, i, k : ~WaitsIn(stack'[n], c, i) /\ ~ServesIn(stack'[n], c, i, k)
  BY <1>1, EmptyStack
<1>3. Shapes'
  BY <1>1 DEF OrderInv, Shapes, LeafStack
<1> QED BY <1>1, <1>2, <1>3, QuietOrder

\* A step within a wait.
LEMMA WaitGoesOn ==
  ASSUME OrderInv, TypeOK', NEW n \in Nodes, NEW at, at \subseteq WaitPoints, IsTop(n, at),
         NEW p \in WaitPoints, stack' = [stack EXCEPT ![n] = [stack[n] EXCEPT ![1].at = p]],
         \A m \in Nodes : m # n => lastSender'[m] = lastSender[m],
         UNCHANGED <<requests, replies, sent, stage, result>>
  PROVE  OrderInv'
<1> DEFINE next == [stack[n] EXCEPT ![1].at = p]
<1>1. TypeOK /\ Shapes
  BY DEF OrderInv
<1>2. PICK w \in Frame : stack[n] = <<w>> /\ Waiting(w)
  BY <1>1, WaitStack
<1>3. /\ LeafStack(next)
      /\ \A s, i : WaitsIn(next, s, i) <=> WaitsIn(stack[n], s, i)
      /\ \A c, i, k : ~ServesIn(next, c, i, k)
  BY <1>2, SameWait
<1> HIDE DEF next
<1>4. stack'[n] = next /\ \A m \in Nodes : m # n => stack'[m] = stack[m]
  BY <1>1 DEF TypeOK, next
<1>5. Shapes'
  BY <1>1, <1>3, <1>4 DEF Shapes
<1>6. \A m, s \in Nodes, i \in Calls : WaitsIn(stack'[m], s, i) => WaitsIn(stack[m], s, i)
  BY <1>3, <1>4
<1>7. \A m, c \in Nodes, i \in Calls, k \in AllKinds :
        ServesIn(stack'[m], c, i, k)
          => ServesIn(stack[m], c, i, k) /\ lastSender'[m] = lastSender[m]
  BY <1>3, <1>4
<1> QED BY <1>5, <1>6, <1>7, QuietOrder

LEMMA OrderNext ==
  ASSUME Flat
  PROVE  OrderInv /\ [Next]_vars => OrderInv'
<1> SUFFICES ASSUME OrderInv, [Next]_vars PROVE OrderInv'
  OBVIOUS
<1>1. TypeOK' /\ TypeOK /\ Shapes
  BY TypeNext DEF OrderInv
<1>2. ASSUME NEW n \in Nodes, NEW s, MayIssue(n, s) PROVE stack[n] = <<>>
  BY <1>2 DEF MayIssue, Flat
<1>3. ASSUME NEW n \in Nodes, NEW s \in Nodes, NEW i \in Calls, AsynchRequest(n, s, i) PROVE OrderInv'
  <2>1. /\ Send(n, s, i, "async") /\ stack[n] = <<>>
        /\ UNCHANGED <<stack, replies, lastSender, result>>
    BY <1>2, <1>3 DEF AsynchRequest
  <2>2. Shapes'
    BY <1>1, <2>1 DEF Shapes
  <2>3. \A t, j : ~WaitsIn(stack[n], t, j)
    BY <2>1, EmptyStack
  <2> QED BY <1>1, <2>1, <2>2, <2>3, SendInOrder
<1>4. ASSUME NEW n \in Nodes, NEW s \in Nodes, NEW i \in Calls, NEW k \in AllKinds,
             SynchRequest(n, s, i, k)
      PROVE  OrderInv'
  <2> DEFINE w == [call |-> i, peer |-> s, kind |-> k, at |-> "sent"]
  <2>1. stack[n] = <<>> /\ Send(n, s, i, k) /\ UNCHANGED <<replies, lastSender, result>>
    BY <1>2, <1>4 DEF SynchRequest
  <2>2. w \in Frame /\ Waiting(w) /\ ~Serving(w) /\ w.at # "raised" /\ w.peer = s /\ w.call = i
    BY DEF Frame, Waiting, Serving, WaitPoints, ServePoints
  <2>3. stack' = [stack EXCEPT ![n] = <<w>> \o @]
    BY <1>4 DEF SynchRequest
  <2> HIDE DEF w
  <2>4. stack'[n] = <<w>> /\ \A m \in Nodes : m # n => stack'[m] = stack[m]
    <3>1. <<w>> \o <<>> = <<w>>
      OBVIOUS
    <3> QED BY <1>1, <2>1, <2>3, <3>1 DEF TypeOK
  <2>5. /\ \A t, j : WaitsIn(stack'[n], t, j) <=> t = s /\ j = i
        /\ \A c, j, l : ~ServesIn(stack'[n], c, j, l)
    BY <2>2, <2>4, OneFrame
  <2>6. LeafStack(stack'[n])
    BY <2>2, <2>4 DEF LeafStack
  <2>7. Shapes'
    BY <1>1, <2>4, <2>6 DEF Shapes
  <2>8. \A c, t \in Nodes, j \in Calls :
          WaitsIn(stack'[c], t, j) => \/ c = n /\ t = s /\ j = i
                                      \/ c # n /\ WaitsIn(stack[c], t, j)
    BY <2>4, <2>5
  <2>9. \A m, c \in Nodes, j \in Calls, l \in AllKinds :
          ServesIn(stack'[m], c, j, l) => ServesIn(stack[m], c, j, l)
    BY <2>4, <2>5
  <2> QED BY <1>1, <2>1, <2>7, <2>8, <2>9, SendInOrder
<1>5. ASSUME NEW n \in Nodes, NoReplyYet(n) PROVE OrderInv'
  <2>1. /\ IsTop(n, {"sent", "checked"}) /\ {"sent", "checked"} \subseteq WaitPoints
        /\ "reacting" \in WaitPoints
        /\ stack' = [stack EXCEPT ![n] = [stack[n] EXCEPT ![1].at = "reacting"]]
        /\ UNCHANGED <<requests, replies, lastSender, sent, stage, result>>
    BY <1>5 DEF NoReplyYet, KeepWaiting, WaitPoints
  <2> QED BY <1>1, <2>1, WaitGoesOn
<1>6. ASSUME NEW n \in Nodes, NothingToReact(n) PROVE OrderInv'
  <2>1. /\ IsTop(n, {"reacting"}) /\ {"reacting"} \subseteq WaitPoints /\ "checked" \in WaitPoints
        /\ stack' = [stack EXCEPT ![n] = [stack[n] EXCEPT ![1].at = "checked"]]
        /\ UNCHANGED <<requests, replies, sent, stage, result>>
    BY <1>6 DEF NothingToReact, Reacted, WaitPoints, IsTop
  <2>2. \A m \in Nodes : m # n => lastSender'[m] = lastSender[m]
    BY <1>1, <1>6 DEF NothingToReact, LoseSender, TypeOK
  <2> QED BY <1>1, <2>1, <2>2, WaitGoesOn
<1>7. ASSUME NEW n \in Nodes, ReplyTimeout(n) PROVE OrderInv'
  <2>1. /\ Head(stack[n]).at \in WaitPoints /\ stack[n] # <<>> /\ LeafStack(stack[n])
        /\ Head(stack[n]).call \in Calls
    BY <1>1, <1>7, TopFrame DEF ReplyTimeout, IsTop, WaitPoints, Shapes
  <2>2. Unwound(stack[n]) = <<>>
    BY <2>1, FlatUnwound
  <2>3. /\ stack' = [stack EXCEPT ![n] = <<>>]
        /\ UNCHANGED <<requests, replies, lastSender, sent, stage>>
    BY <1>7, <2>2 DEF ReplyTimeout
  <2>4. \A i \in Calls : result'[i] = result[i] \/ result'[i] = Thrown
    BY <1>1, <1>7, <2>1 DEF ReplyTimeout, TypeOK
  <2> QED BY <1>1, <2>3, <2>4, NodeIdle
<1>8. ASSUME NEW n \in Nodes, ReturnNothing(n) PROVE OrderInv'
  <2>1. /\ LeafStack(Tail(stack[n]))
        /\ \A c, i, k : ~ServesIn(Tail(stack[n]), c, i, k)
        /\ \A s, i : WaitsIn(Tail(stack[n]), s, i) <=> WaitsIn(stack[n], s, i)
        /\ Head(stack[n]).call \in Calls
    BY <1>1, <1>8, ServeStack, TopFrame DEF ReturnNothing
  <2>2. stack'[n] = Tail(stack[n]) /\ \A m \in Nodes : m # n => stack'[m] = stack[m]
    BY <1>1, <1>8 DEF ReturnNothing, TypeOK
  <2>3. Shapes'
    BY <1>1, <2>1, <2>2 DEF Shapes
  <2>4. \A i \in Calls : stage[i] # "unsent" => stage'[i] # "unsent"
    BY <1>1, <1>8, <2>1 DEF ReturnNothing, TypeOK
  <2>5. UNCHANGED <<requests, replies, lastSender, sent, result>>
    BY <1>8 DEF ReturnNothing
  <2>6. \A c, s \in Nodes, i \in Calls : WaitsIn(stack'[c], s, i) => WaitsIn(stack[c], s, i)
    BY <2>1, <2>2
  <2>7. \A m, c \in Nodes, i \in Calls, k \in AllKinds :
          ServesIn(stack'[m], c, i, k) => ServesIn(stack[m], c, i, k)
    BY <2>1, <2>2
  <2> QED BY <1>1, <2>3, <2>4, <2>5, <2>6, <2>7, QuietOrder
<1>9. ASSUME NEW n \in Nodes, Throw(n) PROVE OrderInv'
  <2>1. /\ IsTop(n, ServePoints) /\ LeafStack(stack[n]) /\ stack[n] # <<>>
        /\ Head(stack[n]).at \in ServePoints /\ Head(stack[n]).call \in Calls
    BY <1>1, <1>9, TopFrame DEF Throw, IsTop, Shapes
  <2>2. Tail(stack[n]) = <<>> \/ Unwound(Tail(stack[n])) = <<>>
    BY <2>1, FlatUnwound
  <2>3. stack' = [stack EXCEPT ![n] = <<>>]
    BY <1>9, <2>2 DEF Throw
  <2>4. UNCHANGED <<requests, replies, lastSender, sent>>
    BY <1>9 DEF Throw
  <2>5. \A i \in Calls : stage[i] # "unsent" => stage'[i] # "unsent"
    BY <1>1, <1>9, <2>1 DEF Throw, TypeOK
  <2>6. \A i \in Calls : result'[i] = result[i] \/ result'[i] = Thrown
    BY <1>1, <1>9 DEF Throw, TypeOK
  <2> QED BY <1>1, <2>3, <2>4, <2>5, <2>6, NodeIdle
<1>10. CASE UNCHANGED vars
  <2>1. UNCHANGED <<requests, replies, lastSender, stack, sent, stage, result>>
    BY <1>10 DEF vars
  <2>2. Shapes'
    BY <1>1, <2>1 DEF Shapes
  <2> QED BY <1>1, <2>1, <2>2, QuietOrder
<1>11. ASSUME NEW n \in Nodes, ReceiveReply(n) PROVE OrderInv'
  BY <1>1, <1>11, ReceiveInOrder
<1>12. ASSUME NEW n \in Nodes, NEW c \in Nodes, Dispatch(n, c) PROVE OrderInv'
  BY <1>1, <1>12, DispatchInOrder
<1>13. ASSUME NEW n \in Nodes, Reply(n) PROVE OrderInv'
  BY <1>1, <1>13, ReplyInOrder
<1> QED
  BY <1>3, <1>4, <1>5, <1>6, <1>7, <1>8, <1>9, <1>10, <1>11, <1>12, <1>13 DEF Next, Issue, Step

LEMMA OrderAlways ==
  ASSUME Flat
  PROVE  Spec => []OrderInv
BY OrderInit, OrderNext, PTL DEF Spec

\* Where a call stands among those sent.
LEMMA TurnOf ==
  ASSUME OrderInv, NEW c \in Nodes, NEW s \in Nodes, NEW k \in DOMAIN sent[c][s]
  PROVE  Turn(c, s, sent[c][s][k]) = k /\ k \in Nat /\ k > 0
<1>1. \A l \in DOMAIN sent[c][s] : sent[c][s][l] = sent[c][s][k] => l = k
  BY DEF OrderInv, SentOnce
<1>2. (CHOOSE l \in DOMAIN sent[c][s] : sent[c][s][l] = sent[c][s][k]) = k
  BY <1>1
<1>3. k \in Nat /\ k > 0
  BY SentElements DEF OrderInv
<1> QED BY <1>2, <1>3 DEF Turn

\* However late they are, the replies on a connector are to calls made to its server,
\* in the order of the calls: each was sent to the client of the last request that
\* was dispatched, which _lastSender still held.
THEOREM LateRepliesInOrder ==
  ASSUME Flat
  PROVE  Spec => []RepliesInOrder
<1>1. OrderInv => RepliesInOrder
  <2> SUFFICES ASSUME OrderInv, NEW c \in Nodes, NEW s \in Nodes, NEW q \in DOMAIN replies[c][s]
               PROVE  /\ Turn(c, s, replies[c][s][q]) > 0
                      /\ \A p \in 1..(q - 1) :
                           Turn(c, s, replies[c][s][p]) < Turn(c, s, replies[c][s][q])
    BY DEF RepliesInOrder
  <2>1. /\ DOMAIN replies[c][s] = 1..Len(replies[c][s]) /\ Len(replies[c][s]) \in Nat
        /\ DOMAIN sent[c][s] = 1..Len(sent[c][s]) /\ Len(sent[c][s]) \in Nat
    BY QueueElements, SentElements DEF OrderInv
  <2>2. InTurn(sent[c][s], requests[c][s], replies[c][s])
    BY DEF OrderInv, InOrder
  <2>3. /\ Gone(sent[c][s], requests[c][s]) \in Nat
        /\ Gone(sent[c][s], requests[c][s]) <= Len(sent[c][s])
    <3>1. sent[c][s] \in Seq(Calls) /\ requests[c][s] \in Seq(Request)
      BY SentElements, QueueElements DEF OrderInv
    <3>2. LastSent(sent[c][s], requests[c][s])
      BY <2>2 DEF InTurn
    <3> QED BY <3>1, <3>2, GoneType
  <2>4. ASSUME NEW p \in DOMAIN replies[c][s]
        PROVE  \E k \in DOMAIN sent[c][s] : sent[c][s][k] = replies[c][s][p]
    <3>1. PICK k \in 1..Gone(sent[c][s], requests[c][s]) : sent[c][s][k] = replies[c][s][p]
      BY <2>2 DEF InTurn, Among
    <3>2. k \in DOMAIN sent[c][s]
      BY <2>1, <2>3
    <3> QED BY <3>1, <3>2
  <2>5. PICK l \in DOMAIN sent[c][s] : sent[c][s][l] = replies[c][s][q]
    BY <2>4
  <2>6. Turn(c, s, replies[c][s][q]) = l /\ l > 0
    BY <2>5, TurnOf
  <2>7. ASSUME NEW p \in 1..(q - 1)
        PROVE  Turn(c, s, replies[c][s][p]) < Turn(c, s, replies[c][s][q])
    <3>1. p \in DOMAIN replies[c][s] /\ p < q
      BY <2>1
    <3>2. PICK k \in DOMAIN sent[c][s] : sent[c][s][k] = replies[c][s][p]
      BY <2>4, <3>1
    <3>3. Turn(c, s, replies[c][s][p]) = k
      BY <3>2, TurnOf
    <3>4. k < l
      BY <2>2, <2>5, <3>1, <3>2 DEF InTurn, Ordered
    <3> QED BY <2>6, <3>3, <3>4
  <2> QED BY <2>6, <2>7
<1> QED BY <1>1, OrderAlways, PTL

\* Calls time out, and their replies are taken by others (the run rpc_stale); but
\* what a call takes is never the reply to a later call, nor to one that another
\* client made, or that was made to another server.
THEOREM StaleAtMost ==
  ASSUME Flat
  PROVE  Spec => []StaleAtWorst
<1>1. OrderInv => StaleAtWorst
  <2> SUFFICES ASSUME OrderInv, NEW i \in Calls, result[i] \in Calls
               PROVE  \E c, s \in Nodes : Turn(c, s, result[i]) > 0
                                          /\ Turn(c, s, result[i]) <= Turn(c, s, i)
    BY DEF StaleAtWorst
  <2>1. PICK c, s \in Nodes : \E k, l \in DOMAIN sent[c][s] :
               sent[c][s][k] = result[i] /\ sent[c][s][l] = i /\ k <= l
    BY DEF OrderInv, ResultBefore
  <2>2. PICK k, l \in DOMAIN sent[c][s] : sent[c][s][k] = result[i] /\ sent[c][s][l] = i /\ k <= l
    BY <2>1
  <2>3. Turn(c, s, result[i]) = k /\ k > 0 /\ Turn(c, s, i) = l
    BY <2>2, TurnOf
  <2> QED BY <2>2, <2>3
<1> QED BY <1>1, OrderAlways, PTL
=============================================================================
