------------------------------ MODULE RpcCalls ------------------------------
(***************************************************************************)
(* The calling convention of the rpc library: how a node sends a request,  *)
(* keeps serving other nodes while it waits for the reply, and routes the  *)
(* replies of the requests it serves (ClientRequestHandler,                *)
(* ServerRequestHandler, Invoker::dispatchInvocation and the two ends of   *)
(* the ZeroMQ transport).                                                  *)
(*                                                                         *)
(* A node is one thread.  What it is doing is its C++ call stack, of which *)
(* we keep the frames that matter: a request it waits on                   *)
(* (handleSynchRequest) and a request it serves (dispatchInvocation).  The *)
(* top of the stack is its first element.                                  *)
(*                                                                         *)
(* Messages carry the call they belong to only so that properties can      *)
(* speak of it: on the wire neither a request nor a reply has an identity  *)
(* (Message.proto), and no action reads it.                                *)
(*                                                                         *)
(* Above some operators stand variants of them, named Slip..., with a      *)
(* mistake that would be easy to make.  No action uses them: put in the    *)
(* operator's place, each makes a run below report a violated property.    *)
(***************************************************************************)
EXTENDS Naturals, Sequences

CONSTANTS
  Nodes,         \* processes, each with one acceptor and a connector per peer
  Calls,         \* identities of the calls made in a behaviour: the bound
  None,          \* no sender, no outcome
  Thrown,        \* outcome of a call that ended with an exception of its own
  AppCalls,      \* <<n, s>>: the application on n calls services of s
  HandlerCalls,  \* <<n, s>>: services of n call services of s when invoked
  Kinds,         \* kinds of requests in use, a subset of AllKinds
  Throws,        \* kinds whose dispatch may throw out of react
  MaxTimeouts    \* bound on reply timeouts

\* A "sync" request is an INVOCATION with hasReturn, an "async" one has no
\* reply (INVOCATION without hasReturn, LEASE), and a "management" one (NEW,
\* LOOKUP) is replied to, but is not "synch" to dispatchInvocation.
AllKinds == {"sync", "management", "async"}

ASSUME RpcAssumption ==
  /\ AppCalls \subseteq Nodes \X Nodes
  /\ HandlerCalls \subseteq Nodes \X Nodes
  /\ Kinds \subseteq AllKinds
  /\ Throws \subseteq {"management", "async"}
  /\ MaxTimeouts \in Nat
  /\ None \notin Calls /\ Thrown \notin Calls /\ None # Thrown
  /\ None \notin Nodes

VARIABLES
  requests,    \* requests[c][s]: messages from c's connector to s's acceptor
  replies,     \* replies[c][s]: replies on their way to c's connector for s
  lastSender,  \* ZMQAcceptor::_lastSender of each node
  stack,       \* the waiting and serving frames of each node, topmost first
  timeouts,    \* reply timeouts so far
  sent,        \* history: sent[c][s] lists the calls c made to s, in order
  stage,       \* history: what the server has done with each call
  result       \* history: the call whose reply each call took, or Thrown

vars == <<requests, replies, lastSender, stack, timeouts, sent, stage, result>>

Request == [call: Calls, kind: AllKinds]

\* A frame of handleSynchRequest is between sending and the first look for the
\* reply ("sent"), about to react ("reacting") or about to look at the clock
\* ("checked").  A frame of dispatchInvocation runs the method ("running"), or
\* was left by an exception thrown by a call the method made ("raised").
WaitPoints == {"sent", "reacting", "checked"}
ServePoints == {"running", "raised"}

\* peer is the server waited on, or the client whose request is served.
Frame == [call: Calls, peer: Nodes, kind: AllKinds, at: WaitPoints \cup ServePoints]

Stages == {"unsent", "sent", "serving", "answered", "unanswered"}

Waiting(f) == f.at \in WaitPoints
Serving(f) == f.at \in ServePoints

IsTop(n, at) == stack[n] # <<>> /\ Head(stack[n]).at \in at

Init ==
  /\ requests = [c \in Nodes |-> [s \in Nodes |-> <<>>]]
  /\ replies = [c \in Nodes |-> [s \in Nodes |-> <<>>]]
  /\ lastSender = [n \in Nodes |-> None]
  /\ stack = [n \in Nodes |-> <<>>]
  /\ timeouts = 0
  /\ sent = [c \in Nodes |-> [s \in Nodes |-> <<>>]]
  /\ stage = [i \in Calls |-> "unsent"]
  /\ result = [i \in Calls |-> None]

-----------------------------------------------------------------------------
(* The client side.                                                        *)

\* Code that can issue a request runs on n: the application, or a service
\* that is being invoked (no service runs to answer a management request).
MayIssue(n, s) ==
  \/ stack[n] = <<>> /\ <<n, s>> \in AppCalls
  \/ /\ IsTop(n, ServePoints)
     /\ Head(stack[n]).kind # "management"
     /\ <<n, s>> \in HandlerCalls

Send(n, s, i, k) ==
  /\ stage[i] = "unsent"
  /\ k \in Kinds
  /\ requests' = [requests EXCEPT ![n][s] = Append(@, [call |-> i, kind |-> k])]
  /\ sent' = [sent EXCEPT ![n][s] = Append(@, i)]
  /\ stage' = [stage EXCEPT ![i] = "sent"]

\* handleAsynchRequest: nothing is waited for.
AsynchRequest(n, s, i) ==
  /\ MayIssue(n, s)
  /\ Send(n, s, i, "async")
  /\ UNCHANGED <<replies, lastSender, stack, timeouts, result>>

\* handleSynchRequest up to the loop that waits for the reply.
SynchRequest(n, s, i, k) ==
  /\ MayIssue(n, s)
  /\ k # "async"
  /\ Send(n, s, i, k)
  /\ stack' = [stack EXCEPT
                 ![n] = <<[call |-> i, peer |-> s, kind |-> k, at |-> "sent"]>> \o @]
  /\ UNCHANGED <<replies, lastSender, timeouts, result>>

\* receiveReply consumes the message it returns.
SlipPeek(n, s) == UNCHANGED replies
Consume(n, s) == replies' = [replies EXCEPT ![n][s] = Tail(@)]

\* receiveReply finds a message on the connector: it is the reply, whichever
\* request it answers.
ReceiveReply(n) ==
  /\ IsTop(n, {"sent", "checked"})
  /\ LET f == Head(stack[n]) IN
       /\ replies[n][f.peer] # <<>>
       /\ result' = [result EXCEPT ![f.call] = Head(replies[n][f.peer])]
       /\ Consume(n, f.peer)
       /\ stack' = [stack EXCEPT ![n] = Tail(@)]
  /\ UNCHANGED <<requests, lastSender, timeouts, sent, stage>>

\* Without a reply the loop goes on: the node reacts, and looks again.
SlipWaitOnce(st) == Tail(st)
SlipDeafWait(st) == [st EXCEPT ![1].at = "checked"]
KeepWaiting(st) == [st EXCEPT ![1].at = "reacting"]

\* receiveReply finds nothing.
NoReplyYet(n) ==
  /\ IsTop(n, {"sent", "checked"})
  /\ replies[n][Head(stack[n]).peer] = <<>>
  /\ stack' = [stack EXCEPT ![n] = KeepWaiting(@)]
  /\ UNCHANGED <<requests, replies, lastSender, timeouts, sent, stage, result>>

\* What an exception leaves of a stack whose top frame is the wait it ends: the
\* service invoked below sees its call throw.
Unwound(st) ==
  IF Tail(st) = <<>> THEN <<>> ELSE [Tail(st) EXCEPT ![1].at = "raised"]

\* The clock shows that the reply is late: handleSynchRequest throws.
ReplyTimeout(n) ==
  /\ IsTop(n, {"checked"})
  /\ timeouts < MaxTimeouts
  /\ timeouts' = timeouts + 1
  /\ result' = [result EXCEPT ![Head(stack[n]).call] = Thrown]
  /\ stack' = [stack EXCEPT ![n] = Unwound(@)]
  /\ UNCHANGED <<requests, replies, lastSender, sent, stage>>

-----------------------------------------------------------------------------
(* The server side.                                                        *)

\* update() is called by the application of an idle node, and by a node that
\* waits for a reply.
SlipReactInService(n) == stack[n] = <<>> \/ IsTop(n, {"reacting", "running"})
MayReact(n) == stack[n] = <<>> \/ IsTop(n, {"reacting"})

\* The stack below the dispatch that react makes: the wait, if there is one,
\* looks at the clock next.
Reacted(st) == IF st = <<>> THEN <<>> ELSE [st EXCEPT ![1].at = "checked"]

\* receive keeps the identity of the client whose message it returns.
SlipKeepSender(n, c) == lastSender' = [lastSender EXCEPT ![n] = IF @ = None THEN c ELSE @]
SlipKeepBody(n, c) == lastSender' = [lastSender EXCEPT ![n] = Head(requests[c][n]).call]
SaveSender(n, c) == lastSender' = [lastSender EXCEPT ![n] = c]

\* react finds a message, from any of the clients that have one queued.
Dispatch(n, c) ==
  /\ MayReact(n)
  /\ requests[c][n] # <<>>
  /\ LET m == Head(requests[c][n]) IN
       /\ stack' = [stack EXCEPT
            ![n] = <<[call |-> m.call, peer |-> c, kind |-> m.kind, at |-> "running"]>>
                   \o Reacted(@)]
       /\ stage' = [stage EXCEPT ![m.call] = "serving"]
  /\ requests' = [requests EXCEPT ![c][n] = Tail(@)]
  /\ SaveSender(n, c)
  /\ UNCHANGED <<replies, timeouts, sent, result>>

\* receive reads into _lastSender also when nothing has come: the socket empties
\* the message it is given, and the identity of a client served below is lost.
LoseSender(n) == lastSender' = [lastSender EXCEPT ![n] = None]

\* react finds no message.
NothingToReact(n) ==
  /\ IsTop(n, {"reacting"})
  /\ \A c \in Nodes : requests[c][n] = <<>>
  /\ stack' = [stack EXCEPT ![n] = Reacted(@)]
  /\ LoseSender(n)
  /\ UNCHANGED <<requests, replies, timeouts, sent, stage, result>>

\* Only a message with something to return is replied to.
SlipAlwaysReply(k) == TRUE
HasReply(k) == k # "async"

\* The method returned, and its call has no reply.
ReturnNothing(n) ==
  /\ IsTop(n, ServePoints)
  /\ ~HasReply(Head(stack[n]).kind)
  /\ stage' = [stage EXCEPT ![Head(stack[n]).call] = "unanswered"]
  /\ stack' = [stack EXCEPT ![n] = Tail(@)]
  /\ UNCHANGED <<requests, replies, lastSender, timeouts, sent, result>>

\* sendReply addresses the reply to the last sender and thereby consumes the
\* identity frame: a reply with no sender left is dropped by the socket.
SlipReplyTwice(n, i) ==
  /\ replies' = IF lastSender[n] = None THEN replies
                ELSE [replies EXCEPT ![lastSender[n]][n] = Append(Append(@, i), i)]
  /\ lastSender' = [lastSender EXCEPT ![n] = None]

SendReply(n, i) ==
  /\ replies' = IF lastSender[n] = None THEN replies
                ELSE [replies EXCEPT ![lastSender[n]][n] = Append(@, i)]
  /\ lastSender' = [lastSender EXCEPT ![n] = None]

\* The method returned, or threw and the request is "sync": the return values or
\* the exception are replied.
Reply(n) ==
  /\ IsTop(n, ServePoints)
  /\ HasReply(Head(stack[n]).kind)
  /\ SendReply(n, Head(stack[n]).call)
  /\ stage' = [stage EXCEPT ![Head(stack[n]).call] = "answered"]
  /\ stack' = [stack EXCEPT ![n] = Tail(@)]
  /\ UNCHANGED <<requests, timeouts, sent, result>>

\* The dispatch of a request that is not "sync" threw: nothing is replied, and
\* the exception leaves react and ends the wait that called it.
Throw(n) ==
  /\ IsTop(n, ServePoints)
  /\ LET f == Head(stack[n])
         below == Tail(stack[n])
     IN
       /\ f.kind # "sync"
       /\ f.kind \in Throws \/ f.at = "raised"
       /\ stage' = [stage EXCEPT ![f.call] = "unanswered"]
       /\ IF below = <<>>
          THEN /\ stack' = [stack EXCEPT ![n] = <<>>]
               /\ UNCHANGED result
          ELSE /\ stack' = [stack EXCEPT ![n] = Unwound(below)]
               /\ result' = [result EXCEPT ![Head(below).call] = Thrown]
  /\ UNCHANGED <<requests, replies, lastSender, timeouts, sent>>

-----------------------------------------------------------------------------

\* What a node does without a decision of the application: the loop that waits
\* for a reply, and the service of requests.
Step(n) ==
  \/ ReceiveReply(n)
  \/ NoReplyYet(n)
  \/ \E c \in Nodes : Dispatch(n, c)
  \/ NothingToReact(n)
  \/ ReturnNothing(n)
  \/ Reply(n)
  \/ Throw(n)

Issue(n) ==
  \E s \in Nodes, i \in Calls :
    \/ AsynchRequest(n, s, i)
    \/ \E k \in AllKinds : SynchRequest(n, s, i, k)

Next == \E n \in Nodes : Issue(n) \/ Step(n) \/ ReplyTimeout(n)

Spec == Init /\ [][Next]_vars

\* Applications keep updating their nodes, and services return.
FairSpec == Spec /\ \A n \in Nodes : WF_vars(Step(n))

-----------------------------------------------------------------------------
(* Properties.                                                             *)

\* The shape of the state: every frame and message belongs to a known call.
TypeOK ==
  /\ requests \in [Nodes -> [Nodes -> Seq(Request)]]
  /\ replies \in [Nodes -> [Nodes -> Seq(Calls)]]
  /\ lastSender \in [Nodes -> Nodes \cup {None}]
  /\ stack \in [Nodes -> Seq(Frame)]
  /\ timeouts \in 0..MaxTimeouts
  /\ sent \in [Nodes -> [Nodes -> Seq(Calls)]]
  /\ stage \in [Calls -> Stages]
  /\ result \in [Calls -> Calls \cup {None, Thrown}]

\* n is in handleSynchRequest for call i.
Awaits(n, i) ==
  \E d \in DOMAIN stack[n] : Waiting(stack[n][d]) /\ stack[n][d].call = i

\* A call that returns a reply returns the reply to its own request, although
\* handleSynchRequest takes whatever comes next on the connector.
OwnReply == \A i \in Calls : result[i] \in Calls => result[i] = i

\* Every reply on its way to a client is for the request this client waits on at
\* this server: sendReply found the right client in _lastSender, and no reply is
\* left behind for a later request to take.
RepliesAwaited ==
  \A c, s \in Nodes : \A k \in DOMAIN replies[c][s] :
    \E d \in DOMAIN stack[c] :
      /\ Waiting(stack[c][d])
      /\ stack[c][d].peer = s
      /\ stack[c][d].call = replies[c][s][k]

\* A request that is being served is one its client still waits on (if it waits
\* at all): no service runs for a caller that has gone.
ServedForWaiter ==
  \A s \in Nodes : \A d \in DOMAIN stack[s] :
    LET f == stack[s][d] IN
      Serving(f) /\ f.kind # "async" => Awaits(f.peer, f.call)

\* However many nodes call each other at once, serving while waiting does not
\* grow the stack when services make no calls: a wait and, above it, a service.
BoundedReentrancy == \A n \in Nodes : Len(stack[n]) <= 2

\* A reply reaches one call at most, even when replies are late or dropped: it is
\* not taken twice, nor still queued once it was taken.
ReplyTakenOnce ==
  \A i, j \in Calls :
    result[j] = i =>
      /\ \A h \in Calls : result[h] = i => h = j
      /\ \A c, s \in Nodes : \A k \in DOMAIN replies[c][s] : replies[c][s][k] # i

\* Where i stands among the calls from c to s, 0 if it is not one of them.
Turn(c, s, i) ==
  IF \E k \in DOMAIN sent[c][s] : sent[c][s][k] = i
  THEN CHOOSE k \in DOMAIN sent[c][s] : sent[c][s][k] = i
  ELSE 0

\* Late replies included, the replies a client finds on its connector for s are to
\* calls it made to s, in the order of the calls: _lastSender held the client of
\* the request that was served, and nothing overtakes.
RepliesInOrder ==
  \A c, s \in Nodes : \A k \in DOMAIN replies[c][s] :
    /\ Turn(c, s, replies[c][s][k]) > 0
    /\ \A h \in 1..(k - 1) :
         Turn(c, s, replies[c][s][h]) < Turn(c, s, replies[c][s][k])

\* What a call takes for its reply is at worst the reply to an earlier call of the
\* same client to the same server, never to a later or to another's call.
StaleAtWorst ==
  \A i \in Calls : result[i] \in Calls =>
    \E c, s \in Nodes :
      /\ Turn(c, s, result[i]) > 0
      /\ Turn(c, s, result[i]) <= Turn(c, s, i)

\* Every call that waits for a reply returns with it, whatever the nodes call
\* each other for meanwhile (handleSynchRequest keeps the server updated).
CallsReturn == \A n \in Nodes, i \in Calls : Awaits(n, i) ~> result[i] = i

\* The services of s make no calls.
CallsNobody(s) == \A t \in Nodes : <<s, t>> \notin HandlerCalls

\* n is in handleSynchRequest for call i to s.
AwaitsFrom(n, s, i) ==
  \E d \in DOMAIN stack[n] :
    Waiting(stack[n][d]) /\ stack[n][d].peer = s /\ stack[n][d].call = i

\* With services that call on, a call still returns if its own service calls
\* nobody, at whatever depth it is made and although its server is waiting too.
LeafCallsReturn ==
  \A n, s \in Nodes, i \in Calls :
    CallsNobody(s) => (AwaitsFrom(n, s, i) ~> result[i] = i)

\* sendReply sends to the sender of the last message that was received: a reply
\* was taken by a call, or is on its way to one.
RepliesSent ==
  \A i \in Calls : stage[i] = "answered" =>
    \/ \E j \in Calls : result[j] = i
    \/ \E c, s \in Nodes : \E k \in DOMAIN replies[c][s] : replies[c][s][k] = i

\* How far each call is, seen from outside.
Phase(i) ==
  IF result[i] # None THEN "over"
  ELSE CASE stage[i] = "unsent"      -> "idle"
         [] stage[i] = "sent"        -> "made"
         [] stage[i] = "serving"     -> "executing"
         [] stage[i] = "answered"    -> "executed"
         [] stage[i] = "unanswered"  -> "over"

Calling == INSTANCE RemoteCall WITH phase <- [i \in Calls |-> Phase(i)]

\* Queues, stacks and the missing identities implement remote calls: each is
\* executed once, and its caller returns after that and because of it.
ImplementsRemoteCall == Calling!Spec

\* ... and every call that is made is executed and returns.
ImplementsFairRemoteCall == Calling!FairSpec

=============================================================================
