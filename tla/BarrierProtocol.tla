-------------------------- MODULE BarrierProtocol ---------------------------
(***************************************************************************)
(* The network barrier: one node raises it (Node::raiseBarrier with its    *)
(* BarrierManager) for the nodes it has requestors of, which announce that *)
(* they hit it and wait until it is down (Invoker::hitBarrier).            *)
(*                                                                         *)
(* All messages are asynchronous; a connector delivers its messages in     *)
(* order.  A node that waits in raiseBarrier or hitBarrier keeps reacting, *)
(* one message between two looks at its condition; otherwise its           *)
(* application updates it.  assert is compiled out, as in a release build: *)
(* that the assertion holds is the property NoStrayHit.                    *)
(*                                                                         *)
(* The operators named Slip... are variants of the one below them with a   *)
(* plausible mistake; no action uses them.                                 *)
(***************************************************************************)
EXTENDS Naturals, Sequences, FiniteSets

CONSTANTS
  Clients,     \* the nodes the raiser has requestors of
  Capacity,    \* the argument of raiseBarrier
  TimeoutsAt,  \* the waits that may time out, a subset of AllWaits
  MaxRounds,   \* bound on how often the barrier falls and each client passes it
  MaxTimeouts  \* bound on waits that time out

\* raiseBarrier waits until the barrier is down, hitBarrier until it is up and
\* then, the hit being sent, until it is down.
AllWaits == {"raising", "awaitUp", "awaitDown"}

ASSUME BarrierAssumption ==
  /\ IsFiniteSet(Clients)
  /\ Capacity \in Nat \ {0}
  /\ TimeoutsAt \subseteq AllWaits
  /\ MaxRounds \in Nat
  /\ MaxTimeouts \in Nat

VARIABLES
  capacity,   \* BarrierManager::_capacity, 0 when the barrier is down
  numHits,    \* BarrierManager::_numHits
  raising,    \* the raiser's application is in raiseBarrier
  signals,    \* signals[c]: BARRIER_UP and BARRIER_DOWN on their way to c
  hits,       \* hits[c]: the number of BARRIER_HIT on their way from c
  barrierUp,  \* Invoker::_barrierUp of each client
  app,        \* where each client's application is
  timeouts,   \* waits that timed out so far
  rounds,     \* history: how often the barrier fell
  arrived,    \* history: hits sent by each client
  passed      \* history: calls of hitBarrier that returned, by each client

vars == <<capacity, numHits, raising, signals, hits, barrierUp, app, timeouts,
          rounds, arrived, passed>>

Init ==
  /\ capacity = 0
  /\ numHits = 0
  /\ raising = FALSE
  /\ signals = [c \in Clients |-> <<>>]
  /\ hits = [c \in Clients |-> 0]
  /\ barrierUp = [c \in Clients |-> FALSE]
  /\ app = [c \in Clients |-> "out"]
  /\ timeouts = 0
  /\ rounds = 0
  /\ arrived = [c \in Clients |-> 0]
  /\ passed = [c \in Clients |-> 0]

-----------------------------------------------------------------------------
(* The node that raises the barrier.                                       *)

\* RequestorManager sends the signal through every requestor.
Broadcast(signal) == signals' = [c \in Clients |-> Append(signals[c], signal)]

\* A barrier that is raised again keeps the capacity it is given.
SlipAddCapacity == capacity + Capacity
NewCapacity == Capacity

RaiseBarrier ==
  /\ ~raising
  /\ rounds < MaxRounds
  /\ raising' = TRUE
  /\ capacity' = NewCapacity
  /\ Broadcast("UP")
  /\ UNCHANGED <<numHits, hits, barrierUp, app, timeouts, rounds, arrived, passed>>

\* Enough nodes have hit the barrier.
SlipOneMore(n) == n > capacity
SlipOneShort(n) == n + 1 >= capacity
Reached(n) == n >= capacity

\* The hits of a round are forgotten when it ends.
SlipKeepHits(n) == n
AfterRound(n) == 0

\* A hit arrives.  raiseBarrier reacts only while the barrier is up.
OnBarrierHit(c) ==
  /\ hits[c] > 0
  /\ raising => capacity > 0
  /\ hits' = [hits EXCEPT ![c] = @ - 1]
  /\ IF Reached(numHits + 1)
     THEN /\ capacity' = 0
          /\ numHits' = AfterRound(numHits + 1)
          /\ Broadcast("DOWN")
          /\ rounds' = rounds + 1
     ELSE /\ numHits' = numHits + 1
          /\ UNCHANGED <<capacity, signals, rounds>>
  /\ UNCHANGED <<raising, barrierUp, app, timeouts, arrived, passed>>

\* raiseBarrier finds the barrier down and returns.
RaiseReturns ==
  /\ raising
  /\ capacity = 0
  /\ raising' = FALSE
  /\ UNCHANGED <<capacity, numHits, signals, hits, barrierUp, app, timeouts, rounds,
                 arrived, passed>>

\* raiseBarrier throws, and leaves the barrier up and the hits counted.
RaiseTimeout ==
  /\ raising
  /\ capacity > 0
  /\ "raising" \in TimeoutsAt /\ timeouts < MaxTimeouts
  /\ timeouts' = timeouts + 1
  /\ raising' = FALSE
  /\ UNCHANGED <<capacity, numHits, signals, hits, barrierUp, app, rounds, arrived, passed>>

-----------------------------------------------------------------------------
(* The nodes that hit the barrier.                                         *)

\* The request the client sends when it has seen the barrier up.
SendHit(c) ==
  /\ hits' = [hits EXCEPT ![c] = @ + 1]
  /\ arrived' = [arrived EXCEPT ![c] = @ + 1]
  /\ app' = [app EXCEPT ![c] = "awaitDown"]

\* hitBarrier is called, and finds the barrier up or waits for it.
HitBarrier(c) ==
  /\ app[c] = "out"
  /\ passed[c] < MaxRounds
  /\ IF barrierUp[c]
     THEN SendHit(c)
     ELSE /\ app' = [app EXCEPT ![c] = "awaitUp"]
          /\ UNCHANGED <<hits, arrived>>
  /\ UNCHANGED <<capacity, numHits, raising, signals, barrierUp, timeouts, rounds, passed>>

\* The barrier the client waited for has come up.
SeeUp(c) ==
  /\ app[c] = "awaitUp"
  /\ barrierUp[c]
  /\ SendHit(c)
  /\ UNCHANGED <<capacity, numHits, raising, signals, barrierUp, timeouts, rounds, passed>>

\* The wait looks at its condition after every message.
SlipReactOn(c) == TRUE
MayReact(c) ==
  /\ app[c] = "awaitUp" => ~barrierUp[c]
  /\ app[c] = "awaitDown" => barrierUp[c]

\* The client's node reacts to a signal.
OnSignal(c) ==
  /\ MayReact(c)
  /\ signals[c] # <<>>
  /\ barrierUp' = [barrierUp EXCEPT ![c] = Head(signals[c]) = "UP"]
  /\ signals' = [signals EXCEPT ![c] = Tail(@)]
  /\ UNCHANGED <<capacity, numHits, raising, hits, app, timeouts, rounds,
                 arrived, passed>>

\* The client sees the barrier down and goes on.
SlipNeverDown(c) == app[c] = "awaitDown"
SeesDown(c) == app[c] = "awaitDown" /\ ~barrierUp[c]

HitReturns(c) ==
  /\ SeesDown(c)
  /\ app' = [app EXCEPT ![c] = "out"]
  /\ passed' = [passed EXCEPT ![c] = @ + 1]
  /\ UNCHANGED <<capacity, numHits, raising, signals, hits, barrierUp, timeouts, rounds,
                 arrived>>

\* hitBarrier throws; a hit that was sent stays sent.
HitTimeout(c) ==
  /\ app[c] # "out"
  /\ app[c] \in TimeoutsAt /\ timeouts < MaxTimeouts
  /\ timeouts' = timeouts + 1
  /\ app' = [app EXCEPT ![c] = "out"]
  /\ UNCHANGED <<capacity, numHits, raising, signals, hits, barrierUp, rounds, arrived, passed>>

-----------------------------------------------------------------------------

RaiserStep == RaiseBarrier \/ RaiseReturns \/ \E c \in Clients : OnBarrierHit(c)

ClientStep(c) == HitBarrier(c) \/ SeeUp(c) \/ OnSignal(c) \/ HitReturns(c)

Next ==
  \/ RaiserStep
  \/ RaiseTimeout
  \/ \E c \in Clients : ClientStep(c) \/ HitTimeout(c)

Spec == Init /\ [][Next]_vars

\* Every application goes on to its next round, and keeps its node updated.
FairSpec == Spec /\ WF_vars(RaiserStep) /\ \A c \in Clients : WF_vars(ClientStep(c))

-----------------------------------------------------------------------------
(* Properties.  They are about the intended use: Capacity is the number of *)
(* clients, and no wait times out once its hit is sent.                    *)

\* The counters of the raiser and the flags of the clients.
TypeOK ==
  /\ capacity \in {0, Capacity}
  /\ numHits \in Nat
  /\ raising \in BOOLEAN
  /\ signals \in [Clients -> Seq({"UP", "DOWN"})]
  /\ hits \in [Clients -> Nat]
  /\ barrierUp \in [Clients -> BOOLEAN]
  /\ app \in [Clients -> {"out", "awaitUp", "awaitDown"}]
  /\ timeouts \in 0..MaxTimeouts
  /\ rounds \in Nat
  /\ arrived \in [Clients -> Nat]
  /\ passed \in [Clients -> Nat]

\* The assertion of onBarrierHit: a hit that the raiser may react to finds the
\* barrier up.
NoStrayHit == \A c \in Clients : hits[c] > 0 => capacity > 0 \/ raising

\* The barrier falls exactly when every client has hit it once more: no hit is
\* lost, counted for two rounds or left over for the next, even when raiseBarrier
\* times out and is called again while hits are on their way.
EveryRoundHit ==
  \A c \in Clients :
    /\ rounds <= arrived[c] /\ arrived[c] <= rounds + 1
    /\ capacity = 0 => arrived[c] = rounds

Abstract == INSTANCE Barrier

\* The signals, counters and flags of all nodes implement the barrier: nobody
\* passes for the k-th time before everybody arrived k times.
ImplementsBarrier == Abstract!Spec

\* Every call of hitBarrier returns.
HitReturnsEventually == \A c \in Clients : app[c] # "out" ~> app[c] = "out"

\* Every call of raiseBarrier returns.
RaiseReturnsEventually == raising ~> ~raising

=============================================================================
