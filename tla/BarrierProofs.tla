---------------------------- MODULE BarrierProofs ---------------------------
(***************************************************************************)
(* The barrier in its intended use, for any number of clients: it is       *)
(* raised for as many hits as there are clients, and no wait is given up   *)
(* once its hit was sent.                                                  *)
(*                                                                         *)
(* The argument: a client has sent either a hit of the current round, and  *)
(* then nothing but UP is on its way to it, or none; what then keeps it in *)
(* hitBarrier is exactly one DOWN, that of the round it hit last.  So the  *)
(* UP that lets it send the next hit is of a barrier that is still up.     *)
(***************************************************************************)
EXTENDS BarrierProtocol, FiniteSetTheorems, TLAPS

\* A hit of every client brings the barrier down, and no hit is sent twice in a round.
Intended == Capacity = Cardinality(Clients) /\ "awaitDown" \notin TimeoutsAt

-----------------------------------------------------------------------------
(* Types.                                                                  *)

\* At first everything has its type.
LEMMA InitType == Init => TypeOK
<1> SUFFICES ASSUME Init PROVE TypeOK
  OBVIOUS
<1>1. <<>> \in Seq({"UP", "DOWN"})
  OBVIOUS
<1>2. signals \in [Clients -> Seq({"UP", "DOWN"})]
  BY <1>1 DEF Init
<1>3. app \in [Clients -> {"out", "awaitUp", "awaitDown"}]
  BY DEF Init
<1>4. timeouts \in 0..MaxTimeouts
  BY BarrierAssumption DEF Init
<1> QED BY <1>2, <1>3, <1>4 DEF Init, TypeOK

\* Every step keeps the types.
LEMMA StepType == TypeOK /\ [Next]_vars => TypeOK'
<1> SUFFICES ASSUME TypeOK, [Next]_vars PROVE TypeOK'
  OBVIOUS
<1> USE DEF TypeOK
<1>1. CASE RaiseBarrier
  BY <1>1 DEF RaiseBarrier, NewCapacity, Broadcast
<1>2. ASSUME NEW c \in Clients, OnBarrierHit(c) PROVE TypeOK'
  <2>1. CASE Reached(numHits + 1)
    <3>1. capacity' = 0 /\ numHits' = 0 /\ rounds' = rounds + 1
          /\ signals' = [d \in Clients |-> Append(signals[d], "DOWN")]
      BY <1>2, <2>1 DEF OnBarrierHit, AfterRound, Broadcast
    <3>2. signals' \in [Clients -> Seq({"UP", "DOWN"})]
      BY <3>1
    <3>3. hits' \in [Clients -> Nat]
      BY <1>2 DEF OnBarrierHit
    <3> QED BY <1>2, <3>1, <3>2, <3>3 DEF OnBarrierHit
  <2>2. CASE ~Reached(numHits + 1)
    BY <1>2, <2>2 DEF OnBarrierHit
  <2> QED BY <2>1, <2>2
<1>3. CASE RaiseReturns
  <2>1. raising' \in BOOLEAN
    BY <1>3 DEF RaiseReturns
  <2>2. UNCHANGED <<capacity, numHits, signals, hits, barrierUp, app, timeouts, rounds, arrived, passed>>
    BY <1>3 DEF RaiseReturns
  <2> QED BY <2>1, <2>2
<1>4. CASE RaiseTimeout
  <2>1. raising' \in BOOLEAN
    BY <1>4 DEF RaiseTimeout
  <2>2. /\ timeouts' \in 0..MaxTimeouts
        /\ UNCHANGED <<capacity, numHits, signals, hits, barrierUp, app, rounds, arrived, passed>>
    BY <1>4, BarrierAssumption DEF RaiseTimeout
  <2> QED BY <2>1, <2>2
<1>5. ASSUME NEW c \in Clients, HitBarrier(c) PROVE TypeOK'
  <2>1. /\ hits' \in [Clients -> Nat] /\ arrived' \in [Clients -> Nat]
        /\ app' \in [Clients -> {"out", "awaitUp", "awaitDown"}]
    <3>1. CASE barrierUp[c]
      <4>1. SendHit(c)
        BY <1>5, <3>1 DEF HitBarrier
      <4> QED BY <4>1 DEF SendHit
    <3>2. CASE ~barrierUp[c]
      BY <1>5, <3>2 DEF HitBarrier
    <3> QED BY <3>1, <3>2
  <2>2. UNCHANGED <<capacity, numHits, raising, signals, barrierUp, timeouts, rounds, passed>>
    BY <1>5 DEF HitBarrier
  <2> QED BY <2>1, <2>2
<1>6. ASSUME NEW c \in Clients, SeeUp(c) PROVE TypeOK'
  BY <1>6 DEF SeeUp, SendHit
<1>7. ASSUME NEW c \in Clients, OnSignal(c) PROVE TypeOK'
  BY <1>7 DEF OnSignal
<1>8. ASSUME NEW c \in Clients, HitReturns(c) PROVE TypeOK'
  BY <1>8 DEF HitReturns
<1>9. ASSUME NEW c \in Clients, HitTimeout(c) PROVE TypeOK'
  BY <1>9, BarrierAssumption DEF HitTimeout
<1>10. CASE UNCHANGED vars
  BY <1>10 DEF vars
<1> QED
  BY <1>1, <1>2, <1>3, <1>4, <1>5, <1>6, <1>7, <1>8, <1>9, <1>10 DEF Next, RaiserStep, ClientStep

\* The raiser's counter and the clients' queues keep their types, for all constants.
THEOREM TypeCorrect == Spec => []TypeOK
<1> QED BY InitType, StepType, PTL DEF Spec

-----------------------------------------------------------------------------
(* Queues of signals.                                                      *)

Signals == Seq({"UP", "DOWN"})

Ups(q) == \A i \in 1..Len(q) : q[i] = "UP"

\* The only DOWN is the d-th signal.
OneDown(q, d) ==
  /\ d \in 1..Len(q)
  /\ q[d] = "DOWN"
  /\ \A i \in 1..Len(q) : i # d => q[i] = "UP"

\* A DOWN behind UPs is the only one.
LEMMA AppendToUps ==
  ASSUME NEW q \in Signals, Ups(q)
  PROVE  /\ Ups(Append(q, "UP"))
         /\ OneDown(Append(q, "DOWN"), Len(Append(q, "DOWN")))
BY DEF Signals, Ups, OneDown

\* The first of them is an UP.
LEMMA TailOfUps ==
  ASSUME NEW q \in Signals, Ups(q), q # <<>>
  PROVE  Head(q) = "UP" /\ Ups(Tail(q))
BY DEF Signals, Ups

\* Behind the DOWN there may be UPs of the next barrier.
LEMMA AppendToOneDown ==
  ASSUME NEW q \in Signals, NEW d, OneDown(q, d)
  PROVE  OneDown(Append(q, "UP"), d)
BY DEF Signals, OneDown

\* The first signal is the DOWN, or an UP of the same barrier.
LEMMA TailOfOneDown ==
  ASSUME NEW q \in Signals, NEW d, OneDown(q, d)
  PROVE  \/ Head(q) = "DOWN" /\ Ups(Tail(q)) /\ (d = Len(q) => Tail(q) = <<>>)
         \/ Head(q) = "UP" /\ OneDown(Tail(q), d - 1) /\ Len(Tail(q)) = Len(q) - 1
<1>1. q # <<>> /\ Len(q) \in Nat /\ d \in 1..Len(q)
  BY DEF Signals, OneDown
<1>2. Len(Tail(q)) = Len(q) - 1 /\ Head(q) = q[1]
      /\ \A i \in 1..Len(Tail(q)) : Tail(q)[i] = q[i + 1]
  BY <1>1 DEF Signals
<1>3. CASE d = 1
  <2>1. Ups(Tail(q))
    BY <1>1, <1>2, <1>3 DEF Ups, OneDown
  <2>2. d = Len(q) => Tail(q) = <<>>
    <3>1. Tail(q) \in Signals
      BY <1>1 DEF Signals
    <3>2. d = Len(q) => Len(Tail(q)) = 0
      BY <1>1, <1>2, <1>3
    <3> QED BY <3>1, <3>2 DEF Signals
  <2> QED BY <2>1, <2>2, <1>2, <1>3 DEF OneDown
<1>4. CASE d # 1
  <2>1. Head(q) = "UP"
    BY <1>1, <1>2, <1>4 DEF OneDown
  <2>2. OneDown(Tail(q), d - 1)
    BY <1>1, <1>2, <1>4 DEF OneDown
  <2> QED BY <2>1, <2>2, <1>2
<1> QED BY <1>3, <1>4

-----------------------------------------------------------------------------
(* The inductive invariant.                                                *)

\* The client has hit the current round, and waits.
Hit(c) == arrived[c] = rounds + 1

HasHit(c) ==
  Hit(c) => /\ capacity # 0
            /\ app[c] = "awaitDown" /\ barrierUp[c]
            /\ Ups(signals[c])

\* It still waits for the end of an earlier round, which is on its way.
Leaving(c) == ~Hit(c) /\ app[c] = "awaitDown" /\ barrierUp[c]

IsLeaving(c) ==
  Leaving(c) => \E d \in 1..Len(signals[c]) :
                  OneDown(signals[c], d) /\ (capacity = 0 => d = Len(signals[c]))

\* It does neither: what it knows of a barrier is of one that is up.
IsClear(c) ==
  ~Hit(c) /\ ~Leaving(c) =>
    /\ Ups(signals[c])
    /\ barrierUp[c] \/ signals[c] # <<>> => capacity # 0

ClientInv(c) ==
  /\ hits[c] \in 0..1 /\ (hits[c] = 1 => Hit(c))
  /\ arrived[c] \in {rounds, rounds + 1}
  /\ arrived[c] = IF app[c] = "awaitDown" THEN passed[c] + 1 ELSE passed[c]
  /\ HasHit(c)
  /\ IsLeaving(c)
  /\ IsClear(c)

\* The clients whose hit of this round was counted.
Counted == {c \in Clients : Hit(c) /\ hits[c] = 0}

RoundInv ==
  /\ TypeOK
  /\ \A c \in Clients : ClientInv(c)
  /\ numHits = Cardinality(Counted)

\* A client that a step does not concern keeps its part of the invariant.
LEMMA Others ==
  ASSUME NEW c \in Clients, ClientInv(c), capacity' = capacity, rounds' = rounds,
         hits'[c] = hits[c], arrived'[c] = arrived[c], passed'[c] = passed[c],
         app'[c] = app[c], barrierUp'[c] = barrierUp[c], signals'[c] = signals[c]
  PROVE  ClientInv(c)'
BY DEF ClientInv, HasHit, IsLeaving, IsClear, Leaving, Hit

\* At first nobody has hit anything.
LEMMA InitRound == Init => RoundInv
<1> SUFFICES ASSUME Init PROVE RoundInv
  OBVIOUS
<1>1. TypeOK
  BY InitType
<1>2. \A c \in Clients : ClientInv(c)
  BY DEF Init, ClientInv, HasHit, IsLeaving, IsClear, Leaving, Hit, Ups
<1>3. Counted = {}
  BY DEF Init, Counted, Hit
<1> QED BY <1>1, <1>2, <1>3, FS_EmptySet DEF Init, RoundInv

\* Announcing a barrier puts an UP behind whatever is on its way.
LEMMA RaiseRound ==
  ASSUME RoundInv, RaiseBarrier
  PROVE  RoundInv'
<1> USE DEF RoundInv
<1>1. TypeOK'
  BY StepType DEF Next, RaiserStep
<1>2. /\ capacity' # 0
      /\ \A c \in Clients : signals'[c] = Append(signals[c], "UP") /\ signals[c] \in Signals
      /\ UNCHANGED <<numHits, hits, barrierUp, app, rounds, arrived, passed>>
  BY BarrierAssumption DEF RaiseBarrier, NewCapacity, Broadcast, TypeOK, Signals
<1>3. ASSUME NEW c \in Clients PROVE ClientInv(c)'
  <2>1. ClientInv(c)
    OBVIOUS
  <2>2. Ups(signals[c]) => Ups(signals'[c])
    BY <1>2, AppendToUps
  <2>3. Len(signals'[c]) = Len(signals[c]) + 1 /\ Len(signals[c]) \in Nat
    BY <1>2 DEF Signals
  <2>4. \A d \in 1..Len(signals[c]) : OneDown(signals[c], d) =>
          d \in 1..Len(signals'[c]) /\ OneDown(signals'[c], d)
    <3> SUFFICES ASSUME NEW d \in 1..Len(signals[c]), OneDown(signals[c], d)
                 PROVE  d \in 1..Len(signals'[c]) /\ OneDown(signals'[c], d)
      OBVIOUS
    <3>1. d \in 1..Len(signals'[c])
      BY <2>3
    <3>2. signals[c] \in Signals /\ signals'[c] = Append(signals[c], "UP")
      BY <1>2
    <3>3. OneDown(Append(signals[c], "UP"), d)
      BY <3>2, AppendToOneDown
    <3> QED BY <3>1, <3>2, <3>3
  <2>5. HasHit(c)'
    BY <2>1, <2>2, <1>2 DEF ClientInv, HasHit, Hit
  <2>6. IsLeaving(c)'
    BY <2>1, <2>4, <1>2 DEF ClientInv, IsLeaving, Leaving, Hit
  <2>7. IsClear(c)'
    BY <2>1, <2>2, <1>2 DEF ClientInv, IsClear, Leaving, Hit
  <2> QED BY <2>1, <2>5, <2>6, <2>7, <1>2 DEF ClientInv, Hit
<1>4. Counted' = Counted
  BY <1>2 DEF Counted, Hit
<1> QED BY <1>1, <1>2, <1>3, <1>4

\* A hit is the last one exactly when every client has hit.
LEMMA HitRound ==
  ASSUME Intended, RoundInv, NEW c \in Clients, OnBarrierHit(c)
  PROVE  RoundInv'
<1> USE DEF RoundInv
<1>1. TypeOK'
  BY StepType DEF Next, RaiserStep
<1>2. Hit(c) /\ hits[c] = 1 /\ capacity # 0
  BY DEF OnBarrierHit, ClientInv, HasHit, TypeOK
<1>3. capacity = Cardinality(Clients)
  BY <1>2 DEF Intended, TypeOK
<1>4. /\ hits'[c] = 0
      /\ \A d \in Clients : d # c => hits'[d] = hits[d]
      /\ UNCHANGED <<barrierUp, app, arrived, passed>>
  BY <1>2 DEF OnBarrierHit, TypeOK
<1>5. /\ IsFiniteSet(Counted) /\ IsFiniteSet(Counted \cup {c})
      /\ Cardinality(Counted \cup {c}) = numHits + 1
      /\ Counted \cup {c} \in SUBSET Clients
  <2>1. Counted \in SUBSET Clients /\ c \notin Counted
    BY <1>2 DEF Counted
  <2>2. IsFiniteSet(Counted)
    BY <2>1, FS_Subset, BarrierAssumption
  <2> QED BY <2>1, <2>2, FS_AddElement
<1>6. CASE Reached(numHits + 1)
  <2>1. Counted \cup {c} = Clients
    <3>1. Cardinality(Counted \cup {c}) <= Cardinality(Clients)
      BY <1>5, FS_Subset, BarrierAssumption
    <3>2. Cardinality(Counted \cup {c}) = Cardinality(Clients)
      BY <3>1, <1>3, <1>5, <1>6, BarrierAssumption DEF Reached, TypeOK, Intended
    <3> QED BY <3>2, <1>5, FS_Subset, BarrierAssumption
  <2>2. /\ capacity' = 0 /\ numHits' = 0 /\ rounds' = rounds + 1
        /\ \A d \in Clients : signals'[d] = Append(signals[d], "DOWN") /\ signals[d] \in Signals
    BY <1>6 DEF OnBarrierHit, AfterRound, Broadcast, TypeOK, Signals
  <2>3. ASSUME NEW d \in Clients PROVE ClientInv(d)' /\ ~Hit(d)'
    <3>1. ClientInv(d) /\ Hit(d)
      BY <2>1, <1>2 DEF Counted
    <3>2. rounds \in Nat
      BY DEF TypeOK
    <3>3. hits'[d] = 0
      BY <2>1, <1>4 DEF Counted
    <3>4. ~Hit(d)' /\ arrived'[d] = rounds'
      BY <3>1, <3>2, <2>2, <1>4 DEF Hit
    <3>5. app'[d] = "awaitDown" /\ barrierUp'[d]
      BY <3>1, <1>4 DEF ClientInv, HasHit
    <3>6. OneDown(signals'[d], Len(signals'[d])) /\ Len(signals'[d]) \in 1..Len(signals'[d])
      <4>1. Ups(signals[d])
        BY <3>1 DEF ClientInv, HasHit
      <4>2. signals[d] \in Signals /\ signals'[d] = Append(signals[d], "DOWN")
        BY <2>2
      <4>3. OneDown(signals'[d], Len(signals'[d]))
        BY <4>1, <4>2, AppendToUps
      <4> QED BY <4>3 DEF OneDown
    <3>7. HasHit(d)' /\ IsLeaving(d)' /\ IsClear(d)'
      BY <3>4, <3>5, <3>6 DEF HasHit, IsLeaving, IsClear, Leaving
    <3>8. arrived'[d] = IF app'[d] = "awaitDown" THEN passed'[d] + 1 ELSE passed'[d]
      BY <3>1, <1>4 DEF ClientInv
    <3> QED BY <3>3, <3>4, <3>7, <3>8 DEF ClientInv
  <2>4. Counted' = {}
    BY <2>3 DEF Counted
  <2> QED BY <1>1, <2>2, <2>3, <2>4, FS_EmptySet
<1>7. CASE ~Reached(numHits + 1)
  <2>1. numHits' = numHits + 1 /\ UNCHANGED <<capacity, signals, rounds>>
    BY <1>7 DEF OnBarrierHit
  <2>2. ASSUME NEW d \in Clients PROVE ClientInv(d)'
    <3>1. ClientInv(d)
      OBVIOUS
    <3>2. CASE d = c
      BY <3>1, <3>2, <2>1, <1>2, <1>4 DEF ClientInv, HasHit, IsLeaving, IsClear, Leaving, Hit
    <3>3. CASE d # c
      BY <3>1, <3>3, <2>1, <1>4, Others
    <3> QED BY <3>2, <3>3
  <2>3. Counted' = Counted \cup {c}
    BY <2>1, <1>2, <1>4 DEF Counted, Hit
  <2> QED BY <1>1, <2>1, <2>2, <2>3, <1>5
<1> QED BY <1>6, <1>7

\* The raiser's application may come and go: nothing else depends on it.
LEMMA RaiserOnly ==
  ASSUME RoundInv, TypeOK',
         UNCHANGED <<capacity, numHits, signals, hits, barrierUp, app, rounds, arrived, passed>>
  PROVE  RoundInv'
<1> USE DEF RoundInv
<1>1. \A c \in Clients : ClientInv(c)'
  BY Others
<1>2. Counted' = Counted
  BY DEF Counted, Hit
<1> QED BY <1>1, <1>2

\* A client that sends its hit has not sent one in this round, whose barrier is up.
LEMMA SendRound ==
  ASSUME RoundInv, TypeOK', NEW c \in Clients, SendHit(c), app[c] # "awaitDown", barrierUp[c],
         UNCHANGED <<capacity, numHits, signals, barrierUp, rounds, passed>>
  PROVE  RoundInv' /\ arrived[c] = passed[c]
<1> USE DEF RoundInv
<1>1. ClientInv(c)
  OBVIOUS
<1>2. ~Hit(c) /\ ~Leaving(c) /\ rounds \in Nat
  BY <1>1 DEF ClientInv, HasHit, Leaving, TypeOK
<1>3. capacity # 0 /\ Ups(signals[c]) /\ arrived[c] = rounds /\ hits[c] = 0 /\ arrived[c] = passed[c]
  BY <1>1, <1>2 DEF ClientInv, IsClear, Hit
<1>4. /\ hits'[c] = 1 /\ arrived'[c] = rounds' + 1 /\ app'[c] = "awaitDown"
      /\ \A d \in Clients : d # c =>
           hits'[d] = hits[d] /\ arrived'[d] = arrived[d] /\ app'[d] = app[d]
  BY <1>3 DEF SendHit, TypeOK
<1>5. ClientInv(c)'
  <2>1. Hit(c)'
    BY <1>4 DEF Hit
  <2>2. HasHit(c)' /\ IsLeaving(c)' /\ IsClear(c)'
    BY <2>1, <1>3, <1>4 DEF HasHit, IsLeaving, IsClear, Leaving
  <2>3. arrived'[c] = IF app'[c] = "awaitDown" THEN passed'[c] + 1 ELSE passed'[c]
    BY <1>3, <1>4
  <2> QED BY <2>1, <2>2, <2>3, <1>4 DEF ClientInv
<1>6. \A d \in Clients : d # c => ClientInv(d)'
  BY <1>4, Others
<1>7. Counted' = Counted
  BY <1>2, <1>4 DEF Counted, Hit
<1> QED BY <1>3, <1>5, <1>6, <1>7

\* A signal is an UP of the barrier that is up, or the DOWN that the client waits for.
LEMMA SignalRound ==
  ASSUME RoundInv, NEW c \in Clients, OnSignal(c)
  PROVE  RoundInv'
<1> USE DEF RoundInv
<1>1. TypeOK'
  BY StepType DEF Next, ClientStep
<1>2. /\ signals[c] \in Signals /\ signals[c] # <<>>
      /\ signals'[c] = Tail(signals[c])
      /\ barrierUp'[c] <=> Head(signals[c]) = "UP"
      /\ app[c] = "awaitDown" => barrierUp[c]
      /\ \A d \in Clients : d # c => signals'[d] = signals[d] /\ barrierUp'[d] = barrierUp[d]
      /\ UNCHANGED <<capacity, numHits, hits, app, rounds, arrived, passed>>
  BY DEF OnSignal, MayReact, TypeOK, Signals
<1>3. ClientInv(c)
  OBVIOUS
<1>4. HasHit(c)' /\ IsLeaving(c)' /\ IsClear(c)'
  <2>1. CASE Hit(c)
    <3>1. Ups(signals[c]) /\ app[c] = "awaitDown" /\ capacity # 0
      BY <2>1, <1>3 DEF ClientInv, HasHit
    <3>2. Ups(signals'[c]) /\ barrierUp'[c]
      BY <3>1, <1>2, TailOfUps
    <3> QED BY <2>1, <3>1, <3>2, <1>2 DEF HasHit, IsLeaving, IsClear, Leaving, Hit
  <2>2. CASE Leaving(c)
    <3>1. PICK d \in 1..Len(signals[c]) :
            OneDown(signals[c], d) /\ (capacity = 0 => d = Len(signals[c]))
      BY <2>2, <1>3 DEF ClientInv, IsLeaving
    <3>2. CASE /\ Head(signals[c]) = "DOWN" /\ Ups(Tail(signals[c]))
               /\ d = Len(signals[c]) => Tail(signals[c]) = <<>>
      <4>1. ~barrierUp'[c]
        BY <3>2, <1>2
      <4> QED BY <2>2, <3>1, <3>2, <4>1, <1>2 DEF HasHit, IsLeaving, IsClear, Leaving, Hit
    <3>3. CASE /\ Head(signals[c]) = "UP" /\ OneDown(Tail(signals[c]), d - 1)
               /\ Len(Tail(signals[c])) = Len(signals[c]) - 1
      <4>1. d - 1 \in 1..Len(signals'[c]) /\ OneDown(signals'[c], d - 1)
        BY <3>3, <1>2 DEF OneDown
      <4>2. capacity' = 0 => d - 1 = Len(signals'[c])
        BY <3>1, <3>3, <1>2
      <4> QED BY <2>2, <3>3, <4>1, <4>2, <1>2 DEF HasHit, IsLeaving, IsClear, Leaving, Hit
    <3> QED BY <3>1, <3>2, <3>3, <1>2, TailOfOneDown
  <2>3. CASE ~Hit(c) /\ ~Leaving(c)
    <3>1. Ups(signals[c]) /\ capacity # 0
      BY <2>3, <1>2, <1>3 DEF ClientInv, IsClear
    <3>2. Ups(signals'[c]) /\ app[c] # "awaitDown"
      BY <2>3, <3>1, <1>2, TailOfUps DEF Leaving
    <3> QED BY <2>3, <3>1, <3>2, <1>2 DEF HasHit, IsLeaving, IsClear, Leaving, Hit
  <2> QED BY <2>1, <2>2, <2>3
<1>5. ClientInv(c)'
  BY <1>2, <1>3, <1>4 DEF ClientInv, Hit
<1>6. \A d \in Clients : d # c => ClientInv(d)'
  BY <1>2, Others
<1>7. Counted' = Counted
  BY <1>2 DEF Counted, Hit
<1> QED BY <1>1, <1>2, <1>5, <1>6, <1>7

\* What a client that returns has hit is over.
LEMMA ReturnRound ==
  ASSUME RoundInv, NEW c \in Clients, HitReturns(c)
  PROVE  /\ RoundInv'
         /\ passed[c] < arrived[c]
         /\ \A d \in Clients : passed[c] < arrived[d]
<1> USE DEF RoundInv
<1>1. TypeOK'
  BY StepType DEF Next, ClientStep
<1>2. app[c] = "awaitDown" /\ ~barrierUp[c]
  BY DEF HitReturns, SeesDown
<1>3. /\ app'[c] = "out" /\ passed'[c] = passed[c] + 1
      /\ \A d \in Clients : d # c => app'[d] = app[d] /\ passed'[d] = passed[d]
      /\ UNCHANGED <<capacity, numHits, signals, hits, barrierUp, rounds, arrived>>
  BY DEF HitReturns, TypeOK
<1>4. ClientInv(c)
  OBVIOUS
<1>5. ~Hit(c) /\ ~Leaving(c) /\ arrived[c] = rounds /\ arrived[c] = passed[c] + 1
  BY <1>2, <1>4 DEF ClientInv, HasHit, Leaving, Hit
<1>6. ClientInv(c)'
  BY <1>2, <1>3, <1>4, <1>5 DEF ClientInv, HasHit, IsLeaving, IsClear, Leaving, Hit
<1>7. \A d \in Clients : d # c => ClientInv(d)'
  BY <1>3, Others
<1>8. Counted' = Counted
  BY <1>3 DEF Counted, Hit
<1>9. ASSUME NEW d \in Clients PROVE passed[c] < arrived[d]
  <2>1. arrived[d] \in {rounds, rounds + 1} /\ rounds \in Nat /\ passed[c] \in Nat
    BY DEF ClientInv, TypeOK
  <2> QED BY <2>1, <1>5
<1> QED BY <1>1, <1>3, <1>6, <1>7, <1>8, <1>9

\* Only a wait without a hit is given up.
LEMMA TimeoutRound ==
  ASSUME Intended, RoundInv, NEW c \in Clients, HitTimeout(c)
  PROVE  RoundInv'
<1> USE DEF RoundInv
<1>1. TypeOK'
  BY StepType DEF Next
<1>2. app[c] # "awaitDown"
  BY DEF HitTimeout, Intended
<1>3. /\ app'[c] = "out"
      /\ \A d \in Clients : d # c => app'[d] = app[d]
      /\ UNCHANGED <<capacity, numHits, signals, hits, barrierUp, rounds, arrived, passed>>
  BY DEF HitTimeout, TypeOK
<1>4. ClientInv(c)'
  <2>1. ClientInv(c)
    OBVIOUS
  <2> QED BY <2>1, <1>2, <1>3 DEF ClientInv, HasHit, IsLeaving, IsClear, Leaving, Hit
<1>5. \A d \in Clients : d # c => ClientInv(d)'
  BY <1>3, Others
<1>6. Counted' = Counted
  BY <1>3 DEF Counted, Hit
<1> QED BY <1>1, <1>3, <1>4, <1>5, <1>6

\* hitBarrier sends its hit at once, or waits for the barrier to come up.
LEMMA HitOrWait ==
  ASSUME RoundInv, NEW c \in Clients, HitBarrier(c)
  PROVE  RoundInv' /\ (arrived' # arrived => SendHit(c) /\ arrived[c] = passed[c])
<1> USE DEF RoundInv
<1>1. TypeOK'
  BY StepType DEF Next, ClientStep
<1>2. app[c] = "out"
  BY DEF HitBarrier
<1>3. CASE barrierUp[c]
  <2>1. /\ SendHit(c) /\ app[c] # "awaitDown"
        /\ UNCHANGED <<capacity, numHits, signals, barrierUp, rounds, passed>>
    BY <1>2, <1>3 DEF HitBarrier
  <2> QED BY <2>1, <1>1, <1>3, SendRound
<1>4. CASE ~barrierUp[c]
  <2>1. /\ app'[c] = "awaitUp"
        /\ \A d \in Clients : d # c => app'[d] = app[d]
        /\ UNCHANGED <<capacity, numHits, signals, hits, barrierUp, rounds, arrived, passed>>
    BY <1>4 DEF HitBarrier, TypeOK
  <2>2. ClientInv(c)'
    <3>1. ClientInv(c)
      OBVIOUS
    <3> QED BY <3>1, <1>2, <2>1 DEF ClientInv, HasHit, IsLeaving, IsClear, Leaving, Hit
  <2>3. \A d \in Clients : d # c => ClientInv(d)'
    BY <2>1, Others
  <2>4. Counted' = Counted
    BY <2>1 DEF Counted, Hit
  <2> QED BY <1>1, <2>1, <2>2, <2>3, <2>4
<1> QED BY <1>3, <1>4

\* A client that waited for the barrier to come up sends its hit.
LEMMA SeeUpRound ==
  ASSUME RoundInv, NEW c \in Clients, SeeUp(c)
  PROVE  RoundInv' /\ SendHit(c) /\ arrived[c] = passed[c]
<1>1. TypeOK'
  BY StepType DEF Next, ClientStep, RoundInv
<1>2. /\ SendHit(c) /\ app[c] # "awaitDown" /\ barrierUp[c]
      /\ UNCHANGED <<capacity, numHits, signals, barrierUp, rounds, passed>>
  BY DEF SeeUp
<1> QED BY <1>1, <1>2, SendRound

\* Every step keeps the invariant.
LEMMA StepRound ==
  ASSUME Intended, RoundInv, [Next]_vars
  PROVE  RoundInv'
<1>1. TypeOK'
  BY StepType DEF RoundInv
<1>2. CASE RaiseBarrier
  BY <1>2, RaiseRound
<1>3. ASSUME NEW c \in Clients, OnBarrierHit(c) PROVE RoundInv'
  BY <1>3, HitRound
<1>4. CASE RaiseReturns
  BY <1>1, <1>4, RaiserOnly DEF RaiseReturns
<1>5. CASE RaiseTimeout
  BY <1>1, <1>5, RaiserOnly DEF RaiseTimeout
<1>6. ASSUME NEW c \in Clients, HitBarrier(c) PROVE RoundInv'
  BY <1>6, HitOrWait
<1>7. ASSUME NEW c \in Clients, SeeUp(c) PROVE RoundInv'
  BY <1>7, SeeUpRound
<1>8. ASSUME NEW c \in Clients, OnSignal(c) PROVE RoundInv'
  BY <1>8, SignalRound
<1>9. ASSUME NEW c \in Clients, HitReturns(c) PROVE RoundInv'
  BY <1>9, ReturnRound
<1>10. ASSUME NEW c \in Clients, HitTimeout(c) PROVE RoundInv'
  BY <1>10, TimeoutRound
<1>11. CASE UNCHANGED vars
  BY <1>1, <1>11, RaiserOnly DEF vars
<1> QED
  BY <1>2, <1>3, <1>4, <1>5, <1>6, <1>7, <1>8, <1>9, <1>10, <1>11
     DEF Next, RaiserStep, ClientStep

\* In every reachable state the inductive invariant holds.
LEMMA RoundAlways ==
  ASSUME Intended
  PROVE  Spec => []RoundInv
<1>1. RoundInv /\ [Next]_vars => RoundInv'
  BY StepRound
<1> QED BY <1>1, InitRound, PTL DEF Spec

-----------------------------------------------------------------------------
(* The properties.                                                         *)

\* The assertion of onBarrierHit holds: a hit that the raiser may react to finds the
\* barrier up.
THEOREM HitsFindBarrier ==
  ASSUME Intended
  PROVE  Spec => []NoStrayHit
<1>1. RoundInv => NoStrayHit
  BY BarrierAssumption DEF RoundInv, ClientInv, HasHit, NoStrayHit, TypeOK
<1> QED BY <1>1, RoundAlways, PTL

\* Every round takes one hit of every client, however often raiseBarrier is given up
\* and called again.
THEOREM HitsOfRound ==
  ASSUME Intended
  PROVE  Spec => []EveryRoundHit
<1>1. RoundInv => EveryRoundHit
  BY DEF RoundInv, ClientInv, HasHit, Hit, EveryRoundHit, TypeOK
<1> QED BY <1>1, RoundAlways, PTL

\* The protocol is a barrier: no client passes for the k-th time before every client
\* arrived k times.
THEOREM Refinement ==
  ASSUME Intended
  PROVE  Spec => ImplementsBarrier
<1>1. Init => Abstract!Init
  BY DEF Init, Abstract!Init
<1>2. ASSUME RoundInv, [Next]_vars PROVE [Abstract!Next]_<<arrived, passed>>
  <2>1. ASSUME NEW c \in Clients, SendHit(c), arrived[c] = passed[c], passed' = passed
        PROVE  Abstract!Next
    BY <2>1 DEF SendHit, Abstract!Next, Abstract!Arrive
  <2>2. ASSUME NEW c \in Clients, HitBarrier(c) PROVE [Abstract!Next]_<<arrived, passed>>
    BY <1>2, <2>1, <2>2, HitOrWait DEF HitBarrier
  <2>3. ASSUME NEW c \in Clients, SeeUp(c) PROVE Abstract!Next
    BY <1>2, <2>1, <2>3, SeeUpRound DEF SeeUp
  <2>4. ASSUME NEW c \in Clients, HitReturns(c) PROVE Abstract!Next
    BY <1>2, <2>4, ReturnRound DEF HitReturns, Abstract!Next, Abstract!Pass
  <2>5. CASE RaiseBarrier \/ RaiseReturns \/ RaiseTimeout \/ UNCHANGED vars
    BY <2>5 DEF RaiseBarrier, RaiseReturns, RaiseTimeout, vars
  <2>6. ASSUME NEW c \in Clients, OnBarrierHit(c) \/ OnSignal(c) \/ HitTimeout(c)
        PROVE  UNCHANGED <<arrived, passed>>
    BY <2>6 DEF OnBarrierHit, OnSignal, HitTimeout
  <2> QED BY <1>2, <2>2, <2>3, <2>4, <2>5, <2>6 DEF Next, RaiserStep, ClientStep
<1> QED BY <1>1, <1>2, RoundAlways, PTL DEF Spec, ImplementsBarrier, Abstract!Spec

=============================================================================
