------------------------------ MODULE Barrier -------------------------------
(***************************************************************************)
(* What a barrier promises: a node passes it for the k-th time only when   *)
(* every node has arrived at it k times.                                   *)
(***************************************************************************)
EXTENDS Naturals

CONSTANT Clients

VARIABLES arrived, passed  \* how often each node did

Init ==
  /\ arrived = [c \in Clients |-> 0]
  /\ passed = [c \in Clients |-> 0]

Arrive(c) ==
  /\ arrived[c] = passed[c]
  /\ arrived' = [arrived EXCEPT ![c] = @ + 1]
  /\ UNCHANGED passed

Pass(c) ==
  /\ passed[c] < arrived[c]
  /\ \A d \in Clients : passed[c] < arrived[d]
  /\ passed' = [passed EXCEPT ![c] = @ + 1]
  /\ UNCHANGED arrived

Next == \E c \in Clients : Arrive(c) \/ Pass(c)

Spec == Init /\ [][Next]_<<arrived, passed>>

=============================================================================
