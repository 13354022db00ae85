----------------------------- MODULE RemoteCall -----------------------------
(***************************************************************************)
(* What the rpc library promises of a set of remote calls, without nodes,  *)
(* queues or stacks: a call that is made is executed at most once, and     *)
(* only then returns; a call without a reply ends when it was executed.    *)
(***************************************************************************)

CONSTANT Calls

VARIABLE phase

Phases == {"idle", "made", "executing", "executed", "over"}

Init == phase = [i \in Calls |-> "idle"]

Move(i, from, to) ==
  /\ phase[i] = from
  /\ phase' = [phase EXCEPT ![i] = to]

\* The caller issues the call.
Make(i) == Move(i, "idle", "made")

\* The server begins to execute it.
Begin(i) == Move(i, "made", "executing")

\* It finishes: the caller is to be told, or nobody waits.
Finish(i) == Move(i, "executing", "executed") \/ Move(i, "executing", "over")

\* The caller learns of it.
Return(i) == Move(i, "executed", "over")

Next == \E i \in Calls : Make(i) \/ Begin(i) \/ Finish(i) \/ Return(i)

Spec == Init /\ [][Next]_phase

\* A call that is made is eventually over.
FairSpec == Spec /\ \A i \in Calls : WF_phase(Begin(i) \/ Finish(i) \/ Return(i))

=============================================================================
