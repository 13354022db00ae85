----------------------------- MODULE LeaseTable -----------------------------
(***************************************************************************)
(* What LeaseManager promises: a set of leases, and the answer removeLease *)
(* gives its caller - whether it took away the last lease of the instance. *)
(***************************************************************************)

CONSTANTS Ids, Endpoints

VARIABLES leases, answer

Init == leases = {} /\ answer = "none"

Add(id, e) ==
  /\ leases' = leases \cup {<<id, e>>}
  /\ answer' = "none"

Remove(id, e) ==
  /\ <<id, e>> \in leases
  /\ leases' = leases \ {<<id, e>>}
  /\ answer' = IF \E other \in Endpoints : <<id, other>> \in leases' THEN "more" ELSE "last"

\* A lease that is not there cannot be removed, and nothing changes.
Refuse(id, e) ==
  /\ <<id, e>> \notin leases
  /\ answer' = "thrown"
  /\ UNCHANGED leases

Next == \E id \in Ids, e \in Endpoints : Add(id, e) \/ Remove(id, e) \/ Refuse(id, e)

Spec == Init /\ [][Next]_<<leases, answer>>

=============================================================================
