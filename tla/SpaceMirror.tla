----------------------------- MODULE SpaceMirror ----------------------------
(***************************************************************************)
(* What publishing a space promises: a subscriber starts with a copy of    *)
(* the space and each publication makes the copies of all followers, and   *)
(* no other, the space as it is then, whole and at once.                   *)
(***************************************************************************)

CONSTANTS Subscribers, None

VARIABLES
  source,     \* what a walk over the published space sees
  copies,     \* what a walk over each subscriber's copy sees, or None
  following   \* the subscribers that publications reach

vars == <<source, copies, following>>

Init ==
  /\ copies = [s \in Subscribers |-> None]
  /\ following = {}

\* The space changes, in any way; the copies do not.
Change == UNCHANGED <<copies, following>>

Join(s) ==
  /\ s \notin following
  /\ copies' = [copies EXCEPT ![s] = source]
  /\ following' = following \cup {s}
  /\ UNCHANGED source

\* Subscribers leave: their copies stay as they are.
Leave ==
  /\ following' \subseteq following
  /\ UNCHANGED <<source, copies>>

Publish ==
  /\ copies' = [s \in Subscribers |-> IF s \in following THEN source ELSE copies[s]]
  /\ UNCHANGED <<source, following>>

Next == Change \/ Publish \/ Leave \/ \E s \in Subscribers : Join(s)

Spec == Init /\ [][Next]_vars

=============================================================================
