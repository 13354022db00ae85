--------------------------- MODULE MCReplication ----------------------------
(* Instances of Replication for TLC. *)
EXTENDS Replication, TLC

CONSTANTS r, x, y

ThreeObjects == <<r, x, y>>

\* A root alone, and one with all kinds of references below it.
Empty == [o \in {r, x, y} |-> Blank]
Full == [Empty EXCEPT ![r].members = <<x>>, ![x].link = y]
EmptyOrFull == {Empty, Full}
OnlyFull == {Full}

Symmetric == Permutations(Subscribers)

=============================================================================
