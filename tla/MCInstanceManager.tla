------------------------- MODULE MCInstanceManager --------------------------
(* Instances of InstanceManager for TLC. *)
EXTENDS InstanceManager, TLC

Symmetric == Permutations(Keys) \cup Permutations(Objects)

=============================================================================
