------------------------------ MODULE MCBarrier -----------------------------
(* Instances of BarrierProtocol for TLC. *)
EXTENDS BarrierProtocol, TLC

=============================================================================
