--------------------------- MODULE MCInstanceNode ---------------------------
(* InstanceNode for TLC. *)
EXTENDS InstanceNode, TLC
=============================================================================
