----------------------------- MODULE MCCDNBangClock -----------------------------
(* CDNBang for TLC. *)
EXTENDS CDNBangClock, TLC

Symmetric == Permutations(Instance)
=============================================================================
