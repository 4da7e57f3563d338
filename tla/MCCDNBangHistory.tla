-------------------------- MODULE MCCDNBangHistory --------------------------
(* CDNBangHistory for TLC. *)
EXTENDS CDNBangHistory, TLC

Symmetric == Permutations(Instance)
=============================================================================
