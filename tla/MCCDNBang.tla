----------------------------- MODULE MCCDNBang -----------------------------
(* CDNBang for TLC. *)
EXTENDS CDNBang, TLC

Symmetric == Permutations(Instance)
=============================================================================
