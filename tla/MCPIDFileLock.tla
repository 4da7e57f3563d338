--------------------------- MODULE MCPIDFileLock ---------------------------
(* PIDFileLock for TLC. *)
EXTENDS PIDFileLock, TLC

Symmetric == Permutations(Process) \cup Permutations(Inode)
=============================================================================
