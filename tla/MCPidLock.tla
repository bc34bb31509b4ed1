------------------------------ MODULE MCPidLock ------------------------------
(* Small instances of PidLock for TLC. *)
EXTENDS PidLock, TLC

CONSTANTS p1, p2, p3, p4, p5

LockSymmetry == Permutations(Killers) \cup Permutations(Processes \ Killers)
=============================================================================
