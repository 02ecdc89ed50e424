--------------------------- MODULE MCPositionLocks ---------------------------
(* Instances of the position locks for TLC. *)
EXTENDS PositionLocks, TLC

CONSTANTS t1, t2, t3

ThreadSymmetry == Permutations(Threads)
=============================================================================
