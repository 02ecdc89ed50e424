------------------------- MODULE MCExecutionService -------------------------
(* Instances of ExecutionService for TLC. *)
EXTENDS ExecutionService, TLC

CONSTANTS p1, p2, c1, c2, leg

\* All orders on one leg.
OneLeg == [c \in Cids |-> leg]

\* The venue's clock one tick behind the local clock.
VenueBehind == -1

Symmetric == Permutations(Procs)
=============================================================================
