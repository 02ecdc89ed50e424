------------------------------ MODULE MCOutbox ------------------------------
(* Instances of the outbox for TLC. *)
EXTENDS Outbox, TLC

CONSTANTS w1, w2, a, b

WorkerSymmetry == Permutations(Workers)
=============================================================================
