---------------------------- MODULE MCRiskApproval ----------------------------
(* Instances of the approvals and the lease under them for TLC. *)
EXTENDS RiskApproval, TLC

CONSTANTS o1, o2, i1, i2

Symmetry == Permutations(Owners) \union Permutations(Intents)
=============================================================================
