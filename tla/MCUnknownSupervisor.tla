------------------------ MODULE MCUnknownSupervisor ------------------------
(* Instances of the supervisor for TLC. *)
EXTENDS UnknownSupervisor

CONSTANTS t1, t2, c1
=============================================================================
