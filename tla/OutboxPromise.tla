---------------------------- MODULE OutboxPromise ----------------------------
(***************************************************************************)
(* What an outbox promises the consumers of its events: each aggregate has *)
(* a log, and an event of it is taken for the first time only when all the *)
(* events logged before it have been.  Repetitions are stuttering steps.   *)
(***************************************************************************)
EXTENDS Naturals

CONSTANTS Aggregates,
          MaxRows     \* bound on sequence numbers

VARIABLES
  logged,  \* the sequence numbers appended to each log
  taken    \* those a consumer has been given at least once

vars == <<logged, taken>>

Init ==
  /\ logged = [a \in Aggregates |-> {}]
  /\ taken = [a \in Aggregates |-> {}]

Log(a) ==
  /\ \E n \in 1..MaxRows :
       /\ \A m \in logged[a] : m < n
       /\ logged' = [logged EXCEPT ![a] = @ \union {n}]
  /\ UNCHANGED taken

Take(a) ==
  /\ \E n \in logged[a] \ taken[a] :
       /\ \A m \in logged[a] : m < n => m \in taken[a]
       /\ taken' = [taken EXCEPT ![a] = @ \union {n}]
  /\ UNCHANGED logged

Next == \E a \in Aggregates : Log(a) \/ Take(a)

Spec == Init /\ [][Next]_vars

=============================================================================
