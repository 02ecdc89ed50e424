-------------------------- MODULE UnknownSupervisor --------------------------
(***************************************************************************)
(* execution/unknown_supervisor.py with its callers: the engine registers  *)
(* an order whose submit ended UNKNOWN, any number of threads run what is  *)
(* due, an operator marks orders for manual review, and a restart rebuilds *)
(* the records from the stored orders.                                     *)
(*                                                                         *)
(* The records live in memory and are read and written under one lock, but *)
(* attempt lets go of it around its query.  Time is kept as ages: a record *)
(* knows how long its order has been UNKNOWN and how long it has still to  *)
(* wait.  A missing next_retry_at and one in the past are both wait = 0:   *)
(* the code treats them alike.                                             *)
(***************************************************************************)
EXTENDS Naturals

CONSTANTS
  Cids,            \* client order ids
  Pollers,         \* threads that call run_due
  NoRecord, NoJob,
  MaxAttempts,     \* maximum_attempts
  Deadline,        \* recovery_deadline, in ticks
  InitialBackoff,  \* initial_backoff, in ticks
  LongestBackoff,  \* maximum_backoff, in ticks
  MaxLapses,       \* bound on the failed cancels
  MaxRestarts      \* bound on restarts

ASSUME SupervisorAssumption ==
  /\ MaxAttempts \in Nat \ {0} /\ Deadline \in Nat \ {0}
  /\ InitialBackoff \in Nat \ {0} /\ LongestBackoff \in Nat
  /\ LongestBackoff >= InitialBackoff
  /\ MaxLapses \in Nat /\ MaxRestarts \in Nat

VARIABLES
  order,    \* what the store says of an order: NONE, KNOWN or UNKNOWN
  since,    \* how long it has been UNKNOWN, up to Deadline
  records,  \* the supervisor's records
  returning, \* orders whose submit has ended UNKNOWN and is not registered yet
  job,      \* the attempt a poller is in
  todo,     \* what is left of the list run_due has read
  missed,   \* the order became UNKNOWN and its registration was left out or had no effect
  lapses, restarts

vars == <<order, since, records, returning, job, todo, missed, lapses, restarts>>

Closed == {"RESOLVED", "HALTED", "MANUAL_REVIEW"}
States == {"PENDING", "QUERYING", "RETRY_WAIT"} \union Closed

Records == [state : States, age : 0..Deadline, wait : 0..LongestBackoff,
            attempts : 0..MaxAttempts]

Jobs == [at : {"query", "answered"}, cid : Cids, answer : {"KNOWN", "UNKNOWN"}]

ASSUME NothingAssumption == NoRecord \notin Records /\ NoJob \notin Jobs

Init ==
  /\ order = [c \in Cids |-> "NONE"]
  /\ since = [c \in Cids |-> 0]
  /\ records = [c \in Cids |-> NoRecord]
  /\ returning = {}
  /\ job = [t \in Pollers |-> NoJob]
  /\ todo = [t \in Pollers |-> {}]
  /\ missed = [c \in Cids |-> FALSE]
  /\ lapses = 0 /\ restarts = 0

-----------------------------------------------------------------------------
(* Submitting and registering. *)

Tracked(c) == records[c] # NoRecord

Fresh == [state |-> "PENDING", age |-> 0, wait |-> 0, attempts |-> 0]

Asking(c) == \E t \in Pollers : job[t] # NoJob /\ job[t].cid = c

\* The core submits the order, or answers a repeated submit with the stored one.
\* Only an UNKNOWN result matters to the supervisor.
Submit(c) ==
  /\ \/ /\ order[c] = "NONE"
        /\ \E outcome \in {"KNOWN", "UNKNOWN"} : order' = [order EXCEPT ![c] = outcome]
     \/ order[c] = "UNKNOWN" /\ UNCHANGED order
  /\ returning' = IF order'[c] = "UNKNOWN" THEN returning \union {c} ELSE returning
  /\ UNCHANGED <<since, records, job, todo, missed, lapses, restarts>>

\* A live record is left as it is; a closed one starts again.
Registered(record) ==
  IF record = NoRecord \/ record.state \in Closed THEN Fresh ELSE record

\* register; missed is over when the order has got a fresh record that no query begun
\* before can close.
Register(c) ==
  /\ c \in returning
  /\ records' = [records EXCEPT ![c] = Registered(@)]
  /\ missed' = [missed EXCEPT ![c] = @ /\ (Registered(records[c]) # Fresh \/ Asking(c))]
  /\ returning' = returning \ {c}
  /\ UNCHANGED <<order, since, job, todo, lapses, restarts>>

\* Recording the result raises, and the engine never gets to register it.
RecordFails(c) ==
  /\ c \in returning
  /\ missed' = [missed EXCEPT ![c] = @ \/ (order[c] = "UNKNOWN" /\ ~Tracked(c))]
  /\ returning' = returning \ {c}
  /\ UNCHANGED <<order, since, records, job, todo, lapses, restarts>>

\* A cancel whose outcome is uncertain makes an order UNKNOWN and registers nothing.
CancelLapses(c) ==
  /\ order[c] = "KNOWN" /\ lapses < MaxLapses
  /\ order' = [order EXCEPT ![c] = "UNKNOWN"]
  /\ since' = [since EXCEPT ![c] = 0]
  /\ missed' = [missed EXCEPT ![c] = TRUE]
  /\ lapses' = lapses + 1
  /\ UNCHANGED <<records, job, todo, restarts, returning>>

\* The main loop or a stream event finds the order out without the supervisor.
FoundOut(c) ==
  /\ order[c] = "UNKNOWN"
  /\ order' = [order EXCEPT ![c] = "KNOWN"]
  /\ missed' = [missed EXCEPT ![c] = FALSE]
  /\ UNCHANGED <<since, records, job, todo, lapses, restarts, returning>>

-----------------------------------------------------------------------------
(* Attempts. *)

\* Mutant of Expired: one attempt too many.
ExpiredLate(record) == record.attempts > MaxAttempts \/ record.age >= Deadline

Expired(record) == record.attempts >= MaxAttempts \/ record.age >= Deadline

Due == {c \in Cids : /\ Tracked(c)
                     /\ records[c].state \in {"PENDING", "RETRY_WAIT"}
                     /\ records[c].wait = 0}

RunDue(t) ==
  /\ job[t] = NoJob /\ todo[t] = {} /\ Due # {}
  /\ todo' = [todo EXCEPT ![t] = Due]
  /\ UNCHANGED <<order, since, records, job, missed, lapses, restarts, returning>>

Ready(record) == record.state \notin Closed /\ record.wait = 0

\* attempt, up to its query: what is closed, waiting or expired is not queried.
AttemptBegins(t) ==
  /\ job[t] = NoJob
  /\ \E c \in todo[t] :
       \/ /\ ~Ready(records[c])
          /\ todo' = [todo EXCEPT ![t] = @ \ {c}]
          /\ UNCHANGED <<records, job>>
       \/ /\ Ready(records[c]) /\ Expired(records[c])
          /\ records' = [records EXCEPT ![c].state = "HALTED"]
          /\ todo' = [todo EXCEPT ![t] = @ \ {c}]
          /\ UNCHANGED job
       \/ /\ Ready(records[c]) /\ ~Expired(records[c])
          /\ records' = [records EXCEPT ![c].state = "QUERYING", ![c].attempts = @ + 1]
          /\ job' = [job EXCEPT ![t] = [at |-> "query", cid |-> c, answer |-> "UNKNOWN"]]
          /\ UNCHANGED todo
  /\ UNCHANGED <<order, since, missed, lapses, restarts, returning>>

\* engine.resolve_unknown: the venue is asked when the order is still UNKNOWN; the call
\* may raise, before or after the order is stored.
Query(t) ==
  /\ job[t] # NoJob /\ job[t].at = "query"
  /\ LET c == job[t].cid IN
       \E now \in {order[c], "KNOWN"} : \E answer \in {now, "UNKNOWN"} :
         /\ order' = [order EXCEPT ![c] = now]
         /\ job' = [job EXCEPT ![t].at = "answered", ![t].answer = answer]
         /\ missed' = [missed EXCEPT ![c] = @ /\ now = "UNKNOWN"]
  /\ UNCHANGED <<since, records, todo, lapses, restarts, returning>>

Doubled(n) == InitialBackoff * 2^(n - 1)

Backoff(n) == IF Doubled(n) \in 0..LongestBackoff THEN Doubled(n) ELSE LongestBackoff

\* Mutant of Answered: a record that is still unresolved only gets its next retry time.
AnsweredLater(record, answer) ==
  IF answer = "KNOWN" THEN [record EXCEPT !.state = "RESOLVED", !.wait = 0]
  ELSE IF Expired(record) THEN [record EXCEPT !.state = "HALTED", !.wait = 0]
  ELSE [record EXCEPT !.wait = Backoff(IF record.attempts = 0 THEN 1 ELSE record.attempts)]

\* What the answer makes of the record, whatever it has become meanwhile.
Answered(record, answer) ==
  IF answer = "KNOWN" THEN [record EXCEPT !.state = "RESOLVED", !.wait = 0]
  ELSE IF Expired(record) THEN [record EXCEPT !.state = "HALTED", !.wait = 0]
  ELSE [record EXCEPT !.state = "RETRY_WAIT",
                      !.wait = Backoff(IF record.attempts = 0 THEN 1 ELSE record.attempts)]

AttemptEnds(t) ==
  /\ job[t] # NoJob /\ job[t].at = "answered"
  /\ records' = [records EXCEPT ![job[t].cid] = Answered(@, job[t].answer)]
  /\ todo' = [todo EXCEPT ![t] = @ \ {job[t].cid}]
  /\ job' = [job EXCEPT ![t] = NoJob]
  /\ UNCHANGED <<order, since, missed, lapses, restarts, returning>>

-----------------------------------------------------------------------------
(* Operator, restart, time. *)

MarkManualReview(c) ==
  /\ Tracked(c)
  /\ records' = [records EXCEPT ![c].state = "MANUAL_REVIEW", ![c].wait = 0]
  /\ UNCHANGED <<order, since, job, todo, missed, lapses, restarts, returning>>

\* restore, for an order the store shows UNKNOWN.
Restored(c) ==
  IF since[c] >= Deadline THEN [Fresh EXCEPT !.state = "HALTED", !.age = Deadline]
  ELSE [Fresh EXCEPT !.age = since[c]]

\* Mutant of Restart: the books start empty.
RestartEmpty ==
  /\ restarts < MaxRestarts
  /\ records' = [c \in Cids |-> NoRecord]
  /\ job' = [t \in Pollers |-> NoJob]
  /\ todo' = [t \in Pollers |-> {}]
  /\ missed' = [c \in Cids |-> FALSE]
  /\ returning' = {}
  /\ restarts' = restarts + 1
  /\ UNCHANGED <<order, since, lapses>>

\* The records are lost, and with them attempts and verdicts; the composition root
\* restores one for each stored order that is UNKNOWN.
Restart ==
  /\ restarts < MaxRestarts
  /\ records' = [c \in Cids |-> IF order[c] = "UNKNOWN" THEN Restored(c) ELSE NoRecord]
  /\ job' = [t \in Pollers |-> NoJob]
  /\ todo' = [t \in Pollers |-> {}]
  /\ missed' = [c \in Cids |-> FALSE]
  /\ returning' = {}
  /\ restarts' = restarts + 1
  /\ UNCHANGED <<order, since, lapses>>

Older(age) == IF age < Deadline THEN age + 1 ELSE age

Tick ==
  /\ since' = [c \in Cids |-> IF order[c] = "UNKNOWN" THEN Older(since[c]) ELSE since[c]]
  /\ records' = [c \in Cids |->
                   IF Tracked(c)
                   THEN [records[c] EXCEPT !.age = Older(@), !.wait = IF @ > 0 THEN @ - 1 ELSE 0]
                   ELSE NoRecord]
  /\ UNCHANGED <<order, job, todo, missed, lapses, restarts, returning>>

Next ==
  \/ \E t \in Pollers :
       \/ RunDue(t) \/ AttemptBegins(t) \/ Query(t) \/ AttemptEnds(t)
  \/ \E c \in Cids :
       \/ Submit(c) \/ Register(c) \/ RecordFails(c)
       \/ CancelLapses(c) \/ FoundOut(c) \/ MarkManualReview(c)
  \/ Restart \/ Tick

Spec == Init /\ [][Next]_vars

-----------------------------------------------------------------------------
(* Properties. *)

TypeOK ==
  /\ order \in [Cids -> {"NONE", "KNOWN", "UNKNOWN"}]
  /\ since \in [Cids -> 0..Deadline]
  /\ records \in [Cids -> Records \union {NoRecord}]
  /\ returning \subseteq Cids
  /\ job \in [Pollers -> Jobs \union {NoJob}]
  /\ todo \in [Pollers -> SUBSET {c \in Cids : Tracked(c)}]
  /\ missed \in [Cids -> BOOLEAN]
  /\ lapses \in 0..MaxLapses /\ restarts \in 0..MaxRestarts

\* An UNKNOWN order is in the supervisor's books and not written off as resolved, across
\* restarts, repeated submits and overlapping attempts.  The exceptions are the ones
\* missed records: a cancel or a failed recording, which register nothing, and a
\* registration that meets a query begun before it.
UnknownIsTracked ==
  \A c \in Cids :
    order[c] = "UNKNOWN" /\ ~missed[c] =>
      c \in returning \/ (Tracked(c) /\ records[c].state # "RESOLVED")

\* No record is stranded in QUERYING, which due passes over and register leaves alone: as
\* long as a record says so, an attempt that will answer it is under way, whatever attempts,
\* failures of queries, verdicts and new registrations overlap.
QueryingIsAsked ==
  \A c \in Cids : Tracked(c) /\ records[c].state = "QUERYING" => Asking(c)

\* "A deadline or attempt exhaustion escalates to a durable HALTED record" (docstring of
\* UnknownOrderSupervisor): a restart leaves the halt of an order that is still UNKNOWN.  The code does not: the records
\* are a dict in memory, and every restart breaks it, so that no run lists it.
HaltIsDurable ==
  [][\A c \in Cids :
       /\ Tracked(c) /\ records[c].state = "HALTED"
       /\ order[c] = "UNKNOWN" /\ restarts' # restarts
       => Tracked(c)' /\ records'[c].state = "HALTED"]_vars

=============================================================================
