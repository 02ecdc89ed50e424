------------------------------- MODULE Outbox -------------------------------
(***************************************************************************)
(* The transactional outbox of persistence/hedge_outbox.py.  Business      *)
(* transactions append rows; workers claim rows under a lease, hand them   *)
(* to a publisher and mark the outcome; a sweeper frees stale leases; an   *)
(* operator requeues dead letters.                                         *)
(*                                                                         *)
(* A row's identifier is its place in rows.  Wall time enters as two       *)
(* facts: a backoff is over (due) and a lease is older than its term       *)
(* (stale).  A worker handles one batch at a time, so its name stands for  *)
(* the lock token of its batch.  Payloads, headers and texts are left out. *)
(***************************************************************************)
EXTENDS Naturals, Sequences, FiniteSets

CONSTANTS Workers,      \* publishers of one outbox, in any process
          NoWorker,     \* no lock token
          Aggregates,   \* (aggregate_type, aggregate_id)
          MaxAttempts,  \* max_attempts of the publisher
          Limit,        \* batch size
          MaxRows,      \* bound on the rows appended
          MaxRequeues   \* bound on the operator's requeues

ASSUME OutboxAssumption ==
  /\ NoWorker \notin Workers
  /\ MaxAttempts \in Nat \ {0}
  /\ Limit \in Nat \ {0}
  /\ MaxRows \in Nat
  /\ MaxRequeues \in Nat

VARIABLES
  rows,       \* the table, in the order of its identifiers
  batch,      \* envelopes a worker has still to handle
  step,       \* where a worker stands with the first of them
  sweep,      \* rows the sweeper has read and not yet written
  delivered,  \* rows whose event the publisher has taken, once or more often
  requeues    \* operator commands so far

vars == <<rows, batch, step, sweep, delivered, requeues>>

Statuses == {"PENDING", "PROCESSING", "FAILED", "PUBLISHED", "DEAD"}

Rows == [agg : Aggregates, seq : 1..MaxRows, status : Statuses,
         attempts : 0..MaxAttempts, lock : Workers \union {NoWorker},
         due : BOOLEAN, stale : BOOLEAN]

Ids == DOMAIN rows

Envelopes == [id : 1..MaxRows, attempts : 0..MaxAttempts]

Init ==
  /\ rows = <<>>
  /\ batch = [w \in Workers |-> {}]
  /\ step = [w \in Workers |-> "publish"]
  /\ sweep = {}
  /\ delivered = {}
  /\ requeues = 0

-----------------------------------------------------------------------------
(* Appending. *)

InAggregate(a) == {i \in Ids : rows[i].agg = a}

\* A committed transaction appends the next event of an aggregate.
Enqueue(a) ==
  /\ Len(rows) < MaxRows
  /\ rows' = Append(rows, [agg |-> a, seq |-> Cardinality(InAggregate(a)) + 1,
                           status |-> "PENDING", attempts |-> 0, lock |-> NoWorker,
                           due |-> TRUE, stale |-> FALSE])
  /\ UNCHANGED <<batch, step, sweep, delivered, requeues>>

-----------------------------------------------------------------------------
(* Claiming. *)

\* Mutant of Unlocked: a lease never runs out.
Unleased(r) == r.lock = NoWorker

Unlocked(r) == r.lock = NoWorker \/ r.stale

Exhausted(r) ==
  /\ r.attempts >= MaxAttempts
  /\ \/ r.status \in {"PENDING", "FAILED"}
     \/ r.status = "PROCESSING" /\ Unlocked(r)

Eligible(r) ==
  /\ r.status \in {"PENDING", "FAILED", "PROCESSING"}
  /\ r.due
  /\ r.attempts < MaxAttempts
  /\ Unlocked(r)

\* The query's ORDER BY id LIMIT n, taken before the rows are looked at.
Candidates ==
  LET eligible == {i \in Ids : Eligible(rows[i])}
  IN  {i \in eligible : Cardinality({j \in eligible : j < i}) < Limit}

Earlier(i) == {j \in Ids : rows[j].agg = rows[i].agg /\ rows[j].seq < rows[i].seq}

\* Mutant of Blocked: a dead letter lets its successors pass.
BlockedByLive(i) == \E j \in Earlier(i) : rows[j].status \notin {"PUBLISHED", "DEAD"}

Blocked(i) == \E j \in Earlier(i) : rows[j].status # "PUBLISHED"

Claimable == {i \in Candidates : ~Blocked(i)}

Buried(r) == [r EXCEPT !.status = "DEAD", !.due = TRUE, !.lock = NoWorker, !.stale = FALSE]

Claim(w) ==
  /\ batch[w] = {}
  /\ rows' = [i \in Ids |->
                IF Exhausted(rows[i]) THEN Buried(rows[i])
                ELSE IF i \in Claimable
                     THEN [rows[i] EXCEPT !.status = "PROCESSING", !.lock = w,
                                          !.stale = FALSE, !.attempts = @ + 1]
                     ELSE rows[i]]
  /\ batch' = [batch EXCEPT ![w] = {[id |-> i, attempts |-> rows[i].attempts + 1] : i \in Claimable}]
  /\ UNCHANGED <<step, sweep, delivered, requeues>>

-----------------------------------------------------------------------------
(* Publishing a batch: envelopes in the order of their identifiers. *)

IsFirst(w, e) == e \in batch[w] /\ \A f \in batch[w] : e.id <= f.id

\* The publisher takes the event; publish has not returned yet.
Take(w) ==
  /\ step[w] = "publish"
  /\ \E e \in batch[w] : IsFirst(w, e) /\ delivered' = delivered \union {e.id}
  /\ step' = [step EXCEPT ![w] = "taken"]
  /\ UNCHANGED <<rows, batch, sweep, requeues>>

Owns(w, i) == rows[i].lock = w /\ rows[i].status = "PROCESSING"

HandOver(w, e) ==
  /\ batch' = [batch EXCEPT ![w] = @ \ {e}]
  /\ step' = [step EXCEPT ![w] = "publish"]
  /\ UNCHANGED <<sweep, delivered, requeues>>

\* Mutant of MarkPublished: the mark precedes the publication.
MarkEarly(w) ==
  /\ step[w] = "publish"
  /\ \E e \in batch[w] :
       /\ IsFirst(w, e)
       /\ rows' = [rows EXCEPT ![e.id].status = "PUBLISHED", ![e.id].lock = NoWorker]
       /\ HandOver(w, e)

\* publish returns.
MarkPublished(w) ==
  /\ step[w] = "taken"
  /\ \E e \in batch[w] :
       /\ IsFirst(w, e)
       /\ rows' = IF Owns(w, e.id)
                  THEN [rows EXCEPT ![e.id].status = "PUBLISHED", ![e.id].lock = NoWorker,
                                    ![e.id].stale = FALSE]
                  ELSE rows
       /\ HandOver(w, e)

\* Mutant of Retired: the lock of the failed attempt stays.
RetiredLocked(r, attempts) ==
  IF attempts >= MaxAttempts THEN Buried(r) ELSE [r EXCEPT !.status = "FAILED", !.due = FALSE]

\* What a failed or abandoned attempt leaves: a retry after a backoff, or a dead letter.
Retired(r, attempts) ==
  IF attempts >= MaxAttempts THEN Buried(r)
  ELSE [r EXCEPT !.status = "FAILED", !.due = FALSE, !.lock = NoWorker, !.stale = FALSE]

\* publish raises, whether or not the event was taken.
MarkFailed(w) ==
  /\ \E e \in batch[w] :
       /\ IsFirst(w, e)
       /\ rows' = IF Owns(w, e.id)
                  THEN [rows EXCEPT ![e.id] = Retired(@, e.attempts)]
                  ELSE rows
       /\ HandOver(w, e)

\* A worker dies; its leases run out.
Crash(w) ==
  /\ batch[w] # {}
  /\ batch' = [batch EXCEPT ![w] = {}]
  /\ step' = [step EXCEPT ![w] = "publish"]
  /\ UNCHANGED <<rows, sweep, delivered, requeues>>

-----------------------------------------------------------------------------
(* Sweeper, operator and time. *)

Stale(r) == r.status = "PROCESSING" /\ r.lock # NoWorker /\ r.stale

\* The sweeper reads the stale rows without locking them ...
SweepRead ==
  /\ sweep = {}
  /\ sweep' = {[id |-> i, attempts |-> rows[i].attempts] : i \in {j \in Ids : Stale(rows[j])}}
  /\ UNCHANGED <<rows, batch, step, delivered, requeues>>

\* ... and writes them by identifier when its session commits.
SweepWrite ==
  /\ sweep # {}
  /\ rows' = [i \in Ids |->
                IF \E s \in sweep : s.id = i
                THEN Retired(rows[i], (CHOOSE s \in sweep : s.id = i).attempts)
                ELSE rows[i]]
  /\ sweep' = {}
  /\ UNCHANGED <<batch, step, delivered, requeues>>

RequeueDead(i) ==
  /\ requeues < MaxRequeues
  /\ i \in Ids /\ rows[i].status = "DEAD"
  /\ rows' = [rows EXCEPT ![i].status = "PENDING", ![i].attempts = 0, ![i].due = TRUE]
  /\ requeues' = requeues + 1
  /\ UNCHANGED <<batch, step, sweep, delivered>>

BackoffPasses(i) ==
  /\ i \in Ids /\ ~rows[i].due
  /\ rows' = [rows EXCEPT ![i].due = TRUE]
  /\ UNCHANGED <<batch, step, sweep, delivered, requeues>>

LeaseExpires(i) ==
  /\ i \in Ids /\ rows[i].lock # NoWorker /\ ~rows[i].stale
  /\ rows' = [rows EXCEPT ![i].stale = TRUE]
  /\ UNCHANGED <<batch, step, sweep, delivered, requeues>>

Handle(w) == Take(w) \/ MarkPublished(w) \/ MarkFailed(w)

Next ==
  \/ \E a \in Aggregates : Enqueue(a)
  \/ \E w \in Workers : Claim(w) \/ Handle(w) \/ Crash(w)
  \/ SweepRead \/ SweepWrite
  \/ \E i \in 1..MaxRows : RequeueDead(i) \/ BackoffPasses(i) \/ LeaseExpires(i)

Spec == Init /\ [][Next]_vars

\* Workers poll for ever, a batch in hand is finished unless its worker dies,
\* and wall time passes.
FairSpec ==
  /\ Spec
  /\ \A w \in Workers : WF_vars(Claim(w)) /\ WF_vars(Handle(w))
  /\ \A i \in 1..MaxRows : WF_vars(BackoffPasses(i)) /\ WF_vars(LeaseExpires(i))

-----------------------------------------------------------------------------
(* Properties. *)

TypeOK ==
  /\ rows \in Seq(Rows)
  /\ Len(rows) <= MaxRows
  /\ \A i \in Ids : rows[i].lock # NoWorker => rows[i].status = "PROCESSING"
  /\ batch \in [Workers -> SUBSET Envelopes]
  /\ step \in [Workers -> {"publish", "taken"}]
  /\ sweep \subseteq Envelopes
  /\ delivered \subseteq Ids
  /\ requeues \in 0..MaxRequeues

Taken(a) == {rows[i].seq : i \in InAggregate(a) \intersect delivered}

Promise == INSTANCE OutboxPromise WITH
  logged <- [a \in Aggregates |-> {rows[i].seq : i \in InAggregate(a)}],
  taken <- [a \in Aggregates |-> Taken(a)]

\* Leases that run out, crashed workers, unlocked sweeps and dead letters may repeat or
\* withhold events, but a consumer meets the events of an aggregate in the order their
\* transactions appended them (blocker check of claim_batch).
KeepsOrder == Promise!Spec

\* What is marked published was taken by the publisher: a worker that lost its lease, died
\* or failed never marks a row for another one (lock token of mark_published).
PublishedWasTaken ==
  \A i \in Ids : rows[i].status = "PUBLISHED" => i \in delivered

BehindDeadLetter(i) == \E j \in Earlier(i) : rows[j].status = "DEAD"

Settled(i) == rows[i].status \in {"PUBLISHED", "DEAD"} \/ BehindDeadLetter(i)

\* Every committed event is in the end published, given up as a dead letter, or held back
\* by a dead letter of its own aggregate: no interleaving leaves it waiting for ever.
EventSettles ==
  \A i \in 1..MaxRows : i \in Ids ~> i \in Ids /\ Settled(i)

=============================================================================
