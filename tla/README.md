# Verification of the hedge execution core

This directory specifies, model-checks and proves properties of the order
execution of freqtrade-hedge: `freqtrade/hedge/execution`, the persistence
under it, and the locks, leases and approvals around it. TLA+ modules are checked with TLC, theorems with TLAPS.

## 1. The system

The repository is the freqtrade bot extended by a hedge subsystem that holds a
long and a short leg of the same symbol. What places orders is this chain:

    main loop / planner --intent--> HedgeExecutionEngine --> ExecutionService --> exchange port --> venue
                                        |    ^                   |       ^
                                        |    | events            v       | queries
                                        |  user-stream bridge  order store, idempotency rows (SQL)
                                        v                      UNKNOWN resolver / supervisor
                                     SQL ledger, outbox --> dispatcher --> publishers

| component | state | operations | what makes it correct |
|---|---|---|---|
| `execution/state_machine.py` order lifecycle | status, filled, average, exchange id, version, updated_at | `transition`, `reconcile_terminal_fact` | fills and time only grow; a finished order absorbs late fills only |
| `execution/service.py` ExecutionService, `kill_switch.py` | leg locks and kill switch in memory; order rows and reservations in the database | `submit` (with replay), `cancel`, `refresh_order`, `resolve_unknown`, `apply_exchange_event`, batches of these | an order is sent at most once, never unrecorded; UNKNOWN blocks new risk on its leg; facts arrive in any order and never make the record false; every outcome is learned eventually |
| `persistence/hedge_execution_adapters.py` stores | `ExecutionOrderStateRow` with a version, `ExecutionIdempotencyRow` with owner and lease | `put`, `get`, `has_unresolved_unknown`; `reserve`, `complete`, `release` | one winner per key; an abandoned key is taken over, a completed one is not reopened |
| `execution/orchestrator.py` HedgeExecutionEngine, `ledger.py` | fill rows, position projection, outbox rows | the service's operations, each followed by one ledger transaction | every fill of an order is booked once |
| `execution/unknown_resolver.py` | user-stream cache | merges cache, query, open orders, fills | answers a true fact or nothing |
| `execution/unknown_supervisor.py` | schedule of UNKNOWN orders | `register`, `restore`, `attempt`, `mark_manual_review` | no UNKNOWN order is forgotten, none is stuck in a query |
| `execution/user_stream_bridge.py` | - | stream event to snapshot | - |
| `execution/action_group.py`, `cancel_replace.py` | group rows, steps of a replacement | multi-leg execution, compensation (not modelled) | no leg left open behind a failed group; no double exposure while replacing |
| `concurrency/database_lease.py`, `single_writer.py`, `lease_runner.py` | one lease row per name, fencing token | `acquire`, `renew`, `release`, `assert_valid` | one writer; tokens only grow |
| `concurrency/position_lock.py` | holders, waiters, reduce reservations | `lock`, `lock_many`, `reserve_reduce` | mutual exclusion, no deadlock, reservations within the position |
| `risk/actions.py`, `risk/commit.py`, `integration/risk_adapter.py` approvals | capacity reservations in memory, a table of approvals | `approve`, `build_commit_record`, `confirm`, `release`, expiry | an intent is approved once, within the capacity, by the writer |
| `persistence/hedge_outbox.py` | outbox rows with status, attempts, lease | `enqueue`, `claim_batch`, `mark_published`, `mark_failed`, `requeue_dead` | at least once, per-aggregate order |
| `integration/production_main_loop.py` | cycle state | cycle, `recover_pending` | recovery repeats until every order is finished |
| the rest of `risk`, `planning`, `readiness`, `readonly`, `control`, `operations`, `production`, `deployment`, `acceptance` | reports, budgets, confirmations | gates before an intent reaches the engine | fail closed |
| `simulation`, `backtesting`, `optimization`, `research`, `hprl`, `native`, `freqai/hedge_rl` | - | numerical computation | outside this project |
| the rest of `freqtrade/` | - | upstream bot | outside this project |

Components talk by calls inside a process and share nothing between processes
but the database and the venue. What is hard: two workers or a restarted one on
the same idempotency key; a crash between any two of "record", "send",
"answer", "record", "complete", "book"; a request whose outcome is not known; a
venue that reports late, twice and out of order, stamped by its own clock; the
user-stream thread and the main loop on the same order; a lease that runs out
under a worker that goes on; queries that overlap; threads that take several
locks; clocks that differ and step back.

## 2. Modules

| module | models | how |
|---|---|---|
| `OrderLifecycle` | `state_machine.py` and the merge `_apply_snapshot_locked` | pure operators: `CanTransition`, `CanReconcile`, `Applied`, `Refused`, `Moved` |
| `OrderPromise` | the abstract specification: per order a book entry, a market state and the fills | what any correct execution service does: send once, after recording; doubt; learn only what is true; never call done what is open |
| `ExecutionService` | `ExecutionService` with its SQL stores, the venue and the clock | one action per stretch of code between two database transactions or venue calls |
| `UnknownResolver` | `unknown_resolver.py`: one fact out of query, open orders, fills and cache | pure operators: `Resolved`, `MergedOrders`, `AggregatedFills`, `WithFills` |
| `ExecutionEngine` | `HedgeExecutionEngine` over the resolver: read, core call with the resolver's questions, ledger record; EXTENDS `UnknownResolver` | one order, many calls, a venue that moves between the questions |
| `UnknownSupervisor` | the supervisor, its callers in the engine, the restart of the production runtime | one action per locked stretch; the query between two of them |
| `OutboxPromise` | the abstract specification of the outbox: a log and what a consumer has met of it, per aggregate | first meetings follow the log |
| `Outbox` | `hedge_outbox.py`: publisher, sweeper, operator, and the consumer's side of `publish` | one action per transaction |
| `PositionLocks` | `position_lock.py` with the order rule of `lock_order.py` | one action per step that other threads can observe |
| `DatabaseLease` | lease row, guards and clocks | one action per transaction |
| `RiskApproval` | approvals; EXTENDS `DatabaseLease`, whose variables it shares | one action per locked stretch or transaction |
| `MC...` | instances for TLC | symmetry, one leg |
| `...Proofs` | theorems | see 5 |

`RiskApproval` composes with the lease by joining its steps with those of
`DatabaseLease`; `Stop` and `Die` are joint steps. `ExecutionEngine` composes the
engine, the merge of `OrderLifecycle` and the resolver. `ExecutionService` stands
for the resolver (any true answer or none), which `ResolvedIsHonest` of the
engine's proofs justifies, and `UnknownSupervisor` for the service (an order is KNOWN or UNKNOWN).

### ExecutionService and the code

A process holds the lock of a leg during a whole operation (`leg_guard`), so it
has at most one unfinished operation per leg; `pc[p][c]` says where it stands.
The submit path is

    idle -BeginSubmit-> reserve -Reserve-> admit -Admit-> mark -Mark-> send -Send-> sent
      (lookup, 759)      (760)      (788-817)      (818)       (829)        |
    sent -SubmitAcknowledged / SubmitRejected / SubmitUncertain-> recover / complete -Complete-> idle

A key whose record already exists goes `reserve -> replay -> recover/settle`
(`_recover_existing_execution`) and never to `send`. Cancel is `cancel_sent`,
`cancel_recover`, `complete`. Refresh, resolve and event calls merge one fact
and complete. `settle` completes a submit that sent nothing: an error there
releases the reservation, while after a side effect it raises and leaves the
reservation to expire.

- `orders` are the rows, `idem` the reservations. `put` compares versions: a
  write by another process since this one read the row makes `complete` raise.
  The model marks that with `outdated`, and runs read-modify-write of
  `_transition` as one step; a lost race there is a `StoreError`.
- `facts[c]` is everything the venue ever reported truthfully. A query, a
  stream event, the answer of a call or of the resolver is any of them, so they
  arrive late, repeated and reordered. An answer may also carry a status the
  adapter maps to UNKNOWN (`Blurred`).
- `Skew` is the venue's clock minus the local clock. Facts carry the venue's
  time (`binance_usdm_adapter.py:640`), local transitions the local one.
- `SubmitRejected` takes a `DefinitiveSubmissionError` for what it says: the venue
  refused the order, or the request never left. The Binance adapter raises it for an
  undecodable answer too: `_perform` decodes before it looks at the HTTP status
  (`binance_usdm_adapter.py:575`, `732-736`). The adapter is not modelled, and what the
  runs and theorems say holds for adapters that keep the promise (section 3).
- `Crash` clears what lives in memory and gives the process a new owner id
  (`hedge_execution_adapters.py:876`): its reservations belong to nobody.
- The venue (`VenueAccepts` ... `VenueCancels`, external) may take, refuse or
  lose a request, fill, fill after a cancel, and cancel at any time.

Left out: prices, averages, texts, metrics and audit; a lock stripe is the leg
itself; one key per order, so `IdempotencyConflictError` cannot arise; the
batch operations, which are loops; `recover_completed`, a repair call of the
paper runtime; an intent rejected by risk is a record with nothing approved.

### ExecutionEngine and the code

Each engine call reads the order (`before`), lets the core merge under the
position lock, then books `after - before` in one ledger transaction
(`_record_result`, `_derive_fill`). Other threads run between the three. The
ledger transaction first puts the order of the result and is refused when the
row is newer (`Overtaken`).

The venue trades one lot at a time and may cancel what is left; `Moment` counts
these events, and `ReportOf(m)` is the order as it was after m of them. A user-
stream event is any report of the past. `BeginEvent` puts it into the resolver's
cache before anything else, as `apply_exchange_event` and the bridge do; a crash
empties the cache.

Reports carry the venue's time: the moment. What the process decides itself it stamps
with its own clock (`_transition`, `service.py:1450-1466`), which shows any of
`Readings`, ahead of the venue or behind it and from one look to the next as it
likes. `Init` stamps SUBMITTING so, and `Unsettle` UNKNOWN; when the clock shows less
than the order is stamped with, the step raises and the order stays what it was. An
acknowledgement stamped before the SUBMITTING order is dropped, and an older report
merged into an UNKNOWN one keeps the local stamp (`service.py:1407`).

A submit or cancel in `Doubt`, a repeated submit of a SUBMITTING order and a refused
cancellation (`_invalid_cancel_ack`) make the order UNKNOWN so, and like
`resolve_unknown` and a failed refresh go on to `asking`, holding the position lock.
`Resolve` takes for the query, the open orders and the
fills three moments in this order since the questions began, and then the cache.
Each source may fail. The open orders have the order only while it works; the
list of fills is cut off at the old end and is empty for an order whose exchange
id the store does not know (`_exchange_order_id_map`). `Said` is what they may have said
together and `Found` the fact made of it, which is merged, or refused and left (`Learn`); `cancel` asks a second time when the first answer has
left the order UNKNOWN.

Left out: prices; the venue's refusals and other invalid answers (in
`ExecutionService`); a cancelled order is not traded any more here, while
`ExecutionService` also has late fills.

### UnknownSupervisor and the code

`records` is `_records`; `job` and `todo` are the local state of `run_due` and
`attempt` on a poller's stack. `attempt` is `AttemptBegins` (163-193, under the
lock), `Query` (195-202, outside it) and `AttemptEnds` (204-237): the last one
writes over what the record has become, a manual review or a halt included: a
verdict does not stand against an answer that was under way. Times are ages, because the code only
compares differences: `age` is now - first_unknown_at, `wait` is what is left
until next_retry_at. `returning` holds the orders between the end of the core's
submit and `_register_unknown`; `RecordFails` is `_record_result` raising there.
`missed` is a history variable: the order became UNKNOWN and nobody registered
it (`CancelLapses`, `RecordFails`), or the registration met a live record whose
query was begun before and may still answer for the earlier doubt.

### Outbox and the code

`rows` in the order of their ids, which is also the order of the sequence
numbers of an aggregate. `Claim` is one transaction: bury the exhausted rows,
take the first `Limit` eligible ones, skip the blocked, lock the rest. `batch[w]`
is the list of envelopes `publish_batch` iterates over; `Take` is the moment the
publisher has the event, `MarkPublished` and `MarkFailed` the two outcomes of the
call, which do nothing when the lock token has changed. `SweepRead` and
`SweepWrite` are the two halves of `release_stale_leases`, whose update goes by
primary key. `due` and `stale` abstract `available_at` and `locked_at`:
`BackoffPasses` and `LeaseExpires` may happen at any time.

Left out: the routing of the dispatcher; the inline publication of the ledger,
which does not look at blockers at all and so gives no order to check.

### PositionLocks and the code

`holder` is the RLock, `owner` and `waiting` the notes the detector reads, and
`stack` the thread's list in `LockOrderTracker`. `lock` is `BeginLock` (order
rule), `TryLock` (178), `Announce` or `Alarm` (180-184, under `_state_lock`),
`WakeUp` or `TimeOut` (186), `StopWaiting` (187-191), `Enter` (192-197), and on
the way out `Leave` (199-203) and `Unlock` (204). A depth count is the number of
times a key is on the stack. `reserve_reduce` is `ReadPending` and `Reserve` under
the position lock; reservations end without it. `Qty` is the position's quantity,
one for all: the code takes what each caller has confirmed (`position_lock.py:259`,
`280`), and callers that disagree about it are not modelled.

### DatabaseLease, RiskApproval and the code

A row is the SQL row, `guard[o]` the `_lease` of an instance's
`SingleWriterGuard`. `Commits` leaves open whether the caller learns of a
transaction that did commit. `Readings` lets each reading lag the fastest clock
by up to `Lag`, so a clock may also step back between two readings; `Readable` is
the check of `LeaseRecord` that a backward step can make fail. `grants` is a
history variable. Approvals: `Approve` (reservation lock, lease read again),
`Build` (`build_commit_record`), `Commit` (one transaction of the table, the read
back and the release), `CommitFails`, `Lapse` (a reservation expires), `Stop`
(`HedgeRiskRuntime.stop`). What an account snapshot shows is `used`, any amount.

Left out: limits other than one capacity in units, reductions (their reservation
is in `PositionLocks`), two threads of one instance on the same intent (`Approve`
wants no work of its instance on it), batches, the action state machine and readiness.

## 3. Runs

| run | shows | instance |
|---|---|---|
| `service_one` | `TypeOK`, `FinishedIsNotOpen`, `FillsAreReal`, `SettledIsClassified`, `OrdersMoveForward`, `FinishIsLearned`, `NoKeyStuck` | one process, two lots, three clock readings, a venue clock one tick ahead, one crash: 206,892 states |
| `service_two` | `AtMostOneSubmission`, `OneSender`, `NothingSentUnrecorded`, `KeepsPromise` (refinement of `OrderPromise`) | two racing processes (symmetric), one crash: 214 thousand states |
| `service_leg` | `UnknownLocksLeg` | an opening and a reducing order on one leg, one process: 1.06 million states |
| `engine` | `TypeOK`, `OrderIsTrue`, `EndIsNotLost`, `LedgerNotAhead`, `NoFillMissed` | two threads (symmetric), two lots, a local clock that shows 0 or 3, one failure or crash, one answer in doubt, repeated submits: 3.52 million states |
| `outbox` | `TypeOK`, `PublishedWasTaken`, `KeepsOrder` (refinement of `OutboxPromise`), `EventSettles` | two workers, two rows in one or two aggregates, two attempts, one requeue, a limit that holds all rows: 516 thousand states |
| `supervisor` | `TypeOK`, `UnknownIsTracked`, `QueryingIsAsked` | two pollers, one order, two attempts, deadline of three ticks, one lapsed cancel, one restart: 48,954 states |
| `locks` | `TypeOK`, `NoStandoff`, `OwnerIsHolder`, `ReservedWithin`, `AlarmsAreReal` | three threads (symmetric), three keys, up to four locks each: 1.56 million states |
| `approval` | `TypeOK`, `OneOwnerPerToken`, `OneValidWriter`, `ApprovedOnce`, `LocalCapacity`, `CommitsWereHeld` | two instances, two intents, capacity one, lease of two ticks, lag one, two tokens: 369,987 states |

Bounds: `MaxClock` and `MaxTime` (last tick), `MaxCrashes`, `MaxFailures`,
`MaxRestarts`, `MaxLapses`, `MaxRequeues`, `MaxRows`, `MaxTokens`, `MaxDepth`
(locks of one thread), `Qty` lots. Two lots are the least that have a partial
fill, a late fill after it and an overfill to refuse. One crash suffices for a
safety violation to start from any half-done operation, because the replacement
process can then run everything. Three threads and keys are the least with an
indirect circle and with the re-entry that gets past the order rule (a stack of
keys 1, 3, 1 lets 2 be taken); depth four holds that stack. Two attempts are the
least with a retry that is not the last; two tokens the least with a takeover.
Two lots let the query, the list of fills and the cache each be behind the others
and the venue cancel a partly filled order. A reading of 0 lies before every event at
the venue, one of 3 after every report there can be: a clock that shows both runs ahead,
falls behind and jumps. With the readings 1 and 3 all properties of `engine` hold as well
(5.64 million states, near the time limit of a run); with all of 0..3 its invariants do
(7 million states), and with one thread and two doubts all its properties (701,478).

Runs turn the deadlock check off where the bounds end everything: all orders
finished, all rows settled, the last tick passed. `locks`, `supervisor` and
`engine` keep it on.

Runs that show the code and what is said of it apart:

| run | what happens |
|---|---|
| `service_crash_cancel` | A crash follows the send, the venue cancels the order unfilled, and no refresh can record it: SUBMITTING has no transition to CANCELED. |
| `service_clock` | A submit times out locally a tick after the venue accepted and cancelled the order. The recovery is answered with the older acknowledgement, which is merged and stamped with the local time of the timeout. The cancellation, stamped by the venue a tick earlier, is stale for every later refresh, though the clocks agree. |
| `outbox_limit` | A dead letter of one aggregate has as many successors as a claim may take. Every claim picks these, finds them blocked and returns nothing; the other aggregate's event is never claimed. |
| `approval_fence` | An approval is built under token 1, the instance stops, another takes token 2, and the first inserts its record. |

What the models also show, with a change to a run's cfg or, where it says so, to a guard:

- `Skew = 1` and the property `UncertainCancelLocks`: with the venue's clock
  ahead, the UNKNOWN transition after an uncertain cancel is stamped earlier than
  the stored venue time and raises; the order stays ACKNOWLEDGED, its leg
  unlocked (`service.py:1008`).
- `Skew = -1` and `SettledIsClassified`: with the venue's clock behind, the
  acknowledgement of a submit looks older than the SUBMITTING stamp and is dropped;
  the key is settled with the order SUBMITTING (`service.py:1394`).
- `NoFillMissed` or `LedgerNotAhead` without `~overlapped`: the first to merge
  is the second to record and is refused together with its fill
  (`hedge_execution_adapters.py:331`), or both book overlapping differences
  (`orchestrator.py:187`).
- `LedgerNotAhead` without `~repeated`: a repeated submit is booked against no
  previous order, so fills that events have booked are booked again
  (`orchestrator.py:180`).
- `EndIsNotLost` without `order.at <= s.at`: an order that a late report has made
  working while it keeps a local stamp loses the end in a resolution, too, as
  `service_clock` shows for a refresh.
- `FinishedIsNotOpen` with a `SubmitRejected` that may meet an order the venue has taken:
  an undecodable answer makes the store say REJECTED of an open order, although
  `service.py:685` has the adapter guarantee "that no exchange order was created"
  (`binance_usdm_adapter.py:575`).
- `HaltIsDurable` as a property of `supervisor`: an order HALTED because its attempts are
  used up is PENDING again after a restart, no attempt made; the records live in memory
  (`unknown_supervisor.py:74`; its line 46 speaks of a durable HALTED record).
- `UnknownIsTracked` without `~missed`: an order that a cancel made UNKNOWN is
  registered by nobody (`orchestrator.py:210-216`).
- `UnknownLocksLeg` with two processes: the leg lock is a lock in memory, and one
  process makes an order of the leg UNKNOWN while the other is between its check
  and its send. The property rests on the single-writer lease, of which
  `OneValidWriter` says that two instances never both have an unexpired one.

### Fairness

`LiveSpec` is weak fairness of `Step`: an operation that has begun goes on; every
wait in the code has a timeout. What else a liveness property needs is its own
premise. `OrdersAreRefreshed` (of `FinishIsLearned`): `recover_pending` queries
every unfinished order again in each cycle, and the venue does not fail at every
one. `SubmitsAreRepeated` (of `NoKeyStuck`): a caller repeats its submit, the
database does not refuse every reservation, and wall time passes. Neither
assumes anything of crashes or of new orders. `FinishIsLearned` excepts orders
that are `LockedOut` as `service_clock` shows, and starts from the states an
answer leaves, not from SUBMITTING, because of `service_crash_cancel`.

`Outbox!FairSpec`: workers poll (`run_forever`), a worker that lives handles its
batch, backoffs and leases run out. No fairness of the sweeper, of requeues, nor
of a publisher that succeeds. `UnknownSupervisor`
has no fairness: at this commit nothing in `src/freqtrade` calls
`run_unknown_recovery` or `run_due`, only tools and tests do, so that whether a record
is ever closed is a question to the deployment and not to this code.

## 4. Properties and hazards

`PROJECT.json` lists the hazards with their lines. The main ones: two workers on
a key and timed-out submits (`AtMostOneSubmission`, `OneSender`,
`KeepsPromise`); crash after the send (`NothingSentUnrecorded`); disordered
facts (`OrdersMoveForward`, `FillsAreReal`, `FinishedIsNotOpen`); failed
completion and dead owners (`SettledIsClassified`, `NoKeyStuck`); missed
outcomes (`FinishIsLearned`); the check of the leg lock before the send
(`UnknownLocksLeg`); sources that disagree (`OrderIsTrue`, `EndIsNotLost`); booking
(`LedgerNotAhead`, `NoFillMissed`); leases that run
out, an unlocked sweep and dead letters in the outbox (`KeepsOrder`,
`PublishedWasTaken`, `EventSettles`); forgotten UNKNOWN orders and
overlapping attempts (`UnknownIsTracked`, `QueryingIsAsked`); circles of locks and a
detector that reads other steps' notes (`NoStandoff`, `AlarmsAreReal`,
`OwnerIsHolder`); split reads and writes of reservations (`ReservedWithin`,
`LocalCapacity`); takeovers, clocks and lost answers (`OneValidWriter`,
`OneOwnerPerToken`, `CommitsWereHeld`); repeated intents (`ApprovedOnce`).

Some hazards no property covers, and their notes say why: the booking of fills over a
crash, a repeated submit or overlapping calls, which the code loses or doubles; a lost
version check; the acknowledgement dropped by a clock that is ahead; a send after the
lease was lost; what only a restart registers with the supervisor; an answer over a
verdict, and verdicts that a restart forgets; an undecodable answer; and that nobody polls.

Every
property of a passing run has a mutant of the modelled code that breaks it;
mutants stand just before the definition they change and are used by nothing
else.

## 5. Theorems

`ExecutionServiceProofs` and, resting on it, `ServiceSafetyProofs` prove, for every set of processes and orders, every
quantity, clock skew and bound, from `ConstantsAssumption` and
`NoOrderAssumption` (typing, and that the two "none" values are not processes or
orders):

- `TypeCorrect`: `Spec => []TypeOK`;
- `SubmittedOnce`: `Spec => []AtMostOneSubmission`, and `SendersAreAlone`:
  `Spec => []OneSender`;
- `OrdersOnlyAdvance`: `Spec => OrdersMoveForward`;
- `FillsNotInvented`: `Spec => []FillsAreReal`;
- `SentOnRecord`: `Spec => []NothingSentUnrecorded`;
- `FinishedStaysClosed`: `Spec => []FinishedIsNotOpen`;
- `PromiseIsKept`: `Spec => KeepsPromise`, the refinement of `OrderPromise`;
- `LegStaysLocked`: `Spec => UnknownLocksLeg` when there is one process;
- `KeysSettleOutcomes`: `Spec => []SettledIsClassified` when `Skew >= 0`.

`AtMostOneSubmission` is not inductive. The invariant `Inv` adds two facts.
`OneSender`: an order is in `mark` or `send` in one process at most and only
while it was never sent; and what was sent is on record. It survives `Admit`
because the store refuses a second first record: a process can be in `mark`
only after writing that record itself. `RecordsPrecedeWork`: whatever an
operation does after its first record has a record to work on, so the guards
that read `orders[c]` read an order. Apart from `Admit`, `Mark` and `Send`,
every step leaves `mark` and `send` alone: the lemma `QuietStep` proves the
invariant once for all of these, and each action is shown to be such a step.
`OrdersOnlyAdvance` follows from `MovedAhead` and `AppliedAhead`, which say
that a local transition and a merged fact move an order forward.

`FillsNotInvented` and `SentOnRecord` rest on a second invariant, `Agreement`, inductive relative to
`Inv`. `FactsReal`: no report ever made exceeds the venue's present fills, which
never shrink; without it a late report could be merged over a smaller truth.
`SentRecorded`: an operation in `send` has already stored `SUBMITTING`, so the
record is there when the request reaches the wire. Each way of writing an order
is shown to store a quantity that is zero, already stored or reported
(`Backed`), and never to fall back to `PREPARED` (`Started`).

The others rest on a third invariant, `Course`, inductive relative to the
first two. It follows an order from the send to its end: what is on the wire was
sent and not acted upon (`WireIsFresh`); an order never sent is unknown to the
venue, and nothing acknowledges it (`UnsentIsUnseen`, `LiveWasSent`); a report of
an end, or of the whole quantity, is of an order the venue has finished with
(`EndsAreReal`, `WholeIsFilled`); and an order about to be sent has not ended
(`SendingIsAlive`). The lemma `ServiceStepEnds` then leaves four ways for a
stored order to end: it had ended, the venue has finished with it, its request
was bounced, or it is a first record the risk decision declined; none of them is
open or on its way. For the refinement each action of `OrderPromise` gets a lemma
saying when a step of the service is one (`LearnIsAllowed` and so on), and each
step is brought under one of them. `LegStaysLocked` needs only that a process has
one operation per leg (`LegExclusive`): nothing can then turn an order of the leg
UNKNOWN between `Admit` and `Send`. With two processes it does not hold (section
3).

`KeysSettleOutcomes` adds the invariant `Settlement`. An operation past the call of
the venue has an order with an outcome (`OutcomesAreKnown`); what a replay read
stays true of the order, whoever writes it meanwhile (`ReplaysSaw`); and no report
of an order on its way out is older than the order's stamp (`ReportsAreNew`), so
that an acknowledgement that is not refused is never dropped as stale. Only this
part needs the clocks: the stamp is the local time of a moment before the send,
and a report carries the venue's time of a later one.

### ExecutionEngine

For any threads, quantity, failures and doubts (`EngineAssumption`: the bounds are
natural numbers, as the readings are, and the quantity is not zero): `TypeCorrect`, `StoredIsTrue`
(`OrderIsTrue`), `EndIsKept` (`EndIsNotLost`, for any readings of the local clock), `LedgerIsNotAhead`
(`LedgerNotAhead`), `NoFillIsMissed` (`NoFillMissed`), and `ResolvedIsHonest`, what
the resolver's operators make of true sources.

A fact is `Honest` when it has no fill the venue has not made, and says of the end
only what is so. Each operator of the merge keeps that: the largest of true
quantities is true (`MergedIsHonest`), different trades of the first m add up to m
at most (`LotsOfTrades`, `AggregateIsHonest`), the two together (`WithFillsIsHonest`),
and the merge into the order (`AppliedIsTrue`), whichever of the two is older.
`OrderInv` adds to `OrderIsTrue` that no report or question is ahead of the venue
(`Timely`), which says nothing of the order's own stamp; that nothing happens before
the first submit (`BeforeSubmit`); and that events ask the resolver nothing. That an
end is kept needs no bound on the local clock: `_apply_snapshot_locked` merges a
stale fact into an UNKNOWN order, and takes no fact for stale that is stamped as late
as the order (`AppliedEnds`); and the latest of the resolver's stamps is at least the
stamp of the source that told of the end (`EndIsLearned`). Each of the six steps in the
core, and `Resolve`, is shown to be a `CoreEffect`: the venue and the order go onward, and the call is over, asks, or goes
on to record. What follows uses `CoreEffect` only.

`LedgerInv` is inductive on top of it. The booked lots are compared with the order
call by call: outside of overlapping calls they are at most what the call has read
(`NotAheadOfCalls`) and, without failures, at least that (`NothingMissed`), so
`after - before` brings them to the order's quantity. The row must not be taken for
a known one: a trade id in the ledger is in the order and a digest names a version
that has been (`RowsAreOld`), while the event that makes the order grow has brought
a later trade and the version has grown with it (`WillRecord`). That the two history
variables must appear is shown in section 3: without them neither property holds.

### Outbox

For any workers, aggregates, limit, attempts and rows (`OutboxAssumption`):
`TypeCorrect`, `MarksAreTrue` (`PublishedWasTaken`) and `OrderIsKept`, the
refinement `Spec => KeepsOrder`. The invariant adds `BatchesMayGo`: whatever a
worker has in hand, all earlier events of the aggregate have been taken. The claim
establishes it (predecessors are PUBLISHED, and what is marked was taken), and it
lasts although statuses do not, because what was taken stays taken: this is why
an expired lease, a sweep over a published row or a requeue cannot break the
order. `TakenIsDelivered` ties a worker's mark to the event it has handed over.

### UnknownSupervisor

For any orders, pollers, backoff and limits (`SupervisorAssumption`,
`NothingAssumption`): `TypeCorrect`, `UnknownStaysTracked` (`UnknownIsTracked`)
and `NoneIsStranded` (`QueryingIsAsked`). The invariant says what an answer in
flight is worth: `AnswersHold`, a KNOWN answer not yet written was true and the
order still is known, or it lapsed and is `missed`; `ResolvedHold` carries that
over to the record. `QueryingIsAsked` is inductive with it, because an answer takes the
record out of QUERYING whichever attempt put it there, and a restart, which ends all
attempts, brings records back as PENDING or HALTED only.

### PositionLocks

For any finite set of threads, any keys, quantity and depth (`LocksAssumption`):
`TypeCorrect`, `NotesAreCurrent` (`OwnerIsHolder`), `ReductionsFit`
(`ReservedWithin`), `NobodyWaitsInACircle` (`NoStandoff`) and `AlarmsSpeakTrue`
(`AlarmsAreReal`). The invariant says that the three views of a lock agree
(`ViewsAgree`), from which the position lock excludes, and that what a thread has
read covers what is reserved until it adds to it (`ReadingsCover`).

The detector needs `DetectorInv` besides: the notes are not only current but
complete. Whoever has a lock is noted as its owner, or has it and is between the
lock and the note (`NotesComplete`); who waits has announced it and nobody else has
(`Announced`). `NoStandoff` is preserved because the last thread to begin waiting
closes the circle: every other one of it is noted, so the chain the detector walks
from that thread stays in the circle and, having at most as many steps as there are
threads, comes back to it; then `Announce` is not enabled. The other way round, a
chain that has come back to its thread is a set of threads each of which waits for
a lock held in the set, which is what an alarm claims.

### DatabaseLease and RiskApproval

For any instances, intents, capacity, lag and lease term (`LeaseAssumption`,
`NoLeaseAssumption`, `ApprovalAssumption`, `NothingAssumption`):
`ApprovalsKeepTheLease` (every step of `RiskApproval` is a step of `DatabaseLease`
or leaves it alone), which carries `LeaseInv` over; from it `TokensNameOneOwner`
(`OneOwnerPerToken`) and `WritersAreAlone` (`OneValidWriter`); and `TypeCorrect`,
`IntentsAreApprovedOnce` (`ApprovedOnce`), `TokensOfCommitsWereHeld`
(`CommitsWereHeld`), `ReservationsFit` (`LocalCapacity`). `LeaseInv` says that the
row is the latest grant (`RowIsLatest`) and that what an instance believes is the
row or is over by the fastest clock (`GuardsAgree`): a takeover waits for its own
clock, which is never ahead of that one.

### Lemmas about data

Chains of any length (`PositionLocksProofs`) and sums over a ledger of any size
(`ExecutionEngineProofs`) take an induction. The library's induction theorems have
an operator as parameter, which the provers cannot instantiate. Their first-order
core can be used: a set of natural numbers that is not empty has a least member
(`Least`, from `WFMin` and `NatLessThanWellFounded`), so a set of numbers that has 0
and each successor has all (`Always`, `UpTo`). `MapThenSumSet` is a recursive
function; that one exists on the subsets of a finite set, and that its values do not
depend on the set it is defined for, are `SumExists` and `SumUnique`, and a row more
adds its own lots is `LotsOfOneMore`.

### Only model-checked

The liveness properties `FinishIsLearned`, `NoKeyStuck` and `EventSettles`: TLAPS has no
liveness under fairness. The four runs that expect a violation are counterexamples of
TLC. Every other property of a run is a theorem.

## 6. Not modelled, and the plan

Not modelled at all: HTTP, signing and row mapping; migrations; the numerical
packages, planning and learning; upstream freqtrade; evidence and health reports.
These are most of the repository's lines: pure computation, I/O and conversions,
with no protocol of their own to check. Of the hedge subsystem what is left, in
the order of its worth:

1. Cancel-replace and action groups: the in-flight submit of a replacement,
   compensation, and the group rows a restart reads.
2. That the resolver of `ExecutionEngine` gives `ExecutionService` only answers it
   allows, as a refinement instead of by `StoredIsTrue` and `ResolvedIsHonest`.
3. Circuit breakers and the risk action state machine; control confirmation;
   recovery and reconciliation of the repositories.
