-------------------------- MODULE ExecutionEngine --------------------------
(***************************************************************************)
(* freqtrade/hedge/execution/orchestrator.py, class HedgeExecutionEngine,  *)
(* with the UNKNOWN resolver below it: how what the venue says of one      *)
(* order gets into the order, and its fills into the ledger.               *)
(*                                                                         *)
(* Each call of the engine has parts, and other threads run between them:  *)
(* it reads the order, it lets the core merge what the venue says under    *)
(* the position lock, and it records the difference between the two as a   *)
(* fill in one ledger transaction.  When the core has to ask the resolver, *)
(* the venue moves between its questions, and the user stream fills its    *)
(* cache.  The core merges by OrderLifecycle!Applied.                      *)
(*                                                                         *)
(* The venue trades one lot at a time and may end the order early.         *)
(* Moment counts what has happened to the order there; the report of       *)
(* moment m is stamped m.  The process stamps what it decides itself by    *)
(* its own clock, which need not agree with the venue's: a reading of k    *)
(* lies after the stamp k-1 and no later than the stamp k of the venue, so *)
(* that 0..Qty+1 are all the readings that can be told apart.              *)
(***************************************************************************)
EXTENDS UnknownResolver

CONSTANTS
  Threads,       \* threads that call the engine: user stream, main loop, ...
  Qty,           \* approved quantity of the order, in lots
  Readings,      \* what the local clock may show, on the scale of the moments
  MaxFailures,   \* bound: crashes of the process and failed transactions
  MaxDoubts      \* bound: submits and cancels without a clear answer

ASSUME EngineAssumption ==
  /\ Qty \in Nat \ {0} /\ Readings \subseteq Nat /\ MaxFailures \in Nat /\ MaxDoubts \in Nat

VARIABLES
  order,      \* the stored order
  version,    \* its lifecycle version
  traded,     \* lots the venue has traded
  ended,      \* the venue has cancelled what was left
  cache,      \* moment of the report in the user-stream cache, or Nothing
  jobs,       \* [Threads -> the call in progress]
  ledger,     \* the fill rows, [id, lots]
  submitted,  \* the first submit call has reached the core
  repeated,   \* history: the caller has repeated the submit call
  overlapped, \* history: a call began while another was in progress
  failures, doubts

venueVars == <<traded, ended>>
orderVars == <<order, version>>
history == <<repeated, overlapped>>
vars == <<orderVars, venueVars, cache, jobs, ledger, submitted, history,
          failures, doubts>>

Moment == traded + (IF ended THEN 1 ELSE 0)
Moments == 0..Qty
Stamps == Moments \cup Readings
Nothing == -1

Calls == {"none", "submit", "event", "refresh", "resolve", "cancel"}
Asking == {"asking", "asking_again"}
FillIds == ({"trade"} \X (1..Qty)) \cup ({"derived"} \X (0..Qty) \X Nat)

Idle == [call |-> "none", at |-> "start", report |-> 0, since |-> 0,
         before |-> 0, after |-> 0, version |-> 0]

Ledgered == MapThenSumSet(LAMBDA row : row.lots, ledger)

TypeOK ==
  /\ order \in [status : Statuses, filled : 0..Qty, approved : {Qty},
                at : Stamps, xid : BOOLEAN]
  /\ version \in Nat /\ traded \in 0..Qty /\ ended \in BOOLEAN
  /\ cache \in Moments \cup {Nothing}
  /\ jobs \in [Threads -> [call : Calls, at : {"start", "core", "record"} \cup Asking,
                           report : Moments, since : Moments,
                           before : 0..Qty, after : 0..Qty, version : Nat]]
  /\ \A row \in ledger : row.id \in FillIds /\ row.lots \in 1..Qty
  /\ submitted \in BOOLEAN /\ repeated \in BOOLEAN /\ overlapped \in BOOLEAN
  /\ failures \in 0..MaxFailures /\ doubts \in 0..MaxDoubts

Init ==
  /\ \E now \in Readings :
       order = [status |-> "SUBMITTING", filled |-> 0, approved |-> Qty,
                at |-> now, xid |-> FALSE]
  /\ version = 0 /\ traded = 0 /\ ended = FALSE /\ cache = Nothing
  /\ jobs = [t \in Threads |-> Idle] /\ ledger = {}
  /\ submitted = FALSE /\ repeated = FALSE /\ overlapped = FALSE
  /\ failures = 0 /\ doubts = 0

-----------------------------------------------------------------------------
(* What the venue reports.                                                 *)

Cumulative(n) ==
  [status |-> IF n = 0 THEN "ACKNOWLEDGED" ELSE IF n = Qty THEN "FILLED"
              ELSE "PARTIAL",
   filled |-> n, at |-> n, xid |-> TRUE]

\* The report of a moment that has been.
ReportOf(m) ==
  IF m > traded
    THEN [status |-> "CANCELED", filled |-> traded, at |-> m, xid |-> TRUE]
    ELSE Cumulative(m)

\* Trades that were made by then.
TradesBy(m) == {[id |-> n, lots |-> 1, at |-> n] : n \in 1..Min({m, traded})}

-----------------------------------------------------------------------------
(* The beginning of a call.                                                *)

Set(t, job) == jobs' = [jobs EXCEPT ![t] = job]

Begin(t, job) ==
  /\ jobs[t] = Idle
  /\ Set(t, job)
  /\ overlapped' = (overlapped \/ \E u \in Threads : jobs[u] # Idle)
  /\ UNCHANGED <<orderVars, venueVars, ledger, submitted, failures, doubts>>

\* submit: nothing is read before the core is entered.
BeginSubmit(t) ==
  /\ \A u \in Threads : jobs[u].call # "submit"
  /\ Begin(t, [Idle EXCEPT !.call = "submit", !.at = "core"])
  /\ repeated' = (repeated \/ submitted)
  /\ UNCHANGED cache

\* The order is read before the position lock is taken.
BeginUpdate(t, call, m) ==
  /\ submitted
  /\ Begin(t, [Idle EXCEPT !.call = call, !.at = "core", !.report = m,
                           !.before = order.filled])
  /\ UNCHANGED repeated

\* apply_exchange_event: a report joins the cache first, unless a later one is
\* there.  Reports come in any order and more than once.
BeginEvent(t) ==
  \E m \in 0..Moment :
    BeginUpdate(t, "event", m) /\ cache' = Max({cache, m})

BeginQuery(t) ==
  \E call \in {"refresh", "resolve", "cancel"} :
    BeginUpdate(t, call, 0) /\ UNCHANGED cache

-----------------------------------------------------------------------------
(* The core, under the position lock and the leg lock.                     *)

CoreStep(t, call) ==
  /\ jobs[t].call = call /\ jobs[t].at = "core"
  /\ \A u \in Threads : jobs[u].at \notin Asking
  /\ UNCHANGED <<cache, ledger, history, failures>>

\* Store what the order has become and go on to record it.
Store(t, new) ==
  /\ order' = new
  /\ version' = IF new = order THEN version ELSE version + 1
  /\ Set(t, [jobs[t] EXCEPT !.at = "record", !.since = 0,
                            !.after = new.filled, !.version = version'])

Keep(t) == Store(t, order)

Raise(t) == Set(t, Idle) /\ UNCHANGED orderVars

\* Store what the order has become and ask the resolver about it.
Ask(t, new, phase) ==
  /\ order' = new
  /\ version' = IF new = order THEN version ELSE version + 1
  /\ Set(t, [jobs[t] EXCEPT !.at = phase, !.since = Moment])

\* The order becomes UNKNOWN by the local clock, and the resolver is asked.
\* With an earlier reading than the order is stamped with, the step raises.
Unsettle(t, phase) ==
  \E now \in Readings :
    IF CanMove(order, "UNKNOWN", now)
      THEN Ask(t, Moved(order, "UNKNOWN", now), phase)
      ELSE Raise(t)

\* The answer of the venue is lost or not clear.
Doubt(t, phase) ==
  doubts < MaxDoubts /\ doubts' = doubts + 1 /\ Unsettle(t, phase)

\* The first submit is acknowledged with the trades made at once, or in doubt.
CoreSubmit(t) ==
  /\ CoreStep(t, "submit") /\ ~submitted /\ submitted' = TRUE
  /\ UNCHANGED ended
  /\ \/ \E n \in 0..Qty :
          traded' = n /\ Store(t, Applied(order, Cumulative(n))) /\ UNCHANGED doubts
     \/ Doubt(t, "asking") /\ UNCHANGED traded

\* A repeated submit returns the stored order as it is, finds the reservation
\* held, or takes over that of a dead one and asks about an order in doubt.
CoreRepeat(t) ==
  /\ CoreStep(t, "submit") /\ submitted
  /\ \/ Keep(t) \/ Raise(t)
     \/ order.status = "UNKNOWN" /\ Ask(t, order, "asking")
     \/ order.status = "SUBMITTING" /\ Unsettle(t, "asking")
  /\ UNCHANGED <<venueVars, submitted, doubts>>

CoreEvent(t) ==
  /\ CoreStep(t, "event")
  /\ LET report == ReportOf(jobs[t].report)
     IN  IF Refused(order, report) THEN Raise(t) ELSE Store(t, Applied(order, report))
  /\ UNCHANGED <<venueVars, submitted, doubts>>

\* The venue is asked for the order as it is now; the resolver is asked when
\* that fails or gives nothing to use.
CoreRefresh(t) ==
  /\ CoreStep(t, "refresh")
  /\ LET report == ReportOf(Moment)
     IN  IF order.status \in TerminalStates THEN Keep(t)
         ELSE \/ ~Refused(order, report) /\ Store(t, Applied(order, report))
              \/ Ask(t, order, "asking")
  /\ UNCHANGED <<venueVars, submitted, doubts>>

CoreResolve(t) ==
  /\ CoreStep(t, "resolve")
  /\ IF order.status = "UNKNOWN" THEN Ask(t, order, "asking") ELSE Keep(t)
  /\ UNCHANGED <<venueVars, submitted, doubts>>

\* The venue cancels what is left, says that there is nothing to cancel, or
\* cannot be understood.  In the last case it may have cancelled, too.  A
\* SUBMITTING order refuses the report of a cancellation.
CoreCancel(t) ==
  /\ CoreStep(t, "cancel")
  /\ IF order.status \in TerminalStates
       THEN Keep(t) /\ UNCHANGED <<ended, doubts>>
       ELSE \/ Raise(t) /\ UNCHANGED <<ended, doubts>>
            \/ /\ traded < Qty /\ ended' = TRUE /\ UNCHANGED doubts
               /\ LET report == ReportOf(traded + 1)
                  IN  IF Refused(order, report) THEN Unsettle(t, "asking_again")
                      ELSE Store(t, Applied(order, report))
            \/ Doubt(t, "asking") /\ UNCHANGED ended
  /\ UNCHANGED <<traded, submitted>>

-----------------------------------------------------------------------------
(* The resolver's questions: a query, the open orders, the recent fills and *)
(* the cache, in this order, while the venue goes on.  Each may fail.       *)

\* The moments of the first three questions.
Times(t) ==
  LET Since == jobs[t].since..Moment
  IN  {when \in Since \X Since \X Since : when[1] <= when[2] /\ when[2] <= when[3]}

Open(report) == report.status \in {"ACKNOWLEDGED", "PARTIAL"}

\* What the query, the list of open orders and the cache may have said.
Reports(query, list) ==
  SUBSET ({ReportOf(query)} \cup {s \in {ReportOf(list)} : Open(s)} \cup
          {ReportOf(m) : m \in {cache} \ {Nothing}})

\* The list of recent fills is cut off at the old end, and says nothing of an
\* order whose exchange id was never learned.
Trades(fills) ==
  IF order.xid THEN {{trade \in TradesBy(fills) : trade.id > n} : n \in 0..Qty}
               ELSE {{}}

\* What the sources may have said, each at its time.
Said(t) == UNION {Reports(when[1], when[2]) \X Trades(when[3]) : when \in Times(t)}

\* What the resolver makes of it.
Found(said) == Resolved(order, said[1], said[2])

\* The answer is merged, or refused and left; a cancel that is no wiser for
\* an answer asks once more.
Learn(t, found) ==
  LET new == {Applied(order, s) : s \in {f \in found : ~Refused(order, f)}}
      next == IF new = {} THEN order ELSE CHOOSE o \in new : TRUE
  IN  IF /\ jobs[t].call = "cancel" /\ jobs[t].at = "asking"
         /\ found # {} /\ next.status = "UNKNOWN"
        THEN Ask(t, next, "asking_again")
        ELSE Store(t, next)

Resolve(t) ==
  /\ jobs[t].at \in Asking
  /\ \E found \in {Found(said) : said \in Said(t)} : Learn(t, found)
  /\ UNCHANGED <<venueVars, cache, ledger, submitted, history, failures, doubts>>

-----------------------------------------------------------------------------
(* The ledger.                                                             *)

\* Mutant of Derived: a report without new lots makes a fill row.
DerivedAlways(job) ==
  {[id |-> <<"derived", job.after, job.version>>,
    lots |-> job.after - job.before]}

\* Mutant of Derived: the cumulative quantity is booked.
DerivedTotal(job) ==
  IF job.after > job.before
    THEN {[id |-> <<"derived", job.after, job.version>>, lots |-> job.after]}
    ELSE {}

\* Mutant of Derived: only reported trades are booked, not queried ones.
DerivedFromEvents(job) ==
  IF job.after > job.before /\ job.call = "event"
    THEN {[id |-> <<"trade", job.report>>, lots |-> job.after - job.before]}
    ELSE {}

\* _derive_fill: the lots between the two readings, under the venue's trade id
\* when the call has a report of a trade and under a digest otherwise.
Derived(job) ==
  IF job.after > job.before
    THEN {[id |-> IF job.call = "event" /\ job.report \in 1..traded
                    THEN <<"trade", job.report>>
                    ELSE <<"derived", job.after, job.version>>,
           lots |-> job.after - job.before]}
    ELSE {}

\* A known trade id is not recorded again; with other contents the transaction
\* is rolled back and the call raises.
Known(row) == \E old \in ledger : old.id = row.id

\* The ledger transaction puts the order of the result first, and the store
\* refuses it when another call has stored a newer version meanwhile.
Overtaken(job) == job.version < version

\* _record_result: the fill joins the ledger in one transaction, or the call
\* raises and nothing of it is recorded.
Record(t) ==
  /\ jobs[t].at = "record"
  /\ \/ /\ ~Overtaken(jobs[t])
        /\ ledger' = ledger \cup {row \in Derived(jobs[t]) : ~Known(row)}
     \/ Overtaken(jobs[t]) /\ UNCHANGED ledger
  /\ Set(t, Idle)
  /\ UNCHANGED <<orderVars, venueVars, cache, submitted, history, failures, doubts>>

\* The core stored the order but could not complete the reservation, or the
\* ledger transaction fails: the call raises with nothing recorded.
RecordFails(t) ==
  /\ jobs[t].at = "record"
  /\ failures < MaxFailures /\ failures' = failures + 1
  /\ Set(t, Idle)
  /\ UNCHANGED <<orderVars, venueVars, cache, ledger, submitted, history, doubts>>

\* The calls and the cache are in memory.
Crash ==
  /\ failures < MaxFailures /\ failures' = failures + 1
  /\ jobs' = [t \in Threads |-> Idle] /\ cache' = Nothing
  /\ UNCHANGED <<orderVars, venueVars, ledger, submitted, history, doubts>>

VenueTrades ==
  /\ submitted /\ ~ended /\ traded < Qty
  /\ traded' = traded + 1
  /\ UNCHANGED <<orderVars, ended, cache, jobs, ledger, submitted, history,
                 failures, doubts>>

VenueCancels ==
  /\ submitted /\ ~ended /\ traded < Qty
  /\ ended' = TRUE
  /\ UNCHANGED <<orderVars, traded, cache, jobs, ledger, submitted, history,
                 failures, doubts>>

Next ==
  \/ \E t \in Threads :
       \/ BeginSubmit(t) \/ BeginEvent(t) \/ BeginQuery(t)
       \/ CoreSubmit(t) \/ CoreRepeat(t) \/ CoreEvent(t) \/ CoreRefresh(t)
       \/ CoreResolve(t) \/ CoreCancel(t) \/ Resolve(t)
       \/ Record(t) \/ RecordFails(t)
  \/ Crash \/ VenueTrades \/ VenueCancels

Spec == Init /\ [][Next]_vars

-----------------------------------------------------------------------------

\* The order in the store is true of the venue, whatever mixture of stale, partial and failed
\* answers the resolver has made it from: no fill the venue did not make, and a terminal
\* order has ended there with exactly the fills stored.
OrderIsTrue ==
  /\ order.filled <= traded
  /\ order.status \in TerminalStates =>
       order.filled = traded /\ (ended \/ traded = Qty)

\* A report of the end that a resolution must not lose: any, when the order is UNKNOWN, and
\* one that is not older than the order's stamp, when it works.
Audible(s) ==
  /\ s.status \in TerminalStates
  /\ order.status = "UNKNOWN" \/ (Open(order) /\ order.at <= s.at)

\* A resolution that leaves the order open was told of no end, by any source.  An UNKNOWN
\* order ends even when the local clock has stamped it later than the end:
\* _merge_order_candidates and _merge do not lose the end among older reports and fills of
\* other sources, and the merge does not drop it.  A working order ends, too, unless it is
\* stamped later than the end: it keeps the stamp of the local clock when an older report
\* makes it working, and then the end is dropped as stale.
EndIsNotLost ==
  [][\A t \in Threads :
       /\ jobs[t].at \in Asking /\ jobs'[t] # jobs[t]
       /\ order'.status \notin TerminalStates
       => \A said \in Said(t) :
            (\E s \in said[1] : Audible(s)) => ~Learn(t, Found(said))]_vars

\* _derive_fill and SqlExecutionLedger.record: the ledger, and with it the position, never
\* shows more than the order has filled, whatever crashes: a fill that is both reported and
\* queried, or reported twice, counts once.  A repeated submit call is another matter: its
\* result is booked against no previous order; and so are calls that overlap.
LedgerNotAhead == ~repeated /\ ~overlapped => Ledgered <= order.filled

\* Unless the process or the transaction fails between the two, whatever the core has
\* merged is in the ledger once the call is over: no fill is merged and then dropped, and a
\* repeated submit does not hide one.
NoFillMissed ==
  failures = 0 /\ ~overlapped /\ (\A t \in Threads : jobs[t] = Idle) =>
    Ledgered >= order.filled
=============================================================================
