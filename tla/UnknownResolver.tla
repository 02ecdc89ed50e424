-------------------------- MODULE UnknownResolver --------------------------
(***************************************************************************)
(* freqtrade/hedge/execution/unknown_resolver.py: how UnknownOrderResolver *)
(* makes one fact out of what a direct query, the list of open orders, the *)
(* list of recent fills and the user-stream cache say of an order.         *)
(*                                                                         *)
(* Orders and reports are those of OrderLifecycle.  A report has a         *)
(* cumulative quantity; a row of the list of fills is one trade,           *)
(*   id    exchange_trade_id,                                              *)
(*   lots  the quantity of this trade alone,                               *)
(*   at    observed_at.                                                    *)
(* A source that fails, or has nothing to say, contributes nothing.  Two   *)
(* equal reports count as one: the branch of the code for a single         *)
(* candidate gives what its branch for several gives.                      *)
(***************************************************************************)
EXTENDS OrderLifecycle, FiniteSetsExt

\* _valid_candidate, and the test of its callers for UNKNOWN.
Usable(o, s) ==
  /\ s.status # "UNKNOWN"
  /\ s.filled <= o.approved
  /\ s.status = "FILLED" => s.filled = o.approved

Latest(facts) == Max({f.at : f \in facts})

\* _merge_order_candidates: fills decide before a cancellation, and a
\* cancellation before all other states.
MergedStatus(o, reports) ==
  LET most == Max({s.filled : s \in reports})
      Some(status) == \E s \in reports : s.status = status
  IN  IF most = o.approved /\ most > 0 THEN "FILLED"
      ELSE IF Some("CANCELED") THEN "CANCELED"
      ELSE IF most > 0 THEN "PARTIAL"
      ELSE IF Some("REJECTED") THEN "REJECTED" ELSE "ACKNOWLEDGED"

MergedOrders(o, reports) ==
  [status |-> MergedStatus(o, reports),
   filled |-> Max({s.filled : s \in reports}),
   at |-> Latest(reports),
   xid |-> \E s \in reports : s.xid]

\* _aggregate_fills: a trade counts once, and no more than the order asked for.
AggregatedFills(o, trades) ==
  LET total == Min({o.approved, MapThenSumSet(LAMBDA trade : trade.lots, trades)})
  IN  [status |-> IF total = o.approved THEN "FILLED" ELSE "PARTIAL",
       filled |-> total, at |-> Latest(trades), xid |-> TRUE]

\* Mutant of WithFills: the fills are taken for news and added.
WithFillsAdded(o, base, fills) ==
  LET filled == Min({o.approved, base.filled + fills.filled})
  IN  [status |-> IF filled = o.approved THEN "FILLED" ELSE "PARTIAL",
       filled |-> filled, at |-> Max({base.at, fills.at}), xid |-> TRUE]

\* Mutant of WithFills: an order with fills is taken to be working.
WithFillsWorking(o, base, fills) ==
  LET filled == Max({base.filled, fills.filled})
  IN  [status |-> IF filled = o.approved THEN "FILLED" ELSE "PARTIAL",
       filled |-> filled, at |-> Max({base.at, fills.at}), xid |-> TRUE]

\* _merge: the larger quantity; the list of fills may be shorter or longer
\* than what the report counts.
WithFills(o, base, fills) ==
  LET filled == Max({base.filled, fills.filled})
  IN  [status |-> IF filled = o.approved THEN "FILLED"
                  ELSE IF base.status = "CANCELED" THEN "CANCELED" ELSE "PARTIAL",
       filled |-> filled,
       at |-> Max({base.at, fills.at}),
       xid |-> base.xid \/ fills.xid]

\* resolve: the set of the fact found, empty when there is none.
Resolved(o, reports, trades) ==
  LET usable == {s \in reports : Usable(o, s)}
  IN  IF usable = {} /\ trades = {} THEN {}
      ELSE IF usable = {} THEN {AggregatedFills(o, trades)}
      ELSE IF trades = {} THEN {MergedOrders(o, usable)}
      ELSE {WithFills(o, MergedOrders(o, usable), AggregatedFills(o, trades))}
=============================================================================
