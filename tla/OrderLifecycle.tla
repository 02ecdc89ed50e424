--------------------------- MODULE OrderLifecycle ---------------------------
(***************************************************************************)
(* The pure order lifecycle of freqtrade/hedge/execution/state_machine.py  *)
(* and the snapshot merge of ExecutionService._apply_snapshot_locked.      *)
(*                                                                         *)
(* An order is a record                                                    *)
(*   status    the OrderState,                                             *)
(*   filled    filled_quantity, in lots,                                   *)
(*   approved  approved_quantity, in lots,                                 *)
(*   at        updated_at, a reading of the clock that stamped the update, *)
(*   xid       whether the exchange order id is known.                     *)
(* A snapshot (ExternalOrderSnapshot) is a record of status, filled, at    *)
(* (observed_at) and xid.  Prices, reasons and the text of ids are left    *)
(* out: no guard of the lifecycle can be decided by them alone.            *)
(***************************************************************************)
EXTENDS Integers

Statuses == {"PREPARED", "SUBMITTING", "ACKNOWLEDGED", "PARTIAL",
             "FILLED", "CANCELED", "REJECTED", "UNKNOWN"}

TerminalStates == {"FILLED", "CANCELED", "REJECTED"}

\* What an exchange snapshot may carry (the constructor refuses the others).
ExternalStates == Statuses \ {"PREPARED", "SUBMITTING"}

AllowedTransitions ==
  [s \in Statuses |->
     CASE s = "PREPARED" ->
            {"SUBMITTING", "CANCELED", "REJECTED", "UNKNOWN"}
       [] s = "SUBMITTING" ->
            {"ACKNOWLEDGED", "PARTIAL", "FILLED", "REJECTED", "UNKNOWN"}
       [] s = "ACKNOWLEDGED" ->
            {"ACKNOWLEDGED", "PARTIAL", "FILLED", "CANCELED", "REJECTED",
             "UNKNOWN"}
       [] s = "PARTIAL" ->
            {"PARTIAL", "FILLED", "CANCELED", "UNKNOWN"}
       [] s = "UNKNOWN" ->
            {"UNKNOWN", "ACKNOWLEDGED", "PARTIAL", "FILLED", "CANCELED",
             "REJECTED"}
       [] OTHER -> {}]

\* The quantity rules every fact must satisfy.
Fits(status, filled, approved) ==
  /\ 0 <= filled /\ filled <= approved
  /\ status \in {"ACKNOWLEDGED", "REJECTED"} => filled = 0
  /\ status = "PARTIAL" => 0 < filled /\ filled < approved
  /\ status = "FILLED" => filled = approved

\* Mutant of BuildsFact: cumulative quantities may shrink.
BuildsAnyFact(o, status, filled, at) ==
  o.approved > 0 /\ Fits(status, filled, o.approved) /\ at >= o.at

\* OrderLifecycle._build_fact accepts the fact.
BuildsFact(o, status, filled, at) ==
  /\ o.approved > 0
  /\ filled >= o.filled
  /\ Fits(status, filled, o.approved)
  /\ at >= o.at

\* OrderLifecycle.transition accepts the fact.
CanTransition(o, status, filled, at) ==
  /\ status \in AllowedTransitions[o.status]
  /\ BuildsFact(o, status, filled, at)

\* OrderLifecycle.reconcile_terminal_fact accepts the fact.
CanReconcile(o, status, filled, at) ==
  /\ o.status = "CANCELED"
  /\ \/ status = "CANCELED" /\ filled < o.approved
     \/ status = "FILLED" /\ filled = o.approved
  /\ BuildsFact(o, status, filled, at)

\* Mutant of Advance: the cumulative quantity is taken for the last fill.
AdvanceByLastFill(o, status, filled, at, xid) ==
  [status |-> status, filled |-> o.filled + filled, approved |-> o.approved,
   at |-> at, xid |-> o.xid \/ xid]

\* The lifecycle with the fact applied.
Advance(o, status, filled, at, xid) ==
  [status |-> status, filled |-> filled, approved |-> o.approved,
   at |-> at, xid |-> o.xid \/ xid]

-----------------------------------------------------------------------------
(* _apply_snapshot_locked: how one exchange snapshot meets a stored order. *)

\* Mutant of Reported: more fills on any report end the order.
ReportedAsEnded(o, s) ==
  IF s.filled = o.approved /\ s.filled > 0 THEN "FILLED"
  ELSE IF s.status = "PARTIAL" /\ s.filled > o.filled THEN "CANCELED"
  ELSE s.status

\* The status the snapshot stands for, given what is already known.
Reported(o, s) ==
  IF s.filled = o.approved /\ s.filled > 0
    THEN IF s.status \in {"PARTIAL", "CANCELED"} THEN "FILLED" ELSE s.status
    ELSE IF /\ o.status = "CANCELED"
            /\ s.status = "PARTIAL"
            /\ s.filled > o.filled
           THEN "CANCELED" ELSE s.status

\* Mutant of SameFact: facts are told apart by quantity only.
SameQuantity(o, s) == s.filled = o.filled

\* The snapshot repeats what is stored.
SameFact(o, s) ==
  /\ Reported(o, s) = o.status
  /\ s.filled = o.filled
  /\ s.xid => o.xid

Stale(o, s) == s.at < o.at

\* Dropped without an attempt to apply it.
Outdated(o, s) ==
  /\ Stale(o, s)
  /\ o.status # "UNKNOWN"
  /\ Reported(o, s) # "FILLED"
  /\ s.filled <= o.filled

OccurredAt(o, s) == IF Stale(o, s) THEN o.at ELSE s.at

Absorbable(o, s) ==
  IF o.status \in TerminalStates
    THEN CanReconcile(o, Reported(o, s), s.filled, OccurredAt(o, s))
    ELSE CanTransition(o, Reported(o, s), s.filled, OccurredAt(o, s))

\* The handler raises and stores nothing.
Refused(o, s) ==
  \/ s.filled > o.approved
  \/ /\ ~SameFact(o, s)
     /\ ~Outdated(o, s)
     /\ ~Absorbable(o, s)
     /\ ~(Stale(o, s) /\ s.filled <= o.filled)

\* The stored order after a snapshot that is not refused.
Applied(o, s) ==
  IF SameFact(o, s) \/ Outdated(o, s) \/ ~Absorbable(o, s)
    THEN o
    ELSE Advance(o, Reported(o, s), s.filled, OccurredAt(o, s), s.xid)

\* ExecutionService._transition: a local step stamped by the local clock, and
\* the order it stores.
CanMove(o, status, now) == CanTransition(o, status, o.filled, now)

Moved(o, status, now) == Advance(o, status, o.filled, now, FALSE)
=============================================================================
