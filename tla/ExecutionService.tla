-------------------------- MODULE ExecutionService --------------------------
(***************************************************************************)
(* freqtrade/hedge/execution/service.py, class ExecutionService, over the  *)
(* durable SqlExecutionStore and SqlExecutionIdempotencyStore, an          *)
(* unreliable venue and a wall clock.                                      *)
(*                                                                         *)
(* A process holds the lock of a leg for the whole of an operation, so a   *)
(* process has at most one unfinished operation per leg: pc[p][c] is where *)
(* its operation on order c stands, "idle" when it has none.  Steps are    *)
(* split where the code leaves its own memory: at store transactions and   *)
(* at calls of the venue.  Processes share the database and the venue only.*)
(***************************************************************************)
EXTENDS OrderLifecycle, FiniteSets

CONSTANTS
  Procs,         \* execution processes (one incarnation each)
  Cids,          \* client order ids: one per order intent, built from its key
  Legs, Leg,     \* Leg[c]: the (account, symbol, side) an order belongs to
  Reducing,      \* the orders whose intent reduces risk
  Qty,           \* requested quantity of every intent, in lots
  Skew,          \* venue clock minus local clock, in ticks
  NoOrder, NoProc,
  MaxClock,      \* bound: last reading of the local clock
  MaxCrashes     \* bound: crashes (and restarts) of processes

ASSUME ConstantsAssumption ==
  /\ Leg \in [Cids -> Legs]
  /\ Reducing \subseteq Cids
  /\ Qty \in Nat \ {0}
  /\ Skew \in Int
  /\ NoProc \notin Procs
  /\ MaxClock \in Nat /\ MaxCrashes \in Nat

Times == {t \in Int : t >= 0 /\ t <= MaxClock}
VenueTimes == {t \in Int : t >= Skew /\ t <= MaxClock + Skew}

Orders ==
  [status : Statuses, filled : 0..Qty, approved : 0..Qty,
   at : Times \cup VenueTimes, xid : BOOLEAN]
ASSUME NoOrderAssumption == NoOrder \notin Orders

Facts == [status : ExternalStates, filled : 0..Qty, at : VenueTimes,
          xid : {TRUE}]

Phases ==
  {"idle",
   "reserve", "admit", "mark", "send",   \* submit, before the venue call
   "replay",                             \* submit of an order already on record
   "sent", "cancel_sent",                \* a venue call is outstanding
   "recover", "cancel_recover",          \* the resolver is being asked
   "settle",                             \* completing a submit that sent nothing
   "complete"}                           \* completing after a side effect

VARIABLES
  orders,     \* the order store, [Cids -> Orders or NoOrder]
  idem,       \* the idempotency rows, [state, owner, expired]
  pc,         \* [Procs -> [Cids -> Phases]]
  seen,       \* status of the record BeginSubmit read, or "NONE"
  outdated,   \* <<p, c>>: c was written by another process since p read it
  halted,     \* [Procs -> BOOLEAN], the in-memory kill switch
  wire,       \* submit requests sent that the venue has not acted upon
  facts,      \* [Cids -> SUBSET Facts], everything the venue ever reported
  venue,      \* the venue's own order, [status, filled]
  now,        \* the local clock
  sends,      \* history: number of submit_order calls per client order id
  crashes     \* number of crashes so far

storeVars == <<orders, idem>>
procVars == <<pc, seen, outdated, halted>>
venueVars == <<wire, facts, venue>>
vars == <<storeVars, procVars, venueVars, now, sends, crashes>>

FreshRow == [state |-> "NONE", owner |-> NoProc, expired |-> FALSE]
VenueStates == {"NONE", "REFUSED", "NEW", "PARTIAL", "FILLED", "CANCELED"}
OpenAtVenue(c) == venue[c].status \in {"NEW", "PARTIAL"}

TypeOK ==
  /\ orders \in [Cids -> Orders \cup {NoOrder}]
  /\ idem \in [Cids -> [state : {"NONE", "IN_FLIGHT", "COMPLETED"},
                        owner : Procs \cup {NoProc}, expired : BOOLEAN]]
  /\ pc \in [Procs -> [Cids -> Phases]]
  /\ seen \in [Procs -> [Cids -> Statuses \cup {"NONE"}]]
  /\ outdated \subseteq Procs \X Cids
  /\ halted \in [Procs -> BOOLEAN]
  /\ wire \subseteq Cids
  /\ facts \in [Cids -> SUBSET Facts]
  /\ venue \in [Cids -> [status : VenueStates, filled : 0..Qty]]
  /\ now \in Times
  /\ sends \in [Cids -> Nat]
  /\ crashes \in 0..MaxCrashes

Init ==
  /\ orders = [c \in Cids |-> NoOrder]
  /\ idem = [c \in Cids |-> FreshRow]
  /\ pc = [p \in Procs |-> [c \in Cids |-> "idle"]]
  /\ seen = [p \in Procs |-> [c \in Cids |-> "NONE"]]
  /\ outdated = {}
  /\ halted = [p \in Procs |-> FALSE]
  /\ wire = {}
  /\ facts = [c \in Cids |-> {}]
  /\ venue = [c \in Cids |-> [status |-> "NONE", filled |-> 0]]
  /\ now = 0
  /\ sends = [c \in Cids |-> 0]
  /\ crashes = 0

-----------------------------------------------------------------------------
(* Helpers.                                                                *)

Exists(c) == orders[c] # NoOrder
StatusOf(c) == IF Exists(c) THEN orders[c].status ELSE "NONE"

\* leg_guard: process p holds no other operation on the leg of c.
LegFree(p, c) == \A d \in Cids : Leg[d] = Leg[c] => pc[p][d] = "idle"

UnknownOnLeg(l) ==
  \E d \in Cids : Leg[d] = l /\ StatusOf(d) = "UNKNOWN"

Go(p, c, phase) == pc' = [pc EXCEPT ![p][c] = phase]

\* store.put: the row now differs from what other processes last read.
Put(p, c, o) ==
  /\ orders' = [orders EXCEPT ![c] = o]
  /\ outdated' = (outdated \ {<<p, c>>}) \cup
                 {<<q, c>> : q \in {r \in Procs \ {p} :
                                      pc[r][c] # "idle" /\ o # orders[c]}}

\* The stored order is read again and kept.
Reread(p, c) == UNCHANGED orders /\ outdated' = outdated \ {<<p, c>>}

NoPut == UNCHANGED <<orders, outdated>>

\* _transition inside an operation: the local clock stamps it.
Move(p, c, status) ==
  /\ CanMove(orders[c], status, now)
  /\ Put(p, c, Moved(orders[c], status, now))

\* idempotency.release: only one's own unfinished reservation is deleted.
Release(p, c) ==
  idem' = IF idem[c].state = "IN_FLIGHT" /\ idem[c].owner = p
            THEN [idem EXCEPT ![c] = FreshRow] ELSE idem

\* The except clause of _submit_locked: give the reservation back and raise.
Abandon(p, c) ==
  /\ Go(p, c, "idle")
  /\ seen' = [seen EXCEPT ![p][c] = "NONE"]
  /\ Release(p, c)
  /\ UNCHANGED <<orders, outdated, halted, venueVars, now, sends, crashes>>

\* Raise out of an operation whose side effect has started.
Raise(p, c) ==
  /\ Go(p, c, "idle")
  /\ seen' = [seen EXCEPT ![p][c] = "NONE"]
  /\ UNCHANGED <<storeVars, outdated, halted, venueVars, now, sends, crashes>>

-----------------------------------------------------------------------------
(* submit                                                                  *)

\* Line 759: the record is looked up before the key is reserved.
BeginSubmit(p, c) ==
  /\ LegFree(p, c)
  /\ Go(p, c, "reserve")
  /\ seen' = [seen EXCEPT ![p][c] = StatusOf(c)]
  /\ outdated' = outdated \ {<<p, c>>}
  /\ UNCHANGED <<storeVars, halted, venueVars, now, sends, crashes>>

\* Mutant of Reservable: a reservation is never taken over.
ReservableOnce(c) == idem[c].state = "NONE"

\* No reservation, or an abandoned one whose lease has run out.
Reservable(c) ==
  \/ idem[c].state = "NONE"
  \/ idem[c].state = "IN_FLIGHT" /\ idem[c].expired

\* SqlExecutionIdempotencyStore.reserve, and what submit does with the answer.
Reserve(p, c) ==
  /\ pc[p][c] = "reserve"
  /\ \/ \* COMPLETED: replay the stored result; IN_FLIGHT: blocked
        /\ ~Reservable(c)
        /\ Go(p, c, "idle")
        /\ seen' = [seen EXCEPT ![p][c] = "NONE"]
        /\ UNCHANGED idem
     \/ /\ Reservable(c)
        /\ idem' = [idem EXCEPT ![c] = [state |-> "IN_FLIGHT", owner |-> p,
                                        expired |-> FALSE]]
        /\ Go(p, c, IF seen[p][c] = "NONE" THEN "admit" ELSE "replay")
        /\ UNCHANGED seen
  /\ UNCHANGED <<orders, outdated, halted, venueVars, now, sends, crashes>>

\* _recover_existing_execution up to the resolver call.
Replay(p, c) ==
  /\ pc[p][c] = "replay"
  /\ \/ /\ seen[p][c] \in {"PREPARED", "SUBMITTING"}
        /\ Move(p, c, "UNKNOWN")
        /\ Go(p, c, "recover")
     \/ /\ seen[p][c] \notin {"PREPARED", "SUBMITTING"}
        /\ Go(p, c, IF seen[p][c] = "UNKNOWN" THEN "recover" ELSE "settle")
        /\ UNCHANGED <<orders, outdated>>
  /\ UNCHANGED <<idem, seen, halted, venueVars, now, sends, crashes>>

ReplayFails(p, c) ==
  /\ pc[p][c] = "replay"
  /\ seen[p][c] \in {"PREPARED", "SUBMITTING"}
  /\ ~CanMove(orders[c], "UNKNOWN", now)
  /\ Abandon(p, c)

\* Mutant of Admitted: the UNKNOWN lock of the leg is not consulted.
AdmittedUnlocked(p, c) == c \in Reducing \/ ~halted[p]

\* The kill switch and the UNKNOWN lock of the leg let the intent through.
Admitted(p, c) ==
  c \in Reducing \/ (~halted[p] /\ ~UnknownOnLeg(Leg[c]))

\* Mutant of Admit: the store overwrites the record of another process.
AdmitOver(p, c) ==
  /\ pc[p][c] = "admit" /\ Admitted(p, c)
  /\ Put(p, c, [status |-> "PREPARED", filled |-> 0, approved |-> Qty,
               at |-> now, xid |-> FALSE])
  /\ Go(p, c, "mark")
  /\ UNCHANGED <<idem, seen, halted, venueVars, now, sends, crashes>>

\* The gates, the risk decision and the first durable record.  The store
\* refuses a first record when another process has written one.
Admit(p, c) ==
  /\ pc[p][c] = "admit"
  /\ Admitted(p, c) /\ ~Exists(c)
  /\ \/ /\ \E approved \in 1..Qty :
             Put(p, c, [status |-> "PREPARED", filled |-> 0,
                        approved |-> approved, at |-> now, xid |-> FALSE])
        /\ Go(p, c, "mark")
     \/ /\ Put(p, c, [status |-> "REJECTED", filled |-> 0, approved |-> 0,
                      at |-> now, xid |-> FALSE])
        /\ Go(p, c, "settle")
  /\ UNCHANGED <<idem, seen, halted, venueVars, now, sends, crashes>>

AdmitFails(p, c) ==
  /\ pc[p][c] = "admit"
  /\ ~Admitted(p, c) \/ Exists(c)
  /\ Abandon(p, c)

\* Mutant of Mark: SUBMITTING is not stored before the call.
MarkNothing(p, c) ==
  /\ pc[p][c] = "mark" /\ NoPut
  /\ Go(p, c, "send")
  /\ UNCHANGED <<idem, seen, halted, venueVars, now, sends, crashes>>

\* The order is stored as SUBMITTING before anything is sent.
Mark(p, c) ==
  /\ pc[p][c] = "mark"
  /\ Move(p, c, "SUBMITTING")
  /\ Go(p, c, "send")
  /\ UNCHANGED <<idem, seen, halted, venueVars, now, sends, crashes>>

MarkFails(p, c) ==
  /\ pc[p][c] = "mark"
  /\ ~CanMove(orders[c], "SUBMITTING", now)
  /\ Abandon(p, c)

\* The call of exchange.submit_order leaves the process.
Send(p, c) ==
  /\ pc[p][c] = "send"
  /\ Go(p, c, "sent")
  /\ wire' = wire \cup {c}
  /\ sends' = [sends EXCEPT ![c] = @ + 1]
  /\ UNCHANGED <<storeVars, seen, outdated, halted, facts, venue, now,
                 crashes>>

\* What a call of the venue may answer about c: a fact the venue reported, or
\* the same with a status the adapter does not know (Blurred).
Blurred(f) ==
  [status |-> "UNKNOWN", filled |-> f.filled, at |-> f.at, xid |-> f.xid]
Answers(c) == facts[c] \cup {Blurred(f) : f \in facts[c]}

\* _invalid_submission_ack / _invalid_cancel_ack up to the resolver call.
InvalidAck(p, c) ==
  \/ /\ orders[c].status \in TerminalStates
     /\ Reread(p, c) /\ Go(p, c, "complete")
  \/ /\ orders[c].status = "UNKNOWN"
     /\ Reread(p, c) /\ Go(p, c, "recover")
  \/ /\ orders[c].status \notin TerminalStates \cup {"UNKNOWN"}
     /\ IF CanMove(orders[c], "UNKNOWN", now)
          THEN Move(p, c, "UNKNOWN") /\ Go(p, c, "recover")
          ELSE NoPut /\ Go(p, c, "idle")

\* A snapshot answers a submit or a cancel call.
TakeAck(p, c, s) ==
  \/ /\ Refused(orders[c], s)
     /\ InvalidAck(p, c)
  \/ /\ ~Refused(orders[c], s)
     /\ Put(p, c, Applied(orders[c], s))
     /\ Go(p, c, IF Applied(orders[c], s).status = "UNKNOWN"
                   THEN "recover" ELSE "complete")

\* submit_order returned.
SubmitAcknowledged(p, c) ==
  /\ pc[p][c] = "sent"
  /\ \/ \E s \in Answers(c) : TakeAck(p, c, s)
     \/ InvalidAck(p, c)
  /\ UNCHANGED <<idem, seen, halted, venueVars, now, sends, crashes>>

\* DefinitiveSubmissionError, taken for what it promises: the venue refused the order, or
\* the adapter refused it before the request left.
SubmitRejected(p, c) ==
  /\ pc[p][c] = "sent"
  /\ \/ c \in wire
     \/ venue[c].status = "REFUSED"
  /\ wire' = wire \ {c}
  /\ IF CanMove(orders[c], "REJECTED", now)
       THEN Move(p, c, "REJECTED") /\ Go(p, c, "complete")
       ELSE NoPut /\ Go(p, c, "idle")
  /\ UNCHANGED <<idem, seen, halted, facts, venue, now, sends, crashes>>

\* Mutant of SubmitUncertain: a submit that timed out is sent again.
SubmitAgain(p, c) ==
  /\ pc[p][c] = "sent"
  /\ NoPut /\ Go(p, c, "send")
  /\ UNCHANGED <<idem, seen, halted, venueVars, now, sends, crashes>>

\* Any other exception, a timeout for one; the request may still arrive.
SubmitUncertain(p, c) ==
  /\ pc[p][c] = "sent"
  /\ IF CanMove(orders[c], "UNKNOWN", now)
       THEN Move(p, c, "UNKNOWN") /\ Go(p, c, "recover")
       ELSE NoPut /\ Go(p, c, "idle")
  /\ UNCHANGED <<idem, seen, halted, venueVars, now, sends, crashes>>

\* _recover_safely and the merge of what it found; whatever goes wrong the
\* order stays UNKNOWN and the result is settled.
Recover(p, c) ==
  /\ pc[p][c] = "recover"
  /\ \/ NoPut
     \/ \E s \in facts[c] :
          ~Refused(orders[c], s) /\ Put(p, c, Applied(orders[c], s))
  /\ Go(p, c, IF seen[p][c] = "NONE" THEN "complete" ELSE "settle")
  /\ UNCHANGED <<idem, seen, halted, venueVars, now, sends, crashes>>

\* idempotency.complete accepts the result held by p.
Completable(p, c) ==
  \/ idem[c].state = "COMPLETED"
  \/ /\ idem[c].state = "IN_FLIGHT"
     /\ idem[c].owner = p /\ ~idem[c].expired
     /\ <<p, c>> \notin outdated

\* The durable result and the reservation change together.  On an error a
\* submit that sent nothing gives its reservation back, the others raise.
Complete(p, c) ==
  /\ pc[p][c] \in {"settle", "complete"}
  /\ Go(p, c, "idle")
  /\ seen' = [seen EXCEPT ![p][c] = "NONE"]
  /\ IF Completable(p, c)
       THEN idem' = [idem EXCEPT ![c] = [state |-> "COMPLETED",
                                         owner |-> NoProc, expired |-> FALSE]]
       ELSE IF pc[p][c] = "settle" THEN Release(p, c) ELSE UNCHANGED idem
  /\ UNCHANGED <<orders, outdated, halted, venueVars, now, sends, crashes>>

-----------------------------------------------------------------------------
(* cancel, refresh, resolve, user-stream events                            *)

BeginCancel(p, c) ==
  /\ LegFree(p, c) /\ Exists(c)
  /\ orders[c].status \notin TerminalStates
  /\ Go(p, c, "cancel_sent")
  /\ outdated' = outdated \ {<<p, c>>}
  /\ UNCHANGED <<storeVars, seen, halted, venueVars, now, sends, crashes>>

CancelAcknowledged(p, c) ==
  /\ pc[p][c] = "cancel_sent"
  /\ \/ \E s \in Answers(c) : TakeAck(p, c, s)
     \/ InvalidAck(p, c)
  /\ UNCHANGED <<idem, seen, halted, venueVars, now, sends, crashes>>

\* DefinitiveCancellationError: nothing was cancelled.
CancelRefused(p, c) ==
  /\ pc[p][c] = "cancel_sent"
  /\ Go(p, c, "idle")
  /\ UNCHANGED <<storeVars, seen, outdated, halted, venueVars, now, sends,
                 crashes>>

\* Mutant of CancelUncertain: a cancel that timed out is taken for done.
CancelAssumed(p, c) ==
  /\ pc[p][c] = "cancel_sent" /\ CanMove(orders[c], "CANCELED", now)
  /\ Move(p, c, "CANCELED") /\ Go(p, c, "complete")
  /\ UNCHANGED <<idem, seen, halted, venueVars, now, sends, crashes>>

\* Any other exception; the transition itself may raise out of the handler.
CancelUncertain(p, c) ==
  /\ pc[p][c] = "cancel_sent"
  /\ IF CanMove(orders[c], "UNKNOWN", now)
       THEN Move(p, c, "UNKNOWN") /\ Go(p, c, "cancel_recover")
       ELSE NoPut /\ Go(p, c, "idle")
  /\ UNCHANGED <<idem, seen, halted, venueVars, now, sends, crashes>>

\* The answer of the resolver is merged like the acknowledgement it replaces.
CancelRecover(p, c) ==
  /\ pc[p][c] = "cancel_recover"
  /\ \/ NoPut /\ Go(p, c, "complete")
     \/ \E s \in facts[c] : TakeAck(p, c, s)
  /\ UNCHANGED <<idem, seen, halted, venueVars, now, sends, crashes>>

\* apply_exchange_event, resolve_unknown and refresh_order: one fact is merged
\* under the leg lock.  Their refusals raise or return and store nothing.
AbsorbFact(p, c, s) ==
  /\ LegFree(p, c) /\ Exists(c)
  /\ ~Refused(orders[c], s)
  /\ Put(p, c, Applied(orders[c], s))
  /\ Go(p, c, "complete")
  /\ UNCHANGED <<idem, seen, halted, venueVars, now, sends, crashes>>

ApplyExchangeEvent(p, c) == \E s \in Answers(c) : AbsorbFact(p, c, s)

ResolveUnknown(p, c) ==
  /\ StatusOf(c) = "UNKNOWN"
  /\ \E s \in facts[c] : AbsorbFact(p, c, s)

RefreshOrder(p, c) ==
  /\ Exists(c) /\ orders[c].status \notin TerminalStates
  /\ \E s \in facts[c] : AbsorbFact(p, c, s)

-----------------------------------------------------------------------------
(* Failures, operator and clock                                            *)

\* A store transaction fails: nothing is written and the exception is raised.
StoreError(p, c) ==
  /\ pc[p][c] \notin {"idle", "send", "recover"}
  /\ IF pc[p][c] \in {"admit", "mark", "replay", "settle"}
       THEN Abandon(p, c)
       ELSE Raise(p, c)

\* The process dies and is restarted under a new owner id: its operations and
\* its kill switch are gone, its reservations belong to nobody alive.
Crash(p) ==
  /\ crashes < MaxCrashes /\ crashes' = crashes + 1
  /\ pc' = [pc EXCEPT ![p] = [c \in Cids |-> "idle"]]
  /\ seen' = [seen EXCEPT ![p] = [c \in Cids |-> "NONE"]]
  /\ outdated' = outdated \ ({p} \X Cids)
  /\ halted' = [halted EXCEPT ![p] = FALSE]
  /\ idem' = [c \in Cids |-> IF idem[c].owner = p
                               THEN [idem[c] EXCEPT !.owner = NoProc]
                               ELSE idem[c]]
  /\ UNCHANGED <<orders, venueVars, now, sends>>

\* The wall clock passes lease_expires_at of an unfinished reservation.
ReservationExpires(c) ==
  /\ idem[c].state = "IN_FLIGHT" /\ ~idem[c].expired
  /\ idem' = [idem EXCEPT ![c].expired = TRUE]
  /\ UNCHANGED <<orders, procVars, venueVars, now, sends, crashes>>

ActivateKillSwitch(p) ==
  /\ ~halted[p]
  /\ halted' = [halted EXCEPT ![p] = TRUE]
  /\ UNCHANGED <<storeVars, pc, seen, outdated, venueVars, now, sends,
                 crashes>>

DeactivateKillSwitch(p) ==
  /\ halted[p]
  /\ halted' = [halted EXCEPT ![p] = FALSE]
  /\ UNCHANGED <<storeVars, pc, seen, outdated, venueVars, now, sends,
                 crashes>>

Tick ==
  /\ now < MaxClock
  /\ now' = now + 1
  /\ UNCHANGED <<storeVars, procVars, venueVars, sends, crashes>>

-----------------------------------------------------------------------------
(* The venue, from how the adapters use it.                                *)

VenueUnchanged == UNCHANGED <<storeVars, procVars, now, sends, crashes>>

Report(c, status, filled) ==
  facts' = [facts EXCEPT ![c] =
              @ \cup {[status |-> status, filled |-> filled,
                       at |-> now + Skew, xid |-> TRUE]}]

VenueAccepts(c) ==
  /\ c \in wire /\ venue[c].status = "NONE"
  /\ wire' = wire \ {c}
  /\ venue' = [venue EXCEPT ![c].status = "NEW"]
  /\ Report(c, "ACKNOWLEDGED", 0)
  /\ VenueUnchanged

VenueRefuses(c) ==
  /\ c \in wire /\ venue[c].status = "NONE"
  /\ wire' = wire \ {c}
  /\ venue' = [venue EXCEPT ![c].status = "REFUSED"]
  /\ UNCHANGED facts
  /\ VenueUnchanged

RequestLost(c) ==
  /\ c \in wire /\ wire' = wire \ {c}
  /\ UNCHANGED <<facts, venue>>
  /\ VenueUnchanged

\* A fill, of an open order or reported late for a cancelled one, up to the
\* quantity the order was sent with.
VenueFills(c) ==
  /\ venue[c].status \in {"NEW", "PARTIAL", "CANCELED"}
  /\ Exists(c) /\ venue[c].filled < orders[c].approved
  /\ LET filled == venue[c].filled + 1
         status == IF filled = orders[c].approved THEN "FILLED"
                   ELSE IF venue[c].status = "CANCELED" THEN "CANCELED"
                   ELSE "PARTIAL"
     IN  /\ venue' = [venue EXCEPT ![c] = [status |-> status,
                                           filled |-> filled]]
         /\ Report(c, status, filled)
  /\ UNCHANGED wire
  /\ VenueUnchanged

\* At our request or by itself (expiry, liquidation): the venue may cancel at
\* any time, so cancel requests are not followed on the wire.
VenueCancels(c) ==
  /\ OpenAtVenue(c)
  /\ venue' = [venue EXCEPT ![c].status = "CANCELED"]
  /\ Report(c, "CANCELED", venue[c].filled)
  /\ UNCHANGED wire
  /\ VenueUnchanged

-----------------------------------------------------------------------------

Submitting(p, c) ==
  \/ BeginSubmit(p, c) \/ Reserve(p, c)
  \/ Replay(p, c) \/ ReplayFails(p, c)
  \/ Admit(p, c) \/ AdmitFails(p, c) \/ Mark(p, c) \/ MarkFails(p, c)
  \/ Send(p, c)
  \/ SubmitAcknowledged(p, c) \/ SubmitRejected(p, c) \/ SubmitUncertain(p, c)

Canceling(p, c) ==
  \/ BeginCancel(p, c) \/ CancelAcknowledged(p, c) \/ CancelRefused(p, c)
  \/ CancelUncertain(p, c) \/ CancelRecover(p, c)

Observing(p, c) ==
  \/ ApplyExchangeEvent(p, c) \/ ResolveUnknown(p, c) \/ RefreshOrder(p, c)

Operator(p) == Crash(p) \/ ActivateKillSwitch(p) \/ DeactivateKillSwitch(p)

Venue(c) ==
  \/ VenueAccepts(c) \/ VenueRefuses(c) \/ RequestLost(c)
  \/ VenueFills(c) \/ VenueCancels(c)

Next ==
  \/ \E p \in Procs, c \in Cids :
       \/ Submitting(p, c) \/ Canceling(p, c) \/ Observing(p, c)
       \/ Recover(p, c) \/ Complete(p, c) \/ StoreError(p, c)
  \/ \E p \in Procs : Operator(p)
  \/ \E c \in Cids : ReservationExpires(c) \/ Venue(c)
  \/ Tick

Spec == Init /\ [][Next]_vars

(* Fairness.  An operation that has begun takes its next step: the code has *)
(* no wait without a timeout.                                               *)
Step(p, c) ==
  \/ Reserve(p, c) \/ Replay(p, c) \/ ReplayFails(p, c)
  \/ Admit(p, c) \/ AdmitFails(p, c) \/ Mark(p, c) \/ MarkFails(p, c)
  \/ Send(p, c)
  \/ SubmitAcknowledged(p, c) \/ SubmitRejected(p, c) \/ SubmitUncertain(p, c)
  \/ CancelAcknowledged(p, c) \/ CancelRefused(p, c)
  \/ CancelUncertain(p, c) \/ CancelRecover(p, c)
  \/ Recover(p, c) \/ Complete(p, c)

\* A refresh or resolution that gets the venue's present answer.
RefreshLatest(p, c) ==
  /\ Exists(c) /\ orders[c].status \notin TerminalStates
  /\ \E s \in facts[c] :
       /\ s.status = venue[c].status /\ s.filled = venue[c].filled
       /\ AbsorbFact(p, c, s)

\* What has begun goes on.
LiveSpec == Spec /\ \A p \in Procs, c \in Cids : WF_vars(Step(p, c))

\* recover_pending of the main loop queries every unfinished order again and
\* again, and the venue does not fail every time.
OrdersAreRefreshed == \A p \in Procs, c \in Cids : SF_vars(RefreshLatest(p, c))

\* A caller that repeats the same submit until it is answered; the database
\* does not refuse the reservation every time, and wall time passes.
SubmitsAreRepeated ==
  /\ \A p \in Procs, c \in Cids : SF_vars(BeginSubmit(p, c)) /\ SF_vars(Reserve(p, c))
  /\ \A c \in Cids : WF_vars(ReservationExpires(c))

-----------------------------------------------------------------------------
(* Safety.                                                                 *)

\* Work past the first record, and every replay, has a record to work on: no
\* path deletes one (InvalidAck, _transition and complete rely on it).
RecordsPrecedeWork ==
  \A p \in Procs, c \in Cids :
    seen[p][c] # "NONE" \/ pc[p][c] \notin {"idle", "reserve", "admit"} =>
      Exists(c)

\* An order is on its way to the wire in one process at most, and only while
\* it has never been there; what was sent is on record.
OneSender ==
  \A c \in Cids :
    /\ sends[c] > 0 => Exists(c)
    /\ \A p \in Procs :
         pc[p][c] \in {"mark", "send"} =>
           /\ sends[c] = 0
           /\ \A q \in Procs \ {p} : pc[q][c] \notin {"mark", "send"}

\* No order is ever sent twice: not by a replay, a restart, an expired
\* reservation taken over by another worker, or a race of two workers.
AtMostOneSubmission == \A c \in Cids : sends[c] <= 1

\* An order the store calls finished is neither open at the venue nor on its
\* way there, whatever order the facts arrived in.
FinishedIsNotOpen ==
  \A c \in Cids :
    StatusOf(c) \in TerminalStates =>
      ~OpenAtVenue(c) /\ c \notin wire

\* The store never claims a fill the venue did not make.
FillsAreReal ==
  \A c \in Cids : Exists(c) => orders[c].filled <= venue[c].filled

\* A request that reached the wire or the venue has a durable record that
\* says at least SUBMITTING.
NothingSentUnrecorded ==
  \A c \in Cids :
    c \in wire \/ venue[c].status # "NONE" =>
      Exists(c) /\ orders[c].status # "PREPARED"

\* A settled reservation points at a record whose outcome is known or locked
\* as UNKNOWN; it never settles an order still on its way out.
SettledIsClassified ==
  \A c \in Cids :
    idem[c].state = "COMPLETED" =>
      Exists(c) /\ orders[c].status \notin {"PREPARED", "SUBMITTING"}

\* A stored order moves forward only: fills and time never go back, a
\* finished order only absorbs late fills, and the record never disappears.
Ahead(old, new) ==
  /\ old.filled <= new.filled
  /\ old.at <= new.at
  /\ old.status \in {"FILLED", "REJECTED"} => new = old
  /\ old.status = "CANCELED" => new.status \in {"CANCELED", "FILLED"}

OrdersMoveForward ==
  [][\A c \in Cids :
       Exists(c) => Exists(c)' /\ Ahead(orders[c], orders'[c])]_vars

\* New risk leaves for the venue only while no order of its leg is UNKNOWN.
UnknownLocksLeg ==
  [][\A c \in Cids \ Reducing :
       sends'[c] # sends[c] => ~UnknownOnLeg(Leg[c])]_vars

\* A cancel call that fails with anything but a definitive refusal leaves the
\* order locked as UNKNOWN until a fact resolves it (service.py, cancel: the
\* except clause).
UncertainCancelLocks ==
  [][\A p \in Procs, c \in Cids :
       CancelUncertain(p, c) => orders'[c].status = "UNKNOWN"]_vars

-----------------------------------------------------------------------------
(* The promise kept: the abstract view of the service and its venue.       *)

Book(c) ==
  IF ~Exists(c) THEN "none"
  ELSE IF orders[c].status \in {"PREPARED", "SUBMITTING"} THEN "due"
  ELSE IF orders[c].status = "UNKNOWN" THEN "unsure"
  ELSE IF orders[c].status \in TerminalStates THEN "done" ELSE "live"

Market(c) ==
  IF OpenAtVenue(c) THEN "open"
  ELSE IF venue[c].status \in {"FILLED", "CANCELED"} THEN "closed"
  ELSE IF c \in wire THEN "coming"
  ELSE IF sends[c] = 0 THEN "away" ELSE "gone"

Promise == INSTANCE OrderPromise WITH
  Orders <- Cids,
  Lots <- Qty,
  book <- [c \in Cids |-> Book(c)],
  known <- [c \in Cids |-> IF Exists(c) THEN orders[c].filled ELSE 0],
  market <- [c \in Cids |-> Market(c)],
  real <- [c \in Cids |-> venue[c].filled]

\* Every step of the service, of its failures and of the venue is a step of
\* the promise or none: the submit, cancel, replay, refresh and event paths
\* together never break it.
KeepsPromise == Promise!Spec

-----------------------------------------------------------------------------
(* Liveness.                                                               *)

FinishedAtVenue(c) == venue[c].status \in {"FILLED", "CANCELED"}

\* The local clock has stamped the order later than the venue's last word: everything the
\* venue has said is dropped as outdated.
LockedOut(c) ==
  /\ StatusOf(c) \in {"ACKNOWLEDGED", "PARTIAL"}
  /\ \A s \in facts[c] : SameFact(orders[c], s) \/ Outdated(orders[c], s)

\* With refreshes, an order the venue has finished with is eventually recorded as finished,
\* from the states the acknowledgement and the UNKNOWN lock leave it in, unless its own
\* stamp has locked the news out.
FinishIsLearned ==
  OrdersAreRefreshed =>
    \A c \in Cids :
      StatusOf(c) \in {"ACKNOWLEDGED", "PARTIAL", "UNKNOWN"} /\ FinishedAtVenue(c)
      ~> StatusOf(c) \in TerminalStates \/ LockedOut(c)

\* The same from the state a crash right after the send leaves it in.
FinishIsLearnedAfterCrash ==
  OrdersAreRefreshed =>
    \A c \in Cids :
      StatusOf(c) = "SUBMITTING" /\ FinishedAtVenue(c)
      ~> StatusOf(c) \in TerminalStates

\* A refresh that is answered with the venue's present state of a finished order merges it
\* (refresh_order: "Query current exchange state and merge it").
RefreshMergesTheEnd ==
  [][\A p \in Procs, c \in Cids :
       /\ StatusOf(c) \in {"ACKNOWLEDGED", "PARTIAL", "UNKNOWN"} /\ FinishedAtVenue(c)
       /\ RefreshLatest(p, c)
       => orders'[c].status \in TerminalStates]_vars

\* With a caller that repeats its submit, no idempotency key stays in flight for
\* ever, whoever reserved it and died.
NoKeyStuck ==
  SubmitsAreRepeated =>
    \A c \in Cids :
      idem[c].state = "IN_FLIGHT" ~> idem[c].state # "IN_FLIGHT"
=============================================================================
