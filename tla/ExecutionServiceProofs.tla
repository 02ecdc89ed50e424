----------------------- MODULE ExecutionServiceProofs -----------------------
(***************************************************************************)
(* Proofs about ExecutionService, for every set of processes and orders    *)
(* and every quantity, clock skew and bound.                               *)
(***************************************************************************)
EXTENDS ExecutionService, TLAPS

-----------------------------------------------------------------------------
(* The lifecycle operators.                                                *)

\* A local transition keeps the shape of an order.
LEMMA MovedType ==
  ASSUME NEW o \in Orders, NEW s \in Statuses, NEW t \in Times
  PROVE  Moved(o, s, t) \in Orders
BY DEF Moved, Advance, Orders

\* A blurred fact is a fact.
LEMMA BlurredType ==
  ASSUME NEW f \in Facts
  PROVE  Blurred(f) \in Facts
BY DEF Blurred, Facts, ExternalStates, Statuses

\* A fact merged into an order leaves an order behind.
LEMMA AppliedType ==
  ASSUME NEW o \in Orders, NEW s \in Facts
  PROVE  Applied(o, s) \in Orders
<1>1. /\ s.status \in Statuses /\ s.filled \in 0..Qty
      /\ s.at \in VenueTimes /\ s.xid \in BOOLEAN
  BY DEF Facts, ExternalStates, Statuses
<1>2. Reported(o, s) \in Statuses
  BY <1>1 DEF Reported, Statuses
<1>3. OccurredAt(o, s) \in Times \cup VenueTimes
  BY <1>1 DEF OccurredAt, Orders
<1>4. Advance(o, Reported(o, s), s.filled, OccurredAt(o, s), s.xid) \in Orders
  BY <1>1, <1>2, <1>3 DEF Advance, Orders
<1> QED
  BY <1>4 DEF Applied

\* A local transition moves an order forward.
LEMMA MovedAhead ==
  ASSUME NEW o \in Orders, NEW s \in Statuses, NEW t \in Times, CanMove(o, s, t)
  PROVE  Ahead(o, Moved(o, s, t))
BY DEF CanMove, Moved, Advance, CanTransition, BuildsFact, AllowedTransitions,
       Ahead, Orders, Statuses

\* So does a fact that is not refused, stale or not.
LEMMA AppliedAhead ==
  ASSUME NEW o \in Orders, NEW s \in Facts, ~Refused(o, s)
  PROVE  Ahead(o, Applied(o, s))
<1> DEFINE new == Advance(o, Reported(o, s), s.filled, OccurredAt(o, s), s.xid)
<1>0. Ahead(o, o)
  BY ConstantsAssumption DEF Ahead, Orders, Times, VenueTimes
<1>1. CASE SameFact(o, s) \/ Outdated(o, s) \/ ~Absorbable(o, s)
  BY <1>0, <1>1 DEF Applied
<1>2. CASE ~(SameFact(o, s) \/ Outdated(o, s) \/ ~Absorbable(o, s))
  <2>1. Applied(o, s) = new
    BY <1>2 DEF Applied
  <2>2. CASE o.status \in TerminalStates
    <3>1. CanReconcile(o, Reported(o, s), s.filled, OccurredAt(o, s))
      BY <1>2, <2>2 DEF Absorbable
    <3> QED
      BY <2>1, <3>1 DEF CanReconcile, BuildsFact, Ahead, Advance
  <2>3. CASE o.status \notin TerminalStates
    <3>1. CanTransition(o, Reported(o, s), s.filled, OccurredAt(o, s))
      BY <1>2, <2>3 DEF Absorbable
    <3> QED
      BY <2>1, <2>3, <3>1
      DEF CanTransition, BuildsFact, Ahead, Advance, TerminalStates
  <2> QED
    BY <2>2, <2>3
<1> QED
  BY <1>1, <1>2

-----------------------------------------------------------------------------
(* The pieces the actions are made of.                                     *)

\* Inv is inductive: TypeOK alone is not, since an operation on an order that
\* is not on record would store nonsense.
Inv == TypeOK /\ RecordsPrecedeWork /\ OneSender /\ AtMostOneSubmission

Row == [state : {"NONE", "IN_FLIGHT", "COMPLETED"},
        owner : Procs \cup {NoProc}, expired : BOOLEAN]

LEMMA GoType ==
  ASSUME TypeOK, NEW p \in Procs, NEW c \in Cids, NEW ph \in Phases, Go(p, c, ph)
  PROVE  /\ pc' \in [Procs -> [Cids -> Phases]]
         /\ pc'[p][c] = ph
         /\ \A q \in Procs, d \in Cids :
              q # p \/ d # c => pc'[q][d] = pc[q][d]
BY DEF TypeOK, Go

\* What every step does to the order store.
StoreForward ==
  /\ orders' \in [Cids -> Orders \cup {NoOrder}]
  /\ outdated' \subseteq Procs \X Cids
  /\ \A d \in Cids : Exists(d) => Exists(d)' /\ Ahead(orders[d], orders'[d])

LEMMA KeptForward ==
  ASSUME TypeOK, UNCHANGED orders, outdated' \subseteq Procs \X Cids
  PROVE  StoreForward
BY ConstantsAssumption
   DEF TypeOK, StoreForward, Exists, Ahead, Orders, Times, VenueTimes

LEMMA PutForward ==
  ASSUME TypeOK, NEW p \in Procs, NEW c \in Cids, NEW o \in Orders,
         Put(p, c, o), Exists(c) => Ahead(orders[c], o)
  PROVE  StoreForward /\ Exists(c)'
<1>1. \A d \in Cids : Exists(d) => Ahead(orders[d], orders[d])
  BY ConstantsAssumption DEF TypeOK, Exists, Ahead, Orders, Times, VenueTimes
<1> QED
  BY <1>1, NoOrderAssumption DEF TypeOK, Put, StoreForward, Exists

\* A local transition of a recorded order.
LEMMA MoveForward ==
  ASSUME TypeOK, NEW p \in Procs, NEW c \in Cids, Exists(c),
         NEW status \in Statuses, Move(p, c, status)
  PROVE  StoreForward /\ Exists(c)'
<1> DEFINE new == Moved(orders[c], status, now)
<1>1. orders[c] \in Orders /\ now \in Times
  BY DEF TypeOK, Exists
<1>2. CanMove(orders[c], status, now) /\ Put(p, c, new)
  BY DEF Move
<1>3. new \in Orders /\ Ahead(orders[c], new)
  BY <1>1, <1>2, MovedType, MovedAhead
<1> QED
  BY <1>2, <1>3, PutForward

\* A fact merged into a recorded order.
LEMMA MergeForward ==
  ASSUME TypeOK, NEW p \in Procs, NEW c \in Cids, Exists(c), NEW s \in Facts,
         ~Refused(orders[c], s), Put(p, c, Applied(orders[c], s))
  PROVE  StoreForward /\ Exists(c)'
<1> DEFINE new == Applied(orders[c], s)
<1>1. orders[c] \in Orders
  BY DEF TypeOK, Exists
<1>2. new \in Orders /\ Ahead(orders[c], new)
  BY <1>1, AppliedType, AppliedAhead
<1> QED
  BY <1>2, PutForward

LEMMA AnswersType ==
  ASSUME TypeOK, NEW c \in Cids
  PROVE  Answers(c) \subseteq Facts
BY BlurredType DEF TypeOK, Answers

\* The phases in which an operation is not about to send.
Quiet == Phases \ {"mark", "send"}

\* A step of an operation that has a record to work on and sends nothing.
OperationStep(p, c) ==
  /\ StoreForward /\ Exists(c)'
  /\ \E ph \in Quiet : Go(p, c, ph)

LEMMA InvalidAckStep ==
  ASSUME TypeOK, NEW p \in Procs, NEW c \in Cids, Exists(c), InvalidAck(p, c)
  PROVE  OperationStep(p, c)
<1>1. {"complete", "recover", "idle"} \subseteq Quiet
  BY DEF Quiet, Phases
<1>2. CASE Move(p, c, "UNKNOWN") /\ Go(p, c, "recover")
  BY <1>1, <1>2, MoveForward DEF OperationStep, Statuses
<1>3. CASE NoPut /\ Go(p, c, "idle")
  <2>1. UNCHANGED orders /\ outdated' \subseteq Procs \X Cids
    BY <1>3 DEF NoPut, TypeOK
  <2> QED
    BY <1>1, <1>3, <2>1, KeptForward DEF OperationStep, Exists
<1>4. CASE Reread(p, c) /\ (Go(p, c, "complete") \/ Go(p, c, "recover"))
  <2>1. UNCHANGED orders /\ outdated' \subseteq Procs \X Cids
    BY <1>4 DEF Reread, TypeOK
  <2> QED
    BY <1>1, <1>4, <2>1, KeptForward DEF OperationStep, Exists
<1> QED
  BY <1>2, <1>3, <1>4 DEF InvalidAck

LEMMA TakeAckStep ==
  ASSUME TypeOK, NEW p \in Procs, NEW c \in Cids, Exists(c), NEW s \in Facts,
         TakeAck(p, c, s)
  PROVE  OperationStep(p, c)
<1>1. CASE Refused(orders[c], s)
  BY <1>1, InvalidAckStep DEF TakeAck
<1>2. CASE ~Refused(orders[c], s)
  <2>1. StoreForward /\ Exists(c)'
    BY <1>2, MergeForward DEF TakeAck
  <2>2. Go(p, c, "recover") \/ Go(p, c, "complete")
    BY <1>2 DEF TakeAck
  <2> QED
    BY <2>1, <2>2 DEF OperationStep, Quiet, Phases
<1> QED
  BY <1>1, <1>2

-----------------------------------------------------------------------------
(* One step preserves the invariant.                                       *)

SeenType == [Procs -> [Cids -> Statuses \cup {"NONE"}]]

\* Any step of one operation that does not bring it to the point of sending.
LEMMA QuietStep ==
  ASSUME Inv, NEW p \in Procs, NEW c \in Cids, StoreForward,
         NEW ph \in Quiet, Go(p, c, ph),
         Exists(c)' \/ ph \in {"idle", "reserve", "admit"},
         seen' \in SeenType,
         \A q \in Procs, d \in Cids :
           seen'[q][d] # "NONE" => seen[q][d] # "NONE" \/ Exists(d),
         idem' \in [Cids -> Row], wire' \subseteq Cids,
         UNCHANGED <<halted, facts, venue, now, sends, crashes>>
  PROVE  Inv'
<1>1. /\ pc' \in [Procs -> [Cids -> Phases]]
      /\ pc'[p][c] = ph
      /\ \A q \in Procs, d \in Cids : q # p \/ d # c => pc'[q][d] = pc[q][d]
  BY GoType DEF Inv, Quiet
<1>2. TypeOK'
  BY <1>1 DEF Inv, TypeOK, StoreForward, SeenType, Row
<1>3. RecordsPrecedeWork'
  BY <1>1 DEF Inv, RecordsPrecedeWork, StoreForward, Quiet
<1>4. OneSender'
  BY <1>1 DEF Inv, OneSender, StoreForward, Quiet
<1> QED
  BY <1>2, <1>3, <1>4 DEF Inv, AtMostOneSubmission

\* A quiet step that leaves reservation, wire and replay marker alone.
LEMMA PlainStep ==
  ASSUME Inv, NEW p \in Procs, NEW c \in Cids, OperationStep(p, c),
         UNCHANGED <<idem, seen, halted, wire, facts, venue, now, sends, crashes>>
  PROVE  Inv' /\ StoreForward
<1>1. PICK ph \in Quiet : Go(p, c, ph)
  BY DEF OperationStep
<1>2. StoreForward /\ Exists(c)'
  BY DEF OperationStep
<1>3. seen' \in SeenType /\ idem' \in [Cids -> Row] /\ wire' \subseteq Cids
  BY DEF Inv, TypeOK, SeenType, Row
<1>4. \A q \in Procs, d \in Cids : seen'[q][d] # "NONE" => seen[q][d] # "NONE"
  OBVIOUS
<1> QED
  BY <1>1, <1>2, <1>3, <1>4, QuietStep

\* A quiet step that stores nothing and gives up or keeps the reservation.
LEMMA KeepingStep ==
  ASSUME Inv, NEW p \in Procs, NEW c \in Cids, NEW ph \in Quiet, Go(p, c, ph),
         Exists(c) \/ ph \in {"idle", "reserve", "admit"},
         UNCHANGED <<orders, halted, wire, facts, venue, now, sends, crashes>>,
         outdated' \subseteq outdated,
         seen' = seen \/ seen' = [seen EXCEPT ![p][c] = "NONE"]
                     \/ seen' = [seen EXCEPT ![p][c] = StatusOf(c)],
         idem' \in [Cids -> Row]
  PROVE  Inv' /\ StoreForward
<1>1. StoreForward
  BY KeptForward DEF Inv, TypeOK
<1>2. StatusOf(c) \in Statuses \cup {"NONE"}
  BY DEF Inv, TypeOK, StatusOf, Exists, Orders
<1>3. seen' \in SeenType
  <2>0. seen \in SeenType
    BY DEF Inv, TypeOK, SeenType
  <2>1. CASE seen' = seen
    BY <2>0, <2>1
  <2>2. CASE seen' = [seen EXCEPT ![p][c] = "NONE"]
    BY <2>0, <2>2 DEF SeenType
  <2>3. CASE seen' = [seen EXCEPT ![p][c] = StatusOf(c)]
    BY <1>2, <2>0, <2>3 DEF SeenType
  <2> QED
    BY <2>1, <2>2, <2>3
<1>4. \A q \in Procs, d \in Cids :
        seen'[q][d] # "NONE" => seen[q][d] # "NONE" \/ Exists(d)
  <2>0. seen \in SeenType
    BY DEF Inv, TypeOK, SeenType
  <2>1. CASE seen' = seen
    BY <2>1
  <2>2. CASE seen' = [seen EXCEPT ![p][c] = "NONE"]
    BY <2>0, <2>2 DEF SeenType
  <2>3. CASE seen' = [seen EXCEPT ![p][c] = StatusOf(c)]
    BY <2>0, <2>3 DEF SeenType, StatusOf
  <2> QED
    BY <2>1, <2>2, <2>3
<1>5. wire' \subseteq Cids /\ (Exists(c) => Exists(c)')
  BY DEF Inv, TypeOK, Exists
<1> QED
  BY <1>1, <1>3, <1>4, <1>5, QuietStep

LEMMA ReleaseType ==
  ASSUME TypeOK, NEW p \in Procs, NEW c \in Cids, Release(p, c)
  PROVE  idem' \in [Cids -> Row]
BY DEF TypeOK, Release, Row, FreshRow

\* Every phase but the sending ones is quiet.
LEMMA QuietPhases ==
  {"idle", "reserve", "admit", "replay", "sent", "cancel_sent", "recover",
   "cancel_recover", "settle", "complete"} \subseteq Quiet
BY DEF Quiet, Phases

LEMMA AbandonStep ==
  ASSUME Inv, NEW p \in Procs, NEW c \in Cids, Abandon(p, c)
  PROVE  Inv' /\ StoreForward
<1>1. idem' \in [Cids -> Row]
  BY ReleaseType DEF Abandon, Inv
<1> QED
  BY <1>1, KeepingStep, QuietPhases DEF Abandon, venueVars

LEMMA RaiseStep ==
  ASSUME Inv, NEW p \in Procs, NEW c \in Cids, Raise(p, c)
  PROVE  Inv' /\ StoreForward
<1>1. idem' \in [Cids -> Row]
  BY DEF Raise, Inv, TypeOK, Row, storeVars
<1> QED
  BY <1>1, KeepingStep, QuietPhases DEF Raise, venueVars, storeVars

\* The steps of submit up to the call of the venue.
LEMMA SubmitStep ==
  ASSUME Inv, NEW p \in Procs, NEW c \in Cids,
         \/ BeginSubmit(p, c) \/ Reserve(p, c) \/ Replay(p, c)
         \/ Admit(p, c) \/ Mark(p, c) \/ Send(p, c)
  PROVE  Inv' /\ StoreForward
<1> USE DEF venueVars, storeVars
<1>1. CASE BeginSubmit(p, c)
  <2>1. idem' \in [Cids -> Row]
    BY <1>1 DEF BeginSubmit, Inv, TypeOK, Row
  <2> QED
    BY <1>1, <2>1, KeepingStep, QuietPhases DEF BeginSubmit
<1>2. CASE Reserve(p, c)
  <2>1. idem' \in [Cids -> Row]
    <3>1. idem \in [Cids -> Row]
      BY DEF Inv, TypeOK, Row
    <3>2. [state |-> "IN_FLIGHT", owner |-> p, expired |-> FALSE] \in Row
      BY DEF Row
    <3>3. \/ UNCHANGED idem
          \/ idem' = [idem EXCEPT ![c] = [state |-> "IN_FLIGHT", owner |-> p,
                                          expired |-> FALSE]]
      BY <1>2 DEF Reserve
    <3> QED
      BY <3>1, <3>2, <3>3
  <2>2. \E ph \in {"idle", "admit", "replay"} :
          Go(p, c, ph) /\ (ph = "replay" => seen[p][c] # "NONE")
    BY <1>2 DEF Reserve
  <2>3. seen[p][c] # "NONE" => Exists(c)
    BY DEF Inv, RecordsPrecedeWork
  <2>4. seen' = seen \/ seen' = [seen EXCEPT ![p][c] = "NONE"]
    BY <1>2 DEF Reserve
  <2> QED
    BY <1>2, <2>1, <2>2, <2>3, <2>4, KeepingStep, QuietPhases DEF Reserve
<1>3. CASE Replay(p, c)
  <2>1. Exists(c)
    BY <1>3 DEF Replay, Inv, RecordsPrecedeWork
  <2>2. CASE Move(p, c, "UNKNOWN") /\ Go(p, c, "recover")
    <3>1. OperationStep(p, c)
      BY <2>1, <2>2, MoveForward, QuietPhases DEF OperationStep, Statuses, Inv
    <3> QED
      BY <1>3, <3>1, PlainStep DEF Replay
  <2>3. CASE UNCHANGED <<orders, outdated>> /\ \E ph \in Quiet : Go(p, c, ph)
    <3>1. OperationStep(p, c)
      BY <2>1, <2>3, KeptForward DEF OperationStep, Exists, Inv, TypeOK
    <3> QED
      BY <1>3, <3>1, PlainStep DEF Replay
  <2> QED
    BY <1>3, <2>2, <2>3, QuietPhases DEF Replay
<1>4. CASE Admit(p, c)
  <2>1. ~Exists(c) /\ now \in Times
    BY <1>4 DEF Admit, Inv, TypeOK
  <2>2. CASE /\ Put(p, c, [status |-> "REJECTED", filled |-> 0, approved |-> 0,
                           at |-> now, xid |-> FALSE])
             /\ Go(p, c, "settle")
    <3>1. [status |-> "REJECTED", filled |-> 0, approved |-> 0,
           at |-> now, xid |-> FALSE] \in Orders
      BY <2>1, ConstantsAssumption DEF Orders, Statuses
    <3>2. StoreForward /\ Exists(c)'
      BY <2>1, <2>2, <3>1, PutForward DEF Inv
    <3> QED
      BY <1>4, <2>2, <3>2, PlainStep, QuietPhases DEF Admit, OperationStep
  <2>3. CASE /\ \E approved \in 1..Qty :
                  Put(p, c, [status |-> "PREPARED", filled |-> 0,
                             approved |-> approved, at |-> now, xid |-> FALSE])
             /\ Go(p, c, "mark")
    <3>1. PICK approved \in 1..Qty :
            Put(p, c, [status |-> "PREPARED", filled |-> 0,
                       approved |-> approved, at |-> now, xid |-> FALSE])
      BY <2>3
    <3>2. [status |-> "PREPARED", filled |-> 0, approved |-> approved,
           at |-> now, xid |-> FALSE] \in Orders
      BY <2>1, ConstantsAssumption DEF Orders, Statuses
    <3>3. StoreForward /\ Exists(c)'
      BY <2>1, <3>1, <3>2, PutForward DEF Inv
    <3>4. /\ pc' \in [Procs -> [Cids -> Phases]]
          /\ pc'[p][c] = "mark"
          /\ \A q \in Procs, d \in Cids :
               q # p \/ d # c => pc'[q][d] = pc[q][d]
      BY <2>3, GoType DEF Phases, Inv
    <3>5. UNCHANGED <<idem, seen, halted, wire, facts, venue, now, sends, crashes>>
      BY <1>4 DEF Admit
    <3>6. TypeOK'
      BY <3>3, <3>4, <3>5 DEF Inv, TypeOK, StoreForward
    <3>7. RecordsPrecedeWork'
      BY <3>3, <3>4, <3>5 DEF Inv, RecordsPrecedeWork, StoreForward
    <3>8. sends[c] = 0 /\ \A q \in Procs : pc[q][c] \notin {"mark", "send"}
      <4>1. sends[c] \in Nat /\ ~(sends[c] > 0)
        BY <2>1 DEF Inv, TypeOK, OneSender
      <4>2. \A q \in Procs : pc[q][c] \in {"idle", "reserve", "admit"}
        BY <2>1 DEF Inv, RecordsPrecedeWork
      <4> QED
        BY <4>1, <4>2
    <3>9. OneSender'
      BY <3>3, <3>4, <3>5, <3>8 DEF Inv, OneSender, StoreForward
    <3> QED
      BY <3>3, <3>5, <3>6, <3>7, <3>9 DEF Inv, AtMostOneSubmission
  <2> QED
    BY <1>4, <2>2, <2>3 DEF Admit
<1>5. CASE Mark(p, c)
  <2>1. Exists(c)
    BY <1>5 DEF Mark, Inv, RecordsPrecedeWork
  <2>2. StoreForward /\ Exists(c)'
    BY <1>5, <2>1, MoveForward DEF Mark, Statuses, Inv
  <2>3. /\ pc' \in [Procs -> [Cids -> Phases]]
        /\ pc'[p][c] = "send"
        /\ \A q \in Procs, d \in Cids :
             q # p \/ d # c => pc'[q][d] = pc[q][d]
    BY <1>5, GoType DEF Mark, Phases, Inv
  <2>4. /\ pc[p][c] = "mark"
        /\ UNCHANGED <<idem, seen, halted, wire, facts, venue, now, sends, crashes>>
    BY <1>5 DEF Mark
  <2>5. TypeOK'
    BY <2>2, <2>3, <2>4 DEF Inv, TypeOK, StoreForward
  <2>6. RecordsPrecedeWork'
    BY <2>2, <2>3, <2>4 DEF Inv, RecordsPrecedeWork, StoreForward
  <2>7. OneSender'
    BY <2>2, <2>3, <2>4 DEF Inv, OneSender, StoreForward
  <2> QED
    BY <2>2, <2>4, <2>5, <2>6, <2>7 DEF Inv, AtMostOneSubmission
<1>6. CASE Send(p, c)
  <2>1. /\ pc' \in [Procs -> [Cids -> Phases]]
        /\ pc'[p][c] = "sent"
        /\ \A q \in Procs, d \in Cids :
             q # p \/ d # c => pc'[q][d] = pc[q][d]
    BY <1>6, GoType DEF Send, Phases, Inv
  <2>2. /\ pc[p][c] = "send" /\ wire' = wire \cup {c}
        /\ sends' = [sends EXCEPT ![c] = @ + 1]
        /\ UNCHANGED <<orders, idem, seen, outdated, halted, facts, venue, now,
                       crashes>>
    BY <1>6 DEF Send
  <2>3. StoreForward
    BY <2>2, KeptForward DEF Inv, TypeOK
  <2>4. TypeOK'
    BY <2>1, <2>2 DEF Inv, TypeOK
  <2>5. RecordsPrecedeWork'
    BY <2>1, <2>2 DEF Inv, RecordsPrecedeWork, Exists
  <2>6. /\ Exists(c)
        /\ \A q \in Procs \ {p} : pc[q][c] \notin {"mark", "send"}
    BY <2>2 DEF Inv, OneSender, RecordsPrecedeWork
  <2>7. \A d \in Cids \ {c} : sends'[d] = sends[d]
    BY <2>2 DEF Inv, TypeOK
  <2>8. OneSender'
    BY <2>1, <2>2, <2>6, <2>7 DEF Inv, OneSender, Exists
  <2>9. AtMostOneSubmission'
    <3>1. sends[c] = 0 /\ sends' \in [Cids -> Nat]
      BY <2>2, <2>4 DEF Inv, OneSender, TypeOK
    <3>2. sends'[c] = 1
      BY <2>2, <3>1 DEF Inv, TypeOK
    <3> QED
      BY <2>7, <3>2 DEF Inv, AtMostOneSubmission
  <2> QED
    BY <2>3, <2>4, <2>5, <2>8, <2>9 DEF Inv
<1> QED
  BY <1>1, <1>2, <1>3, <1>4, <1>5, <1>6

\* A local transition, or none when it is not allowed.
LEMMA MoveOrQuitStep ==
  ASSUME Inv, NEW p \in Procs, NEW c \in Cids, Exists(c), NEW status \in Statuses,
         NEW ph \in Quiet,
         \/ Move(p, c, status) /\ Go(p, c, ph)
         \/ NoPut /\ Go(p, c, "idle")
  PROVE  OperationStep(p, c)
<1>1. CASE Move(p, c, status) /\ Go(p, c, ph)
  BY <1>1, MoveForward DEF OperationStep, Inv
<1>2. CASE NoPut /\ Go(p, c, "idle")
  <2>1. UNCHANGED orders /\ outdated' \subseteq Procs \X Cids
    BY <1>2 DEF NoPut, Inv, TypeOK
  <2> QED
    BY <1>2, <2>1, KeptForward, QuietPhases DEF OperationStep, Exists, Inv
<1> QED
  BY <1>1, <1>2

\* The answers to submit and cancel calls, and the resolver's.
LEMMA AnswerStep ==
  ASSUME Inv, NEW p \in Procs, NEW c \in Cids,
         \/ SubmitAcknowledged(p, c) \/ SubmitRejected(p, c)
         \/ SubmitUncertain(p, c) \/ Recover(p, c)
         \/ CancelAcknowledged(p, c) \/ CancelUncertain(p, c)
         \/ CancelRecover(p, c)
  PROVE  Inv' /\ StoreForward
<1> USE DEF venueVars, storeVars
<1>0. Exists(c)
  BY DEF SubmitAcknowledged, SubmitRejected, SubmitUncertain, Recover,
         CancelAcknowledged, CancelUncertain, CancelRecover, Inv,
         RecordsPrecedeWork
<1>1. TypeOK /\ Answers(c) \subseteq Facts /\ facts[c] \subseteq Facts
  BY AnswersType DEF Inv, TypeOK
<1>2. CASE SubmitAcknowledged(p, c)
  <2>1. OperationStep(p, c)
    BY <1>0, <1>1, <1>2, TakeAckStep, InvalidAckStep DEF SubmitAcknowledged
  <2> QED
    BY <1>2, <2>1, PlainStep DEF SubmitAcknowledged
<1>3. CASE CancelAcknowledged(p, c)
  <2>1. OperationStep(p, c)
    BY <1>0, <1>1, <1>3, TakeAckStep, InvalidAckStep DEF CancelAcknowledged
  <2> QED
    BY <1>3, <2>1, PlainStep DEF CancelAcknowledged
<1>4. CASE SubmitRejected(p, c)
  <2>1. OperationStep(p, c)
    BY <1>0, <1>4, MoveOrQuitStep, QuietPhases DEF SubmitRejected, Statuses
  <2>2. PICK ph \in Quiet : Go(p, c, ph)
    BY <2>1 DEF OperationStep
  <2>3. seen' \in SeenType /\ idem' \in [Cids -> Row] /\ wire' \subseteq Cids
    BY <1>4 DEF SubmitRejected, Inv, TypeOK, SeenType, Row
  <2>4. /\ UNCHANGED <<halted, facts, venue, now, sends, crashes>>
        /\ \A q \in Procs, d \in Cids :
             seen'[q][d] # "NONE" => seen[q][d] # "NONE" \/ Exists(d)
    BY <1>4 DEF SubmitRejected
  <2> QED
    BY <2>1, <2>2, <2>3, <2>4, QuietStep DEF OperationStep
<1>5. CASE SubmitUncertain(p, c)
  <2>1. OperationStep(p, c)
    BY <1>0, <1>5, MoveOrQuitStep, QuietPhases DEF SubmitUncertain, Statuses
  <2> QED
    BY <1>5, <2>1, PlainStep DEF SubmitUncertain
<1>6. CASE CancelUncertain(p, c)
  <2>1. OperationStep(p, c)
    BY <1>0, <1>6, MoveOrQuitStep, QuietPhases DEF CancelUncertain, Statuses
  <2> QED
    BY <1>6, <2>1, PlainStep DEF CancelUncertain
<1>7. CASE Recover(p, c)
  <2>1. CASE NoPut
    <3>1. UNCHANGED orders /\ outdated' \subseteq Procs \X Cids
      BY <2>1 DEF NoPut, Inv, TypeOK
    <3>2. OperationStep(p, c)
      BY <1>0, <1>7, <3>1, KeptForward, QuietPhases
      DEF Recover, OperationStep, Exists, Inv
    <3> QED
      BY <1>7, <3>2, PlainStep DEF Recover
  <2>2. CASE \E s \in facts[c] :
               ~Refused(orders[c], s) /\ Put(p, c, Applied(orders[c], s))
    <3>1. StoreForward /\ Exists(c)'
      BY <1>0, <1>1, <2>2, MergeForward
    <3>2. OperationStep(p, c)
      BY <1>7, <3>1, QuietPhases DEF Recover, OperationStep
    <3> QED
      BY <1>7, <3>2, PlainStep DEF Recover
  <2> QED
    BY <1>7, <2>1, <2>2 DEF Recover
<1>8. CASE CancelRecover(p, c)
  <2>1. CASE NoPut /\ Go(p, c, "complete")
    <3>1. UNCHANGED orders /\ outdated' \subseteq Procs \X Cids
      BY <2>1 DEF NoPut, Inv, TypeOK
    <3> QED
      BY <1>0, <1>8, <2>1, <3>1, KeptForward, PlainStep, QuietPhases
      DEF CancelRecover, OperationStep, Exists, Inv
  <2>2. CASE \E s \in facts[c] : TakeAck(p, c, s)
    <3>1. OperationStep(p, c)
      BY <1>0, <1>1, <2>2, TakeAckStep
    <3> QED
      BY <1>8, <3>1, PlainStep DEF CancelRecover
  <2> QED
    BY <1>8, <2>1, <2>2 DEF CancelRecover
<1> QED
  BY <1>2, <1>3, <1>4, <1>5, <1>6, <1>7, <1>8

\* Completion, the beginning and refusal of a cancel, and errors.
LEMMA EndingStep ==
  ASSUME Inv, NEW p \in Procs, NEW c \in Cids,
         \/ Complete(p, c) \/ BeginCancel(p, c) \/ CancelRefused(p, c)
         \/ ReplayFails(p, c) \/ AdmitFails(p, c) \/ MarkFails(p, c)
         \/ StoreError(p, c)
  PROVE  Inv' /\ StoreForward
<1> USE DEF venueVars, storeVars
<1>1. CASE Complete(p, c)
  <2>1. idem' \in [Cids -> Row]
    <3>1. idem \in [Cids -> Row]
      BY DEF Inv, TypeOK, Row
    <3>2. [state |-> "COMPLETED", owner |-> NoProc, expired |-> FALSE] \in Row
      BY DEF Row
    <3>3. Inv => TypeOK
      BY DEF Inv
    <3> QED
      BY <1>1, <3>1, <3>2, <3>3, ReleaseType DEF Complete
  <2> QED
    BY <1>1, <2>1, KeepingStep, QuietPhases DEF Complete
<1>2. CASE BeginCancel(p, c)
  <2>1. idem' \in [Cids -> Row]
    BY <1>2 DEF BeginCancel, Inv, TypeOK, Row
  <2> QED
    BY <1>2, <2>1, KeepingStep, QuietPhases DEF BeginCancel
<1>3. CASE CancelRefused(p, c)
  <2>1. idem' \in [Cids -> Row]
    BY <1>3 DEF CancelRefused, Inv, TypeOK, Row
  <2> QED
    BY <1>3, <2>1, KeepingStep, QuietPhases DEF CancelRefused
<1>4. CASE Abandon(p, c) \/ Raise(p, c)
  BY <1>4, AbandonStep, RaiseStep
<1> QED
  BY <1>1, <1>2, <1>3, <1>4 DEF ReplayFails, AdmitFails, MarkFails, StoreError

\* A refresh, a resolution or an event.
LEMMA AbsorbStep ==
  ASSUME Inv, NEW p \in Procs, NEW c \in Cids, Observing(p, c)
  PROVE  Inv' /\ StoreForward
<1>1. Answers(c) \subseteq Facts /\ facts[c] \subseteq Facts
  BY AnswersType DEF Inv, TypeOK
<1>2. PICK s \in Facts : AbsorbFact(p, c, s)
  BY <1>1 DEF Observing, ApplyExchangeEvent, ResolveUnknown, RefreshOrder
<1>3. StoreForward /\ Exists(c)'
  BY <1>2, MergeForward DEF AbsorbFact, Inv
<1>4. OperationStep(p, c)
  BY <1>2, <1>3, QuietPhases DEF AbsorbFact, OperationStep
<1> QED
  BY <1>2, <1>4, PlainStep DEF AbsorbFact, venueVars

\* A step of the surroundings: no record and no operation moves on, except
\* that a crash forgets the operations of a process.
LEMMA OutsideStep ==
  ASSUME Inv,
         \/ \E p \in Procs : Operator(p)
         \/ \E c \in Cids : ReservationExpires(c) \/ Venue(c)
         \/ Tick
  PROVE  Inv' /\ StoreForward
<1> USE DEF venueVars, storeVars, procVars
<1>1. UNCHANGED <<orders, sends>> /\ outdated' \subseteq outdated
  BY DEF Operator, Crash, ActivateKillSwitch, DeactivateKillSwitch,
         ReservationExpires, Venue, VenueAccepts, VenueRefuses, RequestLost,
         VenueFills, VenueCancels, VenueUnchanged, Tick
<1>2. StoreForward
  BY <1>1, KeptForward DEF Inv, TypeOK
<1>3. \/ UNCHANGED <<pc, seen>>
      \/ \E p \in Procs :
           /\ pc' = [pc EXCEPT ![p] = [c \in Cids |-> "idle"]]
           /\ seen' = [seen EXCEPT ![p] = [c \in Cids |-> "NONE"]]
  BY DEF Operator, Crash, ActivateKillSwitch, DeactivateKillSwitch,
         ReservationExpires, Venue, VenueAccepts, VenueRefuses, RequestLost,
         VenueFills, VenueCancels, VenueUnchanged, Tick
<1>4. /\ pc' \in [Procs -> [Cids -> Phases]] /\ seen' \in SeenType
      /\ \A p \in Procs, c \in Cids :
           /\ pc'[p][c] = pc[p][c] \/ pc'[p][c] = "idle"
           /\ seen'[p][c] = seen[p][c] \/ seen'[p][c] = "NONE"
  <2>1. pc \in [Procs -> [Cids -> Phases]] /\ seen \in SeenType
    BY DEF Inv, TypeOK, SeenType
  <2>2. CASE UNCHANGED <<pc, seen>>
    BY <2>1, <2>2
  <2>3. ASSUME NEW p \in Procs,
               pc' = [pc EXCEPT ![p] = [c \in Cids |-> "idle"]],
               seen' = [seen EXCEPT ![p] = [c \in Cids |-> "NONE"]]
        PROVE  /\ pc' \in [Procs -> [Cids -> Phases]] /\ seen' \in SeenType
               /\ \A q \in Procs, c \in Cids :
                    /\ pc'[q][c] = pc[q][c] \/ pc'[q][c] = "idle"
                    /\ seen'[q][c] = seen[q][c] \/ seen'[q][c] = "NONE"
    BY <2>1, <2>3 DEF Phases, SeenType
  <2> QED
    BY <1>3, <2>2, <2>3
<1>5. RecordsPrecedeWork'
  BY <1>1, <1>4 DEF Inv, RecordsPrecedeWork, Exists
<1>6. OneSender'
  BY <1>1, <1>4 DEF Inv, OneSender, Exists
<1>7. TypeOK'
  <2>1. CASE \E p \in Procs : Crash(p)
    <3>1. PICK p \in Procs : Crash(p)
      BY <2>1
    <3>2. \A c \in Cids : idem[c] \in Row
      BY DEF Inv, TypeOK, Row
    <3>3. \A c \in Cids : [idem[c] EXCEPT !.owner = NoProc] \in Row
      BY <3>2 DEF Row
    <3>4. idem' \in [Cids -> Row]
      BY <3>1, <3>2, <3>3 DEF Crash
    <3>5. halted' \in [Procs -> BOOLEAN] /\ crashes' \in 0..MaxCrashes
      BY <3>1, ConstantsAssumption DEF Crash, Inv, TypeOK
    <3>6. UNCHANGED <<orders, wire, facts, venue, now, sends>>
      BY <3>1 DEF Crash
    <3> QED
      BY <1>1, <1>4, <3>4, <3>5, <3>6 DEF Inv, TypeOK, SeenType, Row
  <2>2. CASE \E p \in Procs : ActivateKillSwitch(p) \/ DeactivateKillSwitch(p)
    BY <2>2 DEF ActivateKillSwitch, DeactivateKillSwitch, Inv, TypeOK
  <2>3. CASE \E c \in Cids : ReservationExpires(c)
    <3>1. PICK c \in Cids : ReservationExpires(c)
      BY <2>3
    <3>2. idem \in [Cids -> Row]
      BY DEF Inv, TypeOK, Row
    <3>3. [idem[c] EXCEPT !.expired = TRUE] \in Row
      BY <3>2 DEF Row
    <3>4. idem' \in [Cids -> Row]
      BY <3>1, <3>2, <3>3 DEF ReservationExpires
    <3> QED
      BY <3>1, <3>4 DEF ReservationExpires, Inv, TypeOK, Row
  <2>4. CASE Tick
    BY <2>4, ConstantsAssumption DEF Tick, Inv, TypeOK, Times
  <2>5. ASSUME NEW c \in Cids, NEW st \in ExternalStates, NEW f \in 0..Qty,
               Report(c, st, f)
        PROVE  facts' \in [Cids -> SUBSET Facts]
    <3>1. [status |-> st, filled |-> f, at |-> now + Skew, xid |-> TRUE] \in Facts
      BY ConstantsAssumption DEF Inv, TypeOK, Facts, Times, VenueTimes
    <3> QED
      BY <2>5, <3>1 DEF Report, Inv, TypeOK
  <2>6. ASSUME NEW c \in Cids, Venue(c)
        PROVE  TypeOK'
    <3>0. venue[c].filled \in 0..Qty
      BY DEF Inv, TypeOK
    <3>1. CASE VenueAccepts(c)
      <4>1. facts' \in [Cids -> SUBSET Facts]
        BY <2>5, <3>1, ConstantsAssumption
        DEF VenueAccepts, ExternalStates, Statuses
      <4> QED
        BY <3>1, <4>1
        DEF VenueAccepts, VenueUnchanged, Inv, TypeOK, VenueStates
    <3>2. CASE VenueRefuses(c)
      BY <3>2 DEF VenueRefuses, VenueUnchanged, Inv, TypeOK, VenueStates
    <3>3. CASE RequestLost(c)
      BY <3>3 DEF RequestLost, VenueUnchanged, Inv, TypeOK
    <3>4. CASE VenueCancels(c)
      <4>1. facts' \in [Cids -> SUBSET Facts]
        BY <2>5, <3>0, <3>4 DEF VenueCancels, ExternalStates, Statuses
      <4> QED
        BY <3>4, <4>1
        DEF VenueCancels, VenueUnchanged, Inv, TypeOK, VenueStates
    <3>5. CASE VenueFills(c)
      <4>1. orders[c].approved \in 0..Qty
        BY <3>5 DEF VenueFills, Inv, TypeOK, Exists, Orders
      <4>2. PICK st \in {"FILLED", "CANCELED", "PARTIAL"} :
              /\ venue' = [venue EXCEPT ![c] =
                             [status |-> st, filled |-> venue[c].filled + 1]]
              /\ Report(c, st, venue[c].filled + 1)
        BY <3>5 DEF VenueFills
      <4>3. venue[c].filled + 1 \in 0..Qty
        BY <3>0, <3>5, <4>1, ConstantsAssumption DEF VenueFills
      <4>4. facts' \in [Cids -> SUBSET Facts]
        BY <2>5, <4>2, <4>3 DEF ExternalStates, Statuses
      <4>5. venue' \in [Cids -> [status : VenueStates, filled : 0..Qty]]
        <5>1. [status |-> st, filled |-> venue[c].filled + 1]
                \in [status : VenueStates, filled : 0..Qty]
          BY <4>3 DEF VenueStates
        <5> QED
          BY <4>2, <5>1 DEF Inv, TypeOK
      <4> QED
        BY <3>5, <4>4, <4>5 DEF VenueFills, VenueUnchanged, Inv, TypeOK
    <3> QED
      BY <2>6, <3>1, <3>2, <3>3, <3>4, <3>5 DEF Venue
  <2> QED
    BY <2>1, <2>2, <2>3, <2>4, <2>6 DEF Operator
<1> QED
  BY <1>1, <1>2, <1>5, <1>6, <1>7 DEF Inv, AtMostOneSubmission

LEMMA NextStep ==
  ASSUME Inv, Next
  PROVE  Inv' /\ StoreForward
BY SubmitStep, AnswerStep, EndingStep, AbsorbStep, OutsideStep
   DEF Next, Submitting, Canceling

LEMMA InitInv == Init => Inv
BY ConstantsAssumption
   DEF Init, Inv, TypeOK, RecordsPrecedeWork, OneSender, AtMostOneSubmission,
       Exists, FreshRow, Phases, VenueStates, Times

-----------------------------------------------------------------------------
(* The theorems.                                                           *)

\* Every reachable state of the service is well formed, every operation in
\* progress has its record, and one process at most is about to send an order.
THEOREM InvHolds == Spec => []Inv
<1>1. Inv /\ [Next]_vars => Inv'
  <2>1. ASSUME Inv, UNCHANGED vars
        PROVE  Inv'
    BY <2>1 DEF vars, storeVars, procVars, venueVars, Inv, TypeOK,
                RecordsPrecedeWork, OneSender, AtMostOneSubmission, Exists
  <2> QED
    BY <2>1, NextStep
<1> QED
  BY <1>1, InitInv, PTL DEF Spec

\* The state of the service and of the venue keeps its type.
THEOREM TypeCorrect == Spec => []TypeOK
BY InvHolds, PTL DEF Inv

\* Replays, crashes, expired reservations taken over and races of any number
\* of workers never send an order twice.
THEOREM SubmittedOnce == Spec => []AtMostOneSubmission
BY InvHolds, PTL DEF Inv

\* One process at most is between reserving an order and sending it, also when
\* its reservation has expired and another process has taken it over.
THEOREM SendersAreAlone == Spec => []OneSender
BY InvHolds, PTL DEF Inv

\* No snapshot, event, cancel, replay or recovery moves a stored order back:
\* fills and time never shrink, a finished order only absorbs late fills.
THEOREM OrdersOnlyAdvance == Spec => OrdersMoveForward
<1> DEFINE Forward ==
      \A c \in Cids : Exists(c) => Exists(c)' /\ Ahead(orders[c], orders'[c])
<1>1. Inv /\ [Next]_vars => [Forward]_vars
  BY NextStep DEF StoreForward
<1> QED
  BY <1>1, InvHolds, PTL DEF Spec, OrdersMoveForward

-----------------------------------------------------------------------------
(* The order store and the venue agree: no fill is invented, and nothing   *)
(* is sent without a record.                                               *)

\* The quantity of o is already known for order d: none, the stored one or
\* one the venue reported.
Backed(d, o) ==
  \/ o.filled = 0
  \/ Exists(d) /\ o.filled = orders[d].filled
  \/ \E s \in facts[d] : o.filled = s.filled

\* Order o does not fall back to PREPARED.
Started(d, o) ==
  Exists(d) /\ orders[d].status # "PREPARED" => o.status # "PREPARED"

\* What every step does to the order store.
StoreBacked ==
  \A d \in Cids : Exists(d)' => Backed(d, orders'[d]) /\ Started(d, orders'[d])

-----------------------------------------------------------------------------
(* The ways an order is written.                                           *)

LEMMA KeptBacked ==
  ASSUME UNCHANGED orders
  PROVE  StoreBacked
BY DEF StoreBacked, Backed, Started, Exists

LEMMA PutBacked ==
  ASSUME TypeOK, NEW p \in Procs, NEW c \in Cids, NEW o, Put(p, c, o),
         Backed(c, o), Started(c, o)
  PROVE  StoreBacked
<1>1. orders'[c] = o /\ \A d \in Cids \ {c} : orders'[d] = orders[d]
  BY DEF Put, TypeOK
<1> QED
  BY <1>1 DEF StoreBacked, Backed, Started, Exists

LEMMA MoveBacked ==
  ASSUME TypeOK, NEW p \in Procs, NEW c \in Cids, Exists(c),
         NEW status \in Statuses \ {"PREPARED"}, Move(p, c, status)
  PROVE  StoreBacked
<1> DEFINE new == Moved(orders[c], status, now)
<1>1. Backed(c, new) /\ Started(c, new)
  BY DEF Moved, Advance, Backed, Started
<1>2. Put(p, c, new)
  BY DEF Move
<1> QED
  BY <1>1, <1>2, PutBacked

\* A fact carries its own quantity or none.
LEMMA AppliedBacked ==
  ASSUME TypeOK, NEW c \in Cids, Exists(c), NEW s \in Answers(c)
  PROVE  Backed(c, Applied(orders[c], s)) /\ Started(c, Applied(orders[c], s))
<1>1. PICK f \in facts[c] : s.filled = f.filled
  BY DEF Answers, Blurred
<1>2. s \in Facts
  BY AnswersType
<1>3. Reported(orders[c], s) # "PREPARED"
  BY <1>2 DEF Reported, Facts, ExternalStates
<1> QED
  BY <1>1, <1>3 DEF Applied, Advance, Backed, Started

LEMMA MergeBacked ==
  ASSUME TypeOK, NEW p \in Procs, NEW c \in Cids, Exists(c),
         NEW s \in Answers(c), Put(p, c, Applied(orders[c], s))
  PROVE  StoreBacked
BY AppliedBacked, PutBacked

LEMMA InvalidAckBacked ==
  ASSUME TypeOK, NEW p \in Procs, NEW c \in Cids, Exists(c), InvalidAck(p, c)
  PROVE  StoreBacked
<1>1. Move(p, c, "UNKNOWN") \/ UNCHANGED orders
  BY DEF InvalidAck, Reread, NoPut
<1> QED
  BY <1>1, MoveBacked, KeptBacked DEF Statuses

LEMMA TakeAckBacked ==
  ASSUME TypeOK, NEW p \in Procs, NEW c \in Cids, Exists(c),
         NEW s \in Answers(c), TakeAck(p, c, s)
  PROVE  StoreBacked
BY InvalidAckBacked, MergeBacked DEF TakeAck

-----------------------------------------------------------------------------
(* The steps of the service.                                               *)

\* An operation's step writes what is known, and tells the venue nothing but
\* the request it sends.
LEMMA ServiceStepBacked ==
  ASSUME Inv, NEW p \in Procs, NEW c \in Cids,
         \/ Submitting(p, c) \/ Canceling(p, c) \/ Observing(p, c)
         \/ Recover(p, c) \/ Complete(p, c) \/ StoreError(p, c)
  PROVE  StoreBacked /\ UNCHANGED <<facts, venue>>
<1> USE DEF venueVars, storeVars
<1>0. TypeOK /\ facts[c] \subseteq Answers(c)
  BY DEF Inv, Answers
<1>1. CASE \/ BeginSubmit(p, c) \/ Reserve(p, c) \/ Send(p, c)
           \/ BeginCancel(p, c) \/ CancelRefused(p, c) \/ Complete(p, c)
           \/ Abandon(p, c) \/ Raise(p, c)
  BY <1>1, KeptBacked
  DEF BeginSubmit, Reserve, Send, BeginCancel, CancelRefused, Complete,
      Abandon, Raise
<1>2. CASE Replay(p, c)
  <2>1. Exists(c)
    BY <1>2 DEF Replay, Inv, RecordsPrecedeWork
  <2>2. Move(p, c, "UNKNOWN") \/ UNCHANGED orders
    BY <1>2 DEF Replay
  <2> QED
    BY <1>0, <1>2, <2>1, <2>2, MoveBacked, KeptBacked DEF Replay, Statuses
<1>3. CASE Admit(p, c)
  <2>1. ~Exists(c) /\ UNCHANGED <<facts, venue>>
    BY <1>3 DEF Admit
  <2>2. \E o : Put(p, c, o) /\ o.filled = 0
    <3>1. CASE Put(p, c, [status |-> "REJECTED", filled |-> 0, approved |-> 0,
                          at |-> now, xid |-> FALSE])
      BY <3>1
    <3>2. ASSUME NEW approved \in 1..Qty,
                 Put(p, c, [status |-> "PREPARED", filled |-> 0,
                            approved |-> approved, at |-> now, xid |-> FALSE])
          PROVE  \E o : Put(p, c, o) /\ o.filled = 0
      BY <3>2
    <3> QED
      BY <1>3, <3>1, <3>2 DEF Admit
  <2> QED
    BY <1>0, <2>1, <2>2, PutBacked DEF Backed, Started
<1>4. CASE Mark(p, c)
  <2>1. Exists(c)
    BY <1>4 DEF Mark, Inv, RecordsPrecedeWork
  <2> QED
    BY <1>0, <1>4, <2>1, MoveBacked DEF Mark, Statuses
<1>5. CASE \/ SubmitAcknowledged(p, c) \/ CancelAcknowledged(p, c)
           \/ CancelRecover(p, c)
  <2>1. Exists(c)
    BY <1>5 DEF SubmitAcknowledged, CancelAcknowledged, CancelRecover, Inv,
                RecordsPrecedeWork
  <2>2. \/ \E s \in Answers(c) : TakeAck(p, c, s)
        \/ InvalidAck(p, c)
        \/ UNCHANGED orders
    BY <1>0, <1>5 DEF SubmitAcknowledged, CancelAcknowledged, CancelRecover,
                      NoPut
  <2> QED
    BY <1>0, <1>5, <2>1, <2>2, TakeAckBacked, InvalidAckBacked, KeptBacked
    DEF SubmitAcknowledged, CancelAcknowledged, CancelRecover
<1>6. CASE SubmitRejected(p, c) \/ SubmitUncertain(p, c) \/ CancelUncertain(p, c)
  <2>1. Exists(c)
    BY <1>6 DEF SubmitRejected, SubmitUncertain, CancelUncertain, Inv,
                RecordsPrecedeWork
  <2>2. \/ Move(p, c, "REJECTED") \/ Move(p, c, "UNKNOWN")
        \/ UNCHANGED orders
    BY <1>6 DEF SubmitRejected, SubmitUncertain, CancelUncertain, NoPut
  <2> QED
    BY <1>0, <1>6, <2>1, <2>2, MoveBacked, KeptBacked
    DEF SubmitRejected, SubmitUncertain, CancelUncertain, Statuses
<1>7. CASE Recover(p, c)
  <2>1. Exists(c)
    BY <1>7 DEF Recover, Inv, RecordsPrecedeWork
  <2>2. \/ \E s \in Answers(c) : Put(p, c, Applied(orders[c], s))
        \/ UNCHANGED orders
    BY <1>0, <1>7 DEF Recover, NoPut
  <2> QED
    BY <1>0, <1>7, <2>1, <2>2, MergeBacked, KeptBacked DEF Recover
<1>8. CASE Observing(p, c)
  <2>1. \E s \in Answers(c) : AbsorbFact(p, c, s)
    BY <1>0, <1>8
    DEF Observing, ApplyExchangeEvent, ResolveUnknown, RefreshOrder
  <2> QED
    BY <1>0, <2>1, MergeBacked DEF AbsorbFact
<1> QED
  BY <1>1, <1>2, <1>3, <1>4, <1>5, <1>6, <1>7, <1>8
  DEF Submitting, Canceling, ReplayFails, AdmitFails, MarkFails, StoreError

\* An operation about to send is the one that marked the order, and only such
\* an operation puts a request on the wire.
LEMMA ServiceStepSends ==
  ASSUME Inv, NEW p \in Procs, NEW c \in Cids,
         \/ Submitting(p, c) \/ Canceling(p, c) \/ Observing(p, c)
         \/ Recover(p, c) \/ Complete(p, c) \/ StoreError(p, c)
  PROVE  /\ wire' \subseteq wire \cup {d \in Cids : pc[p][d] = "send"}
         /\ \A q \in Procs, d \in Cids :
              pc'[q][d] = "send" =>
                \/ pc[q][d] = "send"
                \/ Exists(d)' /\ orders'[d].status = "SUBMITTING"
<1> USE DEF venueVars, storeVars
<1>1. CASE Mark(p, c)
  <2>1. Exists(c) /\ orders[c] \in Orders
    BY <1>1 DEF Mark, Inv, TypeOK, RecordsPrecedeWork, Exists
  <2>2. orders'[c] = Moved(orders[c], "SUBMITTING", now)
    BY <1>1 DEF Mark, Move, Put, Inv, TypeOK
  <2>3. Exists(c)'
    BY <1>1, <2>1, MoveForward DEF Mark, Inv, Statuses
  <2> QED
    BY <1>1, <2>2, <2>3 DEF Mark, Go, Moved, Advance, Inv, TypeOK
<1>2. CASE Send(p, c)
  BY <1>2 DEF Send, Go, Inv, TypeOK
<1>3. ASSUME NEW ph \in Quiet \cup {"mark"}, Go(p, c, ph)
      PROVE  \A q \in Procs, d \in Cids :
               pc'[q][d] = "send" => pc[q][d] = "send"
  BY <1>3 DEF Go, Quiet, Inv, TypeOK
<1>4. CASE Admit(p, c)
  <2>1. Go(p, c, "mark") \/ Go(p, c, "settle")
    BY <1>4 DEF Admit
  <2> QED
    BY <1>3, <1>4, <2>1, QuietPhases DEF Admit
<1>5. CASE \/ BeginSubmit(p, c) \/ Reserve(p, c) \/ Replay(p, c)
           \/ Abandon(p, c) \/ Raise(p, c) \/ Complete(p, c)
           \/ BeginCancel(p, c) \/ CancelRefused(p, c) \/ Recover(p, c)
           \/ SubmitRejected(p, c) \/ SubmitUncertain(p, c)
           \/ CancelUncertain(p, c)
  <2>1. wire' \subseteq wire
    BY <1>5
    DEF BeginSubmit, Reserve, Replay, Abandon, Raise, Complete, BeginCancel,
        CancelRefused, Recover, SubmitRejected, SubmitUncertain, CancelUncertain
  <2>2. \E ph \in Quiet : Go(p, c, ph)
    BY <1>5, QuietPhases
    DEF BeginSubmit, Reserve, Replay, Abandon, Raise, Complete, BeginCancel,
        CancelRefused, Recover, SubmitRejected, SubmitUncertain, CancelUncertain
  <2> QED
    BY <1>3, <2>1, <2>2
<1>6. CASE \/ SubmitAcknowledged(p, c) \/ CancelAcknowledged(p, c)
           \/ CancelRecover(p, c) \/ Observing(p, c)
  <2>1. wire' = wire
    BY <1>6
    DEF SubmitAcknowledged, CancelAcknowledged, CancelRecover, Observing,
        ApplyExchangeEvent, ResolveUnknown, RefreshOrder, AbsorbFact
  <2>2. \E ph \in Quiet : Go(p, c, ph)
    BY <1>6, QuietPhases
    DEF SubmitAcknowledged, CancelAcknowledged, CancelRecover, Observing,
        ApplyExchangeEvent, ResolveUnknown, RefreshOrder, AbsorbFact,
        TakeAck, InvalidAck
  <2> QED
    BY <1>3, <2>1, <2>2
<1> QED
  BY <1>1, <1>2, <1>4, <1>5, <1>6
  DEF Submitting, Canceling, ReplayFails, AdmitFails, MarkFails, StoreError

-----------------------------------------------------------------------------
(* The venue.                                                              *)

\* The venue's reports are of fills it made; what it works on was sent.
FactsReal ==
  \A c \in Cids : \A s \in facts[c] : s.filled <= venue[c].filled

SentRecorded ==
  \A c \in Cids :
    (\/ c \in wire \/ venue[c].status # "NONE"
     \/ \E p \in Procs : pc[p][c] = "send")
      => Exists(c) /\ orders[c].status # "PREPARED"

\* FillsAreReal and NothingSentUnrecorded are not inductive: a merge takes its
\* quantity from a report, and a request leaves after its record was written.
Agreement == FactsReal /\ FillsAreReal /\ SentRecorded

\* No step of the venue takes a fill back.
LEMMA VenueStep ==
  ASSUME Inv, Agreement, NEW c \in Cids, Venue(c)
  PROVE  /\ FactsReal'
         /\ \A d \in Cids : venue[d].filled <= venue'[d].filled
         /\ \A d \in Cids :
              d \in wire' \/ venue'[d].status # "NONE" =>
                d \in wire \/ venue[d].status # "NONE"
         /\ UNCHANGED <<orders, pc>>
<1> USE DEF VenueUnchanged, storeVars, procVars
<1>0. /\ \A d \in Cids : venue[d].filled \in Nat
      /\ \A d \in Cids : \A s \in facts[d] : s.filled \in Nat
  <2>1. \A d \in Cids : venue[d].filled \in 0..Qty
    BY DEF Inv, TypeOK
  <2>2. \A d \in Cids : \A s \in facts[d] : s \in Facts
    BY DEF Inv, TypeOK
  <2>3. 0..Qty \subseteq Nat
    BY ConstantsAssumption
  <2>4. \A s \in Facts : s.filled \in 0..Qty
    BY DEF Facts
  <2> QED
    BY <2>1, <2>2, <2>3, <2>4
<1>1. ASSUME NEW status, NEW filled \in Nat, Report(c, status, filled),
             venue[c].filled <= filled, NEW st,
             venue' = [venue EXCEPT ![c] = [status |-> st, filled |-> filled]]
      PROVE  /\ FactsReal'
             /\ \A d \in Cids : venue[d].filled <= venue'[d].filled
  BY <1>0, <1>1 DEF Report, Agreement, FactsReal, Inv, TypeOK
<1>2. CASE VenueAccepts(c)
  <2>1. venue' = [venue EXCEPT ![c].status = "NEW"]
    BY <1>2 DEF VenueAccepts
  <2>2. /\ venue' \in [Cids -> [status : VenueStates, filled : 0..Qty]]
        /\ \A d \in Cids : venue'[d].filled = venue[d].filled
    BY <1>0, <2>1 DEF Inv, TypeOK, VenueStates
  <2>3. FactsReal'
    BY <1>0, <1>2, <2>2 DEF VenueAccepts, Report, Agreement, FactsReal, Inv, TypeOK
  <2> QED
    BY <1>0, <1>2, <2>2, <2>3 DEF VenueAccepts, Inv, TypeOK
<1>3. CASE VenueRefuses(c)
  <2>1. \A d \in Cids : venue'[d].filled = venue[d].filled
    BY <1>0, <1>3 DEF VenueRefuses, Inv, TypeOK
  <2> QED
    BY <1>0, <1>3, <2>1 DEF VenueRefuses, Agreement, FactsReal, Inv, TypeOK
<1>4. CASE RequestLost(c)
  BY <1>0, <1>4 DEF RequestLost, Agreement, FactsReal
<1>5. CASE VenueCancels(c)
  <2>1. \A d \in Cids : venue'[d].filled = venue[d].filled
    BY <1>0, <1>5 DEF VenueCancels, Inv, TypeOK
  <2>2. FactsReal'
    BY <1>0, <1>5, <2>1 DEF VenueCancels, Report, Agreement, FactsReal, Inv, TypeOK
  <2> QED
    BY <1>0, <1>5, <2>1, <2>2 DEF VenueCancels, OpenAtVenue, Inv, TypeOK
<1>6. CASE VenueFills(c)
  <2>1. \E st : /\ venue' = [venue EXCEPT ![c] = [status |-> st,
                                         filled |-> venue[c].filled + 1]]
                /\ Report(c, st, venue[c].filled + 1)
    BY <1>6 DEF VenueFills
  <2>2. /\ FactsReal'
        /\ \A d \in Cids : venue[d].filled <= venue'[d].filled
    <3>1. PICK st : /\ venue' = [venue EXCEPT ![c] = [status |-> st,
                                         filled |-> venue[c].filled + 1]]
                    /\ Report(c, st, venue[c].filled + 1)
      BY <2>1
    <3>2. venue[c].filled + 1 \in Nat /\ venue[c].filled <= venue[c].filled + 1
      BY <1>0
    <3> QED
      BY <1>1, <3>1, <3>2
  <2>3. \A d \in Cids \ {c} : venue'[d] = venue[d]
    BY <2>1 DEF Inv, TypeOK
  <2> QED
    BY <1>6, <2>2, <2>3 DEF VenueFills
<1> QED
  BY <1>2, <1>3, <1>4, <1>5, <1>6 DEF Venue

-----------------------------------------------------------------------------
(* Agreement is kept.                                                      *)

LEMMA AgreementStep ==
  ASSUME Inv, Agreement, Next
  PROVE  Agreement'
<1> USE DEF venueVars, storeVars, procVars
<1>0. StoreForward /\ TypeOK /\ TypeOK'
  BY NextStep DEF Inv
<1>1. \A d \in Cids :
        /\ venue[d].filled \in Int /\ venue'[d].filled \in Int
        /\ venue[d].filled >= 0
        /\ Exists(d) => orders[d].filled \in Int
  <2>1. 0..Qty \subseteq Int /\ \A n \in 0..Qty : n >= 0
    BY ConstantsAssumption
  <2>2. \A o \in Orders : o.filled \in 0..Qty
    BY DEF Orders
  <2> QED
    BY <1>0, <2>1, <2>2 DEF TypeOK, Exists
<1>2. ASSUME NEW p \in Procs, NEW c \in Cids,
             \/ Submitting(p, c) \/ Canceling(p, c) \/ Observing(p, c)
             \/ Recover(p, c) \/ Complete(p, c) \/ StoreError(p, c)
      PROVE  Agreement'
  <2>1. StoreBacked /\ UNCHANGED <<facts, venue>>
    BY <1>2, ServiceStepBacked
  <2>2. /\ wire' \subseteq wire \cup {d \in Cids : pc[p][d] = "send"}
        /\ \A q \in Procs, d \in Cids :
             pc'[q][d] = "send" =>
               \/ pc[q][d] = "send"
               \/ Exists(d)' /\ orders'[d].status = "SUBMITTING"
    BY <1>2, ServiceStepSends
  <2>3. FactsReal'
    BY <2>1 DEF Agreement, FactsReal
  <2>4. FillsAreReal'
    <3>1. SUFFICES ASSUME NEW d \in Cids, Exists(d)'
                   PROVE  orders'[d].filled <= venue[d].filled
      BY <2>1 DEF FillsAreReal
    <3>2. Backed(d, orders'[d])
      BY <2>1, <3>1 DEF StoreBacked
    <3> QED
      BY <1>1, <3>2 DEF Agreement, FactsReal, FillsAreReal, Backed
  <2>5. \A d \in Cids :
          Exists(d) /\ orders[d].status # "PREPARED" =>
            Exists(d)' /\ orders'[d].status # "PREPARED"
    BY <1>0, <2>1 DEF StoreForward, StoreBacked, Started
  <2>6. SentRecorded'
    BY <2>1, <2>2, <2>5 DEF Agreement, SentRecorded
  <2> QED
    BY <2>3, <2>4, <2>6 DEF Agreement
<1>3. ASSUME NEW c \in Cids, Venue(c)
      PROVE  Agreement'
  <2>1. /\ FactsReal'
        /\ \A d \in Cids : venue[d].filled <= venue'[d].filled
        /\ \A d \in Cids :
             d \in wire' \/ venue'[d].status # "NONE" =>
               d \in wire \/ venue[d].status # "NONE"
        /\ UNCHANGED <<orders, pc>>
    BY <1>3, VenueStep
  <2>2. FillsAreReal'
    <3>1. SUFFICES ASSUME NEW d \in Cids, Exists(d)'
                   PROVE  orders'[d].filled <= venue'[d].filled
      BY DEF FillsAreReal
    <3>2. Exists(d) /\ orders'[d] = orders[d]
      BY <2>1, <3>1 DEF Exists
    <3>3. orders[d].filled <= venue[d].filled
      BY <3>2 DEF Agreement, FillsAreReal
    <3> QED
      BY <1>1, <2>1, <3>2, <3>3
  <2>3. SentRecorded'
    BY <2>1 DEF Agreement, SentRecorded, Exists
  <2> QED
    BY <2>1, <2>2, <2>3 DEF Agreement
<1>4. CASE \/ \E p \in Procs : Operator(p)
           \/ \E c \in Cids : ReservationExpires(c)
           \/ Tick
  <2>1. UNCHANGED <<orders, wire, facts, venue>>
    BY <1>4 DEF Operator, Crash, ActivateKillSwitch, DeactivateKillSwitch,
                ReservationExpires, Tick
  <2>2. \A q \in Procs, d \in Cids : pc'[q][d] = "send" => pc[q][d] = "send"
    <3>1. CASE UNCHANGED pc
      BY <3>1
    <3>2. CASE \E p \in Procs : Crash(p)
      BY <1>0, <3>2 DEF Crash, TypeOK
    <3> QED
      BY <1>4, <3>1, <3>2
      DEF Operator, ActivateKillSwitch, DeactivateKillSwitch,
          ReservationExpires, Tick
  <2> QED
    BY <2>1, <2>2
    DEF Agreement, FactsReal, FillsAreReal, SentRecorded, Exists
<1> QED
  BY <1>2, <1>3, <1>4 DEF Next

LEMMA InitAgreement == Init => Agreement
BY DEF Init, Agreement, FactsReal, FillsAreReal, SentRecorded, Exists

-----------------------------------------------------------------------------
(* The theorems.                                                           *)

\* Store and venue agree: reports are of real fills, the store claims no fill
\* that was not reported, and whatever left the process is recorded as sent.
THEOREM AgreementHolds == Spec => []Agreement
<1>1. Inv /\ Agreement /\ [Next]_vars => Agreement'
  <2>1. ASSUME Agreement, UNCHANGED vars
        PROVE  Agreement'
    BY <2>1 DEF vars, storeVars, procVars, venueVars, Agreement, FactsReal,
                FillsAreReal, SentRecorded, Exists
  <2> QED
    BY <2>1, AgreementStep
<1> QED
  BY <1>1, InvHolds, InitAgreement, PTL DEF Spec

\* No merge of acknowledgements, events, refreshes and recoveries, in any
\* order and however late, records a fill the venue did not make.
THEOREM FillsNotInvented == Spec => []FillsAreReal
BY AgreementHolds, PTL DEF Agreement

\* What a crash can find on the wire or at the venue has a durable record
\* that says at least SUBMITTING, so that recovery looks for it.
THEOREM SentOnRecord == Spec => []NothingSentUnrecorded
<1>1. Agreement => NothingSentUnrecorded
  BY DEF Agreement, SentRecorded, NothingSentUnrecorded
<1> QED
  BY <1>1, AgreementHolds, PTL
=============================================================================
