------------------------- MODULE ServiceSafetyProofs -------------------------
(***************************************************************************)
(* Proofs about ExecutionService: an order its store calls finished is     *)
(* neither open at the venue nor on its way there; within one process no   *)
(* new risk leaves for a leg with an UNKNOWN order; the service implements *)
(* OrderPromise; and a settled key belongs to an order with an outcome.    *)
(***************************************************************************)
EXTENDS ExecutionServiceProofs

\* The phases of an operation that has admitted an order and not sent it.
Sending == {"mark", "send"}

Ended(c) == Exists(c) /\ orders[c].status \in TerminalStates

Live(c) == Exists(c) /\ orders[c].status \in {"ACKNOWLEDGED", "PARTIAL"}

-----------------------------------------------------------------------------
(* The inductive invariant.                                                *)

\* What waits on the wire was sent and has not been acted upon.
WireIsFresh ==
  \A c \in Cids : c \in wire => venue[c].status = "NONE" /\ sends[c] > 0

\* The venue knows nothing of an order that was never sent, and no operation
\* waits for its answer.
UnsentIsUnseen ==
  \A c \in Cids :
    /\ sends[c] = 0 =>
         venue[c].status = "NONE" /\ \A p \in Procs : pc[p][c] # "sent"
    /\ venue[c].status \in {"NONE", "REFUSED"} => facts[c] = {}
    /\ venue[c].status = "NONE" => venue[c].filled = 0

\* A report of an end is a report of an order the venue has finished with.
EndsAreReal ==
  \A c \in Cids : \A s \in facts[c] :
    /\ s.status # "REJECTED"
    /\ s.status \in {"FILLED", "CANCELED"} => FinishedAtVenue(c)

\* So is a report of the whole quantity the order was sent with.
WholeIsFilled ==
  \A c \in Cids :
    Exists(c) /\ 0 < orders[c].approved /\ orders[c].approved <= venue[c].filled
      => venue[c].status = "FILLED"

\* Nothing ends an order that is about to be sent.
SendingIsAlive ==
  \A p \in Procs, c \in Cids : pc[p][c] \in Sending => ~Ended(c)

\* Nothing acknowledges an order that was never sent.
LiveWasSent ==
  \A c \in Cids : sends[c] = 0 => ~Live(c)

Course ==
  /\ WireIsFresh /\ UnsentIsUnseen /\ EndsAreReal /\ WholeIsFilled
  /\ SendingIsAlive /\ LiveWasSent /\ FinishedIsNotOpen

-----------------------------------------------------------------------------
(* What a step of the service does to the stored orders.                   *)

\* The venue bounced the request for d, or it never left.
Bounced(d) == d \notin wire' /\ (d \in wire \/ venue[d].status = "REFUSED")

\* A stored order ends as o when it had ended, the venue has finished with it
\* or bounced it, or as a first record; it is live when the venue has said so.
MayBecome(d, o) ==
  /\ o.status \in TerminalStates =>
       Ended(d) \/ FinishedAtVenue(d) \/ Bounced(d) \/ ~Exists(d)
  /\ o.status \in {"ACKNOWLEDGED", "PARTIAL"} => Live(d) \/ facts[d] # {}

StoreFollows ==
  \A d \in Cids :
    /\ Exists(d) => orders'[d].approved = orders[d].approved
    /\ Exists(d)' => MayBecome(d, orders'[d])

LEMMA KeptEnds ==
  ASSUME UNCHANGED orders
  PROVE  StoreFollows
BY DEF StoreFollows, MayBecome, Ended, Live, Exists

LEMMA PutEnds ==
  ASSUME TypeOK, NEW p \in Procs, NEW c \in Cids, NEW o, Put(p, c, o),
         Exists(c) => o.approved = orders[c].approved, MayBecome(c, o)
  PROVE  StoreFollows
<1>1. orders'[c] = o /\ \A d \in Cids \ {c} : orders'[d] = orders[d]
  BY DEF Put, TypeOK
<1> QED
  BY <1>1 DEF StoreFollows, MayBecome, Ended, Live, Exists

LEMMA MoveEnds ==
  ASSUME TypeOK, NEW p \in Procs, NEW c \in Cids, Exists(c),
         NEW status \in Statuses, Move(p, c, status),
         status \in TerminalStates => Bounced(c),
         status \notin {"ACKNOWLEDGED", "PARTIAL"}
  PROVE  StoreFollows
<1> DEFINE new == Moved(orders[c], status, now)
<1>1. new.approved = orders[c].approved /\ MayBecome(c, new)
  BY DEF Moved, Advance, MayBecome
<1>2. Put(p, c, new)
  BY DEF Move
<1> QED
  BY <1>1, <1>2, PutEnds

\* A merged fact ends an order only when the venue has finished with it.
LEMMA AppliedEnds ==
  ASSUME Inv, Agreement, Course, NEW c \in Cids, Exists(c), NEW s \in Answers(c)
  PROVE  /\ Applied(orders[c], s).approved = orders[c].approved
         /\ MayBecome(c, Applied(orders[c], s))
<1> DEFINE o == orders[c]
<1>1. PICK f \in facts[c] : /\ s.filled = f.filled
                            /\ s.status \in {f.status, "UNKNOWN"}
  BY DEF Answers, Blurred
<1>2. /\ f.filled <= venue[c].filled
      /\ f.status # "REJECTED"
      /\ f.status \in {"FILLED", "CANCELED"} => FinishedAtVenue(c)
  BY DEF Agreement, FactsReal, Course, EndsAreReal
<1>3. CASE Applied(o, s) = o
  BY <1>3 DEF MayBecome, Ended, Live
<1>4. CASE Applied(o, s) # o
  <2>1. Applied(o, s) = Advance(o, Reported(o, s), s.filled, OccurredAt(o, s), s.xid)
    BY <1>4 DEF Applied
  <2>2. Applied(o, s).status = Reported(o, s) /\ Applied(o, s).approved = o.approved
    BY <2>1 DEF Advance
  <2>3. CASE s.filled = o.approved /\ s.filled > 0
    <3>1. venue[c].status = "FILLED"
      BY <1>1, <1>2, <2>3 DEF Course, WholeIsFilled
    <3> QED
      BY <2>2, <3>1 DEF MayBecome, FinishedAtVenue
  <2>4. CASE ~(s.filled = o.approved /\ s.filled > 0)
    <3>1. Reported(o, s) = s.status \/ o.status = "CANCELED"
      BY <2>4 DEF Reported
    <3> QED
      BY <1>1, <1>2, <2>2, <3>1 DEF MayBecome, Ended, TerminalStates
  <2> QED
    BY <2>3, <2>4
<1> QED
  BY <1>3, <1>4

LEMMA MergeEnds ==
  ASSUME Inv, Agreement, Course, NEW p \in Procs, NEW c \in Cids, Exists(c),
         NEW s \in Answers(c), Put(p, c, Applied(orders[c], s))
  PROVE  StoreFollows
BY AppliedEnds, PutEnds DEF Inv

LEMMA InvalidAckEnds ==
  ASSUME TypeOK, NEW p \in Procs, NEW c \in Cids, Exists(c), InvalidAck(p, c)
  PROVE  StoreFollows
<1>1. Move(p, c, "UNKNOWN") \/ UNCHANGED orders
  BY DEF InvalidAck, Reread, NoPut
<1> QED
  BY <1>1, MoveEnds, KeptEnds DEF Statuses, TerminalStates

LEMMA TakeAckEnds ==
  ASSUME Inv, Agreement, Course, NEW p \in Procs, NEW c \in Cids, Exists(c),
         NEW s \in Answers(c), TakeAck(p, c, s)
  PROVE  StoreFollows
BY InvalidAckEnds, MergeEnds DEF TakeAck, Inv

LEMMA ServiceStepEnds ==
  ASSUME Inv, Agreement, Course, NEW p \in Procs, NEW c \in Cids,
         \/ Submitting(p, c) \/ Canceling(p, c) \/ Observing(p, c)
         \/ Recover(p, c) \/ Complete(p, c) \/ StoreError(p, c)
  PROVE  StoreFollows
<1> USE DEF venueVars, storeVars
<1>0. TypeOK /\ facts[c] \subseteq Answers(c)
  BY DEF Inv, Answers
<1>1. CASE \/ BeginSubmit(p, c) \/ Reserve(p, c) \/ Send(p, c)
           \/ BeginCancel(p, c) \/ CancelRefused(p, c) \/ Complete(p, c)
           \/ Abandon(p, c) \/ Raise(p, c)
  BY <1>1, KeptEnds
  DEF BeginSubmit, Reserve, Send, BeginCancel, CancelRefused, Complete,
      Abandon, Raise
<1>2. CASE Admit(p, c)
  <2>1. ~Exists(c)
    BY <1>2 DEF Admit
  <2>2. \E o : Put(p, c, o) /\ o.status \in {"PREPARED", "REJECTED"}
    <3>1. CASE Put(p, c, [status |-> "REJECTED", filled |-> 0, approved |-> 0,
                          at |-> now, xid |-> FALSE])
      BY <3>1
    <3>2. ASSUME NEW approved \in 1..Qty,
                 Put(p, c, [status |-> "PREPARED", filled |-> 0,
                            approved |-> approved, at |-> now, xid |-> FALSE])
          PROVE  \E o : Put(p, c, o) /\ o.status \in {"PREPARED", "REJECTED"}
      BY <3>2
    <3> QED
      BY <1>2, <3>1, <3>2 DEF Admit
  <2> QED
    BY <1>0, <2>1, <2>2, PutEnds DEF MayBecome
<1>3. CASE \/ Replay(p, c) \/ Mark(p, c) \/ SubmitUncertain(p, c)
           \/ CancelUncertain(p, c)
  <2>1. Exists(c)
    BY <1>3 DEF Replay, Mark, SubmitUncertain, CancelUncertain, Inv,
                RecordsPrecedeWork
  <2>2. Move(p, c, "UNKNOWN") \/ Move(p, c, "SUBMITTING") \/ UNCHANGED orders
    BY <1>3 DEF Replay, Mark, SubmitUncertain, CancelUncertain, NoPut
  <2> QED
    BY <1>0, <2>1, <2>2, MoveEnds, KeptEnds DEF Statuses, TerminalStates
<1>4. CASE SubmitRejected(p, c)
  <2>1. Exists(c)
    BY <1>4 DEF SubmitRejected, Inv, RecordsPrecedeWork
  <2>2. Bounced(c)
    BY <1>4 DEF SubmitRejected, Bounced, Inv, TypeOK
  <2>3. Move(p, c, "REJECTED") \/ UNCHANGED orders
    BY <1>4 DEF SubmitRejected, NoPut
  <2> QED
    BY <1>0, <2>1, <2>2, <2>3, MoveEnds, KeptEnds DEF Statuses
<1>5. CASE \/ SubmitAcknowledged(p, c) \/ CancelAcknowledged(p, c)
           \/ CancelRecover(p, c)
  <2>1. Exists(c)
    BY <1>5 DEF SubmitAcknowledged, CancelAcknowledged, CancelRecover, Inv,
                RecordsPrecedeWork
  <2>2. \/ \E s \in Answers(c) : TakeAck(p, c, s)
        \/ InvalidAck(p, c)
        \/ UNCHANGED orders
    BY <1>0, <1>5 DEF SubmitAcknowledged, CancelAcknowledged, CancelRecover,
                      NoPut
  <2> QED
    BY <1>0, <2>1, <2>2, TakeAckEnds, InvalidAckEnds, KeptEnds
<1>6. CASE Recover(p, c)
  <2>1. Exists(c)
    BY <1>6 DEF Recover, Inv, RecordsPrecedeWork
  <2>2. \/ \E s \in Answers(c) : Put(p, c, Applied(orders[c], s))
        \/ UNCHANGED orders
    BY <1>0, <1>6 DEF Recover, NoPut
  <2> QED
    BY <1>0, <2>1, <2>2, MergeEnds, KeptEnds
<1>7. CASE Observing(p, c)
  <2>1. \E s \in Answers(c) : AbsorbFact(p, c, s)
    BY <1>0, <1>7
    DEF Observing, ApplyExchangeEvent, ResolveUnknown, RefreshOrder
  <2> QED
    BY <2>1, MergeEnds DEF AbsorbFact
<1> QED
  BY <1>1, <1>2, <1>3, <1>4, <1>5, <1>6, <1>7
  DEF Submitting, Canceling, ReplayFails, AdmitFails, MarkFails, StoreError

-----------------------------------------------------------------------------
(* What a step of the service does to its operations and to the wire.      *)

\* The phases in which an operation neither is about to send nor has sent.
Calm == Quiet \ {"sent"}

LEMMA CalmPhases ==
  {"idle", "reserve", "admit", "replay", "cancel_sent", "recover",
   "cancel_recover", "settle", "complete"} \subseteq Calm
BY DEF Calm, Quiet, Phases

\* Only a first record is about to be sent.
SendingStarts ==
  \A q \in Procs, d \in Cids :
    pc'[q][d] \in Sending =>
      pc[q][d] \in Sending \/ (Exists(d)' /\ orders'[d].status = "PREPARED")

\* What waits for an answer, or is on the wire, has been sent.
SendingCounts ==
  /\ \A q \in Procs, d \in Cids :
       pc'[q][d] = "sent" => pc[q][d] = "sent" \/ sends'[d] > 0
  /\ \A d \in Cids :
       d \in wire' =>
         \/ d \in wire
         \/ sends'[d] > 0 /\ \E q \in Procs : pc[q][d] = "send"
  /\ \A d \in Cids : sends'[d] \in Nat /\ sends'[d] >= sends[d]

StepPhases == SendingStarts /\ SendingCounts

LEMMA CalmStep ==
  ASSUME TypeOK, NEW p \in Procs, NEW c \in Cids, NEW ph \in Calm,
         Go(p, c, ph), wire' \subseteq wire, UNCHANGED sends
  PROVE  StepPhases
<1>1. \A q \in Procs, d \in Cids :
        pc'[q][d] = pc[q][d] \/ pc'[q][d] \notin Sending \cup {"sent"}
  BY DEF Go, TypeOK, Calm, Quiet, Sending
<1>2. \A d \in Cids : sends'[d] \in Nat /\ sends'[d] >= sends[d]
  BY DEF TypeOK
<1>3. SendingStarts
  BY <1>1 DEF SendingStarts
<1>4. SendingCounts
  BY <1>1, <1>2 DEF SendingCounts
<1> QED
  BY <1>3, <1>4 DEF StepPhases

LEMMA ServiceStepPhases ==
  ASSUME Inv, NEW p \in Procs, NEW c \in Cids,
         \/ Submitting(p, c) \/ Canceling(p, c) \/ Observing(p, c)
         \/ Recover(p, c) \/ Complete(p, c) \/ StoreError(p, c)
  PROVE  StepPhases
<1> USE DEF venueVars, storeVars
<1>0. TypeOK
  BY DEF Inv
<1>1. CASE Send(p, c)
  <2>1. /\ pc[p][c] = "send" /\ pc' = [pc EXCEPT ![p][c] = "sent"]
        /\ sends' = [sends EXCEPT ![c] = @ + 1] /\ wire' = wire \cup {c}
    BY <1>1 DEF Send, Go
  <2>2. /\ sends'[c] \in Nat /\ sends'[c] > 0 /\ sends'[c] >= sends[c]
        /\ \A d \in Cids \ {c} : sends'[d] = sends[d] /\ sends[d] \in Nat
    BY <1>0, <2>1 DEF TypeOK
  <2>3. \A q \in Procs, d \in Cids :
          pc'[q][d] = pc[q][d] \/ (q = p /\ d = c /\ pc'[q][d] = "sent")
    BY <1>0, <2>1 DEF TypeOK
  <2>4. \A d \in Cids : sends'[d] \in Nat /\ sends'[d] >= sends[d]
    BY <2>2
  <2>5. SendingStarts
    BY <2>3 DEF SendingStarts, Sending
  <2>6. SendingCounts
    BY <2>1, <2>2, <2>3, <2>4 DEF SendingCounts
  <2> QED
    BY <2>5, <2>6 DEF StepPhases
<1>2. CASE Mark(p, c)
  <2>1. /\ pc[p][c] = "mark" /\ pc' = [pc EXCEPT ![p][c] = "send"]
        /\ UNCHANGED <<wire, sends>>
    BY <1>2 DEF Mark, Go
  <2>2. \A q \in Procs, d \in Cids :
          pc'[q][d] = pc[q][d] \/ (q = p /\ d = c /\ pc'[q][d] = "send")
    BY <1>0, <2>1 DEF TypeOK
  <2>3. \A d \in Cids : sends'[d] \in Nat /\ sends'[d] >= sends[d]
    BY <1>0, <2>1 DEF TypeOK
  <2>4. SendingStarts
    BY <2>1, <2>2 DEF SendingStarts, Sending
  <2>5. SendingCounts
    BY <2>1, <2>2, <2>3 DEF SendingCounts
  <2> QED
    BY <2>4, <2>5 DEF StepPhases
<1>3. CASE Admit(p, c)
  <2>1. CASE Go(p, c, "settle")
    BY <1>0, <1>3, <2>1, CalmStep, CalmPhases DEF Admit
  <2>2. ASSUME NEW approved \in 1..Qty,
               Put(p, c, [status |-> "PREPARED", filled |-> 0,
                          approved |-> approved, at |-> now, xid |-> FALSE]),
               Go(p, c, "mark")
        PROVE  StepPhases
    <3> DEFINE new == [status |-> "PREPARED", filled |-> 0,
                       approved |-> approved, at |-> now, xid |-> FALSE]
    <3>1. orders'[c] = new
      BY <1>0, <2>2 DEF Put, TypeOK
    <3>2. new \in Orders
      BY <1>0, ConstantsAssumption DEF Orders, Statuses, TypeOK
    <3>3. Exists(c)' /\ orders'[c].status = "PREPARED"
      <4>1. new # NoOrder
        BY <3>2, NoOrderAssumption
      <4>2. new.status = "PREPARED"
        OBVIOUS
      <4> HIDE DEF new
      <4> QED
        BY <3>1, <4>1, <4>2 DEF Exists
    <3>4. \A q \in Procs, d \in Cids :
            pc'[q][d] = pc[q][d] \/ (q = p /\ d = c /\ pc'[q][d] = "mark")
      BY <1>0, <2>2 DEF Go, TypeOK
    <3>5. \A d \in Cids : sends'[d] \in Nat /\ sends'[d] >= sends[d]
      BY <1>0, <1>3 DEF Admit, TypeOK
    <3>6. SendingStarts
      <4> HIDE DEF new
      <4> QED
        BY <3>3, <3>4 DEF SendingStarts
    <3>7. SendingCounts
      BY <1>3, <3>4, <3>5 DEF SendingCounts, Admit
    <3> QED
      BY <3>6, <3>7 DEF StepPhases
  <2> QED
    BY <1>3, <2>1, <2>2 DEF Admit
<1>4. CASE \/ BeginSubmit(p, c) \/ Reserve(p, c) \/ Replay(p, c)
           \/ Abandon(p, c) \/ Raise(p, c) \/ Complete(p, c)
           \/ BeginCancel(p, c) \/ CancelRefused(p, c) \/ Recover(p, c)
           \/ SubmitRejected(p, c) \/ SubmitUncertain(p, c)
           \/ CancelUncertain(p, c)
  <2>1. wire' \subseteq wire /\ UNCHANGED sends
    BY <1>4
    DEF BeginSubmit, Reserve, Replay, Abandon, Raise, Complete, BeginCancel,
        CancelRefused, Recover, SubmitRejected, SubmitUncertain, CancelUncertain
  <2>2. \E ph \in Calm : Go(p, c, ph)
    BY <1>4, CalmPhases
    DEF BeginSubmit, Reserve, Replay, Abandon, Raise, Complete, BeginCancel,
        CancelRefused, Recover, SubmitRejected, SubmitUncertain, CancelUncertain
  <2> QED
    BY <1>0, <2>1, <2>2, CalmStep
<1>5. CASE \/ SubmitAcknowledged(p, c) \/ CancelAcknowledged(p, c)
           \/ CancelRecover(p, c) \/ Observing(p, c)
  <2>1. UNCHANGED <<wire, sends>>
    BY <1>5
    DEF SubmitAcknowledged, CancelAcknowledged, CancelRecover, Observing,
        ApplyExchangeEvent, ResolveUnknown, RefreshOrder, AbsorbFact
  <2>2. \E ph \in Calm : Go(p, c, ph)
    BY <1>5, CalmPhases
    DEF SubmitAcknowledged, CancelAcknowledged, CancelRecover, Observing,
        ApplyExchangeEvent, ResolveUnknown, RefreshOrder, AbsorbFact,
        TakeAck, InvalidAck
  <2> QED
    BY <1>0, <2>1, <2>2, CalmStep
<1> QED
  BY <1>1, <1>2, <1>3, <1>4, <1>5
  DEF Submitting, Canceling, ReplayFails, AdmitFails, MarkFails, StoreError

LEMMA ServiceStepCourse ==
  ASSUME Inv, Agreement, Course, NEW p \in Procs, NEW c \in Cids,
         \/ Submitting(p, c) \/ Canceling(p, c) \/ Observing(p, c)
         \/ Recover(p, c) \/ Complete(p, c) \/ StoreError(p, c)
  PROVE  Course'
<1>1. StoreFollows /\ StepPhases
  BY ServiceStepEnds, ServiceStepPhases
<1>2. UNCHANGED <<facts, venue>>
  BY ServiceStepBacked
<1>3. StoreForward /\ TypeOK /\ TypeOK'
  BY NextStep DEF Next, Inv
<1>4. \A d \in Cids : sends[d] \in Nat /\ sends'[d] \in Nat /\ sends'[d] >= sends[d]
  BY <1>1, <1>3 DEF StepPhases, SendingCounts, TypeOK
\* An operation about to send works on a recorded order nothing was heard of.
<1>5. \A q \in Procs, d \in Cids :
        pc[q][d] \in Sending =>
          /\ Exists(d) /\ sends[d] = 0
          /\ venue[d].status = "NONE" /\ d \notin wire
  <2> SUFFICES ASSUME NEW q \in Procs, NEW d \in Cids, pc[q][d] \in Sending
               PROVE  /\ Exists(d) /\ sends[d] = 0
                      /\ venue[d].status = "NONE" /\ d \notin wire
    OBVIOUS
  <2>1. Exists(d) /\ sends[d] = 0
    BY DEF Inv, RecordsPrecedeWork, OneSender, Sending
  <2> QED
    BY <2>1 DEF Course, WireIsFresh, UnsentIsUnseen
<1>6. \A d \in Cids :
        d \in wire' =>
          \/ d \in wire
          \/ sends'[d] > 0 /\ \E q \in Procs : pc[q][d] \in Sending
  BY <1>1 DEF StepPhases, SendingCounts, Sending
\* An order without a record has not been sent.
<1>7. \A d \in Cids :
        ~Exists(d) => d \notin wire /\ venue[d].status = "NONE"
  BY DEF Agreement, SentRecorded
<1>8. WireIsFresh'
  BY <1>2, <1>4, <1>5, <1>6 DEF Course, WireIsFresh
<1>9. UnsentIsUnseen'
  <2>1. \A d \in Cids : sends'[d] = 0 => sends[d] = 0
    BY <1>4
  <2>2. \A q \in Procs, d \in Cids :
          pc'[q][d] = "sent" => pc[q][d] = "sent" \/ sends'[d] > 0
    BY <1>1 DEF StepPhases, SendingCounts
  <2>3. \A d \in Cids : ~(sends'[d] = 0 /\ sends'[d] > 0)
    OBVIOUS
  <2> QED
    BY <1>2, <2>1, <2>2, <2>3 DEF Course, UnsentIsUnseen
<1>10. EndsAreReal'
  BY <1>2 DEF Course, EndsAreReal, FinishedAtVenue
<1>11. WholeIsFilled'
  <2> SUFFICES ASSUME NEW d \in Cids, Exists(d)', 0 < orders'[d].approved,
                      orders'[d].approved <= venue[d].filled
               PROVE  venue[d].status = "FILLED"
    BY <1>2 DEF WholeIsFilled
  <2>1. CASE Exists(d)
    <3>1. orders'[d].approved = orders[d].approved
      BY <1>1, <2>1 DEF StoreFollows
    <3> QED
      BY <2>1, <3>1 DEF Course, WholeIsFilled
  <2>2. CASE ~Exists(d)
    <3>1. venue[d].filled = 0
      BY <1>7, <2>2 DEF Course, UnsentIsUnseen
    <3>2. orders'[d].approved \in Int
      <4>1. orders'[d] \in Orders
        BY <1>3 DEF TypeOK, Exists
      <4> QED
        BY <4>1, ConstantsAssumption DEF Orders
    <3> QED
      BY <3>1, <3>2
  <2> QED
    BY <2>1, <2>2
\* How an order that has ended came to its end.
<1>12. \A d \in Cids :
         Ended(d)' => Ended(d) \/ FinishedAtVenue(d) \/ Bounced(d) \/ ~Exists(d)
  BY <1>1 DEF StoreFollows, MayBecome, Ended
<1>13. SendingIsAlive'
  <2> SUFFICES ASSUME NEW q \in Procs, NEW d \in Cids, pc'[q][d] \in Sending,
                      Ended(d)'
               PROVE  FALSE
    BY DEF SendingIsAlive
  <2>1. CASE pc[q][d] \in Sending
    <3>1. ~FinishedAtVenue(d) /\ ~Bounced(d) /\ Exists(d) /\ ~Ended(d)
      BY <1>5, <2>1 DEF FinishedAtVenue, Bounced, Course, SendingIsAlive
    <3> QED
      BY <1>12, <3>1
  <2>2. CASE Exists(d)' /\ orders'[d].status = "PREPARED"
    BY <2>2 DEF Ended, TerminalStates
  <2> QED
    BY <1>1, <2>1, <2>2 DEF StepPhases, SendingStarts
<1>14. LiveWasSent'
  <2> SUFFICES ASSUME NEW d \in Cids, Live(d)'
               PROVE  sends'[d] # 0
    BY DEF LiveWasSent
  <2>1. Live(d) \/ facts[d] # {}
    BY <1>1 DEF StoreFollows, MayBecome, Live
  <2>2. sends[d] # 0
    BY <2>1 DEF Course, LiveWasSent, UnsentIsUnseen
  <2> QED
    BY <1>4, <2>2
<1>15. FinishedIsNotOpen'
  <2> SUFFICES ASSUME NEW d \in Cids, Ended(d)'
               PROVE  ~OpenAtVenue(d) /\ d \notin wire'
    <3>1. \A d \in Cids : StatusOf(d)' \in TerminalStates => Ended(d)'
      BY DEF StatusOf, Ended, TerminalStates
    <3>2. \A d \in Cids : OpenAtVenue(d)' = OpenAtVenue(d)
      BY <1>2 DEF OpenAtVenue
    <3> QED
      BY <3>1, <3>2 DEF FinishedIsNotOpen
  <2>1. CASE Ended(d)
    <3>1. ~OpenAtVenue(d) /\ d \notin wire
      BY <2>1 DEF Course, FinishedIsNotOpen, StatusOf, Ended
    <3>2. \A q \in Procs : pc[q][d] \notin Sending
      BY <2>1 DEF Course, SendingIsAlive
    <3> QED
      BY <1>6, <3>1, <3>2
  <2>2. CASE FinishedAtVenue(d)
    <3>1. ~OpenAtVenue(d) /\ d \notin wire
      BY <2>2 DEF FinishedAtVenue, OpenAtVenue, Course, WireIsFresh
    <3>2. \A q \in Procs : pc[q][d] \notin Sending
      BY <1>5, <2>2 DEF FinishedAtVenue
    <3> QED
      BY <1>6, <3>1, <3>2
  <2>3. CASE Bounced(d)
    BY <2>3 DEF Bounced, OpenAtVenue, Course, WireIsFresh
  <2>4. CASE ~Exists(d)
    <3>1. \A q \in Procs : pc[q][d] \notin Sending
      BY <1>5, <2>4
    <3> QED
      BY <1>6, <1>7, <2>4, <3>1 DEF OpenAtVenue
  <2> QED
    BY <1>12, <2>1, <2>2, <2>3, <2>4
<1> QED
  BY <1>8, <1>9, <1>10, <1>11, <1>13, <1>14, <1>15 DEF Course

-----------------------------------------------------------------------------
(* The venue.                                                              *)

\* The course of order c after a step that wrote nothing but venue and facts.
OneKeepsCourse(c) ==
  /\ c \in wire' \/ sends[c] = 0 => venue'[c].status = "NONE"
  /\ venue'[c].status \in {"NONE", "REFUSED"} => facts'[c] = {}
  /\ venue'[c].status = "NONE" => venue'[c].filled = 0
  /\ \A s \in facts'[c] :
       /\ s.status # "REJECTED"
       /\ s.status \in {"FILLED", "CANCELED"} =>
            venue'[c].status \in {"FILLED", "CANCELED"}
  /\ Exists(c) /\ 0 < orders[c].approved /\ orders[c].approved <= venue'[c].filled
       => venue'[c].status = "FILLED"
  /\ venue'[c].status \in {"NEW", "PARTIAL"} => ~Ended(c)

\* It keeps the course of its orders when it keeps that of the one it acts on.
LEMMA VenueKeepsCourse ==
  ASSUME Inv, Course, NEW c \in Cids,
         UNCHANGED <<orders, pc, sends>>, wire' \subseteq wire,
         \A d \in Cids \ {c} : venue'[d] = venue[d] /\ facts'[d] = facts[d],
         OneKeepsCourse(c)
  PROVE  Course'
<1>1. WireIsFresh'
  BY DEF OneKeepsCourse, Course, WireIsFresh
<1>2. UnsentIsUnseen'
  BY DEF OneKeepsCourse, Course, UnsentIsUnseen
<1>3. EndsAreReal'
  BY DEF OneKeepsCourse, Course, EndsAreReal, FinishedAtVenue
<1>4. WholeIsFilled'
  BY DEF OneKeepsCourse, Course, WholeIsFilled, Exists
<1>5. SendingIsAlive'
  BY DEF Course, SendingIsAlive, Ended, Exists
<1>6. LiveWasSent'
  BY DEF Course, LiveWasSent, Live, Exists
<1>7. FinishedIsNotOpen'
  <2> SUFFICES ASSUME NEW d \in Cids, Ended(d)
               PROVE  venue'[d].status \notin {"NEW", "PARTIAL"} /\ d \notin wire'
    BY DEF FinishedIsNotOpen, OpenAtVenue, StatusOf, Ended, Exists, TerminalStates
  <2>1. venue[d].status \notin {"NEW", "PARTIAL"} /\ d \notin wire
    BY DEF Course, FinishedIsNotOpen, OpenAtVenue, StatusOf, Ended
  <2> QED
    BY <2>1 DEF OneKeepsCourse
<1> QED
  BY <1>1, <1>2, <1>3, <1>4, <1>5, <1>6, <1>7 DEF Course

LEMMA VenueCourse ==
  ASSUME Inv, Agreement, Course, NEW c \in Cids, Venue(c)
  PROVE  Course'
<1> USE DEF VenueUnchanged, storeVars, procVars
<1>0. UNCHANGED <<orders, pc, sends>>
  BY DEF Venue, VenueAccepts, VenueRefuses, RequestLost, VenueFills, VenueCancels
<1>1. /\ venue \in [Cids -> [status : VenueStates, filled : 0..Qty]]
      /\ facts \in [Cids -> SUBSET Facts]
      /\ venue[c].filled \in Int
      /\ Exists(c) => orders[c].approved \in Int
  <2>1. \A o \in Orders : o.approved \in 0..Qty
    BY DEF Orders
  <2>2. 0..Qty \subseteq Int
    BY ConstantsAssumption
  <2> QED
    BY <2>1, <2>2 DEF Inv, TypeOK, Exists
\* A report adds one fact.
<1>2. ASSUME NEW status, NEW filled, Report(c, status, filled)
      PROVE  /\ \A d \in Cids \ {c} : facts'[d] = facts[d]
             /\ \A s \in facts'[c] : s \in facts[c] \/ s.status = status
  BY <1>1, <1>2 DEF Report
<1>3. CASE VenueAccepts(c)
  <2>1. /\ venue[c].status = "NONE" /\ venue[c].filled = 0
        /\ facts[c] = {} /\ sends[c] > 0
    BY <1>3 DEF VenueAccepts, Course, UnsentIsUnseen, WireIsFresh
  <2>2. /\ venue'[c].status = "NEW" /\ venue'[c].filled = 0
        /\ \A d \in Cids \ {c} : venue'[d] = venue[d]
    BY <1>1, <1>3, <2>1 DEF VenueAccepts
  <2>3. /\ \A d \in Cids \ {c} : facts'[d] = facts[d]
        /\ \A s \in facts'[c] : s.status = "ACKNOWLEDGED"
    BY <1>2, <1>3, <2>1 DEF VenueAccepts
  <2>4. ~Ended(c) /\ c \notin wire' /\ wire' \subseteq wire
    BY <1>3 DEF VenueAccepts, Course, FinishedIsNotOpen, StatusOf, Ended
  <2>5. ~(Exists(c) /\ 0 < orders[c].approved /\ orders[c].approved <= 0)
    BY <1>1
  <2> QED
    <3>1. OneKeepsCourse(c)
      BY <1>0, <1>1, <2>1, <2>2, <2>3, <2>4, <2>5 DEF OneKeepsCourse
    <3> QED
      BY <1>0, <2>1, <2>2, <2>3, <2>4, <2>5, <3>1, VenueKeepsCourse
<1>4. CASE VenueRefuses(c)
  <2>1. /\ venue[c].status = "NONE" /\ venue[c].filled = 0
        /\ facts[c] = {} /\ sends[c] > 0
    BY <1>4 DEF VenueRefuses, Course, UnsentIsUnseen, WireIsFresh
  <2>2. /\ venue'[c].status = "REFUSED" /\ venue'[c].filled = 0
        /\ \A d \in Cids \ {c} : venue'[d] = venue[d]
    BY <1>1, <1>4, <2>1 DEF VenueRefuses
  <2>3. c \notin wire' /\ wire' \subseteq wire /\ UNCHANGED facts
    BY <1>4 DEF VenueRefuses
  <2>4. ~(Exists(c) /\ 0 < orders[c].approved /\ orders[c].approved <= 0)
    BY <1>1
  <2> QED
    <3>1. OneKeepsCourse(c)
      BY <1>0, <1>1, <2>1, <2>2, <2>3, <2>4 DEF OneKeepsCourse
    <3> QED
      BY <1>0, <2>1, <2>2, <2>3, <2>4, <3>1, VenueKeepsCourse
<1>5. CASE RequestLost(c)
  BY <1>0, <1>5
  DEF RequestLost, Course, WireIsFresh, UnsentIsUnseen, EndsAreReal,
      WholeIsFilled, SendingIsAlive, LiveWasSent, FinishedIsNotOpen,
      FinishedAtVenue, OpenAtVenue, StatusOf, Ended, Live, Exists
<1>6. CASE VenueCancels(c)
  <2>1. /\ venue[c].status \in {"NEW", "PARTIAL"}
        /\ c \notin wire /\ sends[c] # 0
    BY <1>6 DEF VenueCancels, OpenAtVenue, Course, WireIsFresh, UnsentIsUnseen
  <2>2. /\ venue'[c].status = "CANCELED" /\ venue'[c].filled = venue[c].filled
        /\ \A d \in Cids \ {c} : venue'[d] = venue[d]
        /\ wire' = wire
    BY <1>1, <1>6 DEF VenueCancels
  <2>3. /\ \A d \in Cids \ {c} : facts'[d] = facts[d]
        /\ \A s \in facts'[c] : s.status # "REJECTED"
    BY <1>2, <1>6 DEF VenueCancels, Course, EndsAreReal
  <2>4. ~(Exists(c) /\ 0 < orders[c].approved /\ orders[c].approved <= venue[c].filled)
    BY <2>1 DEF Course, WholeIsFilled
  <2> QED
    <3>1. OneKeepsCourse(c)
      BY <1>0, <1>1, <2>1, <2>2, <2>3, <2>4 DEF OneKeepsCourse
    <3> QED
      BY <1>0, <2>1, <2>2, <2>3, <2>4, <3>1, VenueKeepsCourse
<1>7. CASE VenueFills(c)
  <2>1. /\ venue[c].status \in {"NEW", "PARTIAL", "CANCELED"}
        /\ c \notin wire /\ sends[c] # 0
    BY <1>7 DEF VenueFills, Course, WireIsFresh, UnsentIsUnseen
  <2>2. PICK status :
          /\ venue' = [venue EXCEPT ![c] = [status |-> status,
                                            filled |-> venue[c].filled + 1]]
          /\ Report(c, status, venue[c].filled + 1)
          /\ status = IF venue[c].filled + 1 = orders[c].approved THEN "FILLED"
                      ELSE IF venue[c].status = "CANCELED" THEN "CANCELED"
                      ELSE "PARTIAL"
    BY <1>7 DEF VenueFills
  <2>3. /\ venue'[c].status = status /\ venue'[c].filled = venue[c].filled + 1
        /\ \A d \in Cids \ {c} : venue'[d] = venue[d]
        /\ wire' = wire
    BY <1>1, <1>7, <2>2 DEF VenueFills
  <2>4. /\ status \in {"FILLED", "CANCELED", "PARTIAL"}
        /\ venue[c].status = "CANCELED" => status # "PARTIAL"
        /\ orders[c].approved <= venue[c].filled + 1 => status = "FILLED"
    BY <1>1, <1>7, <2>2 DEF VenueFills
  <2>5. status = "PARTIAL" => ~Ended(c)
    BY <2>1, <2>4 DEF Course, FinishedIsNotOpen, OpenAtVenue, StatusOf, Ended
  <2>6. /\ \A d \in Cids \ {c} : facts'[d] = facts[d]
        /\ \A s \in facts'[c] : s \in facts[c] \/ s.status = status
    BY <1>2, <2>2
  <2>7. \A s \in facts'[c] :
          /\ s.status # "REJECTED"
          /\ s.status \in {"FILLED", "CANCELED"} => status \in {"FILLED", "CANCELED"}
    BY <2>1, <2>4, <2>6 DEF Course, EndsAreReal, FinishedAtVenue
  <2> QED
    <3>1. OneKeepsCourse(c)
      BY <1>0, <1>1, <2>1, <2>3, <2>4, <2>5, <2>6, <2>7 DEF OneKeepsCourse
    <3> QED
      BY <1>0, <2>1, <2>3, <2>4, <2>5, <2>6, <2>7, <3>1, VenueKeepsCourse
<1> QED
  BY <1>3, <1>4, <1>5, <1>6, <1>7 DEF Venue

-----------------------------------------------------------------------------
(* The theorem.                                                            *)

LEMMA CourseStep ==
  ASSUME Inv, Agreement, Course, Next
  PROVE  Course'
<1> USE DEF venueVars, storeVars, procVars
<1>1. CASE \/ \E p \in Procs : Operator(p)
           \/ \E c \in Cids : ReservationExpires(c)
           \/ Tick
  <2>1. UNCHANGED <<orders, wire, facts, venue, sends>>
    BY <1>1 DEF Operator, Crash, ActivateKillSwitch, DeactivateKillSwitch,
                ReservationExpires, Tick
  <2>2. \A q \in Procs, d \in Cids : pc'[q][d] \in {pc[q][d], "idle"}
    <3>1. CASE UNCHANGED pc
      BY <3>1
    <3>2. CASE \E p \in Procs : Crash(p)
      BY <3>2 DEF Crash, Inv, TypeOK
    <3> QED
      BY <1>1, <3>1, <3>2
      DEF Operator, ActivateKillSwitch, DeactivateKillSwitch,
          ReservationExpires, Tick
  <2>3. UnsentIsUnseen'
    BY <2>1, <2>2 DEF Course, UnsentIsUnseen
  <2>4. SendingIsAlive'
    BY <2>1, <2>2 DEF Course, SendingIsAlive, Sending, Ended, Exists
  <2> QED
    BY <2>1, <2>3, <2>4
    DEF Course, WireIsFresh, EndsAreReal, WholeIsFilled, LiveWasSent,
        FinishedIsNotOpen, FinishedAtVenue, OpenAtVenue, StatusOf, Live, Exists
<1> QED
  BY <1>1, ServiceStepCourse, VenueCourse DEF Next

LEMMA InitCourse == Init => Course
BY DEF Init, Course, WireIsFresh, UnsentIsUnseen, EndsAreReal, WholeIsFilled,
       SendingIsAlive, LiveWasSent, FinishedIsNotOpen, Sending, StatusOf,
       Ended, Live, Exists, TerminalStates

\* What is sent, reported, filled and ended goes together.
THEOREM CourseHolds == Spec => []Course
<1>1. Inv /\ Agreement /\ Course /\ [Next]_vars => Course'
  <2>1. ASSUME Course, UNCHANGED vars
        PROVE  Course'
    BY <2>1 DEF vars, storeVars, procVars, venueVars, Course, WireIsFresh,
                UnsentIsUnseen, EndsAreReal, WholeIsFilled, SendingIsAlive,
                LiveWasSent, FinishedIsNotOpen, FinishedAtVenue, OpenAtVenue,
                StatusOf, Ended, Live, Exists
  <2> QED
    BY <2>1, CourseStep
<1> QED
  BY <1>1, InvHolds, AgreementHolds, InitCourse, PTL DEF Spec

\* Whatever the order in which acknowledgements, events, refreshes, replays
\* and recoveries reach the store, however late, and whoever crashed: an order
\* the service calls finished is not working at the venue, nor will it be.
THEOREM FinishedStaysClosed == Spec => []FinishedIsNotOpen
BY CourseHolds, PTL DEF Course

-----------------------------------------------------------------------------
(* The UNKNOWN lock of a leg, within one process.                          *)

\* A process has one operation per leg at most: the leg guard excludes others.
LegExclusive ==
  \A p \in Procs, c, d \in Cids :
    Leg[c] = Leg[d] /\ pc[p][c] # "idle" /\ pc[p][d] # "idle" => c = d

\* The lock that was open when new risk was admitted stays open until it is sent.
LockStaysOpen ==
  \A p \in Procs, c \in Cids \ Reducing :
    pc[p][c] \in Sending => ~UnknownOnLeg(Leg[c])

\* A step of an operation is under the leg guard, writes its own order only,
\* and is about to send if it admitted the order or was already.
LEMMA ServiceStepGuarded ==
  ASSUME Inv, NEW p \in Procs, NEW c \in Cids,
         \/ Submitting(p, c) \/ Canceling(p, c) \/ Observing(p, c)
         \/ Recover(p, c) \/ Complete(p, c) \/ StoreError(p, c)
  PROVE  /\ pc[p][c] # "idle" \/ LegFree(p, c)
         /\ \A q \in Procs, d \in Cids : q # p \/ d # c => pc'[q][d] = pc[q][d]
         /\ \A d \in Cids \ {c} : orders'[d] = orders[d]
         /\ pc'[p][c] \in Sending =>
              /\ StatusOf(c)' # "UNKNOWN"
              /\ pc[p][c] \in Sending \/ Admitted(p, c)
         /\ \A d \in Cids : sends'[d] # sends[d] => pc[p][d] = "send"
<1> USE DEF venueVars, storeVars
<1>0. TypeOK
  BY DEF Inv
<1>1. pc[p][c] # "idle" \/ LegFree(p, c)
  BY DEF Submitting, Canceling, Observing, BeginSubmit, Reserve, Replay,
         ReplayFails, Admit, AdmitFails, Mark, MarkFails, Send,
         SubmitAcknowledged, SubmitRejected, SubmitUncertain, BeginCancel,
         CancelAcknowledged, CancelRefused, CancelUncertain, CancelRecover,
         ApplyExchangeEvent, ResolveUnknown, RefreshOrder, AbsorbFact,
         Recover, Complete, StoreError
<1>2. \E ph : Go(p, c, ph)
  BY DEF Submitting, Canceling, Observing, BeginSubmit, Reserve, Replay,
         ReplayFails, Admit, AdmitFails, Mark, MarkFails, Send,
         SubmitAcknowledged, SubmitRejected, SubmitUncertain, BeginCancel,
         CancelAcknowledged, CancelRefused, CancelUncertain, CancelRecover,
         ApplyExchangeEvent, ResolveUnknown, RefreshOrder, AbsorbFact,
         Recover, Complete, StoreError, Abandon, Raise, TakeAck, InvalidAck
<1>3. \A q \in Procs, d \in Cids : q # p \/ d # c => pc'[q][d] = pc[q][d]
  BY <1>0, <1>2 DEF Go, TypeOK
<1>4. (\E o : Put(p, c, o)) \/ UNCHANGED orders
  BY DEF Submitting, Canceling, Observing, BeginSubmit, Reserve, Replay,
         ReplayFails, Admit, AdmitFails, Mark, MarkFails, Send,
         SubmitAcknowledged, SubmitRejected, SubmitUncertain, BeginCancel,
         CancelAcknowledged, CancelRefused, CancelUncertain, CancelRecover,
         ApplyExchangeEvent, ResolveUnknown, RefreshOrder, AbsorbFact,
         Recover, Complete, StoreError, Abandon, Raise, TakeAck, InvalidAck,
         Move, NoPut, Reread
<1>5. \A d \in Cids \ {c} : orders'[d] = orders[d]
  BY <1>0, <1>4 DEF Put, TypeOK
<1>6. pc'[p][c] \in Sending =>
        /\ StatusOf(c)' # "UNKNOWN"
        /\ pc[p][c] \in Sending \/ Admitted(p, c)
  <2>1. CASE Admit(p, c)
    <3>1. pc'[p][c] \in Sending =>
            Exists(c)' /\ orders'[c].status = "PREPARED"
      BY <1>0, <2>1, ServiceStepPhases
      DEF Admit, StepPhases, SendingStarts, Sending, Submitting
    <3> QED
      BY <2>1, <3>1 DEF Admit, StatusOf
  <2>2. CASE Mark(p, c)
    <3>1. orders'[c] = Moved(orders[c], "SUBMITTING", now)
      BY <1>0, <2>2 DEF Mark, Move, Put, TypeOK
    <3> QED
      BY <2>2, <3>1 DEF Mark, Sending, StatusOf, Moved, Advance
  <2>3. CASE ~(Admit(p, c) \/ Mark(p, c))
    <3>1. \E ph \in Phases \ Sending : Go(p, c, ph)
      BY <2>3
      DEF Submitting, Canceling, Observing, BeginSubmit, Reserve, Replay,
          ReplayFails, AdmitFails, MarkFails, Send,
          SubmitAcknowledged, SubmitRejected, SubmitUncertain, BeginCancel,
          CancelAcknowledged, CancelRefused, CancelUncertain, CancelRecover,
          ApplyExchangeEvent, ResolveUnknown, RefreshOrder, AbsorbFact,
          Recover, Complete, StoreError, Abandon, Raise, TakeAck, InvalidAck,
          Phases, Sending
    <3> QED
      BY <1>0, <3>1 DEF Go, TypeOK
  <2> QED
    BY <2>1, <2>2, <2>3
<1>7. \A d \in Cids : sends'[d] # sends[d] => pc[p][d] = "send"
  <2>1. Send(p, c) \/ UNCHANGED sends
    BY DEF Submitting, Canceling, Observing, BeginSubmit, Reserve, Replay,
           ReplayFails, Admit, AdmitFails, Mark, MarkFails,
           SubmitAcknowledged, SubmitRejected, SubmitUncertain, BeginCancel,
           CancelAcknowledged, CancelRefused, CancelUncertain, CancelRecover,
           ApplyExchangeEvent, ResolveUnknown, RefreshOrder, AbsorbFact,
           Recover, Complete, StoreError, Abandon, Raise
  <2> QED
    BY <1>0, <2>1 DEF Send, TypeOK
<1> QED
  BY <1>1, <1>3, <1>5, <1>6, <1>7

\* Every other step leaves the orders alone and begins no operation.
LEMMA OutsideGuarded ==
  ASSUME Inv,
         \/ \E p \in Procs : Operator(p)
         \/ \E c \in Cids : ReservationExpires(c) \/ Venue(c)
         \/ Tick
  PROVE  /\ UNCHANGED <<orders, sends>>
         /\ \A q \in Procs, d \in Cids : pc'[q][d] \in {pc[q][d], "idle"}
<1> USE DEF storeVars, procVars
<1>1. UNCHANGED <<orders, sends>>
  BY DEF Operator, Crash, ActivateKillSwitch, DeactivateKillSwitch,
         ReservationExpires, Venue, VenueAccepts, VenueRefuses, RequestLost,
         VenueFills, VenueCancels, VenueUnchanged, Tick
<1>2. CASE UNCHANGED pc
  BY <1>1, <1>2
<1>3. CASE \E p \in Procs : Crash(p)
  BY <1>1, <1>3 DEF Crash, Inv, TypeOK
<1> QED
  BY <1>2, <1>3
  DEF Operator, ActivateKillSwitch, DeactivateKillSwitch, ReservationExpires,
      Venue, VenueAccepts, VenueRefuses, RequestLost, VenueFills,
      VenueCancels, VenueUnchanged, Tick

LEMMA LegExclusiveStep ==
  ASSUME Inv, LegExclusive, Next
  PROVE  LegExclusive'
<1>1. ASSUME NEW p \in Procs, NEW c \in Cids,
             \/ Submitting(p, c) \/ Canceling(p, c) \/ Observing(p, c)
             \/ Recover(p, c) \/ Complete(p, c) \/ StoreError(p, c)
      PROVE  LegExclusive'
  <2>1. /\ pc[p][c] # "idle" \/ LegFree(p, c)
        /\ \A q \in Procs, d \in Cids : q # p \/ d # c => pc'[q][d] = pc[q][d]
    BY <1>1, ServiceStepGuarded
  <2>2. \A d \in Cids \ {c} : Leg[d] = Leg[c] => pc[p][d] = "idle"
    BY <2>1 DEF LegExclusive, LegFree
  <2> QED
    BY <2>1, <2>2 DEF LegExclusive
<1>2. CASE \/ \E p \in Procs : Operator(p)
           \/ \E c \in Cids : ReservationExpires(c) \/ Venue(c)
           \/ Tick
  BY <1>2, OutsideGuarded DEF LegExclusive
<1> QED
  BY <1>1, <1>2 DEF Next

LEMMA LockStep ==
  ASSUME NEW p \in Procs, Procs = {p}, Inv, LegExclusive, LockStaysOpen, Next
  PROVE  /\ LockStaysOpen'
         /\ \A c \in Cids \ Reducing :
              sends'[c] # sends[c] => ~UnknownOnLeg(Leg[c])
<1>1. ASSUME NEW c \in Cids,
             \/ Submitting(p, c) \/ Canceling(p, c) \/ Observing(p, c)
             \/ Recover(p, c) \/ Complete(p, c) \/ StoreError(p, c)
      PROVE  /\ LockStaysOpen'
             /\ \A d \in Cids \ Reducing :
                  sends'[d] # sends[d] => ~UnknownOnLeg(Leg[d])
  <2>1. /\ pc[p][c] # "idle" \/ LegFree(p, c)
        /\ \A d \in Cids : d # c => pc'[p][d] = pc[p][d]
        /\ \A d \in Cids \ {c} : orders'[d] = orders[d]
        /\ pc'[p][c] \in Sending =>
             /\ StatusOf(c)' # "UNKNOWN"
             /\ pc[p][c] \in Sending \/ Admitted(p, c)
        /\ \A d \in Cids : sends'[d] # sends[d] => pc[p][d] = "send"
    BY <1>1, ServiceStepGuarded
  <2>2. \A d \in Cids \ Reducing :
          sends'[d] # sends[d] => ~UnknownOnLeg(Leg[d])
    BY <2>1 DEF LockStaysOpen, Sending
  <2>3. \A d \in Cids \ {c} : StatusOf(d)' = StatusOf(d)
    BY <2>1 DEF StatusOf, Exists
  <2>4. ASSUME NEW d \in Cids \ Reducing, pc'[p][d] \in Sending
        PROVE  ~UnknownOnLeg(Leg[d])'
    <3>1. CASE d = c
      <4>1. ~UnknownOnLeg(Leg[c])
        BY <2>1, <2>4, <3>1 DEF Admitted, LockStaysOpen
      <4> QED
        BY <2>1, <2>3, <2>4, <3>1, <4>1 DEF UnknownOnLeg
    <3>2. CASE d # c
      <4>1. pc[p][d] \in Sending /\ pc[p][d] # "idle"
        BY <2>1, <2>4, <3>2 DEF Sending
      <4>2. Leg[d] # Leg[c]
        BY <2>1, <3>2, <4>1 DEF LegExclusive, LegFree
      <4>3. ~UnknownOnLeg(Leg[d])
        BY <4>1 DEF LockStaysOpen
      <4> QED
        BY <2>3, <4>2, <4>3 DEF UnknownOnLeg
    <3> QED
      BY <3>1, <3>2
  <2> QED
    BY <2>2, <2>4 DEF LockStaysOpen
<1>2. CASE \/ \E q \in Procs : Operator(q)
           \/ \E c \in Cids : ReservationExpires(c) \/ Venue(c)
           \/ Tick
  <2>1. /\ UNCHANGED <<orders, sends>>
        /\ \A q \in Procs, d \in Cids : pc'[q][d] \in {pc[q][d], "idle"}
    BY <1>2, OutsideGuarded
  <2> QED
    BY <2>1 DEF LockStaysOpen, UnknownOnLeg, StatusOf, Exists, Sending
<1> QED
  BY <1>1, <1>2 DEF Next

LEMMA InitLock == Init => LegExclusive /\ LockStaysOpen
BY DEF Init, LegExclusive, LockStaysOpen, Sending

\* Within one process, whatever the legs and the orders: between the check of
\* the UNKNOWN lock and the call of the venue nothing locks the leg, so new
\* risk never leaves for a leg with an unclassified order.
THEOREM LegStaysLocked ==
  ASSUME NEW p \in Procs, Procs = {p}
  PROVE  Spec => UnknownLocksLeg
<1> DEFINE Locked ==
      \A c \in Cids \ Reducing :
        sends'[c] # sends[c] => ~UnknownOnLeg(Leg[c])
<1>1. /\ Inv /\ LegExclusive /\ LockStaysOpen /\ [Next]_vars
        => LegExclusive' /\ LockStaysOpen'
      /\ Inv /\ LegExclusive /\ LockStaysOpen /\ [Next]_vars => [Locked]_vars
  <2>1. ASSUME LegExclusive, LockStaysOpen, UNCHANGED vars
        PROVE  LegExclusive' /\ LockStaysOpen'
    BY <2>1 DEF vars, storeVars, procVars, LegExclusive, LockStaysOpen,
                UnknownOnLeg, StatusOf, Exists
  <2> QED
    BY <2>1, LegExclusiveStep, LockStep
<1> QED
  BY <1>1, InitLock, InvHolds, PTL DEF Spec, UnknownLocksLeg

-----------------------------------------------------------------------------
(* The refinement of OrderPromise.                                         *)

Known(c) == IF Exists(c) THEN orders[c].filled ELSE 0

\* A step leaves the book entry, the market state and the fills of d alone.
KeepsView(d) ==
  /\ Book(d)' = Book(d) /\ Known(d)' = Known(d)
  /\ Market(d)' = Market(d) /\ venue'[d].filled = venue[d].filled

ViewsOfOthersKept(c) == \A d \in Cids \ {c} : KeepsView(d)

\* The step is one the promise allows.
Allowed == [Promise!Next]_(Promise!vars)

LEMMA NothingSeen ==
  ASSUME \A d \in Cids : KeepsView(d)
  PROVE  Allowed
BY DEF KeepsView, Known, Allowed, Promise!vars

LEMMA OpenIsAllowed ==
  ASSUME NEW c \in Cids, ViewsOfOthersKept(c), Book(c) = "none",
         Book(c)' \in {"due", "done"}, Known(c)' = Known(c),
         Market(c)' = Market(c), venue'[c].filled = venue[c].filled
  PROVE  Allowed
<1>1. Promise!Open(c)
  BY DEF ViewsOfOthersKept, KeepsView, Known, Promise!Open, Promise!Write
<1> QED
  BY <1>1 DEF Allowed, Promise!Next

LEMMA SendIsAllowed ==
  ASSUME NEW c \in Cids, ViewsOfOthersKept(c), Book(c) \in {"due", "unsure"},
         Book(c)' = Book(c), Known(c)' = Known(c), Market(c) = "away",
         Market(c)' = "coming", venue'[c].filled = venue[c].filled
  PROVE  Allowed
<1>1. Promise!Send(c)
  BY DEF ViewsOfOthersKept, KeepsView, Known, Promise!Send
<1> QED
  BY <1>1 DEF Allowed, Promise!Next

LEMMA DoubtIsAllowed ==
  ASSUME NEW c \in Cids, ViewsOfOthersKept(c), Book(c) \in {"due", "live"},
         Book(c)' = "unsure", Known(c)' = Known(c),
         Market(c)' = Market(c), venue'[c].filled = venue[c].filled
  PROVE  Allowed
<1>1. Promise!Doubt(c)
  BY DEF ViewsOfOthersKept, KeepsView, Known, Promise!Doubt, Promise!Write
<1> QED
  BY <1>1 DEF Allowed, Promise!Next

LEMMA LearnIsAllowed ==
  ASSUME NEW c \in Cids, ViewsOfOthersKept(c),
         Book(c) \in {"due", "unsure", "live"}, Market(c) # "away",
         Known(c)' \in Known(c)..venue[c].filled,
         venue'[c].filled = venue[c].filled,
         \/ Book(c)' = "unsure" /\ Market(c)' = Market(c)
         \/ Book(c)' = "live" /\ Market(c)' = Market(c) /\ Market(c) \in {"open", "closed"}
         \/ Book(c)' = "done" /\ Market(c)' = Market(c) /\ Market(c) \in {"gone", "closed"}
         \/ Book(c)' = "done" /\ Market(c)' = "gone" /\ Market(c) = "coming"
  PROVE  Allowed
<1>1. Promise!Learn(c)
  <2>1. /\ [d \in Cids |-> Book(d)]' = [[d \in Cids |-> Book(d)] EXCEPT ![c] = Book(c)']
        /\ [d \in Cids |-> Known(d)]' = [[d \in Cids |-> Known(d)] EXCEPT ![c] = Known(c)']
        /\ [d \in Cids |-> Market(d)]' = [[d \in Cids |-> Market(d)] EXCEPT ![c] = Market(c)']
        /\ [d \in Cids |-> venue[d].filled]' = [d \in Cids |-> venue[d].filled]
    BY DEF ViewsOfOthersKept, KeepsView
  <2>2. Market(c)' = Market(c) =>
          [d \in Cids |-> Market(d)]' = [d \in Cids |-> Market(d)]
    BY <2>1
  <2> QED
    BY <2>1, <2>2 DEF Known, Promise!Learn, Promise!Write
<1> QED
  BY <1>1 DEF Allowed, Promise!Next

LEMMA LearnLateIsAllowed ==
  ASSUME NEW c \in Cids, ViewsOfOthersKept(c), Book(c) = "done",
         Market(c) = "closed", Book(c)' = Book(c), Market(c)' = Market(c),
         Known(c)' \in Known(c)..venue[c].filled,
         venue'[c].filled = venue[c].filled
  PROVE  Allowed
<1>1. Promise!LearnLate(c)
  BY DEF ViewsOfOthersKept, KeepsView, Known, Promise!LearnLate
<1> QED
  BY <1>1 DEF Allowed, Promise!Next

LEMMA ArriveIsAllowed ==
  ASSUME NEW c \in Cids, ViewsOfOthersKept(c), Market(c) = "coming",
         Market(c)' \in {"open", "gone"}, Book(c)' = Book(c),
         Known(c)' = Known(c), venue'[c].filled = venue[c].filled
  PROVE  Allowed
<1>1. Promise!Arrive(c)
  BY DEF ViewsOfOthersKept, KeepsView, Known, Promise!Arrive
<1> QED
  BY <1>1 DEF Allowed, Promise!Next

LEMMA TradeIsAllowed ==
  ASSUME NEW c \in Cids, ViewsOfOthersKept(c), Market(c) \in {"open", "closed"},
         venue[c].filled < Qty, venue'[c].filled = venue[c].filled + 1,
         Market(c)' \in {Market(c), "closed"}, Book(c)' = Book(c),
         Known(c)' = Known(c)
  PROVE  Allowed
<1>1. Promise!Trade(c)
  BY DEF ViewsOfOthersKept, KeepsView, Known, Promise!Trade
<1> QED
  BY <1>1 DEF Allowed, Promise!Next

LEMMA CloseIsAllowed ==
  ASSUME NEW c \in Cids, ViewsOfOthersKept(c), Market(c) = "open",
         Market(c)' = "closed", Book(c)' = Book(c), Known(c)' = Known(c),
         venue'[c].filled = venue[c].filled
  PROVE  Allowed
<1>1. Promise!Close(c)
  BY DEF ViewsOfOthersKept, KeepsView, Known, Promise!Close
<1> QED
  BY <1>1 DEF Allowed, Promise!Next

-----------------------------------------------------------------------------
(* Every step is allowed.                                                  *)

\* The lot counts of a state.
LEMMA LotsAreNumbers ==
  ASSUME TypeOK
  PROVE  /\ Qty \in Nat
         /\ \A d \in Cids : venue[d].filled \in 0..Qty /\ venue[d].status \in VenueStates
         /\ \A d \in Cids :
              Exists(d) =>
                orders[d] \in Orders /\ orders[d].filled \in 0..Qty
                /\ orders[d].approved \in 0..Qty
BY ConstantsAssumption DEF TypeOK, Exists, Orders

\* A step that writes order c at most, and nothing of the market.
WritesOnly(c) ==
  /\ \A d \in Cids \ {c} : orders'[d] = orders[d]
  /\ UNCHANGED <<wire, venue, sends>>

LEMMA WritesKeepViews ==
  ASSUME NEW c \in Cids, WritesOnly(c)
  PROVE  ViewsOfOthersKept(c) /\ Market(c)' = Market(c)
BY DEF WritesOnly, ViewsOfOthersKept, KeepsView, Book, Known, Market, Exists,
       OpenAtVenue

LEMMA KeptIsAllowed ==
  ASSUME UNCHANGED <<orders, wire, venue, sends>>
  PROVE  Allowed
<1>1. \A d \in Cids : KeepsView(d)
  BY DEF KeepsView, Book, Known, Market, Exists, OpenAtVenue
<1> QED
  BY <1>1, NothingSeen

LEMMA PutWrites ==
  ASSUME TypeOK, NEW p \in Procs, NEW c \in Cids, NEW o \in Orders, Put(p, c, o),
         UNCHANGED <<wire, venue, sends>>
  PROVE  WritesOnly(c) /\ orders'[c] = o /\ Exists(c)'
BY NoOrderAssumption DEF TypeOK, Put, WritesOnly, Exists

\* A local transition to SUBMITTING or UNKNOWN.
LEMMA MoveIsAllowed ==
  ASSUME TypeOK, NEW p \in Procs, NEW c \in Cids, Exists(c),
         NEW status \in {"SUBMITTING", "UNKNOWN"}, Move(p, c, status),
         UNCHANGED <<wire, venue, sends>>
  PROVE  Allowed
<1> DEFINE new == Moved(orders[c], status, now)
<1>1. orders[c] \in Orders /\ status \in Statuses /\ now \in Times
  BY DEF TypeOK, Exists, Statuses
<1>2. new \in Orders /\ Put(p, c, new) /\ CanMove(orders[c], status, now)
  BY <1>1, MovedType DEF Move
<1>3. WritesOnly(c) /\ orders'[c] = new /\ Exists(c)'
  BY <1>2, PutWrites
<1>4. new.status = status /\ new.filled = orders[c].filled
  BY DEF Moved, Advance
<1>5. Known(c)' = Known(c)
  BY <1>3, <1>4 DEF Known
<1>6. ViewsOfOthersKept(c) /\ Market(c)' = Market(c) /\ venue' = venue
  BY <1>3, WritesKeepViews DEF WritesOnly
<1>7. status \in AllowedTransitions[orders[c].status] /\ orders[c].status \in Statuses
  BY <1>1, <1>2 DEF CanMove, CanTransition, Orders
<1>8. CASE status = "SUBMITTING"
  <2>1. orders[c].status = "PREPARED"
    BY <1>7, <1>8 DEF AllowedTransitions, Statuses
  <2>2. Book(c) = "due" /\ Book(c)' = "due"
    BY <1>3, <1>4, <1>8, <2>1 DEF Book
  <2> QED
    BY <1>5, <1>6, <2>2, NothingSeen DEF ViewsOfOthersKept, KeepsView
<1>9. CASE status = "UNKNOWN"
  <2>1. orders[c].status \notin TerminalStates
    BY <1>7, <1>9 DEF AllowedTransitions, Statuses, TerminalStates
  <2>2. Book(c) \in {"due", "unsure", "live"} /\ Book(c)' = "unsure"
    BY <1>3, <1>4, <1>9, <2>1 DEF Book
  <2>3. CASE Book(c) = "unsure"
    BY <1>5, <1>6, <2>2, <2>3, NothingSeen DEF ViewsOfOthersKept, KeepsView
  <2>4. CASE Book(c) # "unsure"
    BY <1>5, <1>6, <2>2, <2>4, DoubtIsAllowed
  <2> QED
    BY <2>3, <2>4
<1> QED
  BY <1>8, <1>9

\* What a fact that changes an order says is true of it.
LEMMA FactsAreLearned ==
  ASSUME Inv, Agreement, Course, NEW c \in Cids, Exists(c), NEW s \in Answers(c),
         ~Refused(orders[c], s), Applied(orders[c], s) # orders[c]
  PROVE  /\ Applied(orders[c], s).status \notin {"PREPARED", "SUBMITTING"}
         /\ Applied(orders[c], s).status \in TerminalStates =>
              Ended(c) \/ FinishedAtVenue(c)
         /\ Ended(c) => Applied(orders[c], s).status \in TerminalStates
         /\ Applied(orders[c], s).filled \in orders[c].filled..venue[c].filled
         /\ OpenAtVenue(c) \/ FinishedAtVenue(c)
<1> DEFINE o == orders[c]
           new == Applied(o, s)
<1>1. PICK f \in facts[c] : s.filled = f.filled
  BY DEF Answers, Blurred
<1>2. s \in Facts /\ o \in Orders /\ new \in Orders
  BY AnswersType, AppliedType DEF Inv, TypeOK, Exists
<1>3. new = Advance(o, Reported(o, s), s.filled, OccurredAt(o, s), s.xid)
  BY DEF Applied
<1>4. new.status = Reported(o, s) /\ new.filled = s.filled
  BY <1>3 DEF Advance
<1>5. new.status \notin {"PREPARED", "SUBMITTING"}
  BY <1>2, <1>4 DEF Reported, Facts, ExternalStates
<1>6. venue[c].status \notin {"NONE", "REFUSED"} /\ venue[c].status \in VenueStates
  BY <1>1, LotsAreNumbers DEF Course, UnsentIsUnseen, Inv
<1>7. OpenAtVenue(c) \/ FinishedAtVenue(c)
  BY <1>6 DEF VenueStates, OpenAtVenue, FinishedAtVenue
<1>8. new.status \in TerminalStates => Ended(c) \/ FinishedAtVenue(c)
  <2>1. MayBecome(c, new)
    BY AppliedEnds
  <2>2. ~Bounced(c)
    BY <1>6 DEF Bounced, Course, WireIsFresh
  <2> QED
    BY <2>1, <2>2 DEF MayBecome
<1>9. Ahead(o, new)
  BY <1>2, AppliedAhead
<1>10. Ended(c) => new.status \in TerminalStates
  BY <1>9 DEF Ahead, Ended, TerminalStates
<1>11. new.filled \in o.filled..venue[c].filled
  <2>1. new.filled <= venue[c].filled
    BY <1>1, <1>4 DEF Agreement, FactsReal
  <2>2. o.filled <= new.filled
    BY <1>9 DEF Ahead
  <2>3. new.filled \in 0..Qty /\ o.filled \in 0..Qty /\ venue[c].filled \in 0..Qty
    BY <1>2, LotsAreNumbers DEF Orders, Inv
  <2> QED
    BY <2>1, <2>2, <2>3
<1> QED
  BY <1>5, <1>7, <1>8, <1>10, <1>11

LEMMA MergeIsAllowed ==
  ASSUME Inv, Agreement, Course, NEW p \in Procs, NEW c \in Cids, Exists(c),
         NEW s \in Answers(c), ~Refused(orders[c], s),
         Put(p, c, Applied(orders[c], s)), UNCHANGED <<wire, venue, sends>>
  PROVE  Allowed
<1> DEFINE new == Applied(orders[c], s)
<1>1. TypeOK /\ new \in Orders
  BY AnswersType, AppliedType DEF Inv, TypeOK, Exists
<1>2. WritesOnly(c) /\ orders'[c] = new /\ Exists(c)'
  BY <1>1, PutWrites
<1>3. ViewsOfOthersKept(c) /\ Market(c)' = Market(c) /\ venue' = venue
  BY <1>2, WritesKeepViews DEF WritesOnly
<1>4. CASE new = orders[c]
  <2>1. Book(c)' = Book(c) /\ Known(c)' = Known(c)
    BY <1>2, <1>4 DEF Book, Known
  <2> QED
    BY <1>3, <2>1, NothingSeen DEF ViewsOfOthersKept, KeepsView
<1>5. CASE new # orders[c]
  <2>1. /\ new.status \notin {"PREPARED", "SUBMITTING"}
        /\ new.status \in TerminalStates => Ended(c) \/ FinishedAtVenue(c)
        /\ Ended(c) => new.status \in TerminalStates
        /\ new.filled \in orders[c].filled..venue[c].filled
        /\ OpenAtVenue(c) \/ FinishedAtVenue(c)
    BY <1>5, FactsAreLearned
  <2>2. Known(c)' \in Known(c)..venue[c].filled
    BY <1>2, <2>1 DEF Known
  <2>3. /\ Market(c) \in {"open", "closed"}
        /\ ~OpenAtVenue(c) => Market(c) = "closed"
        /\ FinishedAtVenue(c) => Market(c) = "closed"
    BY <2>1 DEF Market, OpenAtVenue, FinishedAtVenue
  <2> HIDE DEF new
  <2>4. Book(c)' = IF new.status = "UNKNOWN" THEN "unsure"
                   ELSE IF new.status \in TerminalStates THEN "done" ELSE "live"
    BY <1>2, <2>1 DEF Book
  <2>5. CASE Ended(c)
    <3>1. Book(c) = "done" /\ Book(c)' = "done"
      BY <2>1, <2>4, <2>5 DEF Book, Ended, TerminalStates
    <3>2. Market(c) = "closed"
      BY <2>3, <2>5 DEF Course, FinishedIsNotOpen, StatusOf, Ended
    <3> QED
      BY <1>3, <2>2, <3>1, <3>2, LearnLateIsAllowed
  <2>6. CASE ~Ended(c)
    <3>1. Book(c) \in {"due", "unsure", "live"}
      BY <2>6 DEF Book, Ended
    <3>2. Book(c)' = "done" => Market(c) = "closed"
      BY <2>1, <2>3, <2>4, <2>6
    <3>3. Book(c)' \in {"unsure", "live", "done"}
      BY <2>4
    <3> QED
      BY <1>3, <2>2, <2>3, <3>1, <3>2, <3>3, LearnIsAllowed
  <2> QED
    BY <2>5, <2>6
<1> QED
  BY <1>4, <1>5

LEMMA InvalidAckIsAllowed ==
  ASSUME TypeOK, NEW p \in Procs, NEW c \in Cids, Exists(c), InvalidAck(p, c),
         UNCHANGED <<wire, venue, sends>>
  PROVE  Allowed
<1>1. Move(p, c, "UNKNOWN") \/ UNCHANGED orders
  BY DEF InvalidAck, Reread, NoPut
<1> QED
  BY <1>1, MoveIsAllowed, KeptIsAllowed

LEMMA TakeAckIsAllowed ==
  ASSUME Inv, Agreement, Course, NEW p \in Procs, NEW c \in Cids, Exists(c),
         NEW s \in Answers(c), TakeAck(p, c, s), UNCHANGED <<wire, venue, sends>>
  PROVE  Allowed
BY InvalidAckIsAllowed, MergeIsAllowed DEF TakeAck, Inv

LEMMA AdmitIsAllowed ==
  ASSUME Inv, Agreement, NEW p \in Procs, NEW c \in Cids, Admit(p, c)
  PROVE  Allowed
<1>1. ~Exists(c) /\ UNCHANGED <<wire, venue, sends>>
  BY DEF Admit, venueVars
<1>2. \E o \in Orders :
        /\ Put(p, c, o) /\ o.filled = 0
        /\ o.status \in {"PREPARED", "REJECTED"}
  <2>1. now \in Times /\ 0 \in 0..Qty /\ 1..Qty \subseteq 0..Qty
    BY ConstantsAssumption DEF Inv, TypeOK
  <2>2. CASE Put(p, c, [status |-> "REJECTED", filled |-> 0, approved |-> 0,
                        at |-> now, xid |-> FALSE])
    <3> DEFINE o == [status |-> "REJECTED", filled |-> 0, approved |-> 0,
                     at |-> now, xid |-> FALSE]
    <3>1. o \in Orders
      BY <2>1 DEF Orders, Statuses
    <3>2. o.filled = 0 /\ o.status = "REJECTED" /\ Put(p, c, o)
      BY <2>2
    <3> HIDE DEF o
    <3> QED
      BY <3>1, <3>2
  <2>3. ASSUME NEW approved \in 1..Qty,
               Put(p, c, [status |-> "PREPARED", filled |-> 0,
                          approved |-> approved, at |-> now, xid |-> FALSE])
        PROVE  \E o \in Orders :
                 /\ Put(p, c, o) /\ o.filled = 0
                 /\ o.status \in {"PREPARED", "REJECTED"}
    <3> DEFINE o == [status |-> "PREPARED", filled |-> 0,
                     approved |-> approved, at |-> now, xid |-> FALSE]
    <3>1. o \in Orders
      BY <2>1 DEF Orders, Statuses
    <3>2. o.filled = 0 /\ o.status = "PREPARED" /\ Put(p, c, o)
      BY <2>3
    <3> HIDE DEF o
    <3> QED
      BY <3>1, <3>2
  <2> QED
    BY <2>2, <2>3 DEF Admit
<1>3. PICK o \in Orders : /\ Put(p, c, o) /\ o.filled = 0
                          /\ o.status \in {"PREPARED", "REJECTED"}
  BY <1>2
<1>4. WritesOnly(c) /\ orders'[c] = o /\ Exists(c)'
  BY <1>1, <1>3, PutWrites DEF Inv
<1>5. ViewsOfOthersKept(c) /\ Market(c)' = Market(c) /\ venue' = venue
  BY <1>4, WritesKeepViews DEF WritesOnly
<1>6. Book(c) = "none" /\ Book(c)' \in {"due", "done"} /\ Known(c)' = Known(c)
  BY <1>1, <1>3, <1>4 DEF Book, Known, TerminalStates
<1> QED
  BY <1>5, <1>6, OpenIsAllowed

LEMMA SendingIsAllowed ==
  ASSUME Inv, Agreement, Course, NEW p \in Procs, NEW c \in Cids, Send(p, c)
  PROVE  Allowed
<1> USE DEF storeVars
<1>1. Exists(c) /\ sends[c] = 0
  BY DEF Send, Inv, RecordsPrecedeWork, OneSender
<1>2. venue[c].status = "NONE" /\ c \notin wire /\ ~Live(c) /\ ~Ended(c)
  BY <1>1 DEF Course, UnsentIsUnseen, WireIsFresh, LiveWasSent, SendingIsAlive,
              Send, Sending
<1>3. orders[c].status \in Statuses
  BY <1>1, LotsAreNumbers DEF Inv, Orders
<1>4. Book(c) \in {"due", "unsure"}
  BY <1>1, <1>2, <1>3 DEF Book, Live, Ended, Statuses, TerminalStates
<1>5. /\ UNCHANGED <<orders, venue>> /\ c \in wire'
      /\ \A d \in Cids \ {c} : (d \in wire' <=> d \in wire) /\ sends'[d] = sends[d]
  BY DEF Send, Inv, TypeOK
<1>6. ViewsOfOthersKept(c)
  BY <1>5 DEF ViewsOfOthersKept, KeepsView, Book, Known, Market, Exists,
              OpenAtVenue
<1>7. Market(c) = "away" /\ Market(c)' = "coming"
  BY <1>1, <1>2, <1>5 DEF Market, OpenAtVenue
<1>8. Book(c)' = Book(c) /\ Known(c)' = Known(c)
  BY <1>5 DEF Book, Known, Exists
<1> QED
  BY <1>4, <1>5, <1>6, <1>7, <1>8, SendIsAllowed

LEMMA RejectionIsAllowed ==
  ASSUME Inv, Agreement, Course, NEW p \in Procs, NEW c \in Cids,
         SubmitRejected(p, c)
  PROVE  Allowed
<1>1. Exists(c) /\ TypeOK
  BY DEF SubmitRejected, Inv, RecordsPrecedeWork
\* The request is bounced: from the wire, or by the venue before.
<1>2. /\ Market(c) \in {"coming", "gone"} /\ sends[c] # 0
      /\ c \in wire => Market(c) = "coming"
      /\ c \notin wire => Market(c) = "gone"
      /\ venue[c].status \in {"NONE", "REFUSED"}
  <2>1. /\ c \in wire => venue[c].status = "NONE" /\ sends[c] > 0
        /\ sends[c] = 0 => venue[c].status = "NONE"
    BY DEF Course, WireIsFresh, UnsentIsUnseen
  <2>2. c \in wire \/ venue[c].status = "REFUSED"
    BY DEF SubmitRejected
  <2> QED
    BY <2>1, <2>2 DEF Market, OpenAtVenue
<1>3. /\ c \notin wire' /\ UNCHANGED <<venue, sends>>
      /\ \A d \in Cids \ {c} : d \in wire' <=> d \in wire
  BY DEF SubmitRejected
<1>4. Market(c)' = "gone"
  BY <1>2, <1>3 DEF Market, OpenAtVenue
<1>5. CASE Move(p, c, "REJECTED")
  <2> DEFINE new == Moved(orders[c], "REJECTED", now)
  <2>1. /\ new \in Orders /\ Put(p, c, new)
        /\ orders[c].status \in Statuses
        /\ "REJECTED" \in AllowedTransitions[orders[c].status]
    BY <1>1, <1>5, LotsAreNumbers, MovedType
    DEF Move, CanMove, CanTransition, Statuses, TypeOK, Orders
  <2>2. /\ orders'[c] = new /\ Exists(c)'
        /\ \A d \in Cids \ {c} : orders'[d] = orders[d]
    BY <1>1, <2>1, NoOrderAssumption DEF Put, TypeOK, Exists
  <2>3. new.status = "REJECTED" /\ new.filled = orders[c].filled
    BY DEF Moved, Advance
  <2>4. Book(c)' = "done" /\ Known(c)' = Known(c) /\ Known(c) = orders[c].filled
    BY <1>1, <2>2, <2>3 DEF Book, Known, TerminalStates
  <2>5. Book(c) \in {"due", "unsure", "live"}
    <3>1. orders[c].status \notin TerminalStates
      BY <2>1 DEF AllowedTransitions, Statuses, TerminalStates
    <3> QED
      BY <1>1, <3>1 DEF Book
  <2>6. Known(c)' \in Known(c)..venue[c].filled
    BY <1>1, <2>4, LotsAreNumbers DEF Agreement, FillsAreReal
  <2>7. ViewsOfOthersKept(c)
    BY <1>3, <2>2 DEF ViewsOfOthersKept, KeepsView, Book, Known, Market, Exists,
                      OpenAtVenue
  <2> QED
    BY <1>2, <1>3, <1>4, <2>4, <2>5, <2>6, <2>7, LearnIsAllowed
<1>6. CASE UNCHANGED orders
  <2>1. ViewsOfOthersKept(c)
    BY <1>3, <1>6 DEF ViewsOfOthersKept, KeepsView, Book, Known, Market, Exists,
                      OpenAtVenue
  <2>2. Book(c)' = Book(c) /\ Known(c)' = Known(c)
    BY <1>6 DEF Book, Known, Exists
  <2>3. CASE Market(c) = "coming"
    BY <1>3, <1>4, <2>1, <2>2, <2>3, ArriveIsAllowed
  <2>4. CASE Market(c) = "gone"
    BY <1>3, <1>4, <2>1, <2>2, <2>4, NothingSeen
    DEF ViewsOfOthersKept, KeepsView
  <2> QED
    BY <1>2, <2>3, <2>4
<1> QED
  BY <1>5, <1>6 DEF SubmitRejected, NoPut

LEMMA ServiceStepAllowed ==
  ASSUME Inv, Agreement, Course, NEW p \in Procs, NEW c \in Cids,
         \/ Submitting(p, c) \/ Canceling(p, c) \/ Observing(p, c)
         \/ Recover(p, c) \/ Complete(p, c) \/ StoreError(p, c)
  PROVE  Allowed
<1> USE DEF venueVars, storeVars
<1>0. TypeOK /\ facts[c] \subseteq Answers(c)
  BY DEF Inv, Answers
<1>1. CASE \/ BeginSubmit(p, c) \/ Reserve(p, c)
           \/ BeginCancel(p, c) \/ CancelRefused(p, c) \/ Complete(p, c)
           \/ Abandon(p, c) \/ Raise(p, c)
  BY <1>1, KeptIsAllowed
  DEF BeginSubmit, Reserve, BeginCancel, CancelRefused, Complete, Abandon, Raise
<1>2. CASE \/ Replay(p, c) \/ Mark(p, c) \/ SubmitUncertain(p, c)
           \/ CancelUncertain(p, c)
  <2>1. Exists(c) /\ UNCHANGED <<wire, venue, sends>>
    BY <1>2 DEF Replay, Mark, SubmitUncertain, CancelUncertain, Inv,
                RecordsPrecedeWork
  <2>2. Move(p, c, "UNKNOWN") \/ Move(p, c, "SUBMITTING") \/ UNCHANGED orders
    BY <1>2 DEF Replay, Mark, SubmitUncertain, CancelUncertain, NoPut
  <2> QED
    BY <1>0, <2>1, <2>2, MoveIsAllowed, KeptIsAllowed
<1>3. CASE \/ SubmitAcknowledged(p, c) \/ CancelAcknowledged(p, c)
           \/ CancelRecover(p, c)
  <2>1. Exists(c) /\ UNCHANGED <<wire, venue, sends>>
    BY <1>3 DEF SubmitAcknowledged, CancelAcknowledged, CancelRecover, Inv,
                RecordsPrecedeWork
  <2>2. \/ \E s \in Answers(c) : TakeAck(p, c, s)
        \/ InvalidAck(p, c)
        \/ UNCHANGED orders
    BY <1>0, <1>3 DEF SubmitAcknowledged, CancelAcknowledged, CancelRecover,
                      NoPut
  <2> QED
    BY <1>0, <2>1, <2>2, TakeAckIsAllowed, InvalidAckIsAllowed, KeptIsAllowed
<1>4. CASE Recover(p, c)
  <2>1. Exists(c) /\ UNCHANGED <<wire, venue, sends>>
    BY <1>4 DEF Recover, Inv, RecordsPrecedeWork
  <2>2. \/ \E s \in Answers(c) :
             ~Refused(orders[c], s) /\ Put(p, c, Applied(orders[c], s))
        \/ UNCHANGED orders
    BY <1>0, <1>4 DEF Recover, NoPut
  <2> QED
    BY <2>1, <2>2, MergeIsAllowed, KeptIsAllowed
<1>5. CASE Observing(p, c)
  <2>1. \E s \in Answers(c) : AbsorbFact(p, c, s)
    BY <1>0, <1>5
    DEF Observing, ApplyExchangeEvent, ResolveUnknown, RefreshOrder
  <2> QED
    BY <2>1, MergeIsAllowed DEF AbsorbFact
<1> QED
  BY <1>1, <1>2, <1>3, <1>4, <1>5, AdmitIsAllowed, SendingIsAllowed,
     RejectionIsAllowed
  DEF Submitting, Canceling, ReplayFails, AdmitFails, MarkFails, StoreError

LEMMA VenueIsAllowed ==
  ASSUME Inv, Course, NEW c \in Cids, Venue(c)
  PROVE  Allowed
<1> USE DEF VenueUnchanged, storeVars, procVars
<1>1. UNCHANGED <<orders, sends>> /\ TypeOK
  BY DEF Venue, VenueAccepts, VenueRefuses, RequestLost, VenueFills,
         VenueCancels, Inv
<1>2. /\ \A d \in Cids \ {c} : venue'[d] = venue[d]
      /\ \A d \in Cids \ {c} : d \in wire' <=> d \in wire
  BY <1>1 DEF Venue, VenueAccepts, VenueRefuses, RequestLost, VenueFills,
              VenueCancels, TypeOK
<1>3. ViewsOfOthersKept(c) /\ Book(c)' = Book(c) /\ Known(c)' = Known(c)
  BY <1>1, <1>2 DEF ViewsOfOthersKept, KeepsView, Book, Known, Market, Exists,
                    OpenAtVenue
<1>4. venue \in [Cids -> [status : VenueStates, filled : 0..Qty]]
  BY <1>1 DEF TypeOK
<1>5. c \in wire => venue[c].status = "NONE" /\ sends[c] # 0
  <2>1. c \in wire => venue[c].status = "NONE" /\ sends[c] > 0
    BY DEF Course, WireIsFresh
  <2> QED
    BY <2>1
<1>6. CASE VenueAccepts(c) \/ VenueRefuses(c) \/ RequestLost(c)
  <2>1. /\ c \in wire /\ c \notin wire' /\ venue'[c].filled = venue[c].filled
        /\ venue'[c].status \in {"NEW", "REFUSED", "NONE"}
    BY <1>4, <1>5, <1>6 DEF VenueAccepts, VenueRefuses, RequestLost
  <2>2. Market(c) = "coming" /\ Market(c)' \in {"open", "gone"}
    BY <1>1, <1>5, <2>1 DEF Market, OpenAtVenue
  <2> QED
    BY <1>3, <2>1, <2>2, ArriveIsAllowed
<1>7. CASE VenueFills(c)
  <2>1. /\ venue[c].status \in {"NEW", "PARTIAL", "CANCELED"} /\ Exists(c)
        /\ venue[c].filled < orders[c].approved
        /\ venue'[c].filled = venue[c].filled + 1
        /\ venue'[c].status \in {"FILLED", "CANCELED", "PARTIAL"}
        /\ venue[c].status = "CANCELED" => venue'[c].status # "PARTIAL"
    BY <1>4, <1>7 DEF VenueFills
  <2>2. venue[c].filled < Qty
    BY <1>1, <2>1, LotsAreNumbers
  <2>3. Market(c) \in {"open", "closed"} /\ Market(c)' \in {Market(c), "closed"}
    BY <2>1 DEF Market, OpenAtVenue
  <2> QED
    BY <1>3, <2>1, <2>2, <2>3, TradeIsAllowed
<1>8. CASE VenueCancels(c)
  <2>1. OpenAtVenue(c) /\ venue'[c].status = "CANCELED"
        /\ venue'[c].filled = venue[c].filled
    BY <1>4, <1>8 DEF VenueCancels
  <2>2. Market(c) = "open" /\ Market(c)' = "closed"
    BY <2>1 DEF Market, OpenAtVenue
  <2> QED
    BY <1>3, <2>1, <2>2, CloseIsAllowed
<1> QED
  BY <1>6, <1>7, <1>8 DEF Venue

LEMMA NextIsAllowed ==
  ASSUME Inv, Agreement, Course, Next
  PROVE  Allowed
<1>1. CASE \/ \E p \in Procs : Operator(p)
           \/ \E c \in Cids : ReservationExpires(c)
           \/ Tick
  BY <1>1, KeptIsAllowed
  DEF Operator, Crash, ActivateKillSwitch, DeactivateKillSwitch,
      ReservationExpires, Tick, storeVars, procVars, venueVars
<1> QED
  BY <1>1, ServiceStepAllowed, VenueIsAllowed DEF Next

LEMMA InitPromise == Init => Promise!Init
BY DEF Init, Promise!Init, Book, Market, Exists, OpenAtVenue

\* For any number of processes and orders, any quantity and any disagreement
\* of the clocks: the submit, cancel, replay, refresh and event paths, their
\* failures and the venue together do only what OrderPromise allows.
THEOREM PromiseIsKept == Spec => KeepsPromise
<1>1. Inv /\ Agreement /\ Course /\ [Next]_vars => [Promise!Next]_(Promise!vars)
  <2>1. ASSUME UNCHANGED vars
        PROVE  Allowed
    BY <2>1, KeptIsAllowed DEF vars, storeVars, procVars, venueVars
  <2> QED
    BY <2>1, NextIsAllowed DEF Allowed
<1> QED
  BY <1>1, InitPromise, InvHolds, AgreementHolds, CourseHolds, PTL
  DEF Spec, KeepsPromise, Promise!Spec

-----------------------------------------------------------------------------
(* Settled keys, when the venue's clock is not behind.                     *)

Classified(c) == Exists(c) /\ orders[c].status \notin {"PREPARED", "SUBMITTING"}

\* The phases of an operation that has its outcome.
Settling == {"recover", "cancel_recover", "settle", "complete"}

OutcomesAreKnown ==
  \A p \in Procs, c \in Cids : pc[p][c] \in Settling => Classified(c)

\* What a replay was told of its order stays true of it.
ReplaysSaw ==
  \A p \in Procs, c \in Cids :
    /\ seen[p][c] \notin {"NONE", "PREPARED", "SUBMITTING"} => Classified(c)
    /\ pc[p][c] = "replay" => seen[p][c] # "NONE"

\* No report of an order on its way out is older than its record.
ReportsAreNew ==
  \A c \in Cids :
    Exists(c) /\ ~Classified(c) =>
      /\ orders[c].at <= now
      /\ \A s \in facts[c] : orders[c].at <= s.at

Settlement ==
  OutcomesAreKnown /\ ReplaysSaw /\ ReportsAreNew /\ SettledIsClassified

\* A step of p classifies order c before it settles it, and stamps a record
\* that is on its way out before anything is heard of it.
Classifies(p, c) ==
  /\ Classified(c) => Classified(c)'
  /\ Exists(c)' /\ ~Classified(c)' =>
       \/ Exists(c) /\ orders'[c] = orders[c]
       \/ orders'[c].at = now /\ facts[c] = {}
  /\ pc'[p][c] \in Settling => Classified(c)'

LEMMA KeptClassifies ==
  ASSUME NEW p, NEW c, UNCHANGED orders,
         pc'[p][c] \in Settling => Classified(c)
  PROVE  Classifies(p, c)
BY DEF Classifies, Classified, Exists

LEMMA PutClassifies ==
  ASSUME TypeOK, NEW p \in Procs, NEW c \in Cids, NEW o \in Orders, Put(p, c, o),
         o.status \notin {"PREPARED", "SUBMITTING"}
  PROVE  Classifies(p, c) /\ Classified(c)'
<1>1. orders'[c] = o /\ o # NoOrder
  BY NoOrderAssumption DEF Put, TypeOK
<1> QED
  BY <1>1 DEF Classifies, Classified, Exists

LEMMA MoveClassifies ==
  ASSUME TypeOK, NEW p \in Procs, NEW c \in Cids, Exists(c),
         NEW status \in {"UNKNOWN", "REJECTED"}, Move(p, c, status)
  PROVE  Classifies(p, c)
<1>1. orders[c] \in Orders /\ status \in Statuses /\ now \in Times
  BY DEF TypeOK, Exists, Statuses
<1>2. Moved(orders[c], status, now) \in Orders
  BY <1>1, MovedType
<1>3. Moved(orders[c], status, now).status = status
  BY DEF Moved, Advance
<1> QED
  BY <1>2, <1>3, PutClassifies DEF Move

\* An order on its way out takes the first report of it that is not refused.
LEMMA AppliedClassifies ==
  ASSUME Inv, Settlement, NEW c \in Cids, Exists(c), NEW s \in Answers(c),
         ~Refused(orders[c], s)
  PROVE  Applied(orders[c], s).status \notin {"PREPARED", "SUBMITTING"}
<1> DEFINE o == orders[c]
<1>1. PICK f \in facts[c] : s.at = f.at
  BY DEF Answers, Blurred
<1>2. s \in Facts
  BY AnswersType DEF Inv
<1>3. Reported(o, s) \notin {"PREPARED", "SUBMITTING"}
  BY <1>2 DEF Reported, Facts, ExternalStates
<1>4. CASE Classified(c)
  BY <1>3, <1>4 DEF Applied, Advance, Classified
<1>5. CASE ~Classified(c)
  <2>1. ~Stale(o, s)
    <3>1. o.at <= s.at
      BY <1>1, <1>5 DEF Settlement, ReportsAreNew
    <3>2. o.at \in Int /\ s.at \in Int
      BY <1>2, ConstantsAssumption
      DEF Inv, TypeOK, Exists, Orders, Facts, Times, VenueTimes
    <3> QED
      BY <3>1, <3>2 DEF Stale
  <2>2. ~SameFact(o, s)
    BY <1>3, <1>5 DEF SameFact, Classified
  <2>3. ~Outdated(o, s) /\ Absorbable(o, s)
    BY <2>1, <2>2 DEF Outdated, Refused
  <2>4. Applied(o, s) = Advance(o, Reported(o, s), s.filled, OccurredAt(o, s), s.xid)
    BY <2>2, <2>3 DEF Applied
  <2> QED
    BY <1>3, <2>4 DEF Advance
<1> QED
  BY <1>4, <1>5

LEMMA MergeClassifies ==
  ASSUME Inv, Settlement, NEW p \in Procs, NEW c \in Cids, Exists(c),
         NEW s \in Answers(c), ~Refused(orders[c], s),
         Put(p, c, Applied(orders[c], s))
  PROVE  Classifies(p, c)
<1>1. Applied(orders[c], s) \in Orders
  BY AnswersType, AppliedType DEF Inv, TypeOK, Exists
<1> QED
  BY <1>1, AppliedClassifies, PutClassifies DEF Inv

\* Where an operation stands after its step.
LEMMA GoesTo ==
  ASSUME TypeOK, NEW p \in Procs, NEW c \in Cids, NEW ph, Go(p, c, ph)
  PROVE  pc'[p][c] = ph
BY DEF Go, TypeOK

LEMMA InvalidAckClassifies ==
  ASSUME TypeOK, NEW p \in Procs, NEW c \in Cids, Exists(c), InvalidAck(p, c)
  PROVE  Classifies(p, c)
<1>1. CASE Move(p, c, "UNKNOWN")
  BY <1>1, MoveClassifies
<1>2. CASE UNCHANGED orders /\ orders[c].status \in TerminalStates \cup {"UNKNOWN"}
  BY <1>2, KeptClassifies DEF Classified, TerminalStates
<1>3. CASE NoPut /\ Go(p, c, "idle")
  BY <1>3, KeptClassifies, GoesTo DEF NoPut, Settling
<1> QED
  BY <1>1, <1>2, <1>3 DEF InvalidAck, Reread

LEMMA TakeAckClassifies ==
  ASSUME Inv, Settlement, NEW p \in Procs, NEW c \in Cids, Exists(c),
         NEW s \in Answers(c), TakeAck(p, c, s)
  PROVE  Classifies(p, c)
BY InvalidAckClassifies, MergeClassifies DEF TakeAck, Inv

LEMMA ServiceStepClassifies ==
  ASSUME Inv, Agreement, Course, Settlement, NEW p \in Procs, NEW c \in Cids,
         \/ Submitting(p, c) \/ Canceling(p, c) \/ Observing(p, c)
         \/ Recover(p, c) \/ Complete(p, c) \/ StoreError(p, c)
  PROVE  Classifies(p, c)
<1> USE DEF venueVars, storeVars
<1>0. TypeOK /\ facts[c] \subseteq Answers(c)
  BY DEF Inv, Answers
<1>1. CASE \/ BeginSubmit(p, c) \/ Reserve(p, c) \/ Send(p, c)
           \/ BeginCancel(p, c) \/ CancelRefused(p, c) \/ Complete(p, c)
           \/ Abandon(p, c) \/ Raise(p, c)
  <2>1. UNCHANGED orders
    BY <1>1 DEF BeginSubmit, Reserve, Send, BeginCancel, CancelRefused, Complete,
                Abandon, Raise
  <2>2. \E ph : Go(p, c, ph) /\ ph \notin Settling
    BY <1>1 DEF BeginSubmit, Reserve, Send, BeginCancel, CancelRefused, Complete,
                Abandon, Raise, Settling
  <2> QED
    BY <1>0, <2>1, <2>2, KeptClassifies, GoesTo
<1>2. CASE Replay(p, c)
  <2>1. Exists(c)
    BY <1>2 DEF Replay, Inv, RecordsPrecedeWork
  <2>2. CASE seen[p][c] \in {"PREPARED", "SUBMITTING"}
    BY <1>0, <1>2, <2>1, <2>2, MoveClassifies DEF Replay
  <2>3. CASE seen[p][c] \notin {"PREPARED", "SUBMITTING"}
    <3>1. Classified(c)
      BY <1>2, <2>3 DEF Replay, Settlement, ReplaysSaw
    <3> QED
      BY <1>2, <2>3, <3>1, KeptClassifies DEF Replay
  <2> QED
    BY <2>2, <2>3
<1>3. CASE Admit(p, c)
  <2>1. facts[c] = {}
    BY <1>3 DEF Admit, Agreement, SentRecorded, Course, UnsentIsUnseen
  <2>2. now \in Times /\ 0 \in 0..Qty /\ 1..Qty \subseteq 0..Qty
    BY <1>0, ConstantsAssumption DEF TypeOK
  <2>3. ASSUME Go(p, c, "settle"),
               Put(p, c, [status |-> "REJECTED", filled |-> 0, approved |-> 0,
                          at |-> now, xid |-> FALSE])
        PROVE  Classifies(p, c)
    <3> DEFINE o == [status |-> "REJECTED", filled |-> 0, approved |-> 0,
                     at |-> now, xid |-> FALSE]
    <3>1. o \in Orders
      BY <2>2 DEF Orders, Statuses
    <3>2. o.status = "REJECTED" /\ Put(p, c, o)
      BY <2>3
    <3> HIDE DEF o
    <3> QED
      BY <1>0, <3>1, <3>2, PutClassifies
  <2>4. ASSUME NEW approved \in 1..Qty, Go(p, c, "mark"),
               Put(p, c, [status |-> "PREPARED", filled |-> 0,
                          approved |-> approved, at |-> now, xid |-> FALSE])
        PROVE  Classifies(p, c)
    <3>1. orders'[c].at = now
      BY <1>0, <2>4 DEF Put, TypeOK
    <3>2. pc'[p][c] = "mark"
      BY <1>0, <2>4, GoesTo
    <3>3. ~Classified(c)
      BY <1>3 DEF Admit, Classified
    <3> QED
      BY <2>1, <3>1, <3>2, <3>3 DEF Classifies, Settling
  <2> QED
    BY <1>3, <2>3, <2>4 DEF Admit
<1>4. CASE Mark(p, c)
  <2>1. Exists(c) /\ sends[c] = 0
    BY <1>4 DEF Mark, Inv, RecordsPrecedeWork, OneSender
  <2>2. facts[c] = {}
    BY <2>1 DEF Course, UnsentIsUnseen
  <2>3. orders'[c].at = now
    BY <1>0, <1>4 DEF Mark, Move, Put, Moved, Advance, TypeOK
  <2>4. orders[c].status = "PREPARED"
    <3>1. orders[c].status \in Statuses
      BY <1>0, <2>1, LotsAreNumbers DEF Orders
    <3>2. "SUBMITTING" \in AllowedTransitions[orders[c].status]
      BY <1>4 DEF Mark, Move, CanMove, CanTransition
    <3> QED
      BY <3>1, <3>2 DEF AllowedTransitions, Statuses
  <2>5. pc'[p][c] = "send"
    BY <1>0, <1>4, GoesTo DEF Mark
  <2> QED
    BY <2>2, <2>3, <2>4, <2>5 DEF Classifies, Classified, Settling
<1>5. CASE SubmitRejected(p, c) \/ SubmitUncertain(p, c) \/ CancelUncertain(p, c)
  <2>1. Exists(c)
    BY <1>5 DEF SubmitRejected, SubmitUncertain, CancelUncertain, Inv,
                RecordsPrecedeWork
  <2>2. \/ Move(p, c, "REJECTED") \/ Move(p, c, "UNKNOWN")
        \/ NoPut /\ Go(p, c, "idle")
    BY <1>5 DEF SubmitRejected, SubmitUncertain, CancelUncertain
  <2>3. CASE NoPut /\ Go(p, c, "idle")
    BY <1>0, <2>3, KeptClassifies, GoesTo DEF NoPut, Settling
  <2> QED
    BY <1>0, <2>1, <2>2, <2>3, MoveClassifies
<1>6. CASE SubmitAcknowledged(p, c) \/ CancelAcknowledged(p, c)
  <2>1. Exists(c)
    BY <1>6 DEF SubmitAcknowledged, CancelAcknowledged, Inv, RecordsPrecedeWork
  <2>2. (\E s \in Answers(c) : TakeAck(p, c, s)) \/ InvalidAck(p, c)
    BY <1>6 DEF SubmitAcknowledged, CancelAcknowledged
  <2> QED
    BY <1>0, <2>1, <2>2, TakeAckClassifies, InvalidAckClassifies
<1>7. CASE Recover(p, c) \/ CancelRecover(p, c)
  <2>1. Classified(c) /\ Exists(c)
    BY <1>7 DEF Recover, CancelRecover, Settlement, OutcomesAreKnown, Settling,
                Classified
  <2>2. \/ UNCHANGED orders
        \/ \E s \in Answers(c) :
             ~Refused(orders[c], s) /\ Put(p, c, Applied(orders[c], s))
        \/ \E s \in Answers(c) : TakeAck(p, c, s)
    BY <1>0, <1>7 DEF Recover, CancelRecover, NoPut
  <2> QED
    BY <2>1, <2>2, KeptClassifies, MergeClassifies, TakeAckClassifies
<1>8. CASE Observing(p, c)
  <2>1. \E s \in Answers(c) : AbsorbFact(p, c, s)
    BY <1>0, <1>8
    DEF Observing, ApplyExchangeEvent, ResolveUnknown, RefreshOrder
  <2> QED
    BY <2>1, MergeClassifies DEF AbsorbFact
<1> QED
  BY <1>1, <1>2, <1>3, <1>4, <1>5, <1>6, <1>7, <1>8
  DEF Submitting, Canceling, ReplayFails, AdmitFails, MarkFails, StoreError

\* A step remembers the status it has just read, goes on to replay only what
\* it has read, and settles the key of an operation that has its outcome.
Remembers(p, c) ==
  /\ \A q \in Procs, d \in Cids : q # p \/ d # c => seen'[q][d] = seen[q][d]
  /\ seen'[p][c] \in {seen[p][c], "NONE", StatusOf(c)}
  /\ pc'[p][c] = "replay" => seen'[p][c] # "NONE"
  /\ \A d \in Cids :
       idem'[d].state = "COMPLETED" =>
         idem[d].state = "COMPLETED" \/ Classified(d)

LEMMA ReleaseCompletesNothing ==
  ASSUME TypeOK, NEW p \in Procs, NEW c \in Cids, Release(p, c)
  PROVE  \A d \in Cids :
           idem'[d].state = "COMPLETED" => idem[d].state = "COMPLETED"
BY DEF TypeOK, Release, FreshRow

LEMMA ServiceStepRemembers ==
  ASSUME Inv, Settlement, NEW p \in Procs, NEW c \in Cids,
         \/ Submitting(p, c) \/ Canceling(p, c) \/ Observing(p, c)
         \/ Recover(p, c) \/ Complete(p, c) \/ StoreError(p, c)
  PROVE  Remembers(p, c) /\ UNCHANGED now
<1> USE DEF venueVars, storeVars
<1>0. TypeOK
  BY DEF Inv
<1>1. CASE BeginSubmit(p, c)
  <2>1. pc'[p][c] = "reserve"
    BY <1>0, <1>1, GoesTo DEF BeginSubmit
  <2> QED
    BY <1>0, <1>1, <2>1 DEF BeginSubmit, Remembers, TypeOK
<1>2. CASE Reserve(p, c)
  <2>1. pc'[p][c] = "replay" => seen' = seen /\ seen[p][c] # "NONE"
    <3>1. CASE Go(p, c, "idle")
      BY <1>0, <3>1, GoesTo
    <3>2. CASE /\ UNCHANGED seen
               /\ Go(p, c, IF seen[p][c] = "NONE" THEN "admit" ELSE "replay")
      BY <1>0, <3>2, GoesTo
    <3> QED
      BY <1>2, <3>1, <3>2 DEF Reserve
  <2>2. seen' = seen \/ seen' = [seen EXCEPT ![p][c] = "NONE"]
    BY <1>2 DEF Reserve
  <2>3. \A d \in Cids :
          idem'[d].state = "COMPLETED" => idem[d].state = "COMPLETED"
    <3>1. \/ UNCHANGED idem
          \/ idem' = [idem EXCEPT ![c] = [state |-> "IN_FLIGHT", owner |-> p,
                                          expired |-> FALSE]]
      BY <1>2 DEF Reserve
    <3> QED
      BY <1>0, <3>1 DEF TypeOK
  <2> QED
    BY <1>0, <1>2, <2>1, <2>2, <2>3 DEF Reserve, Remembers, TypeOK
<1>3. CASE Abandon(p, c) \/ Raise(p, c)
  <2>1. pc'[p][c] = "idle"
    BY <1>0, <1>3, GoesTo DEF Abandon, Raise
  <2>2. \A d \in Cids :
          idem'[d].state = "COMPLETED" => idem[d].state = "COMPLETED"
    <3>1. Release(p, c) \/ UNCHANGED idem
      BY <1>3 DEF Abandon, Raise
    <3> QED
      BY <1>0, <3>1, ReleaseCompletesNothing
  <2> QED
    BY <1>0, <1>3, <2>1, <2>2 DEF Abandon, Raise, Remembers, TypeOK
<1>4. CASE Complete(p, c)
  <2>1. pc'[p][c] = "idle"
    BY <1>0, <1>4, GoesTo DEF Complete
  <2>2. Classified(c)
    BY <1>4 DEF Complete, Settlement, OutcomesAreKnown, Settling
  <2>3. \A d \in Cids \ {c} : idem'[d] = idem[d]
    BY <1>0, <1>4 DEF Complete, Release, TypeOK
  <2> QED
    BY <1>0, <1>4, <2>1, <2>2, <2>3 DEF Complete, Remembers, TypeOK
<1>5. CASE Replay(p, c) \/ Admit(p, c) \/ Mark(p, c) \/ Send(p, c)
           \/ SubmitRejected(p, c) \/ SubmitUncertain(p, c)
           \/ BeginCancel(p, c) \/ CancelRefused(p, c) \/ CancelUncertain(p, c)
           \/ Recover(p, c)
  <2>1. UNCHANGED <<seen, idem, now>>
    BY <1>5 DEF Replay, Admit, Mark, Send, SubmitRejected, SubmitUncertain,
                BeginCancel, CancelRefused, CancelUncertain, Recover
  <2>2. \E ph : Go(p, c, ph) /\ ph # "replay"
    BY <1>5 DEF Replay, Admit, Mark, Send, SubmitRejected, SubmitUncertain,
                BeginCancel, CancelRefused, CancelUncertain, Recover
  <2> QED
    BY <1>0, <2>1, <2>2, GoesTo DEF Remembers
<1>6. CASE SubmitAcknowledged(p, c) \/ CancelAcknowledged(p, c)
           \/ CancelRecover(p, c) \/ Observing(p, c)
  <2>1. UNCHANGED <<seen, idem, now>>
    BY <1>6 DEF SubmitAcknowledged, CancelAcknowledged, CancelRecover, Observing,
                ApplyExchangeEvent, ResolveUnknown, RefreshOrder, AbsorbFact
  <2>2. \E ph : Go(p, c, ph) /\ ph # "replay"
    BY <1>6 DEF SubmitAcknowledged, CancelAcknowledged, CancelRecover, Observing,
                ApplyExchangeEvent, ResolveUnknown, RefreshOrder, AbsorbFact,
                TakeAck, InvalidAck
  <2> QED
    BY <1>0, <2>1, <2>2, GoesTo DEF Remembers
<1> QED
  BY <1>1, <1>2, <1>3, <1>4, <1>5, <1>6
  DEF Submitting, Canceling, ReplayFails, AdmitFails, MarkFails, StoreError

LEMMA ServiceStepSettles ==
  ASSUME Inv, Agreement, Course, Settlement, NEW p \in Procs, NEW c \in Cids,
         \/ Submitting(p, c) \/ Canceling(p, c) \/ Observing(p, c)
         \/ Recover(p, c) \/ Complete(p, c) \/ StoreError(p, c)
  PROVE  Settlement'
<1>1. Classifies(p, c) /\ Remembers(p, c) /\ UNCHANGED <<facts, now>>
  BY ServiceStepClassifies, ServiceStepRemembers, ServiceStepBacked
<1>2. /\ \A q \in Procs, d \in Cids : q # p \/ d # c => pc'[q][d] = pc[q][d]
      /\ \A d \in Cids \ {c} : orders'[d] = orders[d]
  BY ServiceStepGuarded
<1>3. \A d \in Cids : Classified(d) => Classified(d)'
  BY <1>1, <1>2 DEF Classifies, Classified, Exists
<1>4. OutcomesAreKnown'
  BY <1>1, <1>2, <1>3 DEF Classifies, Settlement, OutcomesAreKnown
<1>5. ReplaysSaw'
  <2>1. ASSUME NEW q \in Procs, NEW d \in Cids,
               seen'[q][d] \notin {"NONE", "PREPARED", "SUBMITTING"}
        PROVE  Classified(d)
    <3>1. seen'[q][d] \in {seen[q][d], StatusOf(d)}
      BY <1>1, <2>1 DEF Remembers
    <3>2. CASE seen'[q][d] = seen[q][d]
      BY <2>1, <3>2 DEF Settlement, ReplaysSaw
    <3>3. CASE seen'[q][d] = StatusOf(d)
      BY <2>1, <3>3 DEF StatusOf, Classified
    <3> QED
      BY <3>1, <3>2, <3>3
  <2>2. \A q \in Procs, d \in Cids : pc'[q][d] = "replay" => seen'[q][d] # "NONE"
    BY <1>1, <1>2 DEF Remembers, Settlement, ReplaysSaw
  <2> QED
    BY <1>3, <2>1, <2>2 DEF ReplaysSaw
<1>6. ReportsAreNew'
  <2> SUFFICES ASSUME NEW d \in Cids, Exists(d)', ~Classified(d)'
               PROVE  /\ orders'[d].at <= now
                      /\ \A s \in facts[d] : orders'[d].at <= s.at
    BY <1>1 DEF ReportsAreNew
  <2>1. CASE Exists(d) /\ orders'[d] = orders[d]
    BY <1>3, <2>1 DEF Settlement, ReportsAreNew
  <2>2. CASE orders'[d].at = now /\ facts[d] = {}
    <3>1. now \in Int
      BY DEF Inv, TypeOK, Times
    <3> QED
      BY <2>2, <3>1
  <2>3. d # c => Exists(d) /\ orders'[d] = orders[d]
    BY <1>2 DEF Exists
  <2> QED
    BY <1>1, <2>1, <2>2, <2>3 DEF Classifies
<1>7. SettledIsClassified'
  <2>1. \A d \in Cids : idem'[d].state = "COMPLETED" => Classified(d)
    BY <1>1 DEF Remembers, Settlement, SettledIsClassified, Classified
  <2> QED
    BY <1>3, <2>1 DEF SettledIsClassified, Classified
<1> QED
  BY <1>4, <1>5, <1>6, <1>7 DEF Settlement

\* What the venue reports is stamped now, by a clock that is not behind.
LEMMA VenueSettles ==
  ASSUME Skew >= 0, Inv, Settlement, NEW c \in Cids, Venue(c)
  PROVE  Settlement'
<1> USE DEF VenueUnchanged, storeVars, procVars
<1>1. UNCHANGED <<orders, idem, pc, seen, now>>
  BY DEF Venue, VenueAccepts, VenueRefuses, RequestLost, VenueFills, VenueCancels
<1>2. \A d \in Cids : \A s \in facts'[d] : s \in facts[d] \/ s.at = now + Skew
  <2>1. ASSUME NEW status, NEW filled, Report(c, status, filled)
        PROVE  \A d \in Cids : \A s \in facts'[d] : s \in facts[d] \/ s.at = now + Skew
    BY <2>1 DEF Report, Inv, TypeOK
  <2> QED
    BY <2>1
    DEF Venue, VenueAccepts, VenueRefuses, RequestLost, VenueFills, VenueCancels
<1>3. ReportsAreNew'
  <2> SUFFICES ASSUME NEW d \in Cids, Exists(d), ~Classified(d)
               PROVE  /\ orders[d].at <= now
                      /\ \A s \in facts'[d] : orders[d].at <= s.at
    BY <1>1 DEF ReportsAreNew, Classified, Exists
  <2>1. /\ orders[d].at <= now
        /\ \A s \in facts[d] : orders[d].at <= s.at
    BY DEF Settlement, ReportsAreNew
  <2>2. orders[d].at <= now + Skew
    <3>1. orders[d].at \in Int /\ now \in Int /\ Skew \in Int
      BY ConstantsAssumption DEF Inv, TypeOK, Exists, Orders, Times, VenueTimes
    <3> QED
      BY <2>1, <3>1
  <2> QED
    BY <1>2, <2>1, <2>2
<1> QED
  BY <1>1, <1>3
  DEF Settlement, OutcomesAreKnown, ReplaysSaw, SettledIsClassified, Classified,
      Exists

LEMMA SettlementStep ==
  ASSUME Skew >= 0, Inv, Agreement, Course, Settlement, Next
  PROVE  Settlement'
<1> USE DEF venueVars, storeVars, procVars
<1>1. CASE \/ \E p \in Procs : Operator(p)
           \/ \E c \in Cids : ReservationExpires(c)
           \/ Tick
  <2>1. UNCHANGED <<orders, facts>>
    BY <1>1 DEF Operator, Crash, ActivateKillSwitch, DeactivateKillSwitch,
                ReservationExpires, Tick
  <2>2. now' >= now /\ now \in Int /\ now' \in Int
    BY <1>1 DEF Operator, Crash, ActivateKillSwitch, DeactivateKillSwitch,
                ReservationExpires, Tick, Inv, TypeOK, Times
  <2>3. /\ \A q \in Procs, d \in Cids :
             \/ pc'[q][d] = pc[q][d] /\ seen'[q][d] = seen[q][d]
             \/ pc'[q][d] = "idle" /\ seen'[q][d] = "NONE"
        /\ \A d \in Cids : idem'[d].state = idem[d].state
    <3>1. CASE UNCHANGED <<pc, seen, idem>>
      BY <3>1
    <3>2. CASE \E p \in Procs : Crash(p)
      BY <3>2 DEF Crash, Inv, TypeOK
    <3>3. CASE \E c \in Cids : ReservationExpires(c)
      BY <3>3 DEF ReservationExpires, Inv, TypeOK
    <3> QED
      BY <1>1, <3>1, <3>2, <3>3
      DEF Operator, ActivateKillSwitch, DeactivateKillSwitch, Tick
  <2>4. ReportsAreNew'
    <3>1. \A d \in Cids : Exists(d) => orders[d].at \in Int
      BY ConstantsAssumption DEF Inv, TypeOK, Exists, Orders, Times, VenueTimes
    <3> QED
      BY <2>1, <2>2, <3>1
      DEF Settlement, ReportsAreNew, Classified, Exists
  <2>5. OutcomesAreKnown' /\ ReplaysSaw'
    BY <2>1, <2>3
    DEF Settlement, OutcomesAreKnown, ReplaysSaw, Settling, Classified, Exists
  <2>6. SettledIsClassified'
    BY <2>1, <2>3 DEF Settlement, SettledIsClassified, Exists
  <2> QED
    BY <2>4, <2>5, <2>6 DEF Settlement
<1> QED
  BY <1>1, ServiceStepSettles, VenueSettles DEF Next

LEMMA InitSettlement == Init => Settlement
BY DEF Init, Settlement, OutcomesAreKnown, ReplaysSaw, ReportsAreNew,
       SettledIsClassified, Settling, Classified, Exists, FreshRow

\* With a venue clock that is not behind the local one, a settled key always
\* belongs to an order whose outcome is known or locked as UNKNOWN, whichever
\* process settled it and whoever wrote the order in between.
THEOREM KeysSettleOutcomes ==
  ASSUME Skew >= 0
  PROVE  Spec => []SettledIsClassified
<1>1. Inv /\ Agreement /\ Course /\ Settlement /\ [Next]_vars => Settlement'
  <2>1. ASSUME Settlement, UNCHANGED vars
        PROVE  Settlement'
    BY <2>1 DEF vars, storeVars, procVars, venueVars, Settlement,
                OutcomesAreKnown, ReplaysSaw, ReportsAreNew,
                SettledIsClassified, Classified, Exists
  <2> QED
    BY <2>1, SettlementStep
<1>2. Settlement => SettledIsClassified
  BY DEF Settlement
<1> QED
  BY <1>1, <1>2, InvHolds, AgreementHolds, CourseHolds, InitSettlement, PTL
  DEF Spec
=============================================================================
