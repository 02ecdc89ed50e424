---------------------------- MODULE OutboxProofs ----------------------------
(* Theorems about the outbox, for any workers, aggregates, batch sizes and attempts. *)
EXTENDS Outbox, FiniteSetTheorems, SequenceTheorems, TLAPS

\* The sequence numbers of an aggregate do not run ahead of its rows.
SeqsCounted == \A i \in Ids : rows[i].seq <= Cardinality(InAggregate(rows[i].agg))

RowsInv ==
  /\ rows \in Seq(Rows) /\ Len(rows) <= MaxRows
  /\ \A i \in Ids : rows[i].lock # NoWorker => rows[i].status = "PROCESSING"
  /\ SeqsCounted
  /\ PublishedWasTaken

\* A worker has rows in hand whose predecessors have all been taken: that they were
\* published was checked by the claim, and no later step can undo it.
BatchesMayGo ==
  \A w \in Workers : \A e \in batch[w] :
    e.id \in Ids /\ \A j \in Earlier(e.id) : j \in delivered

\* A worker that is about to mark its first row has had the event taken.
TakenIsDelivered ==
  \A w \in Workers :
    step[w] = "taken" =>
      batch[w] # {} /\ \A e \in batch[w] : IsFirst(w, e) => e.id \in delivered

WorkInv ==
  /\ batch \in [Workers -> SUBSET Envelopes]
  /\ step \in [Workers -> {"publish", "taken"}]
  /\ sweep \subseteq Envelopes
  /\ delivered \subseteq Ids
  /\ requeues \in 0..MaxRequeues
  /\ BatchesMayGo /\ TakenIsDelivered

Inv == RowsInv /\ WorkInv

\* What a step may do to a row once it is there.
Kept(i) ==
  /\ rows'[i].agg = rows[i].agg /\ rows'[i].seq = rows[i].seq
  /\ rows'[i].lock # NoWorker => rows'[i].status = "PROCESSING"
  /\ rows'[i].status = "PUBLISHED" => rows[i].status = "PUBLISHED" \/ i \in delivered

RowsMove == rows' \in [Ids -> Rows] /\ \A i \in Ids : Kept(i)

LEMMA IdsAreNumbers ==
  ASSUME RowsInv
  PROVE  /\ Len(rows) \in Nat /\ Ids = 1..Len(rows) /\ Ids \subseteq 1..MaxRows
         /\ \A i \in Ids : rows[i] \in Rows
         /\ rows \in [Ids -> Rows]
<1>1. rows \in Seq(Rows) /\ Len(rows) <= MaxRows /\ MaxRows \in Nat
  BY OutboxAssumption DEF RowsInv
<1>2. Len(rows) \in Nat /\ DOMAIN rows = 1..Len(rows) /\ rows \in [1..Len(rows) -> Rows]
  BY <1>1
<1> QED BY <1>1, <1>2 DEF Ids

\* Rows that only move keep their places, their order and what was published.
LEMMA MovedRows ==
  ASSUME RowsInv, RowsMove, delivered \subseteq delivered'
  PROVE  /\ RowsInv' /\ Ids' = Ids
         /\ \A i \in Ids : Earlier(i)' = Earlier(i)
         /\ \A a \in Aggregates : InAggregate(a)' = InAggregate(a)
         /\ \A i \in Ids : rows'[i].seq = rows[i].seq
<1>1. Len(rows) \in Nat /\ Ids = 1..Len(rows) /\ Len(rows) <= MaxRows
  BY IdsAreNumbers DEF RowsInv
<1>2. rows' \in Seq(Rows) /\ Len(rows') = Len(rows) /\ Ids' = Ids
  <2>1. rows' \in [1..Len(rows) -> Rows] BY <1>1 DEF RowsMove
  <2>2. rows' \in Seq(Rows) /\ DOMAIN rows' = 1..Len(rows) BY <1>1, <2>1, SeqDef
  <2> QED BY <1>1, <2>2, LenProperties DEF Ids
<1>3. \A i \in Ids : rows'[i].agg = rows[i].agg /\ rows'[i].seq = rows[i].seq
  BY DEF RowsMove, Kept
<1>4. \A i \in Ids : Earlier(i)' = Earlier(i) BY <1>2, <1>3 DEF Earlier
<1>5. \A a : InAggregate(a)' = InAggregate(a) BY <1>2, <1>3 DEF InAggregate
<1>6. SeqsCounted'
  <2>1. \A i \in Ids : InAggregate(rows[i].agg)' = InAggregate(rows[i].agg)
    BY <1>2, <1>3 DEF InAggregate
  <2> QED BY <1>2, <1>3, <2>1 DEF RowsInv, SeqsCounted, InAggregate
<1>7. PublishedWasTaken' BY <1>2 DEF RowsInv, RowsMove, Kept, PublishedWasTaken
<1>8. \A i \in Ids' : rows'[i].lock # NoWorker => rows'[i].status = "PROCESSING"
  BY <1>2 DEF RowsMove, Kept
<1> QED BY <1>1, <1>2, <1>3, <1>4, <1>5, <1>6, <1>7, <1>8 DEF RowsInv

\* Work in hand that only gets less, on rows that only move.
LEMMA LessWork ==
  ASSUME WorkInv, Ids' = Ids, \A i \in Ids : Earlier(i)' = Earlier(i), delivered' = delivered,
         sweep' \subseteq Envelopes, requeues' \in 0..MaxRequeues,
         batch' \in [Workers -> SUBSET Envelopes], step' \in [Workers -> {"publish", "taken"}],
         \A w \in Workers :
           /\ batch'[w] \subseteq batch[w]
           /\ step'[w] = "publish" \/ (batch'[w] = batch[w] /\ step'[w] = step[w])
  PROVE  WorkInv'
<1>1. BatchesMayGo' BY DEF WorkInv, BatchesMayGo
<1>2. TakenIsDelivered' BY DEF WorkInv, TakenIsDelivered, IsFirst
<1> QED BY <1>1, <1>2 DEF WorkInv

-----------------------------------------------------------------------------

\* Appending a row to its aggregate.
LEMMA Appended ==
  ASSUME Inv, NEW a \in Aggregates, Enqueue(a)
  PROVE  /\ Ids' = Ids \union {Len(rows) + 1} /\ Len(rows) + 1 \notin Ids
         /\ \A i \in Ids : rows'[i] = rows[i]
         /\ rows'[Len(rows) + 1].agg = a
         /\ rows'[Len(rows) + 1].seq = Cardinality(InAggregate(a)) + 1
         /\ rows'[Len(rows) + 1].lock = NoWorker
         /\ rows'[Len(rows) + 1].status = "PENDING"
         /\ IsFiniteSet(InAggregate(a)) /\ Cardinality(InAggregate(a)) \in 0..(MaxRows - 1)
         /\ rows' \in Seq(Rows) /\ Len(rows') <= MaxRows
<1> DEFINE n == Len(rows)
           r == [agg |-> a, seq |-> Cardinality(InAggregate(a)) + 1, status |-> "PENDING",
                 attempts |-> 0, lock |-> NoWorker, due |-> TRUE, stale |-> FALSE]
<1>1. n \in Nat /\ Ids = 1..n /\ n < MaxRows /\ rows' = Append(rows, r)
  BY IdsAreNumbers DEF Enqueue, Inv
<1>2. IsFiniteSet(Ids) /\ Cardinality(Ids) = n
  <2>1. IsFiniteSet(1..n) /\ Cardinality(1..n) = IF 1 <= n THEN n - 1 + 1 ELSE 0
    BY <1>1, FS_Interval
  <2> QED BY <1>1, <2>1
<1>3. /\ IsFiniteSet(InAggregate(a)) /\ Cardinality(InAggregate(a)) \in Nat
      /\ Cardinality(InAggregate(a)) <= n
  <2>1. InAggregate(a) \subseteq Ids BY DEF InAggregate
  <2> QED BY <1>2, <2>1, FS_Subset, FS_CardinalityType
<1>4. Cardinality(InAggregate(a)) \in 0..(MaxRows - 1) BY <1>1, <1>3, OutboxAssumption
<1>5. r \in Rows BY <1>4, OutboxAssumption DEF Rows, Statuses
<1> HIDE DEF r
<1>6. rows \in Seq(Rows) BY DEF Inv, RowsInv
<1>7. /\ rows' \in Seq(Rows) /\ Len(rows') = n + 1 /\ rows'[n + 1] = r
      /\ \A i \in 1..n : rows'[i] = rows[i]
  BY <1>1, <1>5, <1>6, AppendProperties
<1>8. Ids' = 1..(n + 1) BY <1>7, LenProperties DEF Ids
<1> QED BY <1>1, <1>3, <1>4, <1>7, <1>8, OutboxAssumption DEF r

LEMMA EnqueueKeepsInv ==
  ASSUME Inv, NEW a \in Aggregates, Enqueue(a)
  PROVE  Inv' /\ \A i \in Ids : Earlier(i)' = Earlier(i)
<1> DEFINE n == Len(rows)  c == Cardinality(InAggregate(a))
<1>1. /\ Ids' = Ids \union {n + 1} /\ n + 1 \notin Ids /\ \A i \in Ids : rows'[i] = rows[i]
      /\ rows'[n + 1].agg = a /\ rows'[n + 1].seq = c + 1 /\ rows'[n + 1].lock = NoWorker
      /\ rows'[n + 1].status = "PENDING"
      /\ IsFiniteSet(InAggregate(a)) /\ c \in Nat
      /\ rows' \in Seq(Rows) /\ Len(rows') <= MaxRows
  <2>1. c \in 0..(MaxRows - 1) BY Appended
  <2>2. c \in Nat BY <2>1, OutboxAssumption
  <2>3. /\ rows'[n + 1].agg = a /\ rows'[n + 1].seq = c + 1 /\ rows'[n + 1].lock = NoWorker
        /\ rows'[n + 1].status = "PENDING"
    BY Appended
  <2> QED BY <2>2, <2>3, Appended
<1>2. UNCHANGED <<batch, step, sweep, delivered, requeues>> BY DEF Enqueue
<1>3. \A i \in Ids : rows[i].seq \in Nat BY IdsAreNumbers DEF Inv, Rows
<1>4. \A i \in Ids : rows[i].agg = a => rows[i].seq < c + 1
  BY <1>1, <1>3 DEF Inv, RowsInv, SeqsCounted
<1>5. \A i \in Ids : Earlier(i)' = Earlier(i)
  <2> SUFFICES ASSUME NEW i \in Ids PROVE Earlier(i)' = Earlier(i) OBVIOUS
  <2>1. ~(rows'[n + 1].agg = rows'[i].agg /\ rows'[n + 1].seq < rows'[i].seq)
    BY <1>1, <1>3, <1>4
  <2> QED BY <1>1, <2>1 DEF Earlier
<1>6. InAggregate(a)' = InAggregate(a) \union {n + 1} BY <1>1 DEF InAggregate
<1>7. \A b : b # a => InAggregate(b)' = InAggregate(b) BY <1>1 DEF InAggregate
<1>8. Cardinality(InAggregate(a)') = c + 1
  <2>1. n + 1 \notin InAggregate(a) BY <1>1 DEF InAggregate
  <2> QED BY <1>1, <1>6, <2>1, FS_AddElement
<1>9. SeqsCounted'
  <2> SUFFICES ASSUME NEW i \in Ids' PROVE (rows[i].seq <= Cardinality(InAggregate(rows[i].agg)))'
    BY DEF SeqsCounted
  <2>1. CASE rows'[i].agg = a
    <3>1. InAggregate(rows[i].agg)' = InAggregate(a)' BY <2>1 DEF InAggregate
    <3>2. rows'[i].seq <= c + 1 BY <1>1, <1>3, <1>4, <2>1
    <3> QED BY <1>8, <3>1, <3>2
  <2>2. CASE rows'[i].agg # a
    <3>1. i \in Ids /\ rows'[i] = rows[i] BY <1>1, <2>2
    <3>2. InAggregate(rows[i].agg)' = InAggregate(rows[i].agg)
      BY <1>1, <2>2, <3>1 DEF InAggregate
    <3> QED BY <3>1, <3>2 DEF Inv, RowsInv, SeqsCounted
  <2> QED BY <2>1, <2>2
<1>10. RowsInv'
  BY <1>1, <1>2, <1>9 DEF Inv, RowsInv, PublishedWasTaken
<1>11. WorkInv'
  <2>1. BatchesMayGo' BY <1>1, <1>2, <1>5 DEF Inv, WorkInv, BatchesMayGo
  <2>2. TakenIsDelivered' BY <1>2 DEF Inv, WorkInv, TakenIsDelivered, IsFirst
  <2> QED BY <1>1, <1>2, <2>1, <2>2 DEF Inv, WorkInv
<1> QED BY <1>5, <1>10, <1>11 DEF Inv

-----------------------------------------------------------------------------

LEMMA BuriedIsARow ==
  ASSUME NEW r \in Rows
  PROVE  /\ Buried(r) \in Rows /\ Buried(r).lock = NoWorker /\ Buried(r).status = "DEAD"
         /\ Buried(r).agg = r.agg /\ Buried(r).seq = r.seq
BY DEF Rows, Buried, Statuses

LEMMA RetiredIsARow ==
  ASSUME NEW r \in Rows, NEW n
  PROVE  /\ Retired(r, n) \in Rows /\ Retired(r, n).lock = NoWorker
         /\ Retired(r, n).status # "PUBLISHED"
         /\ Retired(r, n).agg = r.agg /\ Retired(r, n).seq = r.seq
BY BuriedIsARow DEF Rows, Retired, Statuses

LEMMA ClaimMovesRows ==
  ASSUME Inv, NEW w \in Workers, Claim(w) PROVE RowsMove
<1>1. /\ \A i \in Ids : rows[i] \in Rows
      /\ rows' = [i \in Ids |->
                IF Exhausted(rows[i]) THEN Buried(rows[i])
                ELSE IF i \in Claimable
                     THEN [rows[i] EXCEPT !.status = "PROCESSING", !.lock = w,
                                          !.stale = FALSE, !.attempts = @ + 1]
                     ELSE rows[i]]
  BY IdsAreNumbers DEF Claim, Inv
<1> SUFFICES ASSUME NEW i \in Ids PROVE rows'[i] \in Rows /\ Kept(i)
  BY <1>1 DEF RowsMove
<1>2. CASE Exhausted(rows[i])
  BY <1>1, <1>2, BuriedIsARow DEF Kept
<1>3. CASE ~Exhausted(rows[i]) /\ i \in Claimable
  <2>1. rows[i].attempts \in 0..MaxAttempts /\ rows[i].attempts < MaxAttempts
    BY <1>1, <1>3 DEF Claimable, Candidates, Eligible, Rows
  <2>2. rows[i].attempts + 1 \in 0..MaxAttempts BY <2>1, OutboxAssumption
  <2>3. rows'[i] = [rows[i] EXCEPT !.status = "PROCESSING", !.lock = w,
                                   !.stale = FALSE, !.attempts = @ + 1]
    BY <1>1, <1>3
  <2> QED BY <1>1, <2>2, <2>3 DEF Kept, Rows, Statuses
<1>4. CASE ~Exhausted(rows[i]) /\ i \notin Claimable
  BY <1>1, <1>4 DEF Kept, Inv, RowsInv
<1> QED BY <1>2, <1>3, <1>4

LEMMA ClaimKeepsInv ==
  ASSUME Inv, NEW w \in Workers, Claim(w) PROVE Inv'
<1> DEFINE mine == {[id |-> i, attempts |-> rows[i].attempts + 1] : i \in Claimable}
<1>1. /\ batch[w] = {} /\ batch' = [batch EXCEPT ![w] = mine]
      /\ UNCHANGED <<step, sweep, delivered, requeues>>
  BY DEF Claim
<1>2. /\ RowsInv' /\ Ids' = Ids /\ \A i \in Ids : Earlier(i)' = Earlier(i)
  BY <1>1, ClaimMovesRows, MovedRows DEF Inv
<1>3. \A i \in Claimable :
        /\ i \in Ids /\ i \in 1..MaxRows /\ rows[i].attempts + 1 \in 0..MaxAttempts
        /\ \A j \in Earlier(i) : j \in delivered
  <2> SUFFICES ASSUME NEW i \in Claimable
               PROVE  /\ i \in Ids /\ i \in 1..MaxRows /\ rows[i].attempts + 1 \in 0..MaxAttempts
                      /\ \A j \in Earlier(i) : j \in delivered
    OBVIOUS
  <2>1. i \in Ids /\ Eligible(rows[i]) /\ ~Blocked(i) BY DEF Claimable, Candidates
  <2>2. rows[i] \in Rows /\ i \in 1..MaxRows BY <2>1, IdsAreNumbers DEF Inv
  <2>3. rows[i].attempts + 1 \in 0..MaxAttempts
    BY <2>1, <2>2, OutboxAssumption DEF Eligible, Rows
  <2>4. \A j \in Earlier(i) : j \in delivered
    BY <2>1 DEF Blocked, Earlier, Inv, RowsInv, PublishedWasTaken
  <2> QED BY <2>1, <2>2, <2>3, <2>4
<1>4. mine \subseteq Envelopes BY <1>3 DEF Envelopes
<1>5. \A e \in mine : e.id \in Ids /\ \A j \in Earlier(e.id) : j \in delivered BY <1>3
<1> HIDE DEF mine
<1>6. batch' \in [Workers -> SUBSET Envelopes] BY <1>1, <1>4 DEF Inv, WorkInv
<1>7. \A v \in Workers : batch'[v] = IF v = w THEN mine ELSE batch[v]
  BY <1>1 DEF Inv, WorkInv
<1>8. BatchesMayGo' BY <1>1, <1>2, <1>5, <1>7 DEF Inv, WorkInv, BatchesMayGo
<1>9. step[w] # "taken" BY <1>1 DEF Inv, WorkInv, TakenIsDelivered
<1>10. TakenIsDelivered' BY <1>1, <1>7, <1>9 DEF Inv, WorkInv, TakenIsDelivered, IsFirst
<1> QED BY <1>1, <1>2, <1>6, <1>8, <1>10 DEF Inv, WorkInv

LEMMA TakeKeepsInv ==
  ASSUME Inv, NEW w \in Workers, Take(w) PROVE Inv'
<1>1. PICK e \in batch[w] : IsFirst(w, e) /\ delivered' = delivered \union {e.id}
  BY DEF Take
<1>2. UNCHANGED <<rows, batch, sweep, requeues>> /\ step' = [step EXCEPT ![w] = "taken"]
  BY DEF Take
<1>3. e.id \in Ids BY DEF Inv, WorkInv, BatchesMayGo
<1>4. RowsInv'
  BY <1>1, <1>2 DEF Inv, RowsInv, PublishedWasTaken, SeqsCounted, InAggregate, Ids
<1>5. BatchesMayGo' BY <1>1, <1>2 DEF Inv, WorkInv, BatchesMayGo, Earlier, Ids
<1>6. \A f \in batch[w] : IsFirst(w, f) => f.id = e.id
  <2>1. \A f \in batch[w] : f.id \in Nat BY DEF Inv, WorkInv, Envelopes
  <2> QED BY <1>1, <2>1 DEF IsFirst
<1>7. TakenIsDelivered'
  BY <1>1, <1>2, <1>6 DEF Inv, WorkInv, TakenIsDelivered, IsFirst
<1>8. delivered' \subseteq Ids' BY <1>1, <1>2, <1>3 DEF Inv, WorkInv, Ids
<1> QED BY <1>2, <1>4, <1>5, <1>7, <1>8 DEF Inv, WorkInv

LEMMA MarkMovesRows ==
  ASSUME Inv, NEW w \in Workers, MarkPublished(w) \/ MarkFailed(w)
  PROVE  /\ RowsMove
         /\ \E e \in batch[w] : HandOver(w, e)
<1>1. PICK e \in batch[w] :
        /\ IsFirst(w, e) /\ HandOver(w, e)
        /\ \/ rows' = rows
           \/ /\ step[w] = "taken" /\ Owns(w, e.id)
              /\ rows' = [rows EXCEPT ![e.id].status = "PUBLISHED", ![e.id].lock = NoWorker,
                                      ![e.id].stale = FALSE]
           \/ rows' = [rows EXCEPT ![e.id] = Retired(@, e.attempts)]
  BY DEF MarkPublished, MarkFailed
<1>2. rows \in [Ids -> Rows] BY IdsAreNumbers DEF Inv
<1>3. e.id \in Ids BY DEF Inv, WorkInv, BatchesMayGo
<1>4. ASSUME rows' = rows PROVE RowsMove
  BY <1>2, <1>4 DEF RowsMove, Kept, Inv, RowsInv
<1>5. ASSUME step[w] = "taken",
             rows' = [rows EXCEPT ![e.id].status = "PUBLISHED", ![e.id].lock = NoWorker,
                                  ![e.id].stale = FALSE]
      PROVE  RowsMove
  <2>1. e.id \in delivered BY <1>1, <1>5 DEF Inv, WorkInv, TakenIsDelivered
  <2>2. rows' = [rows EXCEPT ![e.id] =
                   [rows[e.id] EXCEPT !.status = "PUBLISHED", !.lock = NoWorker, !.stale = FALSE]]
    BY <1>2, <1>3, <1>5
  <2>3. [rows[e.id] EXCEPT !.status = "PUBLISHED", !.lock = NoWorker, !.stale = FALSE] \in Rows
    BY <1>2, <1>3 DEF Rows, Statuses
  <2>4. /\ rows'[e.id].agg = rows[e.id].agg /\ rows'[e.id].seq = rows[e.id].seq
        /\ rows'[e.id].lock = NoWorker
    BY <1>2, <1>3, <2>2 DEF Rows
  <2>5. rows' \in [Ids -> Rows] BY <1>2, <2>2, <2>3
  <2>6. \A i \in Ids : i # e.id => rows'[i] = rows[i] BY <1>2, <2>2
  <2> QED BY <1>3, <2>1, <2>4, <2>5, <2>6 DEF RowsMove, Kept, Inv, RowsInv
<1>6. ASSUME rows' = [rows EXCEPT ![e.id] = Retired(@, e.attempts)] PROVE RowsMove
  <2>1. rows[e.id] \in Rows BY <1>2, <1>3
  <2>2. rows'[e.id] = Retired(rows[e.id], e.attempts) BY <1>2, <1>3, <1>6
  <2>3. rows' \in [Ids -> Rows] BY <1>2, <1>6, <2>1, RetiredIsARow
  <2>4. \A i \in Ids : i # e.id => rows'[i] = rows[i] BY <1>2, <1>6
  <2>5. Kept(e.id) BY <2>1, <2>2, RetiredIsARow DEF Kept
  <2> QED BY <2>3, <2>4, <2>5 DEF RowsMove, Kept, Inv, RowsInv
<1> QED BY <1>1, <1>4, <1>5, <1>6

LEMMA MarkKeepsInv ==
  ASSUME Inv, NEW w \in Workers, MarkPublished(w) \/ MarkFailed(w) PROVE Inv'
<1>1. PICK e \in batch[w] : HandOver(w, e) BY MarkMovesRows
<1>2. /\ batch' = [batch EXCEPT ![w] = @ \ {e}] /\ step' = [step EXCEPT ![w] = "publish"]
      /\ UNCHANGED <<sweep, delivered, requeues>>
  BY <1>1 DEF HandOver
<1>3. RowsInv' /\ Ids' = Ids /\ \A i \in Ids : Earlier(i)' = Earlier(i)
  BY <1>2, MarkMovesRows, MovedRows DEF Inv
<1>4. /\ batch' \in [Workers -> SUBSET Envelopes] /\ step' \in [Workers -> {"publish", "taken"}]
      /\ \A v \in Workers :
           /\ batch'[v] \subseteq batch[v]
           /\ step'[v] = "publish" \/ (batch'[v] = batch[v] /\ step'[v] = step[v])
  BY <1>2 DEF Inv, WorkInv
<1>5. WorkInv' BY <1>2, <1>3, <1>4, LessWork DEF Inv, WorkInv
<1> QED BY <1>3, <1>5 DEF Inv

LEMMA CrashKeepsInv ==
  ASSUME Inv, NEW w \in Workers, Crash(w) PROVE Inv'
<1>1. /\ batch' = [batch EXCEPT ![w] = {}] /\ step' = [step EXCEPT ![w] = "publish"]
      /\ UNCHANGED <<rows, sweep, delivered, requeues>>
  BY DEF Crash
<1>2. RowsInv' /\ Ids' = Ids /\ \A i \in Ids : Earlier(i)' = Earlier(i)
  BY <1>1 DEF Inv, RowsInv, PublishedWasTaken, SeqsCounted, InAggregate, Ids, Earlier
<1>3. /\ batch' \in [Workers -> SUBSET Envelopes] /\ step' \in [Workers -> {"publish", "taken"}]
      /\ \A v \in Workers :
           /\ batch'[v] \subseteq batch[v]
           /\ step'[v] = "publish" \/ (batch'[v] = batch[v] /\ step'[v] = step[v])
  BY <1>1 DEF Inv, WorkInv
<1>4. WorkInv' BY <1>1, <1>2, <1>3, LessWork DEF Inv, WorkInv
<1> QED BY <1>2, <1>4 DEF Inv

-----------------------------------------------------------------------------

LEMMA OthersMoveRows ==
  ASSUME Inv,
         SweepRead \/ SweepWrite \/ \E i \in 1..MaxRows : RequeueDead(i) \/ BackoffPasses(i) \/ LeaseExpires(i)
  PROVE  /\ RowsMove
         /\ UNCHANGED <<batch, step, delivered>>
         /\ sweep' \subseteq Envelopes /\ requeues' \in 0..MaxRequeues
<1>1. rows \in [Ids -> Rows] /\ Ids \subseteq 1..MaxRows BY IdsAreNumbers DEF Inv
<1>2. sweep \subseteq Envelopes /\ requeues \in 0..MaxRequeues BY DEF Inv, WorkInv
<1>3. CASE SweepRead
  <2>1. \A i \in Ids : [id |-> i, attempts |-> rows[i].attempts] \in Envelopes
    BY <1>1 DEF Rows, Envelopes
  <2> QED BY <1>1, <1>2, <1>3, <2>1 DEF SweepRead, RowsMove, Kept, Inv, RowsInv
<1>4. CASE SweepWrite
  <2>1. /\ rows' = [i \in Ids |->
                IF \E s \in sweep : s.id = i
                THEN Retired(rows[i], (CHOOSE s \in sweep : s.id = i).attempts)
                ELSE rows[i]]
        /\ sweep' = {} /\ UNCHANGED <<batch, step, delivered, requeues>>
    BY <1>4 DEF SweepWrite
  <2>2. \A i \in Ids : rows'[i] = rows[i] \/ \E n : rows'[i] = Retired(rows[i], n)
    BY <2>1
  <2>3. \A i \in Ids : rows'[i] \in Rows /\ Kept(i)
    <3> SUFFICES ASSUME NEW i \in Ids PROVE rows'[i] \in Rows /\ Kept(i) OBVIOUS
    <3>1. CASE rows'[i] = rows[i] BY <1>1, <3>1 DEF Kept, Inv, RowsInv
    <3>2. CASE \E n : rows'[i] = Retired(rows[i], n)
      <4>1. PICK n : rows'[i] = Retired(rows[i], n) BY <3>2
      <4> QED BY <1>1, <4>1, RetiredIsARow DEF Kept
    <3> QED BY <2>2, <3>1, <3>2
  <2>4. rows' \in [Ids -> Rows] BY <2>1, <2>3
  <2> QED BY <1>2, <2>1, <2>3, <2>4 DEF RowsMove
<1>5. ASSUME NEW i \in 1..MaxRows, RequeueDead(i) \/ BackoffPasses(i) \/ LeaseExpires(i)
      PROVE  /\ RowsMove
             /\ UNCHANGED <<batch, step, delivered>>
             /\ sweep' \subseteq Envelopes /\ requeues' \in 0..MaxRequeues
  <2>1. i \in Ids /\ rows[i] \in Rows BY <1>1, <1>5 DEF RequeueDead, BackoffPasses, LeaseExpires
  <2>2. PICK r \in Rows :
          /\ rows' = [rows EXCEPT ![i] = r]
          /\ r.agg = rows[i].agg /\ r.seq = rows[i].seq
          /\ r.lock # NoWorker => r.status = "PROCESSING"
          /\ r.status = "PUBLISHED" => rows[i].status = "PUBLISHED"
    <3>1. CASE RequeueDead(i)
      <4> DEFINE r == [rows[i] EXCEPT !.status = "PENDING", !.attempts = 0, !.due = TRUE]
      <4>1. rows[i].lock = NoWorker BY <2>1, <3>1 DEF RequeueDead, Inv, RowsInv
      <4>2. /\ r \in Rows /\ r.agg = rows[i].agg /\ r.seq = rows[i].seq /\ r.lock = NoWorker
            /\ r.status # "PUBLISHED"
        <5>1. 0 \in 0..MaxAttempts /\ "PENDING" \in Statuses
          BY OutboxAssumption DEF Statuses
        <5> QED BY <2>1, <4>1, <5>1 DEF Rows
      <4>3. rows' = [rows EXCEPT ![i] = r] BY <1>1, <2>1, <3>1 DEF RequeueDead
      <4> QED BY <4>2, <4>3
    <3>2. CASE BackoffPasses(i)
      <4> DEFINE r == [rows[i] EXCEPT !.due = TRUE]
      <4>1. /\ r \in Rows /\ r.agg = rows[i].agg /\ r.seq = rows[i].seq
            /\ r.lock = rows[i].lock /\ r.status = rows[i].status
        BY <2>1 DEF Rows
      <4>2. rows' = [rows EXCEPT ![i] = r] BY <1>1, <2>1, <3>2 DEF BackoffPasses
      <4> QED BY <2>1, <4>1, <4>2 DEF Inv, RowsInv
    <3>3. CASE LeaseExpires(i)
      <4> DEFINE r == [rows[i] EXCEPT !.stale = TRUE]
      <4>1. /\ r \in Rows /\ r.agg = rows[i].agg /\ r.seq = rows[i].seq
            /\ r.lock = rows[i].lock /\ r.status = rows[i].status
        BY <2>1 DEF Rows
      <4>2. rows' = [rows EXCEPT ![i] = r] BY <1>1, <2>1, <3>3 DEF LeaseExpires
      <4> QED BY <2>1, <4>1, <4>2 DEF Inv, RowsInv
    <3> QED BY <1>5, <3>1, <3>2, <3>3
  <2>3. rows' \in [Ids -> Rows] BY <1>1, <2>2
  <2>4. rows'[i] = r /\ \A j \in Ids : j # i => rows'[j] = rows[j] BY <1>1, <2>1, <2>2
  <2>5. RowsMove BY <2>2, <2>3, <2>4 DEF RowsMove, Kept, Inv, RowsInv
  <2>6. UNCHANGED <<batch, step, sweep, delivered>> /\ requeues' \in 0..MaxRequeues
    <3>1. \/ requeues' = requeues
          \/ requeues < MaxRequeues /\ requeues' = requeues + 1
      BY <1>5 DEF RequeueDead, BackoffPasses, LeaseExpires
    <3>2. requeues' \in 0..MaxRequeues BY <1>2, <3>1, OutboxAssumption
    <3> QED BY <1>5, <3>2 DEF RequeueDead, BackoffPasses, LeaseExpires
  <2> QED BY <1>2, <2>5, <2>6
<1> QED BY <1>3, <1>4, <1>5

LEMMA OthersKeepInv ==
  ASSUME Inv,
         SweepRead \/ SweepWrite \/ \E i \in 1..MaxRows : RequeueDead(i) \/ BackoffPasses(i) \/ LeaseExpires(i)
  PROVE  Inv'
<1>1. RowsInv' /\ Ids' = Ids /\ \A i \in Ids : Earlier(i)' = Earlier(i)
  BY OthersMoveRows, MovedRows DEF Inv
<1>2. WorkInv' BY <1>1, OthersMoveRows, LessWork DEF Inv, WorkInv
<1> QED BY <1>1, <1>2 DEF Inv

\* The inductive invariant.
THEOREM InvHolds == Spec => []Inv
<1>1. Init => Inv
  <2> SUFFICES ASSUME Init PROVE Inv OBVIOUS
  <2>1. rows \in Seq(Rows) /\ Len(rows) = 0 /\ Ids = {} BY DEF Init, Ids
  <2>2. RowsInv BY <2>1, OutboxAssumption DEF RowsInv, SeqsCounted, PublishedWasTaken
  <2>3. WorkInv BY OutboxAssumption DEF Init, WorkInv, BatchesMayGo, TakenIsDelivered
  <2> QED BY <2>2, <2>3 DEF Inv
<1>2. Inv /\ [Next]_vars => Inv'
  <2> SUFFICES ASSUME Inv, [Next]_vars PROVE Inv' OBVIOUS
  <2>1. CASE UNCHANGED vars
    BY <2>1 DEF vars, Inv, RowsInv, WorkInv, SeqsCounted, PublishedWasTaken, BatchesMayGo,
           TakenIsDelivered, InAggregate, Earlier, Ids, IsFirst
  <2>2. CASE SweepRead \/ SweepWrite \/
             \E i \in 1..MaxRows : RequeueDead(i) \/ BackoffPasses(i) \/ LeaseExpires(i)
    BY <2>2, OthersKeepInv
  <2> QED
    BY <2>1, <2>2, EnqueueKeepsInv, ClaimKeepsInv, TakeKeepsInv, MarkKeepsInv, CrashKeepsInv
    DEF Next, Handle
<1> QED BY <1>1, <1>2, PTL DEF Spec

\* Every variable keeps its type.
THEOREM TypeCorrect == Spec => []TypeOK
<1>1. Inv => TypeOK BY DEF Inv, RowsInv, WorkInv, TypeOK
<1> QED BY <1>1, InvHolds, PTL

\* What is marked published was taken, for any number of workers, expired leases, crashes and
\* sweeps (lock token of mark_published).
THEOREM MarksAreTrue == Spec => []PublishedWasTaken
<1>1. Inv => PublishedWasTaken BY DEF Inv, RowsInv
<1> QED BY <1>1, InvHolds, PTL

-----------------------------------------------------------------------------
(* The refinement of OutboxPromise. *)

LoggedOf(a) == {rows[i].seq : i \in InAggregate(a)}

\* Steps that only move rows, and take nothing, do nothing the consumer could see.
LEMMA UnseenSteps ==
  ASSUME Ids' = Ids, \A a \in Aggregates : InAggregate(a)' = InAggregate(a),
         \A i \in Ids : rows'[i].seq = rows[i].seq, delivered' = delivered
  PROVE  UNCHANGED Promise!vars
<1>1. \A a \in Aggregates : InAggregate(a) \subseteq Ids BY DEF InAggregate
<1>2. \A a \in Aggregates : LoggedOf(a)' = LoggedOf(a) BY <1>1 DEF LoggedOf
<1>3. \A a \in Aggregates : Taken(a)' = Taken(a) BY <1>1 DEF Taken
<1> QED BY <1>2, <1>3 DEF Promise!vars, LoggedOf

\* The event appended to an aggregate is numbered beyond all of its events.
LEMMA EnqueueLogs == ASSUME Inv, NEW a \in Aggregates, Enqueue(a) PROVE Promise!Log(a)
<1> DEFINE n == Len(rows)  c == Cardinality(InAggregate(a))
<1>1. /\ Ids' = Ids \union {n + 1} /\ n + 1 \notin Ids /\ \A i \in Ids : rows'[i] = rows[i]
      /\ rows'[n + 1].agg = a /\ rows'[n + 1].seq = c + 1
      /\ c \in 0..(MaxRows - 1)
  BY Appended
<1>2. c + 1 \in 1..MaxRows /\ c \in Nat BY <1>1, OutboxAssumption
<1>3. delivered' = delivered /\ n + 1 \notin delivered BY <1>1 DEF Enqueue, Inv, WorkInv
<1>4. \A m \in LoggedOf(a) : m < c + 1
  <2>1. \A i \in Ids : rows[i].seq \in Nat BY IdsAreNumbers DEF Inv, Rows
  <2> HIDE DEF c
  <2>2. \A i \in InAggregate(a) : rows[i].seq <= c
    BY DEF Inv, RowsInv, SeqsCounted, InAggregate, c
  <2> QED BY <1>2, <2>1, <2>2 DEF LoggedOf, InAggregate
<1>5. \A b \in Aggregates : LoggedOf(b)' = IF b = a THEN LoggedOf(a) \union {c + 1} ELSE LoggedOf(b)
  <2> SUFFICES ASSUME NEW b \in Aggregates
               PROVE  LoggedOf(b)' = IF b = a THEN LoggedOf(a) \union {c + 1} ELSE LoggedOf(b)
    OBVIOUS
  <2> HIDE DEF c
  <2>1. InAggregate(b)' = IF b = a THEN InAggregate(a) \union {n + 1} ELSE InAggregate(b)
    BY <1>1 DEF InAggregate
  <2>2. \A i \in InAggregate(b) : rows'[i] = rows[i] BY <1>1 DEF InAggregate
  <2>3. CASE b = a BY <1>1, <2>1, <2>2, <2>3 DEF LoggedOf
  <2>4. CASE b # a BY <2>1, <2>2, <2>4 DEF LoggedOf
  <2> QED BY <2>3, <2>4
<1>6. \A b \in Aggregates : Taken(b)' = Taken(b)
  <2> SUFFICES ASSUME NEW b \in Aggregates PROVE Taken(b)' = Taken(b) OBVIOUS
  <2>1. (InAggregate(b) \intersect delivered)' = InAggregate(b) \intersect delivered
    BY <1>1, <1>3 DEF InAggregate
  <2>2. \A i \in InAggregate(b) : rows'[i] = rows[i] BY <1>1 DEF InAggregate
  <2> QED BY <2>1, <2>2 DEF Taken
<1> HIDE DEF c
<1> QED BY <1>2, <1>4, <1>5, <1>6 DEF Promise!Log, LoggedOf

\* An event is taken for the first time when its predecessors have been.
LEMMA TakeTakes ==
  ASSUME Inv, NEW w \in Workers, Take(w)
  PROVE  UNCHANGED Promise!vars \/ \E a \in Aggregates : Promise!Take(a)
<1>1. PICK e \in batch[w] : delivered' = delivered \union {e.id} BY DEF Take
<1>2. rows' = rows BY DEF Take
<1> DEFINE i == e.id  a == rows[i].agg  n == rows[i].seq
<1>3. i \in Ids /\ \A j \in Earlier(i) : j \in delivered BY DEF Inv, WorkInv, BatchesMayGo
<1>4. a \in Aggregates /\ i \in InAggregate(a)
  BY <1>3, IdsAreNumbers DEF Inv, Rows, InAggregate
<1>5. \A b \in Aggregates : LoggedOf(b)' = LoggedOf(b) /\ InAggregate(b)' = InAggregate(b)
  BY <1>2 DEF LoggedOf, InAggregate, Ids
<1>6. \A b \in Aggregates : Taken(b)' = IF b = a THEN Taken(a) \union {n} ELSE Taken(b)
  <2> SUFFICES ASSUME NEW b \in Aggregates
               PROVE  Taken(b)' = IF b = a THEN Taken(a) \union {n} ELSE Taken(b)
    OBVIOUS
  <2>1. InAggregate(b)' = InAggregate(b) BY <1>5
  <2>2. CASE b = a BY <1>1, <1>2, <1>4, <2>1, <2>2 DEF Taken
  <2>3. CASE b # a
    <3>1. i \notin InAggregate(b) BY <2>3 DEF InAggregate
    <3> QED BY <1>1, <1>2, <2>1, <2>3, <3>1 DEF Taken
  <2> QED BY <2>2, <2>3
<1>7. n \in LoggedOf(a) BY <1>4 DEF LoggedOf
<1>8. \A m \in LoggedOf(a) : m < n => m \in Taken(a)
  <2> SUFFICES ASSUME NEW j \in InAggregate(a), rows[j].seq < n PROVE rows[j].seq \in Taken(a)
    BY DEF LoggedOf
  <2>1. j \in Earlier(i) BY DEF InAggregate, Earlier
  <2> QED BY <1>3, <2>1 DEF Taken
<1>9. CASE n \in Taken(a)
  <2>1. \A b \in Aggregates : Taken(b)' = Taken(b) BY <1>6, <1>9
  <2> QED BY <1>5, <2>1 DEF Promise!vars, LoggedOf
<1>10. CASE n \notin Taken(a)
  <2> HIDE DEF n, a
  <2>1. Promise!Take(a)
    BY <1>4, <1>5, <1>6, <1>7, <1>8, <1>10 DEF Promise!Take, LoggedOf
  <2> QED BY <1>4, <2>1
<1> QED BY <1>9, <1>10

\* For any workers, leases, crashes and batch sizes, the outbox keeps its promise: consumers
\* meet the events of an aggregate in the order they were appended (claim_batch).
THEOREM OrderIsKept == Spec => KeepsOrder
<1>1. Init => Promise!Init
  BY DEF Init, Promise!Init, InAggregate, Taken, Ids
<1>2. Inv /\ [Next]_vars => [Promise!Next]_(Promise!vars)
  <2> SUFFICES ASSUME Inv, [Next]_vars PROVE [Promise!Next]_(Promise!vars) OBVIOUS
  <2>1. CASE UNCHANGED vars
    BY <2>1, UnseenSteps DEF vars, InAggregate, Ids
  <2>2. ASSUME NEW a \in Aggregates, Enqueue(a) PROVE [Promise!Next]_(Promise!vars)
    BY <2>2, EnqueueLogs DEF Promise!Next
  <2>3. ASSUME NEW w \in Workers, Take(w) PROVE [Promise!Next]_(Promise!vars)
    BY <2>3, TakeTakes DEF Promise!Next
  <2>4. ASSUME NEW w \in Workers, Claim(w) PROVE UNCHANGED Promise!vars
    BY <2>4, ClaimMovesRows, MovedRows, UnseenSteps DEF Inv, Claim
  <2>5. ASSUME NEW w \in Workers, MarkPublished(w) \/ MarkFailed(w) PROVE UNCHANGED Promise!vars
    BY <2>5, MarkMovesRows, MovedRows, UnseenSteps DEF Inv, HandOver
  <2>6. ASSUME NEW w \in Workers, Crash(w) PROVE UNCHANGED Promise!vars
    BY <2>6, UnseenSteps DEF Crash, InAggregate, Ids
  <2>7. CASE SweepRead \/ SweepWrite \/
             \E i \in 1..MaxRows : RequeueDead(i) \/ BackoffPasses(i) \/ LeaseExpires(i)
    BY <2>7, OthersMoveRows, MovedRows, UnseenSteps DEF Inv
  <2> QED BY <2>1, <2>2, <2>3, <2>4, <2>5, <2>6, <2>7 DEF Next, Handle
<1> QED BY <1>1, <1>2, InvHolds, PTL DEF Spec, KeepsOrder, Promise!Spec

=============================================================================
