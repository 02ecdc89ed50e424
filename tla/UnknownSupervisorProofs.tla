------------------------ MODULE UnknownSupervisorProofs ------------------------
(***************************************************************************)
(* Proofs about UnknownSupervisor, for any number of orders, pollers,      *)
(* lapses and restarts and any backoff.                                    *)
(*                                                                         *)
(* That no UNKNOWN order is written off rests on two facts about verdicts. *)
(* A query that answers KNOWN was true when it was answered, and nothing   *)
(* but a lapsed cancel makes the order UNKNOWN again, which missed records *)
(* until no such query can be under way.                                   *)
(***************************************************************************)
EXTENDS UnknownSupervisor, TLAPS

Submitted == \A c \in Cids : Tracked(c) \/ c \in returning => order[c] # "NONE"

JobsAreTracked == \A t \in Pollers : job[t] # NoJob => Tracked(job[t].cid)

AnswersHold ==
  \A t \in Pollers :
    job[t] # NoJob /\ job[t].at = "answered" /\ job[t].answer = "KNOWN" =>
      order[job[t].cid] = "KNOWN" \/ missed[job[t].cid]

ResolvedHold ==
  \A c \in Cids :
    Tracked(c) /\ records[c].state = "RESOLVED" => order[c] = "KNOWN" \/ missed[c]

Booked ==
  \A c \in Cids :
    order[c] = "UNKNOWN" /\ ~missed[c] => c \in returning \/ Tracked(c)

Inv ==
  /\ TypeOK
  /\ Submitted /\ JobsAreTracked
  /\ AnswersHold /\ ResolvedHold /\ Booked /\ QueryingIsAsked

-----------------------------------------------------------------------------
(* Records.                                                                *)

LEMMA BackoffInRange == ASSUME NEW n PROVE Backoff(n) \in 0..LongestBackoff
BY SupervisorAssumption DEF Backoff

LEMMA FreshIsRecord == Fresh \in Records /\ Fresh # NoRecord
BY SupervisorAssumption, NothingAssumption DEF Fresh, Records, States

LEMMA OlderInRange == ASSUME NEW age \in 0..Deadline PROVE Older(age) \in 0..Deadline
BY SupervisorAssumption DEF Older

\* A record whose state and wait, or state and attempts, are changed is a record.
LEMMA WaitingRecord ==
  ASSUME NEW r \in Records, NEW s \in States, NEW w \in 0..LongestBackoff
  PROVE  /\ [r EXCEPT !.state = s, !.wait = w] \in Records
         /\ [r EXCEPT !.state = s, !.wait = w].state = s
BY DEF Records

LEMMA TriedRecord ==
  ASSUME NEW r \in Records, NEW s \in States, NEW n \in 0..MaxAttempts
  PROVE  /\ [r EXCEPT !.state = s, !.attempts = n] \in Records
         /\ [r EXCEPT !.state = s, !.attempts = n].state = s
BY DEF Records

LEMMA AnsweredIsRecord ==
  ASSUME NEW r \in Records, NEW answer \in {"KNOWN", "UNKNOWN"}
  PROVE  /\ Answered(r, answer) \in Records
         /\ answer = "UNKNOWN" => Answered(r, answer).state # "RESOLVED"
         /\ Answered(r, answer).state # "QUERYING"
<1> DEFINE n == IF r.attempts = 0 THEN 1 ELSE r.attempts
<1>1. Backoff(n) \in 0..LongestBackoff
  BY BackoffInRange
<1> HIDE DEF n
<1>2. Answered(r, answer) =
        IF answer = "KNOWN" THEN [r EXCEPT !.state = "RESOLVED", !.wait = 0]
        ELSE IF Expired(r) THEN [r EXCEPT !.state = "HALTED", !.wait = 0]
        ELSE [r EXCEPT !.state = "RETRY_WAIT", !.wait = Backoff(n)]
  BY DEF Answered, n
<1>3. 0 \in 0..LongestBackoff /\ {"RESOLVED", "HALTED", "RETRY_WAIT"} \subseteq States
  BY SupervisorAssumption DEF States, Closed
<1>4. LET d == [r EXCEPT !.state = "RESOLVED", !.wait = 0]
      IN  d \in Records /\ d.state = "RESOLVED"
  BY <1>3, WaitingRecord
<1>5. LET h == [r EXCEPT !.state = "HALTED", !.wait = 0]
      IN  h \in Records /\ h.state = "HALTED"
  BY <1>3, WaitingRecord
<1>6. LET w == [r EXCEPT !.state = "RETRY_WAIT", !.wait = Backoff(n)]
      IN  w \in Records /\ w.state = "RETRY_WAIT"
  BY <1>1, <1>3, WaitingRecord
<1> QED
  BY <1>2, <1>4, <1>5, <1>6

LEMMA RestoredIsRecord ==
  ASSUME TypeOK, NEW c \in Cids
  PROVE  Restored(c) \in Records /\ Restored(c).state \in {"PENDING", "HALTED"}
<1>1. since[c] \in 0..Deadline /\ Deadline \in 0..Deadline
  BY SupervisorAssumption DEF TypeOK
<1>2. ASSUME NEW s \in {"PENDING", "HALTED"}, NEW age \in 0..Deadline
      PROVE  /\ [Fresh EXCEPT !.state = s, !.age = age] \in Records
             /\ [Fresh EXCEPT !.age = age] \in Records
             /\ [Fresh EXCEPT !.state = s, !.age = age].state = s
             /\ [Fresh EXCEPT !.age = age].state = "PENDING"
  BY FreshIsRecord DEF Fresh, Records, States, Closed
<1> QED
  BY <1>1, <1>2 DEF Restored

-----------------------------------------------------------------------------
(* The steps.                                                              *)

LEMMA InitInv == Init => Inv
BY SupervisorAssumption, NothingAssumption
   DEF Init, Inv, TypeOK, Submitted, JobsAreTracked, AnswersHold, ResolvedHold, Booked,
       QueryingIsAsked, Tracked

LEMMA SubmitStep ==
  ASSUME Inv, NEW c \in Cids, Submit(c)
  PROVE  Inv'
<1>1. /\ order' \in [Cids -> {"NONE", "KNOWN", "UNKNOWN"}]
      /\ \A d \in Cids : d # c => order'[d] = order[d]
      /\ order[c] = "UNKNOWN" => order' = order
      /\ order[c] \in {"NONE", "UNKNOWN"} /\ order'[c] \in {"KNOWN", "UNKNOWN"}
  BY DEF Submit, Inv, TypeOK
<1>2. /\ returning \subseteq returning' /\ returning' \subseteq returning \union {c}
      /\ order'[c] = "UNKNOWN" => c \in returning'
  BY <1>1 DEF Submit
<1>3. UNCHANGED <<since, records, job, todo, missed, lapses, restarts>>
  BY DEF Submit
<1>4. TypeOK'
  BY <1>1, <1>2, <1>3 DEF Inv, TypeOK, Tracked
<1>5. Submitted' /\ JobsAreTracked'
  BY <1>1, <1>2, <1>3 DEF Inv, Submitted, JobsAreTracked, Tracked
<1>6. ~Tracked(c) \/ order' = order
  BY <1>1 DEF Inv, Submitted
<1>7. AnswersHold'
  BY <1>1, <1>3, <1>6 DEF Inv, TypeOK, AnswersHold, JobsAreTracked, Jobs
<1>8. ResolvedHold'
  BY <1>1, <1>3, <1>6 DEF Inv, ResolvedHold, Tracked
<1>9. Booked'
  BY <1>1, <1>2, <1>3 DEF Inv, Booked, Tracked
<1>10. QueryingIsAsked'
  BY <1>3 DEF Inv, QueryingIsAsked, Tracked, Asking
<1> QED
  BY <1>4, <1>5, <1>7, <1>8, <1>9, <1>10 DEF Inv

LEMMA RegisterStep ==
  ASSUME Inv, NEW c \in Cids, Register(c)
  PROVE  Inv'
<1> DEFINE new == Registered(records[c])
<1>1. /\ new \in Records /\ new # NoRecord /\ new.state # "RESOLVED"
      /\ Tracked(c) /\ records[c].state \in Closed => new = Fresh
      /\ Tracked(c) /\ records[c].state \notin Closed => new = records[c]
  BY FreshIsRecord, NothingAssumption
     DEF Registered, Inv, TypeOK, Tracked, Fresh, Closed
<1> HIDE DEF new
<1>2. records' = [records EXCEPT ![c] = new] /\ returning' = returning \ {c}
  BY DEF Register, new
<1>3. \A d \in Cids : /\ missed'[d] => missed[d]
                      /\ missed[d] /\ ~missed'[d] => d = c /\ ~Asking(c)
  BY DEF Register, Inv, TypeOK
<1>4. c \in returning /\ missed' \in [Cids -> BOOLEAN]
      /\ UNCHANGED <<order, since, job, todo, lapses, restarts>>
  BY Zenon DEF Register, Inv, TypeOK
<1>5. records' \in [Cids -> Records \union {NoRecord}]
      /\ \A d \in Cids : Tracked(d) => Tracked(d)'
  BY <1>1, <1>2 DEF Inv, TypeOK, Tracked
<1>6. TypeOK'
  BY <1>2, <1>4, <1>5 DEF Inv, TypeOK
<1>7. Submitted' /\ JobsAreTracked'
  BY <1>1, <1>2, <1>4, <1>5 DEF Inv, Submitted, JobsAreTracked, Tracked, TypeOK, Jobs
<1>8. AnswersHold'
  BY <1>3, <1>4 DEF Inv, AnswersHold, Asking, TypeOK, Jobs
<1>9. ResolvedHold'
  BY <1>1, <1>2, <1>3, <1>4 DEF Inv, ResolvedHold, Tracked, TypeOK
<1>10. Booked'
  <2> SUFFICES ASSUME NEW d \in Cids, order'[d] = "UNKNOWN", ~missed'[d]
               PROVE  d \in returning' \/ Tracked(d)'
    BY DEF Booked
  <2>1. CASE d = c
    BY <2>1, <1>1, <1>2 DEF Tracked, Inv, TypeOK
  <2>2. CASE d # c
    BY <2>2, <1>2, <1>3, <1>4, <1>5 DEF Inv, Booked
  <2> QED
    BY <2>1, <2>2
<1>11. QueryingIsAsked'
  <2> SUFFICES ASSUME NEW d \in Cids, Tracked(d)', records'[d].state = "QUERYING"
               PROVE  Asking(d)
    BY <1>4 DEF QueryingIsAsked, Asking
  <2>1. Tracked(d) /\ records[d].state = "QUERYING"
    BY <1>1, <1>2 DEF Inv, TypeOK, Tracked, Registered, Fresh, new
  <2> QED
    BY <2>1 DEF Inv, QueryingIsAsked
<1> QED
  BY <1>6, <1>7, <1>8, <1>9, <1>10, <1>11 DEF Inv

LEMMA RecordFailsStep ==
  ASSUME Inv, NEW c \in Cids, RecordFails(c)
  PROVE  Inv'
<1>1. UNCHANGED <<order, since, records, job, todo, lapses, restarts>>
      /\ returning' = returning \ {c}
  BY DEF RecordFails
<1>2. /\ missed' \in [Cids -> BOOLEAN]
      /\ \A d \in Cids : missed[d] => missed'[d]
      /\ order[c] = "UNKNOWN" /\ ~Tracked(c) => missed'[c]
      /\ \A d \in Cids \ {c} : missed'[d] = missed[d]
  BY Zenon DEF RecordFails, Inv, TypeOK
<1>3. TypeOK'
  BY <1>1, <1>2 DEF Inv, TypeOK, Tracked
<1>4. Submitted' /\ JobsAreTracked'
  BY <1>1 DEF Inv, Submitted, JobsAreTracked, Tracked
<1>5. AnswersHold' /\ ResolvedHold'
  BY <1>1, <1>2 DEF Inv, AnswersHold, ResolvedHold, Tracked, TypeOK, Jobs
<1>6. Booked'
  BY <1>1, <1>2 DEF Inv, Booked, Tracked
<1>7. QueryingIsAsked'
  BY <1>1 DEF Inv, QueryingIsAsked, Tracked, Asking
<1> QED
  BY <1>3, <1>4, <1>5, <1>6, <1>7 DEF Inv

LEMMA CancelLapsesStep ==
  ASSUME Inv, NEW c \in Cids, CancelLapses(c)
  PROVE  Inv'
<1>1. /\ order' = [order EXCEPT ![c] = "UNKNOWN"] /\ since' = [since EXCEPT ![c] = 0]
      /\ missed' = [missed EXCEPT ![c] = TRUE]
      /\ lapses < MaxLapses /\ lapses' = lapses + 1
      /\ UNCHANGED <<records, job, todo, restarts, returning>>
  BY DEF CancelLapses
<1>2. TypeOK'
  BY <1>1, SupervisorAssumption DEF Inv, TypeOK, Tracked
<1>3. Submitted' /\ JobsAreTracked'
  BY <1>1 DEF Inv, Submitted, JobsAreTracked, Tracked, TypeOK
<1>4. AnswersHold' /\ ResolvedHold' /\ Booked'
  BY <1>1 DEF Inv, AnswersHold, ResolvedHold, Booked, Tracked, TypeOK, Jobs
<1>5. QueryingIsAsked'
  BY <1>1 DEF Inv, QueryingIsAsked, Tracked, Asking
<1> QED
  BY <1>2, <1>3, <1>4, <1>5 DEF Inv

LEMMA FoundOutStep ==
  ASSUME Inv, NEW c \in Cids, FoundOut(c)
  PROVE  Inv'
<1>1. /\ order' = [order EXCEPT ![c] = "KNOWN"]
      /\ missed' = [missed EXCEPT ![c] = FALSE]
      /\ UNCHANGED <<since, records, job, todo, lapses, restarts, returning>>
  BY DEF FoundOut
<1>2. TypeOK'
  BY <1>1 DEF Inv, TypeOK, Tracked
<1>3. Submitted' /\ JobsAreTracked'
  BY <1>1 DEF Inv, Submitted, JobsAreTracked, Tracked, TypeOK
<1>4. AnswersHold' /\ ResolvedHold' /\ Booked'
  BY <1>1 DEF Inv, AnswersHold, ResolvedHold, Booked, Tracked, TypeOK, Jobs
<1>5. QueryingIsAsked'
  BY <1>1 DEF Inv, QueryingIsAsked, Tracked, Asking
<1> QED
  BY <1>2, <1>3, <1>4, <1>5 DEF Inv

LEMMA RunDueStep ==
  ASSUME Inv, NEW t \in Pollers, RunDue(t)
  PROVE  Inv'
<1>1. /\ todo' = [todo EXCEPT ![t] = Due]
      /\ UNCHANGED <<order, since, records, job, missed, lapses, restarts, returning>>
  BY DEF RunDue
<1>2. Due \subseteq {c \in Cids : Tracked(c)}
  BY DEF Due
<1>3. TypeOK'
  BY <1>1, <1>2 DEF Inv, TypeOK, Tracked
<1>4. /\ Submitted' /\ JobsAreTracked'
      /\ AnswersHold' /\ ResolvedHold' /\ Booked'
  BY <1>1 DEF Inv, Submitted, JobsAreTracked, AnswersHold, ResolvedHold, Booked, Tracked
<1>5. QueryingIsAsked'
  BY <1>1 DEF Inv, QueryingIsAsked, Tracked, Asking
<1> QED
  BY <1>3, <1>4, <1>5 DEF Inv

LEMMA AttemptBeginsStep ==
  ASSUME Inv, NEW t \in Pollers, AttemptBegins(t)
  PROVE  Inv'
<1>0. job[t] = NoJob
  BY DEF AttemptBegins
<1>1. PICK c \in todo[t] :
       \/ /\ ~Ready(records[c])
          /\ todo' = [todo EXCEPT ![t] = @ \ {c}]
          /\ UNCHANGED <<records, job>>
       \/ /\ Ready(records[c]) /\ Expired(records[c])
          /\ records' = [records EXCEPT ![c].state = "HALTED"]
          /\ todo' = [todo EXCEPT ![t] = @ \ {c}]
          /\ UNCHANGED job
       \/ /\ Ready(records[c]) /\ ~Expired(records[c])
          /\ records' = [records EXCEPT ![c].state = "QUERYING", ![c].attempts = @ + 1]
          /\ job' = [job EXCEPT ![t] = [at |-> "query", cid |-> c, answer |-> "UNKNOWN"]]
          /\ UNCHANGED todo
  BY DEF AttemptBegins
<1>2. UNCHANGED <<order, since, missed, lapses, restarts, returning>>
  BY DEF AttemptBegins
<1>3. c \in Cids /\ records[c] \in Records /\ records[c] # NoRecord
  BY DEF Inv, TypeOK, Tracked
<1>4. CASE UNCHANGED <<records, job>> /\ todo' = [todo EXCEPT ![t] = @ \ {c}]
  <2>1. TypeOK'
    BY <1>2, <1>4 DEF Inv, TypeOK, Tracked
  <2>2. /\ Submitted' /\ JobsAreTracked'
        /\ AnswersHold' /\ ResolvedHold' /\ Booked'
    BY <1>2, <1>4 DEF Inv, Submitted, JobsAreTracked, AnswersHold, ResolvedHold, Booked, Tracked
  <2>3. QueryingIsAsked'
    BY <1>4 DEF Inv, QueryingIsAsked, Tracked, Asking
  <2> QED
    BY <2>1, <2>2, <2>3 DEF Inv
<1>5. ASSUME NEW r \in Records, r.state # "RESOLVED", Ready(records[c]),
             records' = [records EXCEPT ![c] = r],
             job' \in [Pollers -> Jobs \union {NoJob}],
             todo' \in [Pollers -> SUBSET {d \in Cids : Tracked(d)}],
             \A u \in Pollers : job'[u] = job[u] \/
                                (job'[u].cid = c /\ job'[u].at = "query"),
             r.state = "QUERYING" => job'[t] # NoJob /\ job'[t].cid = c,
             \A u \in Pollers : job[u] # NoJob => job'[u] = job[u]
      PROVE  Inv'
  <2>1. r # NoRecord /\ \A d \in Cids : Tracked(d)' <=> Tracked(d)
    BY <1>3, <1>5, NothingAssumption DEF Tracked, Inv, TypeOK
  <2>2. TypeOK'
    BY <1>2, <1>5, <2>1 DEF Inv, TypeOK
  <2>3. Submitted' /\ Booked'
    BY <1>2, <2>1 DEF Inv, Submitted, Booked
  <2>4. JobsAreTracked'
    BY <1>3, <1>5, <2>1 DEF Inv, JobsAreTracked, Tracked, TypeOK, Jobs
  <2>5. AnswersHold'
    BY <1>2, <1>5 DEF Inv, AnswersHold
  <2>6. ResolvedHold'
    BY <1>2, <1>5, <2>1 DEF Inv, ResolvedHold, TypeOK
  <2>7. \A d \in Cids : Asking(d) => Asking(d)'
    BY <1>5 DEF Asking, Inv, TypeOK
  <2>8. QueryingIsAsked'
    BY <1>5, <2>1, <2>7 DEF Inv, QueryingIsAsked, TypeOK, Asking
  <2> QED
    BY <2>2, <2>3, <2>4, <2>5, <2>6, <2>8 DEF Inv
<1>6. CASE /\ Ready(records[c])
           /\ records' = [records EXCEPT ![c].state = "HALTED"]
           /\ todo' = [todo EXCEPT ![t] = @ \ {c}]
           /\ UNCHANGED job
  <2> DEFINE r == [records[c] EXCEPT !.state = "HALTED"]
  <2>1. r \in Records /\ r.state # "RESOLVED" /\ r.state # "QUERYING"
    BY <1>3 DEF Records, States, Closed
  <2>2. records' = [records EXCEPT ![c] = r]
    BY <1>6
  <2>3. /\ job' \in [Pollers -> Jobs \union {NoJob}]
        /\ todo' \in [Pollers -> SUBSET {d \in Cids : Tracked(d)}]
    BY <1>6 DEF Inv, TypeOK
  <2> HIDE DEF r
  <2> QED
    BY <1>5, <1>6, <2>1, <2>2, <2>3
<1>7. CASE /\ Ready(records[c]) /\ ~Expired(records[c])
           /\ records' = [records EXCEPT ![c].state = "QUERYING", ![c].attempts = @ + 1]
           /\ job' = [job EXCEPT ![t] = [at |-> "query", cid |-> c, answer |-> "UNKNOWN"]]
           /\ UNCHANGED todo
  <2> DEFINE r == [records[c] EXCEPT !.state = "QUERYING", !.attempts = @ + 1]
  <2>1. r \in Records /\ r.state # "RESOLVED"
    <3>1. records[c].attempts + 1 \in 0..MaxAttempts
      BY <1>3, <1>7, SupervisorAssumption DEF Records, Expired
    <3> QED
      BY <1>3, <3>1, SupervisorAssumption, TriedRecord DEF Records, States
  <2>2. records' = [records EXCEPT ![c] = r]
    BY <1>7
  <2>3. /\ job' \in [Pollers -> Jobs \union {NoJob}]
        /\ todo' \in [Pollers -> SUBSET {d \in Cids : Tracked(d)}]
        /\ \A u \in Pollers : job'[u] = job[u] \/
                              (job'[u].cid = c /\ job'[u].at = "query")
        /\ job'[t] # NoJob /\ job'[t].cid = c
        /\ \A u \in Pollers : job[u] # NoJob => job'[u] = job[u]
    BY <1>0, <1>3, <1>7, NothingAssumption DEF Inv, TypeOK, Jobs
  <2> HIDE DEF r
  <2> QED
    BY <1>5, <1>7, <2>1, <2>2, <2>3
<1> QED
  BY <1>1, <1>4, <1>6, <1>7

LEMMA QueryStep ==
  ASSUME Inv, NEW t \in Pollers, Query(t)
  PROVE  Inv'
<1> DEFINE c == job[t].cid
<1>0. PICK now \in {order[c], "KNOWN"} : \E answer \in {now, "UNKNOWN"} :
        /\ order' = [order EXCEPT ![c] = now]
        /\ job' = [job EXCEPT ![t].at = "answered", ![t].answer = answer]
        /\ missed' = [missed EXCEPT ![c] = @ /\ now = "UNKNOWN"]
  BY DEF Query
<1>1. PICK answer \in {now, "UNKNOWN"} :
        /\ order' = [order EXCEPT ![c] = now]
        /\ job' = [job EXCEPT ![t].at = "answered", ![t].answer = answer]
        /\ missed' = [missed EXCEPT ![c] = @ /\ now = "UNKNOWN"]
  BY <1>0
<1>2. UNCHANGED <<since, records, todo, lapses, restarts, returning>>
  BY DEF Query
<1>3. job[t] \in Jobs /\ c \in Cids /\ Tracked(c) /\ order[c] \in {"KNOWN", "UNKNOWN"}
  BY DEF Query, Inv, TypeOK, Jobs, JobsAreTracked, Submitted
<1>4. now \in {"KNOWN", "UNKNOWN"} /\ answer \in {"KNOWN", "UNKNOWN"}
      /\ (answer = "KNOWN" => now = "KNOWN") /\ (now = "UNKNOWN" => order[c] = "UNKNOWN")
  BY <1>1, <1>3
<1> HIDE DEF c
<1>5. /\ \A d \in Cids : d # c => order'[d] = order[d] /\ missed'[d] = missed[d]
      /\ order'[c] = now /\ (now = "UNKNOWN" => missed'[c] = missed[c])
      /\ now = "UNKNOWN" => order' = order
  BY <1>1, <1>3, <1>4 DEF Inv, TypeOK
<1>6. missed' \in [Cids -> BOOLEAN]
  BY <1>1, <1>3, Zenon DEF Inv, TypeOK
<1>7. TypeOK'
  BY <1>1, <1>2, <1>3, <1>4, <1>6 DEF Inv, TypeOK, Tracked, Jobs
<1>8. Submitted' /\ JobsAreTracked'
  <2>1. Submitted'
    BY <1>2, <1>4, <1>5 DEF Inv, Submitted, Tracked
  <2>2. \A u \in Pollers : job'[u] # NoJob => job[u] # NoJob /\ job'[u].cid = job[u].cid
    BY <1>1, <1>3, NothingAssumption DEF Inv, TypeOK, Query, Jobs
  <2> QED
    BY <1>2, <2>1, <2>2 DEF Inv, JobsAreTracked, Tracked
<1>9. AnswersHold'
  <2> SUFFICES ASSUME NEW u \in Pollers, job'[u] # NoJob, job'[u].at = "answered",
                      job'[u].answer = "KNOWN"
               PROVE  order'[job'[u].cid] = "KNOWN" \/ missed'[job'[u].cid]
    BY DEF AnswersHold
  <2>1. CASE u = t
    <3>1. job'[t].cid = c /\ job'[t].answer = answer
      BY <1>1, <1>3 DEF Inv, TypeOK, Jobs, c
    <3> QED
      BY <2>1, <3>1, <1>4, <1>5
  <2>2. CASE u # t
    <3>1. job'[u] = job[u] /\ job[u].cid \in Cids
      BY <2>2, <1>1 DEF Inv, TypeOK, Jobs
    <3>2. order[job[u].cid] = "KNOWN" \/ missed[job[u].cid]
      BY <3>1 DEF Inv, AnswersHold
    <3> QED
      BY <3>1, <3>2, <1>4, <1>5
  <2> QED
    BY <2>1, <2>2
<1>10. ResolvedHold' /\ Booked'
  BY <1>2, <1>4, <1>5 DEF Inv, ResolvedHold, Booked, Tracked
<1>11. QueryingIsAsked'
  <2>1. \A u \in Pollers : job[u] # NoJob => job'[u] # NoJob /\ job'[u].cid = job[u].cid
    BY <1>1, <1>3, NothingAssumption DEF Inv, TypeOK, Jobs
  <2> QED
    BY <1>2, <2>1 DEF Inv, QueryingIsAsked, Tracked, Asking
<1> QED
  BY <1>7, <1>8, <1>9, <1>10, <1>11 DEF Inv

LEMMA AttemptEndsStep ==
  ASSUME Inv, NEW t \in Pollers, AttemptEnds(t)
  PROVE  Inv'
<1> DEFINE c == job[t].cid
           r == Answered(records[c], job[t].answer)
<1>1. /\ records' = [records EXCEPT ![c] = r]
      /\ todo' = [todo EXCEPT ![t] = @ \ {c}] /\ job' = [job EXCEPT ![t] = NoJob]
      /\ UNCHANGED <<order, since, missed, lapses, restarts, returning>>
      /\ job[t] # NoJob /\ job[t].at = "answered"
  BY DEF AttemptEnds
<1>2. job[t] \in Jobs /\ c \in Cids /\ Tracked(c) /\ records[c] \in Records
  BY <1>1 DEF Inv, TypeOK, Jobs, JobsAreTracked, Tracked
<1>3. r \in Records /\ r # NoRecord /\ r.state # "QUERYING"
      /\ (job[t].answer # "KNOWN" => r.state # "RESOLVED")
  BY <1>2, AnsweredIsRecord, NothingAssumption DEF Jobs
<1>4. job[t].answer = "KNOWN" => order[c] = "KNOWN" \/ missed[c]
  BY <1>1 DEF Inv, AnswersHold
<1> HIDE DEF c, r
<1>6. \A d \in Cids : Tracked(d)' <=> Tracked(d)
  BY <1>1, <1>2, <1>3 DEF Inv, TypeOK, Tracked
<1>7. TypeOK'
  BY <1>1, <1>2, <1>3, <1>6 DEF Inv, TypeOK
<1>8. Submitted' /\ Booked'
  BY <1>1, <1>6 DEF Inv, Submitted, Booked
<1>9. JobsAreTracked' /\ AnswersHold'
  BY <1>1, <1>6 DEF Inv, JobsAreTracked, AnswersHold, TypeOK, Jobs
<1>10. ResolvedHold'
  BY <1>1, <1>2, <1>3, <1>4, <1>6 DEF Inv, ResolvedHold, TypeOK
<1>11. QueryingIsAsked'
  <2> SUFFICES ASSUME NEW d \in Cids, Tracked(d)', records'[d].state = "QUERYING"
               PROVE  Asking(d)'
    BY DEF QueryingIsAsked
  <2>1. d # c /\ records'[d] = records[d]
    BY <1>1, <1>2, <1>3 DEF Inv, TypeOK
  <2>2. PICK u \in Pollers : job[u] # NoJob /\ job[u].cid = d
    BY <1>6, <2>1 DEF Inv, QueryingIsAsked, Asking
  <2>3. u # t
    BY <2>1, <2>2 DEF c
  <2> QED
    BY <1>1, <2>2, <2>3 DEF Asking, Inv, TypeOK
<1> QED
  BY <1>7, <1>8, <1>9, <1>10, <1>11 DEF Inv

LEMMA ReviewStep ==
  ASSUME Inv, NEW c \in Cids, MarkManualReview(c)
  PROVE  Inv'
<1> DEFINE r == [records[c] EXCEPT !.state = "MANUAL_REVIEW", !.wait = 0]
<1>1. records' = [records EXCEPT ![c] = r]
      /\ UNCHANGED <<order, since, job, todo, missed, lapses, restarts, returning>>
  BY DEF MarkManualReview
<1>2. r \in Records /\ r # NoRecord /\ r.state = "MANUAL_REVIEW"
  <2>1. records[c] \in Records /\ 0 \in 0..LongestBackoff /\ "MANUAL_REVIEW" \in States
    BY SupervisorAssumption DEF MarkManualReview, Tracked, Inv, TypeOK, States, Closed
  <2>2. r \in Records /\ r.state = "MANUAL_REVIEW"
    BY <2>1, WaitingRecord
  <2> QED
    BY <2>2, NothingAssumption
<1> HIDE DEF r
<1>3. \A d \in Cids : Tracked(d)' <=> Tracked(d)
  BY <1>1, <1>2 DEF MarkManualReview, Inv, TypeOK, Tracked
<1>4. TypeOK'
  BY <1>1, <1>2, <1>3 DEF Inv, TypeOK
<1>5. Submitted' /\ Booked' /\ AnswersHold'
  BY <1>1, <1>3 DEF Inv, Submitted, Booked, AnswersHold
<1>6. JobsAreTracked'
  BY <1>1, <1>3 DEF Inv, JobsAreTracked, TypeOK, Jobs
<1>7. ResolvedHold' /\ QueryingIsAsked'
  BY <1>1, <1>2, <1>3 DEF Inv, TypeOK, ResolvedHold, QueryingIsAsked, Asking
<1> QED
  BY <1>4, <1>5, <1>6, <1>7 DEF Inv

LEMMA RestartStep ==
  ASSUME Inv, Restart
  PROVE  Inv'
<1>1. /\ restarts < MaxRestarts /\ restarts' = restarts + 1
      /\ records' = [d \in Cids |-> IF order[d] = "UNKNOWN" THEN Restored(d) ELSE NoRecord]
      /\ job' = [u \in Pollers |-> NoJob] /\ todo' = [u \in Pollers |-> {}]
      /\ missed' = [d \in Cids |-> FALSE] /\ returning' = {}
      /\ UNCHANGED <<order, since, lapses>>
  BY DEF Restart
<1>2. \A d \in Cids : Restored(d) \in Records /\ Restored(d).state \in {"PENDING", "HALTED"}
                      /\ Restored(d) # NoRecord
  BY RestoredIsRecord, NothingAssumption DEF Inv
<1>3. TypeOK'
  BY <1>1, <1>2, SupervisorAssumption DEF Inv, TypeOK, Tracked
<1>4. /\ Submitted' /\ JobsAreTracked'
      /\ AnswersHold' /\ ResolvedHold' /\ Booked'
  BY <1>1, <1>2 DEF Submitted, JobsAreTracked, AnswersHold, ResolvedHold, Booked, Tracked
<1>5. QueryingIsAsked'
  BY <1>1, <1>2 DEF QueryingIsAsked, Tracked
<1> QED
  BY <1>3, <1>4, <1>5 DEF Inv

LEMMA TickStep ==
  ASSUME Inv, Tick
  PROVE  Inv'
<1> DEFINE Aged(c) == [records[c] EXCEPT !.age = Older(@), !.wait = IF @ > 0 THEN @ - 1 ELSE 0]
<1>1. /\ since' = [c \in Cids |-> IF order[c] = "UNKNOWN" THEN Older(since[c]) ELSE since[c]]
      /\ records' = [c \in Cids |-> IF Tracked(c) THEN Aged(c) ELSE NoRecord]
      /\ UNCHANGED <<order, job, todo, missed, lapses, restarts, returning>>
  BY DEF Tick
<1>2. ASSUME NEW c \in Cids, Tracked(c)
      PROVE  Aged(c) \in Records /\ Aged(c) # NoRecord /\ Aged(c).state = records[c].state
  <2>1. records[c] \in Records
    BY <1>2 DEF Inv, TypeOK, Tracked
  <2>2. records[c].age \in 0..Deadline
    BY <2>1 DEF Records
  <2>3. Older(records[c].age) \in 0..Deadline
    BY <2>2, OlderInRange
  <2>4. (IF records[c].wait > 0 THEN records[c].wait - 1 ELSE 0) \in 0..LongestBackoff
    BY <2>1, SupervisorAssumption DEF Records
  <2> QED
    BY <2>1, <2>3, <2>4, NothingAssumption DEF Records
<1>3. since' \in [Cids -> 0..Deadline]
  BY <1>1, OlderInRange DEF Inv, TypeOK
<1> HIDE DEF Aged
<1>4. \A d \in Cids : Tracked(d)' <=> Tracked(d)
  BY <1>1, <1>2 DEF Tracked
<1>5. TypeOK'
  BY <1>1, <1>2, <1>3, <1>4 DEF Inv, TypeOK
<1>6. Submitted' /\ Booked' /\ AnswersHold'
  BY <1>1, <1>4 DEF Inv, Submitted, Booked, AnswersHold
<1>7. JobsAreTracked'
  BY <1>1, <1>4 DEF Inv, JobsAreTracked, TypeOK, Jobs
<1>8. ResolvedHold' /\ QueryingIsAsked'
  BY <1>1, <1>2, <1>4 DEF Inv, ResolvedHold, QueryingIsAsked, Asking
<1> QED
  BY <1>5, <1>6, <1>7, <1>8 DEF Inv

LEMMA NextStep ==
  ASSUME Inv, Next
  PROVE  Inv'
BY SubmitStep, RegisterStep, RecordFailsStep, CancelLapsesStep, FoundOutStep, RunDueStep,
   AttemptBeginsStep, QueryStep, AttemptEndsStep, ReviewStep, RestartStep, TickStep
   DEF Next

-----------------------------------------------------------------------------
(* The theorems.                                                           *)

\* The supervisor's books are well formed, and what they say of an order was true of it
\* unless a lapsed cancel has overtaken them.
THEOREM InvHolds == Spec => []Inv
<1>1. ASSUME Inv, UNCHANGED vars PROVE Inv'
  BY <1>1 DEF vars, Inv, TypeOK, Submitted, JobsAreTracked, AnswersHold, ResolvedHold,
              Booked, QueryingIsAsked, Tracked, Asking
<1>2. Inv /\ [Next]_vars => Inv'
  BY <1>1, NextStep
<1> QED
  BY <1>2, InitInv, PTL DEF Spec

\* The supervisor's state keeps its type; attempts and waits stay within their limits.
THEOREM TypeCorrect == Spec => []TypeOK
BY InvHolds, PTL DEF Inv

\* An order that is UNKNOWN is in the books and not written off as resolved, whatever
\* attempts overlap and whenever the program restarts.
THEOREM UnknownStaysTracked == Spec => []UnknownIsTracked
<1>1. Inv => UnknownIsTracked
  BY DEF Inv, UnknownIsTracked, ResolvedHold, Booked, TypeOK
<1> QED
  BY <1>1, InvHolds, PTL

\* No record says QUERYING without an attempt under way that will answer it.
THEOREM NoneIsStranded == Spec => []QueryingIsAsked
<1>1. Inv => QueryingIsAsked
  BY DEF Inv
<1> QED
  BY <1>1, InvHolds, PTL
=============================================================================
