---------------------------- MODULE RiskApproval ----------------------------
(***************************************************************************)
(* Risk approvals under the single-writer lease: approve of                *)
(* risk/actions.py reserves capacity in memory, confirm hands the approval *)
(* over to the table of risk/commit.py, and integration/risk_adapter.py    *)
(* does the one after the other for each intent.                           *)
(*                                                                         *)
(* Every intent asks for one unit of an account's capacity; what orders    *)
(* and positions use of it is an input.  Several threads of an instance    *)
(* are at work on several intents, and an intent may be repeated, also by  *)
(* another instance.                                                       *)
(***************************************************************************)
EXTENDS DatabaseLease, FiniteSets

CONSTANTS
  Intents,    \* idempotency keys
  Capacity,   \* what the risk limits allow, in units
  NoWork, NoCommit

ASSUME ApprovalAssumption == IsFiniteSet(Intents) /\ Capacity \in Nat

VARIABLES
  work,      \* an instance's approval of an intent in progress
  commits,   \* the durable approvals, by idempotency key
  approved   \* how often the adapter has answered an intent with an approval

approvalVars == <<work, commits, approved>>
vars == <<leaseVars, approvalVars>>

Works == [at : {"reserved", "built"}, token : 1..MaxTokens, live : BOOLEAN]

Commitments == [owner : Owners, token : 1..MaxTokens]

ASSUME NothingAssumption == NoWork \notin Works /\ NoCommit \notin Commitments

Init ==
  /\ LeaseInit
  /\ work = [o \in Owners |-> [i \in Intents |-> NoWork]]
  /\ commits = [i \in Intents |-> NoCommit]
  /\ approved = [i \in Intents |-> 0]

-----------------------------------------------------------------------------

\* Mutant: an approval that is being committed is not counted.
ReservedOnly(o) ==
  {i \in Intents : work[o][i] # NoWork /\ work[o][i].live /\ work[o][i].at = "reserved"}

\* The increase reservations of an instance that have not expired.
Reserved(o) == {i \in Intents : work[o][i] # NoWork /\ work[o][i].live}

SetWork(o, i, w) == work' = [work EXCEPT ![o][i] = w]

\* approve: under the reservation lock, with the lease read again.  used is what the
\* account snapshot shows.
Approve(o, i) ==
  /\ guard[o] # NoLease /\ work[o][i] = NoWork
  /\ \E now \in Readings, used \in 0..Capacity :
       /\ Checked(o, now)
       /\ IF Valid(o, now) /\ used + Cardinality(Reserved(o)) < Capacity
          THEN SetWork(o, i, [at |-> "reserved", token |-> row.token, live |-> TRUE])
          ELSE UNCHANGED work
  /\ UNCHANGED <<clock, row, alive, grants, commits, approved>>

\* build_commit_record: the reservation must not have expired, and the token must still
\* be the current one.  Else the adapter releases the reservation and denies.
Build(o, i) ==
  /\ work[o][i] # NoWork /\ work[o][i].at = "reserved"
  /\ \E now \in Readings :
       IF work[o][i].live
       THEN /\ Checked(o, now)
            /\ IF Valid(o, now) /\ row.token = work[o][i].token
               THEN SetWork(o, i, [work[o][i] EXCEPT !.at = "built"])
               ELSE SetWork(o, i, NoWork)
       ELSE SetWork(o, i, NoWork) /\ UNCHANGED guard
  /\ UNCHANGED <<clock, row, alive, grants, commits, approved>>

\* Mutant: the key of the table is not unique.
InsertableAgain(i) == i \in Intents

\* The idempotency key is unique in the table.
Insertable(i) == commits[i] = NoCommit

\* commit_approval inserts the record, as it was built, and it is read back; the
\* reservation is released either way.
Commit(o, i) ==
  /\ work[o][i] # NoWork /\ work[o][i].at = "built"
  /\ \/ /\ Insertable(i)
        /\ commits' = [commits EXCEPT ![i] = [owner |-> o, token |-> work[o][i].token]]
        /\ approved' = [approved EXCEPT ![i] = @ + 1]
     \/ ~Insertable(i) /\ UNCHANGED <<commits, approved>>
  /\ SetWork(o, i, NoWork)
  /\ UNCHANGED leaseVars

\* The table raises, before or after the record is in it: the adapter denies.
CommitFails(o, i) ==
  /\ work[o][i] # NoWork /\ work[o][i].at = "built"
  /\ \/ UNCHANGED commits
     \/ /\ Insertable(i)
        /\ commits' = [commits EXCEPT ![i] = [owner |-> o, token |-> work[o][i].token]]
  /\ SetWork(o, i, NoWork)
  /\ UNCHANGED <<leaseVars, approved>>

\* The time of a reservation is over.
Lapse(o, i) ==
  /\ work[o][i] # NoWork /\ work[o][i].live
  /\ SetWork(o, i, [work[o][i] EXCEPT !.live = FALSE])
  /\ UNCHANGED <<leaseVars, commits, approved>>

\* HedgeRiskRuntime.stop: the reservations go first, the lease after them.
Stop(o) ==
  /\ Release(o)
  /\ work' = [work EXCEPT ![o] = [i \in Intents |->
                IF work[o][i] = NoWork THEN NoWork ELSE [work[o][i] EXCEPT !.live = FALSE]]]
  /\ UNCHANGED <<commits, approved>>

Die(o) ==
  /\ Dies(o)
  /\ work' = [work EXCEPT ![o] = [i \in Intents |-> NoWork]]
  /\ UNCHANGED <<commits, approved>>

LeaseStep ==
  /\ \/ \E o \in Owners : Acquire(o) \/ Renew(o) \/ Status(o) \/ StoreFails(o)
     \/ Tick
  /\ UNCHANGED approvalVars

Next ==
  \/ LeaseStep
  \/ \E o \in Owners : Stop(o) \/ Die(o)
  \/ \E o \in Owners, i \in Intents :
       Approve(o, i) \/ Build(o, i) \/ Commit(o, i) \/ CommitFails(o, i) \/ Lapse(o, i)

Spec == Init /\ [][Next]_vars

-----------------------------------------------------------------------------
(* Properties. *)

TypeOK ==
  /\ LeaseTypeOK
  /\ work \in [Owners -> [Intents -> Works \union {NoWork}]]
  /\ commits \in [Intents -> Commitments \union {NoCommit}]
  /\ approved \in [Intents -> Nat]

\* An intent is approved at most once, by however many threads and instances it is
\* repeated: the table decides (confirm, commit_approval_batch).
ApprovedOnce == \A i \in Intents : approved[i] <= 1

\* What the threads of one instance have reserved between them fits the capacity, also
\* between an approval and its commit (_approve_increase).
LocalCapacity ==
  \A o \in Owners :
    Cardinality({i \in Intents : work[o][i] # NoWork /\ work[o][i].live}) <= Capacity

\* Every durable approval carries a token that its instance has really had.
CommitsWereHeld ==
  \A i \in Intents :
    commits[i] # NoCommit => [owner |-> commits[i].owner, token |-> commits[i].token] \in grants

\* A record enters the table only under the token that is current then (the conditional
\* write of the docstring of RiskApprovalCoordinator).
CommitsAreFenced ==
  [][\A i \in Intents : commits'[i] # commits[i] => commits'[i].token = row.token]_vars

=============================================================================
