------------------------- MODULE RiskApprovalProofs -------------------------
(* Theorems about risk approvals, for any instances, intents, capacities and lease terms. *)
EXTENDS RiskApproval, DatabaseLeaseProofs, FiniteSetTheorems

\* What an approval does to the lease is a status check.
LEMMA ApproveIsStatus ==
  ASSUME NEW o \in Owners, NEW i \in Intents, Approve(o, i) PROVE Status(o)
BY DEF Approve, Status

LEMMA BuildIsStatus ==
  ASSUME NEW o \in Owners, NEW i \in Intents, Build(o, i) PROVE Status(o) \/ UNCHANGED leaseVars
BY DEF Build, Status, leaseVars

\* Every step of the approvals is a step of the lease, or leaves it alone.
THEOREM ApprovalsKeepTheLease == Spec => LeaseSpec
<1>1. Init => LeaseInit BY DEF Init
<1>2. [Next]_vars => [LeaseNext]_leaseVars
  <2> SUFFICES ASSUME [Next]_vars PROVE [LeaseNext]_leaseVars OBVIOUS
  <2>1. CASE LeaseStep BY <2>1 DEF LeaseStep, LeaseNext
  <2>2. ASSUME NEW o \in Owners, Stop(o) \/ Die(o) PROVE LeaseNext
    BY <2>2 DEF Stop, Die, LeaseNext
  <2>3. ASSUME NEW o \in Owners, NEW i \in Intents, Approve(o, i) \/ Build(o, i)
        PROVE  [LeaseNext]_leaseVars
    BY <2>3, ApproveIsStatus, BuildIsStatus DEF LeaseNext
  <2>4. ASSUME NEW o \in Owners, NEW i \in Intents,
               Commit(o, i) \/ CommitFails(o, i) \/ Lapse(o, i)
        PROVE  UNCHANGED leaseVars
    BY <2>4 DEF Commit, CommitFails, Lapse, leaseVars
  <2>5. CASE UNCHANGED vars BY <2>5 DEF vars
  <2> QED BY <2>1, <2>2, <2>3, <2>4, <2>5 DEF Next
<1> QED BY <1>1, <1>2, PTL DEF Spec, LeaseSpec

\* A fencing token names one instance for ever (acquire of database_lease.py).
THEOREM TokensNameOneOwner == Spec => []OneOwnerPerToken
<1>1. LeaseInv => OneOwnerPerToken BY DEF LeaseInv
<1> QED BY <1>1, ApprovalsKeepTheLease, LeaseInvHolds, PTL

\* At most one instance has a lease that is not over by the fastest clock, whatever the
\* slower ones read.
THEOREM WritersAreAlone == Spec => []OneValidWriter
<1>1. LeaseInv => OneValidWriter BY AgreementIsExclusive
<1> QED BY <1>1, ApprovalsKeepTheLease, LeaseInvHolds, PTL

-----------------------------------------------------------------------------

\* An approval in progress carries a token its instance has had.
WorksWereHeld ==
  \A o \in Owners, i \in Intents :
    work[o][i] # NoWork => [owner |-> o, token |-> work[o][i].token] \in grants

\* An approved intent is in the table, and was approved once.
ApprovedIsStored ==
  \A i \in Intents : approved[i] <= 1 /\ (approved[i] = 1 => commits[i] # NoCommit)

ApprovalInv ==
  /\ LeaseInv /\ TypeOK
  /\ WorksWereHeld /\ CommitsWereHeld /\ ApprovedIsStored

LEMMA WorkRecords ==
  ASSUME TypeOK, NEW o \in Owners, NEW i \in Intents, work[o][i] # NoWork
  PROVE  /\ work[o][i] \in Works /\ work[o][i].token \in 1..MaxTokens
         /\ work[o][i].live \in BOOLEAN
BY DEF TypeOK, Works

\* Forgetting or weakening an approval keeps what is said of it.
LEMMA LeaseStepKeepsInv ==
  ASSUME ApprovalInv, LeaseInv', UNCHANGED approvalVars, grants \subseteq grants' PROVE ApprovalInv'
BY DEF ApprovalInv, LeaseInv, TypeOK, approvalVars, WorksWereHeld, CommitsWereHeld, ApprovedIsStored

LEMMA GrantsGrow == ASSUME [LeaseNext]_leaseVars PROVE grants \subseteq grants'
BY DEF LeaseNext, leaseVars, Acquire, Renew, Status, Release, StoreFails, Dies, Tick, Commits

\* A step that only sets the approval of one intent, to one that was held or to none.
LEMMA SetWorkKeepsInv ==
  ASSUME ApprovalInv, LeaseInv', grants \subseteq grants',
         NEW o \in Owners, NEW i \in Intents, NEW w \in Works \union {NoWork},
         SetWork(o, i, w), UNCHANGED <<commits, approved>>,
         w # NoWork => [owner |-> o, token |-> w.token] \in grants
  PROVE  ApprovalInv'
<1>1. /\ work \in [Owners -> [Intents -> Works \union {NoWork}]]
      /\ work' = [work EXCEPT ![o][i] = w]
  BY DEF ApprovalInv, TypeOK, SetWork
<1>2. TypeOK' BY <1>1 DEF ApprovalInv, TypeOK, LeaseInv
<1>3. \A p \in Owners, j \in Intents :
        work'[p][j] = IF p = o /\ j = i THEN w ELSE work[p][j]
  BY <1>1
<1>4. WorksWereHeld' BY <1>3 DEF ApprovalInv, WorksWereHeld
<1> QED BY <1>2, <1>4 DEF ApprovalInv, CommitsWereHeld, ApprovedIsStored

LEMMA ApproveKeepsInv ==
  ASSUME ApprovalInv, LeaseInv', NEW o \in Owners, NEW i \in Intents, Approve(o, i)
  PROVE  ApprovalInv'
<1>1. UNCHANGED <<grants, commits, approved>> BY DEF Approve
<1>2. PICK now \in Readings, used \in 0..Capacity :
        IF Valid(o, now) /\ used + Cardinality(Reserved(o)) < Capacity
        THEN SetWork(o, i, [at |-> "reserved", token |-> row.token, live |-> TRUE])
        ELSE UNCHANGED work
  BY DEF Approve
<1>3. CASE UNCHANGED work
  BY <1>1, <1>3 DEF ApprovalInv, LeaseInv, TypeOK, WorksWereHeld, CommitsWereHeld, ApprovedIsStored
<1>4. CASE /\ Valid(o, now)
           /\ SetWork(o, i, [at |-> "reserved", token |-> row.token, live |-> TRUE])
  <2> DEFINE w == [at |-> "reserved", token |-> row.token, live |-> TRUE]
  <2>1. row # NoLease /\ row \in Leases /\ row.owner = o
    BY <1>4 DEF Valid, IsMine, ApprovalInv, LeaseInv, LeaseTypeOK
  <2>2. w \in Works BY <2>1 DEF Leases, Works
  <2>3. [owner |-> o, token |-> w.token] \in grants
    BY <2>1 DEF ApprovalInv, LeaseInv, RowIsLatest
  <2>4. SetWork(o, i, w) BY <1>4
  <2> HIDE DEF w
  <2> QED BY <1>1, <2>2, <2>3, <2>4, SetWorkKeepsInv
<1> QED BY <1>2, <1>3, <1>4

LEMMA BuildKeepsInv ==
  ASSUME ApprovalInv, LeaseInv', NEW o \in Owners, NEW i \in Intents, Build(o, i)
  PROVE  ApprovalInv'
<1>1. UNCHANGED <<grants, commits, approved>> /\ work[o][i] # NoWork BY DEF Build
<1>2. /\ work[o][i] \in Works
      /\ [owner |-> o, token |-> work[o][i].token] \in grants
  BY <1>1, WorkRecords DEF ApprovalInv, WorksWereHeld
<1>3. \/ SetWork(o, i, NoWork) \/ SetWork(o, i, [work[o][i] EXCEPT !.at = "built"])
  BY DEF Build
<1>4. /\ [work[o][i] EXCEPT !.at = "built"] \in Works
      /\ [work[o][i] EXCEPT !.at = "built"].token = work[o][i].token
  BY <1>2 DEF Works
<1> QED BY <1>1, <1>2, <1>3, <1>4, SetWorkKeepsInv

\* What Commit and CommitFails do between them.
LEMMA CommitKeepsApprovalInv ==
  ASSUME ApprovalInv, LeaseInv', NEW o \in Owners, NEW i \in Intents,
         Commit(o, i) \/ CommitFails(o, i)
  PROVE  ApprovalInv'
<1> USE NothingAssumption
<1> DEFINE record == [owner |-> o, token |-> work[o][i].token]
<1>1. grants' = grants /\ work[o][i] # NoWork /\ SetWork(o, i, NoWork)
  BY DEF Commit, CommitFails, leaseVars
<1>2. record \in grants /\ record \in Commitments
  BY <1>1, WorkRecords DEF ApprovalInv, WorksWereHeld, Commitments
<1>3. CASE UNCHANGED <<commits, approved>>
  BY <1>1, <1>3, SetWorkKeepsInv
<1>4. CASE /\ Insertable(i) /\ commits' = [commits EXCEPT ![i] = record]
           /\ approved' \in {approved, [approved EXCEPT ![i] = @ + 1]}
  <2>1. /\ commits \in [Intents -> Commitments \union {NoCommit}]
        /\ approved \in [Intents -> Nat] /\ commits[i] = NoCommit
    BY <1>4 DEF ApprovalInv, TypeOK, Insertable
  <2>2. approved[i] = 0 BY <2>1 DEF ApprovalInv, ApprovedIsStored
  <2>3. /\ commits' \in [Intents -> Commitments \union {NoCommit}]
        /\ commits'[i] = record
        /\ \A j \in Intents \ {i} : commits'[j] = commits[j]
    BY <1>2, <1>4, <2>1
  <2>4. /\ approved' \in [Intents -> Nat] /\ approved'[i] <= 1
        /\ \A j \in Intents \ {i} : approved'[j] = approved[j]
    BY <1>4, <2>1, <2>2
  <2>5. /\ work' \in [Owners -> [Intents -> Works \union {NoWork}]]
        /\ \A p \in Owners, j \in Intents : work'[p][j] \in {work[p][j], NoWork}
    BY <1>1 DEF SetWork, ApprovalInv, TypeOK
  <2>6. TypeOK' BY <2>3, <2>4, <2>5 DEF TypeOK, LeaseInv
  <2>7. WorksWereHeld' BY <1>1, <2>5 DEF ApprovalInv, WorksWereHeld
  <2>8. CommitsWereHeld' BY <1>1, <1>2, <2>3 DEF ApprovalInv, CommitsWereHeld
  <2>9. ApprovedIsStored' BY <1>2, <2>3, <2>4 DEF ApprovalInv, ApprovedIsStored
  <2> QED BY <2>6, <2>7, <2>8, <2>9 DEF ApprovalInv
<1> QED BY <1>3, <1>4 DEF Commit, CommitFails

LEMMA LapseKeepsInv ==
  ASSUME ApprovalInv, LeaseInv', NEW o \in Owners, NEW i \in Intents, Lapse(o, i)
  PROVE  ApprovalInv'
<1>1. /\ UNCHANGED <<grants, commits, approved>> /\ work[o][i] # NoWork
      /\ SetWork(o, i, [work[o][i] EXCEPT !.live = FALSE])
  BY DEF Lapse, leaseVars
<1>2. /\ work[o][i] \in Works
      /\ [owner |-> o, token |-> work[o][i].token] \in grants
  BY <1>1, WorkRecords DEF ApprovalInv, WorksWereHeld
<1>3. /\ [work[o][i] EXCEPT !.live = FALSE] \in Works
      /\ [work[o][i] EXCEPT !.live = FALSE].token = work[o][i].token
  BY <1>2 DEF Works
<1> QED BY <1>1, <1>2, <1>3, SetWorkKeepsInv

LEMMA EndKeepsInv ==
  ASSUME ApprovalInv, LeaseInv', NEW o \in Owners, Stop(o) \/ Die(o)
  PROVE  ApprovalInv'
<1>1. UNCHANGED <<grants, commits, approved>> BY DEF Stop, Die, Release, Dies
<1>2. work \in [Owners -> [Intents -> Works \union {NoWork}]] BY DEF ApprovalInv, TypeOK
<1>3. \A i \in Intents :
        work[o][i] # NoWork =>
          /\ [work[o][i] EXCEPT !.live = FALSE] \in Works
          /\ [work[o][i] EXCEPT !.live = FALSE].token = work[o][i].token
  BY WorkRecords DEF ApprovalInv, Works
<1>4. \/ work' = [work EXCEPT ![o] = [i \in Intents |-> NoWork]]
      \/ work' = [work EXCEPT ![o] = [i \in Intents |->
                    IF work[o][i] = NoWork THEN NoWork ELSE [work[o][i] EXCEPT !.live = FALSE]]]
  BY DEF Stop, Die
<1>5. /\ work' \in [Owners -> [Intents -> Works \union {NoWork}]]
      /\ \A p \in Owners, i \in Intents :
           work'[p][i] = NoWork \/ (work[p][i] # NoWork /\ work'[p][i].token = work[p][i].token)
  <2>1. PICK mine \in [Intents -> Works \union {NoWork}] :
          /\ work' = [work EXCEPT ![o] = mine]
          /\ \A i \in Intents :
               mine[i] = NoWork \/ (work[o][i] # NoWork /\ mine[i].token = work[o][i].token)
    <3>1. CASE work' = [work EXCEPT ![o] = [i \in Intents |-> NoWork]]
      <4> DEFINE mine == [i \in Intents |-> NoWork]
      <4>1. mine \in [Intents -> Works \union {NoWork}] OBVIOUS
      <4>2. \A i \in Intents : mine[i] = NoWork OBVIOUS
      <4>3. work' = [work EXCEPT ![o] = mine] BY <3>1
      <4> HIDE DEF mine
      <4> QED BY <4>1, <4>2, <4>3
    <3>2. CASE work' = [work EXCEPT ![o] = [i \in Intents |->
                 IF work[o][i] = NoWork THEN NoWork ELSE [work[o][i] EXCEPT !.live = FALSE]]]
      <4> DEFINE mine == [i \in Intents |->
                 IF work[o][i] = NoWork THEN NoWork ELSE [work[o][i] EXCEPT !.live = FALSE]]
      <4>1. mine \in [Intents -> Works \union {NoWork}] BY <1>3
      <4>2. \A i \in Intents :
               mine[i] = NoWork \/ (work[o][i] # NoWork /\ mine[i].token = work[o][i].token)
        BY <1>3
      <4>3. work' = [work EXCEPT ![o] = mine] BY <3>2
      <4> HIDE DEF mine
      <4> QED BY <4>1, <4>2, <4>3
    <3> QED BY <1>4, <3>1, <3>2
  <2> QED BY <1>2, <2>1
<1>6. TypeOK' BY <1>1, <1>5 DEF ApprovalInv, TypeOK, LeaseInv
<1>7. WorksWereHeld' BY <1>1, <1>5 DEF ApprovalInv, WorksWereHeld
<1> QED BY <1>1, <1>6, <1>7 DEF ApprovalInv, CommitsWereHeld, ApprovedIsStored

\* The invariant of the approvals over that of the lease.
THEOREM ApprovalInvHolds == Spec => []ApprovalInv
<1>1. Init /\ LeaseInv => ApprovalInv
  BY DEF Init, LeaseInit, ApprovalInv, LeaseInv, TypeOK, WorksWereHeld, CommitsWereHeld,
         ApprovedIsStored
<1>2. ApprovalInv /\ LeaseInv' /\ [Next]_vars => ApprovalInv'
  <2> SUFFICES ASSUME ApprovalInv, LeaseInv', [Next]_vars PROVE ApprovalInv' OBVIOUS
  <2>1. CASE LeaseStep
    <3>1. [LeaseNext]_leaseVars /\ UNCHANGED approvalVars BY <2>1 DEF LeaseStep, LeaseNext
    <3> QED BY <3>1, GrantsGrow, LeaseStepKeepsInv
  <2>2. CASE UNCHANGED vars
    <3>1. UNCHANGED approvalVars /\ grants' = grants BY <2>2 DEF vars, leaseVars
    <3> QED BY <3>1, LeaseStepKeepsInv
  <2> QED
    BY <2>1, <2>2, EndKeepsInv, ApproveKeepsInv, BuildKeepsInv, CommitKeepsApprovalInv,
       LapseKeepsInv DEF Next
<1> QED BY <1>1, <1>2, ApprovalsKeepTheLease, LeaseInvHolds, PTL DEF Spec

\* Every variable keeps its type.
THEOREM TypeCorrect == Spec => []TypeOK
<1>1. ApprovalInv => TypeOK BY DEF ApprovalInv
<1> QED BY <1>1, ApprovalInvHolds, PTL

\* However often and by whomever an intent is repeated, it is approved once.
THEOREM IntentsAreApprovedOnce == Spec => []ApprovedOnce
<1>1. ApprovalInv => ApprovedOnce BY DEF ApprovalInv, ApprovedIsStored, ApprovedOnce
<1> QED BY <1>1, ApprovalInvHolds, PTL

\* Every durable approval carries a token that its instance has had.
THEOREM TokensOfCommitsWereHeld == Spec => []CommitsWereHeld
<1>1. ApprovalInv => CommitsWereHeld BY DEF ApprovalInv
<1> QED BY <1>1, ApprovalInvHolds, PTL

-----------------------------------------------------------------------------

Live(o) == {i \in Intents : work[o][i] # NoWork /\ work[o][i].live}

LEMMA LiveIsFinite ==
  ASSUME NEW o \in Owners PROVE IsFiniteSet(Live(o)) /\ Cardinality(Live(o)) \in Nat
<1>1. Live(o) \subseteq Intents BY DEF Live
<1> QED BY <1>1, ApprovalAssumption, FS_Subset, FS_CardinalityType

\* A step that adds no live reservation keeps within the capacity.
LEMMA FewerFit ==
  ASSUME LocalCapacity, NEW o \in Owners, Live(o)' \subseteq Live(o)
  PROVE  Cardinality(Live(o)') <= Capacity
<1>1. /\ IsFiniteSet(Live(o)) /\ Cardinality(Live(o)) \in Nat
      /\ Cardinality(Live(o)) <= Capacity
  BY LiveIsFinite DEF LocalCapacity, Live
<1>2. IsFiniteSet(Live(o)') /\ Cardinality(Live(o)') <= Cardinality(Live(o))
  BY <1>1, FS_Subset
<1>3. Cardinality(Live(o)') \in Nat BY <1>2, FS_CardinalityType
<1> QED BY <1>1, <1>2, <1>3, ApprovalAssumption

LEMMA SetWorkLive ==
  ASSUME TypeOK, NEW o \in Owners, NEW i \in Intents, NEW w, SetWork(o, i, w),
         NEW p \in Owners
  PROVE  /\ p # o \/ w = NoWork \/ ~w.live => Live(p)' \subseteq Live(p)
         /\ Live(p)' \subseteq Live(p) \union {i}
         /\ i \in Live(o) => Live(p)' \subseteq Live(p)
<1>1. \A j \in Intents : work'[p][j] = IF p = o /\ j = i THEN w ELSE work[p][j]
  BY DEF SetWork, TypeOK
<1> QED BY <1>1 DEF Live

LEMMA ApproveFits ==
  ASSUME TypeOK, LocalCapacity, NEW o \in Owners, NEW i \in Intents, Approve(o, i),
         NEW p \in Owners
  PROVE  Cardinality(Live(p)') <= Capacity
<1>1. PICK now \in Readings, used \in 0..Capacity :
        IF Valid(o, now) /\ used + Cardinality(Reserved(o)) < Capacity
        THEN SetWork(o, i, [at |-> "reserved", token |-> row.token, live |-> TRUE])
        ELSE UNCHANGED work
  BY DEF Approve
<1>2. CASE UNCHANGED work BY <1>2, FewerFit DEF Live
<1>3. CASE /\ used + Cardinality(Reserved(o)) < Capacity
           /\ SetWork(o, i, [at |-> "reserved", token |-> row.token, live |-> TRUE])
  <2>1. CASE p # o BY <1>3, <2>1, SetWorkLive, FewerFit
  <2>2. CASE p = o
    <3>1. Live(o)' \subseteq Live(o) \union {i} BY <1>3, SetWorkLive
    <3>2. Reserved(o) = Live(o) BY DEF Reserved, Live
    <3>3. /\ IsFiniteSet(Live(o)) /\ Cardinality(Live(o)) \in Nat
          /\ Cardinality(Live(o)) < Capacity
      BY <1>3, <3>2, LiveIsFinite, ApprovalAssumption
    <3>4. /\ IsFiniteSet(Live(o) \union {i})
          /\ Cardinality(Live(o) \union {i}) <= Cardinality(Live(o)) + 1
      <4>1. /\ IsFiniteSet(Live(o) \union {i})
            /\ \/ Cardinality(Live(o) \union {i}) = Cardinality(Live(o))
               \/ Cardinality(Live(o) \union {i}) = Cardinality(Live(o)) + 1
        BY <3>3, FS_AddElement
      <4> QED BY <3>3, <4>1
    <3>5. /\ IsFiniteSet(Live(o)')
          /\ Cardinality(Live(o)') <= Cardinality(Live(o) \union {i})
      BY <3>1, <3>4, FS_Subset
    <3>6. Cardinality(Live(o)') \in Nat /\ Cardinality(Live(o) \union {i}) \in Nat
      BY <3>4, <3>5, FS_CardinalityType
    <3> QED BY <2>2, <3>3, <3>4, <3>5, <3>6, ApprovalAssumption
  <2> QED BY <2>1, <2>2
<1> QED BY <1>1, <1>2, <1>3

\* The reservations of an instance, those on their way into the table included, fit the
\* capacity, for any number of intents.
THEOREM ReservationsFit == Spec => []LocalCapacity
<1>1. Init => LocalCapacity
  <2> SUFFICES ASSUME Init, NEW o \in Owners PROVE Cardinality(Live(o)) <= Capacity
    BY DEF LocalCapacity, Live
  <2>1. Live(o) = {} BY DEF Init, Live
  <2> QED BY <2>1, FS_EmptySet, ApprovalAssumption
<1>2. LocalCapacity /\ TypeOK /\ [Next]_vars => LocalCapacity'
  <2> SUFFICES ASSUME LocalCapacity, TypeOK, [Next]_vars, NEW p \in Owners
               PROVE  Cardinality(Live(p)') <= Capacity
    BY DEF LocalCapacity, Live
  <2>1. CASE LeaseStep \/ UNCHANGED vars
    BY <2>1, FewerFit DEF LeaseStep, vars, approvalVars, Live
  <2>2. ASSUME NEW o \in Owners, NEW i \in Intents, Approve(o, i)
        PROVE  Cardinality(Live(p)') <= Capacity
    BY <2>2, ApproveFits
  <2>3. ASSUME NEW o \in Owners, NEW i \in Intents,
               Build(o, i) \/ Commit(o, i) \/ CommitFails(o, i) \/ Lapse(o, i)
        PROVE  Cardinality(Live(p)') <= Capacity
    <3>1. work[o][i] # NoWork BY <2>3 DEF Build, Commit, CommitFails, Lapse
    <3>2. work[o][i] \in Works BY <3>1, WorkRecords
    <3>3. \/ SetWork(o, i, NoWork)
          \/ SetWork(o, i, [work[o][i] EXCEPT !.at = "built"]) /\ work[o][i].live
          \/ SetWork(o, i, [work[o][i] EXCEPT !.live = FALSE])
      BY <2>3 DEF Build, Commit, CommitFails, Lapse
    <3>4. ~[work[o][i] EXCEPT !.live = FALSE].live BY <3>2 DEF Works
    <3>5. work[o][i].live => i \in Live(o) BY <3>1 DEF Live
    <3>6. PICK w : SetWork(o, i, w) /\ (w = NoWork \/ ~w.live \/ i \in Live(o))
      BY <3>3, <3>4, <3>5
    <3>7. Live(p)' \subseteq Live(p)
      <4>1. CASE w = NoWork \/ ~w.live BY <3>6, <4>1, SetWorkLive
      <4>2. CASE i \in Live(o) BY <3>6, <4>2, SetWorkLive
      <4> QED BY <3>6, <4>1, <4>2
    <3> QED BY <3>7, FewerFit
  <2>4. ASSUME NEW o \in Owners, Stop(o) \/ Die(o)
        PROVE  Cardinality(Live(p)') <= Capacity
    <3>1. work \in [Owners -> [Intents -> Works \union {NoWork}]] BY DEF TypeOK
    <3>2. \A i \in Intents : work[o][i] # NoWork => ~[work[o][i] EXCEPT !.live = FALSE].live
      BY WorkRecords DEF Works
    <3>3. CASE Die(o) BY <3>1, <3>3, FewerFit DEF Die, Live
    <3>4. CASE Stop(o)
      <4>1. \A q \in Owners, i \in Intents :
              work'[q][i] = IF q # o THEN work[q][i]
                            ELSE IF work[o][i] = NoWork THEN NoWork
                            ELSE [work[o][i] EXCEPT !.live = FALSE]
        BY <3>1, <3>4 DEF Stop
      <4>2. Live(p)' \subseteq Live(p) BY <3>2, <4>1 DEF Live
      <4> QED BY <4>2, FewerFit
    <3> QED BY <2>4, <3>3, <3>4
  <2> QED BY <2>1, <2>2, <2>3, <2>4 DEF Next
<1> QED BY <1>1, <1>2, TypeCorrect, PTL DEF Spec

=============================================================================
