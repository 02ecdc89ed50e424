------------------------- MODULE DatabaseLeaseProofs -------------------------
(* Theorems about the single-writer lease, for any instances, clocks and lease terms. *)
EXTENDS DatabaseLease, TLAPS

\* The row is the latest grant: no token beyond it has been given out, and its own one to
\* its owner only.
RowIsLatest ==
  /\ row = NoLease => grants = {} /\ \A o \in Owners : guard[o] = NoLease
  /\ row # NoLease =>
       /\ [owner |-> row.owner, token |-> row.token] \in grants
       /\ \A g \in grants :
            /\ g.token <= row.token
            /\ g.token = row.token => g.owner = row.owner

\* What an instance believes is what the row says, or is over by the fastest clock.
GuardsAgree ==
  \A o \in Owners :
    guard[o] # NoLease =>
      /\ guard[o].owner = o
      /\ guard[o] = row \/ guard[o].expires <= clock

LeaseInv == LeaseTypeOK /\ RowIsLatest /\ OneOwnerPerToken /\ GuardsAgree

\* A lease that has not expired by the fastest clock is the row's.
LEMMA AgreementIsExclusive == ASSUME LeaseInv PROVE OneValidWriter
<1> USE LeaseAssumption, NoLeaseAssumption
<1>1. ASSUME NEW o \in Owners, guard[o] # NoLease, Unexpired(guard[o], clock)
      PROVE  guard[o] = row /\ row.owner = o
  <2>1. guard[o] \in Leases BY <1>1 DEF LeaseInv, LeaseTypeOK
  <2>2. guard[o].expires \in Nat /\ clock \in Nat
    BY <2>1 DEF Leases, LeaseInv, LeaseTypeOK
  <2> QED BY <1>1, <2>2 DEF LeaseInv, GuardsAgree, Unexpired
<1> QED BY <1>1 DEF OneValidWriter

\* A commit that keeps the pair of the row, or takes the next token, keeps the invariant,
\* if what the others believe of the row it replaces is over.
LEMMA CommitKeepsInv ==
  ASSUME LeaseInv, NEW o \in Owners, NEW lease \in Leases, lease.owner = o,
         Commits(o, lease), UNCHANGED <<clock, alive>>,
         row # NoLease => \/ lease.token = row.token /\ row.owner = o
                          \/ lease.token > row.token /\ row.expires <= clock
  PROVE  LeaseInv'
<1> USE LeaseAssumption, NoLeaseAssumption
<1> DEFINE pair == [owner |-> lease.owner, token |-> lease.token]
<1>1. /\ row' = lease /\ grants' = grants \union {pair}
      /\ guard' = [guard EXCEPT ![o] = NoLease] \/ guard' = [guard EXCEPT ![o] = lease]
      /\ clock' = clock /\ alive' = alive
  BY DEF Commits, Loses, Learns
<1>2. lease.token \in 1..MaxTokens /\ lease.owner \in Owners BY DEF Leases
<1>3. LeaseTypeOK' BY <1>1, <1>2 DEF LeaseInv, LeaseTypeOK
<1>4. row # NoLease => row.token \in 1..MaxTokens /\ row \in Leases
  BY DEF LeaseInv, LeaseTypeOK, Leases
<1>5. \A g \in grants : g.token \in 1..MaxTokens BY DEF LeaseInv, LeaseTypeOK
<1>6. \A g \in grants : g.token <= lease.token /\ (g.token = lease.token => g.owner = o)
  <2> SUFFICES ASSUME NEW g \in grants
               PROVE  g.token <= lease.token /\ (g.token = lease.token => g.owner = o)
    OBVIOUS
  <2>1. row # NoLease BY DEF LeaseInv, RowIsLatest
  <2>2. g.token <= row.token /\ (g.token = row.token => g.owner = row.owner)
    BY <2>1 DEF LeaseInv, RowIsLatest
  <2> QED BY <1>2, <1>4, <1>5, <2>1, <2>2
<1>7. row' # NoLease BY <1>1
<1>8. RowIsLatest'
  <2>1. pair \in grants' BY <1>1
  <2>2. \A g \in grants' :
          g.token <= lease.token /\ (g.token = lease.token => g.owner = lease.owner)
    BY <1>1, <1>2, <1>6
  <2> QED BY <1>1, <1>7, <2>1, <2>2 DEF RowIsLatest
<1>9. OneOwnerPerToken'
  BY <1>1, <1>2, <1>6 DEF LeaseInv, OneOwnerPerToken
<1>10. GuardsAgree'
  <2> SUFFICES ASSUME NEW p \in Owners, guard'[p] # NoLease
               PROVE  guard'[p].owner = p /\ (guard'[p] = lease \/ guard'[p].expires <= clock)
    BY <1>1 DEF GuardsAgree
  <2>1. guard \in [Owners -> Leases \union {NoLease}] BY DEF LeaseInv, LeaseTypeOK
  <2>2. CASE p = o BY <1>1, <2>1, <2>2
  <2>3. CASE p # o
    <3>1. guard'[p] = guard[p] BY <1>1, <2>1, <2>3
    <3>2. guard[p].owner = p /\ (guard[p] = row \/ guard[p].expires <= clock)
      BY <3>1 DEF LeaseInv, GuardsAgree
    <3>3. ASSUME guard[p] = row PROVE row # NoLease /\ row.owner # o
      BY <3>1, <3>2, <3>3, <2>3
    <3> QED BY <3>1, <3>2, <3>3
  <2> QED BY <2>2, <2>3
<1> QED BY <1>3, <1>8, <1>9, <1>10 DEF LeaseInv

\* Losing a lease, or learning again what the row says, keeps the invariant.
LEMMA LearningKeepsInv ==
  ASSUME LeaseInv, NEW o \in Owners, UNCHANGED <<clock, row, grants>>, alive' \subseteq Owners,
         Loses(o) \/ (row # NoLease /\ row.owner = o /\ Learns(o, row))
  PROVE  LeaseInv'
<1>1. guard \in [Owners -> Leases \union {NoLease}] BY DEF LeaseInv, LeaseTypeOK
<1>2. row \in Leases \union {NoLease} BY DEF LeaseInv, LeaseTypeOK
<1>3. \/ guard' = [guard EXCEPT ![o] = NoLease]
      \/ row # NoLease /\ row.owner = o /\ guard' = [guard EXCEPT ![o] = row]
  BY DEF Loses, Learns
<1>4. LeaseTypeOK' BY <1>1, <1>2, <1>3 DEF LeaseInv, LeaseTypeOK
<1>5. RowIsLatest' BY <1>1, <1>3 DEF LeaseInv, RowIsLatest
<1>6. GuardsAgree' BY <1>1, <1>3 DEF LeaseInv, GuardsAgree
<1>7. OneOwnerPerToken' BY DEF LeaseInv, OneOwnerPerToken
<1> QED BY <1>4, <1>5, <1>6, <1>7 DEF LeaseInv

LEMMA AcquireKeepsInv ==
  ASSUME LeaseInv, NEW o \in Owners, Acquire(o) PROVE LeaseInv'
<1> USE LeaseAssumption, NoLeaseAssumption
<1>1. clock \in Nat /\ alive \subseteq Owners /\ alive' = alive /\ clock' = clock
  BY DEF LeaseInv, LeaseTypeOK, Acquire
<1>2. row # NoLease => row \in Leases BY DEF LeaseInv, LeaseTypeOK
<1>3. PICK now \in Readings :
        \/ row = NoLease /\ MaxTokens > 0 /\ Commits(o, First(o, now))
        \/ /\ row # NoLease
           /\ ~Readable(row) \/ (row.owner # o /\ Unexpired(row, now))
           /\ Loses(o) /\ UNCHANGED <<row, grants>>
        \/ /\ row # NoLease /\ Readable(row)
           /\ row.owner # o => ~Unexpired(row, now)
           /\ Taken(o, now).token <= MaxTokens
           /\ Commits(o, Taken(o, now))
  BY DEF Acquire
<1>4. now \in Nat /\ now <= clock /\ now + Ttl \in Nat BY <1>1 DEF Readings
<1>5. CASE row = NoLease /\ MaxTokens > 0 /\ Commits(o, First(o, now))
  <2>1. First(o, now) \in Leases /\ First(o, now).owner = o
    BY <1>4, <1>5 DEF First, Leases
  <2> QED BY <1>1, <1>5, <2>1, CommitKeepsInv
<1>6. CASE Loses(o) /\ UNCHANGED <<row, grants>>
  BY <1>1, <1>6, LearningKeepsInv
<1>7. CASE /\ row # NoLease
           /\ row.owner # o => ~Unexpired(row, now)
           /\ Taken(o, now).token <= MaxTokens
           /\ Commits(o, Taken(o, now))
  <2>1. /\ row \in Leases /\ row.token \in 1..MaxTokens /\ row.expires \in Nat
        /\ row.acquired \in Nat
    BY <1>2, <1>7 DEF Leases
  <2>2. CASE row.owner = o /\ Unexpired(row, now)
    <3>1. Taken(o, now) = [row EXCEPT !.renewed = now, !.expires = now + Ttl]
      BY <2>2 DEF Taken
    <3>2. Taken(o, now) \in Leases BY <1>4, <2>1, <3>1 DEF Leases
    <3>3. Taken(o, now).owner = o /\ Taken(o, now).token = row.token
      BY <2>1, <2>2, <3>1 DEF Leases
    <3> QED BY <1>1, <1>7, <2>2, <3>2, <3>3, CommitKeepsInv
  <2>3. CASE ~(row.owner = o /\ Unexpired(row, now))
    <3>1. Taken(o, now) = [owner |-> o, token |-> row.token + 1, acquired |-> now,
                           renewed |-> now, expires |-> now + Ttl]
      BY <2>3 DEF Taken
    <3>2. row.token + 1 \in 1..MaxTokens BY <1>7, <2>1, <3>1
    <3>3. Taken(o, now) \in Leases BY <1>4, <3>1, <3>2 DEF Leases
    <3>4. row.expires <= clock BY <1>1, <1>4, <1>7, <2>1, <2>3 DEF Unexpired
    <3>5. Taken(o, now).owner = o /\ Taken(o, now).token > row.token BY <2>1, <3>1
    <3> QED BY <1>1, <1>7, <3>3, <3>4, <3>5, CommitKeepsInv
  <2> QED BY <2>2, <2>3
<1> QED BY <1>3, <1>5, <1>6, <1>7

LEMMA RenewKeepsInv ==
  ASSUME LeaseInv, NEW o \in Owners, Renew(o) PROVE LeaseInv'
<1> USE LeaseAssumption, NoLeaseAssumption
<1>1. clock \in Nat /\ alive \subseteq Owners /\ alive' = alive /\ clock' = clock
  BY DEF LeaseInv, LeaseTypeOK, Renew
<1>2. PICK now \in Readings :
        IF IsMine(o) /\ Unexpired(row, now)
        THEN Commits(o, [row EXCEPT !.renewed = now, !.expires = now + Ttl])
        ELSE Loses(o) /\ UNCHANGED <<row, grants>>
  BY DEF Renew
<1>3. CASE IsMine(o) /\ Unexpired(row, now)
  <2> DEFINE lease == [row EXCEPT !.renewed = now, !.expires = now + Ttl]
  <2>1. row # NoLease /\ row.owner = o /\ row \in Leases
    BY <1>3 DEF IsMine, LeaseInv, LeaseTypeOK
  <2>2. now \in Nat /\ now + Ttl \in Nat BY <1>1 DEF Readings
  <2>3. lease \in Leases /\ lease.owner = o /\ lease.token = row.token
    BY <2>1, <2>2 DEF Leases
  <2>4. Commits(o, lease) BY <1>2, <1>3
  <2> HIDE DEF lease
  <2> QED BY <1>1, <2>1, <2>3, <2>4, CommitKeepsInv
<1>4. CASE ~(IsMine(o) /\ Unexpired(row, now))
  BY <1>1, <1>2, <1>4, LearningKeepsInv
<1> QED BY <1>3, <1>4

LEMMA StatusKeepsInv ==
  ASSUME LeaseInv, NEW o \in Owners, NEW now, Checked(o, now), UNCHANGED <<clock, row, alive, grants>>
  PROVE  LeaseInv'
<1>1. alive' \subseteq Owners BY DEF LeaseInv, LeaseTypeOK
<1>2. Valid(o, now) => row # NoLease /\ row.owner = o BY DEF Valid, IsMine
<1> QED BY <1>1, <1>2, LearningKeepsInv DEF Checked, Loses, Learns

LEMMA ReleaseKeepsInv ==
  ASSUME LeaseInv, NEW o \in Owners, Release(o) PROVE LeaseInv'
<1> USE LeaseAssumption, NoLeaseAssumption
<1>1. alive' \subseteq Owners /\ UNCHANGED <<clock, alive, grants>> /\ Loses(o)
  BY DEF LeaseInv, LeaseTypeOK, Release
<1>2. CASE ~IsMine(o) BY <1>1, <1>2, LearningKeepsInv DEF Release
<1>3. CASE IsMine(o)
  <2>1. row \in Leases /\ row # NoLease /\ row.owner = o
    BY <1>3 DEF IsMine, LeaseInv, LeaseTypeOK
  <2>2. row' = [row EXCEPT !.expires = 0] BY <1>3 DEF Release
  <2>3. row' \in Leases /\ row'.owner = row.owner /\ row'.token = row.token
    BY <2>1, <2>2 DEF Leases
  <2>4. guard \in [Owners -> Leases \union {NoLease}] /\ guard' = [guard EXCEPT ![o] = NoLease]
    BY <1>1 DEF LeaseInv, LeaseTypeOK, Loses, Learns
  <2>5. LeaseTypeOK' BY <1>1, <2>3, <2>4 DEF LeaseInv, LeaseTypeOK
  <2>6. row' # NoLease BY <2>3
  <2>7. RowIsLatest' BY <1>1, <2>1, <2>3, <2>6 DEF LeaseInv, RowIsLatest
  <2>8. OneOwnerPerToken' BY <1>1 DEF LeaseInv, OneOwnerPerToken
  <2>9. \A p \in Owners : guard'[p] # NoLease => p # o /\ guard'[p] = guard[p] BY <2>4
  <2>10. GuardsAgree' BY <1>1, <2>1, <2>9 DEF LeaseInv, GuardsAgree
  <2> QED BY <2>5, <2>7, <2>8, <2>10 DEF LeaseInv
<1> QED BY <1>2, <1>3

LEMMA TickKeepsInv == ASSUME LeaseInv, Tick PROVE LeaseInv'
<1>1. clock \in Nat /\ clock' = clock + 1 /\ UNCHANGED <<row, guard, alive, grants>>
  BY DEF LeaseInv, LeaseTypeOK, Tick
<1>2. LeaseTypeOK' BY <1>1 DEF LeaseInv, LeaseTypeOK
<1>3. RowIsLatest' /\ OneOwnerPerToken'
  BY <1>1 DEF LeaseInv, RowIsLatest, OneOwnerPerToken
<1>4. \A o \in Owners : guard[o] # NoLease => guard[o].expires \in Nat
  BY DEF LeaseInv, LeaseTypeOK, Leases
<1>5. GuardsAgree' BY <1>1, <1>4 DEF LeaseInv, GuardsAgree
<1> QED BY <1>2, <1>3, <1>5 DEF LeaseInv

\* The invariant holds initially and every operation of the lease keeps it.
THEOREM LeaseInvHolds == LeaseSpec => []LeaseInv
<1>1. LeaseInit => LeaseInv
  BY DEF LeaseInit, LeaseInv, LeaseTypeOK, RowIsLatest, OneOwnerPerToken, GuardsAgree
<1>2. ASSUME LeaseInv, [LeaseNext]_leaseVars PROVE LeaseInv'
  <2>1. ASSUME NEW o \in Owners, Status(o) PROVE LeaseInv'
    BY <1>2, <2>1, StatusKeepsInv DEF Status
  <2>2. ASSUME NEW o \in Owners, StoreFails(o) \/ Dies(o) PROVE LeaseInv'
    <3>1. alive' \subseteq Owners /\ Loses(o) /\ UNCHANGED <<clock, row, grants>>
      BY <1>2, <2>2 DEF StoreFails, Dies, LeaseInv, LeaseTypeOK
    <3> QED BY <1>2, <3>1, LearningKeepsInv
  <2>3. CASE UNCHANGED leaseVars
    BY <1>2, <2>3 DEF leaseVars, LeaseInv, LeaseTypeOK, RowIsLatest, OneOwnerPerToken, GuardsAgree
  <2> QED
    BY <1>2, <2>1, <2>2, <2>3, AcquireKeepsInv, RenewKeepsInv, ReleaseKeepsInv, TickKeepsInv
    DEF LeaseNext
<1> QED BY <1>1, <1>2, PTL DEF LeaseSpec

=============================================================================
