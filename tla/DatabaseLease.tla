---------------------------- MODULE DatabaseLease ----------------------------
(***************************************************************************)
(* The single-writer lease: the row of concurrency/database_lease.py and   *)
(* the guards of concurrency/single_writer.py, one in each instance of the *)
(* program (its owner id holds a fresh uuid, so an instance that is gone   *)
(* does not come back).  lease_runner.py repeats Acquire and Renew.        *)
(*                                                                         *)
(* Each operation on the row is one transaction.  An instance reads its    *)
(* own clock, which may be behind the fastest clock by up to Lag and may   *)
(* step back; clock is the fastest one.                                    *)
(***************************************************************************)
EXTENDS Naturals

CONSTANTS
  Owners,     \* instances of the program
  NoLease,    \* no row, or a guard without a lease
  Ttl,        \* ttl_ms, in ticks
  Lag,        \* how far behind a clock may be
  MaxTime,    \* bound on clock
  MaxTokens   \* bound on the fencing tokens given out

ASSUME LeaseAssumption ==
  /\ Ttl \in Nat \ {0} /\ Lag \in Nat
  /\ MaxTime \in Nat /\ MaxTokens \in Nat

VARIABLES
  clock,
  row,      \* the lease row
  guard,    \* the lease each instance believes to have
  alive,    \* the instances that run
  grants    \* every owner and token the row has had

leaseVars == <<clock, row, guard, alive, grants>>

Leases == [owner : Owners, token : 1..MaxTokens, acquired : Nat, renewed : Nat, expires : Nat]

ASSUME NoLeaseAssumption == NoLease \notin Leases

LeaseInit ==
  /\ clock = 0
  /\ row = NoLease
  /\ guard = [o \in Owners |-> NoLease]
  /\ alive = Owners
  /\ grants = {}

-----------------------------------------------------------------------------

Readings == {now \in 0..clock : clock <= now + Lag}

\* LeaseRecord refuses to be built from a renewal before the acquisition.
Readable(lease) == lease.acquired <= lease.renewed

Unexpired(lease, now) == now < lease.expires

Learns(o, lease) == guard' = [guard EXCEPT ![o] = lease]

Loses(o) == Learns(o, NoLease)

\* The transaction commits; the caller learns it unless the record cannot be built or the
\* answer of the database is lost.
Commits(o, lease) ==
  /\ row' = lease
  /\ grants' = grants \union {[owner |-> lease.owner, token |-> lease.token]}
  /\ Loses(o) \/ (Readable(lease) /\ Learns(o, lease))

\* Mutant: a takeover keeps the fencing token.
TakenWithItsToken(o, now) ==
  [row EXCEPT !.owner = o, !.acquired = now, !.renewed = now, !.expires = now + Ttl]

\* A live row of its own is kept with the token it has; any other is taken with a new one.
Taken(o, now) ==
  IF row.owner = o /\ Unexpired(row, now)
  THEN [row EXCEPT !.renewed = now, !.expires = now + Ttl]
  ELSE [owner |-> o, token |-> row.token + 1, acquired |-> now, renewed |-> now,
        expires |-> now + Ttl]

\* Mutant: the first token is 0.
FirstFromZero(o, now) ==
  [owner |-> o, token |-> 0, acquired |-> now, renewed |-> now, expires |-> now + Ttl]

First(o, now) ==
  [owner |-> o, token |-> 1, acquired |-> now, renewed |-> now, expires |-> now + Ttl]

Acquire(o) ==
  /\ o \in alive
  /\ \E now \in Readings :
       \/ row = NoLease /\ MaxTokens > 0 /\ Commits(o, First(o, now))
       \/ /\ row # NoLease
          /\ ~Readable(row) \/ (row.owner # o /\ Unexpired(row, now))
          /\ Loses(o) /\ UNCHANGED <<row, grants>>
       \/ /\ row # NoLease /\ Readable(row)
          /\ row.owner # o => ~Unexpired(row, now)
          /\ Taken(o, now).token <= MaxTokens
          /\ Commits(o, Taken(o, now))
  /\ UNCHANGED <<clock, alive>>

\* Mutant: the row is found by its name only.
IsThere(o) == row # NoLease

\* The WHERE clause of renew and release.
IsMine(o) == row # NoLease /\ row.owner = o /\ row.token = guard[o].token

Renew(o) ==
  /\ guard[o] # NoLease
  /\ \E now \in Readings :
       IF IsMine(o) /\ Unexpired(row, now)
       THEN Commits(o, [row EXCEPT !.renewed = now, !.expires = now + Ttl])
       ELSE Loses(o) /\ UNCHANGED <<row, grants>>
  /\ UNCHANGED <<clock, alive>>

\* Mutant: status accepts the row of another instance.
ValidForAnyone(o, now) ==
  guard[o] # NoLease /\ row # NoLease /\ Readable(row) /\ Unexpired(row, now)

\* status: the row is read again.
Valid(o, now) ==
  /\ guard[o] # NoLease /\ row # NoLease
  /\ Readable(row) /\ IsMine(o) /\ Unexpired(row, now)

\* What a status check makes of the guard.
Checked(o, now) == Learns(o, IF Valid(o, now) THEN row ELSE NoLease)

Status(o) ==
  /\ \E now \in Readings : Checked(o, now)
  /\ UNCHANGED <<clock, row, alive, grants>>

Release(o) ==
  /\ guard[o] # NoLease
  /\ row' = IF IsMine(o) THEN [row EXCEPT !.expires = 0] ELSE row
  /\ Loses(o)
  /\ UNCHANGED <<clock, alive, grants>>

\* The store raises, or the instance's clock does.
StoreFails(o) ==
  /\ guard[o] # NoLease
  /\ Loses(o)
  /\ UNCHANGED <<clock, row, alive, grants>>

Dies(o) ==
  /\ o \in alive
  /\ alive' = alive \ {o}
  /\ Loses(o)
  /\ UNCHANGED <<clock, row, grants>>

Tick ==
  /\ clock < MaxTime
  /\ clock' = clock + 1
  /\ UNCHANGED <<row, guard, alive, grants>>

LeaseNext ==
  \/ \E o \in Owners : Acquire(o) \/ Renew(o) \/ Status(o) \/ Release(o) \/ StoreFails(o) \/ Dies(o)
  \/ Tick

LeaseSpec == LeaseInit /\ [][LeaseNext]_leaseVars

-----------------------------------------------------------------------------
(* Properties. *)

LeaseTypeOK ==
  /\ clock \in Nat
  /\ row \in Leases \union {NoLease}
  /\ guard \in [Owners -> Leases \union {NoLease}]
  /\ alive \subseteq Owners
  /\ grants \subseteq [owner : Owners, token : 1..MaxTokens]

\* A fencing token names one instance for ever, whatever the clocks do, whoever dies and
\* whichever answers of the database are lost.
OneOwnerPerToken ==
  \A g, h \in grants : g.token = h.token => g.owner = h.owner

\* At most one instance has a lease that the fastest clock does not see expired: slower
\* clocks and backward steps make the others wait longer, never less.
OneValidWriter ==
  \A o, p \in Owners :
    /\ guard[o] # NoLease /\ Unexpired(guard[o], clock)
    /\ guard[p] # NoLease /\ Unexpired(guard[p], clock)
    => o = p

=============================================================================
