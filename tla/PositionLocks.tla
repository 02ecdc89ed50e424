---------------------------- MODULE PositionLocks ----------------------------
(***************************************************************************)
(* concurrency/position_lock.py: re-entrant locks of position keys, taken  *)
(* under the order rule of lock_order.py, with a detector of wait cycles   *)
(* and reservations of reductions.                                         *)
(*                                                                         *)
(* The code keeps three views of one lock: the RLock itself (holder), the  *)
(* owner and the waiters noted under _state_lock for the detector (owner,  *)
(* waiting), and each thread's own stack of keys.  They change in separate *)
(* steps, and other threads run between them.  Keys are their sort keys.   *)
(* Of the reservations of a key only the sum is kept.                      *)
(***************************************************************************)
EXTENDS Naturals, Sequences, FiniteSets

CONSTANTS
  Threads,
  Keys,      \* sort keys of position locks
  Nobody, NoKey,
  Qty,       \* confirmed quantity of each position
  MaxDepth   \* bound on the locks a thread holds, re-entries included

ASSUME LocksAssumption ==
  /\ IsFiniteSet(Threads) /\ Nobody \notin Threads
  /\ Keys \subseteq Nat /\ NoKey \notin Keys
  /\ Qty \in Nat /\ MaxDepth \in Nat

VARIABLES
  holder,   \* who has the RLock of a key
  owner,    \* owner_thread_id of its entry
  waiting,  \* _waiting: the key a thread has announced it waits for
  stack,    \* the keys a thread has, as LockOrderTracker sees them
  pc, want, \* where a thread is in lock(), and for which key
  pending,  \* the sum of the live reservations of a key
  seen      \* pending as a thread read it in reserve_reduce

vars == <<holder, owner, waiting, stack, pc, want, pending, seen>>

Steps == {"run", "try", "blocked", "wait", "woken", "late", "got", "left", "reserve"}

Init ==
  /\ holder = [k \in Keys |-> Nobody]
  /\ owner = [k \in Keys |-> Nobody]
  /\ waiting = [t \in Threads |-> NoKey]
  /\ stack = [t \in Threads |-> <<>>]
  /\ pc = [t \in Threads |-> "run"]
  /\ want = [t \in Threads |-> NoKey]
  /\ pending = [k \in Keys |-> 0]
  /\ seen = [t \in Threads |-> 0]

Has(t, k) == \E i \in DOMAIN stack[t] : stack[t][i] = k

Top(t) == stack[t][Len(stack[t])]

Goto(t, step) == pc' = [pc EXCEPT ![t] = step]

\* lock() is over, one way or another.
Resume(t) ==
  /\ Goto(t, "run")
  /\ want' = [want EXCEPT ![t] = NoKey]

-----------------------------------------------------------------------------
(* Taking a lock. *)

\* before_acquire: a key is taken after smaller ones, or again.
InOrder(t, k) == stack[t] # <<>> /\ ~Has(t, k) => k >= Top(t)

BeginLock(t, k) ==
  /\ pc[t] = "run" /\ Len(stack[t]) < MaxDepth
  /\ InOrder(t, k)
  /\ Goto(t, "try")
  /\ want' = [want EXCEPT ![t] = k]
  /\ UNCHANGED <<holder, owner, waiting, stack, pending, seen>>

\* acquire(blocking=False).
TryLock(t) ==
  /\ pc[t] = "try"
  /\ IF holder[want[t]] \in {Nobody, t}
       THEN Goto(t, "got") /\ holder' = [holder EXCEPT ![want[t]] = t]
       ELSE Goto(t, "blocked") /\ UNCHANGED holder
  /\ UNCHANGED <<owner, waiting, stack, want, pending, seen>>

\* The thread that u waits for, as far as the detector knows.
Behind(u) == IF u = Nobody \/ waiting[u] = NoKey THEN Nobody ELSE owner[waiting[u]]

\* From the owner of a key through those it waits for, n steps on.
Chain(k) ==
  LET chain[n \in 0..Cardinality(Threads)] ==
        IF n = 0 THEN owner[k] ELSE Behind(chain[n - 1])
  IN  chain

\* Mutant of WouldDeadlock: the chain of waits is not followed.
WouldDeadlockDirect(t, k) == owner[k] = t

WouldDeadlock(t, k) == \E n \in 0..Cardinality(Threads) : Chain(k)[n] = t

\* The thread announces its wait, and looks for a cycle under the same lock.
Announce(t) ==
  /\ pc[t] = "blocked" /\ ~WouldDeadlock(t, want[t])
  /\ waiting' = [waiting EXCEPT ![t] = want[t]]
  /\ Goto(t, "wait")
  /\ UNCHANGED <<holder, owner, stack, want, pending, seen>>

\* DeadlockDetected; the caller lets go of what it holds or goes on without the key.
Alarm(t) ==
  /\ pc[t] = "blocked" /\ WouldDeadlock(t, want[t])
  /\ Resume(t)
  /\ UNCHANGED <<holder, owner, waiting, stack, pending, seen>>

\* acquire(timeout) returns.
WakeUp(t) ==
  /\ pc[t] = "wait" /\ holder[want[t]] = Nobody
  /\ holder' = [holder EXCEPT ![want[t]] = t]
  /\ Goto(t, "woken")
  /\ UNCHANGED <<owner, waiting, stack, want, pending, seen>>

TimeOut(t) ==
  /\ pc[t] = "wait"
  /\ Goto(t, "late")
  /\ UNCHANGED <<holder, owner, waiting, stack, want, pending, seen>>

\* Mutant of StopWaiting: a thread that timed out leaves its announcement.
StopWaitingSilently(t) ==
  /\ pc[t] \in {"woken", "late"}
  /\ waiting' = IF pc[t] = "woken" THEN [waiting EXCEPT ![t] = NoKey] ELSE waiting
  /\ IF pc[t] = "woken" THEN Goto(t, "got") /\ UNCHANGED want ELSE Resume(t)
  /\ UNCHANGED <<holder, owner, stack, pending, seen>>

\* The announcement is taken back; late threads raise PositionLockTimeout.
StopWaiting(t) ==
  /\ pc[t] \in {"woken", "late"}
  /\ waiting' = [waiting EXCEPT ![t] = NoKey]
  /\ IF pc[t] = "woken" THEN Goto(t, "got") /\ UNCHANGED want ELSE Resume(t)
  /\ UNCHANGED <<holder, owner, stack, pending, seen>>

\* The owner is noted, and the body of the with statement runs.
Enter(t) ==
  /\ pc[t] = "got"
  /\ owner' = [owner EXCEPT ![want[t]] = t]
  /\ stack' = [stack EXCEPT ![t] = Append(@, want[t])]
  /\ Resume(t)
  /\ UNCHANGED <<holder, waiting, pending, seen>>

-----------------------------------------------------------------------------
(* Giving it back: the note first, the RLock after it. *)

Below(t) == SubSeq(stack[t], 1, Len(stack[t]) - 1)

StillHas(t, k) == \E i \in DOMAIN Below(t) : Below(t)[i] = k

\* Mutant of Leave: the owner stays noted.
LeaveNoted(t) ==
  /\ pc[t] = "run" /\ stack[t] # <<>>
  /\ stack' = [stack EXCEPT ![t] = Below(t)]
  /\ want' = [want EXCEPT ![t] = Top(t)]
  /\ Goto(t, "left")
  /\ UNCHANGED <<holder, owner, waiting, pending, seen>>

Leave(t) ==
  /\ pc[t] = "run" /\ stack[t] # <<>>
  /\ stack' = [stack EXCEPT ![t] = Below(t)]
  /\ want' = [want EXCEPT ![t] = Top(t)]
  /\ owner' = IF StillHas(t, Top(t)) THEN owner ELSE [owner EXCEPT ![Top(t)] = Nobody]
  /\ Goto(t, "left")
  /\ UNCHANGED <<holder, waiting, pending, seen>>

\* Mutant of Unlock: the first exit frees a lock taken again.
UnlockAlways(t) ==
  /\ pc[t] = "left"
  /\ holder' = [holder EXCEPT ![want[t]] = Nobody]
  /\ Resume(t)
  /\ UNCHANGED <<owner, waiting, stack, pending, seen>>

Unlock(t) ==
  /\ pc[t] = "left"
  /\ holder' = IF Has(t, want[t]) THEN holder ELSE [holder EXCEPT ![want[t]] = Nobody]
  /\ Resume(t)
  /\ UNCHANGED <<owner, waiting, stack, pending, seen>>

-----------------------------------------------------------------------------
(* Reservations: pending is read and added to under _state_lock each time; *)
(* what keeps others out in between is the position lock.                  *)

ReadPending(t) ==
  /\ pc[t] = "run" /\ stack[t] # <<>>
  /\ seen' = [seen EXCEPT ![t] = pending[Top(t)]]
  /\ Goto(t, "reserve")
  /\ UNCHANGED <<holder, owner, waiting, stack, want, pending>>

\* calculate_safe_reduce: a request is clipped to what is left of the position.
SafeReduce(requested, taken) ==
  LET left == IF Qty > taken THEN Qty - taken ELSE 0
  IN  IF requested < left THEN requested ELSE left

Reserve(t) ==
  /\ pc[t] = "reserve"
  /\ \E requested \in 0..Qty :
       pending' = [pending EXCEPT ![Top(t)] = @ + SafeReduce(requested, seen[t])]
  /\ seen' = [seen EXCEPT ![t] = 0]
  /\ Goto(t, "run")
  /\ UNCHANGED <<holder, owner, waiting, stack, want>>

\* Mutant of ReservationsEnd: what has expired is given back once more.
ReservationsEndTwice(k) ==
  /\ \E ended \in 1..Qty : pending' = [pending EXCEPT ![k] = @ - ended]
  /\ UNCHANGED <<holder, owner, waiting, stack, pc, want, seen>>

\* Released, confirmed, expired or dropped by release_all_reservations, without the lock.
ReservationsEnd(k) ==
  /\ \E ended \in 1..pending[k] : pending' = [pending EXCEPT ![k] = @ - ended]
  /\ UNCHANGED <<holder, owner, waiting, stack, pc, want, seen>>

Next ==
  \/ \E t \in Threads :
       \/ \E k \in Keys : BeginLock(t, k)
       \/ TryLock(t) \/ Announce(t) \/ Alarm(t) \/ WakeUp(t) \/ TimeOut(t)
       \/ StopWaiting(t) \/ Enter(t) \/ Leave(t) \/ Unlock(t)
       \/ ReadPending(t) \/ Reserve(t)
  \/ \E k \in Keys : ReservationsEnd(k)

Spec == Init /\ [][Next]_vars

-----------------------------------------------------------------------------
(* Properties. *)

TypeOK ==
  /\ holder \in [Keys -> Threads \union {Nobody}]
  /\ owner \in [Keys -> Threads \union {Nobody}]
  /\ waiting \in [Threads -> Keys \union {NoKey}]
  /\ stack \in [Threads -> Seq(Keys)]
  /\ pc \in [Threads -> Steps]
  /\ want \in [Threads -> Keys \union {NoKey}]
  /\ pending \in [Keys -> Nat]
  /\ seen \in [Threads -> Nat]

\* Whatever threads hold, re-enter and wait for, no set of them waits for one another:
\* the last to join such a circle is told by the detector (lock, _would_deadlock).
NoStandoff ==
  \A circle \in (SUBSET Threads) \ {{}} :
    \E t \in circle : pc[t] # "wait" \/ holder[want[t]] \notin circle

\* What the detector reads is never out of date: a noted owner has the lock, although the
\* note and the lock change in separate steps (finally clause of lock).
OwnerIsHolder == \A k \in Keys : owner[k] # Nobody => holder[k] = owner[k]

\* The alarm is raised only in a circle of threads that wait, one of which may be on its
\* way out after a timeout.
AlarmsAreReal ==
  [][\A t \in Threads :
       pc[t] = "blocked" /\ pc'[t] = "run" =>
         \E circle \in SUBSET Threads :
           /\ t \in circle
           /\ \A u \in circle :
                /\ u # t => pc[u] \in {"wait", "late"}
                /\ holder[want[u]] \in circle]_vars

\* The reductions reserved on a position never add up to more than it holds, although they
\* are read and written apart (reserve_reduce).
ReservedWithin == \A k \in Keys : pending[k] <= Qty

=============================================================================
