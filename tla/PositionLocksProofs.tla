------------------------- MODULE PositionLocksProofs -------------------------
(* Theorems about position locks, for any threads, keys and depth of locking. *)
EXTENDS PositionLocks, FiniteSetTheorems, TLAPS

\* The three views of a lock agree: a thread's stack and its place in lock() say that it
\* has the RLock, and a noted owner has the key on its stack.
ViewsAgree ==
  /\ \A t \in Threads, k \in Keys : Has(t, k) => holder[k] = t
  /\ \A t \in Threads :
       /\ pc[t] \in {"try", "blocked", "wait", "late", "woken", "got", "left"} => want[t] \in Keys
       /\ pc[t] \in {"woken", "got", "left"} => holder[want[t]] = t
  /\ \A k \in Keys : owner[k] # Nobody => Has(owner[k], k)

\* While a thread reserves, nobody else adds to what it has read.
ReadingsCover ==
  \A t \in Threads :
    pc[t] = "reserve" => stack[t] # <<>> /\ pending[Top(t)] <= seen[t]

Inv == TypeOK /\ ViewsAgree /\ ReadingsCover /\ ReservedWithin

\* The parts of the state the views speak of.
LEMMA ViewsStay ==
  ASSUME ViewsAgree, UNCHANGED <<holder, owner, stack>>, TypeOK,
         NEW t \in Threads, \A u \in Threads \ {t} : pc'[u] = pc[u] /\ want'[u] = want[u],
         pc'[t] \in {"try", "blocked", "wait", "late", "woken", "got", "left"} => want'[t] \in Keys,
         pc'[t] \in {"woken", "got", "left"} => holder[want'[t]] = t
  PROVE  ViewsAgree'
<1>1. \A u \in Threads, k \in Keys : Has(u, k)' <=> Has(u, k) BY DEF Has
<1>2. \A k \in Keys : Has(owner[k], k)' <=> Has(owner[k], k) BY DEF Has
<1> QED BY <1>1, <1>2 DEF ViewsAgree

\* The same for what the reservations rest on.
LEMMA ReadingsStay ==
  ASSUME ReadingsCover, UNCHANGED <<stack, pending, seen>>,
         \A u \in Threads : pc'[u] = "reserve" => pc[u] = "reserve"
  PROVE  ReadingsCover'
BY DEF ReadingsCover, Top

LEMMA TopIsHad ==
  ASSUME TypeOK, NEW t \in Threads, stack[t] # <<>>
  PROVE  Top(t) \in Keys /\ Has(t, Top(t))
<1>1. stack[t] \in Seq(Keys) BY DEF TypeOK
<1>2. Len(stack[t]) \in DOMAIN stack[t] BY <1>1
<1> QED BY <1>1, <1>2 DEF Top, Has

\* Who has a key after it is pushed on the stack of t, and after the top is popped.
LEMMA PushedHas ==
  ASSUME TypeOK, NEW t \in Threads, NEW k \in Keys,
         stack' = [stack EXCEPT ![t] = Append(@, k)]
  PROVE  \A u \in Threads, l \in Keys : Has(u, l)' <=> Has(u, l) \/ (u = t /\ l = k)
<1> SUFFICES ASSUME NEW u \in Threads, NEW l \in Keys
             PROVE  Has(u, l)' <=> Has(u, l) \/ (u = t /\ l = k)
  OBVIOUS
<1>1. CASE u # t
  <2>1. stack'[u] = stack[u] BY <1>1 DEF TypeOK
  <2> QED BY <1>1, <2>1 DEF Has
<1>2. CASE u = t
  <2> DEFINE s == stack[t] n == Len(stack[t])
  <2>1. s \in Seq(Keys) /\ stack'[t] = Append(s, k) BY DEF TypeOK
  <2>2. DOMAIN s = 1..n /\ DOMAIN Append(s, k) = 1..(n + 1) /\ n \in Nat BY <2>1
  <2>3. Append(s, k)[n + 1] = k /\ \A i \in 1..n : Append(s, k)[i] = s[i] BY <2>1
  <2>4. (\E i \in 1..(n + 1) : Append(s, k)[i] = l) <=> (\E i \in 1..n : s[i] = l) \/ l = k
    BY <2>2, <2>3
  <2> QED BY <1>2, <2>1, <2>2, <2>4 DEF Has
<1> QED BY <1>1, <1>2

LEMMA PoppedHas ==
  ASSUME TypeOK, NEW t \in Threads, stack[t] # <<>>,
         stack' = [stack EXCEPT ![t] = Below(t)]
  PROVE  /\ \A l \in Keys : Has(t, l)' /\ l = Top(t) => StillHas(t, l)
         /\ \A u \in Threads, l \in Keys :
              /\ Has(u, l)' => Has(u, l)
              /\ u # t \/ l # Top(t) \/ StillHas(t, Top(t)) => (Has(u, l) => Has(u, l)')
<1> DEFINE k == Top(t) n == Len(stack[t])
<1>1. stack[t] \in Seq(Keys) /\ stack'[t] = Below(t) BY DEF TypeOK
<1>2. n \in Nat \ {0} /\ DOMAIN stack[t] = 1..n BY <1>1
<1>3. /\ DOMAIN Below(t) = 1..(n - 1) /\ k = stack[t][n]
      /\ \A i \in 1..(n - 1) : Below(t)[i] = stack[t][i]
  BY <1>1, <1>2 DEF Below, Top
<1>4. \A u \in Threads, l \in Keys : u # t => (Has(u, l)' <=> Has(u, l)) BY DEF Has, TypeOK
<1>5. \A l : (\E i \in DOMAIN stack'[t] : stack'[t][i] = l)
              <=> \E i \in 1..(n - 1) : stack[t][i] = l
  BY <1>1, <1>3
<1>6. StillHas(t, k) <=> \E i \in 1..(n - 1) : stack[t][i] = k BY <1>3 DEF StillHas
<1>7. \A l : Has(t, l) <=> \E i \in 1..n : stack[t][i] = l BY <1>2 DEF Has
<1> HIDE DEF k
<1>8. \A i \in 1..n : i \in 1..(n - 1) \/ stack[t][i] = k BY <1>2, <1>3
<1>9. 1..(n - 1) \subseteq 1..n BY <1>2
<1>10. \A l \in Keys :
         /\ Has(t, l)' => Has(t, l)
         /\ Has(t, l) => Has(t, l)' \/ l = k
         /\ l = k /\ StillHas(t, k) => Has(t, l)'
  BY <1>5, <1>6, <1>7, <1>8, <1>9 DEF Has
<1>11. \A l \in Keys : Has(t, l)' /\ l = k => StillHas(t, l)
  BY <1>5, <1>6 DEF Has
<1>12. \A u \in Threads, l \in Keys :
         /\ Has(u, l)' => Has(u, l)
         /\ u # t \/ l # k \/ StillHas(t, k) => (Has(u, l) => Has(u, l)')
  BY <1>4, <1>10
<1> QED BY <1>11, <1>12 DEF k

\* Nobody else has a key that a thread has taken.
LEMMA Exclusive ==
  ASSUME ViewsAgree, NEW t \in Threads, NEW u \in Threads, NEW k \in Keys, Has(t, k), Has(u, k)
  PROVE  t = u
BY DEF ViewsAgree

-----------------------------------------------------------------------------
(* Steps in lock() that leave owner, stack and pending alone. *)

LEMMA BeginLockKeepsInv ==
  ASSUME Inv, NEW t \in Threads, NEW k \in Keys, BeginLock(t, k) PROVE Inv'
<1>1. /\ pc' = [pc EXCEPT ![t] = "try"] /\ want' = [want EXCEPT ![t] = k]
      /\ UNCHANGED <<holder, owner, waiting, stack, pending, seen>>
  BY DEF BeginLock, Goto
<1>2. TypeOK' BY <1>1 DEF Inv, TypeOK, Steps
<1>3. /\ \A u \in Threads \ {t} : pc'[u] = pc[u] /\ want'[u] = want[u]
      /\ pc'[t] = "try" /\ want'[t] = k
  BY <1>1 DEF Inv, TypeOK
<1>4. ViewsAgree' BY <1>1, <1>3, ViewsStay DEF Inv
<1>5. ReadingsCover' BY <1>1, <1>3, ReadingsStay DEF Inv
<1> QED BY <1>1, <1>2, <1>4, <1>5 DEF Inv, ReservedWithin

\* A free lock, or one already had, is taken.
LEMMA HolderTaken ==
  ASSUME TypeOK, ViewsAgree, NEW t \in Threads, want[t] \in Keys, want' = want,
         holder[want[t]] \in {Nobody, t},
         holder' = [holder EXCEPT ![want[t]] = t],
         pc' \in [Threads -> Steps],
         \A u \in Threads \ {t} : pc'[u] = pc[u],
         UNCHANGED <<owner, stack>>
  PROVE  ViewsAgree'
<1>1. \A u \in Threads, k \in Keys : Has(u, k)' <=> Has(u, k) BY DEF Has
<1>2. \A k \in Keys : Has(owner[k], k)' <=> Has(owner[k], k) BY DEF Has
<1>3. \A k \in Keys : holder'[k] = IF k = want[t] THEN t ELSE holder[k] BY DEF TypeOK
<1>4. \A u \in Threads : u # Nobody BY LocksAssumption
<1>5. \A u \in Threads, k \in Keys : Has(u, k)' => holder'[k] = u
  BY <1>1, <1>3, <1>4 DEF ViewsAgree
<1>6. \A u \in Threads \ {t} : pc'[u] \in {"woken", "got", "left"} => holder'[want'[u]] = u
  BY <1>3, <1>4 DEF ViewsAgree
<1> QED BY <1>2, <1>3, <1>5, <1>6 DEF ViewsAgree

LEMMA TryLockKeepsInv ==
  ASSUME Inv, NEW t \in Threads, TryLock(t) PROVE Inv'
<1>1. UNCHANGED <<owner, waiting, stack, want, pending, seen>> /\ pc[t] = "try" BY DEF TryLock
<1>2. want[t] \in Keys BY <1>1 DEF Inv, ViewsAgree
<1>3. CASE /\ holder[want[t]] \in {Nobody, t} /\ pc' = [pc EXCEPT ![t] = "got"]
           /\ holder' = [holder EXCEPT ![want[t]] = t]
  <2>1. TypeOK' BY <1>1, <1>2, <1>3 DEF Inv, TypeOK, Steps
  <2>2. \A u \in Threads : u # t => pc'[u] = pc[u] BY <1>3 DEF Inv, TypeOK
  <2>3. pc'[t] = "got" BY <1>3 DEF Inv, TypeOK
  <2>4. ViewsAgree' BY <1>1, <1>2, <1>3, <2>1, <2>2, HolderTaken DEF Inv, TypeOK
  <2>5. ReadingsCover' BY <1>1, <2>2, <2>3, ReadingsStay DEF Inv
  <2> QED BY <1>1, <2>1, <2>4, <2>5 DEF Inv, ReservedWithin
<1>4. CASE pc' = [pc EXCEPT ![t] = "blocked"] /\ UNCHANGED holder
  <2>1. TypeOK' BY <1>1, <1>4 DEF Inv, TypeOK, Steps
  <2>2. (\A u \in Threads \ {t} : pc'[u] = pc[u]) /\ pc'[t] = "blocked"
    BY <1>4 DEF Inv, TypeOK
  <2>3. ViewsAgree' BY <1>1, <1>2, <1>4, <2>2, ViewsStay DEF Inv
  <2>4. ReadingsCover' BY <1>1, <2>2, ReadingsStay DEF Inv
  <2> QED BY <1>1, <2>1, <2>3, <2>4 DEF Inv, ReservedWithin
<1> QED BY <1>3, <1>4 DEF TryLock, Goto

LEMMA WakeUpKeepsInv ==
  ASSUME Inv, NEW t \in Threads, WakeUp(t) PROVE Inv'
<1>1. /\ UNCHANGED <<owner, waiting, stack, want, pending, seen>> /\ pc[t] = "wait"
      /\ holder[want[t]] = Nobody /\ holder' = [holder EXCEPT ![want[t]] = t]
      /\ pc' = [pc EXCEPT ![t] = "woken"]
  BY DEF WakeUp, Goto
<1>2. want[t] \in Keys BY <1>1 DEF Inv, ViewsAgree
<1>3. TypeOK' BY <1>1, <1>2 DEF Inv, TypeOK, Steps
<1>4. (\A u \in Threads : u # t => pc'[u] = pc[u]) /\ pc'[t] = "woken"
  BY <1>1 DEF Inv, TypeOK
<1>5. ViewsAgree' BY <1>1, <1>2, <1>3, <1>4, HolderTaken DEF Inv, TypeOK
<1>6. ReadingsCover' BY <1>1, <1>4, ReadingsStay DEF Inv
<1> QED BY <1>1, <1>3, <1>5, <1>6 DEF Inv, ReservedWithin

\* Announcing, the alarm, the timeout and taking the announcement back.
LEMMA WaitingKeepsInv ==
  ASSUME Inv, NEW t \in Threads, Announce(t) \/ Alarm(t) \/ TimeOut(t) \/ StopWaiting(t)
  PROVE  Inv'
<1>1. UNCHANGED <<holder, owner, stack, pending, seen>>
  BY DEF Announce, Alarm, TimeOut, StopWaiting
<1>2. want[t] \in Keys BY DEF Announce, Alarm, TimeOut, StopWaiting, Inv, ViewsAgree
<1>3. TypeOK'
  BY <1>1, <1>2 DEF Inv, TypeOK, Steps, Announce, Alarm, TimeOut, StopWaiting, Resume, Goto
<1>4. /\ \A u \in Threads \ {t} : pc'[u] = pc[u] /\ want'[u] = want[u]
      /\ pc'[t] \in {"run", "wait", "late", "got"}
      /\ pc'[t] # "run" => want'[t] = want[t]
      /\ pc'[t] = "got" => pc[t] = "woken"
  BY DEF Inv, TypeOK, Announce, Alarm, TimeOut, StopWaiting, Resume, Goto
<1>5. pc'[t] = "got" => holder[want[t]] = t BY <1>4 DEF Inv, ViewsAgree
<1>6. ViewsAgree' BY <1>1, <1>2, <1>4, <1>5, ViewsStay DEF Inv
<1>7. ReadingsCover' BY <1>1, <1>4, ReadingsStay DEF Inv
<1> QED BY <1>1, <1>3, <1>6, <1>7 DEF Inv, ReservedWithin

-----------------------------------------------------------------------------
(* Entering and leaving the body. *)

LEMMA EnterKeepsInv ==
  ASSUME Inv, NEW t \in Threads, Enter(t) PROVE Inv'
<1> DEFINE k == want[t]
<1>1. /\ pc[t] = "got" /\ UNCHANGED <<holder, waiting, pending, seen>>
      /\ owner' = [owner EXCEPT ![k] = t] /\ stack' = [stack EXCEPT ![t] = Append(@, k)]
      /\ pc' = [pc EXCEPT ![t] = "run"] /\ want' = [want EXCEPT ![t] = NoKey]
  BY DEF Enter, Resume, Goto
<1>2. k \in Keys /\ holder[k] = t BY <1>1 DEF Inv, ViewsAgree
<1>3. stack[t] \in Seq(Keys) BY DEF Inv, TypeOK
<1>4. Append(stack[t], k) \in Seq(Keys) BY <1>2, <1>3
<1>5. TypeOK' BY <1>1, <1>2, <1>4 DEF Inv, TypeOK, Steps
<1>6. \A u \in Threads : u # t => stack'[u] = stack[u] /\ pc'[u] = pc[u] /\ want'[u] = want[u]
  BY <1>1 DEF Inv, TypeOK
<1>7. pc'[t] = "run" /\ stack'[t] = Append(stack[t], k) BY <1>1 DEF Inv, TypeOK
<1>8. \A u \in Threads, l \in Keys : Has(u, l)' <=> Has(u, l) \/ (u = t /\ l = k)
  BY <1>1, <1>2, PushedHas DEF Inv
<1>9. \A l \in Keys : owner'[l] = IF l = k THEN t ELSE owner[l] BY <1>1 DEF Inv, TypeOK
<1>10. \A l \in Keys : owner[l] # Nobody => owner[l] \in Threads BY DEF Inv, TypeOK
<1>11. \A l \in Keys : owner'[l] # Nobody => Has(owner[l], l)'
  <2> SUFFICES ASSUME NEW l \in Keys, owner'[l] # Nobody PROVE Has(owner[l], l)'
    OBVIOUS
  <2>1. owner'[l] \in Threads BY <1>9, <1>10
  <2>2. (owner'[l] = t /\ l = k) \/ (Has(owner[l], l) /\ owner'[l] = owner[l])
    BY <1>9 DEF Inv, ViewsAgree
  <2>3. \E i \in DOMAIN stack'[owner'[l]] : stack'[owner'[l]][i] = l
    BY <1>8, <1>9, <1>10, <2>1, <2>2 DEF Has
  <2> QED BY <2>3 DEF Has
<1>12. ViewsAgree'
  <2>1. \A u \in Threads, l \in Keys : Has(u, l)' => holder'[l] = u
    BY <1>1, <1>2, <1>8 DEF Inv, ViewsAgree
  <2>2. \A u \in Threads :
          /\ pc'[u] \in {"try", "blocked", "wait", "late", "woken", "got", "left"} => want'[u] \in Keys
          /\ pc'[u] \in {"woken", "got", "left"} => holder'[want'[u]] = u
    BY <1>1, <1>6, <1>7 DEF Inv, ViewsAgree
  <2> QED BY <1>11, <2>1, <2>2 DEF ViewsAgree
<1>13. ReadingsCover'
  BY <1>1, <1>6, <1>7 DEF Inv, ReadingsCover, Top
<1> QED BY <1>1, <1>5, <1>12, <1>13 DEF Inv, ReservedWithin

LEMMA LeaveKeepsInv ==
  ASSUME Inv, NEW t \in Threads, Leave(t) PROVE Inv'
<1> DEFINE k == Top(t)
<1>1. /\ pc[t] = "run" /\ stack[t] # <<>> /\ UNCHANGED <<holder, waiting, pending, seen>>
      /\ stack' = [stack EXCEPT ![t] = Below(t)]
      /\ owner' = IF StillHas(t, k) THEN owner ELSE [owner EXCEPT ![k] = Nobody]
      /\ pc' = [pc EXCEPT ![t] = "left"] /\ want' = [want EXCEPT ![t] = k]
  BY DEF Leave, Goto
<1>2. k \in Keys /\ Has(t, k) /\ holder[k] = t BY <1>1, TopIsHad DEF Inv, ViewsAgree
<1>3. stack[t] \in Seq(Keys) BY DEF Inv, TypeOK
<1>4. Below(t) \in Seq(Keys) BY <1>1, <1>3 DEF Below
<1>5. TypeOK' BY <1>1, <1>2, <1>4 DEF Inv, TypeOK, Steps
<1>6. \A u \in Threads : u # t => stack'[u] = stack[u] /\ pc'[u] = pc[u] /\ want'[u] = want[u]
  BY <1>1 DEF Inv, TypeOK
<1>7. pc'[t] = "left" /\ want'[t] = k /\ stack'[t] = Below(t) BY <1>1 DEF Inv, TypeOK
<1>8. \A u \in Threads, l \in Keys :
        /\ Has(u, l)' => Has(u, l)
        /\ u # t \/ l # k \/ StillHas(t, k) => (Has(u, l) => Has(u, l)')
  BY <1>1, PoppedHas DEF Inv
<1>9. \A l \in Keys : owner[l] # Nobody => owner[l] \in Threads BY DEF Inv, TypeOK
<1>10. \A l \in Keys : owner'[l] # Nobody => owner'[l] = owner[l] /\ (l # k \/ StillHas(t, k))
  BY <1>1 DEF Inv, TypeOK
<1>11. \A l \in Keys : owner'[l] # Nobody => Has(owner[l], l)'
  <2> SUFFICES ASSUME NEW l \in Keys, owner'[l] # Nobody PROVE Has(owner[l], l)'
    OBVIOUS
  <2>1. owner'[l] = owner[l] /\ owner[l] \in Threads /\ (l # k \/ StillHas(t, k))
    BY <1>9, <1>10
  <2>2. Has(owner[l], l) BY <2>1 DEF Inv, ViewsAgree
  <2>3. \E i \in DOMAIN stack'[owner[l]] : stack'[owner[l]][i] = l
    BY <1>8, <2>1, <2>2 DEF Has
  <2> QED BY <2>1, <2>3 DEF Has
<1>12. ViewsAgree'
  <2>1. \A u \in Threads, l \in Keys : Has(u, l)' => holder'[l] = u
    BY <1>1, <1>8 DEF Inv, ViewsAgree
  <2>2. \A u \in Threads :
          /\ pc'[u] \in {"try", "blocked", "wait", "late", "woken", "got", "left"} => want'[u] \in Keys
          /\ pc'[u] \in {"woken", "got", "left"} => holder'[want'[u]] = u
    BY <1>1, <1>2, <1>6, <1>7 DEF Inv, ViewsAgree
  <2> QED BY <1>11, <2>1, <2>2 DEF ViewsAgree
<1>13. ReadingsCover' BY <1>1, <1>6, <1>7 DEF Inv, ReadingsCover, Top
<1> QED BY <1>1, <1>5, <1>12, <1>13 DEF Inv, ReservedWithin

LEMMA UnlockKeepsInv ==
  ASSUME Inv, NEW t \in Threads, Unlock(t) PROVE Inv'
<1> DEFINE k == want[t]
<1>1. /\ pc[t] = "left" /\ UNCHANGED <<owner, waiting, stack, pending, seen>>
      /\ holder' = IF Has(t, k) THEN holder ELSE [holder EXCEPT ![k] = Nobody]
      /\ pc' = [pc EXCEPT ![t] = "run"] /\ want' = [want EXCEPT ![t] = NoKey]
  BY DEF Unlock, Resume, Goto
<1>2. k \in Keys /\ holder[k] = t BY <1>1 DEF Inv, ViewsAgree
<1>3. TypeOK' BY <1>1, <1>2 DEF Inv, TypeOK, Steps
<1>4. /\ \A u \in Threads \ {t} : pc'[u] = pc[u] /\ want'[u] = want[u]
      /\ pc'[t] = "run"
  BY <1>1 DEF Inv, TypeOK
<1>5. ReadingsCover' BY <1>1, <1>4, ReadingsStay DEF Inv
<1>6. CASE Has(t, k)
  <2>1. ViewsAgree' BY <1>1, <1>4, <1>6, ViewsStay DEF Inv
  <2> QED BY <1>1, <1>3, <1>5, <2>1 DEF Inv, ReservedWithin
<1>7. CASE ~Has(t, k)
  <2>1. \A l \in Keys : l # k => holder'[l] = holder[l] BY <1>1, <1>7 DEF Inv, TypeOK
  <2>2. \A u \in Threads, l \in Keys : Has(u, l)' <=> Has(u, l) BY <1>1 DEF Has
  <2>3. \A u \in Threads : ~Has(u, k) BY <1>2, <1>7 DEF Inv, ViewsAgree
  <2>4. \A u \in Threads, l \in Keys : Has(u, l)' => holder'[l] = u
    BY <2>1, <2>2, <2>3 DEF Inv, ViewsAgree
  <2>5. \A u \in Threads : pc'[u] \in {"woken", "got", "left"} => holder'[want'[u]] = u
    BY <1>2, <1>4, <2>1 DEF Inv, ViewsAgree
  <2>6. \A u \in Threads :
          pc'[u] \in {"try", "blocked", "wait", "late", "woken", "got", "left"} => want'[u] \in Keys
    BY <1>4 DEF Inv, ViewsAgree
  <2>7. \A l \in Keys : Has(owner[l], l)' <=> Has(owner[l], l) BY <1>1 DEF Has
  <2>8. ViewsAgree' BY <1>1, <2>4, <2>5, <2>6, <2>7 DEF Inv, ViewsAgree
  <2> QED BY <1>1, <1>3, <1>5, <2>8 DEF Inv, ReservedWithin
<1> QED BY <1>6, <1>7

-----------------------------------------------------------------------------
(* Reservations. *)

LEMMA ReadPendingKeepsInv ==
  ASSUME Inv, NEW t \in Threads, ReadPending(t) PROVE Inv'
<1>1. /\ pc[t] = "run" /\ stack[t] # <<>> /\ seen' = [seen EXCEPT ![t] = pending[Top(t)]]
      /\ pc' = [pc EXCEPT ![t] = "reserve"]
      /\ UNCHANGED <<holder, owner, waiting, stack, want, pending>>
  BY DEF ReadPending, Goto
<1>2. Top(t) \in Keys BY <1>1, TopIsHad DEF Inv
<1>3. pending[Top(t)] \in Nat BY <1>2 DEF Inv, TypeOK
<1>4. TypeOK' BY <1>1, <1>3 DEF Inv, TypeOK, Steps
<1>5. /\ \A u \in Threads \ {t} : pc'[u] = pc[u] /\ seen'[u] = seen[u]
      /\ pc'[t] = "reserve" /\ seen'[t] = pending[Top(t)]
  BY <1>1 DEF Inv, TypeOK
<1>6. ViewsAgree' BY <1>1, <1>5, ViewsStay DEF Inv
<1>7. \A u \in Threads : Top(u)' = Top(u) BY <1>1 DEF Top
<1>8. ReadingsCover' BY <1>1, <1>3, <1>5, <1>7 DEF Inv, ReadingsCover
<1> QED BY <1>1, <1>4, <1>6, <1>8 DEF Inv, ReservedWithin

\* What calculate_safe_reduce grants fits what is left of the position.
LEMMA SafeReduceFits ==
  ASSUME NEW requested \in Nat, NEW taken \in Nat
  PROVE  /\ SafeReduce(requested, taken) \in Nat
         /\ taken <= Qty => taken + SafeReduce(requested, taken) <= Qty
         /\ taken >= Qty => SafeReduce(requested, taken) = 0
BY LocksAssumption DEF SafeReduce

LEMMA ReserveKeepsInv ==
  ASSUME Inv, NEW t \in Threads, Reserve(t) PROVE Inv'
<1> DEFINE k == Top(t)
<1>1. PICK requested \in 0..Qty :
        pending' = [pending EXCEPT ![k] = @ + SafeReduce(requested, seen[t])]
  BY DEF Reserve
<1>2. /\ pc[t] = "reserve" /\ seen' = [seen EXCEPT ![t] = 0] /\ pc' = [pc EXCEPT ![t] = "run"]
      /\ UNCHANGED <<holder, owner, waiting, stack, want>>
  BY DEF Reserve, Goto
<1>3. stack[t] # <<>> /\ pending[k] <= seen[t] BY <1>2 DEF Inv, ReadingsCover
<1>4. k \in Keys /\ Has(t, k) BY <1>3, TopIsHad DEF Inv
<1>5. pending[k] \in Nat /\ seen[t] \in Nat /\ requested \in Nat /\ pending[k] <= Qty
  <2>1. requested \in Nat BY LocksAssumption
  <2> HIDE DEF k
  <2> QED BY <1>4, <2>1 DEF Inv, TypeOK, ReservedWithin
<1> DEFINE granted == SafeReduce(requested, seen[t])
<1>6. granted \in Nat /\ pending[k] + granted <= Qty
  <2>1. granted \in Nat BY <1>5, SafeReduceFits
  <2>2. CASE seen[t] <= Qty
    <3>1. seen[t] + granted <= Qty BY <1>5, <2>2, SafeReduceFits
    <3> HIDE DEF granted
    <3> QED BY <1>3, <1>5, <2>1, <3>1, LocksAssumption
  <2>3. CASE seen[t] >= Qty
    <3>1. granted = 0 BY <1>5, <2>3, SafeReduceFits
    <3> HIDE DEF granted
    <3> QED BY <1>5, <3>1, LocksAssumption
  <2> QED BY <1>5, <2>2, <2>3, LocksAssumption
<1>7. /\ pending' = [pending EXCEPT ![k] = pending[k] + granted]
  BY <1>1, <1>4 DEF Inv, TypeOK
<1> HIDE DEF granted, k
<1>8. /\ pending' \in [Keys -> Nat] /\ pending'[k] = pending[k] + granted
      /\ \A l \in Keys : l # k => pending'[l] = pending[l]
  BY <1>4, <1>5, <1>6, <1>7 DEF Inv, TypeOK
<1>9. TypeOK' BY <1>2, <1>8 DEF Inv, TypeOK, Steps
<1>10. ReservedWithin' BY <1>6, <1>8 DEF Inv, ReservedWithin
<1>11. /\ \A u \in Threads \ {t} : pc'[u] = pc[u] /\ seen'[u] = seen[u]
       /\ pc'[t] = "run"
  BY <1>2 DEF Inv, TypeOK
<1>12. ViewsAgree' BY <1>2, <1>11, ViewsStay DEF Inv
<1>13. ReadingsCover'
  <2> SUFFICES ASSUME NEW u \in Threads, pc'[u] = "reserve"
               PROVE  stack'[u] # <<>> /\ pending'[Top(u)'] <= seen'[u]
    BY DEF ReadingsCover
  <2>1. u # t /\ pc[u] = "reserve" /\ seen'[u] = seen[u] BY <1>11
  <2>2. stack[u] # <<>> /\ pending[Top(u)] <= seen[u] BY <2>1 DEF Inv, ReadingsCover
  <2>3. Top(u) \in Keys /\ Has(u, Top(u)) BY <2>2, TopIsHad DEF Inv
  <2>4. Top(u) # k BY <1>4, <2>1, <2>3, Exclusive DEF Inv
  <2>5. Top(u)' = Top(u) BY <1>2 DEF Top
  <2> QED BY <1>2, <1>8, <2>1, <2>2, <2>3, <2>4, <2>5
<1> QED BY <1>9, <1>10, <1>12, <1>13 DEF Inv

LEMMA ReservationsEndKeepInv ==
  ASSUME Inv, NEW k \in Keys, ReservationsEnd(k) PROVE Inv'
<1>1. PICK ended \in 1..pending[k] : pending' = [pending EXCEPT ![k] = @ - ended]
  BY DEF ReservationsEnd
<1>2. UNCHANGED <<holder, owner, waiting, stack, pc, want, seen>> BY DEF ReservationsEnd
<1>3. /\ pending' \in [Keys -> Nat] /\ \A l \in Keys : pending'[l] <= pending[l]
      /\ pending \in [Keys -> Nat]
  BY <1>1 DEF Inv, TypeOK
<1>4. TypeOK' BY <1>2, <1>3 DEF Inv, TypeOK
<1>5. ReservedWithin' BY <1>3, LocksAssumption DEF Inv, ReservedWithin
<1>6. ViewsAgree' BY <1>2 DEF Inv, ViewsAgree, Has
<1>7. ReadingsCover'
  <2> SUFFICES ASSUME NEW u \in Threads, pc[u] = "reserve"
               PROVE  stack[u] # <<>> /\ pending'[Top(u)] <= seen[u]
    BY <1>2 DEF ReadingsCover, Top
  <2>1. stack[u] # <<>> /\ pending[Top(u)] <= seen[u] BY DEF Inv, ReadingsCover
  <2>2. Top(u) \in Keys BY <2>1, TopIsHad DEF Inv
  <2>3. seen[u] \in Nat BY DEF Inv, TypeOK
  <2> QED BY <1>3, <2>1, <2>2, <2>3
<1> QED BY <1>4, <1>5, <1>6, <1>7 DEF Inv

-----------------------------------------------------------------------------

\* The inductive invariant: types, agreement of the views of a lock, readings that cover
\* what is reserved, and the bound itself.
THEOREM InvHolds == Spec => []Inv
<1>1. Init => Inv
  <2> SUFFICES ASSUME Init PROVE Inv OBVIOUS
  <2>1. TypeOK BY LocksAssumption DEF Init, TypeOK, Steps
  <2>2. \A t \in Threads, k \in Keys : ~Has(t, k) BY DEF Init, Has
  <2>3. ViewsAgree BY <2>2 DEF Init, ViewsAgree
  <2> QED BY <2>1, <2>3, LocksAssumption DEF Init, Inv, ReadingsCover, ReservedWithin
<1>2. Inv /\ [Next]_vars => Inv'
  <2> SUFFICES ASSUME Inv, [Next]_vars PROVE Inv' OBVIOUS
  <2>1. CASE UNCHANGED vars
    BY <2>1 DEF vars, Inv, TypeOK, ViewsAgree, ReadingsCover, ReservedWithin, Has, Top
  <2> QED
    BY <2>1, BeginLockKeepsInv, TryLockKeepsInv, WaitingKeepsInv, WakeUpKeepsInv, EnterKeepsInv,
       LeaveKeepsInv, UnlockKeepsInv, ReadPendingKeepsInv, ReserveKeepsInv, ReservationsEndKeepInv
    DEF Next
<1> QED BY <1>1, <1>2, PTL DEF Spec

\* Every variable keeps its type.
THEOREM TypeCorrect == Spec => []TypeOK
<1>1. Inv => TypeOK BY DEF Inv
<1> QED BY <1>1, InvHolds, PTL

\* A noted owner has the lock in every state, for any number of threads (lock of
\* position_lock.py changes the note and the lock in separate steps).
THEOREM NotesAreCurrent == Spec => []OwnerIsHolder
<1>1. Inv => OwnerIsHolder
  <2> SUFFICES ASSUME Inv, NEW k \in Keys, owner[k] # Nobody PROVE holder[k] = owner[k]
    BY DEF OwnerIsHolder
  <2>1. owner[k] \in Threads BY DEF Inv, TypeOK
  <2> QED BY <2>1 DEF Inv, ViewsAgree
<1> QED BY <1>1, InvHolds, PTL

\* Reductions of a position never reserve more than it holds, for any number of threads and
\* any quantity (reserve_reduce reads and writes apart).
THEOREM ReductionsFit == Spec => []ReservedWithin
<1>1. Inv => ReservedWithin BY DEF Inv
<1> QED BY <1>1, InvHolds, PTL

-----------------------------------------------------------------------------
(* The detector.  What it reads is not only current but complete: who has  *)
(* a lock is noted, or on its way into or out of lock(), and who waits has *)
(* announced it.                                                           *)

Passing == {"woken", "got", "left"}

NotesComplete ==
  /\ \A t \in Threads, k \in Keys : Has(t, k) => owner[k] = t
  /\ \A k \in Keys : holder[k] # Nobody =>
       Has(holder[k], k) \/ (pc[holder[k]] \in Passing /\ want[holder[k]] = k)

Announced ==
  \A t \in Threads :
    waiting[t] = IF pc[t] \in {"wait", "woken", "late"} THEN want[t] ELSE NoKey

DetectorInv == NotesComplete /\ Announced

\* Neither speaks of anything but the locks and the places of threads.
LEMMA NotesStay ==
  ASSUME NotesComplete, TypeOK, UNCHANGED <<owner, stack>>,
         \A k \in Keys : holder'[k] # Nobody =>
           \/ holder'[k] = holder[k] /\ (pc[holder[k]] \in Passing /\ want[holder[k]] = k =>
                                           pc'[holder[k]] \in Passing /\ want'[holder[k]] = k)
           \/ pc'[holder'[k]] \in Passing /\ want'[holder'[k]] = k
  PROVE  NotesComplete'
<1>1. \A u \in Threads, k \in Keys : Has(u, k)' <=> Has(u, k) BY DEF Has
<1>2. \A k \in Keys : Has(holder[k], k)' <=> \E i \in DOMAIN stack[holder'[k]] : stack[holder'[k]][i] = k
  BY DEF Has
<1>3. \A k \in Keys : holder'[k] = holder[k] => (Has(holder[k], k)' <=> Has(holder[k], k))
  BY <1>2 DEF Has
<1> QED BY <1>1, <1>3 DEF NotesComplete

LEMMA LockingKeepsNotes ==
  ASSUME Inv, DetectorInv, NEW t \in Threads,
         \/ \E k \in Keys : BeginLock(t, k)
         \/ TryLock(t) \/ Announce(t) \/ Alarm(t) \/ WakeUp(t) \/ TimeOut(t)
         \/ StopWaiting(t) \/ ReadPending(t) \/ Reserve(t)
  PROVE  DetectorInv'
<1>1. TypeOK /\ ViewsAgree BY DEF Inv
<1>2. UNCHANGED <<owner, stack>>
  BY DEF BeginLock, TryLock, Announce, Alarm, WakeUp, TimeOut, StopWaiting, ReadPending, Reserve
<1>3. /\ \A u \in Threads \ {t} : pc'[u] = pc[u] /\ want'[u] = want[u] /\ waiting'[u] = waiting[u]
      /\ waiting'[t] = IF pc'[t] \in {"wait", "woken", "late"} THEN want'[t] ELSE NoKey
  BY <1>1 DEF BeginLock, TryLock, Announce, Alarm, WakeUp, TimeOut, StopWaiting, ReadPending,
              Reserve, Resume, Goto, TypeOK, DetectorInv, Announced
<1>4. Announced' BY <1>3 DEF DetectorInv, Announced
<1>5. pc[t] \in Passing => (pc'[t] \in Passing /\ want'[t] = want[t]) \/ pc[t] = "left"
  BY <1>1 DEF BeginLock, TryLock, Announce, Alarm, WakeUp, TimeOut, StopWaiting, ReadPending,
              Reserve, Resume, Goto, TypeOK, Passing
<1>6. pc[t] # "left"
  BY <1>1 DEF BeginLock, TryLock, Announce, Alarm, WakeUp, TimeOut, StopWaiting, ReadPending, Reserve
<1>7. \A k \in Keys : holder'[k] # holder[k] =>
         holder'[k] = t /\ pc'[t] \in Passing /\ want'[t] = k
  BY <1>1 DEF BeginLock, TryLock, Announce, Alarm, WakeUp, TimeOut, StopWaiting, ReadPending,
              Reserve, Resume, Goto, TypeOK, Passing
<1>8. \A k \in Keys : holder[k] # Nobody => holder[k] \in Threads BY <1>1 DEF TypeOK
<1>9. NotesComplete'
  BY <1>1, <1>2, <1>3, <1>5, <1>6, <1>7, <1>8, NotesStay DEF DetectorInv
<1> QED BY <1>4, <1>9 DEF DetectorInv

LEMMA EnterKeepsNotes ==
  ASSUME Inv, DetectorInv, NEW t \in Threads, Enter(t) PROVE DetectorInv'
<1> DEFINE k == want[t]
<1>1. /\ pc[t] = "got" /\ UNCHANGED <<holder, waiting>>
      /\ owner' = [owner EXCEPT ![k] = t] /\ stack' = [stack EXCEPT ![t] = Append(@, k)]
      /\ pc' = [pc EXCEPT ![t] = "run"] /\ want' = [want EXCEPT ![t] = NoKey]
  BY DEF Enter, Resume, Goto
<1>2. TypeOK /\ k \in Keys /\ holder[k] = t BY <1>1 DEF Inv, ViewsAgree
<1>3. \A u \in Threads, l \in Keys : Has(u, l)' <=> Has(u, l) \/ (u = t /\ l = k)
  BY <1>1, <1>2, PushedHas
<1>4. \A l \in Keys : owner'[l] = IF l = k THEN t ELSE owner[l] BY <1>1, <1>2 DEF TypeOK
<1>5. \A u \in Threads, l \in Keys : Has(u, l)' => owner'[l] = u
  BY <1>2, <1>3, <1>4 DEF DetectorInv, NotesComplete, Inv, ViewsAgree
<1>6. \A l \in Keys, h \in Threads : holder'[l] = h =>
        Has(h, l)' \/ (pc'[h] \in Passing /\ want'[h] = l)
  <2> SUFFICES ASSUME NEW l \in Keys, NEW h \in Threads, holder[l] = h
               PROVE  Has(h, l)' \/ (pc'[h] \in Passing /\ want'[h] = l)
    BY <1>1
  <2>1. Has(h, l) \/ (pc[h] \in Passing /\ want[h] = l)
    BY LocksAssumption DEF DetectorInv, NotesComplete
  <2>2. h # t => pc'[h] = pc[h] /\ want'[h] = want[h] BY <1>1, <1>2 DEF TypeOK
  <2> QED BY <1>2, <1>3, <2>1, <2>2
<1>7. NotesComplete'
  <2>1. \A l \in Keys : holder'[l] # Nobody => holder'[l] \in Threads BY <1>1, <1>2 DEF TypeOK
  <2>2. \A l \in Keys : holder'[l] # Nobody =>
          Has(holder[l], l)' \/ (pc'[holder'[l]] \in Passing /\ want'[holder'[l]] = l)
    BY <1>6, <2>1 DEF Has
  <2> QED BY <1>5, <2>2 DEF NotesComplete
<1>8. Announced' BY <1>1, <1>2 DEF DetectorInv, Announced, TypeOK
<1> QED BY <1>7, <1>8 DEF DetectorInv

LEMMA LeaveKeepsNotes ==
  ASSUME Inv, DetectorInv, NEW t \in Threads, Leave(t) PROVE DetectorInv'
<1> DEFINE k == Top(t)
<1>1. /\ pc[t] = "run" /\ stack[t] # <<>> /\ UNCHANGED <<holder, waiting>>
      /\ stack' = [stack EXCEPT ![t] = Below(t)]
      /\ owner' = IF StillHas(t, k) THEN owner ELSE [owner EXCEPT ![k] = Nobody]
      /\ pc' = [pc EXCEPT ![t] = "left"] /\ want' = [want EXCEPT ![t] = k]
  BY DEF Leave, Goto
<1>2. TypeOK /\ k \in Keys /\ Has(t, k) BY <1>1, TopIsHad DEF Inv
<1>3. /\ \A l \in Keys : Has(t, l)' /\ l = k => StillHas(t, l)
      /\ \A u \in Threads, l \in Keys :
           /\ Has(u, l)' => Has(u, l)
           /\ u # t \/ l # k \/ StillHas(t, k) => (Has(u, l) => Has(u, l)')
  BY <1>1, <1>2, PoppedHas
<1>4. \A l \in Keys : owner'[l] = IF l = k /\ ~StillHas(t, k) THEN Nobody ELSE owner[l]
  BY <1>1, <1>2 DEF TypeOK
<1> HIDE DEF k
<1>5. \A u \in Threads, l \in Keys : Has(u, l)' => owner'[l] = u
  <2> SUFFICES ASSUME NEW u \in Threads, NEW l \in Keys, Has(u, l)' PROVE owner'[l] = u
    OBVIOUS
  <2>1. Has(u, l) /\ owner[l] = u BY <1>3 DEF DetectorInv, NotesComplete
  <2>2. l = k => u = t BY <1>2, <2>1 DEF DetectorInv, NotesComplete
  <2>3. l = k => StillHas(t, k) BY <1>3, <2>2
  <2> QED BY <1>4, <2>1, <2>3
<1>6. \A l \in Keys, h \in Threads : holder'[l] = h =>
        Has(h, l)' \/ (pc'[h] \in Passing /\ want'[h] = l)
  <2> SUFFICES ASSUME NEW l \in Keys, NEW h \in Threads, holder[l] = h
               PROVE  Has(h, l)' \/ (pc'[h] \in Passing /\ want'[h] = l)
    BY <1>1
  <2>1. Has(h, l) \/ (pc[h] \in Passing /\ want[h] = l)
    BY LocksAssumption DEF DetectorInv, NotesComplete
  <2>2. /\ h # t => pc'[h] = pc[h] /\ want'[h] = want[h]
        /\ pc'[t] = "left" /\ want'[t] = k
    BY <1>1, <1>2 DEF TypeOK
  <2> QED BY <1>1, <1>3, <2>1, <2>2 DEF Passing
<1>7. NotesComplete'
  <2>1. \A l \in Keys : holder'[l] # Nobody => holder'[l] \in Threads BY <1>1, <1>2 DEF TypeOK
  <2>2. \A l \in Keys : holder'[l] # Nobody =>
          Has(holder[l], l)' \/ (pc'[holder'[l]] \in Passing /\ want'[holder'[l]] = l)
    BY <1>6, <2>1 DEF Has
  <2> QED BY <1>5, <2>2 DEF NotesComplete
<1>8. Announced' BY <1>1, <1>2 DEF DetectorInv, Announced, TypeOK
<1> QED BY <1>7, <1>8 DEF DetectorInv

LEMMA UnlockKeepsNotes ==
  ASSUME Inv, DetectorInv, NEW t \in Threads, Unlock(t) PROVE DetectorInv'
<1> DEFINE k == want[t]
<1>1. /\ pc[t] = "left" /\ UNCHANGED <<owner, waiting, stack>>
      /\ holder' = IF Has(t, k) THEN holder ELSE [holder EXCEPT ![k] = Nobody]
      /\ pc' = [pc EXCEPT ![t] = "run"] /\ want' = [want EXCEPT ![t] = NoKey]
  BY DEF Unlock, Resume, Goto
<1>2. TypeOK /\ k \in Keys /\ holder[k] = t BY <1>1 DEF Inv, ViewsAgree
<1>3. \A u \in Threads, l \in Keys : Has(u, l)' <=> Has(u, l) BY <1>1 DEF Has
<1>4. \A l \in Keys, h \in Threads : holder'[l] = h =>
        Has(h, l)' \/ (pc'[h] \in Passing /\ want'[h] = l)
  <2> SUFFICES ASSUME NEW l \in Keys, NEW h \in Threads, holder'[l] = h
               PROVE  Has(h, l)' \/ (pc'[h] \in Passing /\ want'[h] = l)
    OBVIOUS
  <2>1. holder[l] = h /\ (l = k => Has(t, k))
    BY <1>1, <1>2, LocksAssumption DEF TypeOK
  <2>2. Has(h, l) \/ (pc[h] \in Passing /\ want[h] = l)
    BY <2>1, LocksAssumption DEF DetectorInv, NotesComplete
  <2>3. h # t => pc'[h] = pc[h] /\ want'[h] = want[h] BY <1>1, <1>2 DEF TypeOK
  <2> QED BY <1>2, <1>3, <2>1, <2>2, <2>3
<1>5. NotesComplete'
  <2>1. \A l \in Keys : holder'[l] # Nobody => holder'[l] \in Threads BY <1>1, <1>2 DEF TypeOK
  <2>2. \A l \in Keys : holder'[l] # Nobody =>
          Has(holder[l], l)' \/ (pc'[holder'[l]] \in Passing /\ want'[holder'[l]] = l)
    BY <1>4, <2>1 DEF Has
  <2> QED BY <1>1, <1>3, <2>2 DEF NotesComplete, DetectorInv
<1>6. Announced' BY <1>1, <1>2 DEF DetectorInv, Announced, TypeOK
<1> QED BY <1>5, <1>6 DEF DetectorInv

\* What the detector reads is complete in every state.
LEMMA DetectorSees == Spec => []DetectorInv
<1>1. Init => DetectorInv
  <2> SUFFICES ASSUME Init PROVE DetectorInv OBVIOUS
  <2>1. \A t \in Threads, k \in Keys : ~Has(t, k) BY DEF Init, Has
  <2> QED BY <2>1 DEF Init, DetectorInv, NotesComplete, Announced
<1>2. Inv /\ DetectorInv /\ [Next]_vars => DetectorInv'
  <2> SUFFICES ASSUME Inv, DetectorInv, [Next]_vars PROVE DetectorInv' OBVIOUS
  <2>1. CASE UNCHANGED vars
    BY <2>1 DEF vars, DetectorInv, NotesComplete, Announced, Has
  <2>2. ASSUME NEW k \in Keys, ReservationsEnd(k) PROVE DetectorInv'
    BY <2>2 DEF ReservationsEnd, DetectorInv, NotesComplete, Announced, Has
  <2> QED
    BY <2>1, <2>2, LockingKeepsNotes, EnterKeepsNotes, LeaveKeepsNotes, UnlockKeepsNotes DEF Next
<1> QED BY <1>1, <1>2, InvHolds, PTL DEF Spec

-----------------------------------------------------------------------------
(* The chain of waits.                                                     *)

\* A set of natural numbers has a least one.
LEMMA Least ==
  ASSUME NEW S, S \subseteq Nat, S # {}
  PROVE  \E n \in S : \A m \in S : n <= m
<1> DEFINE less == OpToRel(<, Nat)
<1>1. IsWellFoundedOn(less, Nat) BY NatLessThanWellFounded
<1>2. \A i, j \in Nat : i < j => <<i, j>> \in less BY DEF OpToRel
<1> HIDE DEF less
<1>3. PICK n \in S : \A m \in S : ~(<<m, n>> \in less) BY <1>1, WFMin
<1>4. ASSUME NEW m \in S PROVE n <= m
  <2>1. m \in Nat /\ n \in Nat /\ ~(<<m, n>> \in less) BY <1>3
  <2>2. ~(m < n) BY <1>2, <2>1
  <2> QED BY <2>1, <2>2
<1> QED BY <1>3, <1>4

\* A property that holds first and passes on holds all along.
LEMMA UpTo ==
  ASSUME NEW n \in Nat, NEW S, 0 \in S, \A i \in 0..n : i \in S /\ i < n => i + 1 \in S
  PROVE  0..n \subseteq S
<1> DEFINE T == {i \in 0..n : i \notin S}
<1> SUFFICES ASSUME T # {} PROVE FALSE OBVIOUS
<1>1. T \subseteq Nat OBVIOUS
<1>2. PICK i \in T : \A j \in T : i <= j
  <2> HIDE DEF T
  <2> QED BY <1>1, Least
<1>3. i # 0 /\ i - 1 \in 0..n /\ i - 1 < i BY <1>2
<1>4. i - 1 \notin T BY <1>2, <1>3
<1> QED BY <1>2, <1>3, <1>4

\* The recursive function in Chain is one.
LEMMA ChainExists ==
  ASSUME NEW k, NEW n \in Nat
  PROVE  \E f : f = [i \in 0..n |-> IF i = 0 THEN owner[k] ELSE Behind(f[i - 1])]
<1> DEFINE IsChain(f, m) == f = [i \in 0..m |-> IF i = 0 THEN owner[k] ELSE Behind(f[i - 1])]
           S == {m \in Nat : \E f : IsChain(f, m)}
<1>1. 0 \in S
  <2>1. IsChain([i \in 0..0 |-> owner[k]], 0) OBVIOUS
  <2> QED BY <2>1
<1>2. ASSUME NEW m \in 0..n, m \in S PROVE m + 1 \in S
  <2>1. PICK f : IsChain(f, m) BY <1>2
  <2> DEFINE g == [i \in 0..(m + 1) |-> IF i = m + 1 THEN Behind(f[m]) ELSE f[i]]
  <2>2. \A i \in 0..(m + 1) :
          g[i] = IF i = 0 THEN owner[k] ELSE Behind(g[i - 1])
    <3> SUFFICES ASSUME NEW i \in 0..(m + 1)
                 PROVE  g[i] = IF i = 0 THEN owner[k] ELSE Behind(g[i - 1])
      OBVIOUS
    <3>1. CASE i = m + 1 BY <3>1
    <3>2. CASE i \in 0..m
      <4>1. f[i] = IF i = 0 THEN owner[k] ELSE Behind(f[i - 1]) BY <2>1, <3>2
      <4>2. i # 0 => g[i - 1] = f[i - 1] BY <3>2
      <4>3. g[i] = f[i] BY <3>2
      <4> HIDE DEF g
      <4> QED BY <4>1, <4>2, <4>3
    <3> QED BY <3>1, <3>2
  <2>3. IsChain(g, m + 1)
    <3>1. g = [i \in 0..(m + 1) |-> g[i]] OBVIOUS
    <3> HIDE DEF g
    <3>2. [i \in 0..(m + 1) |-> g[i]]
            = [i \in 0..(m + 1) |-> IF i = 0 THEN owner[k] ELSE Behind(g[i - 1])]
      BY <2>2
    <3> QED BY <3>1, <3>2
  <2> HIDE DEF IsChain
  <2> QED BY <2>3
<1> HIDE DEF S
<1>3. n \in S BY <1>1, <1>2, UpTo
<1> QED BY <1>3 DEF S

Length == Cardinality(Threads)

LEMMA LengthType == Length \in Nat
BY LocksAssumption, FS_CardinalityType DEF Length

LEMMA ChainSteps ==
  ASSUME NEW k
  PROVE  /\ Chain(k)[0] = owner[k]
         /\ \A i \in 0..Length : i < Length => Chain(k)[i + 1] = Behind(Chain(k)[i])
<1> DEFINE IsChain(f) ==
             f = [i \in 0..Length |-> IF i = 0 THEN owner[k] ELSE Behind(f[i - 1])]
<1>1. Chain(k) = CHOOSE f : IsChain(f) BY DEF Chain, Length
<1>2. \E f : IsChain(f) BY ChainExists, LengthType
<1>3. IsChain(Chain(k))
  <2> HIDE DEF IsChain
  <2> QED BY <1>1, <1>2
<1>4. \A i \in 0..Length :
        Chain(k)[i] = IF i = 0 THEN owner[k] ELSE Behind(Chain(k)[i - 1])
  BY <1>3
<1> QED BY <1>4, LengthType

LEMMA BehindType ==
  ASSUME TypeOK, NEW u \in Threads \cup {Nobody}
  PROVE  Behind(u) \in Threads \cup {Nobody}
BY DEF Behind, TypeOK

LEMMA ChainType ==
  ASSUME TypeOK, NEW k \in Keys, NEW i \in 0..Length
  PROVE  Chain(k)[i] \in Threads \cup {Nobody}
<1> DEFINE S == {m \in Nat : m <= Length => Chain(k)[m] \in Threads \cup {Nobody}}
<1>1. 0 \in S BY ChainSteps DEF TypeOK
<1>2. \A m \in 0..Length : m \in S /\ m < Length => m + 1 \in S
  BY ChainSteps, BehindType, LengthType
<1> HIDE DEF S
<1>3. 0..Length \subseteq S BY <1>1, <1>2, LengthType, UpTo
<1> QED BY <1>3, LengthType DEF S

\* Once it comes to somebody who is behind himself the chain stays there.
LEMMA ChainRests ==
  ASSUME NEW k, NEW i \in 0..Length, NEW j \in i..Length, Behind(Chain(k)[i]) = Chain(k)[i]
  PROVE  Chain(k)[j] = Chain(k)[i]
<1> DEFINE S == {m \in Nat : i + m <= Length => Chain(k)[i + m] = Chain(k)[i]}
<1>1. 0 \in S BY LengthType
<1>2. ASSUME NEW m \in 0..(j - i), m \in S PROVE m + 1 \in S
  <2> SUFFICES ASSUME i + (m + 1) <= Length PROVE Chain(k)[i + (m + 1)] = Chain(k)[i]
    OBVIOUS
  <2>1. Chain(k)[i + m] = Chain(k)[i] BY <1>2, LengthType
  <2>2. i + m \in 0..Length /\ i + m < Length /\ (i + m) + 1 = i + (m + 1) BY LengthType
  <2> QED BY <2>1, <2>2, ChainSteps
<1>3. j - i \in Nat /\ i + (j - i) = j BY LengthType
<1> HIDE DEF S
<1>4. \A m \in 0..(j - i) : m \in S /\ m < j - i => m + 1 \in S BY <1>2
<1>5. 0..(j - i) \subseteq S BY <1>1, <1>3, <1>4, UpTo
<1>6. j - i \in S BY <1>3, <1>5
<1> QED BY <1>3, <1>6, LengthType DEF S

-----------------------------------------------------------------------------
(* No standoff.                                                            *)

\* A set of threads each of which is stuck behind another one of them.
Standoff(circle) ==
  /\ circle \subseteq Threads /\ circle # {}
  /\ \A t \in circle : pc[t] = "wait" /\ holder[want[t]] \in circle

\* A thread that waits is, for the detector, behind the one that has what it waits for,
\* unless that one is passing through lock().
LEMMA BehindHolder ==
  ASSUME Inv, DetectorInv, NEW u \in Threads, pc[u] \in {"blocked", "wait", "late"},
         NEW h \in Threads, holder[want[u]] = h, pc[h] \notin Passing
  PROVE  owner[want[u]] = h /\ (pc[u] # "blocked" => Behind(u) = h)
<1>1. want[u] \in Keys BY DEF Inv, ViewsAgree
<1>2. Has(h, want[u]) BY <1>1, LocksAssumption DEF DetectorInv, NotesComplete
<1>3. owner[want[u]] = h BY <1>1, <1>2 DEF DetectorInv, NotesComplete
<1>4. pc[u] # "blocked" => waiting[u] = want[u] BY DEF DetectorInv, Announced
<1> QED BY <1>1, <1>3, <1>4, LocksAssumption DEF Behind

\* A chain that never leaves a set of waiting threads closes a standoff among them.
LEMMA ChainCloses ==
  ASSUME Inv, DetectorInv, NEW k \in Keys, NEW C, C \subseteq Threads,
         \A i \in 0..Length : Chain(k)[i] \in C,
         \A u \in C : pc[u] = "wait" /\ holder[want[u]] \in Threads
                        /\ pc[holder[want[u]]] \notin Passing
  PROVE  \E circle : Standoff(circle)
<1> DEFINE c == [i \in 0..Length |-> Chain(k)[i]]
<1>1. c \in [0..Length -> Threads] OBVIOUS
<1>2. IsFiniteSet(0..Length) /\ Cardinality(0..Length) = Length + 1
  BY LengthType, FS_Interval
<1>3. IsFiniteSet(Threads) /\ Cardinality(Threads) < Cardinality(0..Length)
  BY <1>2, LengthType, LocksAssumption DEF Length
<1>4. \E i, j \in 0..Length : i # j /\ c[i] = c[j]
  <2> DEFINE steps == 0..Length
  <2> HIDE DEF c
  <2>1. /\ IsFiniteSet(steps) /\ Cardinality(Threads) < Cardinality(steps)
        /\ c \in [steps -> Threads]
    BY <1>1, <1>2, <1>3
  <2> HIDE DEF steps
  <2>2. \E i, j \in steps : i # j /\ c[i] = c[j] BY <2>1, <1>3, FS_PigeonHole
  <2> QED BY <2>2 DEF steps
<1>5. PICK i \in 0..Length, j \in 0..Length : i < j /\ Chain(k)[i] = Chain(k)[j]
  <2>1. PICK a \in 0..Length, b \in 0..Length : a # b /\ c[a] = c[b] BY <1>4
  <2>2. a < b \/ b < a BY <2>1, LengthType
  <2> QED BY <2>1, <2>2
<1> DEFINE D == {Chain(k)[m] : m \in i..(j - 1)}
<1>6. D \subseteq C /\ D # {}
  <2>1. i..(j - 1) \subseteq 0..Length /\ i \in i..(j - 1) BY <1>5, LengthType
  <2> QED BY <2>1
<1>7. ASSUME NEW u \in D PROVE pc[u] = "wait" /\ holder[want[u]] \in D
  <2>1. PICK m \in i..(j - 1) : u = Chain(k)[m] BY <1>7
  <2>2. m \in 0..Length /\ m < Length /\ m + 1 \in i..j BY <2>1, <1>5, LengthType
  <2>3. u \in C /\ u \in Threads /\ pc[u] = "wait" BY <2>1, <2>2
  <2>4. Behind(u) = holder[want[u]] BY <2>3, BehindHolder
  <2>5. Chain(k)[m + 1] = holder[want[u]] BY <2>1, <2>2, <2>4, ChainSteps
  <2>6. Chain(k)[m + 1] \in D
    <3>1. CASE m + 1 = j
      <4>1. i \in i..(j - 1) BY <1>5, LengthType
      <4> QED BY <1>5, <3>1, <4>1
    <3>2. CASE m + 1 # j
      <4>1. m + 1 \in i..(j - 1) BY <2>2, <3>2, <1>5, LengthType
      <4> QED BY <4>1
    <3> QED BY <3>1, <3>2
  <2> QED BY <2>3, <2>5, <2>6
<1>8. Standoff(D) BY <1>6, <1>7 DEF Standoff
<1> QED BY <1>8

LEMMA NobodyStuck == NoStandoff <=> \A circle : ~Standoff(circle)
<1>1. ASSUME NoStandoff, NEW circle, Standoff(circle) PROVE FALSE
  <2>1. circle \in (SUBSET Threads) \ {{}} BY <1>1 DEF Standoff
  <2>2. PICK t \in circle : pc[t] # "wait" \/ holder[want[t]] \notin circle
    BY <1>1, <2>1 DEF NoStandoff
  <2> QED BY <1>1, <2>2 DEF Standoff
<1>2. ASSUME \A circle : ~Standoff(circle), NEW circle \in (SUBSET Threads) \ {{}}
      PROVE  \E t \in circle : pc[t] # "wait" \/ holder[want[t]] \notin circle
  <2>1. ~Standoff(circle) BY <1>2
  <2>2. circle \subseteq Threads /\ circle # {} OBVIOUS
  <2> QED BY <2>1, <2>2 DEF Standoff
<1> QED BY <1>1, <1>2 DEF NoStandoff

\* The only step that could complete a circle is the announcement, and it looks first.
LEMMA AnnounceIsSafe ==
  ASSUME Inv, DetectorInv, NoStandoff, NEW t \in Threads, Announce(t),
         NEW C, Standoff(C)'
  PROVE  FALSE
<1>1. /\ pc[t] = "blocked" /\ ~WouldDeadlock(t, want[t])
      /\ pc' = [pc EXCEPT ![t] = "wait"] /\ UNCHANGED <<holder, owner, want>>
  BY DEF Announce, Goto
<1>2. /\ C \subseteq Threads /\ C # {}
      /\ \A u \in C : pc'[u] = "wait" /\ holder[want[u]] \in C
  BY <1>1 DEF Standoff
<1>3. \A u \in C \ {t} : pc[u] = "wait" BY <1>1, <1>2 DEF Inv, TypeOK
<1>4. t \in C
  <2>1. ~Standoff(C) BY NobodyStuck
  <2> QED BY <1>2, <1>3, <2>1 DEF Standoff
<1>5. \A u \in C : pc[u] \notin Passing /\ pc[u] \in {"blocked", "wait"}
  BY <1>1, <1>3 DEF Passing
<1> DEFINE k == want[t]
<1>6. k \in Keys BY <1>1 DEF Inv, ViewsAgree
<1>7. \A i \in 0..Length : Chain(k)[i] # t BY <1>1 DEF WouldDeadlock, Length
<1> HIDE DEF k
<1> DEFINE S == {i \in Nat : i <= Length => Chain(k)[i] \in C}
<1>8. 0 \in S
  <2>1. owner[want[t]] = holder[want[t]]
    <3> DEFINE h == holder[want[t]]
    <3>1. h \in C /\ h \in Threads /\ pc[h] \notin Passing BY <1>2, <1>4, <1>5
    <3> QED BY <1>1, <3>1, BehindHolder
  <2> QED BY <1>2, <1>4, <2>1, ChainSteps DEF k
<1>9. \A i \in 0..Length : i \in S /\ i < Length => i + 1 \in S
  <2> SUFFICES ASSUME NEW i \in 0..Length, Chain(k)[i] \in C, i < Length
               PROVE  Chain(k)[i + 1] \in C
    BY LengthType
  <2> DEFINE u == Chain(k)[i] h == holder[want[u]]
  <2>1. u \in C \ {t} /\ pc[u] = "wait" BY <1>3, <1>7
  <2>2. h \in C /\ h \in Threads /\ u \in Threads /\ pc[h] \notin Passing BY <1>2, <1>5, <2>1
  <2>3. Behind(u) = h BY <2>1, <2>2, BehindHolder
  <2> QED BY <2>2, <2>3, ChainSteps
<1>10. 0..Length \subseteq S
  <2> HIDE DEF S
  <2> QED BY <1>8, <1>9, LengthType, UpTo
<1>11. \A i \in 0..Length : Chain(k)[i] \in C \ {t} BY <1>7, <1>10
<1>12. \E circle : Standoff(circle)
  <2>1. \A u \in C \ {t} : pc[u] = "wait" /\ holder[want[u]] \in Threads
                             /\ pc[holder[want[u]]] \notin Passing
    BY <1>2, <1>3, <1>5
  <2>2. C \ {t} \subseteq Threads BY <1>2
  <2> QED BY <1>6, <1>11, <2>1, <2>2, ChainCloses
<1> QED BY <1>12, NobodyStuck

\* Every other step takes a thread out of a circle or touches none.
LEMMA OthersAreSafe ==
  ASSUME Inv, NoStandoff, [Next]_vars, NEW C, Standoff(C)',
         \A t \in Threads : ~Announce(t)
  PROVE  FALSE
<1>1. /\ C \subseteq Threads /\ C # {}
      /\ \A u \in C : pc'[u] = "wait" /\ holder'[want'[u]] \in C
  BY DEF Standoff
<1>2. \A u \in Threads : pc'[u] = "wait" => pc[u] = "wait" /\ want'[u] = want[u]
  BY DEF Next, vars, BeginLock, TryLock, Announce, Alarm, WakeUp, TimeOut, StopWaiting, Enter,
         Leave, Unlock, ReadPending, Reserve, ReservationsEnd, Resume, Goto, Inv, TypeOK
<1>3. \A k \in Keys : \/ holder'[k] = holder[k]
                      \/ holder'[k] = Nobody
                      \/ holder'[k] \in Threads /\ pc'[holder'[k]] # "wait"
  BY DEF Next, vars, BeginLock, TryLock, Announce, Alarm, WakeUp, TimeOut, StopWaiting, Enter,
         Leave, Unlock, ReadPending, Reserve, ReservationsEnd, Resume, Goto, Inv, TypeOK, ViewsAgree
<1>4. \A u \in C : want[u] \in Keys BY <1>1, <1>2 DEF Inv, ViewsAgree
<1>5. \A u \in C : holder[want[u]] \in C
  <2> SUFFICES ASSUME NEW u \in C PROVE holder[want[u]] \in C OBVIOUS
  <2> DEFINE h == holder'[want[u]]
  <2>1. u \in Threads /\ h \in C /\ want[u] \in Keys BY <1>1, <1>2, <1>4
  <2>2. h \in Threads /\ pc'[h] = "wait" BY <1>1, <2>1
  <2> HIDE DEF h
  <2>3. holder[want[u]] = h BY <1>3, <2>1, <2>2, LocksAssumption DEF h
  <2> QED BY <2>1, <2>3
<1>6. Standoff(C) BY <1>1, <1>2, <1>5 DEF Standoff
<1> QED BY <1>6, NobodyStuck

\* No set of threads ever waits for one another, for any number of threads and locks and
\* however long the circle is (lock and _would_deadlock of position_lock.py).
THEOREM NobodyWaitsInACircle == Spec => []NoStandoff
<1>1. Init => NoStandoff
  <2> SUFFICES ASSUME Init, NEW circle, Standoff(circle) PROVE FALSE BY NobodyStuck
  <2> QED BY DEF Init, Standoff
<1>2. Inv /\ DetectorInv /\ NoStandoff /\ [Next]_vars => NoStandoff'
  <2> SUFFICES ASSUME Inv, DetectorInv, NoStandoff, [Next]_vars, NEW C, Standoff(C)' PROVE FALSE
    BY DEF NoStandoff, Standoff
  <2> QED BY AnnounceIsSafe, OthersAreSafe
<1> QED BY <1>1, <1>2, InvHolds, DetectorSees, PTL DEF Spec

-----------------------------------------------------------------------------
(* Alarms.                                                                 *)

\* The circle an alarm speaks of.
CircleAt(t, circle) ==
  /\ circle \subseteq Threads /\ t \in circle
  /\ \A u \in circle :
       /\ u # t => pc[u] \in {"wait", "late"}
       /\ holder[want[u]] \in circle

\* Who is behind somebody has announced a wait and not yet taken the lock.
LEMMA BehindWaits ==
  ASSUME Inv, DetectorInv, NEW u \in Threads, Behind(u) \in Threads, Behind(u) # u
  PROVE  pc[u] \in {"wait", "late"} /\ holder[want[u]] = Behind(u)
<1>1. waiting[u] # NoKey /\ Behind(u) = owner[waiting[u]] BY LocksAssumption DEF Behind
<1>2. waiting[u] = want[u] /\ pc[u] \in {"wait", "woken", "late"}
  BY <1>1 DEF DetectorInv, Announced
<1>3. want[u] \in Keys BY <1>2 DEF Inv, ViewsAgree
<1>4. holder[want[u]] = Behind(u) BY <1>1, <1>2, <1>3, LocksAssumption DEF Inv, ViewsAgree
<1>5. pc[u] = "woken" => holder[want[u]] = u BY DEF Inv, ViewsAgree
<1> QED BY <1>2, <1>4, <1>5

\* A chain that comes back to t is made of threads that wait, up to there.
LEMMA ChainWaits ==
  ASSUME Inv, DetectorInv, NEW t \in Threads, NEW k \in Keys,
         NEW n \in 0..Length, Chain(k)[n] = t,
         NEW i \in 0..n, i < n, Chain(k)[i] # t
  PROVE  /\ Chain(k)[i] \in Threads /\ Chain(k)[i + 1] \in Threads
         /\ pc[Chain(k)[i]] \in {"wait", "late"}
         /\ holder[want[Chain(k)[i]]] = Chain(k)[i + 1]
<1>1. n \in i..Length /\ i \in 0..Length /\ i < Length BY LengthType
<1> DEFINE u == Chain(k)[i]
<1>2. Behind(u) # u /\ u \in Threads \cup {Nobody} /\ Behind(u) \in Threads \cup {Nobody}
  BY <1>1, ChainRests, ChainType, BehindType DEF Inv
<1>3. Chain(k)[i + 1] = Behind(u) BY <1>1, ChainSteps
<1>4. u # Nobody BY <1>2 DEF Behind
<1>5. Behind(u) # Nobody
  <2> SUFFICES ASSUME Chain(k)[i + 1] = Nobody PROVE FALSE BY <1>3
  <2>1. Behind(Chain(k)[i + 1]) = Chain(k)[i + 1] BY DEF Behind
  <2>2. i + 1 \in 0..Length /\ n \in (i + 1)..Length BY <1>1, LengthType
  <2>3. Chain(k)[n] = Nobody BY <2>1, <2>2, ChainRests
  <2> QED BY <2>3, LocksAssumption
<1>6. u \in Threads /\ Behind(u) \in Threads BY <1>2, <1>4, <1>5
<1> HIDE DEF u
<1>7. pc[u] \in {"wait", "late"} /\ holder[want[u]] = Behind(u) BY <1>2, <1>6, BehindWaits
<1> QED BY <1>3, <1>6, <1>7 DEF u

LEMMA AlarmHasCircle ==
  ASSUME Inv, DetectorInv, NEW t \in Threads, pc[t] = "blocked", WouldDeadlock(t, want[t])
  PROVE  \E circle : CircleAt(t, circle)
<1> DEFINE k == want[t]
           S == {i \in 0..Length : Chain(k)[i] = t}
<1>1. S \subseteq Nat /\ S # {} BY LengthType DEF WouldDeadlock, Length
<1>2. PICK n \in S : \A m \in S : n <= m
  <2> HIDE DEF S
  <2> QED BY <1>1, Least
<1>3. n \in 0..Length /\ Chain(k)[n] = t BY <1>2
<1>4. \A i \in 0..n : i < n => Chain(k)[i] # t
  <2> SUFFICES ASSUME NEW i \in 0..n, i < n, Chain(k)[i] = t PROVE FALSE OBVIOUS
  <2>1. i \in S BY <1>3, LengthType
  <2> QED BY <1>2, <1>3, <2>1, LengthType
<1>5. k \in Keys BY DEF Inv, ViewsAgree
<1> HIDE DEF S
<1> DEFINE circle == {Chain(k)[i] : i \in 0..n}
<1>6. \A i \in 0..n : i < n =>
        /\ Chain(k)[i] \in Threads /\ Chain(k)[i + 1] \in circle
        /\ pc[Chain(k)[i]] \in {"wait", "late"}
        /\ holder[want[Chain(k)[i]]] = Chain(k)[i + 1]
  <2> SUFFICES ASSUME NEW i \in 0..n, i < n
               PROVE  /\ Chain(k)[i] \in Threads /\ Chain(k)[i + 1] \in circle
                      /\ pc[Chain(k)[i]] \in {"wait", "late"}
                      /\ holder[want[Chain(k)[i]]] = Chain(k)[i + 1]
    OBVIOUS
  <2>1. i + 1 \in 0..n BY <1>3, LengthType
  <2>2. Chain(k)[i + 1] \in circle BY <2>1
  <2> HIDE DEF k, circle
  <2> QED BY <1>3, <1>4, <1>5, <2>2, ChainWaits
<1>7. holder[k] \in circle
  <2>1. 0 \in 0..n BY <1>3, LengthType
  <2>2. Chain(k)[0] \in Threads
    <3>1. CASE n = 0 BY <1>3, <3>1
    <3>2. CASE n # 0
      <4>1. 0 < n BY <3>2, <1>3, LengthType
      <4> QED BY <1>6, <2>1, <4>1
    <3> QED BY <3>1, <3>2
  <2>3. owner[k] = Chain(k)[0] BY ChainSteps
  <2>4. holder[k] = owner[k] BY <1>5, <2>2, <2>3, LocksAssumption DEF Inv, ViewsAgree
  <2> QED BY <2>1, <2>3, <2>4
<1>8. t \in circle BY <1>3, LengthType
<1>9. ASSUME NEW u \in circle
      PROVE  u \in Threads /\ (u # t => pc[u] \in {"wait", "late"}) /\ holder[want[u]] \in circle
  <2>1. PICK i \in 0..n : u = Chain(k)[i] BY <1>9
  <2>2. CASE u = t BY <1>7, <2>2
  <2>3. CASE u # t
    <3>1. i < n BY <1>3, <2>1, <2>3, LengthType
    <3> QED BY <1>6, <2>1, <2>3, <3>1
  <2> QED BY <2>2, <2>3
<1>10. CircleAt(t, circle) BY <1>8, <1>9 DEF CircleAt
<1> QED BY <1>10

\* A deadlock is reported only where there is one, or a thread on its way out of one after
\* its timeout, whatever the order in which locks and notes change (_would_deadlock).
THEOREM AlarmsSpeakTrue == Spec => AlarmsAreReal
<1> DEFINE Real ==
      \A t \in Threads :
        pc[t] = "blocked" /\ pc'[t] = "run" =>
          \E circle \in SUBSET Threads :
            /\ t \in circle
            /\ \A u \in circle :
                 /\ u # t => pc[u] \in {"wait", "late"}
                 /\ holder[want[u]] \in circle
<1>1. Inv /\ DetectorInv /\ [Next]_vars => [Real]_vars
  <2> SUFFICES ASSUME Inv, DetectorInv, Next, NEW t \in Threads,
                      pc[t] = "blocked", pc'[t] = "run"
               PROVE  \E circle \in SUBSET Threads :
                        /\ t \in circle
                        /\ \A u \in circle :
                             /\ u # t => pc[u] \in {"wait", "late"}
                             /\ holder[want[u]] \in circle
    OBVIOUS
  <2>1. WouldDeadlock(t, want[t])
    BY DEF Next, BeginLock, TryLock, Announce, Alarm, WakeUp, TimeOut, StopWaiting, Enter,
           Leave, Unlock, ReadPending, Reserve, ReservationsEnd, Resume, Goto, Inv, TypeOK
  <2>2. PICK circle : CircleAt(t, circle) BY <2>1, AlarmHasCircle
  <2> QED BY <2>2 DEF CircleAt
<1> QED BY <1>1, InvHolds, DetectorSees, PTL DEF Spec, AlarmsAreReal
=============================================================================
