----------------------- MODULE ExecutionEngineProofs -----------------------
(***************************************************************************)
(* Theorems about HedgeExecutionEngine, for any number of threads, any     *)
(* quantity of the order and any number of failures and unclear answers.   *)
(***************************************************************************)
EXTENDS ExecutionEngine, FiniteSetTheorems, TLAPS

-----------------------------------------------------------------------------
(* Natural numbers.                                                        *)

\* A set of natural numbers has a least one.
LEMMA Least ==
  ASSUME NEW S, S \subseteq Nat, S # {}
  PROVE  \E n \in S : \A m \in S : n <= m
<1> DEFINE less == OpToRel(<, Nat)
<1>1. IsWellFoundedOn(less, Nat) BY NatLessThanWellFounded
<1>2. \A i, j \in Nat : i < j => <<i, j>> \in less BY DEF OpToRel
<1> HIDE DEF less
<1>3. PICK n \in S : \A m \in S : ~(<<m, n>> \in less) BY <1>1, WFMin
<1>4. ASSUME NEW m \in S PROVE n <= m
  <2>1. m \in Nat /\ n \in Nat /\ ~(<<m, n>> \in less) BY <1>3
  <2>2. ~(m < n) BY <1>2, <2>1
  <2> QED BY <2>1, <2>2
<1> QED BY <1>3, <1>4

\* A property that holds first and passes on holds always.
LEMMA Always ==
  ASSUME NEW S, 0 \in S, \A i \in Nat : i \in S => i + 1 \in S
  PROVE  Nat \subseteq S
<1> DEFINE T == {i \in Nat : i \notin S}
<1> SUFFICES ASSUME T # {} PROVE FALSE OBVIOUS
<1>1. PICK i \in T : \A j \in T : i <= j
  <2>1. T \subseteq Nat OBVIOUS
  <2> HIDE DEF T
  <2> QED BY <2>1, Least
<1>2. i # 0 /\ i - 1 \in Nat /\ i - 1 < i BY <1>1
<1>3. i - 1 \notin T BY <1>1, <1>2
<1> QED BY <1>1, <1>2, <1>3

\* Max and Min pick an element that bounds the others.
LEMMA MaxIs ==
  ASSUME NEW n \in Nat, NEW S, S \subseteq 0..n, S # {}
  PROVE  Max(S) \in S /\ \A x \in S : x <= Max(S)
<1> DEFINE T == {n - x : x \in S}
<1>1. T \subseteq Nat /\ T # {}
  <2>1. \A x \in S : x \in 0..n /\ n - x \in Nat OBVIOUS
  <2> QED BY <2>1
<1>2. PICK d \in T : \A e \in T : d <= e
  <2> HIDE DEF T
  <2> QED BY <1>1, Least
<1>3. PICK m \in S : d = n - m BY <1>2
<1>4. \A x \in S : m >= x
  <2> SUFFICES ASSUME NEW x \in S PROVE m >= x OBVIOUS
  <2>1. n - m <= n - x BY <1>2, <1>3
  <2> QED BY <2>1
<1>5. \E m1 \in S : \A x \in S : m1 >= x BY <1>4
<1>6. Max(S) \in S /\ \A x \in S : Max(S) >= x BY <1>5 DEF Max
<1> QED BY <1>6

LEMMA MaxOfTwo ==
  ASSUME NEW a \in Int, NEW b \in Int
  PROVE  Max({a, b}) = IF a >= b THEN a ELSE b
<1>1. \E m \in {a, b} : \A x \in {a, b} : m >= x OBVIOUS
<1>2. Max({a, b}) \in {a, b} /\ \A x \in {a, b} : Max({a, b}) >= x BY <1>1 DEF Max
<1> QED BY <1>2

LEMMA MinOfTwo ==
  ASSUME NEW a \in Int, NEW b \in Int
  PROVE  Min({a, b}) = IF a <= b THEN a ELSE b
<1>1. \E m \in {a, b} : \A x \in {a, b} : m =< x OBVIOUS
<1>2. Min({a, b}) \in {a, b} /\ \A x \in {a, b} : Min({a, b}) =< x BY <1>1 DEF Min
<1> QED BY <1>2

-----------------------------------------------------------------------------
(* Sums of lots.  MapThenSumSet is a recursive function on the subsets of  *)
(* its argument: it exists, and what it yields depends on no order.        *)

Lots(S) == MapThenSumSet(LAMBDA row : row.lots, S)

Pick(S) == CHOOSE x \in S : TRUE

\* f adds up the lots of each set of a family.
AddsUp(f, family) ==
  f = [s \in family |-> IF s = {} THEN 0 ELSE Pick(s).lots + f[s \ {Pick(s)}]]

LEMMA LotsIs == ASSUME NEW S PROVE Lots(S) = (CHOOSE f : AddsUp(f, SUBSET S))[S]
BY DEF Lots, MapThenSumSet, MapThenFoldSet, AddsUp, Pick

LEMMA PickIs == ASSUME NEW S, S # {} PROVE Pick(S) \in S
BY DEF Pick

LEMMA Smaller ==
  ASSUME NEW S, IsFiniteSet(S), S # {}
  PROVE  /\ IsFiniteSet(S \ {Pick(S)}) /\ Cardinality(S) \in Nat \ {0}
         /\ Cardinality(S \ {Pick(S)}) = Cardinality(S) - 1
BY PickIs, FS_RemoveElement, FS_CardinalityType, FS_EmptySet

\* The subsets of S with at most n elements.
Small(S, n) == {s \in SUBSET S : Cardinality(s) <= n}

LEMMA SmallSums ==
  ASSUME NEW S, IsFiniteSet(S), NEW n \in Nat
  PROVE  \E f : AddsUp(f, Small(S, n))
<1> DEFINE T == {m \in Nat : \E f : AddsUp(f, Small(S, m))}
<1>1. \A s \in SUBSET S : IsFiniteSet(s) /\ Cardinality(s) \in Nat
  BY FS_Subset, FS_CardinalityType
<1>2. 0 \in T
  <2> DEFINE f == [s \in Small(S, 0) |-> 0]
  <2>1. \A s \in Small(S, 0) : s = {} BY <1>1, FS_EmptySet DEF Small
  <2>2. AddsUp(f, Small(S, 0)) BY <2>1 DEF AddsUp
  <2> HIDE DEF f
  <2> QED BY <2>2
<1>3. ASSUME NEW m \in Nat, m \in T PROVE m + 1 \in T
  <2>1. PICK f : AddsUp(f, Small(S, m)) BY <1>3
  <2> DEFINE g == [s \in Small(S, m + 1) |->
                     IF s \in Small(S, m) THEN f[s] ELSE Pick(s).lots + f[s \ {Pick(s)}]]
  <2>2. ASSUME NEW s \in Small(S, m + 1), s # {}
        PROVE  /\ s \ {Pick(s)} \in Small(S, m)
               /\ s \ {Pick(s)} \in Small(S, m + 1)
    <3>1. s \in SUBSET S /\ Cardinality(s) <= m + 1 /\ IsFiniteSet(s) BY <1>1 DEF Small
    <3>2. Cardinality(s \ {Pick(s)}) = Cardinality(s) - 1 /\ Cardinality(s) \in Nat
      BY <2>2, <3>1, Smaller
    <3> QED BY <3>1, <3>2 DEF Small
  <2>3. ASSUME NEW s \in Small(S, m + 1)
        PROVE  g[s] = IF s = {} THEN 0 ELSE Pick(s).lots + g[s \ {Pick(s)}]
    <3>1. {} \in Small(S, m) BY FS_EmptySet DEF Small
    <3>2. CASE s \in Small(S, m)
      <4>1. f[s] = IF s = {} THEN 0 ELSE Pick(s).lots + f[s \ {Pick(s)}]
        BY <2>1, <3>2 DEF AddsUp
      <4>2. g[s] = f[s] BY <3>2, <2>3
      <4>3. s # {} => g[s \ {Pick(s)}] = f[s \ {Pick(s)}] BY <2>2, <2>3
      <4> HIDE DEF g
      <4> QED BY <4>1, <4>2, <4>3
    <3>3. CASE s \notin Small(S, m)
      <4>1. s # {} BY <3>1, <3>3
      <4>2. g[s] = Pick(s).lots + f[s \ {Pick(s)}] BY <3>3, <2>3
      <4>3. g[s \ {Pick(s)}] = f[s \ {Pick(s)}] BY <2>2, <2>3, <4>1
      <4> HIDE DEF g
      <4> QED BY <4>1, <4>2, <4>3
    <3> QED BY <3>2, <3>3
  <2>4. AddsUp(g, Small(S, m + 1))
    <3>1. g = [s \in Small(S, m + 1) |-> g[s]] OBVIOUS
    <3> HIDE DEF g
    <3>2. [s \in Small(S, m + 1) |-> g[s]]
            = [s \in Small(S, m + 1) |->
                 IF s = {} THEN 0 ELSE Pick(s).lots + g[s \ {Pick(s)}]]
      BY <2>3
    <3> QED BY <3>1, <3>2 DEF AddsUp
  <2> HIDE DEF g
  <2> QED BY <2>4
<1> HIDE DEF T
<1>4. n \in T BY <1>2, <1>3, Always
<1> QED BY <1>4 DEF T

LEMMA SumExists ==
  ASSUME NEW S, IsFiniteSet(S)
  PROVE  \E f : AddsUp(f, SUBSET S)
<1>1. \A s \in SUBSET S : Cardinality(s) <= Cardinality(S) BY FS_Subset
<1>2. Small(S, Cardinality(S)) = SUBSET S BY <1>1 DEF Small
<1>3. Cardinality(S) \in Nat BY FS_CardinalityType
<1>4. \E f : AddsUp(f, Small(S, Cardinality(S))) BY <1>3, SmallSums
<1> QED BY <1>2, <1>4

\* Two such functions agree where both are defined.
LEMMA SumUnique ==
  ASSUME NEW S, IsFiniteSet(S), NEW T, T \subseteq S,
         NEW f, AddsUp(f, SUBSET S), NEW g, AddsUp(g, SUBSET T)
  PROVE  f[T] = g[T]
<1> DEFINE A == {n \in Nat : \A s \in SUBSET T : Cardinality(s) = n => f[s] = g[s]}
<1>1. \A s \in SUBSET T : IsFiniteSet(s) /\ Cardinality(s) \in Nat
  BY FS_Subset, FS_CardinalityType
<1>2. \A s \in SUBSET T :
        /\ f[s] = IF s = {} THEN 0 ELSE Pick(s).lots + f[s \ {Pick(s)}]
        /\ g[s] = IF s = {} THEN 0 ELSE Pick(s).lots + g[s \ {Pick(s)}]
  <2> SUFFICES ASSUME NEW s \in SUBSET T
               PROVE  /\ f[s] = IF s = {} THEN 0 ELSE Pick(s).lots + f[s \ {Pick(s)}]
                      /\ g[s] = IF s = {} THEN 0 ELSE Pick(s).lots + g[s \ {Pick(s)}]
    OBVIOUS
  <2>1. s \in SUBSET S OBVIOUS
  <2>2. f[s] = IF s = {} THEN 0 ELSE Pick(s).lots + f[s \ {Pick(s)}] BY <2>1 DEF AddsUp
  <2>3. g[s] = IF s = {} THEN 0 ELSE Pick(s).lots + g[s \ {Pick(s)}] BY DEF AddsUp
  <2> QED BY <2>2, <2>3
<1>3. 0 \in A BY <1>1, <1>2, FS_EmptySet
<1>4. ASSUME NEW n \in Nat, n \in A PROVE n + 1 \in A
  <2> SUFFICES ASSUME NEW s \in SUBSET T, Cardinality(s) = n + 1 PROVE f[s] = g[s]
    OBVIOUS
  <2>1. s # {}
    <3>1. Cardinality({}) = 0 /\ n + 1 # 0 BY FS_EmptySet
    <3> QED BY <3>1
  <2>2. s \ {Pick(s)} \in SUBSET T /\ Cardinality(s \ {Pick(s)}) = n
    BY <1>1, <2>1, Smaller
  <2>3. f[s \ {Pick(s)}] = g[s \ {Pick(s)}] BY <1>4, <2>2
  <2> QED BY <1>2, <2>1, <2>3
<1> HIDE DEF A
<1>5. Cardinality(T) \in A BY <1>1, <1>3, <1>4, Always
<1> QED BY <1>5 DEF A

\* The empty set has no lots, and a set those of one element and of the rest.
LEMMA LotsOfNone == Lots({}) = 0
<1>1. IsFiniteSet({}) BY FS_EmptySet
<1>2. PICK f : AddsUp(f, SUBSET {}) BY <1>1, SumExists
<1>3. AddsUp(CHOOSE f1 : AddsUp(f1, SUBSET {}), SUBSET {}) BY <1>2
<1> DEFINE g == CHOOSE f1 : AddsUp(f1, SUBSET {})
<1> HIDE DEF g
<1>4. g[{}] = 0 BY <1>3 DEF g, AddsUp
<1> QED BY <1>4, LotsIs DEF g

LEMMA LotsOfPick ==
  ASSUME NEW S, IsFiniteSet(S), S # {}
  PROVE  Lots(S) = Pick(S).lots + Lots(S \ {Pick(S)})
<1> DEFINE rest == S \ {Pick(S)}
           f == CHOOSE f1 : AddsUp(f1, SUBSET S)
           g == CHOOSE g1 : AddsUp(g1, SUBSET rest)
<1>1. IsFiniteSet(rest) BY Smaller
<1>2. \E f1 : AddsUp(f1, SUBSET S) BY SumExists
<1>3. \E g1 : AddsUp(g1, SUBSET rest)
  <2> HIDE DEF rest
  <2> QED BY <1>1, SumExists
<1>4. AddsUp(f, SUBSET S) BY <1>2
<1>5. AddsUp(g, SUBSET rest) BY <1>3
<1>6. Lots(S) = f[S] BY LotsIs
<1>7. Lots(rest) = g[rest]
  <2> HIDE DEF rest
  <2> QED BY LotsIs
<1> HIDE DEF f, g
<1>8. rest \subseteq S OBVIOUS
<1>9. f[rest] = g[rest]
  <2> HIDE DEF rest
  <2> QED BY <1>4, <1>5, <1>8, SumUnique
<1>10. f[S] = Pick(S).lots + f[rest] BY <1>4 DEF AddsUp
<1> QED BY <1>6, <1>7, <1>9, <1>10

\* One element more adds its own lots.
LEMMA LotsOfOneMore ==
  ASSUME NEW S, IsFiniteSet(S), NEW r, r \notin S, \A x \in S \cup {r} : x.lots \in Nat
  PROVE  Lots(S) \in Nat /\ Lots(S \cup {r}) = Lots(S) + r.lots
<1> DEFINE Adds(s, x) == Lots(s) \in Nat /\ Lots(s \cup {x}) = Lots(s) + x.lots
           Rows == S \cup {r}
           A == {n \in Nat : \A s \in SUBSET Rows : \A x \in Rows :
                   IsFiniteSet(s) /\ Cardinality(s) = n /\ x \notin s => Adds(s, x)}
<1>1. 0 \in A
  <2> SUFFICES ASSUME NEW x \in Rows PROVE Adds({}, x) BY FS_EmptySet
  <2>1. {} \cup {x} = {x} /\ IsFiniteSet({x}) /\ {x} # {} BY FS_Singleton
  <2>2. Pick({x}) = x /\ {x} \ {Pick({x})} = {} BY <2>1, PickIs
  <2>3. Lots({x}) = x.lots + Lots({}) BY <2>1, <2>2, LotsOfPick
  <2> QED BY <2>1, <2>3, LotsOfNone
<1>2. ASSUME NEW n \in Nat, n \in A PROVE n + 1 \in A
  <2> SUFFICES ASSUME NEW s \in SUBSET Rows, NEW x \in Rows,
                      IsFiniteSet(s), Cardinality(s) = n + 1, x \notin s
               PROVE  Adds(s, x)
    OBVIOUS
  <2>1. ASSUME NEW c \in s
        PROVE  /\ IsFiniteSet(s \ {c}) /\ Cardinality(s \ {c}) = n
               /\ Adds(s \ {c}, c) /\ Adds(s \ {c}, x) /\ (s \ {c}) \cup {c} = s
    <3>1. IsFiniteSet(s \ {c}) /\ Cardinality(s \ {c}) = n
      <4>1. IsFiniteSet(s \ {c}) /\ Cardinality(s \ {c}) = Cardinality(s) - 1
        BY FS_RemoveElement
      <4>2. (n + 1) - 1 = n OBVIOUS
      <4> QED BY <4>1, <4>2
    <3>2. s \ {c} \in SUBSET Rows /\ c \in Rows /\ c \notin s \ {c} /\ x \notin s \ {c}
      OBVIOUS
    <3>3. \A t \in SUBSET Rows : \A y \in Rows :
            IsFiniteSet(t) /\ Cardinality(t) = n /\ y \notin t => Adds(t, y)
      BY <1>2
    <3> HIDE DEF Adds, Rows
    <3>4. Adds(s \ {c}, c) /\ Adds(s \ {c}, x) BY <3>1, <3>2, <3>3
    <3> QED BY <3>1, <3>4
  <2>2. s # {} BY FS_EmptySet
  <2>3. Lots(s) \in Nat
    <3>1. PICK c \in s : TRUE BY <2>2
    <3>2. Lots(s) = Lots(s \ {c}) + c.lots /\ Lots(s \ {c}) \in Nat BY <2>1
    <3>3. c.lots \in Nat OBVIOUS
    <3> QED BY <3>2, <3>3
  <2> DEFINE t == s \cup {x}
             c == Pick(t)
  <2>4. IsFiniteSet(t) /\ t # {} BY FS_AddElement
  <2>5. c \in t BY <2>4, PickIs
  <2>6. Lots(t) = c.lots + Lots(t \ {c})
    <3> HIDE DEF t
    <3> QED BY <2>4, LotsOfPick
  <2> HIDE DEF c
  <2>7. CASE c = x
    <3>1. t \ {c} = s BY <2>7
    <3>2. x.lots \in Nat OBVIOUS
    <3> QED BY <2>3, <2>6, <2>7, <3>1, <3>2
  <2>8. CASE c # x
    <3>1. c \in s /\ t \ {c} = (s \ {c}) \cup {x} BY <2>5, <2>8
    <3>2. Lots(t) = c.lots + (Lots(s \ {c}) + x.lots) BY <2>1, <2>6, <3>1
    <3>3. Lots(s) = Lots(s \ {c}) + c.lots /\ Lots(s \ {c}) \in Nat BY <2>1, <3>1
    <3>4. c.lots \in Nat /\ x.lots \in Nat BY <3>1
    <3> HIDE DEF t
    <3>5. Lots(t) = Lots(s) + x.lots BY <3>2, <3>3, <3>4
    <3> QED BY <2>3, <3>5 DEF t
  <2> QED BY <2>7, <2>8
<1>3. Cardinality(S) \in A
  <2> HIDE DEF A
  <2> QED BY <1>1, <1>2, Always, FS_CardinalityType
<1>4. Adds(S, r)
  <2>1. S \in SUBSET Rows /\ r \in Rows OBVIOUS
  <2> HIDE DEF Adds, Rows
  <2> QED BY <1>3, <2>1
<1> QED BY <1>4

-----------------------------------------------------------------------------
(* Reports, and what the resolver makes of them.                           *)

Orders == [status : Statuses, filled : 0..Qty, approved : {Qty}, at : Stamps, xid : BOOLEAN]

Facts == [status : {"ACKNOWLEDGED", "PARTIAL", "FILLED", "CANCELED"},
          filled : 0..Qty, at : Moments, xid : BOOLEAN]

\* An order or a report says nothing false of a venue that has traded n lots, and has ended
\* the order if e.
IsTrue(s, n, e) ==
  /\ s.filled <= n
  /\ s.status \in TerminalStates => s.filled = n /\ (e \/ n = Qty)

Honest(s, n, e) ==
  s \in Facts /\ IsTrue(s, n, e) /\ (s.status = "FILLED" => s.filled = Qty)

LEMMA CumulativeIsHonest ==
  ASSUME NEW n \in 0..Qty, NEW k \in n..Qty, NEW e \in BOOLEAN
  PROVE  Honest(Cumulative(n), k, e) /\ Cumulative(n).at = n /\ Cumulative(n).filled = n
BY EngineAssumption DEF Cumulative, Honest, IsTrue, Facts, Moments, TerminalStates

\* What is reported of a moment that has been is true now.
LEMMA ReportIsHonest ==
  ASSUME TypeOK, ended => traded < Qty, NEW m \in 0..Moment
  PROVE  Honest(ReportOf(m), traded, ended) /\ ReportOf(m).at = m /\ Moment \in Moments
<1>1. traded \in 0..Qty /\ ended \in BOOLEAN /\ Moment \in Moments
  BY EngineAssumption DEF TypeOK, Moment, Moments
<1>2. CASE m <= traded
  <2>1. m \in 0..Qty /\ traded \in m..Qty BY <1>1, <1>2, EngineAssumption DEF Moment, Moments
  <2> QED BY <1>1, <1>2, <2>1, CumulativeIsHonest DEF ReportOf, Moments
<1>3. CASE m > traded
  <2>1. ended /\ m \in Moments BY <1>1, <1>3 DEF Moment, Moments
  <2>2. ReportOf(m) = [status |-> "CANCELED", filled |-> traded, at |-> m, xid |-> TRUE]
    BY <1>3 DEF ReportOf
  <2> QED BY <1>1, <2>1, <2>2 DEF Honest, IsTrue, Facts
<1> QED BY <1>1, <1>2, <1>3 DEF Moment, Moments

LEMMA StampsAreNatural == Stamps \subseteq Nat /\ Moments \subseteq Stamps /\ Readings \subseteq Stamps
BY EngineAssumption DEF Stamps, Moments

\* A merge keeps a true order true, and its quantity does not shrink.
LEMMA AppliedIsTrue ==
  ASSUME NEW o \in Orders, NEW n \in 0..Qty, NEW e \in BOOLEAN, NEW s,
         IsTrue(o, n, e), Honest(s, n, e), o.status \notin {"PREPARED", "REJECTED"}
  PROVE  LET new == Applied(o, s)
         IN  /\ new \in Orders /\ IsTrue(new, n, e)
             /\ new.status \notin {"PREPARED", "REJECTED"}
             /\ o.filled <= new.filled /\ new.filled \in {o.filled, s.filled}
             /\ ~Refused(o, s) => s.filled <= new.filled
<1> DEFINE status == Reported(o, s) at == OccurredAt(o, s)
           new == Applied(o, s)
<1>1. s \in Facts /\ IsTrue(s, n, e) BY DEF Honest
<1>2. CASE new = o
  <2>1. ~Refused(o, s) => s.filled <= o.filled
    BY <1>1, <1>2 DEF Refused, Applied, SameFact, Outdated, Orders, Facts, Advance
  <2>2. o.filled <= o.filled BY EngineAssumption DEF Orders
  <2> HIDE DEF new
  <2> QED BY <1>2, <2>1, <2>2 DEF new
<1>3. CASE new # o
  <2>1. Absorbable(o, s) /\ new = Advance(o, status, s.filled, at, s.xid)
    BY <1>3 DEF Applied
  <2>2. status \in {"ACKNOWLEDGED", "PARTIAL", "FILLED", "CANCELED"} /\ at \in Stamps
    BY <1>1, StampsAreNatural DEF Reported, OccurredAt, Orders, Facts
  <2>3. new = [status |-> status, filled |-> s.filled, approved |-> o.approved,
               at |-> at, xid |-> o.xid \/ s.xid]
    BY <2>1 DEF Advance
  <2>4. new \in Orders BY <1>1, <2>2, <2>3 DEF Orders, Facts, Statuses
  <2>5. o.filled <= s.filled /\ Fits(status, s.filled, Qty)
    BY <2>1 DEF Absorbable, CanReconcile, CanTransition, BuildsFact, Orders
  <2>6. status \in TerminalStates => s.filled = n /\ (e \/ n = Qty)
    <3>1. CASE status = "FILLED"
      BY <1>1, <2>5, <3>1 DEF Fits, IsTrue, Facts
    <3>2. CASE status = "CANCELED" /\ s.status = "CANCELED"
      BY <1>1, <3>2 DEF IsTrue, TerminalStates
    <3>3. CASE status = "CANCELED" /\ s.status # "CANCELED"
      <4>1. o.status = "CANCELED" /\ s.filled > o.filled
        BY <1>1, <3>3 DEF Reported
      <4>2. s.filled <= n /\ o.filled = n
        BY <1>1, <4>1 DEF IsTrue, TerminalStates
      <4> QED BY <4>1, <4>2, <1>1 DEF Facts
    <3> QED BY <2>2, <3>1, <3>2, <3>3 DEF TerminalStates
  <2>7. IsTrue(new, n, e)
    <3>1. new.filled = s.filled /\ new.status = status BY <2>3
    <3> HIDE DEF new, status
    <3> QED BY <1>1, <2>6, <3>1 DEF IsTrue
  <2>8. /\ new.filled = s.filled /\ new.status = status BY <2>3
  <2>9. status \notin {"PREPARED", "REJECTED"} BY <2>2
  <2>10. s.filled <= new.filled BY <1>1, <2>8 DEF Facts
  <2> HIDE DEF new, status, at
  <2> QED BY <2>2, <2>4, <2>5, <2>7, <2>8, <2>9, <2>10 DEF new
<1> QED BY <1>2, <1>3

\* A report of the end ends the order, unless a working order is stamped later.
LEMMA AppliedEnds ==
  ASSUME NEW o \in Orders, NEW n \in 0..Qty, NEW e \in BOOLEAN, NEW s,
         IsTrue(o, n, e), Honest(s, n, e), o.status \in {"ACKNOWLEDGED", "PARTIAL", "UNKNOWN"},
         s.status \in TerminalStates, o.status = "UNKNOWN" \/ o.at <= s.at
  PROVE  ~Refused(o, s) /\ Applied(o, s).status \in TerminalStates
<1>1. s \in Facts /\ s.filled = n /\ o.filled <= n BY DEF Honest, IsTrue
<1>2. s.status = "CANCELED" \/ s.status = "FILLED"
  BY <1>1 DEF Facts, TerminalStates
<1>3. s.status = "FILLED" => s.filled = Qty BY DEF Honest
<1> DEFINE status == Reported(o, s) at == OccurredAt(o, s)
<1>4. status \in {"FILLED", "CANCELED"} /\ (status = "FILLED" => s.filled = Qty)
      /\ (status = "CANCELED" => s.status = "CANCELED")
  BY <1>1, <1>2, <1>3 DEF Reported, Orders, Facts
<1>5. at >= o.at /\ o.at \in Nat /\ s.at \in Nat
  <2>1. o.at \in Nat /\ s.at \in Nat BY <1>1, StampsAreNatural DEF Orders, Facts
  <2> QED BY <2>1 DEF OccurredAt, Stale
<1>6. Absorbable(o, s)
  <2>1. status \in AllowedTransitions[o.status]
    BY <1>4 DEF AllowedTransitions, Statuses
  <2>2. BuildsFact(o, status, s.filled, at)
    BY <1>1, <1>4, <1>5, EngineAssumption DEF BuildsFact, Fits, Orders, Facts
  <2>3. o.status \notin TerminalStates BY DEF TerminalStates
  <2> QED BY <2>1, <2>2, <2>3 DEF Absorbable, CanTransition
<1>7. ~SameFact(o, s) BY <1>4 DEF SameFact
<1>8. ~Outdated(o, s) BY <1>5 DEF Outdated, Stale
<1>9. Applied(o, s) = Advance(o, status, s.filled, at, s.xid) BY <1>6, <1>7, <1>8 DEF Applied
<1>10. Applied(o, s).status = status BY <1>9 DEF Advance
<1>11. ~(s.filled > o.approved) BY <1>1, EngineAssumption DEF Orders, Facts
<1> QED BY <1>4, <1>6, <1>10, <1>11 DEF Refused, TerminalStates

\* What the merged reports say is true if each of them is, and the end is among it if one
\* of them knows of it.
LEMMA MergedIsHonest ==
  ASSUME NEW o \in Orders, NEW n \in 0..Qty, NEW e \in BOOLEAN, NEW m \in Moments,
         NEW reports, reports # {}, \A s \in reports : Honest(s, n, e) /\ s.at <= m
  PROVE  LET f == MergedOrders(o, reports)
         IN  /\ Honest(f, n, e) /\ f.at <= m
             /\ \A s \in reports :
                  s.at <= f.at /\ (s.status \in TerminalStates => f.status \in TerminalStates)
<1> DEFINE most == Max({s.filled : s \in reports}) last == Max({s.at : s \in reports})
           status == MergedStatus(o, reports)
           f == MergedOrders(o, reports)
<1>1. \A s \in reports : s \in Facts /\ IsTrue(s, n, e) /\ (s.status = "FILLED" => s.filled = Qty)
  BY DEF Honest
<1>2. n \in Nat /\ m \in Nat /\ n <= Qty /\ m <= Qty /\ Qty \in Nat \ {0}
  BY EngineAssumption DEF Moments
<1>3. \A s \in reports : s.filled \in 0..n /\ s.at \in 0..m
  BY <1>1, <1>2 DEF Facts, IsTrue, Moments
<1>4. most \in {s.filled : s \in reports} /\ \A s \in reports : s.filled <= most
  <2> DEFINE S == {s.filled : s \in reports}
  <2>1. S \subseteq 0..n /\ S # {} BY <1>3
  <2>2. \A s \in reports : s.filled \in S OBVIOUS
  <2> HIDE DEF S
  <2>3. Max(S) \in S /\ \A x \in S : x <= Max(S) BY <1>2, <2>1, MaxIs
  <2> QED BY <2>2, <2>3 DEF S
<1>5. last \in {s.at : s \in reports} /\ \A s \in reports : s.at <= last
  <2> DEFINE S == {s.at : s \in reports}
  <2>1. S \subseteq 0..m /\ S # {} BY <1>3
  <2>2. \A s \in reports : s.at \in S OBVIOUS
  <2> HIDE DEF S
  <2>3. Max(S) \in S /\ \A x \in S : x <= Max(S) BY <1>2, <2>1, MaxIs
  <2> QED BY <2>2, <2>3 DEF S
<1>6. f = [status |-> status, filled |-> most, at |-> last, xid |-> \E s \in reports : s.xid]
  BY DEF MergedOrders, Latest
<1>7. o.approved = Qty BY DEF Orders
<1>8. status = IF most = Qty /\ most > 0 THEN "FILLED"
               ELSE IF \E s \in reports : s.status = "CANCELED" THEN "CANCELED"
               ELSE IF most > 0 THEN "PARTIAL"
               ELSE IF \E s \in reports : s.status = "REJECTED" THEN "REJECTED"
               ELSE "ACKNOWLEDGED"
  BY <1>7 DEF MergedStatus
<1> HIDE DEF most, last, status, f
<1>9. most \in 0..n /\ last \in 0..m BY <1>3, <1>4, <1>5
<1>10. ~\E s \in reports : s.status = "REJECTED" BY <1>1 DEF Facts
<1>11. f.status = status /\ f.filled = most /\ f.at = last BY <1>6
<1>12. status \in {"ACKNOWLEDGED", "PARTIAL", "FILLED", "CANCELED"} BY <1>8, <1>10
<1>13. f \in Facts
  <2>1. most \in 0..Qty /\ last \in Moments BY <1>2, <1>9 DEF Moments
  <2> QED BY <1>6, <1>12, <2>1 DEF Facts
<1>14. status = "FILLED" => most = Qty BY <1>8
<1>15. status = "CANCELED" => most = n /\ (e \/ n = Qty)
  <2> SUFFICES ASSUME status = "CANCELED" PROVE most = n /\ (e \/ n = Qty) OBVIOUS
  <2>1. PICK s \in reports : s.status = "CANCELED" BY <1>8
  <2>2. s.filled = n /\ (e \/ n = Qty) BY <1>1, <2>1 DEF IsTrue, TerminalStates
  <2>3. n <= most BY <1>4, <2>2
  <2> QED BY <1>2, <1>9, <2>2, <2>3
<1>16. Honest(f, n, e)
  <2>1. status \in TerminalStates => status = "FILLED" \/ status = "CANCELED"
    BY <1>12 DEF TerminalStates
  <2>2. status = "FILLED" => most = n /\ n = Qty BY <1>2, <1>9, <1>14
  <2>3. IsTrue(f, n, e) BY <1>9, <1>11, <1>15, <2>1, <2>2 DEF IsTrue
  <2> QED BY <1>11, <1>13, <1>14, <2>3 DEF Honest
<1>17. \A s \in reports : s.status \in TerminalStates => status \in TerminalStates
  <2> SUFFICES ASSUME NEW s \in reports, s.status \in TerminalStates
               PROVE  status \in TerminalStates
    OBVIOUS
  <2>1. CASE s.status = "CANCELED" BY <1>8, <2>1 DEF TerminalStates
  <2>2. CASE s.status = "FILLED"
    <3>1. Qty <= most BY <1>1, <1>4, <2>2
    <3> QED BY <1>2, <1>8, <1>9, <3>1 DEF TerminalStates
  <2> QED BY <1>10, <2>1, <2>2 DEF TerminalStates
<1>18. f.at <= m /\ \A s \in reports : s.at <= f.at BY <1>5, <1>9, <1>11
<1> QED BY <1>11, <1>16, <1>17, <1>18 DEF f

\* The same of a list of trades, whose lots do not exceed what was traded.
LEMMA AggregateIsHonest ==
  ASSUME NEW o \in Orders, NEW n \in 0..Qty, NEW e \in BOOLEAN, NEW m \in Moments,
         NEW trades, trades # {}, Lots(trades) \in 0..n, \A x \in trades : x.at \in 0..m
  PROVE  LET f == AggregatedFills(o, trades)
         IN  Honest(f, n, e) /\ f.at <= m /\ f.status \in {"FILLED", "PARTIAL"}
<1> DEFINE total == Min({Qty, Lots(trades)}) last == Max({x.at : x \in trades})
           f == AggregatedFills(o, trades)
<1>1. n \in Nat /\ m \in Nat /\ n <= Qty /\ m <= Qty /\ Qty \in Nat \ {0}
  BY EngineAssumption DEF Moments
<1>2. total = Lots(trades)
  <2> DEFINE l == Lots(trades)
  <2>1. l \in 0..n OBVIOUS
  <2> HIDE DEF l
  <2>2. Min({Qty, l}) = l BY <1>1, <2>1, MinOfTwo
  <2> QED BY <2>2 DEF l
<1>3. last \in 0..m
  <2> DEFINE S == {x.at : x \in trades}
  <2>1. S \subseteq 0..m /\ S # {} OBVIOUS
  <2> HIDE DEF S
  <2>2. Max(S) \in S BY <1>1, <2>1, MaxIs
  <2> QED BY <2>1, <2>2 DEF S
<1>4. f = [status |-> IF total = Qty THEN "FILLED" ELSE "PARTIAL",
           filled |-> total, at |-> last, xid |-> TRUE]
  BY DEF AggregatedFills, Latest, Orders, Lots
<1> HIDE DEF total, last, f
<1>5. total \in 0..n /\ total \in 0..Qty /\ last \in Moments BY <1>1, <1>2, <1>3 DEF Moments
<1>6. f \in Facts BY <1>4, <1>5 DEF Facts
<1>7. IsTrue(f, n, e) BY <1>1, <1>4, <1>5 DEF IsTrue, TerminalStates
<1>8. Honest(f, n, e) BY <1>4, <1>6, <1>7 DEF Honest
<1>9. f.at <= m /\ f.status \in {"FILLED", "PARTIAL"} BY <1>1, <1>3, <1>4
<1> QED BY <1>8, <1>9 DEF f

\* The two together.
LEMMA WithFillsIsHonest ==
  ASSUME NEW o \in Orders, NEW n \in 0..Qty, NEW e \in BOOLEAN, NEW m \in Moments,
         NEW base, Honest(base, n, e), base.at <= m,
         NEW fills, Honest(fills, n, e), fills.at <= m
  PROVE  LET f == WithFills(o, base, fills)
         IN  /\ Honest(f, n, e) /\ base.at <= f.at /\ f.at <= m
             /\ base.status \in TerminalStates => f.status \in TerminalStates
<1> DEFINE most == Max({base.filled, fills.filled}) last == Max({base.at, fills.at})
           f == WithFills(o, base, fills)
<1>1. n \in Nat /\ m \in Nat /\ n <= Qty /\ m <= Qty /\ Qty \in Nat \ {0}
  BY EngineAssumption DEF Moments
<1>2. /\ base \in Facts /\ IsTrue(base, n, e) /\ (base.status = "FILLED" => base.filled = Qty)
      /\ fills \in Facts /\ IsTrue(fills, n, e)
  BY DEF Honest
<1>3. /\ base.filled \in 0..n /\ fills.filled \in 0..n /\ base.at \in 0..m /\ fills.at \in 0..m
  BY <1>1, <1>2 DEF Facts, IsTrue, Moments
<1>4. most = IF base.filled >= fills.filled THEN base.filled ELSE fills.filled
  BY <1>3, MaxOfTwo
<1>5. last = IF base.at >= fills.at THEN base.at ELSE fills.at BY <1>3, MaxOfTwo
<1>6. f = [status |-> IF most = Qty THEN "FILLED"
                      ELSE IF base.status = "CANCELED" THEN "CANCELED" ELSE "PARTIAL",
           filled |-> most, at |-> last, xid |-> base.xid \/ fills.xid]
  BY DEF WithFills, Orders
<1> HIDE DEF most, last, f
<1>7. most \in 0..n /\ base.filled <= most /\ last \in 0..m /\ base.at <= last
  BY <1>3, <1>4, <1>5
<1>8. most \in 0..Qty /\ last \in Moments BY <1>1, <1>7 DEF Moments
<1>9. /\ f.filled = most /\ f.at = last
      /\ f.status = IF most = Qty THEN "FILLED"
                    ELSE IF base.status = "CANCELED" THEN "CANCELED" ELSE "PARTIAL"
  BY <1>6
<1>10. f \in Facts BY <1>6, <1>8 DEF Facts
<1>11. IsTrue(f, n, e)
  <2>1. CASE most = Qty BY <1>1, <1>7, <1>9, <2>1 DEF IsTrue
  <2>2. CASE most # Qty /\ base.status = "CANCELED"
    BY <1>1, <1>2, <1>7, <1>9, <2>2 DEF IsTrue, TerminalStates
  <2>3. CASE most # Qty /\ base.status # "CANCELED"
    BY <1>1, <1>7, <1>9, <2>3 DEF IsTrue, TerminalStates
  <2> QED BY <2>1, <2>2, <2>3
<1>12. base.status \in TerminalStates => f.status \in TerminalStates
  <2>1. base.status = "FILLED" => most = Qty BY <1>1, <1>2, <1>7
  <2>2. base.status # "REJECTED" BY <1>2 DEF Facts
  <2> QED BY <1>9, <2>1, <2>2 DEF TerminalStates
<1>13. Honest(f, n, e) BY <1>9, <1>10, <1>11 DEF Honest
<1> QED BY <1>7, <1>9, <1>12, <1>13 DEF f

\* UnknownOrderResolver.resolve: from sources that are true, however old and incomplete each
\* of them is, it makes a fact that is true, and one that tells of the end if any source does.
THEOREM ResolvedIsHonest ==
  ASSUME NEW o \in Orders, NEW n \in 0..Qty, NEW e \in BOOLEAN, NEW m \in Moments,
         NEW reports, \A s \in reports : Honest(s, n, e) /\ s.at <= m,
         NEW trades, Lots(trades) \in 0..n, \A x \in trades : x.at \in 0..m
  PROVE  /\ \A f \in Resolved(o, reports, trades) : Honest(f, n, e) /\ f.at <= m
         /\ \A s \in reports : s.status \in TerminalStates =>
              \E f : /\ Resolved(o, reports, trades) = {f}
                     /\ f.status \in TerminalStates /\ s.at <= f.at
<1>1. \A s \in reports : Usable(o, s)
  BY EngineAssumption DEF Usable, Honest, Facts, Orders
<1>2. {s \in reports : Usable(o, s)} = reports BY <1>1
<1> DEFINE base == MergedOrders(o, reports) fills == AggregatedFills(o, trades)
<1>3. reports # {} =>
        /\ Honest(base, n, e) /\ base.at <= m
        /\ \A s \in reports :
             s.at <= base.at /\ (s.status \in TerminalStates => base.status \in TerminalStates)
  BY MergedIsHonest
<1>4. trades # {} => Honest(fills, n, e) /\ fills.at <= m BY AggregateIsHonest
<1>5. Resolved(o, reports, trades) =
        IF reports = {} /\ trades = {} THEN {}
        ELSE IF reports = {} THEN {fills}
        ELSE IF trades = {} THEN {base}
        ELSE {WithFills(o, base, fills)}
  BY <1>2 DEF Resolved
<1> HIDE DEF base, fills
<1>6. CASE reports = {} /\ trades = {} BY <1>5, <1>6
<1>7. CASE reports = {} /\ trades # {} BY <1>4, <1>5, <1>7
<1>8. CASE reports # {} /\ trades = {} BY <1>3, <1>5, <1>8
<1>9. CASE reports # {} /\ trades # {}
  <2> DEFINE f == WithFills(o, base, fills)
  <2>1. /\ Honest(f, n, e) /\ base.at <= f.at /\ f.at <= m
        /\ base.status \in TerminalStates => f.status \in TerminalStates
    BY <1>3, <1>4, <1>9, WithFillsIsHonest
  <2>2. Resolved(o, reports, trades) = {f} BY <1>5, <1>9
  <2> HIDE DEF f
  <2>3. \A s \in reports : s.at <= f.at
    <3>1. \A s \in reports : s.at \in Nat BY DEF Honest, Facts, Moments
    <3>2. base.at \in Nat /\ f.at \in Nat BY <1>3, <1>9, <2>1 DEF Honest, Facts, Moments
    <3> QED BY <1>3, <1>9, <2>1, <3>1, <3>2
  <2> QED BY <1>3, <1>9, <2>1, <2>2, <2>3
<1> QED BY <1>6, <1>7, <1>8, <1>9

-----------------------------------------------------------------------------
(* The lists of trades.                                                    *)

FirstTrades(m) == {[id |-> i, lots |-> 1, at |-> i] : i \in 1..m}

\* Any of the first m trades are m lots at most.
LEMMA LotsOfTrades ==
  ASSUME NEW m \in Nat, NEW S, S \subseteq FirstTrades(m)
  PROVE  IsFiniteSet(S) /\ Lots(S) \in 0..m
<1> DEFINE A == {n \in Nat : \A s \in SUBSET FirstTrades(n) :
                                IsFiniteSet(s) /\ Lots(s) \in 0..n}
<1>1. 0 \in A
  <2>1. FirstTrades(0) = {} BY DEF FirstTrades
  <2> QED BY <2>1, LotsOfNone, FS_EmptySet
<1>2. ASSUME NEW n \in Nat, n \in A PROVE n + 1 \in A
  <2> SUFFICES ASSUME NEW s \in SUBSET FirstTrades(n + 1)
               PROVE  IsFiniteSet(s) /\ Lots(s) \in 0..(n + 1)
    OBVIOUS
  <2> DEFINE r == [id |-> n + 1, lots |-> 1, at |-> n + 1]
             rest == s \ {r}
  <2>1. FirstTrades(n + 1) \subseteq FirstTrades(n) \cup {r}
    <3>1. 1..(n + 1) = (1..n) \cup {n + 1} OBVIOUS
    <3> QED BY <3>1 DEF FirstTrades
  <2>2. rest \in SUBSET FirstTrades(n) BY <2>1
  <2>3. IsFiniteSet(rest) /\ Lots(rest) \in 0..n BY <1>2, <2>2
  <2>4. \A x \in rest \cup {r} : x.lots \in Nat
    <3>1. \A x \in FirstTrades(n) : x.lots = 1 BY DEF FirstTrades
    <3> QED BY <2>2, <3>1
  <2>5. r.lots = 1 /\ r \notin rest OBVIOUS
  <2> HIDE DEF r
  <2>6. CASE r \in s
    <3>1. s = rest \cup {r} BY <2>6
    <3> HIDE DEF rest
    <3>2. IsFiniteSet(rest \cup {r}) BY <2>3, FS_AddElement
    <3>3. Lots(rest \cup {r}) = Lots(rest) + 1 BY <2>3, <2>4, <2>5, LotsOfOneMore
    <3>4. Lots(s) = Lots(rest) + 1 /\ IsFiniteSet(s) BY <3>1, <3>2, <3>3
    <3> QED BY <2>3, <3>4
  <2>7. CASE r \notin s
    <3>1. s = rest BY <2>7
    <3>2. IsFiniteSet(s) /\ Lots(s) \in 0..n BY <2>3, <3>1
    <3> QED BY <3>2
  <2> QED BY <2>6, <2>7
<1> HIDE DEF A
<1>3. m \in A BY <1>1, <1>2, Always
<1> QED BY <1>3 DEF A

LEMMA TradesAreReal ==
  ASSUME TypeOK, NEW m \in Moments, NEW trades \in Trades(m)
  PROVE  Lots(trades) \in 0..traded /\ \A x \in trades : x.at \in 0..m
<1>1. traded \in Nat /\ m \in Nat BY EngineAssumption DEF TypeOK, Moments
<1>2. Min({m, traded}) = IF m <= traded THEN m ELSE traded BY <1>1, MinOfTwo
<1> DEFINE k == Min({m, traded})
<1>3. TradesBy(m) = FirstTrades(k) BY DEF TradesBy, FirstTrades
<1> HIDE DEF k
<1>4. k \in 0..traded /\ k \in 0..m BY <1>1, <1>2 DEF k
<1>5. trades \subseteq FirstTrades(k) BY <1>3 DEF Trades
<1>6. Lots(trades) \in 0..k BY <1>4, <1>5, LotsOfTrades
<1>7. \A x \in trades : x.at \in 1..k BY <1>5 DEF FirstTrades
<1>8. Lots(trades) \in 0..traded BY <1>1, <1>4, <1>6
<1>9. \A x \in trades : x.at \in 0..m BY <1>1, <1>4, <1>7
<1> QED BY <1>8, <1>9

-----------------------------------------------------------------------------
(* The inductive invariant of the order.                                   *)

\* Nothing happens before the first submit.
BeforeSubmit ==
  ~submitted =>
    /\ order.status = "SUBMITTING" /\ order.filled = 0 /\ traded = 0 /\ ended = FALSE
    /\ cache = Nothing /\ ledger = {}
    /\ \A t \in Threads : jobs[t].call \in {"none", "submit"} /\ jobs[t].at \in {"start", "core"}

\* No report or question is ahead of the venue.  The order may be stamped ahead of it.
Timely ==
  /\ ended => traded < Qty
  /\ order.status \notin {"PREPARED", "REJECTED"}
  /\ cache <= Moment
  /\ \A t \in Threads : jobs[t].report <= Moment /\ jobs[t].since <= Moment

\* An event brings its own report and asks for none.
EventsAskNothing == \A t \in Threads : jobs[t].call = "event" => jobs[t].at \notin Asking

OrderInv == TypeOK /\ BeforeSubmit /\ Timely /\ EventsAskNothing /\ OrderIsTrue

LEMMA OrderFacts ==
  ASSUME OrderInv
  PROVE  /\ order \in Orders /\ IsTrue(order, traded, ended)
         /\ traded \in 0..Qty /\ ended \in BOOLEAN /\ Moment \in Moments
         /\ traded \in Nat /\ Moment \in Nat /\ Moment <= Qty /\ traded <= Moment
         /\ order.filled \in Nat /\ order.at \in Nat
<1>1. TypeOK /\ Timely /\ OrderIsTrue /\ Qty \in Nat BY EngineAssumption DEF OrderInv
<1>2. /\ order \in Orders /\ traded \in 0..Qty /\ ended \in BOOLEAN
      /\ order.status \in Statuses /\ order.filled \in 0..Qty /\ order.at \in Stamps
  BY <1>1 DEF TypeOK, Orders
<1>3. IsTrue(order, traded, ended) BY <1>1, <1>2 DEF OrderIsTrue, IsTrue
<1>4. /\ Moment \in Moments /\ traded \in Nat /\ Moment \in Nat
      /\ Moment <= Qty /\ traded <= Moment
  BY <1>1, <1>2 DEF Timely, Moment, Moments
<1>5. order.filled \in Nat BY <1>1, <1>2
<1>6. order.at \in Nat BY <1>2, StampsAreNatural
<1> QED BY <1>2, <1>3, <1>4, <1>5, <1>6

-----------------------------------------------------------------------------
(* What a step of a call in the core or the resolver does.                 *)

VenueOnward ==
  /\ traded' \in 0..Qty /\ ended' \in BOOLEAN /\ (ended' => traded' < Qty)
  /\ Moment <= Moment' /\ (submitted => traded' = traded)

OrderOnward ==
  /\ order' \in Orders /\ IsTrue(order', traded', ended')
  /\ order'.status \notin {"PREPARED", "REJECTED"}
  /\ order.filled <= order'.filled
  /\ version' = version + 1 \/ (version' = version /\ order' = order)

\* The call is over, asks, or goes on to record.
Raised(t) == jobs' = [jobs EXCEPT ![t] = Idle] /\ order' = order

Asks(t) ==
  /\ jobs[t].call # "event"
  /\ \E phase \in Asking :
       /\ jobs' = [jobs EXCEPT ![t] = [jobs[t] EXCEPT !.at = phase, !.since = Moment]]
       /\ order'.filled = order.filled

Stored(t) ==
  /\ jobs' = [jobs EXCEPT ![t] = [jobs[t] EXCEPT !.at = "record", !.since = 0,
                                   !.after = order'.filled, !.version = version']]
  /\ jobs[t].call = "event" =>
       /\ jobs[t].report <= traded' => jobs[t].report <= order'.filled
       /\ order'.filled # order.filled => order.filled < jobs[t].report

CoreEffect(t) ==
  /\ jobs[t].at \in {"core"} \cup Asking
  /\ UNCHANGED <<cache, ledger, history, failures>>
  /\ submitted' = TRUE /\ doubts' \in 0..MaxDoubts
  /\ VenueOnward /\ OrderOnward
  /\ Raised(t) \/ Asks(t) \/ Stored(t)

\* The order may stay as it is, be in doubt, or take in an honest report.
LEMMA KeptOnward ==
  ASSUME OrderInv, submitted, UNCHANGED <<venueVars, orderVars>>
  PROVE  VenueOnward /\ OrderOnward
<1>1. VenueOnward BY OrderFacts DEF VenueOnward, venueVars, Moment, OrderInv, Timely
<1>2. Moment' = Moment BY DEF Moment, venueVars
<1>3. OrderOnward
  BY <1>2, OrderFacts DEF OrderOnward, venueVars, orderVars, OrderInv, Timely
<1> QED BY <1>1, <1>3

LEMMA DoubtOnward ==
  ASSUME OrderInv, NEW now \in Readings, IsTrue(order, traded', ended'),
         order' = Moved(order, "UNKNOWN", now),
         version' = IF order' = order THEN version ELSE version + 1
  PROVE  OrderOnward /\ order'.filled = order.filled
<1>1. order' = [status |-> "UNKNOWN", filled |-> order.filled, approved |-> order.approved,
                at |-> now, xid |-> order.xid \/ FALSE]
  BY DEF Moved, Advance
<1>2. order' \in Orders BY <1>1, OrderFacts, StampsAreNatural DEF Orders, Statuses
<1>3. order'.status = "UNKNOWN" /\ order'.filled = order.filled BY <1>1
<1>4. IsTrue(order', traded', ended') BY <1>3 DEF IsTrue, TerminalStates
<1> QED BY <1>2, <1>3, <1>4, OrderFacts DEF OrderOnward

\* The local step into UNKNOWN is taken and the resolver asked, or it raises.
LEMMA UnsettleOnward ==
  ASSUME OrderInv, NEW t \in Threads, jobs[t].call # "event", IsTrue(order, traded', ended'),
         NEW phase \in Asking, Unsettle(t, phase)
  PROVE  OrderOnward /\ (Raised(t) \/ Asks(t))
<1>1. PICK now \in Readings : IF CanMove(order, "UNKNOWN", now)
                               THEN Ask(t, Moved(order, "UNKNOWN", now), phase) ELSE Raise(t)
  BY DEF Unsettle
<1>2. CASE Ask(t, Moved(order, "UNKNOWN", now), phase)
  <2>1. /\ order' = Moved(order, "UNKNOWN", now)
        /\ version' = IF order' = order THEN version ELSE version + 1
    BY <1>2 DEF Ask
  <2>2. OrderOnward /\ order'.filled = order.filled BY <2>1, DoubtOnward
  <2> QED BY <1>2, <2>2 DEF Asks, Ask, Set
<1>3. CASE Raise(t)
  <2>1. order' = order /\ version' = version BY <1>3 DEF Raise, orderVars
  <2>2. OrderOnward BY <2>1, OrderFacts DEF OrderOnward, OrderInv, Timely
  <2> QED BY <1>3, <2>1, <2>2 DEF Raise, Raised, Set
<1> QED BY <1>1, <1>2, <1>3

LEMMA AppliedOnward ==
  ASSUME OrderInv, VenueOnward,
         NEW s, Honest(s, traded', ended'), IsTrue(order, traded', ended'),
         order' = Applied(order, s),
         version' = IF order' = order THEN version ELSE version + 1
  PROVE  OrderOnward
<1>1. order \in Orders /\ order.status \notin {"PREPARED", "REJECTED"}
  BY OrderFacts DEF OrderInv, Timely
<1>2. traded' \in 0..Qty /\ ended' \in BOOLEAN BY DEF VenueOnward
<1> DEFINE new == Applied(order, s)
<1>3. /\ new \in Orders /\ IsTrue(new, traded', ended')
      /\ new.status \notin {"PREPARED", "REJECTED"} /\ order.filled <= new.filled
  BY <1>1, <1>2, AppliedIsTrue
<1> HIDE DEF new
<1>4. order' = new BY DEF new
<1> QED BY <1>3, <1>4 DEF OrderOnward

-----------------------------------------------------------------------------
(* Each step in the core or the resolver has that effect.                  *)

\* Calls other than submit are made of a submitted order.
LEMMA CallsFollowSubmit ==
  ASSUME OrderInv, NEW t \in Threads,
         jobs[t].call \notin {"none", "submit"} \/ jobs[t].at \in Asking
  PROVE  submitted
BY DEF OrderInv, BeforeSubmit, Asking

LEMMA KeepEffect ==
  ASSUME OrderInv, submitted, NEW t \in Threads, jobs[t].call # "event",
         UNCHANGED venueVars, Keep(t) \/ Raise(t) \/ \E phase \in Asking : Ask(t, order, phase)
  PROVE  VenueOnward /\ OrderOnward /\ (Raised(t) \/ Asks(t) \/ Stored(t))
<1>1. UNCHANGED orderVars BY DEF Keep, Raise, Store, Ask, orderVars
<1>2. VenueOnward /\ OrderOnward BY <1>1, KeptOnward
<1>3. order' = order BY <1>1 DEF orderVars
<1>4. Keep(t) => Stored(t) BY <1>3 DEF Keep, Store, Set, Stored
<1>5. Raise(t) => Raised(t) BY <1>3 DEF Raise, Set, Raised
<1>6. (\E phase \in Asking : Ask(t, order, phase)) => Asks(t) BY <1>3 DEF Ask, Set, Asks
<1> QED BY <1>2, <1>4, <1>5, <1>6

LEMMA CoreSubmitEffect ==
  ASSUME OrderInv, NEW t \in Threads, CoreSubmit(t) PROVE CoreEffect(t)
<1>1. /\ jobs[t].call = "submit" /\ jobs[t].at = "core" /\ ~submitted /\ submitted' = TRUE
      /\ UNCHANGED <<cache, ledger, history, failures>> /\ ended' = ended
  BY DEF CoreSubmit, CoreStep
<1>2. order.status = "SUBMITTING" /\ order.filled = 0 /\ traded = 0 /\ ended = FALSE
  BY <1>1 DEF OrderInv, BeforeSubmit
<1>3. Moment = 0 BY <1>2 DEF Moment
<1>4. CASE \E n \in 0..Qty :
             traded' = n /\ Store(t, Applied(order, Cumulative(n))) /\ UNCHANGED doubts
  <2>1. PICK n \in 0..Qty :
          traded' = n /\ Store(t, Applied(order, Cumulative(n))) /\ UNCHANGED doubts
    BY <1>4
  <2>2. Moment' = n BY <1>1, <1>2, <2>1 DEF Moment
  <2>3. VenueOnward /\ Moment' \in Moments
    <3>1. n \in Nat /\ n <= Qty BY EngineAssumption
    <3>2. ended' = FALSE /\ traded' = n BY <1>1, <1>2, <2>1
    <3>3. traded' \in 0..Qty /\ Moment <= Moment' BY <1>3, <2>2, <3>1, <3>2
    <3>5. ended' \in BOOLEAN /\ ~ended' BY <3>2
    <3>6. VenueOnward BY <1>1, <3>3, <3>5 DEF VenueOnward
    <3>4. Moment' \in Moments BY <2>2 DEF Moments
    <3> QED BY <3>4, <3>6
  <2>4. Honest(Cumulative(n), traded', ended') /\ Cumulative(n).at = n
    <3>1. n \in n..Qty BY EngineAssumption
    <3>2. ended' = FALSE /\ traded' = n BY <1>1, <1>2, <2>1
    <3>3. Honest(Cumulative(n), n, FALSE) /\ Cumulative(n).at = n BY <3>1, CumulativeIsHonest
    <3> QED BY <3>2, <3>3
  <2>5. IsTrue(order, traded', ended')
    BY <1>2, <2>1 DEF IsTrue, TerminalStates
  <2>6. order' = Applied(order, Cumulative(n)) BY <2>1 DEF Store
  <2>7. version' = IF order' = order THEN version ELSE version + 1 BY <2>1, <2>6 DEF Store
  <2>8. OrderOnward BY <2>3, <2>4, <2>5, <2>6, <2>7, AppliedOnward
  <2>9. Stored(t) BY <1>1, <2>1, <2>6 DEF Stored, Store, Set
  <2>10. doubts' \in 0..MaxDoubts BY <2>1 DEF OrderInv, TypeOK
  <2> QED BY <1>1, <2>3, <2>8, <2>9, <2>10 DEF CoreEffect
<1>5. CASE Doubt(t, "asking") /\ UNCHANGED traded
  <2>1. Unsettle(t, "asking") /\ traded' = traded /\ doubts < MaxDoubts /\ doubts' = doubts + 1
    BY <1>5 DEF Doubt
  <2>2. VenueOnward
    <3>1. ended' = FALSE /\ traded' = 0 BY <1>1, <1>2, <2>1
    <3>2. Moment' = 0 BY <3>1 DEF Moment
    <3>3. traded' \in 0..Qty /\ Moment <= Moment' BY <1>3, <3>1, <3>2, EngineAssumption
    <3>4. ended' \in BOOLEAN /\ ~ended' BY <3>1
    <3> QED BY <1>1, <3>3, <3>4 DEF VenueOnward
  <2>3. IsTrue(order, traded', ended') BY <1>1, <2>1, OrderFacts
  <2>4. OrderOnward /\ (Raised(t) \/ Asks(t))
    BY <1>1, <2>1, <2>3, UnsettleOnward DEF Asking
  <2>5. doubts' \in 0..MaxDoubts BY <2>1, EngineAssumption DEF OrderInv, TypeOK
  <2> QED BY <1>1, <2>2, <2>4, <2>5 DEF CoreEffect
<1> QED BY <1>4, <1>5 DEF CoreSubmit

LEMMA CoreRepeatEffect ==
  ASSUME OrderInv, NEW t \in Threads, CoreRepeat(t) \/ CoreResolve(t) PROVE CoreEffect(t)
<1>1. /\ jobs[t].call \in {"submit", "resolve"} /\ jobs[t].at = "core"
      /\ submitted' = submitted /\ UNCHANGED venueVars /\ doubts' = doubts
      /\ UNCHANGED <<cache, ledger, history, failures>>
  BY DEF CoreRepeat, CoreResolve, CoreStep
<1>2. submitted BY <1>1, CallsFollowSubmit DEF CoreRepeat, CoreResolve, CoreStep
<1>3. \/ Keep(t) \/ Raise(t) \/ \E phase \in Asking : Ask(t, order, phase)
      \/ Unsettle(t, "asking")
  BY DEF CoreRepeat, CoreResolve, Asking
<1>4. VenueOnward /\ OrderOnward /\ (Raised(t) \/ Asks(t) \/ Stored(t))
  <2>1. CASE Keep(t) \/ Raise(t) \/ \E phase \in Asking : Ask(t, order, phase)
    BY <1>1, <1>2, <2>1, KeepEffect
  <2>2. CASE Unsettle(t, "asking")
    <3>1. traded' = traded /\ ended' = ended BY <1>1 DEF venueVars
    <3>2. VenueOnward BY <3>1, OrderFacts DEF VenueOnward, Moment, OrderInv, Timely
    <3>3. IsTrue(order, traded', ended') BY <3>1, OrderFacts
    <3> QED BY <1>1, <2>2, <3>2, <3>3, UnsettleOnward DEF Asking
  <2> QED BY <1>3, <2>1, <2>2
<1>5. submitted' = TRUE BY <1>1, <1>2 DEF OrderInv, TypeOK
<1>6. doubts' \in 0..MaxDoubts BY <1>1 DEF OrderInv, TypeOK
<1> QED BY <1>1, <1>4, <1>5, <1>6 DEF CoreEffect

\* An event takes in the report it has brought.
LEMMA CoreEventEffect ==
  ASSUME OrderInv, NEW t \in Threads, CoreEvent(t) PROVE CoreEffect(t)
<1> DEFINE m == jobs[t].report  report == ReportOf(m)
<1>1. /\ jobs[t].call = "event" /\ jobs[t].at = "core"
      /\ submitted' = submitted /\ traded' = traded /\ ended' = ended /\ doubts' = doubts
      /\ UNCHANGED <<cache, ledger, history, failures>>
      /\ IF Refused(order, report) THEN Raise(t) ELSE Store(t, Applied(order, report))
  BY DEF CoreEvent, CoreStep, venueVars
<1>2. submitted BY <1>1, CallsFollowSubmit
<1>3. submitted' = TRUE BY <1>1, <1>2 DEF OrderInv, TypeOK
<1>4. doubts' \in 0..MaxDoubts BY <1>1 DEF OrderInv, TypeOK
<1>5. CASE Refused(order, report)
  <2>1. Raise(t) BY <1>1, <1>5
  <2>2. UNCHANGED <<venueVars, orderVars>> BY <1>1, <2>1 DEF Raise, venueVars
  <2>3. VenueOnward /\ OrderOnward BY <1>2, <2>2, KeptOnward
  <2>4. Raised(t) BY <2>1 DEF Raise, Raised, Set, orderVars
  <2> QED BY <1>1, <1>3, <1>4, <2>3, <2>4 DEF CoreEffect
<1>6. CASE ~Refused(order, report)
  <2>1. Store(t, Applied(order, report)) BY <1>1, <1>6
  <2>2. VenueOnward /\ Moment' = Moment /\ Moment' \in Moments
    BY <1>1, OrderFacts DEF VenueOnward, Moment, OrderInv, Timely
  <2>3. m \in 0..Moment
    <3>1. m \in Moments /\ m <= Moment BY DEF OrderInv, TypeOK, Timely
    <3> HIDE DEF m
    <3> QED BY <3>1, OrderFacts DEF Moments
  <2>4. Honest(report, traded, ended) /\ report.at = m
    <3>1. TypeOK /\ (ended => traded < Qty) BY DEF OrderInv, Timely
    <3> HIDE DEF m
    <3> QED BY <2>3, <3>1, ReportIsHonest
  <2>5. /\ report.filled <= Applied(order, report).filled
        /\ order.filled <= Applied(order, report).filled
        /\ Applied(order, report).filled \in {order.filled, report.filled}
    <3>1. order.status \notin {"PREPARED", "REJECTED"} BY DEF OrderInv, Timely
    <3> HIDE DEF report
    <3> QED BY <1>6, <2>4, <3>1, OrderFacts, AppliedIsTrue
  <2>6. order' = Applied(order, report)
        /\ version' = IF order' = order THEN version ELSE version + 1
    BY <2>1 DEF Store
  <2>7. OrderOnward
    <3>1. Honest(report, traded', ended') /\ IsTrue(order, traded', ended')
      BY <1>1, <2>4, OrderFacts
    <3> HIDE DEF report
    <3> QED BY <2>2, <2>6, <3>1, AppliedOnward
  <2>8. m <= traded => m <= order'.filled
    <3>1. m <= traded => report.filled = m
      BY <2>3, OrderFacts, EngineAssumption DEF ReportOf, Cumulative
    <3> HIDE DEF report
    <3> QED BY <2>5, <2>6, <3>1
  <2>9. order'.filled # order.filled => order.filled < m
    <3>1. report.filled \in Nat /\ report.filled <= m
      BY <2>3, OrderFacts, EngineAssumption DEF ReportOf, Cumulative
    <3> HIDE DEF report, m
    <3> QED BY <2>3, <2>5, <2>6, <3>1, OrderFacts
  <2>10. Stored(t)
    <3>1. jobs' = [jobs EXCEPT ![t] = [jobs[t] EXCEPT !.at = "record", !.since = 0,
                                       !.after = order'.filled, !.version = version']]
      BY <2>1, <2>6 DEF Store, Set
    <3> QED BY <1>1, <2>8, <2>9, <3>1 DEF Stored
  <2> QED BY <1>1, <1>3, <1>4, <2>2, <2>7, <2>10 DEF CoreEffect
<1> QED BY <1>5, <1>6

\* Another call stores what an honest report has made of the order.
LEMMA MergeEffect ==
  ASSUME OrderInv, NEW t \in Threads, jobs[t].call # "event",
         VenueOnward, IsTrue(order, traded', ended'),
         NEW s, Honest(s, traded', ended'), Store(t, Applied(order, s))
  PROVE  OrderOnward /\ Stored(t)
<1>1. order' = Applied(order, s) /\ version' = IF order' = order THEN version ELSE version + 1
  BY DEF Store
<1>2. OrderOnward BY <1>1, AppliedOnward
<1>3. Stored(t) BY <1>1 DEF Stored, Store, Set
<1> QED BY <1>2, <1>3

LEMMA CoreRefreshEffect ==
  ASSUME OrderInv, NEW t \in Threads, CoreRefresh(t) PROVE CoreEffect(t)
<1> DEFINE report == ReportOf(Moment)
<1>1. /\ jobs[t].call = "refresh" /\ jobs[t].at = "core"
      /\ submitted' = submitted /\ traded' = traded /\ ended' = ended /\ doubts' = doubts
      /\ UNCHANGED <<cache, ledger, history, failures>>
  BY DEF CoreRefresh, CoreStep, venueVars
<1>2. submitted /\ submitted' = TRUE /\ doubts' \in 0..MaxDoubts
  BY <1>1, CallsFollowSubmit DEF OrderInv, TypeOK
<1>3. VenueOnward /\ Moment' = Moment /\ Moment' \in Moments
  BY <1>1, OrderFacts DEF VenueOnward, Moment, OrderInv, Timely
<1>4. CASE Keep(t) \/ Ask(t, order, "asking")
  <2>1. Keep(t) \/ \E phase \in Asking : Ask(t, order, phase) BY <1>4 DEF Asking
  <2>2. UNCHANGED venueVars BY <1>1 DEF venueVars
  <2>3. OrderOnward /\ (Raised(t) \/ Asks(t) \/ Stored(t))
    BY <1>1, <1>2, <2>1, <2>2, KeepEffect
  <2> QED BY <1>1, <1>2, <1>3, <2>3 DEF CoreEffect
<1>5. CASE Store(t, Applied(order, report))
  <2>1. Honest(report, traded, ended) /\ report.at = Moment
    <3>1. TypeOK /\ (ended => traded < Qty) BY DEF OrderInv, Timely
    <3>2. Moment \in 0..Moment BY OrderFacts
    <3> QED BY <3>1, <3>2, ReportIsHonest
  <2>2. Honest(report, traded', ended') /\ IsTrue(order, traded', ended')
    BY <1>1, <2>1, OrderFacts
  <2> HIDE DEF report
  <2>4. OrderOnward /\ Stored(t) BY <1>1, <1>3, <1>5, <2>2, MergeEffect
  <2> QED BY <1>1, <1>2, <1>3, <2>4 DEF CoreEffect
<1> QED BY <1>4, <1>5 DEF CoreRefresh

LEMMA CoreCancelEffect ==
  ASSUME OrderInv, NEW t \in Threads, CoreCancel(t) PROVE CoreEffect(t)
<1>1. /\ jobs[t].call = "cancel" /\ jobs[t].at = "core"
      /\ submitted' = submitted /\ traded' = traded
      /\ UNCHANGED <<cache, ledger, history, failures>>
  BY DEF CoreCancel, CoreStep
<1>2. submitted /\ submitted' = TRUE BY <1>1, CallsFollowSubmit DEF OrderInv, TypeOK
<1>3. CASE (Keep(t) \/ Raise(t)) /\ UNCHANGED <<ended, doubts>>
  <2>1. UNCHANGED venueVars BY <1>1, <1>3 DEF venueVars
  <2>2. VenueOnward /\ OrderOnward /\ (Raised(t) \/ Asks(t) \/ Stored(t))
    BY <1>1, <1>2, <1>3, <2>1, KeepEffect
  <2>3. doubts' \in 0..MaxDoubts BY <1>3 DEF OrderInv, TypeOK
  <2> QED BY <1>1, <1>2, <2>2, <2>3 DEF CoreEffect
<1>4. CASE /\ order.status \notin TerminalStates /\ traded < Qty /\ ended' = TRUE
           /\ UNCHANGED doubts
           /\ \/ Store(t, Applied(order, ReportOf(traded + 1)))
              \/ Unsettle(t, "asking_again")
  <2> DEFINE report == ReportOf(traded + 1)
  <2>1. traded \in Nat /\ traded + 1 > traded /\ Moment' = traded + 1 /\ Moment <= Moment'
    <3>1. Moment' = traded + 1 BY <1>1, <1>4 DEF Moment
    <3>2. traded \in Nat BY OrderFacts
    <3>3. Moment <= traded + 1 BY <3>2 DEF Moment
    <3> QED BY <3>1, <3>2, <3>3
  <2>2. report = [status |-> "CANCELED", filled |-> traded, at |-> traded + 1, xid |-> TRUE]
    BY <2>1 DEF ReportOf
  <2>3. Moment' \in Moments BY <1>4, <2>1, OrderFacts, EngineAssumption DEF Moments
  <2>4. VenueOnward
    <3>1. ended' \in BOOLEAN BY <1>4
    <3> QED BY <1>1, <1>4, <2>1, <3>1, OrderFacts DEF VenueOnward
  <2>5. Honest(report, traded', ended')
    <3>1. traded + 1 \in Moments /\ traded \in 0..Qty BY <2>1, <2>3, OrderFacts
    <3>3. report \in Facts
      <4> HIDE DEF report
      <4>1. [status |-> "CANCELED", filled |-> traded, at |-> traded + 1, xid |-> TRUE] \in Facts
        BY <3>1 DEF Facts
      <4> QED BY <2>2, <4>1
    <3>2. IsTrue(report, traded', ended') BY <1>1, <1>4, <2>2, OrderFacts DEF IsTrue
    <3> QED BY <2>2, <3>2, <3>3 DEF Honest
  <2>6. IsTrue(order, traded', ended')
    BY <1>1, <1>4, OrderFacts DEF IsTrue
  <2>7. doubts' \in 0..MaxDoubts BY <1>4 DEF OrderInv, TypeOK
  <2> HIDE DEF report
  <2>8. CASE Store(t, Applied(order, report))
    <3>1. OrderOnward /\ Stored(t) BY <1>1, <2>4, <2>5, <2>6, <2>8, MergeEffect
    <3> QED BY <1>1, <1>2, <2>4, <2>7, <3>1 DEF CoreEffect
  <2>9. CASE Unsettle(t, "asking_again")
    <3>1. OrderOnward /\ (Raised(t) \/ Asks(t))
      BY <1>1, <2>6, <2>9, UnsettleOnward DEF Asking
    <3> QED BY <1>1, <1>2, <2>4, <2>7, <3>1 DEF CoreEffect
  <2> QED BY <1>4, <2>8, <2>9 DEF report
<1>5. CASE Doubt(t, "asking") /\ UNCHANGED ended
  <2>1. Unsettle(t, "asking") /\ ended' = ended /\ doubts < MaxDoubts /\ doubts' = doubts + 1
    BY <1>5 DEF Doubt
  <2>2. VenueOnward BY <1>1, <2>1, OrderFacts DEF VenueOnward, Moment, OrderInv, Timely
  <2>3. IsTrue(order, traded', ended') BY <1>1, <2>1, OrderFacts
  <2>4. OrderOnward /\ (Raised(t) \/ Asks(t))
    BY <1>1, <2>1, <2>3, UnsettleOnward DEF Asking
  <2>5. doubts' \in 0..MaxDoubts BY <2>1, EngineAssumption DEF OrderInv, TypeOK
  <2> QED BY <1>1, <1>2, <2>2, <2>4, <2>5 DEF CoreEffect
<1> QED BY <1>3, <1>4, <1>5 DEF CoreCancel

-----------------------------------------------------------------------------
(* What the resolver may be told, and what it makes of it.                 *)

LEMMA AnswersAreHonest ==
  ASSUME OrderInv, NEW t \in Threads, NEW said \in Said(t)
  PROVE  /\ \A s \in said[1] : Honest(s, traded, ended) /\ s.at <= Moment
         /\ Lots(said[2]) \in 0..traded /\ \A x \in said[2] : x.at \in 0..Moment
<1>0. PICK when \in Times(t) : said \in Reports(when[1], when[2]) \X Trades(when[3])
  BY DEF Said
<1> DEFINE reports == said[1]
           trades == said[2]
<1>1. when[1] \in 0..Moment /\ when[2] \in 0..Moment /\ when[3] \in 0..Moment
      /\ when[3] \in Moments
  <2>1. /\ when[1] \in jobs[t].since..Moment /\ when[2] \in jobs[t].since..Moment
        /\ when[3] \in jobs[t].since..Moment
    BY DEF Times
  <2>2. jobs[t].since \in Moments BY DEF OrderInv, TypeOK
  <2> QED BY <2>1, <2>2, EngineAssumption, OrderFacts DEF Moments
<1>2. TypeOK /\ (ended => traded < Qty) BY DEF OrderInv, Timely
<1>3. \A k \in 0..Moment : Honest(ReportOf(k), traded, ended) /\ ReportOf(k).at <= Moment
  <2> SUFFICES ASSUME NEW k \in 0..Moment
               PROVE  Honest(ReportOf(k), traded, ended) /\ ReportOf(k).at <= Moment
    OBVIOUS
  <2>1. Honest(ReportOf(k), traded, ended) /\ ReportOf(k).at = k BY <1>2, ReportIsHonest
  <2> QED BY <2>1, OrderFacts
<1>4. cache # Nothing => cache \in 0..Moment
  BY OrderFacts, EngineAssumption DEF OrderInv, TypeOK, Timely, Moments, Nothing
<1>5. \A s \in reports : Honest(s, traded, ended) /\ s.at <= Moment
  <2> SUFFICES ASSUME NEW s \in reports PROVE \E k \in 0..Moment : s = ReportOf(k)
    BY <1>3
  <2>1. s = ReportOf(when[1]) \/ s = ReportOf(when[2]) \/ (cache # Nothing /\ s = ReportOf(cache))
    BY <1>0 DEF Reports
  <2> QED BY <1>1, <1>4, <2>1
<1>6. Lots(trades) \in 0..traded /\ \A x \in trades : x.at \in 0..when[3]
  <2> DEFINE k == when[3]
  <2>1. k \in Moments /\ trades \in Trades(k) BY <1>0, <1>1
  <2> HIDE DEF k
  <2>2. Lots(trades) \in 0..traded /\ \A x \in trades : x.at \in 0..k
    BY <1>2, <2>1, TradesAreReal
  <2> QED BY <2>2 DEF k
<1>7. \A x \in trades : x.at \in 0..Moment BY <1>1, <1>6, OrderFacts
<1> QED BY <1>5, <1>6, <1>7

\* A merge that leaves the order in doubt has changed nothing.
LEMMA DoubtIsOld ==
  ASSUME NEW o \in Orders, NEW s \in Facts, Applied(o, s).status = "UNKNOWN"
  PROVE  Applied(o, s) = o
<1> SUFFICES ASSUME Applied(o, s) # o PROVE FALSE OBVIOUS
<1>1. Applied(o, s) = Advance(o, Reported(o, s), s.filled, OccurredAt(o, s), s.xid)
  BY DEF Applied
<1>2. Reported(o, s) = "UNKNOWN" BY <1>1 DEF Advance
<1> QED BY <1>2 DEF Reported, Facts

LEMMA ResolveEffect ==
  ASSUME OrderInv, NEW t \in Threads, Resolve(t) PROVE CoreEffect(t)
<1>1. /\ jobs[t].at \in Asking /\ UNCHANGED <<cache, ledger, history, failures>>
      /\ submitted' = submitted /\ traded' = traded /\ ended' = ended /\ doubts' = doubts
  BY DEF Resolve, venueVars
<1>2. submitted /\ submitted' = TRUE /\ doubts' \in 0..MaxDoubts
  BY <1>1, CallsFollowSubmit DEF OrderInv, TypeOK
<1>3. jobs[t].call # "event" BY <1>1 DEF OrderInv, EventsAskNothing
<1>4. VenueOnward /\ Moment' = Moment /\ Moment' \in Moments
  BY <1>1, OrderFacts DEF VenueOnward, Moment, OrderInv, Timely
<1>5. PICK said \in Said(t) : Learn(t, Found(said)) BY DEF Resolve
<1> DEFINE reports == said[1]
           trades == said[2]
           found == Found(said)
           new == {Applied(order, s) : s \in {f \in found : ~Refused(order, f)}}
           next == IF new = {} THEN order ELSE CHOOSE o \in new : TRUE
<1>7. /\ \A s \in reports : Honest(s, traded, ended) /\ s.at <= Moment
      /\ Lots(trades) \in 0..traded /\ \A x \in trades : x.at \in 0..Moment
  BY AnswersAreHonest
<1>8. \A f \in found : Honest(f, traded, ended) /\ f.at <= Moment
  <2> HIDE DEF found, reports, trades
  <2>1. \A f \in Resolved(order, reports, trades) : Honest(f, traded, ended) /\ f.at <= Moment
    BY <1>7, OrderFacts, ResolvedIsHonest
  <2> QED BY <2>1 DEF found, Found, reports, trades
<1>9. next = order \/ \E f \in found : next = Applied(order, f)
  <2> HIDE DEF found
  <2> QED OBVIOUS
<1>10. \/ Ask(t, next, "asking_again") /\ next.status = "UNKNOWN"
       \/ Store(t, next)
  BY <1>5 DEF Learn
<1> HIDE DEF found, new, next
<1>11. order' = next /\ version' = IF order' = order THEN version ELSE version + 1
  BY <1>10 DEF Ask, Store
<1>12. OrderOnward
  <2>1. CASE next = order
    <3>1. UNCHANGED <<venueVars, orderVars>> BY <1>1, <1>11, <2>1 DEF venueVars, orderVars
    <3> QED BY <1>2, <3>1, KeptOnward
  <2>2. ASSUME NEW f \in found, next = Applied(order, f) PROVE OrderOnward
    <3>1. Honest(f, traded, ended) /\ f.at <= Moment BY <1>8
    <3>2. Honest(f, traded', ended') /\ IsTrue(order, traded', ended')
      BY <1>1, <3>1, OrderFacts
    <3>3. order' = Applied(order, f) BY <1>11, <2>2
    <3> QED BY <1>4, <1>11, <3>2, <3>3, AppliedOnward
  <2> QED BY <1>9, <2>1, <2>2
<1>13. Ask(t, next, "asking_again") /\ next.status = "UNKNOWN" => Asks(t)
  <2> SUFFICES ASSUME Ask(t, next, "asking_again"), next.status = "UNKNOWN" PROVE Asks(t)
    OBVIOUS
  <2>1. next = order
    <3> SUFFICES ASSUME NEW f \in found, next = Applied(order, f) PROVE next = order
      BY <1>9
    <3>1. f \in Facts BY <1>8 DEF Honest
    <3> QED BY <3>1, OrderFacts, DoubtIsOld
  <2> QED BY <1>3, <1>11, <2>1 DEF Asks, Ask, Set, Asking
<1>14. Store(t, next) => Stored(t) BY <1>3, <1>11 DEF Stored, Store, Set
<1> QED BY <1>1, <1>2, <1>4, <1>10, <1>12, <1>13, <1>14 DEF CoreEffect

-----------------------------------------------------------------------------
(* What the other steps do.                                                *)

Jobs == [call : Calls, at : {"start", "core", "record"} \cup Asking, report : Moments,
         since : Moments, before : 0..Qty, after : 0..Qty, version : Nat]

LEMMA IdleIsJob == Idle \in Jobs /\ Idle.report = 0 /\ Idle.since = 0
                   /\ Idle.call = "none" /\ Idle.at = "start"
BY EngineAssumption DEF Idle, Jobs, Calls, Moments

Begins(t) ==
  /\ jobs[t] = Idle
  /\ overlapped' = (overlapped \/ \E u \in Threads : jobs[u] # Idle)
  /\ UNCHANGED <<orderVars, venueVars, ledger, submitted, failures, doubts>>
  /\ repeated' \in BOOLEAN /\ (repeated => repeated')
  /\ cache' \in Moments \cup {Nothing} /\ cache' <= Moment /\ (~submitted => cache' = cache)
  /\ \E j \in Jobs :
       /\ jobs' = [jobs EXCEPT ![t] = j]
       /\ j.call # "none" /\ j.at = "core" /\ j.report <= Moment /\ j.since = 0
       /\ submitted \/ j.call = "submit"
       /\ j.before = order.filled \/ (j.before = 0 /\ repeated')

\* The call is over.
Ends(t) ==
  /\ jobs[t].at = "record" /\ jobs' = [jobs EXCEPT ![t] = Idle]
  /\ UNCHANGED <<orderVars, venueVars, cache, submitted, history, doubts>>
  /\ \/ failures' \in 1..MaxFailures /\ ledger' = ledger
     \/ /\ failures' = failures
        /\ IF Overtaken(jobs[t]) THEN ledger' = ledger
           ELSE ledger' = ledger \cup {row \in Derived(jobs[t]) : ~Known(row)}

\* The venue moves on its own.
Moves ==
  /\ submitted /\ ~ended /\ traded < Qty
  /\ \/ traded' = traded + 1 /\ ended' = ended
     \/ traded' = traded /\ ended' = TRUE
  /\ UNCHANGED <<orderVars, cache, jobs, ledger, submitted, history, failures, doubts>>

LEMMA BeginEffect ==
  ASSUME OrderInv, NEW t \in Threads, BeginSubmit(t) \/ BeginEvent(t) \/ BeginQuery(t)
  PROVE  Begins(t)
<1>1. /\ cache \in Moments \cup {Nothing} /\ cache <= Moment
      /\ repeated \in BOOLEAN /\ submitted \in BOOLEAN
  BY DEF OrderInv, TypeOK, Timely
<1>2. ~submitted => order.filled = 0 BY DEF OrderInv, BeforeSubmit
<1>3. CASE BeginSubmit(t)
  <2> DEFINE j == [Idle EXCEPT !.call = "submit", !.at = "core"]
  <2>1. Begin(t, j) /\ repeated' = (repeated \/ submitted) /\ cache' = cache
    BY <1>3 DEF BeginSubmit
  <2>2. j \in Jobs BY IdleIsJob DEF Jobs, Calls
  <2>3. /\ j.call = "submit" /\ j.at = "core" /\ j.report = 0 /\ j.since = 0 /\ j.before = 0
    BY DEF Idle
  <2> HIDE DEF j
  <2>4. /\ jobs[t] = Idle /\ jobs' = [jobs EXCEPT ![t] = j]
        /\ overlapped' = (overlapped \/ \E u \in Threads : jobs[u] # Idle)
        /\ UNCHANGED <<orderVars, venueVars, ledger, submitted, failures, doubts>>
    BY <2>1 DEF Begin, Set
  <2>5. j.before = order.filled \/ (j.before = 0 /\ repeated') BY <1>2, <2>1, <2>3
  <2>6. repeated' \in BOOLEAN /\ (repeated => repeated') BY <1>1, <2>1
  <2>7. j.report <= Moment BY <2>3, OrderFacts
  <2> QED BY <1>1, <2>1, <2>2, <2>3, <2>4, <2>5, <2>6, <2>7 DEF Begins
<1>4. ASSUME NEW call \in Calls \ {"none"}, NEW m \in 0..Moment, BeginUpdate(t, call, m),
             cache' \in Moments \cup {Nothing}, cache' <= Moment
      PROVE  Begins(t)
  <2> DEFINE j == [Idle EXCEPT !.call = call, !.at = "core", !.report = m,
                               !.before = order.filled]
  <2>1. /\ submitted /\ repeated' = repeated /\ jobs[t] = Idle /\ jobs' = [jobs EXCEPT ![t] = j]
        /\ overlapped' = (overlapped \/ \E u \in Threads : jobs[u] # Idle)
        /\ UNCHANGED <<orderVars, venueVars, ledger, submitted, failures, doubts>>
    BY <1>4 DEF BeginUpdate, Begin, Set
  <2>2. m \in Moments /\ m <= Moment /\ order.filled \in 0..Qty
    BY OrderFacts, EngineAssumption DEF Moments, Orders
  <2>3. j \in Jobs BY <2>2, IdleIsJob DEF Jobs, Calls
  <2>4. j.call = call /\ j.at = "core" /\ j.report = m /\ j.since = 0 /\ j.before = order.filled
    BY DEF Idle
  <2> HIDE DEF j
  <2> QED BY <1>1, <1>4, <2>1, <2>2, <2>3, <2>4 DEF Begins
<1>5. CASE BeginEvent(t)
  <2>1. PICK m \in 0..Moment : BeginUpdate(t, "event", m) /\ cache' = Max({cache, m})
    BY <1>5 DEF BeginEvent
  <2>2. cache \in Int /\ m \in Int BY <1>1, OrderFacts DEF Moments, Nothing
  <2>3. cache' \in {cache, m} BY <2>1, <2>2, MaxOfTwo
  <2>4. m \in Moments /\ m <= Moment BY OrderFacts, EngineAssumption DEF Moments
  <2>5. cache' \in Moments \cup {Nothing} /\ cache' <= Moment BY <1>1, <2>3, <2>4
  <2>6. "event" \in Calls \ {"none"} BY DEF Calls
  <2> QED BY <1>4, <2>1, <2>5, <2>6
<1>6. CASE BeginQuery(t)
  <2>1. PICK call \in {"refresh", "resolve", "cancel"} :
          BeginUpdate(t, call, 0) /\ cache' = cache
    BY <1>6 DEF BeginQuery
  <2>2. call \in Calls \ {"none"} /\ 0 \in 0..Moment BY OrderFacts DEF Calls
  <2> QED BY <1>1, <1>4, <2>1, <2>2
<1> QED BY <1>3, <1>5, <1>6

LEMMA RecordEffect ==
  ASSUME OrderInv, NEW t \in Threads, Record(t) \/ RecordFails(t) PROVE Ends(t)
<1>1. CASE Record(t) BY <1>1 DEF Record, Ends, Set
<1>2. CASE RecordFails(t)
  <2>1. failures' \in 1..MaxFailures
    BY <1>2, EngineAssumption DEF RecordFails, OrderInv, TypeOK
  <2> QED BY <1>2, <2>1 DEF RecordFails, Ends, Set
<1> QED BY <1>1, <1>2

LEMMA MoveEffect ==
  ASSUME VenueTrades \/ VenueCancels PROVE Moves
BY DEF VenueTrades, VenueCancels, Moves, orderVars, history

\* Every step is one of these.
LEMMA Steps ==
  ASSUME OrderInv, [Next]_vars
  PROVE  \/ \E t \in Threads : Begins(t) \/ CoreEffect(t) \/ Ends(t)
         \/ Crash \/ Moves \/ UNCHANGED vars
<1>1. ASSUME NEW t \in Threads,
             \/ BeginSubmit(t) \/ BeginEvent(t) \/ BeginQuery(t)
             \/ CoreSubmit(t) \/ CoreRepeat(t) \/ CoreEvent(t) \/ CoreRefresh(t)
             \/ CoreResolve(t) \/ CoreCancel(t) \/ Resolve(t)
             \/ Record(t) \/ RecordFails(t)
      PROVE  Begins(t) \/ CoreEffect(t) \/ Ends(t)
  BY <1>1, BeginEffect, CoreSubmitEffect, CoreRepeatEffect, CoreEventEffect,
     CoreRefreshEffect, CoreCancelEffect, ResolveEffect, RecordEffect
<1> QED BY <1>1, MoveEffect DEF Next

-----------------------------------------------------------------------------
(* OrderInv is inductive.                                                  *)

\* One call goes on while the venue does not go back.
LEMMA JobsOnward ==
  ASSUME OrderInv, NEW t \in Threads, NEW j \in Jobs, jobs' = [jobs EXCEPT ![t] = j],
         Moment' \in Nat, Moment <= Moment', j.report <= Moment', j.since <= Moment',
         j.call = "event" => j.at \notin Asking
  PROVE  /\ jobs' \in [Threads -> Jobs]
         /\ \A u \in Threads : jobs'[u].report <= Moment' /\ jobs'[u].since <= Moment'
         /\ \A u \in Threads : jobs'[u].call = "event" => jobs'[u].at \notin Asking
<1>1. jobs \in [Threads -> Jobs] BY DEF OrderInv, TypeOK, Jobs
<1>2. \A u \in Threads :
        /\ jobs[u] \in Jobs /\ jobs[u].report <= Moment /\ jobs[u].since <= Moment
        /\ jobs[u].call = "event" => jobs[u].at \notin Asking
  BY <1>1 DEF OrderInv, Timely, EventsAskNothing
<1>3. \A u \in Threads : jobs'[u] = IF u = t THEN j ELSE jobs[u] BY <1>1
<1>4. jobs' \in [Threads -> Jobs] BY <1>1
<1>5. \A u \in Threads : jobs[u].report \in Nat /\ jobs[u].since \in Nat
  BY <1>2, EngineAssumption DEF Jobs, Moments
<1>6. ASSUME NEW u \in Threads
      PROVE  jobs'[u].report <= Moment' /\ jobs'[u].since <= Moment'
  <2>1. CASE u = t BY <1>3, <2>1
  <2>2. CASE u # t BY <1>2, <1>3, <1>5, <2>2, OrderFacts
  <2> QED BY <2>1, <2>2
<1>7. ASSUME NEW u \in Threads
      PROVE  jobs'[u].call = "event" => jobs'[u].at \notin Asking
  BY <1>2, <1>3
<1> QED BY <1>4, <1>6, <1>7

LEMMA StartsTrue == ASSUME Init PROVE OrderInv
<1>1. TypeOK
  <2>1. order \in Orders BY EngineAssumption, StampsAreNatural DEF Init, Orders, Statuses
  <2>2. jobs \in [Threads -> Jobs] BY IdleIsJob DEF Init
  <2>3. 0 \in 0..Qty /\ 0 \in 0..MaxFailures /\ 0 \in 0..MaxDoubts BY EngineAssumption
  <2> QED BY <2>1, <2>2, <2>3 DEF Init, TypeOK, Orders, Jobs
<1>2. \A t \in Threads : jobs[t] = Idle BY DEF Init
<1>3. BeforeSubmit BY <1>2, IdleIsJob DEF Init, BeforeSubmit
<1>4. Moment = 0 BY DEF Init, Moment
<1>5. Timely BY <1>2, <1>4, IdleIsJob DEF Init, Timely, Nothing
<1>6. EventsAskNothing BY <1>2, IdleIsJob DEF EventsAskNothing
<1>7. OrderIsTrue BY DEF Init, OrderIsTrue, TerminalStates
<1> QED BY <1>1, <1>3, <1>5, <1>6, <1>7 DEF OrderInv

LEMMA CoreKeepsOrder ==
  ASSUME OrderInv, NEW t \in Threads, CoreEffect(t) PROVE OrderInv'
<1>1. Moment' \in Nat /\ Moment <= Moment' /\ Moment' \in Moments
  <2>1. traded' \in 0..Qty /\ (ended' => traded' < Qty) /\ Moment <= Moment'
    BY DEF CoreEffect, VenueOnward
  <2>2. Moment' \in Nat /\ Moment' <= Qty
    <3>1. traded' \in Nat /\ traded' <= Qty /\ Qty \in Nat BY <2>1, EngineAssumption
    <3>2. ended' = TRUE \/ ended' = FALSE BY DEF CoreEffect, VenueOnward
    <3>3. CASE ended' = TRUE
      <4>1. traded' < Qty BY <2>1, <3>3
      <4>2. traded' + 1 = Moment' BY <3>3 DEF Moment
      <4> QED BY <3>1, <4>1, <4>2
    <3>4. CASE ended' = FALSE
      <4>1. traded' + 0 = Moment' BY <3>4 DEF Moment
      <4> QED BY <3>1, <4>1
    <3> QED BY <3>2, <3>3, <3>4
  <2> QED BY <2>1, <2>2, EngineAssumption DEF Moments
<1>2. jobs[t] \in Jobs /\ jobs[t].report <= Moment /\ jobs[t].report \in Nat
      /\ jobs[t].since <= Moment
  <2>1. jobs[t] \in Jobs /\ jobs[t].report <= Moment /\ jobs[t].since <= Moment
    BY DEF OrderInv, TypeOK, Jobs, Timely
  <2> QED BY <2>1, EngineAssumption DEF Jobs, Moments
<1>3. order' \in Orders /\ order'.filled \in 0..Qty /\ version' \in Nat
  BY DEF CoreEffect, OrderOnward, OrderInv, TypeOK, Orders
<1>4. PICK j \in Jobs :
        /\ jobs' = [jobs EXCEPT ![t] = j] /\ j.report <= Moment' /\ j.since <= Moment'
        /\ j.call = "event" => j.at \notin Asking
  <2>1. CASE Raised(t)
    <3>1. jobs' = [jobs EXCEPT ![t] = Idle] BY <2>1 DEF Raised
    <3>2. Idle.report <= Moment' /\ Idle.since <= Moment' BY <1>1, IdleIsJob
    <3>3. Idle \in Jobs /\ Idle.call # "event" BY IdleIsJob
    <3> QED BY <3>1, <3>2, <3>3
  <2>2. CASE Asks(t)
    <3>1. PICK phase \in Asking :
            jobs' = [jobs EXCEPT ![t] = [jobs[t] EXCEPT !.at = phase, !.since = Moment]]
      BY <2>2 DEF Asks
    <3> DEFINE j == [jobs[t] EXCEPT !.at = phase, !.since = Moment]
    <3>2. j \in Jobs BY <1>2, OrderFacts DEF Jobs
    <3>3. j.report = jobs[t].report /\ j.since = Moment /\ j.call = jobs[t].call
      BY <1>2 DEF Jobs
    <3>4. jobs[t].call # "event" BY <2>2 DEF Asks
    <3>5. jobs' = [jobs EXCEPT ![t] = j] BY <3>1
    <3> HIDE DEF j
    <3>6. j.report <= Moment' /\ j.since <= Moment' BY <1>1, <1>2, <3>3, OrderFacts
    <3> QED BY <3>2, <3>3, <3>4, <3>5, <3>6
  <2>3. CASE Stored(t)
    <3> DEFINE j == [jobs[t] EXCEPT !.at = "record", !.since = 0, !.after = order'.filled,
                                    !.version = version']
    <3>5. 0 \in Moments BY EngineAssumption DEF Moments
    <3>1. j \in Jobs BY <1>2, <1>3, <3>5 DEF Jobs
    <3>2. j.report = jobs[t].report /\ j.since = 0 /\ j.at = "record" BY <1>2 DEF Jobs
    <3>3. jobs' = [jobs EXCEPT ![t] = j] BY <2>3 DEF Stored
    <3> HIDE DEF j
    <3>4. j.report <= Moment' /\ j.since <= Moment' BY <1>1, <1>2, <3>2, OrderFacts
    <3> QED BY <3>1, <3>2, <3>3, <3>4 DEF Asking
  <2> QED BY <2>1, <2>2, <2>3 DEF CoreEffect
<1>5. /\ jobs' \in [Threads -> Jobs]
      /\ \A u \in Threads : jobs'[u].report <= Moment' /\ jobs'[u].since <= Moment'
      /\ \A u \in Threads : jobs'[u].call = "event" => jobs'[u].at \notin Asking
  BY <1>1, <1>4, JobsOnward
<1>6. UNCHANGED <<cache, ledger, history, failures>> /\ submitted' = TRUE
      /\ doubts' \in 0..MaxDoubts
  BY DEF CoreEffect
<1>7. TypeOK'
  <2>1. traded' \in 0..Qty /\ ended' \in BOOLEAN BY DEF CoreEffect, VenueOnward
  <2>2. /\ cache' \in Moments \cup {Nothing}
        /\ \A row \in ledger' : row.id \in FillIds /\ row.lots \in 1..Qty
        /\ repeated' \in BOOLEAN /\ overlapped' \in BOOLEAN /\ failures' \in 0..MaxFailures
    BY <1>6 DEF OrderInv, TypeOK, history
  <2>3. submitted' \in BOOLEAN BY <1>6
  <2> QED BY <1>3, <1>5, <1>6, <2>1, <2>2, <2>3 DEF TypeOK, Orders, Jobs
<1>8. BeforeSubmit' BY <1>6 DEF BeforeSubmit
<1>9. Timely'
  <2>1. ended' => traded' < Qty BY DEF CoreEffect, VenueOnward
  <2>2. order'.status \notin {"PREPARED", "REJECTED"}
    BY DEF CoreEffect, OrderOnward
  <2>3. cache' <= Moment'
    <3>1. cache <= Moment /\ cache \in Moments \cup {Nothing} /\ cache' = cache
      BY <1>6 DEF OrderInv, Timely, TypeOK
    <3> QED BY <1>1, <3>1, OrderFacts, EngineAssumption DEF Moments, Nothing
  <2> QED BY <1>5, <2>1, <2>2, <2>3 DEF Timely
<1>10. EventsAskNothing' BY <1>5 DEF EventsAskNothing
<1>11. OrderIsTrue' BY DEF CoreEffect, OrderOnward, IsTrue, OrderIsTrue
<1> QED BY <1>7, <1>8, <1>9, <1>10, <1>11 DEF OrderInv

LEMMA BeginKeepsOrder ==
  ASSUME OrderInv, NEW t \in Threads, Begins(t) PROVE OrderInv'
<1>1. /\ order' = order /\ version' = version /\ traded' = traded /\ ended' = ended
      /\ ledger' = ledger /\ submitted' = submitted /\ failures' = failures /\ doubts' = doubts
      /\ repeated' \in BOOLEAN /\ overlapped' \in BOOLEAN
      /\ cache' \in Moments \cup {Nothing} /\ cache' <= Moment /\ (~submitted => cache' = cache)
  BY DEF Begins, orderVars, venueVars, OrderInv, TypeOK
<1>2. Moment' = Moment /\ Moment' \in Nat /\ Moment <= Moment'
  BY <1>1, OrderFacts DEF Moment
<1>3. PICK j \in Jobs :
        /\ jobs' = [jobs EXCEPT ![t] = j]
        /\ j.call # "none" /\ j.at = "core" /\ j.report <= Moment /\ j.since = 0
        /\ submitted \/ j.call = "submit"
  BY DEF Begins
<1>4. /\ jobs' \in [Threads -> Jobs]
      /\ \A u \in Threads : jobs'[u].report <= Moment' /\ jobs'[u].since <= Moment'
      /\ \A u \in Threads : jobs'[u].call = "event" => jobs'[u].at \notin Asking
  <2>1. j.report <= Moment' /\ j.since <= Moment' BY <1>2, <1>3, OrderFacts
  <2>2. j.at \notin Asking BY <1>3 DEF Asking
  <2> QED BY <1>2, <1>3, <2>1, <2>2, JobsOnward
<1>5. TypeOK'
  <2>1. order' \in Orders /\ version' \in Nat /\ submitted' \in BOOLEAN
        /\ traded' \in 0..Qty /\ ended' \in BOOLEAN
        /\ failures' \in 0..MaxFailures /\ doubts' \in 0..MaxDoubts
        /\ \A row \in ledger' : row.id \in FillIds /\ row.lots \in 1..Qty
    BY <1>1 DEF OrderInv, TypeOK, Orders
  <2> QED BY <1>1, <1>4, <2>1 DEF TypeOK, Orders, Jobs
<1>6. BeforeSubmit'
  <2> SUFFICES ASSUME ~submitted'
               PROVE  /\ order'.status = "SUBMITTING" /\ order'.filled = 0 /\ traded' = 0 /\ ended' = FALSE
                      /\ cache' = Nothing /\ ledger' = {}
                      /\ \A u \in Threads : /\ jobs'[u].call \in {"none", "submit"}
                                            /\ jobs'[u].at \in {"start", "core"}
    BY DEF BeforeSubmit, Nothing
  <2>1. ~submitted BY <1>1
  <2>2. /\ order.status = "SUBMITTING" /\ order.filled = 0 /\ traded = 0 /\ ended = FALSE /\ cache = Nothing /\ ledger = {}
        /\ \A u \in Threads : /\ jobs[u].call \in {"none", "submit"}
                              /\ jobs[u].at \in {"start", "core"}
    BY <2>1 DEF OrderInv, BeforeSubmit
  <2>3. \A u \in Threads : jobs'[u] = IF u = t THEN j ELSE jobs[u]
    BY <1>3 DEF OrderInv, TypeOK
  <2>4. j.call \in {"none", "submit"} /\ j.at \in {"start", "core"} BY <1>3, <2>1
  <2>5. \A u \in Threads : /\ jobs'[u].call \in {"none", "submit"}
                            /\ jobs'[u].at \in {"start", "core"}
    BY <2>2, <2>3, <2>4
  <2> QED BY <1>1, <2>1, <2>2, <2>5
<1>7. Timely'
  BY <1>1, <1>2, <1>4 DEF Timely, OrderInv
<1>8. EventsAskNothing' BY <1>4 DEF EventsAskNothing
<1>9. OrderIsTrue' BY <1>1 DEF OrderInv, OrderIsTrue
<1> QED BY <1>5, <1>6, <1>7, <1>8, <1>9 DEF OrderInv

\* The row of a result is well formed.
LEMMA DerivedIs ==
  ASSUME OrderInv, NEW t \in Threads, NEW row \in Derived(jobs[t])
  PROVE  /\ Derived(jobs[t]) = {row} /\ jobs[t].before < jobs[t].after
         /\ row.lots = jobs[t].after - jobs[t].before /\ row.lots \in 1..Qty
         /\ \/ /\ jobs[t].call = "event" /\ jobs[t].report \in 1..traded
               /\ row.id = <<"trade", jobs[t].report>>
            \/ /\ ~(jobs[t].call = "event" /\ jobs[t].report \in 1..traded)
               /\ row.id = <<"derived", jobs[t].after, jobs[t].version>>
         /\ row.id \in FillIds
<1> DEFINE job == jobs[t]
<1>1. job \in Jobs BY DEF OrderInv, TypeOK, Jobs
<1>2. job.before \in 0..Qty /\ job.after \in 0..Qty /\ job.version \in Nat BY <1>1 DEF Jobs
<1> HIDE DEF job
<1>3. row \in Derived(job) BY DEF job
<1>4. job.before < job.after /\ Derived(job) = {row}
      /\ row = [id |-> IF job.call = "event" /\ job.report \in 1..traded
                         THEN <<"trade", job.report>>
                         ELSE <<"derived", job.after, job.version>>,
                lots |-> job.after - job.before]
  BY <1>2, <1>3 DEF Derived
<1>5. row.lots = job.after - job.before BY <1>4
<1>6. row.lots \in 1..Qty BY <1>2, <1>4, <1>5, EngineAssumption
<1>7. row.id = IF job.call = "event" /\ job.report \in 1..traded
                 THEN <<"trade", job.report>>
                 ELSE <<"derived", job.after, job.version>>
  BY <1>4
<1>8. CASE job.call = "event" /\ job.report \in 1..traded
  <2>1. row.id = <<"trade", job.report>> BY <1>7, <1>8
  <2>2. job.report \in 1..Qty BY <1>8, OrderFacts, EngineAssumption
  <2>3. row.id \in FillIds BY <2>1, <2>2 DEF FillIds
  <2> QED BY <1>4, <1>5, <1>6, <1>8, <2>1, <2>3 DEF job
<1>9. CASE ~(job.call = "event" /\ job.report \in 1..traded)
  <2>1. row.id = <<"derived", job.after, job.version>> BY <1>7, <1>9
  <2>2. row.id \in FillIds BY <1>2, <2>1 DEF FillIds
  <2> QED BY <1>4, <1>5, <1>6, <1>9, <2>1, <2>2 DEF job
<1> QED BY <1>8, <1>9

LEMMA EndKeepsOrder ==
  ASSUME OrderInv, NEW t \in Threads, Ends(t) PROVE OrderInv'
<1>1. /\ order' = order /\ version' = version /\ traded' = traded /\ ended' = ended
      /\ cache' = cache /\ submitted' = submitted /\ doubts' = doubts
      /\ repeated' = repeated /\ overlapped' = overlapped
      /\ jobs[t].at = "record" /\ jobs' = [jobs EXCEPT ![t] = Idle]
  BY DEF Ends, orderVars, venueVars, history
<1>2. submitted BY <1>1 DEF OrderInv, BeforeSubmit
<1>3. Moment' = Moment /\ Moment' \in Nat /\ Moment <= Moment'
  BY <1>1, OrderFacts DEF Moment
<1>4. /\ jobs' \in [Threads -> Jobs]
      /\ \A u \in Threads : jobs'[u].report <= Moment' /\ jobs'[u].since <= Moment'
      /\ \A u \in Threads : jobs'[u].call = "event" => jobs'[u].at \notin Asking
  <2>1. Idle \in Jobs /\ Idle.report <= Moment' /\ Idle.since <= Moment' /\ Idle.call # "event"
    BY <1>3, IdleIsJob
  <2> QED BY <1>1, <1>3, <2>1, JobsOnward
<1>5. \A row \in ledger' : row.id \in FillIds /\ row.lots \in 1..Qty
  <2>1. \A row \in ledger : row.id \in FillIds /\ row.lots \in 1..Qty
    BY DEF OrderInv, TypeOK
  <2>2. \A row \in Derived(jobs[t]) : row.id \in FillIds /\ row.lots \in 1..Qty
    BY DerivedIs
  <2>3. ledger' \subseteq ledger \cup Derived(jobs[t]) BY DEF Ends
  <2> QED BY <2>1, <2>2, <2>3
<1>6. failures' \in 0..MaxFailures BY EngineAssumption DEF Ends, OrderInv, TypeOK
<1>7. TypeOK'
  <2>1. order' \in Orders /\ version' \in Nat /\ submitted' \in BOOLEAN
        /\ traded' \in 0..Qty /\ ended' \in BOOLEAN /\ doubts' \in 0..MaxDoubts
        /\ cache' \in Moments \cup {Nothing} /\ repeated' \in BOOLEAN /\ overlapped' \in BOOLEAN
    BY <1>1 DEF OrderInv, TypeOK, Orders
  <2> QED BY <1>4, <1>5, <1>6, <2>1 DEF TypeOK, Orders, Jobs
<1>8. BeforeSubmit' BY <1>1, <1>2 DEF BeforeSubmit
<1>9. Timely' BY <1>1, <1>3, <1>4 DEF Timely, OrderInv
<1>10. EventsAskNothing' BY <1>4 DEF EventsAskNothing
<1>11. OrderIsTrue' BY <1>1 DEF OrderInv, OrderIsTrue
<1> QED BY <1>7, <1>8, <1>9, <1>10, <1>11 DEF OrderInv

LEMMA CrashKeepsOrder ==
  ASSUME OrderInv, Crash PROVE OrderInv'
<1>1. /\ order' = order /\ version' = version /\ traded' = traded /\ ended' = ended
      /\ cache' = Nothing /\ submitted' = submitted /\ doubts' = doubts /\ ledger' = ledger
      /\ repeated' = repeated /\ overlapped' = overlapped
      /\ jobs' = [t \in Threads |-> Idle]
      /\ failures < MaxFailures /\ failures' = failures + 1
  BY DEF Crash, orderVars, venueVars, history
<1>2. Moment' = Moment /\ Moment' \in Nat BY <1>1, OrderFacts DEF Moment
<1>3. \A t \in Threads : jobs'[t] = Idle BY <1>1
<1>4. jobs' \in [Threads -> Jobs] BY <1>1, IdleIsJob
<1>5. failures' \in 0..MaxFailures BY <1>1, EngineAssumption DEF OrderInv, TypeOK
<1>6. TypeOK'
  <2>1. order' \in Orders /\ version' \in Nat /\ submitted' \in BOOLEAN
        /\ traded' \in 0..Qty /\ ended' \in BOOLEAN /\ doubts' \in 0..MaxDoubts
        /\ repeated' \in BOOLEAN /\ overlapped' \in BOOLEAN
        /\ \A row \in ledger' : row.id \in FillIds /\ row.lots \in 1..Qty
    BY <1>1 DEF OrderInv, TypeOK, Orders
  <2> QED BY <1>1, <1>4, <1>5, <2>1 DEF TypeOK, Orders, Jobs
<1>7. BeforeSubmit'
  <2>1. ~submitted => order.status = "SUBMITTING" /\ order.filled = 0 /\ traded = 0 /\ ended = FALSE /\ ledger = {}
    BY DEF OrderInv, BeforeSubmit
  <2>2. \A t \in Threads : jobs'[t].call = "none" /\ jobs'[t].at = "start"
    BY <1>3, IdleIsJob
  <2> QED BY <1>1, <2>1, <2>2 DEF BeforeSubmit, Nothing
<1>8. Timely'
  <2>1. cache' <= Moment' BY <1>1, <1>2 DEF Nothing
  <2>2. \A t \in Threads : jobs'[t].report <= Moment' /\ jobs'[t].since <= Moment'
    BY <1>2, <1>3, IdleIsJob
  <2> QED BY <1>1, <1>2, <2>1, <2>2 DEF Timely, OrderInv
<1>9. EventsAskNothing' BY <1>3, IdleIsJob DEF EventsAskNothing
<1>10. OrderIsTrue' BY <1>1 DEF OrderInv, OrderIsTrue
<1> QED BY <1>6, <1>7, <1>8, <1>9, <1>10 DEF OrderInv

LEMMA MoveKeepsOrder ==
  ASSUME OrderInv, Moves PROVE OrderInv'
<1>1. /\ order' = order /\ version' = version /\ cache' = cache /\ jobs' = jobs
      /\ submitted' = submitted /\ doubts' = doubts /\ ledger' = ledger /\ failures' = failures
      /\ repeated' = repeated /\ overlapped' = overlapped
      /\ submitted /\ ~ended /\ traded < Qty
      /\ \/ traded' = traded + 1 /\ ended' = ended
         \/ traded' = traded /\ ended' = TRUE
  BY DEF Moves, orderVars, history
<1>2. traded \in 0..Qty /\ traded' \in 0..Qty /\ ended' \in BOOLEAN /\ traded <= traded'
      /\ (ended' => traded' < Qty)
  <2>1. traded \in 0..Qty /\ traded + 1 \in 0..Qty
    BY <1>1, OrderFacts, EngineAssumption
  <2>2. CASE traded' = traded + 1 /\ ended' = ended
    <3>1. ended' \in BOOLEAN /\ ~ended' BY <1>1, <2>2, OrderFacts
    <3>2. traded' \in 0..Qty /\ traded <= traded' BY <2>1, <2>2
    <3> QED BY <2>1, <3>1, <3>2
  <2>3. CASE traded' = traded /\ ended' = TRUE
    <3>1. ended' \in BOOLEAN BY <2>3
    <3>2. traded' \in 0..Qty /\ traded <= traded' /\ traded' < Qty BY <1>1, <2>1, <2>3
    <3> QED BY <2>1, <3>1, <3>2
  <2> QED BY <1>1, <2>2, <2>3
<1>3. Moment = traded BY <1>1, OrderFacts DEF Moment
<1>4. Moment + 1 = Moment'
  <2>1. CASE traded' = traded + 1 /\ ended' = ended
    <3>1. traded' + 0 = Moment' BY <1>1, <2>1 DEF Moment
    <3> QED BY <1>2, <1>3, <2>1, <3>1
  <2>2. CASE traded' = traded /\ ended' = TRUE
    <3>1. traded' + 1 = Moment' BY <1>1, <2>2 DEF Moment
    <3> QED BY <1>3, <2>2, <3>1
  <2> QED BY <1>1, <2>1, <2>2
<1>5. Moment' \in Nat /\ Moment <= Moment' BY <1>4, OrderFacts
<1>6. TypeOK' BY <1>1, <1>2 DEF OrderInv, TypeOK
<1>7. BeforeSubmit' BY <1>1 DEF BeforeSubmit
<1>8. Timely'
  <2>1. cache \in Int
        /\ \A t \in Threads : jobs[t].report \in Nat /\ jobs[t].since \in Nat
    <3>1. jobs \in [Threads -> Jobs] /\ cache \in Moments \cup {Nothing}
      BY DEF OrderInv, TypeOK, Jobs
    <3>2. Moments \subseteq Nat /\ Nothing \in Int BY EngineAssumption DEF Moments, Nothing
    <3>3. \A t \in Threads : jobs[t].report \in Moments /\ jobs[t].since \in Moments
      BY <3>1 DEF Jobs
    <3>4. cache \in Int BY <3>1, <3>2
    <3>5. \A t \in Threads : jobs[t].report \in Nat /\ jobs[t].since \in Nat BY <3>2, <3>3
    <3> QED BY <3>4, <3>5, OrderFacts
  <2>2. cache <= Moment
        /\ \A t \in Threads : jobs[t].report <= Moment /\ jobs[t].since <= Moment
    BY DEF OrderInv, Timely
  <2>3. cache' <= Moment'
        /\ \A t \in Threads : jobs'[t].report <= Moment' /\ jobs'[t].since <= Moment'
    BY <1>1, <1>5, <2>1, <2>2, OrderFacts
  <2> QED BY <1>1, <1>2, <2>3 DEF OrderInv, Timely
<1>9. EventsAskNothing' BY <1>1 DEF OrderInv, EventsAskNothing
<1>10. OrderIsTrue'
  <2>1. order.filled <= traded' BY <1>2, OrderFacts DEF OrderInv, OrderIsTrue
  <2>2. order.status \notin TerminalStates
    BY <1>1, OrderFacts DEF OrderInv, OrderIsTrue
  <2> QED BY <1>1, <2>1, <2>2 DEF OrderIsTrue
<1> QED BY <1>6, <1>7, <1>8, <1>9, <1>10 DEF OrderInv

LEMMA StutterKeepsOrder ==
  ASSUME OrderInv, UNCHANGED vars PROVE OrderInv'
<1>1. Moment' = Moment BY DEF vars, venueVars, Moment
<1>2. TypeOK' BY DEF vars, venueVars, orderVars, history, OrderInv, TypeOK
<1>3. BeforeSubmit' BY DEF vars, venueVars, orderVars, OrderInv, BeforeSubmit
<1>4. Timely' BY <1>1 DEF vars, venueVars, orderVars, OrderInv, Timely
<1>5. EventsAskNothing' BY DEF vars, OrderInv, EventsAskNothing
<1>6. OrderIsTrue' BY DEF vars, venueVars, orderVars, OrderInv, OrderIsTrue
<1> QED BY <1>2, <1>3, <1>4, <1>5, <1>6 DEF OrderInv

THEOREM OrderHolds == Spec => []OrderInv
<1>1. Init => OrderInv BY StartsTrue
<1>2. OrderInv /\ [Next]_vars => OrderInv'
  BY Steps, BeginKeepsOrder, CoreKeepsOrder, EndKeepsOrder, CrashKeepsOrder,
     MoveKeepsOrder, StutterKeepsOrder
<1> QED BY <1>1, <1>2, PTL DEF Spec

\* The state of the engine is well typed.
THEOREM TypeCorrect == Spec => []TypeOK
<1>1. OrderInv => TypeOK BY DEF OrderInv
<1> QED BY <1>1, OrderHolds, PTL

\* HedgeExecutionEngine and ExecutionService never store a fill the venue did not make, nor
\* an end that is not the end there, whatever the resolver has pieced together.
THEOREM StoredIsTrue == Spec => []OrderIsTrue
<1>1. OrderInv => OrderIsTrue BY DEF OrderInv
<1> QED BY <1>1, OrderHolds, PTL

-----------------------------------------------------------------------------
(* The end of the order is not lost in a resolution.                       *)

LEMMA EndIsLearned ==
  ASSUME OrderInv, NEW t \in Threads, NEW said \in Said(t),
         NEW s \in said[1], Audible(s), Learn(t, Found(said))
  PROVE  order'.status \in TerminalStates
<1> DEFINE reports == said[1]
           trades == said[2]
           found == Found(said)
           new == {Applied(order, x) : x \in {f \in found : ~Refused(order, f)}}
           next == IF new = {} THEN order ELSE CHOOSE o \in new : TRUE
<1>1. s.status \in TerminalStates BY DEF Audible
<1>2. /\ \A x \in reports : Honest(x, traded, ended) /\ x.at <= Moment
      /\ Lots(trades) \in 0..traded /\ \A x \in trades : x.at \in 0..Moment
  BY AnswersAreHonest
<1>3. s.at \in Nat BY <1>2, EngineAssumption DEF Honest, Facts, Moments
<1>4. /\ \A f \in found : Honest(f, traded, ended) /\ f.at <= Moment
      /\ \E f : found = {f} /\ f.status \in TerminalStates /\ s.at <= f.at
  <2> HIDE DEF found, reports, trades
  <2>1. /\ \A f \in Resolved(order, reports, trades) :
             Honest(f, traded, ended) /\ f.at <= Moment
        /\ \A x \in reports : x.status \in TerminalStates =>
             \E f : /\ Resolved(order, reports, trades) = {f}
                   /\ f.status \in TerminalStates /\ x.at <= f.at
    BY <1>2, OrderFacts, ResolvedIsHonest
  <2> QED BY <1>1, <2>1 DEF found, Found, reports, trades
<1>5. order' = next BY DEF Learn, Ask, Store
<1> HIDE DEF found
<1>6. PICK f : found = {f} /\ f.status \in TerminalStates /\ s.at <= f.at BY <1>4
<1>7. Honest(f, traded, ended) /\ f \in Facts BY <1>4, <1>6 DEF Honest
<1>8. (next = order /\ Refused(order, f)) \/ next = Applied(order, f)
  <2>1. CASE Refused(order, f)
    <3>1. new = {} BY <1>6, <2>1
    <3> QED BY <2>1, <3>1
  <2>2. CASE ~Refused(order, f)
    <3>1. new = {Applied(order, f)} BY <1>6, <2>2
    <3> QED BY <3>1
  <2> QED BY <2>1, <2>2
<1> HIDE DEF next, new
<1>9. order.status \in {"ACKNOWLEDGED", "PARTIAL", "UNKNOWN"} BY DEF Audible, Open
<1>10. order.status = "UNKNOWN" \/ order.at <= f.at
  <2>1. f.at \in Nat BY <1>7, EngineAssumption DEF Facts, Moments
  <2> QED BY <1>3, <1>6, <2>1, OrderFacts DEF Audible
<1>11. ~Refused(order, f) /\ Applied(order, f).status \in TerminalStates
  BY <1>6, <1>7, <1>9, <1>10, OrderFacts, AppliedEnds
<1> QED BY <1>5, <1>8, <1>11

\* UnknownOrderResolver.resolve and the merge of its answer: once a source has told of the
\* end, neither older reports nor a short list of fills keep an UNKNOWN order open, however
\* late the local clock has stamped it; nor an open order that is not stamped after the end.
THEOREM EndIsKept == Spec => EndIsNotLost
<1> DEFINE EndLearned ==
      \A t \in Threads :
        /\ jobs[t].at \in Asking /\ jobs'[t] # jobs[t]
        /\ order'.status \notin TerminalStates
        => \A said \in Said(t) :
             (\E s \in said[1] : Audible(s)) => ~Learn(t, Found(said))
<1>1. OrderInv => EndLearned BY EndIsLearned
<1>2. EndIsNotLost <=> [][EndLearned]_vars BY DEF EndIsNotLost
<1> HIDE DEF EndLearned
<1>3. OrderInv /\ [Next]_vars => [EndLearned]_vars BY <1>1
<1> QED BY <1>2, <1>3, OrderHolds, PTL DEF Spec

-----------------------------------------------------------------------------
(* The inductive invariant of the ledger, on top of OrderInv.              *)

\* A fill booked under a trade id is in the order, and a digest names a version that has been.
RowsAreOld ==
  /\ IsFiniteSet(ledger)
  /\ \A row \in ledger :
       /\ \A n \in 1..Qty : row.id = <<"trade", n>> => n <= order.filled
       /\ \A a \in 0..Qty, v \in Nat : row.id = <<"derived", a, v>> => v <= version

\* What a call has read, and what it goes on to record, is no more than the order has.
CallsAreOld ==
  \A t \in Threads :
    /\ jobs[t].before <= order.filled
    /\ jobs[t].at = "record" =>
         /\ jobs[t].after <= order.filled /\ jobs[t].version <= version
         /\ jobs[t].call = "event" /\ jobs[t].report <= traded =>
              jobs[t].report <= order.filled

\* Calls that do not overlap.
Alone ==
  ~overlapped => \A t, u \in Threads : jobs[t] # Idle /\ jobs[u] # Idle => t = u

NotAheadOfCalls ==
  ~repeated /\ ~overlapped =>
    Ledgered <= order.filled /\ \A t \in Threads : jobs[t] # Idle => Ledgered <= jobs[t].before

\* The row the call is about to record is new, and no other call has come between.
WillRecord(job) ==
  /\ job.version = version /\ job.after = order.filled /\ job.before < job.after
  /\ \A row \in ledger :
       /\ job.call = "event" => row.id # <<"trade", job.report>>
       /\ row.id # <<"derived", job.after, job.version>>

NothingMissed ==
  failures = 0 /\ ~overlapped =>
    /\ (\A t \in Threads : jobs[t].at # "record") => Ledgered >= order.filled
    /\ \A t \in Threads : jobs[t] # Idle =>
         /\ jobs[t].before <= Ledgered
         /\ jobs[t].at = "record" => Ledgered >= order.filled \/ WillRecord(jobs[t])

LedgerInv == RowsAreOld /\ CallsAreOld /\ Alone /\ NotAheadOfCalls /\ NothingMissed

LEMMA LedgeredIs == Ledgered = Lots(ledger) /\ Ledgered' = Lots(ledger')
<1>1. Ledgered = Lots(ledger) BY DEF Ledgered, Lots
<1>2. Ledgered' = Lots(ledger') BY DEF Ledgered, Lots, MapThenSumSet, MapThenFoldSet
<1> QED BY <1>1, <1>2

LEMMA LotsAreNatural ==
  ASSUME NEW S, IsFiniteSet(S), \A x \in S : x.lots \in Nat
  PROVE  Lots(S) \in Nat
<1>1. CASE S = {} BY <1>1, LotsOfNone
<1>2. CASE S # {}
  <2>1. PICK x \in S : TRUE BY <1>2
  <2> DEFINE rest == S \ {x}
  <2>2. /\ IsFiniteSet(rest) /\ x \notin rest /\ rest \cup {x} = S
        /\ \A y \in rest \cup {x} : y.lots \in Nat
    BY <2>1, FS_RemoveElement
  <2> HIDE DEF rest
  <2>3. Lots(rest) \in Nat /\ Lots(rest \cup {x}) = Lots(rest) + x.lots
    BY <2>2, LotsOfOneMore
  <2>4. x.lots \in Nat BY <2>1
  <2>5. Lots(S) = Lots(rest) + x.lots BY <2>2, <2>3
  <2> QED BY <2>3, <2>4, <2>5
<1> QED BY <1>1, <1>2

LEMMA LedgeredIsNatural ==
  ASSUME OrderInv, RowsAreOld PROVE Ledgered \in Nat
<1>1. IsFiniteSet(ledger) /\ \A row \in ledger : row.lots \in 1..Qty
  BY DEF RowsAreOld, OrderInv, TypeOK
<1>2. \A row \in ledger : row.lots \in Nat BY <1>1, EngineAssumption
<1>3. Lots(ledger) \in Nat BY <1>1, <1>2, LotsAreNatural
<1> QED BY <1>3, LedgeredIs

\* The end of a call adds nothing to the ledger, or one new row.
LEMMA EndRecords ==
  ASSUME OrderInv, RowsAreOld, NEW t \in Threads, Ends(t)
  PROVE  \/ ledger' = ledger /\ Ledgered = Ledgered'
         \/ \E row \in Derived(jobs[t]) :
              /\ ~Known(row) /\ ledger' = ledger \cup {row} /\ IsFiniteSet(ledger')
              /\ Ledgered + (jobs[t].after - jobs[t].before) = Ledgered'
<1>1. CASE ledger' = ledger BY <1>1, LedgeredIs
<1>2. CASE ledger' # ledger
  <2>1. ledger' = ledger \cup {row \in Derived(jobs[t]) : ~Known(row)} BY <1>2 DEF Ends
  <2>2. PICK row \in Derived(jobs[t]) : ~Known(row) BY <1>2, <2>1
  <2>3. Derived(jobs[t]) = {row} /\ row.lots = jobs[t].after - jobs[t].before
        /\ row.lots \in 1..Qty
    BY DerivedIs
  <2>4. ledger' = ledger \cup {row} /\ row \notin ledger BY <2>1, <2>2, <2>3 DEF Known
  <2>5. IsFiniteSet(ledger) /\ \A x \in ledger \cup {row} : x.lots \in Nat
    <3>1. \A x \in ledger \cup {row} : x.lots \in 1..Qty BY <2>3 DEF OrderInv, TypeOK
    <3> QED BY <3>1, EngineAssumption DEF RowsAreOld
  <2>6. Lots(ledger \cup {row}) = Lots(ledger) + row.lots BY <2>4, <2>5, LotsOfOneMore
  <2>7. Lots(ledger) = Ledgered /\ Lots(ledger') = Ledgered' BY LedgeredIs
  <2>8. Ledgered + (jobs[t].after - jobs[t].before) = Ledgered' BY <2>3, <2>4, <2>6, <2>7
  <2>9. IsFiniteSet(ledger') BY <2>4, <2>5, FS_AddElement
  <2> QED BY <2>2, <2>4, <2>8, <2>9
<1> QED BY <1>1, <1>2

-----------------------------------------------------------------------------
(* Its parts are inductive.                                                *)

\* Numbers of a call.
LEMMA JobFacts ==
  ASSUME OrderInv, NEW t \in Threads
  PROVE  /\ jobs[t] \in Jobs /\ jobs[t].report \in Nat /\ jobs[t].report \in Moments
         /\ jobs[t].before \in Nat /\ jobs[t].after \in Nat /\ jobs[t].version \in Nat
         /\ version \in Nat
<1>1. jobs[t] \in Jobs /\ version \in Nat BY DEF OrderInv, TypeOK, Jobs
<1>2. Moments \subseteq Nat /\ 0..Qty \subseteq Nat BY EngineAssumption DEF Moments
<1> QED BY <1>1, <1>2 DEF Jobs

LEMMA StartsRecorded == ASSUME Init, OrderInv PROVE LedgerInv
<1>1. /\ ledger = {} /\ order.filled = 0 /\ overlapped = FALSE /\ repeated = FALSE
      /\ \A t \in Threads : jobs[t] = Idle
  BY DEF Init
<1>2. Ledgered = 0 BY <1>1, LedgeredIs, LotsOfNone
<1>3. RowsAreOld BY <1>1, FS_EmptySet DEF RowsAreOld
<1>4. CallsAreOld BY <1>1 DEF CallsAreOld, Idle
<1>5. Alone BY <1>1 DEF Alone
<1>6. NotAheadOfCalls BY <1>1, <1>2 DEF NotAheadOfCalls
<1>7. NothingMissed BY <1>1, <1>2 DEF NothingMissed
<1> QED BY <1>3, <1>4, <1>5, <1>6, <1>7 DEF LedgerInv

LEMMA BeginKeepsLedger ==
  ASSUME OrderInv, LedgerInv, NEW t \in Threads, Begins(t) PROVE LedgerInv'
<1>1. /\ order' = order /\ version' = version /\ traded' = traded /\ ledger' = ledger
      /\ failures' = failures /\ (repeated => repeated') /\ jobs[t] = Idle
      /\ overlapped' = (overlapped \/ \E u \in Threads : jobs[u] # Idle)
  BY DEF Begins, orderVars, venueVars
<1>2. PICK j \in Jobs :
        /\ jobs' = [jobs EXCEPT ![t] = j]
        /\ j.call # "none" /\ j.at = "core"
        /\ j.before = order.filled \/ (j.before = 0 /\ repeated')
  BY DEF Begins
<1>3. \A u \in Threads : jobs'[u] = IF u = t THEN j ELSE jobs[u]
  BY <1>2 DEF OrderInv, TypeOK
<1>4. Ledgered = Ledgered' /\ Ledgered \in Nat
  BY <1>1, LedgeredIs, LedgeredIsNatural DEF LedgerInv
<1>5. RowsAreOld' BY <1>1 DEF LedgerInv, RowsAreOld
<1>6. CallsAreOld'
  <2> SUFFICES ASSUME NEW u \in Threads
               PROVE  /\ jobs'[u].before <= order'.filled
                      /\ jobs'[u].at = "record" =>
                           /\ jobs'[u].after <= order'.filled /\ jobs'[u].version <= version'
                           /\ jobs'[u].call = "event" /\ jobs'[u].report <= traded' =>
                                jobs'[u].report <= order'.filled
    BY DEF CallsAreOld
  <2>1. CASE u = t
    <3>1. j.before <= order.filled BY <1>2, OrderFacts
    <3> QED BY <1>1, <1>2, <1>3, <2>1, <3>1
  <2>2. CASE u # t BY <1>1, <1>3, <2>2 DEF LedgerInv, CallsAreOld
  <2> QED BY <2>1, <2>2
<1>7. ~overlapped' => ~overlapped /\ \A u \in Threads : jobs[u] = Idle BY <1>1
<1>8. Alone' BY <1>3, <1>7 DEF Alone
<1>9. NotAheadOfCalls'
  <2> SUFFICES ASSUME ~repeated', ~overlapped'
               PROVE  /\ Ledgered' <= order'.filled
                      /\ \A u \in Threads : jobs'[u] # Idle => Ledgered' <= jobs'[u].before
    BY DEF NotAheadOfCalls
  <2>1. Ledgered <= order.filled BY <1>1, <1>7 DEF LedgerInv, NotAheadOfCalls
  <2>2. j.before = order.filled BY <1>2
  <2>3. \A u \in Threads : jobs'[u] # Idle => jobs'[u] = j BY <1>3, <1>7
  <2> QED BY <1>1, <1>4, <2>1, <2>2, <2>3
<1>10. NothingMissed'
  <2> SUFFICES ASSUME failures' = 0, ~overlapped'
               PROVE  /\ (\A u \in Threads : jobs'[u].at # "record") =>
                           Ledgered' >= order'.filled
                      /\ \A u \in Threads : jobs'[u] # Idle =>
                           /\ jobs'[u].before <= Ledgered'
                           /\ jobs'[u].at = "record" =>
                                Ledgered' >= order'.filled \/ WillRecord(jobs[u])'
    BY DEF NothingMissed
  <2>1. Ledgered >= order.filled
    <3>1. \A u \in Threads : jobs[u].at # "record" BY <1>7, IdleIsJob
    <3> QED BY <1>1, <1>7, <3>1 DEF LedgerInv, NothingMissed
  <2>2. j.before <= Ledgered BY <1>2, <1>4, <2>1, OrderFacts
  <2>3. \A u \in Threads : jobs'[u] # Idle => jobs'[u] = j BY <1>3, <1>7
  <2> QED BY <1>1, <1>2, <1>4, <2>1, <2>2, <2>3
<1> QED BY <1>5, <1>6, <1>8, <1>9, <1>10 DEF LedgerInv

\* The three ways out of a step in the core or the resolver.
LEMMA JobAfterCore ==
  ASSUME OrderInv, NEW t \in Threads, CoreEffect(t)
  PROVE  /\ \A u \in Threads : u # t => jobs'[u] = jobs[u]
         /\ \/ jobs'[t] = Idle /\ order'.filled = order.filled
            \/ /\ jobs'[t].at \in Asking /\ jobs'[t].before = jobs[t].before
               /\ order'.filled = order.filled
            \/ /\ jobs'[t].at = "record" /\ jobs'[t].after = order'.filled
               /\ jobs'[t].version = version' /\ jobs'[t].before = jobs[t].before
               /\ jobs'[t].call = "event" =>
                    /\ jobs'[t].report <= traded' => jobs'[t].report <= order'.filled
                    /\ order'.filled # order.filled => order.filled < jobs'[t].report
<1>1. jobs \in [Threads -> Jobs] /\ jobs[t] \in Jobs BY DEF OrderInv, TypeOK, Jobs
<1>2. CASE Raised(t) BY <1>1, <1>2 DEF Raised
<1>3. CASE Asks(t)
  <2>1. PICK phase \in Asking :
          /\ jobs' = [jobs EXCEPT ![t] = [jobs[t] EXCEPT !.at = phase, !.since = Moment]]
          /\ order'.filled = order.filled
    BY <1>3 DEF Asks
  <2> DEFINE j == [jobs[t] EXCEPT !.at = phase, !.since = Moment]
  <2>2. j.at = phase /\ j.before = jobs[t].before BY <1>1 DEF Jobs
  <2>3. jobs' = [jobs EXCEPT ![t] = j] BY <2>1
  <2> HIDE DEF j
  <2>4. jobs'[t] = j /\ \A u \in Threads : u # t => jobs'[u] = jobs[u] BY <1>1, <2>3
  <2> QED BY <2>1, <2>2, <2>4
<1>4. CASE Stored(t)
  <2> DEFINE j == [jobs[t] EXCEPT !.at = "record", !.since = 0, !.after = order'.filled,
                                  !.version = version']
  <2>1. /\ j.at = "record" /\ j.after = order'.filled /\ j.version = version'
        /\ j.before = jobs[t].before /\ j.call = jobs[t].call /\ j.report = jobs[t].report
    BY <1>1 DEF Jobs
  <2>2. jobs' = [jobs EXCEPT ![t] = j] BY <1>4 DEF Stored
  <2> HIDE DEF j
  <2>3. jobs'[t] = j /\ \A u \in Threads : u # t => jobs'[u] = jobs[u] BY <1>1, <2>2
  <2>4. jobs[t].call = "event" =>
          /\ jobs[t].report <= traded' => jobs[t].report <= order'.filled
          /\ order'.filled # order.filled => order.filled < jobs[t].report
    BY <1>4 DEF Stored
  <2> QED BY <2>1, <2>3, <2>4
<1> QED BY <1>2, <1>3, <1>4 DEF CoreEffect

LEMMA CoreKeepsLedger ==
  ASSUME OrderInv, LedgerInv, NEW t \in Threads, CoreEffect(t), OrderInv' PROVE LedgerInv'
<1>1. /\ ledger' = ledger /\ repeated' = repeated /\ overlapped' = overlapped
      /\ failures' = failures /\ jobs[t].at \in {"core"} \cup Asking
      /\ (submitted => traded' = traded)
      /\ order.filled <= order'.filled
      /\ version' = version + 1 \/ (version' = version /\ order' = order)
  BY DEF CoreEffect, VenueOnward, OrderOnward, history
<1>2. /\ order.filled \in Nat /\ order'.filled \in Nat /\ version \in Nat
      /\ order.filled <= Qty /\ order'.filled <= Qty /\ version <= version'
  <2>1. order.filled \in 0..Qty /\ order'.filled \in 0..Qty /\ version \in Nat
    BY DEF OrderInv, TypeOK
  <2> QED BY <1>1, <2>1, EngineAssumption
<1>3. jobs[t] # Idle /\ jobs[t].at # "record" BY <1>1, IdleIsJob DEF Asking
<1>4. \A u \in Threads : u # t => jobs'[u] = jobs[u] BY JobAfterCore
<1>5. Ledgered = Ledgered' /\ Ledgered \in Nat
  BY <1>1, LedgeredIs, LedgeredIsNatural DEF LedgerInv
<1>6. RowsAreOld'
  <2> SUFFICES ASSUME NEW row \in ledger
               PROVE  /\ \A n \in 1..Qty : row.id = <<"trade", n>> => n <= order'.filled
                      /\ \A a \in 0..Qty, v \in Nat :
                           row.id = <<"derived", a, v>> => v <= version'
    BY <1>1 DEF RowsAreOld, LedgerInv
  <2>1. /\ \A n \in 1..Qty : row.id = <<"trade", n>> => n <= order.filled
        /\ \A a \in 0..Qty, v \in Nat : row.id = <<"derived", a, v>> => v <= version
    BY DEF LedgerInv, RowsAreOld
  <2>2. ASSUME NEW n \in 1..Qty, row.id = <<"trade", n>> PROVE n <= order'.filled
    <3>1. n <= order.filled BY <2>1, <2>2
    <3> QED BY <1>1, <1>2, <3>1, EngineAssumption
  <2>3. ASSUME NEW a \in 0..Qty, NEW v \in Nat, row.id = <<"derived", a, v>>
        PROVE  v <= version'
    <3>1. v <= version BY <2>1, <2>3
    <3> QED BY <1>1, <1>2, <3>1
  <2> QED BY <2>2, <2>3
<1>7. CallsAreOld'
  <2> SUFFICES ASSUME NEW u \in Threads
               PROVE  /\ jobs'[u].before <= order'.filled
                      /\ jobs'[u].at = "record" =>
                           /\ jobs'[u].after <= order'.filled /\ jobs'[u].version <= version'
                           /\ jobs'[u].call = "event" /\ jobs'[u].report <= traded' =>
                                jobs'[u].report <= order'.filled
    BY DEF CallsAreOld
  <2>1. /\ jobs[u].before <= order.filled
        /\ jobs[u].at = "record" =>
             /\ jobs[u].after <= order.filled /\ jobs[u].version <= version
             /\ jobs[u].call = "event" /\ jobs[u].report <= traded =>
                  jobs[u].report <= order.filled
    BY DEF LedgerInv, CallsAreOld
  <2>2. CASE u # t
    <3>1. jobs'[u] = jobs[u] BY <1>4, <2>2
    <3>2. jobs[u].before <= order'.filled BY <1>1, <1>2, <2>1, JobFacts
    <3>3. ASSUME jobs[u].at = "record"
          PROVE  /\ jobs[u].after <= order'.filled /\ jobs[u].version <= version'
                 /\ jobs[u].call = "event" /\ jobs[u].report <= traded' =>
                      jobs[u].report <= order'.filled
      <4>1. traded' = traded
        <5>1. submitted BY <3>3 DEF OrderInv, BeforeSubmit
        <5> QED BY <1>1, <5>1
      <4>2. jobs[u].after <= order'.filled BY <1>1, <1>2, <2>1, <3>3, JobFacts
      <4>3. jobs[u].version <= version' BY <1>1, <1>2, <2>1, <3>3, JobFacts
      <4>4. jobs[u].call = "event" /\ jobs[u].report <= traded =>
              jobs[u].report <= order'.filled
        BY <1>1, <1>2, <2>1, <3>3, JobFacts
      <4> QED BY <4>1, <4>2, <4>3, <4>4
    <3> QED BY <3>1, <3>2, <3>3
  <2>3. CASE u = t
    <3>1. jobs[t].before <= order'.filled BY <1>1, <1>2, <2>1, <2>3, JobFacts
    <3>2. CASE jobs'[t] = Idle BY <1>2, <2>3, <3>2 DEF Idle
    <3>3. CASE jobs'[t].at \in Asking /\ jobs'[t].before = jobs[t].before
      BY <2>3, <3>1, <3>3 DEF Asking
    <3>4. CASE /\ jobs'[t].at = "record" /\ jobs'[t].after = order'.filled
               /\ jobs'[t].version = version' /\ jobs'[t].before = jobs[t].before
               /\ jobs'[t].call = "event" /\ jobs'[t].report <= traded' =>
                    jobs'[t].report <= order'.filled
      BY <1>1, <1>2, <2>3, <3>1, <3>4
    <3> QED BY <3>2, <3>3, <3>4, JobAfterCore
  <2> QED BY <2>2, <2>3
<1>8. ~overlapped => \A u \in Threads : jobs[u] # Idle => u = t
  BY <1>3 DEF LedgerInv, Alone
<1>9. ~overlapped => \A u \in Threads : jobs'[u] # Idle => u = t BY <1>4, <1>8
<1>10. Alone' BY <1>1, <1>9 DEF Alone
<1>11. NotAheadOfCalls'
  <2> SUFFICES ASSUME ~repeated, ~overlapped
               PROVE  /\ Ledgered' <= order'.filled
                      /\ \A u \in Threads : jobs'[u] # Idle => Ledgered' <= jobs'[u].before
    BY <1>1 DEF NotAheadOfCalls
  <2>1. Ledgered <= order.filled /\ Ledgered <= jobs[t].before
    BY <1>3 DEF LedgerInv, NotAheadOfCalls
  <2>2. Ledgered' <= order'.filled BY <1>1, <1>2, <1>5, <2>1
  <2>3. jobs'[t] # Idle => jobs'[t].before = jobs[t].before BY JobAfterCore
  <2> QED BY <1>5, <1>9, <2>1, <2>2, <2>3
<1>12. NothingMissed'
  <2> SUFFICES ASSUME failures = 0, ~overlapped
               PROVE  /\ (\A u \in Threads : jobs'[u].at # "record") =>
                           Ledgered' >= order'.filled
                      /\ \A u \in Threads : jobs'[u] # Idle =>
                           /\ jobs'[u].before <= Ledgered'
                           /\ jobs'[u].at = "record" =>
                                Ledgered' >= order'.filled \/ WillRecord(jobs[u])'
    BY <1>1 DEF NothingMissed
  <2>1. \A u \in Threads : jobs[u].at # "record" BY <1>3, <1>8, IdleIsJob
  <2>2. Ledgered >= order.filled /\ jobs[t].before <= Ledgered
    BY <1>3, <2>1 DEF LedgerInv, NothingMissed
  <2>3. jobs'[t] # Idle => jobs'[t].before <= Ledgered'
    BY <1>5, <2>2, JobAfterCore
  <2>4. CASE order'.filled = order.filled
    BY <1>5, <1>9, <2>2, <2>3, <2>4
  <2>5. CASE order'.filled # order.filled
    <3>1. /\ jobs'[t].at = "record" /\ jobs'[t].after = order'.filled
          /\ jobs'[t].version = version' /\ jobs'[t].before = jobs[t].before
          /\ jobs'[t].call = "event" => order.filled < jobs'[t].report
      BY <2>5, JobAfterCore
    <3>2. order.filled < order'.filled /\ version' = version + 1 BY <1>1, <1>2, <2>5
    <3>3. jobs'[t].before < jobs'[t].after
      <4>1. jobs[t].before <= order.filled BY DEF LedgerInv, CallsAreOld
      <4> QED BY <1>2, <3>1, <3>2, <4>1, JobFacts
    <3>4. ASSUME NEW row \in ledger
          PROVE  /\ jobs'[t].call = "event" => row.id # <<"trade", jobs'[t].report>>
                 /\ row.id # <<"derived", jobs'[t].after, jobs'[t].version>>
      <4>1. /\ \A n \in 1..Qty : row.id = <<"trade", n>> => n <= order.filled
            /\ \A a \in 0..Qty, v \in Nat : row.id = <<"derived", a, v>> => v <= version
        BY DEF LedgerInv, RowsAreOld
      <4>2. jobs'[t].report \in 0..Qty BY DEF OrderInv, TypeOK, Moments
      <4>3. order.filled < jobs'[t].report => jobs'[t].report \in 1..Qty
        BY <1>2, <4>2, EngineAssumption
      <4>4. jobs'[t].call = "event" => row.id # <<"trade", jobs'[t].report>>
        <5> SUFFICES ASSUME jobs'[t].call = "event", row.id = <<"trade", jobs'[t].report>>
                     PROVE  FALSE
          OBVIOUS
        <5>1. order.filled < jobs'[t].report /\ jobs'[t].report \in 1..Qty BY <3>1, <4>3
        <5>2. jobs'[t].report <= order.filled BY <4>1, <5>1
        <5> QED BY <1>2, <5>1, <5>2, EngineAssumption
      <4>5. row.id # <<"derived", jobs'[t].after, jobs'[t].version>>
        <5> SUFFICES ASSUME row.id = <<"derived", jobs'[t].after, jobs'[t].version>>
                     PROVE  FALSE
          OBVIOUS
        <5>1. jobs'[t].after \in 0..Qty /\ jobs'[t].version \in Nat
          BY <1>2, <3>1, <3>2, EngineAssumption
        <5>2. jobs'[t].version <= version BY <4>1, <5>1
        <5> QED BY <1>2, <3>1, <3>2, <5>2
      <4> QED BY <4>4, <4>5
    <3>5. WillRecord(jobs[t])' BY <1>1, <3>1, <3>3, <3>4 DEF WillRecord
    <3> QED BY <1>9, <2>3, <3>1, <3>5
  <2> QED BY <2>4, <2>5
<1> QED BY <1>6, <1>7, <1>10, <1>11, <1>12 DEF LedgerInv

LEMMA EndKeepsLedger ==
  ASSUME OrderInv, LedgerInv, NEW t \in Threads, Ends(t) PROVE LedgerInv'
<1>1. /\ order' = order /\ version' = version /\ traded' = traded
      /\ repeated' = repeated /\ overlapped' = overlapped
      /\ jobs[t].at = "record" /\ jobs' = [jobs EXCEPT ![t] = Idle]
      /\ \/ failures' \in 1..MaxFailures
         \/ /\ failures' = failures
            /\ IF Overtaken(jobs[t]) THEN ledger' = ledger
               ELSE ledger' = ledger \cup {row \in Derived(jobs[t]) : ~Known(row)}
  BY DEF Ends, orderVars, venueVars, history
<1>2. \A u \in Threads : jobs'[u] = IF u = t THEN Idle ELSE jobs[u]
  BY <1>1 DEF OrderInv, TypeOK
<1>3. jobs[t] # Idle BY <1>1, IdleIsJob
<1>4. Ledgered \in Nat BY LedgeredIsNatural DEF LedgerInv
<1>5. /\ jobs[t].before <= order.filled /\ jobs[t].after <= order.filled
      /\ jobs[t].version <= version
      /\ jobs[t].call = "event" /\ jobs[t].report <= traded => jobs[t].report <= order.filled
  BY <1>1 DEF LedgerInv, CallsAreOld
<1>6. \/ ledger' = ledger /\ Ledgered = Ledgered'
      \/ \E row \in Derived(jobs[t]) :
           /\ ~Known(row) /\ ledger' = ledger \cup {row} /\ IsFiniteSet(ledger')
           /\ Ledgered + (jobs[t].after - jobs[t].before) = Ledgered'
  BY EndRecords DEF LedgerInv
<1>7. RowsAreOld'
  <2>1. CASE ledger' = ledger BY <1>1, <2>1 DEF LedgerInv, RowsAreOld
  <2>2. ASSUME NEW row \in Derived(jobs[t]), ledger' = ledger \cup {row}, IsFiniteSet(ledger')
        PROVE  RowsAreOld'
    <3>1. /\ \A n \in 1..Qty : row.id = <<"trade", n>> => n <= order.filled
          /\ \A a \in 0..Qty, v \in Nat : row.id = <<"derived", a, v>> => v <= version
      <4>1. CASE /\ jobs[t].call = "event" /\ jobs[t].report \in 1..traded
                 /\ row.id = <<"trade", jobs[t].report>>
        <5>1. jobs[t].report <= order.filled BY <1>5, <4>1, OrderFacts
        <5> QED BY <4>1, <5>1
      <4>2. CASE row.id = <<"derived", jobs[t].after, jobs[t].version>> BY <1>5, <4>2
      <4> QED BY <4>1, <4>2, DerivedIs
    <3>2. \A old \in ledger :
            /\ \A n \in 1..Qty : old.id = <<"trade", n>> => n <= order.filled
            /\ \A a \in 0..Qty, v \in Nat : old.id = <<"derived", a, v>> => v <= version
      BY DEF LedgerInv, RowsAreOld
    <3> QED BY <1>1, <2>2, <3>1, <3>2 DEF RowsAreOld
  <2> QED BY <1>6, <2>1, <2>2
<1>8. CallsAreOld'
  <2>1. 0 <= order.filled BY OrderFacts
  <2>2. Idle.before = 0 /\ Idle.at # "record" BY DEF Idle
  <2> QED BY <1>1, <1>2, <2>1, <2>2 DEF LedgerInv, CallsAreOld
<1>9. ~overlapped => \A u \in Threads : jobs'[u] = Idle
  BY <1>2, <1>3 DEF LedgerInv, Alone
<1>10. Alone' BY <1>1, <1>9 DEF Alone
<1>11. NotAheadOfCalls'
  <2> SUFFICES ASSUME ~repeated, ~overlapped PROVE Ledgered' <= order.filled
    BY <1>1, <1>9 DEF NotAheadOfCalls
  <2>1. Ledgered <= order.filled /\ Ledgered <= jobs[t].before
    BY <1>3 DEF LedgerInv, NotAheadOfCalls
  <2>2. CASE Ledgered = Ledgered' BY <2>1, <2>2
  <2>3. CASE Ledgered + (jobs[t].after - jobs[t].before) = Ledgered'
    BY <1>4, <1>5, <2>1, <2>3, JobFacts, OrderFacts
  <2> QED BY <1>6, <2>2, <2>3
<1>12. NothingMissed'
  <2> SUFFICES ASSUME failures' = 0, ~overlapped PROVE Ledgered' >= order.filled
    BY <1>1, <1>9 DEF NothingMissed
  <2>1. /\ failures = 0
        /\ IF Overtaken(jobs[t]) THEN ledger' = ledger
           ELSE ledger' = ledger \cup {row \in Derived(jobs[t]) : ~Known(row)}
    BY <1>1
  <2>2. /\ jobs[t].before <= Ledgered
        /\ Ledgered >= order.filled \/ WillRecord(jobs[t])
    BY <1>1, <1>3, <2>1 DEF LedgerInv, NothingMissed
  <2>3. CASE Ledgered >= order.filled
    <3>1. CASE Ledgered = Ledgered' BY <2>3, <3>1
    <3>2. CASE \E row \in Derived(jobs[t]) :
                 Ledgered + (jobs[t].after - jobs[t].before) = Ledgered'
      <4>1. jobs[t].before < jobs[t].after BY <3>2, DerivedIs
      <4> QED BY <1>4, <2>3, <3>2, <4>1, JobFacts, OrderFacts
    <3> QED BY <1>6, <3>1, <3>2
  <2>4. CASE WillRecord(jobs[t])
    <3>1. jobs[t].version = version /\ jobs[t].after = order.filled
          /\ jobs[t].before < jobs[t].after
      BY <2>4 DEF WillRecord
    <3>2. ~Overtaken(jobs[t]) BY <3>1, JobFacts DEF Overtaken
    <3>3. Derived(jobs[t]) # {} BY <3>1, JobFacts DEF Derived
    <3>4. PICK row \in Derived(jobs[t]) : TRUE BY <3>3
    <3>5. ~Known(row)
      <4> SUFFICES ASSUME NEW old \in ledger, old.id = row.id PROVE FALSE BY DEF Known
      <4>1. /\ jobs[t].call = "event" => old.id # <<"trade", jobs[t].report>>
            /\ old.id # <<"derived", jobs[t].after, jobs[t].version>>
        BY <2>4 DEF WillRecord
      <4>2. \/ jobs[t].call = "event" /\ row.id = <<"trade", jobs[t].report>>
            \/ row.id = <<"derived", jobs[t].after, jobs[t].version>>
        BY DerivedIs
      <4> QED BY <4>1, <4>2
    <3>6. row \in ledger' /\ row \notin ledger BY <2>1, <3>2, <3>5 DEF Known
    <3>7. Ledgered + (jobs[t].after - jobs[t].before) = Ledgered' BY <1>6, <3>6
    <3> QED BY <1>4, <2>2, <3>1, <3>7, JobFacts, OrderFacts
  <2> QED BY <2>2, <2>3, <2>4
<1> QED BY <1>7, <1>8, <1>10, <1>11, <1>12 DEF LedgerInv

LEMMA CrashKeepsLedger ==
  ASSUME OrderInv, LedgerInv, Crash PROVE LedgerInv'
<1>1. /\ order' = order /\ version' = version /\ ledger' = ledger
      /\ repeated' = repeated /\ overlapped' = overlapped
      /\ failures' = failures + 1 /\ jobs' = [t \in Threads |-> Idle]
  BY DEF Crash, orderVars, history
<1>2. \A t \in Threads : jobs'[t] = Idle BY <1>1
<1>3. Ledgered = Ledgered' BY <1>1, LedgeredIs
<1>4. RowsAreOld' BY <1>1 DEF LedgerInv, RowsAreOld
<1>5. CallsAreOld'
  <2>1. 0 <= order.filled BY OrderFacts
  <2>2. Idle.before = 0 /\ Idle.at # "record" BY DEF Idle
  <2> QED BY <1>1, <1>2, <2>1, <2>2 DEF CallsAreOld
<1>6. Alone' BY <1>2 DEF Alone
<1>7. NotAheadOfCalls' BY <1>1, <1>2, <1>3 DEF LedgerInv, NotAheadOfCalls
<1>8. NothingMissed'
  <2>1. failures' # 0 BY <1>1, EngineAssumption DEF OrderInv, TypeOK
  <2> QED BY <2>1 DEF NothingMissed
<1> QED BY <1>4, <1>5, <1>6, <1>7, <1>8 DEF LedgerInv

LEMMA MoveKeepsLedger ==
  ASSUME OrderInv, LedgerInv, Moves PROVE LedgerInv'
<1>1. /\ order' = order /\ version' = version /\ ledger' = ledger /\ jobs' = jobs
      /\ repeated' = repeated /\ overlapped' = overlapped /\ failures' = failures
      /\ ~ended
  BY DEF Moves, orderVars, history
<1>2. Ledgered = Ledgered' BY <1>1, LedgeredIs
<1>3. RowsAreOld' BY <1>1 DEF LedgerInv, RowsAreOld
<1>4. CallsAreOld'
  <2>1. \A t \in Threads : jobs[t].report <= traded
    <3>1. Moment = traded BY <1>1, OrderFacts DEF Moment
    <3> QED BY <3>1 DEF OrderInv, Timely
  <2> QED BY <1>1, <2>1 DEF LedgerInv, CallsAreOld
<1>5. Alone' BY <1>1 DEF LedgerInv, Alone
<1>6. NotAheadOfCalls' BY <1>1, <1>2 DEF LedgerInv, NotAheadOfCalls
<1>7. NothingMissed' BY <1>1, <1>2 DEF LedgerInv, NothingMissed, WillRecord
<1> QED BY <1>3, <1>4, <1>5, <1>6, <1>7 DEF LedgerInv

LEMMA StutterKeepsLedger ==
  ASSUME OrderInv, LedgerInv, UNCHANGED vars PROVE LedgerInv'
<1>1. /\ order' = order /\ version' = version /\ ledger' = ledger /\ jobs' = jobs
      /\ repeated' = repeated /\ overlapped' = overlapped /\ failures' = failures
      /\ traded' = traded
  BY DEF vars, orderVars, venueVars, history
<1>2. Ledgered = Ledgered' BY <1>1, LedgeredIs
<1>3. RowsAreOld' /\ CallsAreOld' /\ Alone'
  BY <1>1 DEF LedgerInv, RowsAreOld, CallsAreOld, Alone
<1>4. NotAheadOfCalls' BY <1>1, <1>2 DEF LedgerInv, NotAheadOfCalls
<1>5. NothingMissed' BY <1>1, <1>2 DEF LedgerInv, NothingMissed, WillRecord
<1> QED BY <1>3, <1>4, <1>5 DEF LedgerInv

THEOREM LedgerHolds == Spec => []LedgerInv
<1>1. Init /\ OrderInv => LedgerInv BY StartsRecorded
<1>2. OrderInv /\ OrderInv' /\ LedgerInv /\ [Next]_vars => LedgerInv'
  BY Steps, BeginKeepsLedger, CoreKeepsLedger, EndKeepsLedger, CrashKeepsLedger,
     MoveKeepsLedger, StutterKeepsLedger
<1> QED BY <1>1, <1>2, OrderHolds, PTL DEF Spec

\* _derive_fill and SqlExecutionLedger.record: a fill that is reported, queried or reported
\* again counts once, whatever crashes, as long as calls do not overlap and the caller does
\* not repeat the submit.
THEOREM LedgerIsNotAhead == Spec => []LedgerNotAhead
<1>1. LedgerInv => LedgerNotAhead BY DEF LedgerInv, NotAheadOfCalls, LedgerNotAhead
<1> QED BY <1>1, LedgerHolds, PTL

\* _record_result: what the core has merged is in the ledger once the call is over, unless
\* the process or the transaction has failed between the two or calls have overlapped.
THEOREM NoFillIsMissed == Spec => []NoFillMissed
<1>1. LedgerInv => NoFillMissed
  <2> SUFFICES ASSUME LedgerInv, failures = 0, ~overlapped, \A t \in Threads : jobs[t] = Idle
               PROVE  Ledgered >= order.filled
    BY DEF NoFillMissed
  <2>1. \A t \in Threads : jobs[t].at # "record" BY IdleIsJob
  <2> QED BY <2>1 DEF LedgerInv, NothingMissed
<1> QED BY <1>1, LedgerHolds, PTL

=============================================================================
