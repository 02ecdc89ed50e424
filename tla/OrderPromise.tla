---------------------------- MODULE OrderPromise ----------------------------
(***************************************************************************)
(* What an execution service promises about its orders, whatever happens   *)
(* to it: an order goes to the market at most once and only after it is on *)
(* the books, the books claim no fill the market did not make, and an order*)
(* the books call done is out of the market.                               *)
(* ExecutionService implements this specification (KeepsPromise there).    *)
(***************************************************************************)
EXTENDS Naturals

CONSTANTS Orders, Lots

VARIABLES
  book,     \* what the service has on record
  known,    \* the fills it has on record
  market,   \* where the order really is
  real      \* the fills really made

vars == <<book, known, market, real>>

Init ==
  /\ book = [o \in Orders |-> "none"]
  /\ known = [o \in Orders |-> 0]
  /\ market = [o \in Orders |-> "away"]
  /\ real = [o \in Orders |-> 0]

Write(o, b) == book' = [book EXCEPT ![o] = b]

\* The service takes the order on, or declines it for good.
Open(o) ==
  /\ book[o] = "none"
  /\ Write(o, "due") \/ Write(o, "done")
  /\ UNCHANGED <<known, market, real>>

Send(o) ==
  /\ book[o] \in {"due", "unsure"} /\ market[o] = "away"
  /\ market' = [market EXCEPT ![o] = "coming"]
  /\ UNCHANGED <<book, known, real>>

\* The service no longer trusts its record of an unfinished order.
Doubt(o) ==
  /\ book[o] \in {"due", "live"}
  /\ Write(o, "unsure")
  /\ UNCHANGED <<known, market, real>>

\* Something true about an order in the market is put on record; a request
\* that is refused on the way is settled by the same step.
Learn(o) ==
  /\ book[o] \in {"due", "unsure", "live"} /\ market[o] # "away"
  /\ \E k \in known[o]..real[o] : known' = [known EXCEPT ![o] = k]
  /\ \/ Write(o, "unsure") /\ UNCHANGED market
     \/ market[o] \in {"open", "closed"} /\ Write(o, "live") /\ UNCHANGED market
     \/ market[o] \in {"gone", "closed"} /\ Write(o, "done") /\ UNCHANGED market
     \/ /\ market[o] = "coming" /\ Write(o, "done")
        /\ market' = [market EXCEPT ![o] = "gone"]
  /\ UNCHANGED real

\* A finished order only learns of late fills.
LearnLate(o) ==
  /\ book[o] = "done" /\ market[o] = "closed"
  /\ \E k \in known[o]..real[o] : known' = [known EXCEPT ![o] = k]
  /\ UNCHANGED <<book, market, real>>

Arrive(o) ==
  /\ market[o] = "coming"
  /\ \/ market' = [market EXCEPT ![o] = "open"]
     \/ market' = [market EXCEPT ![o] = "gone"]
  /\ UNCHANGED <<book, known, real>>

Trade(o) ==
  /\ market[o] \in {"open", "closed"} /\ real[o] < Lots
  /\ real' = [real EXCEPT ![o] = @ + 1]
  /\ UNCHANGED market \/ market' = [market EXCEPT ![o] = "closed"]
  /\ UNCHANGED <<book, known>>

Close(o) ==
  /\ market[o] = "open"
  /\ market' = [market EXCEPT ![o] = "closed"]
  /\ UNCHANGED <<book, known, real>>

Next ==
  \E o \in Orders :
    \/ Open(o) \/ Send(o) \/ Doubt(o) \/ Learn(o) \/ LearnLate(o)
    \/ Arrive(o) \/ Trade(o) \/ Close(o)

Spec == Init /\ [][Next]_vars
=============================================================================
