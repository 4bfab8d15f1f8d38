------------------------ MODULE OutboundClientProofs ------------------------
(***************************************************************************)
(* Theorems about OutboundClient for any retry budget, rate, threshold and *)
(* durations, any number of dropped futures, and any upstream.             *)
(***************************************************************************)
EXTENDS OutboundClient, TLAPS

-----------------------------------------------------------------------------
(* record_success and record_failure *)

Circuits == {"Closed", "Open", "HalfOpen"}

\* What the two leave behind: counters and ages of their types, in a window
\* that counts no more failures than requests.
Recorded ==
  /\ circuit' \in Circuits /\ requests' \in Nat /\ failures' \in Nat
  /\ windowAge' \in 0..Window /\ openAge' \in 0..HalfOpenTimeout
  /\ failures' <= requests'

\* record_success closes the circuit.
LEMMA SucceededEffect ==
  ASSUME TypeOK, failures <= requests, Succeeded PROVE Recorded /\ circuit' = "Closed"
BY ClientAssumption DEF TypeOK, Succeeded, Recorded, Circuits

\* record_failure never leaves a half-open circuit half open.
LEMMA FailedEffect ==
  ASSUME TypeOK, failures <= requests, Failed
  PROVE  Recorded /\ (circuit = "HalfOpen" => circuit' = "Open")
<1> USE ClientAssumption DEF TypeOK, Recorded, Circuits
<1>1. CASE circuit = "HalfOpen"
  BY <1>1 DEF Failed
<1>2. CASE circuit # "HalfOpen"
  <2> DEFINE stale == windowAge = Window
             r == IF stale THEN 1 ELSE requests + 1
             f == IF stale THEN 1 ELSE failures + 1
             trip == r >= MinRequests /\ f * ThDen >= ThNum * r
  <2>1. r \in Nat /\ f \in Nat /\ f <= r
    OBVIOUS
  <2>2. /\ requests' = r /\ failures' = f
        /\ windowAge' = IF stale THEN 0 ELSE windowAge
        /\ circuit' = IF trip THEN "Open" ELSE circuit
        /\ openAge' = IF trip THEN 0 ELSE openAge
    BY <1>2 DEF Failed
  <2> HIDE DEF r, f, trip, stale
  <2> QED
    BY <1>2, <2>1, <2>2
<1> QED
  BY <1>1, <1>2

-----------------------------------------------------------------------------
(* The counters account for every request *)

\* CountersAgree and TypeOK need each other: the bounds on the counters of a
\* call are those of its attempts.
CountInv == TypeOK /\ failures <= requests /\ CountersAgree

\* CountInv is preserved by every step.
LEMMA CountStep == ASSUME CountInv, [Next]_vars PROVE CountInv'
<1> USE ClientAssumption
    DEF CountInv, TypeOK, CountersAgree, vars, breaker, counters, env, count, Results, Transient
<1>1. CASE Begin
  BY <1>1 DEF Begin
<1>0. CASE RefuseShuttingDown
  BY <1>0 DEF RefuseShuttingDown
<1>2. CASE BreakerRefuses
  BY <1>2 DEF BreakerRefuses
<1>3. CASE RateLimited
  BY <1>3 DEF RateLimited, AfterAllow
<1>4. CASE Execute
  BY <1>4 DEF Execute, AfterAllow
<1>5. ASSUME NEW o \in Outcomes, Respond(o) PROVE CountInv'
  <2>1. Recorded
    BY <1>5, SucceededEffect, FailedEffect DEF Respond
  <2>2. Classified(o) \in Results
    BY DEF Classified
  <2> QED
    BY <1>5, <2>1, <2>2 DEF Respond, Recorded, Circuits
<1>6. CASE Return
  BY <1>6 DEF Return
<1>7. CASE Retry
  BY <1>7 DEF Retry
<1>8. CASE Wake
  BY <1>8 DEF Wake
<1>9. CASE Drop
  BY <1>9 DEF Drop
<1>10. CASE Tick
  BY <1>10 DEF Tick, Older
<1>11. CASE Refill
  BY <1>11 DEF Refill
<1>12. CASE UpstreamChanges
  BY <1>12 DEF UpstreamChanges
<1>13. CASE UNCHANGED vars
  BY <1>13
<1>14. CASE Shutdown
  BY <1>14 DEF Shutdown
<1> QED
  BY <1>0, <1>1, <1>2, <1>3, <1>4, <1>5, <1>6, <1>7, <1>8, <1>9, <1>10, <1>11, <1>12, <1>13, <1>14
  DEF Next, send_with_retry, send

\* CountInv is an invariant of the client.
LEMMA Counting == Spec => []CountInv
<1>1. Init => CountInv
  <2> SUFFICES ASSUME Init PROVE CountInv
    OBVIOUS
  <2>0. is_shutting_down \in BOOLEAN
    BY Zenon DEF Init
  <2>1. TypeOK
    BY <2>0, ClientAssumption DEF Init, TypeOK, Results, Transient
  <2>2. CountersAgree
    BY DEF Init, CountersAgree
  <2> QED
    BY <2>1, <2>2 DEF Init, CountInv
<1>2. CountInv /\ [Next]_vars => CountInv'
  BY CountStep
<1> QED
  BY <1>1, <1>2, PTL DEF Spec

\* The variables of the client keep their types, and so no call of
\* send_with_retry sends more than RetryMax + 1 requests.
THEOREM Typing == Spec => []TypeOK
<1>1. CountInv => TypeOK
  BY DEF CountInv
<1> QED
  BY <1>1, Counting, PTL

\* The counters agree with the calls made, whichever of its five exits every
\* send takes, whenever shutdown is called and wherever a future is dropped.
THEOREM Accounting == Spec => []CountersAgree
<1>1. CountInv => CountersAgree
  BY DEF CountInv
<1> QED
  BY <1>1, Counting, PTL

-----------------------------------------------------------------------------
(* The gauge and the circuit *)

\* A request is never in flight while the circuit is Open: only its own answer
\* can open it, which is what lets Succeeded leave an Open circuit out.
NoRequestWhileOpen == phase = "executing" => circuit # "Open"

GaugeInv == GaugeLag /\ NoRequestWhileOpen

\* GaugeInv is preserved by every step.
LEMMA GaugeStep == ASSUME TypeOK, GaugeInv, [Next]_vars PROVE GaugeInv'
<1> USE DEF GaugeInv, GaugeLag, NoRequestWhileOpen, vars, breaker, counters, env
<1>1. CASE BreakerRefuses
  BY <1>1 DEF BreakerRefuses
<1>2. CASE RateLimited
  BY <1>2 DEF RateLimited, AfterAllow, TypeOK
<1>3. CASE Execute
  BY <1>3 DEF Execute, AfterAllow, TypeOK
<1>4. ASSUME NEW o \in Outcomes, Respond(o) PROVE GaugeInv'
  BY <1>4 DEF Respond
<1>5. CASE UNCHANGED <<circuit, gauge>> /\ phase' # "executing"
  BY <1>5
<1>6. CASE UNCHANGED <<circuit, gauge, phase>>
  BY <1>6
<1> QED
  BY <1>1, <1>2, <1>3, <1>4, <1>5, <1>6
  DEF Next, send_with_retry, send, Begin, Return, Retry, Wake, Drop, Tick, Refill,
      UpstreamChanges, RefuseShuttingDown, Shutdown

\* GaugeInv is an invariant of the client.
LEMMA Gauging == Spec => []GaugeInv
<1>1. Init => GaugeInv
  BY DEF Init, GaugeInv, GaugeLag, NoRequestWhileOpen
<1>2. TypeOK /\ GaugeInv /\ [Next]_vars => GaugeInv'
  BY GaugeStep
<1> QED
  BY <1>1, <1>2, Typing, PTL DEF Spec

\* The gauge of the breaker lags its circuit only by an Open that is already
\* half open: it never hides an Open circuit, nor shows one that is Closed.
THEOREM GaugeFollows == Spec => []GaugeLag
<1>1. GaugeInv => GaugeLag
  BY DEF GaugeInv
<1> QED
  BY <1>1, Gauging, PTL

\* No request is in flight while the circuit is Open.
THEOREM NoneWhileOpen == Spec => []NoRequestWhileOpen
<1>1. GaugeInv => NoRequestWhileOpen
  BY DEF GaugeInv
<1> QED
  BY <1>1, Gauging, PTL
=============================================================================
