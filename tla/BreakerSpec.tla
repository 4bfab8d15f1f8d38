---------------------------- MODULE BreakerSpec ----------------------------
(***************************************************************************)
(* What the documentation of circuit_breaker.rs promises, with every        *)
(* operation atomic: the state diagram of lines 3-16, a probe only once     *)
(* half_open_timeout has elapsed since the circuit opened (config.rs:74),   *)
(* one probe at a time (line 32), a trip only on the counts of the current  *)
(* window.  It is the specification CircuitBreaker is compared with.        *)
(***************************************************************************)
EXTENDS Integers

CONSTANTS Callers, MinRequests, ThNum, ThDen, Window, HalfOpenTimeout

VARIABLES
  circuit,            \* Closed, Open or HalfOpen
  requests, failures, \* counted since start
  start,              \* when the current window began
  opened,             \* when the circuit last opened
  now,                \* the clock
  status              \* of each caller: idle, sent, probe or recording

vars == <<circuit, requests, failures, start, opened, now, status>>

Elapsed(since) == IF now > since THEN now - since ELSE 0

Become(c, from, to) == status[c] = from /\ status' = [status EXCEPT ![c] = to]

Init ==
  /\ circuit = "Closed" /\ requests = 0 /\ failures = 0
  /\ now \in Nat /\ start = now /\ opened = 0
  /\ status = [c \in Callers |-> "idle"]

Admit(c) ==
  /\ circuit = "Closed" /\ Become(c, "idle", "sent")
  /\ UNCHANGED <<circuit, requests, failures, start, opened, now>>

Probe(c) ==
  /\ \A d \in Callers : status[d] # "probe"
  /\ \/ circuit = "HalfOpen"
     \/ circuit = "Open" /\ Elapsed(opened) >= HalfOpenTimeout
  /\ circuit' = "HalfOpen"
  /\ Become(c, "idle", "probe")
  /\ UNCHANGED <<requests, failures, start, opened, now>>

Abandon(c) ==
  /\ Become(c, "sent", "idle") \/ Become(c, "probe", "idle")
  /\ UNCHANGED <<circuit, requests, failures, start, opened, now>>

\* An outcome that arrives after the circuit left Closed counts for nothing.
Late(c) ==
  /\ circuit # "Closed" /\ Become(c, "sent", "idle")
  /\ UNCHANGED <<circuit, requests, failures, start, opened, now>>

\* An outcome is counted in a window that was current when it was reported.
Freshen(c) ==
  /\ circuit = "Closed" /\ Become(c, "sent", "recording")
  /\ IF Elapsed(start) >= Window
       THEN start' = now /\ requests' = 0 /\ failures' = 0
       ELSE UNCHANGED <<start, requests, failures>>
  /\ UNCHANGED <<circuit, opened, now>>

CountSuccess(c) ==
  /\ Become(c, "recording", "idle")
  /\ requests' = requests + 1
  /\ UNCHANGED <<circuit, failures, start, opened, now>>

CountFailure(c) ==
  /\ Become(c, "recording", "idle")
  /\ requests' = requests + 1 /\ failures' = failures + 1
  /\ IF requests' >= MinRequests /\ failures' * ThDen >= ThNum * requests'
       THEN circuit' = "Open" /\ opened' = now
       ELSE UNCHANGED <<circuit, opened>>
  /\ UNCHANGED <<start, now>>

ProbeSucceeds(c) ==
  /\ circuit = "HalfOpen" /\ Become(c, "probe", "idle")
  /\ circuit' = "Closed"
  /\ start' = now /\ requests' = 0 /\ failures' = 0
  /\ UNCHANGED <<opened, now>>

ProbeFails(c) ==
  /\ circuit = "HalfOpen" /\ Become(c, "probe", "idle")
  /\ circuit' = "Open" /\ opened' = now
  /\ UNCHANGED <<requests, failures, start, now>>

Clock ==
  /\ now' \in {now + 1, now - 1} /\ now' >= 0
  /\ UNCHANGED <<circuit, requests, failures, start, opened, status>>

Next ==
  \/ Clock
  \/ \E c \in Callers :
       \/ Admit(c) \/ Probe(c) \/ Abandon(c) \/ Late(c)
       \/ Freshen(c) \/ CountSuccess(c) \/ CountFailure(c)
       \/ ProbeSucceeds(c) \/ ProbeFails(c)

Spec == Init /\ [][Next]_vars
=============================================================================
