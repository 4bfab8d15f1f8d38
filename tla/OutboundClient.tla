--------------------------- MODULE OutboundClient ---------------------------
(***************************************************************************)
(* One caller of ResilientHttpClient::send_with_retry against one target,   *)
(* the way heartbeat's worker uses it: it calls, awaits the result, and     *)
(* calls again at a later tick.  The policy stack of send is modelled in    *)
(* the order of the code: shutdown flag, breaker, rate limiter, request,    *)
(* classification; then the breaker gauge, the retry loop and the backoff   *)
(* sleep; with the counters of the client and of the worker.  Counters only *)
(* grow, so they appear as what a call has added to them.                   *)
(*                                                                          *)
(* The breaker's operations are atomic here, which is what one caller sees  *)
(* (BreakerOneCaller).  Ages stand for times: windowAge is the time since   *)
(* window_start_ms, openAge the time since opened_at_ms, both counted up to *)
(* the duration they are compared with, so that time needs no bound.        *)
(***************************************************************************)
EXTENDS Integers

CONSTANTS
  RetryMax,         \* retry_max_attempts
  Rate,             \* burst of the GCRA limiter, rate_limit.max(1)
  MinRequests, ThNum, ThDen, Window, HalfOpenTimeout,  \* the breaker's, as there
  MaxDrops,         \* bound: times the caller drops the future at an await
  MaxRequests       \* bound: no call begins with more counted in the window

ASSUME ClientAssumption ==
  /\ RetryMax \in Nat /\ Rate \in Nat \ {0}
  /\ MinRequests \in Nat /\ ThNum \in Nat /\ ThDen \in Nat \ {0}
  /\ Window \in Nat /\ HalfOpenTimeout \in Nat
  /\ MaxDrops \in Nat /\ MaxRequests \in Nat

VARIABLES
  circuit, requests, failures, windowAge, openAge,  \* the CircuitBreaker
  gauge,    \* outbound_circuit_breaker_state
  counted,  \* outbound_requests_total, all labels: what the current call has added
  turnedAway, \* history: sends of the current call that the shutdown flag refused
  retried,  \* outbound_retry_attempts_total: what the current call has added
  unchecked,\* heartbeat_beats_total minus heartbeat_upstream_checks_total
  tokens,   \* cells the limiter can hand out now
  phase,    \* where the call is
  attempt,  \* retries so far
  result,   \* of the last send
  is_shutting_down, \* the client's flag
  upstream, \* environment: "healthy" or "failing"
  drops     \* futures dropped so far

env == <<is_shutting_down, upstream, drops>>
breaker == <<circuit, requests, failures, windowAge, openAge>>
counters == <<counted, turnedAway, retried, unchecked>>
vars == <<breaker, gauge, counters, tokens, phase, attempt, result, env>>

\* What one request can come to.
Outcomes == {"2xx", "3xx", "429", "5xx", "4xx",
             "timeout", "connect", "tls", "bad_url", "other"}
Transient == {"transient", "shutting_down", "breaker_open", "rate_limited"}
Results == {"none", "ok", "fatal"} \cup Transient

Init ==
  /\ circuit = "Closed" /\ requests = 0 /\ failures = 0
  /\ windowAge = 0 /\ openAge = 0
  /\ gauge = "Closed" /\ tokens = Rate
  /\ counted = 0 /\ turnedAway = 0 /\ retried = 0 /\ unchecked = 0
  /\ is_shutting_down = FALSE
  /\ phase = "idle" /\ attempt = 0 /\ result = "none"
  /\ upstream \in {"healthy", "failing"} /\ drops = 0

\* The next tick of the worker counts a beat; send_with_retry starts with
\* attempt 0.
Begin ==
  /\ phase = "idle"
  /\ requests + RetryMax < MaxRequests \/ windowAge = Window
  /\ phase' = "send" /\ attempt' = 0 /\ result' = "none"
  /\ unchecked' = unchecked + 1 /\ counted' = 0 /\ turnedAway' = 0 /\ retried' = 0
  /\ UNCHANGED <<breaker, gauge, tokens, env>>

-----------------------------------------------------------------------------
(* send, up to the request *)

count == counted' = counted + 1 /\ UNCHANGED <<turnedAway, retried, unchecked>>

\* The flag answers before the policy stack: no count, no gauge, no breaker.
RefuseShuttingDown ==
  /\ phase = "send" /\ is_shutting_down
  /\ result' = "shutting_down" /\ phase' = "decide" /\ turnedAway' = turnedAway + 1
  /\ UNCHANGED <<breaker, gauge, counted, retried, unchecked, tokens, attempt, env>>

\* Mutant of allow_request: a half-open circuit admits nobody but the caller
\* that moved it there.
allow_request_once == circuit = "Closed" \/ (circuit = "Open" /\ openAge = HalfOpenTimeout)

allow_request == circuit # "Open" \/ openAge = HalfOpenTimeout
AfterAllow == IF circuit = "Open" THEN "HalfOpen" ELSE circuit

BreakerRefuses ==
  /\ phase = "send" /\ ~is_shutting_down /\ ~allow_request
  /\ gauge' = circuit /\ result' = "breaker_open" /\ phase' = "decide" /\ count
  /\ UNCHANGED <<breaker, tokens, attempt, env>>

\* Mutant of RateLimited: a local refusal is not counted.
RateLimitedUncounted ==
  /\ phase = "send" /\ ~is_shutting_down /\ allow_request /\ tokens = 0
  /\ circuit' = AfterAllow
  /\ result' = "rate_limited" /\ phase' = "decide"
  /\ UNCHANGED <<requests, failures, windowAge, openAge, gauge, counters, tokens, attempt, env>>

\* The breaker has already answered, and its answer may have moved it.
RateLimited ==
  /\ phase = "send" /\ ~is_shutting_down /\ allow_request /\ tokens = 0
  /\ circuit' = AfterAllow
  /\ result' = "rate_limited" /\ phase' = "decide" /\ count
  /\ UNCHANGED <<requests, failures, windowAge, openAge, gauge, tokens, attempt, env>>

Execute ==
  /\ phase = "send" /\ ~is_shutting_down /\ allow_request /\ tokens > 0
  /\ circuit' = AfterAllow
  /\ tokens' = tokens - 1
  /\ phase' = "executing"
  /\ UNCHANGED <<requests, failures, windowAge, openAge, gauge, counters, attempt, result, env>>

-----------------------------------------------------------------------------
(* classify *)

RecordsSuccess(o) == o \in {"2xx", "3xx", "4xx"}
Classified(o) ==
  CASE o \in {"2xx", "3xx"} -> "ok"
    [] o = "4xx"            -> "fatal"
    [] OTHER                -> "transient"

\* record_success; with one caller the circuit is never Open here, since the
\* request went out while it was Closed or HalfOpen and nobody else moves it
Succeeded ==
  /\ circuit' = "Closed"
  /\ UNCHANGED openAge
  /\ IF circuit = "HalfOpen"
       THEN requests' = 0 /\ failures' = 0 /\ windowAge' = 0
     ELSE IF windowAge = Window
       THEN requests' = 1 /\ failures' = 0 /\ windowAge' = 0
     ELSE requests' = requests + 1 /\ UNCHANGED <<failures, windowAge>>

\* record_failure
Failed ==
  IF circuit = "HalfOpen"
    THEN circuit' = "Open" /\ openAge' = 0 /\ UNCHANGED <<requests, failures, windowAge>>
    ELSE LET stale == windowAge = Window
             r == IF stale THEN 1 ELSE requests + 1
             f == IF stale THEN 1 ELSE failures + 1
             trip == r >= MinRequests /\ f * ThDen >= ThNum * r
         IN /\ requests' = r /\ failures' = f
            /\ windowAge' = IF stale THEN 0 ELSE windowAge
            /\ circuit' = IF trip THEN "Open" ELSE circuit
            /\ openAge' = IF trip THEN 0 ELSE openAge

\* Mutant of Respond: the gauge is only written by a refusal.
RespondUngauged(o) ==
  /\ phase = "executing"
  /\ o \in (IF upstream = "healthy" THEN {"2xx", "3xx"} ELSE Outcomes)
  /\ IF RecordsSuccess(o) THEN Succeeded ELSE Failed
  /\ result' = Classified(o) /\ phase' = "decide" /\ count
  /\ UNCHANGED <<gauge, tokens, attempt, env>>

Respond(o) ==
  /\ phase = "executing"
  /\ o \in (IF upstream = "healthy" THEN {"2xx", "3xx"} ELSE Outcomes)
  /\ IF RecordsSuccess(o) THEN Succeeded ELSE Failed
  /\ result' = Classified(o) /\ gauge' = circuit' /\ phase' = "decide" /\ count
  /\ UNCHANGED <<tokens, attempt, env>>

-----------------------------------------------------------------------------
(* send_with_retry *)

Return ==
  /\ phase = "decide"
  /\ result \notin Transient \/ attempt >= RetryMax
  /\ phase' = "idle" /\ unchecked' = unchecked - 1
  /\ UNCHANGED <<breaker, gauge, counted, turnedAway, retried, tokens, attempt, result, env>>

\* Mutant of Retry: one attempt too many.
RetryOnceMore ==
  /\ phase = "decide"
  /\ result \in Transient /\ attempt <= RetryMax
  /\ attempt' = attempt + 1 /\ phase' = "sleeping"
  /\ retried' = retried + 1
  /\ UNCHANGED <<breaker, gauge, counted, turnedAway, unchecked, tokens, result, env>>

Retry ==
  /\ phase = "decide"
  /\ result \in Transient /\ attempt < RetryMax
  /\ attempt' = attempt + 1 /\ phase' = "sleeping"
  /\ retried' = retried + 1
  /\ UNCHANGED <<breaker, gauge, counted, turnedAway, unchecked, tokens, result, env>>

\* Mutant of Wake: the retry is a new call of send_with_retry, from attempt 0.
WakeAnew ==
  /\ phase = "sleeping" /\ phase' = "send" /\ attempt' = 0
  /\ counted' = 0 /\ turnedAway' = 0 /\ retried' = 0
  /\ UNCHANGED <<breaker, gauge, unchecked, tokens, result, env>>

\* full_jitter may draw any delay from 0 up, so no time need pass.
Wake ==
  /\ phase = "sleeping" /\ phase' = "send"
  /\ UNCHANGED <<breaker, gauge, counters, tokens, attempt, result, env>>

Drop ==
  /\ drops < MaxDrops /\ drops' = drops + 1
  /\ phase \in {"executing", "sleeping"} /\ phase' = "idle"
  /\ UNCHANGED <<breaker, gauge, counters, tokens, attempt, result, is_shutting_down, upstream>>

-----------------------------------------------------------------------------
(* The environment: time, the limiter's refill (governor), the upstream *)

Older(age, limit) == IF age < limit THEN age + 1 ELSE age

\* A tick is a second: it replenishes the whole per_second quota.  Refill is a
\* single cell coming back within one.
Tick ==
  /\ tokens' = Rate
  /\ windowAge' = Older(windowAge, Window)
  /\ openAge' = Older(openAge, HalfOpenTimeout)
  /\ UNCHANGED <<circuit, requests, failures, gauge, counters, phase, attempt, result, env>>

Refill ==
  /\ tokens < Rate /\ tokens' = tokens + 1
  /\ UNCHANGED <<breaker, gauge, counters, phase, attempt, result, env>>

UpstreamChanges ==
  /\ upstream' = IF upstream = "healthy" THEN "failing" ELSE "healthy"
  /\ UNCHANGED <<breaker, gauge, counters, tokens, phase, attempt, result, is_shutting_down, drops>>

\* Another task calls shutdown, which never takes the flag back (ClientDrain has
\* the rest of it).
Shutdown ==
  /\ ~is_shutting_down /\ is_shutting_down' = TRUE
  /\ UNCHANGED <<breaker, gauge, counters, tokens, phase, attempt, result, upstream, drops>>

send == RefuseShuttingDown \/ BreakerRefuses \/ RateLimited \/ Execute \/ \E o \in Outcomes : Respond(o)
send_with_retry == send \/ Return \/ Retry \/ Wake

Next == Begin \/ send_with_retry \/ Drop \/ Tick \/ Refill \/ UpstreamChanges \/ Shutdown

Spec == Init /\ [][Next]_vars

(***************************************************************************)
(* Time passes and the limiter refills; a call that has begun goes on, the *)
(* request included (its timeout ends it); the worker's loop keeps calling *)
(* (heartbeat/src/worker.rs:94).  Nothing is assumed of the upstream.      *)
(***************************************************************************)
FairSpec ==
  Spec /\ WF_vars(Tick) /\ WF_vars(Refill) /\ WF_vars(Begin) /\ WF_vars(send_with_retry)

-----------------------------------------------------------------------------
(* Properties *)

\* Every variable has its type.
TypeOK ==
  /\ circuit \in {"Closed", "Open", "HalfOpen"} /\ gauge \in {"Closed", "Open", "HalfOpen"}
  /\ requests \in Nat /\ failures \in Nat
  /\ windowAge \in 0..Window /\ openAge \in 0..HalfOpenTimeout
  /\ counted \in 0..RetryMax + 1 /\ turnedAway \in 0..RetryMax + 1
  /\ retried \in 0..RetryMax /\ unchecked \in Nat
  /\ tokens \in 0..Rate /\ attempt \in 0..RetryMax
  /\ phase \in {"idle", "send", "executing", "decide", "sleeping"}
  /\ result \in Results /\ is_shutting_down \in BOOLEAN /\ upstream \in {"healthy", "failing"} /\ drops \in 0..MaxDrops

\* The gauge is written after every send but not after a rate-limited or a
\* dropped one, which can leave it behind: it shows the breaker's state,
\* or shows Open for a circuit that is already half open.  It never hides an
\* Open circuit or invents one.
GaugeLag == gauge = circuit \/ (circuit = "HalfOpen" /\ gauge = "Open")

\* The counters account for every send: of its five exits four are counted under
\* one label each, and the fifth, a send that finds the client shutting down, is
\* not counted at all although its retries are.  So outbound_requests_total and
\* outbound_retry_attempts_total agree until shutdown is called and differ by
\* the sends turned away after it.  Each beat is followed by one check, except
\* that a dropped call leaves its last send and its check uncounted.
CountersAgree ==
  /\ phase # "idle" =>
       counted + turnedAway = attempt + (IF phase = "decide" THEN 1 ELSE 0)
  /\ turnedAway > 0 => is_shutting_down
  /\ retried = attempt
  /\ unchecked = drops + (IF phase = "idle" THEN 0 ELSE 1)

\* A call to send_with_retry comes to an end, whatever the upstream does.
CallReturns == phase = "send" ~> phase = "idle"

\* When the upstream stays healthy and the client is not shut down, the circuit
\* closes again for good: no refused, rate-limited or abandoned probe leaves the
\* breaker stuck.
Recovers == <>[](upstream = "healthy" /\ ~is_shutting_down) => <>[](circuit = "Closed")
=============================================================================
