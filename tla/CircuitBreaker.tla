--------------------------- MODULE CircuitBreaker ---------------------------
(***************************************************************************)
(* The lock-free circuit breaker of resilient-client/src/circuit_breaker.rs *)
(* as several threads use it at once.  Every load, store, fetch_add, CAS    *)
(* and clock read of the code is one step, so a thread can be overtaken     *)
(* between any two of them.  A caller asks allow_request, performs its      *)
(* request, and reports it with record_success or record_failure; a caller  *)
(* that is rate limited, or whose future is dropped, reports nothing        *)
(* (client.rs, send).                                                       *)
(***************************************************************************)
EXTENDS Integers, FiniteSets

CONSTANTS
  Threads,          \* the tasks that share one breaker
  MinRequests,      \* min_requests
  ThNum, ThDen,     \* failure_threshold = ThNum / ThDen
  Window,           \* window_duration_ms
  HalfOpenTimeout,  \* half_open_timeout_ms
  ClockStepsBack,   \* TRUE: SystemTime may be set back while the program runs
  Earliest,         \* what now_ms() returns at the earliest: 0 if the system
                    \* time may be before the epoch (unwrap_or_default), else 1
  MaxTime,          \* bound: the clock stops here
  MaxRequests       \* bound: no new call starts once this many are counted

ASSUME BreakerAssumption ==
  /\ IsFiniteSet(Threads) /\ Threads # {}
  /\ MinRequests \in Nat /\ ThNum \in Nat /\ ThDen \in Nat \ {0}
  /\ Window \in Nat /\ HalfOpenTimeout \in Nat
  /\ ClockStepsBack \in BOOLEAN /\ Earliest \in {0, 1}
  /\ MaxTime \in Nat \ {0} /\ MaxRequests \in Nat

VARIABLES
  state,            \* AtomicU8
  window_requests,  \* AtomicU32
  window_failures,  \* AtomicU32
  window_start,     \* AtomicU64, a time
  opened_at,        \* AtomicU64, a time; 0 = never opened
  now,              \* what now_ms() returns
  pc,               \* where each thread is
  loc               \* the locals of each thread's current call

shared == <<state, window_requests, window_failures, window_start, opened_at>>
vars == <<shared, now, pc, loc>>

CbState == {"Closed", "Open", "HalfOpen"}

(***************************************************************************)
(* A thread's locals: the state it matched on, the outcome it reports, the *)
(* atomic it last loaded, the clock value it last read.                    *)
(***************************************************************************)
Locals == [seen : CbState, ok : BOOLEAN, reg : Nat, clk : Nat]
NoLocals == [seen |-> "Closed", ok |-> TRUE, reg |-> 0, clk |-> 0]

ResetPC == {"rotate_requests", "rotate_failures",
            "reset_start", "reset_requests", "reset_failures"}
PC == ResetPC \cup
      {"idle", "allow_opened_at", "allow_now", "allow_cas", "sent",
       "store_closed", "reset_now", "rotate_start", "rotate_now", "rotate_cas",
       "add_request", "add_failure", "open_state", "open_now", "open_at"}

\* u64::saturating_sub
Since(from, to) == IF to > from THEN to - from ELSE 0

Init ==
  /\ state = "Closed"
  /\ window_requests = 0 /\ window_failures = 0
  /\ now \in Earliest..1 /\ window_start = now /\ opened_at = 0
  /\ pc = [t \in Threads |-> "idle"]
  /\ loc = [t \in Threads |-> NoLocals]

Goto(t, from, to) == pc[t] = from /\ pc' = [pc EXCEPT ![t] = to]
Return(t, from) == Goto(t, from, "idle") /\ loc' = [loc EXCEPT ![t] = NoLocals]

-----------------------------------------------------------------------------
(* allow_request *)

AllowState(t) ==
  /\ window_requests < MaxRequests
  /\ loc' = [loc EXCEPT ![t].seen = state]
  /\ Goto(t, "idle", IF state = "Open" THEN "allow_opened_at" ELSE "sent")
  /\ UNCHANGED <<shared, now>>

AllowOpenedAt(t) ==
  /\ \/ /\ opened_at > 0
        /\ Goto(t, "allow_opened_at", "allow_now")
        /\ loc' = [loc EXCEPT ![t].reg = opened_at]
     \/ opened_at = 0 /\ Return(t, "allow_opened_at")
  /\ UNCHANGED <<shared, now>>

\* Mutant of AllowNow: the comparison with half_open_timeout is off by one.
AllowNowEarly(t) ==
  /\ IF Since(loc[t].reg, now) + 1 >= HalfOpenTimeout
       THEN Goto(t, "allow_now", "allow_cas") /\ UNCHANGED loc
       ELSE Return(t, "allow_now")
  /\ UNCHANGED <<shared, now>>

AllowNow(t) ==
  /\ IF Since(loc[t].reg, now) >= HalfOpenTimeout
       THEN Goto(t, "allow_now", "allow_cas") /\ UNCHANGED loc
       ELSE Return(t, "allow_now")
  /\ UNCHANGED <<shared, now>>

AllowCas(t) ==
  /\ IF state = "Open"
       THEN /\ state' = "HalfOpen"
            /\ Goto(t, "allow_cas", "sent") /\ UNCHANGED loc
       ELSE Return(t, "allow_cas") /\ UNCHANGED state
  /\ UNCHANGED <<window_requests, window_failures, window_start, opened_at, now>>

allow_request(t) ==
  AllowState(t) \/ AllowOpenedAt(t) \/ AllowNow(t) \/ AllowCas(t)

(* The call was admitted but is never reported: the local rate limiter     *)
(* refused it, or its future was dropped while it waited for the response. *)
Abandon(t) == Return(t, "sent") /\ UNCHANGED <<shared, now>>

-----------------------------------------------------------------------------
(* record_success, record_failure *)

RecordSuccess(t) ==
  /\ CASE state = "HalfOpen" -> Goto(t, "sent", "store_closed")
       [] state = "Closed"   -> Goto(t, "sent", "rotate_start")
       [] state = "Open"     -> Goto(t, "sent", "idle")
  /\ loc' = [loc EXCEPT ![t] = IF state = "Open" THEN NoLocals
                               ELSE [NoLocals EXCEPT !.seen = state]]
  /\ UNCHANGED <<shared, now>>

RecordFailure(t) ==
  /\ CASE state = "HalfOpen" -> Goto(t, "sent", "open_state")
       [] state = "Closed"   -> Goto(t, "sent", "rotate_start")
       [] state = "Open"     -> Goto(t, "sent", "idle")
  /\ loc' = [loc EXCEPT ![t] = IF state = "Open" THEN NoLocals
                               ELSE [NoLocals EXCEPT !.seen = state, !.ok = FALSE]]
  /\ UNCHANGED <<shared, now>>

StoreClosed(t) ==
  /\ state' = "Closed"
  /\ Goto(t, "store_closed", "reset_now")
  /\ UNCHANGED <<window_requests, window_failures, window_start, opened_at, now, loc>>

AddRequest(t) ==
  /\ window_requests' = window_requests + 1
  /\ IF loc[t].ok
       THEN Return(t, "add_request")
       ELSE /\ Goto(t, "add_request", "add_failure")
            /\ loc' = [loc EXCEPT ![t].reg = window_requests + 1]
  /\ UNCHANGED <<state, window_failures, window_start, opened_at, now>>

Tripped(requests, failures) ==
  requests >= MinRequests /\ failures * ThDen >= ThNum * requests

AddFailure(t) ==
  /\ window_failures' = window_failures + 1
  /\ IF Tripped(loc[t].reg, window_failures + 1)
       THEN Goto(t, "add_failure", "open_state") /\ UNCHANGED loc
       ELSE Return(t, "add_failure")
  /\ UNCHANGED <<state, window_requests, window_start, opened_at, now>>

-----------------------------------------------------------------------------
(* open_circuit: the state is stored before the time *)

OpenState(t) ==
  /\ state' = "Open"
  /\ Goto(t, "open_state", "open_now")
  /\ UNCHANGED <<window_requests, window_failures, window_start, opened_at, now, loc>>

OpenNow(t) ==
  /\ Goto(t, "open_now", "open_at")
  /\ loc' = [loc EXCEPT ![t].clk = now]
  /\ UNCHANGED <<shared, now>>

\* Mutant of OpenAt: the time is never stored.
OpenAtForgotten(t) == Return(t, "open_at") /\ UNCHANGED <<shared, now>>

OpenAt(t) ==
  /\ opened_at' = loc[t].clk
  /\ Return(t, "open_at")
  /\ UNCHANGED <<state, window_requests, window_failures, window_start, now>>

open_circuit(t) == OpenState(t) \/ OpenNow(t) \/ OpenAt(t)

-----------------------------------------------------------------------------
(* reset_window *)

ResetNow(t) ==
  /\ Goto(t, "reset_now", "reset_start")
  /\ loc' = [loc EXCEPT ![t].clk = now]
  /\ UNCHANGED <<shared, now>>

ResetStart(t) ==
  /\ window_start' = loc[t].clk
  /\ Goto(t, "reset_start", "reset_requests")
  /\ UNCHANGED <<state, window_requests, window_failures, opened_at, now, loc>>

ResetRequests(t) ==
  /\ window_requests' = 0
  /\ Goto(t, "reset_requests", "reset_failures")
  /\ UNCHANGED <<state, window_failures, window_start, opened_at, now, loc>>

ResetFailures(t) ==
  /\ window_failures' = 0
  /\ Return(t, "reset_failures")
  /\ UNCHANGED <<state, window_requests, window_start, opened_at, now>>

reset_window(t) ==
  ResetNow(t) \/ ResetStart(t) \/ ResetRequests(t) \/ ResetFailures(t)

(* maybe_rotate_window: the clearing stores follow the CAS that elects the *)
(* thread, they are not part of it                                         *)

RotateStart(t) ==
  /\ Goto(t, "rotate_start", "rotate_now")
  /\ loc' = [loc EXCEPT ![t].reg = window_start]
  /\ UNCHANGED <<shared, now>>

RotateNow(t) ==
  /\ IF Since(loc[t].reg, now) >= Window
       THEN /\ Goto(t, "rotate_now", "rotate_cas")
            /\ loc' = [loc EXCEPT ![t].clk = now]
       ELSE /\ Goto(t, "rotate_now", "add_request")
            /\ UNCHANGED loc
  /\ UNCHANGED <<shared, now>>

RotateCas(t) ==
  /\ IF window_start = loc[t].reg
       THEN window_start' = loc[t].clk /\ Goto(t, "rotate_cas", "rotate_requests")
       ELSE UNCHANGED window_start /\ Goto(t, "rotate_cas", "add_request")
  /\ UNCHANGED <<state, window_requests, window_failures, opened_at, now, loc>>

RotateRequests(t) ==
  /\ window_requests' = 0
  /\ Goto(t, "rotate_requests", "rotate_failures")
  /\ UNCHANGED <<state, window_failures, window_start, opened_at, now, loc>>

\* Mutant of RotateFailures: a rotation forgets the failure counter.
RotateFailuresKept(t) ==
  /\ Goto(t, "rotate_failures", "add_request")
  /\ UNCHANGED <<shared, now, loc>>

RotateFailures(t) ==
  /\ window_failures' = 0
  /\ Goto(t, "rotate_failures", "add_request")
  /\ UNCHANGED <<state, window_requests, window_start, opened_at, now, loc>>

maybe_rotate_window(t) ==
  \/ RotateStart(t) \/ RotateNow(t) \/ RotateCas(t)
  \/ RotateRequests(t) \/ RotateFailures(t)

-----------------------------------------------------------------------------
(* The wall clock, and callers that stay away *)

Tick == now < MaxTime /\ now' = now + 1 /\ UNCHANGED <<shared, pc, loc>>

SetBack == /\ ClockStepsBack /\ now > Earliest
           /\ now' = now - 1 /\ UNCHANGED <<shared, pc, loc>>

NoCallers == (\A t \in Threads : pc[t] = "idle") /\ UNCHANGED vars

record_success_or_failure(t) ==
  \/ RecordSuccess(t) \/ RecordFailure(t) \/ StoreClosed(t)
  \/ AddRequest(t) \/ AddFailure(t)

Step(t) ==
  \/ allow_request(t) \/ Abandon(t) \/ record_success_or_failure(t)
  \/ open_circuit(t) \/ reset_window(t) \/ maybe_rotate_window(t)

Next == Tick \/ SetBack \/ NoCallers \/ \E t \in Threads : Step(t)

Spec == Init /\ [][Next]_vars

-----------------------------------------------------------------------------
(* Properties *)

\* Every variable has its type.
TypeOK ==
  /\ state \in CbState
  /\ window_requests \in Nat /\ window_failures \in Nat
  /\ now \in Earliest..MaxTime /\ window_start \in Nat /\ opened_at \in Nat
  /\ pc \in [Threads -> PC]
  /\ loc \in [Threads -> Locals]

\* allow_request refuses for ever when the circuit is Open with opened_at = 0
\* (line 92).  open_circuit publishes Open before the time, so the pair is
\* visible; it must only be while some thread still owes the store of the time,
\* and a circuit that was ever half open must keep a usable time to re-open on.
\* It is a property of programs whose clock reads past the epoch: a now_ms() of
\* 0 (line 175) is stored as the mark of a circuit that never opened.
NeverWedgedOpen ==
  /\ state = "Open" /\ opened_at = 0
       => \E t \in Threads : pc[t] \in {"open_now", "open_at"}
  /\ state = "HalfOpen" => opened_at > 0

\* The two window counters are cleared by two stores and bumped by two
\* fetch_adds, none of them together, so the failure ratio can pass 1.  When no
\* thread is inside a clear, the counted failures exceed the counted requests by
\* less than the number of threads: the error does not build up over rotations.
AddingFailure == {t \in Threads : pc[t] = "add_failure"}
SkewBound ==
  (\A t \in Threads : pc[t] \notin ResetPC)
    => window_failures + Cardinality(AddingFailure)
         <= window_requests + Cardinality(Threads) - 1

\* No clock read gives 0, the mark of a circuit that never opened.
AfterEpoch == Earliest = 1

\* The state diagram of the module documentation: Closed -> Open -> HalfOpen,
\* and back from HalfOpen to Closed or Open; no other change of state.
DiagramEdges == {<<"Closed", "Open">>, <<"Open", "HalfOpen">>,
                 <<"HalfOpen", "Closed">>, <<"HalfOpen", "Open">>}
DiagramTransitions == [][(<<state, state'>>) \in DiagramEdges]_state
=============================================================================
