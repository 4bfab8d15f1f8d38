-------------------------- MODULE BreakerOneCaller --------------------------
(***************************************************************************)
(* The breaker with a single caller, which is how heartbeat, the one        *)
(* program that uses resilient-client, drives it: its worker awaits each    *)
(* send before it starts the next (heartbeat/src/worker.rs, run).           *)
(*                                                                          *)
(* Each operation of CircuitBreaker takes effect at one step: a refused or  *)
(* admitted call where it reads what decides it, opening and closing at the *)
(* clock read whose value is stored, a rotation likewise, a count at its    *)
(* last fetch_add.  The mapping says what the operation in progress has     *)
(* already done, or not yet done, to the abstract state.                    *)
(***************************************************************************)
EXTENDS CircuitBreaker

OneCaller == \E t \in Threads : Threads = {t}

me == CHOOSE t \in Threads : Threads = {t}
here == pc[me]
mine == loc[me]
TrippingPC == {"open_state", "open_now"}

absCircuit ==
  CASE here = "allow_cas" -> "HalfOpen"
    [] here = "reset_now" -> "HalfOpen"
    [] here = "open_now"  -> mine.seen
    [] OTHER -> state

absRequests ==
  IF here \in {"rotate_cas", "rotate_requests", "reset_start", "reset_requests"} THEN 0
  ELSE IF here = "add_failure" \/ (here \in TrippingPC /\ mine.seen = "Closed")
         THEN window_requests - 1
  ELSE window_requests

absFailures ==
  IF here \in {"rotate_cas", "rotate_requests", "rotate_failures",
               "reset_start", "reset_requests", "reset_failures"} THEN 0
  ELSE IF here \in TrippingPC /\ mine.seen = "Closed" THEN window_failures - 1
  ELSE window_failures

absStart == IF here \in {"rotate_cas", "reset_start"} THEN mine.clk ELSE window_start
absOpened == IF here = "open_at" THEN mine.clk ELSE opened_at

absDoing ==
  CASE here \in {"idle", "allow_opened_at", "allow_now", "open_at",
                 "reset_start", "reset_requests", "reset_failures"} -> "idle"
    [] here = "sent" /\ mine.seen = "Closed" -> "sent"
    [] here \in {"rotate_start", "rotate_now"} -> "sent"
    [] here \in {"allow_cas", "store_closed", "reset_now"} -> "probe"
    [] here \in TrippingPC /\ mine.seen = "HalfOpen" -> "probe"
    [] here = "sent" /\ mine.seen # "Closed" -> "probe"
    [] OTHER -> "recording"
absStatus == [t \in Threads |-> absDoing]

Abs == INSTANCE BreakerSpec WITH
         Callers <- Threads,
         circuit <- absCircuit, requests <- absRequests, failures <- absFailures,
         start <- absStart, opened <- absOpened, status <- absStatus

\* With one caller the lock-free code implements the documented breaker: the
\* intermediate states of allow_request, record_success and record_failure
\* are never visible, and each call is one atomic operation of the diagram.
ImplementsBreakerSpec == Abs!Spec
=============================================================================
