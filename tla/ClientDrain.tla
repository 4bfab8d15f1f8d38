---------------------------- MODULE ClientDrain ----------------------------
(***************************************************************************)
(* The drain protocol of ResilientHttpClient (client.rs): concurrent send   *)
(* calls, shutdown, and the three shared cells they meet on, the flag       *)
(* is_shutting_down, the counter in_flight and the Notify all_done; and the *)
(* registry of policies, where the first calls to a target meet.  One step  *)
(* per atomic access.  The calls go to one target.  Its PolicySet is an     *)
(* identity here, and what it decides the choice to admit or refuse;        *)
(* CircuitBreaker and OutboundClient model that decision.                   *)
(*                                                                          *)
(* shutdown stores the flag with Release and then loads in_flight with      *)
(* Acquire.  These orderings do not keep a store before a later load of     *)
(* another cell, and on x86-64 the store may wait in the core's store       *)
(* buffer.  That happens to the calls in Delayed; the others store at once. *)
(***************************************************************************)
EXTENDS Integers, FiniteSets

CONSTANTS
  Callers,        \* tasks that call send
  Shutters,       \* tasks that call shutdown, once each
  Delayed,        \* those of them whose flag store may be delayed past later loads
  Timed,          \* those of them whose timeout can expire
  MaxCancels      \* bound: send futures dropped while they await the response

ASSUME DrainAssumption ==
  /\ IsFiniteSet(Callers) /\ IsFiniteSet(Shutters)
  /\ Delayed \subseteq Shutters /\ Timed \subseteq Shutters /\ MaxCancels \in Nat

VARIABLES
  is_shutting_down,  \* AtomicBool
  in_flight,         \* AtomicUsize
  waiters,           \* shutters that hold a Notified future of all_done
  notified,          \* those of them a notify_waiters has reached
  buffered,          \* shutters whose flag store is still in their store buffer
  policy,            \* the PolicySet registered for the target, 0 for none
  held,              \* the PolicySet each send in progress has an Arc of, 0 for none
  cpc, spc,          \* where each caller and each shutter is
  left,              \* in_flight as reported by ShutdownError::Timeout
  leaked             \* history: sends dropped between fetch_add and fetch_sub

cells == <<is_shutting_down, in_flight, waiters, notified, buffered, policy>>
vars == <<cells, held, cpc, spc, left, leaked>>

CallerPC == {"idle", "lookup", "entry", "checked", "executing", "finishing", "last",
             "notify"}
ShutterPC == {"start", "load1", "register", "load2", "poll", "wait", "expired",
              "ok", "timeout"}

\* new registers a PolicySet for every configured target; any other target has
\* none.
Init ==
  /\ is_shutting_down = FALSE /\ in_flight = 0
  /\ policy \in {0, 1} /\ held = [c \in Callers |-> 0]
  /\ waiters = {} /\ notified = {} /\ buffered = {}
  /\ cpc = [c \in Callers |-> "idle"]
  /\ spc = [s \in Shutters |-> "start"]
  /\ left = [s \in Shutters |-> 0]
  /\ leaked = 0

CHold(c, from, to, p) ==
  /\ cpc[c] = from /\ cpc' = [cpc EXCEPT ![c] = to]
  /\ held' = [held EXCEPT ![c] = p]
  /\ UNCHANGED <<spc, left>>
\* A send that returns drops its Arc.
CGoto(c, from, to) == CHold(c, from, to, IF to = "idle" THEN 0 ELSE held[c])
SGoto(s, from, to) ==
  spc[s] = from /\ spc' = [spc EXCEPT ![s] = to] /\ UNCHANGED <<held, cpc, leaked>>

-----------------------------------------------------------------------------
(* send *)

\* Mutant of CheckFlag: send does not look at the flag.
CheckFlagSkipped(c) ==
  /\ CGoto(c, "idle", "lookup")
  /\ UNCHANGED <<cells, leaked>>

\* A send that finds the flag set returns Transient and changes nothing.
CheckFlag(c) ==
  /\ ~is_shutting_down
  /\ CGoto(c, "idle", "lookup")
  /\ UNCHANGED <<cells, leaked>>

(* policy_for *)

PolicyGet(c) ==
  /\ IF policy = 0 THEN CGoto(c, "lookup", "entry") ELSE CHold(c, "lookup", "checked", policy)
  /\ UNCHANGED <<cells, leaked>>

\* Mutant of PolicyEntry: a plain insert in place of entry().or_insert_with.
PolicyEntryInserts(c) ==
  /\ policy' = policy + 1
  /\ CHold(c, "entry", "checked", policy')
  /\ UNCHANGED <<is_shutting_down, in_flight, waiters, notified, buffered, leaked>>

\* entry() locks the shard of the key: the fallback PolicySet is made only if no
\* other send has registered one since the miss.
PolicyEntry(c) ==
  /\ policy' = IF policy = 0 THEN 1 ELSE policy
  /\ CHold(c, "entry", "checked", policy')
  /\ UNCHANGED <<is_shutting_down, in_flight, waiters, notified, buffered, leaked>>

policy_for(c) == PolicyGet(c) \/ PolicyEntry(c)

\* The breaker or the rate limiter refuses.
PolicyRefuses(c) ==
  /\ CGoto(c, "checked", "idle")
  /\ UNCHANGED <<cells, leaked>>

AddInFlight(c) ==
  /\ in_flight' = in_flight + 1
  /\ CGoto(c, "checked", "executing")
  /\ UNCHANGED <<is_shutting_down, waiters, notified, buffered, policy, leaked>>

\* Mutant of Respond: an early return on an error skips finish_in_flight.
RespondReturns(c) ==
  /\ CGoto(c, "executing", "finishing") \/ CGoto(c, "executing", "idle")
  /\ UNCHANGED <<cells, leaked>>

\* execute returns, a response or an error or its timeout, and is classified.
Respond(c) ==
  /\ CGoto(c, "executing", "finishing")
  /\ UNCHANGED <<cells, leaked>>

\* The caller drops the send future while execute is awaited: nothing after
\* the await runs.
Cancel(c) ==
  /\ leaked < MaxCancels
  /\ leaked' = leaked + 1
  /\ CGoto(c, "executing", "idle")
  /\ UNCHANGED cells

(* finish_in_flight *)

\* Mutant of FetchSub: fetch_sub taken to return the new value.
FetchSubOffByOne(c) ==
  /\ in_flight' = in_flight - 1
  /\ CGoto(c, "finishing", IF in_flight = 0 THEN "last" ELSE "idle")
  /\ UNCHANGED <<is_shutting_down, waiters, notified, buffered, policy, leaked>>

FetchSub(c) ==
  /\ in_flight' = in_flight - 1
  /\ CGoto(c, "finishing", IF in_flight = 1 THEN "last" ELSE "idle")
  /\ UNCHANGED <<is_shutting_down, waiters, notified, buffered, policy, leaked>>

LoadFlag(c) ==
  /\ CGoto(c, "last", IF is_shutting_down THEN "notify" ELSE "idle")
  /\ UNCHANGED <<cells, leaked>>

NotifyWaiters(c) ==
  /\ notified' = notified \cup waiters
  /\ CGoto(c, "notify", "idle")
  /\ UNCHANGED <<is_shutting_down, in_flight, waiters, buffered, policy, leaked>>

finish_in_flight(c) == FetchSub(c) \/ LoadFlag(c) \/ NotifyWaiters(c)

-----------------------------------------------------------------------------
(* shutdown *)

StoreFlag(s) ==
  /\ IF s \in Delayed
       THEN buffered' = buffered \cup {s} /\ UNCHANGED is_shutting_down
       ELSE is_shutting_down' = TRUE /\ UNCHANGED buffered
  /\ SGoto(s, "start", "load1")
  /\ UNCHANGED <<in_flight, waiters, notified, policy, left>>

\* The buffered store reaches memory.
Flush(s) ==
  /\ s \in buffered
  /\ is_shutting_down' = TRUE /\ buffered' = buffered \ {s}
  /\ UNCHANGED <<in_flight, waiters, notified, policy, held, cpc, spc, left, leaked>>

Load1(s) ==
  /\ SGoto(s, "load1", IF in_flight = 0 THEN "ok" ELSE "register")
  /\ UNCHANGED <<cells, left>>

\* A Notified future receives every notify_waiters from its creation on, even
\* before it is first polled (tokio::sync::Notify).
Register(s) ==
  /\ waiters' = waiters \cup {s}
  /\ SGoto(s, "register", "load2")
  /\ UNCHANGED <<is_shutting_down, in_flight, notified, buffered, policy, left>>

\* Mutant of Load2: no second look at the counter.
Load2Skipped(s) ==
  /\ SGoto(s, "load2", "poll")
  /\ UNCHANGED <<cells, left>>

Load2(s) ==
  /\ SGoto(s, "load2", IF in_flight = 0 THEN "ok" ELSE "poll")
  /\ UNCHANGED <<cells, left>>

\* The first poll of the future takes the Notify's lock, which drains the
\* store buffer.
Poll(s) ==
  /\ s \notin buffered
  /\ SGoto(s, "poll", IF s \in notified THEN "ok" ELSE "wait")
  /\ UNCHANGED <<cells, left>>

Woken(s) ==
  /\ s \in notified
  /\ SGoto(s, "wait", "ok")
  /\ UNCHANGED <<cells, left>>

\* Mutant of Expire: the wait starts over when its time is up.
ExpireWaitsAgain(s) ==
  /\ s \in Timed /\ s \notin notified
  /\ SGoto(s, "wait", "load2")
  /\ UNCHANGED <<cells, left>>

\* tokio::time::timeout polls the future before the timer.
Expire(s) ==
  /\ s \in Timed /\ s \notin notified
  /\ SGoto(s, "wait", "expired")
  /\ UNCHANGED <<cells, left>>

Report(s) ==
  /\ left' = [left EXCEPT ![s] = in_flight]
  /\ SGoto(s, "expired", "timeout")
  /\ UNCHANGED cells

-----------------------------------------------------------------------------
send(c) ==
  \/ CheckFlag(c) \/ policy_for(c) \/ PolicyRefuses(c) \/ AddInFlight(c)
  \/ Respond(c) \/ Cancel(c)
  \/ finish_in_flight(c)

shutdown(s) ==
  \/ StoreFlag(s) \/ Load1(s) \/ Register(s) \/ Load2(s) \/ Poll(s)
  \/ Woken(s) \/ Expire(s) \/ Report(s)

\* No send is in progress and every shutdown has returned, or has no deadline
\* and waits for a dropped send or, its flag seen too late, for nobody.
Stopped ==
  /\ \A c \in Callers : cpc[c] = "idle"
  /\ \A s \in Shutters :
       \/ spc[s] \in {"ok", "timeout"}
       \/ spc[s] = "wait" /\ s \notin Timed \cup notified /\ (leaked > 0 \/ s \in Delayed)
  /\ UNCHANGED vars

Next ==
  \/ \E c \in Callers : send(c)
  \/ \E s \in Shutters : shutdown(s) \/ Flush(s)
  \/ Stopped

Spec == Init /\ [][Next]_vars

(***************************************************************************)
(* A send that has begun runs on: execute ends within its timeout          *)
(* (client.rs:270).  Nothing makes a caller begin one or a shutter call     *)
(* shutdown.  A store buffer drains, and a deadline that exists expires.    *)
(***************************************************************************)
Fairness ==
  /\ \A c \in Callers :
       /\ WF_vars(policy_for(c) \/ PolicyRefuses(c) \/ AddInFlight(c))
       /\ WF_vars(Respond(c)) /\ WF_vars(finish_in_flight(c))
  /\ \A s \in Shutters :
       /\ WF_vars(Load1(s) \/ Register(s) \/ Load2(s) \/ Poll(s) \/ Woken(s) \/ Report(s))
       /\ WF_vars(Expire(s)) /\ WF_vars(Flush(s))

FairSpec == Spec /\ Fairness

-----------------------------------------------------------------------------
(* Properties *)

InFlight == {c \in Callers : cpc[c] \in {"executing", "finishing"}}

\* Every variable has its type; in_flight never wraps below 0.
TypeOK ==
  /\ is_shutting_down \in BOOLEAN /\ in_flight \in Nat
  /\ waiters \subseteq Shutters /\ notified \subseteq Shutters
  /\ buffered \subseteq Shutters
  /\ policy \in Nat /\ held \in [Callers -> Nat]
  /\ cpc \in [Callers -> CallerPC] /\ spc \in [Shutters -> ShutterPC]
  /\ left \in [Shutters -> Nat] /\ leaked \in Nat

\* in_flight counts the sends between fetch_add and fetch_sub, plus the ones
\* whose future was dropped there: finish_in_flight is not run by a drop guard.
Accounting == in_flight = Cardinality(InFlight) + leaked

\* However the first calls to a target race, every send past the lookup consults
\* the one PolicySet the registry holds, so no breaker and no rate limiter is
\* consulted that later calls do not see.
OnePolicySet ==
  \A c \in Callers : cpc[c] \notin {"idle", "lookup", "entry"} => held[c] = policy

\* A shutdown that waits and has not been notified.
Waiting(s) == spc[s] = "wait" /\ s \notin notified

\* Somebody is left to notify it: a request still counted, or a finisher on its
\* way to notify_waiters.
Notifier == in_flight > 0 \/ \E c \in Callers : cpc[c] \in {"last", "notify"}

\* The re-check at line 251: a shutdown whose flag store is not delayed never
\* waits with nobody left to notify it, whatever the other calls do.
NoLostWakeup == \A s \in Shutters \ Delayed : Waiting(s) => Notifier

\* Without the help of a deadline a shutdown call returns Ok once the requests
\* it found in flight have ended, provided no send was dropped.
ShutdownWakes ==
  \A s \in Shutters \ (Delayed \cup Timed) :
    [](leaked = 0) => (spc[s] = "load1" ~> spc[s] = "ok")

\* After a shutdown call the client comes to rest for good: the requests that
\* slipped past the flag check end, and no later one starts.
ComesToRest ==
  \A s \in Shutters :
    spc[s] = "load1" ~> [](\A c \in Callers : cpc[c] \notin {"lookup", "entry", "checked", "executing"})

\* A shutdown call with a deadline returns, whatever is lost or dropped.
DeadlineBoundsShutdown ==
  \A s \in Timed : spc[s] = "load1" ~> spc[s] \in {"ok", "timeout"}

\* "Stop accepting new work and wait for in-flight requests to drain": when
\* shutdown has returned Ok, no request is in flight.
OkMeansDrained == (\E s \in Shutters : spc[s] = "ok") => InFlight = {}
=============================================================================
