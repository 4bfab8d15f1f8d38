---------------------------- MODULE KeyedLimiter ----------------------------
(***************************************************************************)
(* ratelimit::Limiter (ratelimit/src/lib.rs), a keyed rate limiter, as its  *)
(* users meet it: check, until_ready, retain_recent.  The algorithm is the  *)
(* governor crate's and external: a key has a cell that fills by one        *)
(* interval per admission, drains with time and never holds more than a     *)
(* burst of intervals; a key without a cell counts as drained.              *)
(*                                                                          *)
(* Time is a number of ticks, relative to now: a cell's level is the time   *)
(* until it is drained, and the history counts the admissions of the last   *)
(* ticks.                                                                   *)
(***************************************************************************)
EXTENDS Integers

CONSTANTS
  Keys,
  Second,         \* ticks in a second
  Throttled,      \* tasks that call until_ready, once each
  Wants           \* the key each of them asks for, named by an address

VARIABLES
  rate,           \* n of per_second(n)
  cells,          \* the keys that have a cell
  level,          \* ticks until each key's cell is drained
  waiting,        \* "new", "waiting" or "through" for each task of Throttled
  admitted        \* history: each holder's admissions in the last 0 to Second ticks

limiterVars == <<rate, cells, level, waiting, admitted>>

nonzero(n) == IF n < 1 THEN 1 ELSE n

\* Quota::per_second: n cells of burst, one more every n-th part of a second
\* (per_minute: of a minute).
Burst == nonzero(rate)
Interval == Second \div nonzero(rate)

\* A holder is whoever a cell is meant for: the history is counted by holder, the
\* cells are found by key.
LimiterInit(holders) ==
  /\ cells = {} /\ level = [k \in Keys |-> 0]
  /\ waiting = [w \in Throttled |-> "new"]
  /\ admitted = [o \in holders |-> [t \in 0..Second |-> 0]]

\* Mutant of Conforms: a cell that is full to the brim takes one more.
ConformsOneMore(k) == level[k] <= Burst * Interval

\* The cell of k has room for one more interval.
Conforms(k) == level[k] + Interval <= Burst * Interval

Record(o) == admitted' = [admitted EXCEPT ![o] = [t \in 0..Second |-> @[t] + 1]]

Admit(o, k) ==
  /\ Conforms(k)
  /\ level' = [level EXCEPT ![k] = @ + Interval]
  /\ cells' = cells \cup {k}
  /\ Record(o)

CheckOk(o, k) == Admit(o, k) /\ UNCHANGED <<rate, waiting>>
CheckErr(k) == ~Conforms(k) /\ UNCHANGED limiterVars

\* until_key_ready checks, and sleeps until the refusal's earliest time before
\* it checks again; the cell may be gone by then.
UntilReadyWaits(w) ==
  /\ waiting[w] = "new" /\ ~Conforms(Wants[w])
  /\ waiting' = [waiting EXCEPT ![w] = "waiting"]
  /\ UNCHANGED <<rate, cells, level, admitted>>

\* Mutant of UntilReadyReturns: a task that found no room does not look again.
UntilReadyReturnsFirst(w) ==
  /\ waiting[w] = "new" /\ Admit(Wants[w].ip, Wants[w])
  /\ waiting' = [waiting EXCEPT ![w] = "through"]
  /\ UNCHANGED rate

UntilReadyReturns(w) ==
  /\ waiting[w] # "through" /\ Admit(Wants[w].ip, Wants[w])
  /\ waiting' = [waiting EXCEPT ![w] = "through"]
  /\ UNCHANGED rate
until_ready(w) == UntilReadyWaits(w) \/ UntilReadyReturns(w)

\* Keys that have fully recovered lose their cell; what it held is forgotten.
retain_recent ==
  /\ cells # {}
  /\ cells' = {k \in cells : level[k] > 0}
  /\ level' = [k \in Keys |-> IF k \in cells' THEN level[k] ELSE 0]
  /\ UNCHANGED <<rate, waiting, admitted>>

Tick ==
  /\ level' = [k \in Keys |-> IF level[k] > 0 THEN level[k] - 1 ELSE 0]
  /\ admitted' = [o \in DOMAIN admitted |-> [t \in 0..Second |-> IF t = 0 THEN 0 ELSE admitted[o][t - 1]]]
  /\ UNCHANGED <<rate, cells, waiting>>
=============================================================================
