------------------------ MODULE CircuitBreakerProofs ------------------------
(***************************************************************************)
(* Theorems about CircuitBreaker for any set of threads, any threshold and *)
(* any durations, with a clock that may be set back.                       *)
(***************************************************************************)
EXTENDS BreakerOneCaller, FiniteSetTheorems, TLAPS

-----------------------------------------------------------------------------
(* Updates of a thread's locals *)

\* Loading an atomic into a register leaves the locals well typed and the
\* clock values as they were.
LEMMA SetReg ==
  ASSUME NEW f \in [Threads -> Locals], NEW t \in Threads, NEW n \in Nat
  PROVE  /\ [f EXCEPT ![t].reg = n] \in [Threads -> Locals]
         /\ \A u \in Threads : [f EXCEPT ![t].reg = n][u].clk = f[u].clk
BY DEF Locals

\* Matching on the state leaves the locals well typed.
LEMMA SetSeen ==
  ASSUME NEW f \in [Threads -> Locals], NEW t \in Threads, NEW s \in CbState
  PROVE  /\ [f EXCEPT ![t].seen = s] \in [Threads -> Locals]
         /\ \A u \in Threads : [f EXCEPT ![t].seen = s][u].clk = f[u].clk
BY DEF Locals

\* Reading the clock sets the reader's clk and no other.
LEMMA SetClk ==
  ASSUME NEW f \in [Threads -> Locals], NEW t \in Threads, NEW n \in Nat
  PROVE  /\ [f EXCEPT ![t].clk = n] \in [Threads -> Locals]
         /\ [f EXCEPT ![t].clk = n][t].clk = n
         /\ \A u \in Threads \ {t} : [f EXCEPT ![t].clk = n][u].clk = f[u].clk
BY DEF Locals

\* The locals a call begins with are well typed.
LEMMA Fresh ==
  /\ NoLocals \in Locals
  /\ \A s \in CbState : /\ [NoLocals EXCEPT !.seen = s] \in Locals
                        /\ [NoLocals EXCEPT !.seen = s, !.ok = FALSE] \in Locals
BY DEF Locals, NoLocals, CbState

-----------------------------------------------------------------------------
(* Type correctness *)

\* TypeOK is preserved by every step of the breaker.
LEMMA TypeStep == ASSUME TypeOK, [Next]_vars PROVE TypeOK'
<1> USE BreakerAssumption DEF TypeOK, vars, shared, PC, ResetPC, CbState, Goto, Return
<1>1. CASE Tick
  BY <1>1 DEF Tick
<1>2. CASE SetBack
  BY <1>2 DEF SetBack
<1>3. CASE UNCHANGED vars
  BY <1>3
<1>4. ASSUME NEW t \in Threads, Step(t) PROVE TypeOK'
  <2>a. loc[t].clk \in Nat /\ loc[t].reg \in Nat
    BY DEF Locals
  <2>1. CASE AllowState(t)
    BY <2>1, SetSeen, Fresh DEF AllowState
  <2>2. CASE AllowOpenedAt(t)
    BY <2>2, SetReg, Fresh DEF AllowOpenedAt
  <2>3. CASE AllowNow(t)
    BY <2>3, Fresh DEF AllowNow
  <2>4. CASE AllowCas(t)
    BY <2>4, Fresh DEF AllowCas
  <2>5. CASE Abandon(t)
    BY <2>5, Fresh DEF Abandon
  <2>6. CASE RecordSuccess(t)
    BY <2>6, Fresh DEF RecordSuccess
  <2>7. CASE RecordFailure(t)
    BY <2>7, Fresh DEF RecordFailure
  <2>8. CASE StoreClosed(t)
    BY <2>8 DEF StoreClosed
  <2>9. CASE AddRequest(t)
    BY <2>9, SetReg, Fresh DEF AddRequest
  <2>10. CASE AddFailure(t)
    BY <2>10, Fresh DEF AddFailure
  <2>11. CASE OpenState(t)
    BY <2>11 DEF OpenState
  <2>12. CASE OpenNow(t)
    BY <2>12, SetClk, Fresh DEF OpenNow
  <2>13. CASE OpenAt(t)
    BY <2>13, Fresh, <2>a DEF OpenAt
  <2>14. CASE ResetNow(t)
    BY <2>14, SetClk, Fresh DEF ResetNow
  <2>15. CASE ResetStart(t)
    BY <2>15, <2>a DEF ResetStart
  <2>16. CASE ResetRequests(t)
    BY <2>16 DEF ResetRequests
  <2>17. CASE ResetFailures(t)
    BY <2>17, Fresh DEF ResetFailures
  <2>18. CASE RotateStart(t)
    BY <2>18, SetReg, Fresh DEF RotateStart
  <2>19. CASE RotateNow(t)
    BY <2>19, SetClk, Fresh DEF RotateNow
  <2>20. CASE RotateCas(t)
    BY <2>20, <2>a DEF RotateCas
  <2>21. CASE RotateRequests(t)
    BY <2>21 DEF RotateRequests
  <2>22. CASE RotateFailures(t)
    BY <2>22 DEF RotateFailures
  <2> QED
    BY <1>4, <2>1, <2>2, <2>3, <2>4, <2>5, <2>6, <2>7, <2>8, <2>9, <2>10, <2>11, <2>12, <2>13, <2>14, <2>15, <2>16, <2>17, <2>18, <2>19, <2>20, <2>21, <2>22
    DEF Step, allow_request, record_success_or_failure, open_circuit,
        reset_window, maybe_rotate_window
<1> QED
  BY <1>1, <1>2, <1>3, <1>4 DEF Next, NoCallers

\* The breaker's variables keep their types.
THEOREM Typing == Spec => []TypeOK
<1>1. Init => TypeOK
  BY BreakerAssumption, Fresh DEF Init, TypeOK, PC, ResetPC, CbState
<1>2. TypeOK /\ [Next]_vars => TypeOK'
  BY TypeStep
<1> QED
  BY <1>1, <1>2, PTL DEF Spec

-----------------------------------------------------------------------------
(* An Open circuit always has, or is about to get, a time *)

\* What NeverWedgedOpen needs to be inductive: a thread past the test of
\* line 92 saw a time, times are never taken back, and a clock value about to
\* be stored as opened_at is not 0.
OpenedAtInv ==
  /\ \A t \in Threads : pc[t] \in {"allow_now", "allow_cas"} => opened_at > 0
  /\ \A t \in Threads : pc[t] = "open_at" => loc[t].clk > 0

WedgeInv == TypeOK /\ NeverWedgedOpen /\ OpenedAtInv

\* WedgeInv is preserved by every step of the breaker.
LEMMA WedgeStep ==
  ASSUME AfterEpoch, WedgeInv, [Next]_vars PROVE NeverWedgedOpen' /\ OpenedAtInv'
<1> USE DEF AfterEpoch, WedgeInv, TypeOK, NeverWedgedOpen, OpenedAtInv, vars, shared, PC, ResetPC,
            CbState, Goto, Return
<1>1. CASE Tick
  BY <1>1 DEF Tick
<1>2. CASE SetBack
  BY <1>2 DEF SetBack
<1>3. CASE UNCHANGED vars
  BY <1>3
<1>4. ASSUME NEW t \in Threads, Step(t) PROVE NeverWedgedOpen' /\ OpenedAtInv'
  <2>1. CASE AllowState(t)
    BY <2>1, SetSeen DEF AllowState
  <2>2. CASE AllowOpenedAt(t)
    BY <2>2, SetReg DEF AllowOpenedAt
  <2>3. CASE AllowNow(t)
    BY <2>3 DEF AllowNow
  <2>4. CASE AllowCas(t)
    BY <2>4 DEF AllowCas
  <2>5. CASE Abandon(t)
    BY <2>5 DEF Abandon
  <2>6. CASE RecordSuccess(t)
    BY <2>6 DEF RecordSuccess
  <2>7. CASE RecordFailure(t)
    BY <2>7 DEF RecordFailure
  <2>8. CASE StoreClosed(t)
    BY <2>8 DEF StoreClosed
  <2>9. CASE AddRequest(t)
    BY <2>9, SetReg DEF AddRequest
  <2>10. CASE AddFailure(t)
    BY <2>10 DEF AddFailure
  <2>11. CASE OpenState(t)
    BY <2>11 DEF OpenState
  <2>12. CASE OpenNow(t)
    BY <2>12, SetClk DEF OpenNow
  <2>13. CASE OpenAt(t)
    BY <2>13 DEF OpenAt
  <2>14. CASE ResetNow(t)
    BY <2>14, SetClk DEF ResetNow
  <2>15. CASE ResetStart(t)
    BY <2>15 DEF ResetStart
  <2>16. CASE ResetRequests(t)
    BY <2>16 DEF ResetRequests
  <2>17. CASE ResetFailures(t)
    BY <2>17 DEF ResetFailures
  <2>18. CASE RotateStart(t)
    BY <2>18, SetReg DEF RotateStart
  <2>19. CASE RotateNow(t)
    BY <2>19, SetClk DEF RotateNow
  <2>20. CASE RotateCas(t)
    BY <2>20 DEF RotateCas
  <2>21. CASE RotateRequests(t)
    BY <2>21 DEF RotateRequests
  <2>22. CASE RotateFailures(t)
    BY <2>22 DEF RotateFailures
  <2> QED
    BY <1>4, <2>1, <2>2, <2>3, <2>4, <2>5, <2>6, <2>7, <2>8, <2>9, <2>10, <2>11, <2>12, <2>13, <2>14, <2>15, <2>16, <2>17, <2>18, <2>19, <2>20, <2>21, <2>22
    DEF Step, allow_request, record_success_or_failure, open_circuit,
        reset_window, maybe_rotate_window
<1> QED
  BY <1>1, <1>2, <1>3, <1>4 DEF Next, NoCallers

\* An Open circuit is never left without a time to measure the half-open
\* timeout from, however open_circuit's two stores interleave with other calls,
\* as long as the clock never reads 0 (AfterEpoch).
THEOREM NotWedged == ASSUME AfterEpoch PROVE Spec => []NeverWedgedOpen
<1>1. Init => WedgeInv
  BY BreakerAssumption, Fresh DEF AfterEpoch, Init, WedgeInv, TypeOK, NeverWedgedOpen, OpenedAtInv,
                                  PC, ResetPC, CbState
<1>2. WedgeInv /\ [Next]_vars => WedgeInv'
  BY TypeStep, WedgeStep DEF WedgeInv
<1>3. WedgeInv => NeverWedgedOpen
  BY DEF WedgeInv
<1> QED
  BY <1>1, <1>2, <1>3, PTL DEF Spec

-----------------------------------------------------------------------------
(* The counters never drift further apart than the threads can carry *)

\* A step that neither counts nor clears and enters no clear keeps SkewBound.
LEMMA QuietStep ==
  ASSUME TypeOK, SkewBound, NEW t \in Threads,
         UNCHANGED <<window_requests, window_failures>>,
         pc[t] # "add_failure", pc[t] \notin ResetPC,
         NEW to \in PC \ {"add_failure"}, pc' = [pc EXCEPT ![t] = to]
  PROVE  SkewBound'
<1>1. AddingFailure' = AddingFailure
  BY DEF AddingFailure, TypeOK
<1>2. (\A u \in Threads : pc'[u] \notin ResetPC) => \A u \in Threads : pc[u] \notin ResetPC
  BY DEF TypeOK
<1> QED
  BY <1>1, <1>2 DEF SkewBound

\* A thread inside a clear makes SkewBound vacuous.
LEMMA ClearingStep ==
  ASSUME TypeOK, NEW t \in Threads, NEW to \in ResetPC, pc' = [pc EXCEPT ![t] = to]
  PROVE  SkewBound'
BY DEF SkewBound, TypeOK

\* The thread that ends a clear leaves no failures counted, and at most the
\* other threads between their two fetch_adds.
LEMMA ClearedStep ==
  ASSUME TypeOK, TypeOK', NEW t \in Threads,
         window_failures' = 0, pc'[t] # "add_failure"
  PROVE  SkewBound'
<1>1. AddingFailure' \subseteq Threads \ {t}
  BY DEF AddingFailure, TypeOK
<1>2. /\ IsFiniteSet(Threads \ {t})
      /\ Cardinality(Threads \ {t}) = Cardinality(Threads) - 1
  BY BreakerAssumption, FS_RemoveElement
<1>3. /\ IsFiniteSet(AddingFailure')
      /\ Cardinality(AddingFailure') <= Cardinality(Threads \ {t})
  BY <1>1, <1>2, FS_Subset
<1>4. Cardinality(AddingFailure') \in Nat /\ Cardinality(Threads) \in Nat
  BY <1>3, BreakerAssumption, FS_CardinalityType
<1>5. window_failures' + Cardinality(AddingFailure')
        <= window_requests' + Cardinality(Threads) - 1
  BY <1>2, <1>3, <1>4 DEF TypeOK
<1> QED
  BY <1>5 DEF SkewBound

\* SkewBound is preserved by every step of the breaker.
LEMMA SkewStep == ASSUME TypeOK, SkewBound, [Next]_vars PROVE SkewBound'
<1>0. TypeOK'
  BY TypeStep
<1>f. IsFiniteSet(AddingFailure) /\ Cardinality(AddingFailure) \in Nat
      /\ Cardinality(Threads) \in Nat
  <2>1. AddingFailure \subseteq Threads
    BY DEF AddingFailure
  <2> QED
    BY <2>1, BreakerAssumption, FS_Subset, FS_CardinalityType
<1>1. CASE UNCHANGED <<window_requests, window_failures, pc>>
  BY <1>1 DEF SkewBound, AddingFailure
<1>2. ASSUME NEW t \in Threads, Step(t) PROVE SkewBound'
  <2> USE DEF Goto, Return, vars, shared
  <2>1. CASE AllowState(t)
    BY <2>1, QuietStep DEF AllowState, PC, ResetPC, TypeOK, CbState
  <2>2. CASE AllowOpenedAt(t)
    BY <2>2, QuietStep DEF AllowOpenedAt, PC, ResetPC, TypeOK, CbState
  <2>3. CASE AllowNow(t)
    BY <2>3, QuietStep DEF AllowNow, PC, ResetPC, TypeOK, CbState
  <2>4. CASE AllowCas(t)
    BY <2>4, QuietStep DEF AllowCas, PC, ResetPC, TypeOK, CbState
  <2>5. CASE Abandon(t)
    BY <2>5, QuietStep DEF Abandon, PC, ResetPC, TypeOK, CbState
  <2>6. CASE RecordSuccess(t)
    BY <2>6, QuietStep DEF RecordSuccess, PC, ResetPC, TypeOK, CbState
  <2>7. CASE RecordFailure(t)
    BY <2>7, QuietStep DEF RecordFailure, PC, ResetPC, TypeOK, CbState
  <2>8. CASE StoreClosed(t)
    BY <2>8, QuietStep DEF StoreClosed, PC, ResetPC, TypeOK, CbState
  <2>9. CASE OpenState(t)
    BY <2>9, QuietStep DEF OpenState, PC, ResetPC, TypeOK, CbState
  <2>10. CASE OpenNow(t)
    BY <2>10, QuietStep DEF OpenNow, PC, ResetPC, TypeOK, CbState
  <2>11. CASE OpenAt(t)
    BY <2>11, QuietStep DEF OpenAt, PC, ResetPC, TypeOK, CbState
  <2>12. CASE RotateStart(t)
    BY <2>12, QuietStep DEF RotateStart, PC, ResetPC, TypeOK, CbState
  <2>13. CASE RotateNow(t)
    BY <2>13, QuietStep DEF RotateNow, PC, ResetPC, TypeOK, CbState
  <2>20. CASE RotateCas(t)
    <3>1. CASE window_start = loc[t].reg
      BY <2>20, <3>1, ClearingStep DEF RotateCas, ResetPC
    <3>2. CASE window_start # loc[t].reg
      BY <2>20, <3>2, QuietStep DEF RotateCas, PC, ResetPC
    <3> QED
      BY <3>1, <3>2
  <2>21. CASE ResetNow(t)
    BY <2>21, ClearingStep DEF ResetNow, ResetPC
  <2>22. CASE ResetStart(t)
    BY <2>22, ClearingStep DEF ResetStart, ResetPC
  <2>23. CASE ResetRequests(t)
    BY <2>23, ClearingStep DEF ResetRequests, ResetPC
  <2>24. CASE RotateRequests(t)
    BY <2>24, ClearingStep DEF RotateRequests, ResetPC
  <2>25. CASE ResetFailures(t)
    BY <1>0, <2>25, ClearedStep DEF ResetFailures, TypeOK
  <2>26. CASE RotateFailures(t)
    BY <1>0, <2>26, ClearedStep DEF RotateFailures, TypeOK
  <2>27. CASE AddRequest(t)
    <3> USE DEF AddRequest
    <3>1. (\A u \in Threads : pc'[u] \notin ResetPC) => \A u \in Threads : pc[u] \notin ResetPC
      BY <2>27 DEF TypeOK, ResetPC
    <3>2. CASE loc[t].ok
      <4>1. AddingFailure' = AddingFailure
        BY <2>27, <3>2 DEF AddingFailure, TypeOK
      <4> QED
        BY <1>f, <2>27, <3>1, <4>1 DEF SkewBound, TypeOK
    <3>3. CASE ~loc[t].ok
      <4>1. AddingFailure' = AddingFailure \cup {t} /\ t \notin AddingFailure
        BY <2>27, <3>3 DEF AddingFailure, TypeOK
      <4>2. Cardinality(AddingFailure') = Cardinality(AddingFailure) + 1
        BY <1>f, <4>1, FS_AddElement
      <4> QED
        BY <1>f, <2>27, <3>1, <4>2 DEF SkewBound, TypeOK
    <3> QED
      BY <3>2, <3>3
  <2>28. CASE AddFailure(t)
    <3> USE DEF AddFailure
    <3>1. (\A u \in Threads : pc'[u] \notin ResetPC) => \A u \in Threads : pc[u] \notin ResetPC
      BY <2>28 DEF TypeOK, ResetPC
    <3>2. AddingFailure' = AddingFailure \ {t} /\ t \in AddingFailure
      BY <2>28 DEF AddingFailure, TypeOK
    <3>3. Cardinality(AddingFailure') = Cardinality(AddingFailure) - 1
      BY <1>f, <3>2, FS_RemoveElement
    <3> QED
      BY <1>f, <2>28, <3>1, <3>3 DEF SkewBound, TypeOK
  <2> QED
    BY <1>2, <2>1, <2>2, <2>3, <2>4, <2>5, <2>6, <2>7, <2>8, <2>9, <2>10, <2>11, <2>12, <2>13, <2>20, <2>21, <2>22, <2>23, <2>24, <2>25, <2>26, <2>27, <2>28
    DEF Step, allow_request, record_success_or_failure, open_circuit,
        reset_window, maybe_rotate_window
<1> QED
  BY <1>1, <1>2 DEF Next, Tick, SetBack, NoCallers, vars, shared

\* Outside a clear, the counted failures exceed the counted requests by less
\* than the number of threads, for any number of threads.
THEOREM SkewBounded == Spec => []SkewBound
<1>1. Init => TypeOK /\ SkewBound
  <2> SUFFICES ASSUME Init PROVE TypeOK /\ SkewBound
    OBVIOUS
  <2>1. TypeOK
    BY BreakerAssumption, Fresh DEF Init, TypeOK, PC, ResetPC, CbState
  <2>2. AddingFailure = {}
    BY DEF AddingFailure, Init
  <2>3. Cardinality(AddingFailure) = 0
    BY <2>2, FS_EmptySet
  <2>4. Cardinality(Threads) \in Nat /\ Cardinality(Threads) # 0
    BY BreakerAssumption, FS_CardinalityType, FS_EmptySet
  <2> QED
    BY <2>1, <2>3, <2>4 DEF SkewBound, Init
<1>2. TypeOK /\ SkewBound /\ [Next]_vars => (TypeOK /\ SkewBound)'
  BY TypeStep, SkewStep
<1> QED
  BY <1>1, <1>2, PTL DEF Spec

-----------------------------------------------------------------------------
(* With one caller the breaker is the documented one *)

\* Where the only caller is, what it has loaded is still what is stored: nobody
\* else moves the circuit, the window or the counters under it.
AloneInv ==
  /\ here \in {"allow_opened_at", "allow_now", "allow_cas", "open_now", "open_at"}
       => state = "Open"
  /\ here \in {"allow_opened_at", "allow_now", "allow_cas"} => mine.seen = "Open"
  /\ here = "allow_now" => mine.reg = opened_at
  /\ here = "sent" => IF mine.seen = "Closed" THEN state = "Closed" ELSE state = "HalfOpen"
  /\ here = "store_closed" => state = "HalfOpen"
  /\ here \in {"reset_now", "rotate_start", "rotate_now", "rotate_cas", "rotate_requests",
              "rotate_failures", "add_request", "add_failure"} => state = "Closed"
  /\ here \in {"rotate_start", "rotate_now", "rotate_cas", "rotate_requests",
              "rotate_failures", "add_request", "add_failure"} => mine.seen = "Closed"
  /\ here \in {"rotate_now", "rotate_cas"} => mine.reg = window_start
  /\ here = "add_failure" => mine.reg = window_requests /\ window_requests > 0
  /\ here = "open_state" => mine.seen \in {"Closed", "HalfOpen"} /\ state = mine.seen
  /\ here = "open_now" => mine.seen \in {"Closed", "HalfOpen"}
  /\ here \in TrippingPC /\ mine.seen = "Closed" =>
       /\ Tripped(window_requests, window_failures)
       /\ window_requests > 0 /\ window_failures > 0

\* The only caller is the one that the mapping talks about.
LEMMA OnlyMe ==
  ASSUME NEW t \in Threads, Threads = {t}
  PROVE  me = t /\ here = pc[t] /\ mine = loc[t] /\ here' = pc'[t] /\ mine' = loc'[t]
<1>1. me \in Threads
  BY DEF me
<1> QED
  BY <1>1 DEF here, mine

\* AloneInv is preserved by every step of a single caller.
LEMMA AloneStep ==
  ASSUME NEW t \in Threads, Threads = {t}, TypeOK, AloneInv, [Next]_vars PROVE AloneInv'
<1> USE DEF AloneInv, vars, shared, Goto, Return, TrippingPC
<1>0. /\ here = pc[t] /\ mine = loc[t] /\ here' = pc'[t] /\ mine' = loc'[t]
      /\ pc \in [Threads -> PC] /\ loc \in [Threads -> Locals] /\ loc[t] \in Locals
      /\ state \in CbState /\ window_requests \in Nat /\ window_failures \in Nat
  BY OnlyMe DEF TypeOK
<1>1. CASE UNCHANGED <<shared, pc, loc>>
  BY <1>0, <1>1 DEF Tripped
<1>2. CASE AllowState(t)
  BY <1>0, <1>2 DEF AllowState, Locals, NoLocals, CbState, Tripped
<1>3. CASE AllowOpenedAt(t)
  BY <1>0, <1>3 DEF AllowOpenedAt, Locals, NoLocals, CbState, Tripped
<1>4. CASE AllowNow(t)
  BY <1>0, <1>4 DEF AllowNow, Locals, NoLocals, CbState, Tripped
<1>5. CASE AllowCas(t)
  BY <1>0, <1>5 DEF AllowCas, Locals, NoLocals, CbState, Tripped
<1>6. CASE Abandon(t)
  BY <1>0, <1>6 DEF Abandon, Locals, NoLocals, CbState, Tripped
<1>7. CASE RecordSuccess(t)
  BY <1>0, <1>7 DEF RecordSuccess, Locals, NoLocals, CbState, Tripped
<1>8. CASE RecordFailure(t)
  BY <1>0, <1>8 DEF RecordFailure, Locals, NoLocals, CbState, Tripped
<1>9. CASE StoreClosed(t)
  BY <1>0, <1>9 DEF StoreClosed, Locals, NoLocals, CbState, Tripped
<1>10. CASE AddRequest(t)
  BY <1>0, <1>10 DEF AddRequest, Locals, NoLocals, CbState, Tripped
<1>11. CASE AddFailure(t)
  BY <1>0, <1>11 DEF AddFailure, Locals, NoLocals, CbState, Tripped
<1>12. CASE OpenState(t)
  BY <1>0, <1>12 DEF OpenState, Locals, NoLocals, CbState, Tripped
<1>13. CASE OpenNow(t)
  BY <1>0, <1>13 DEF OpenNow, Locals, NoLocals, CbState, Tripped
<1>14. CASE OpenAt(t)
  BY <1>0, <1>14 DEF OpenAt, Locals, NoLocals, CbState, Tripped
<1>15. CASE ResetNow(t)
  BY <1>0, <1>15 DEF ResetNow, Locals, NoLocals, CbState, Tripped
<1>16. CASE ResetStart(t)
  BY <1>0, <1>16 DEF ResetStart, Locals, NoLocals, CbState, Tripped
<1>17. CASE ResetRequests(t)
  BY <1>0, <1>17 DEF ResetRequests, Locals, NoLocals, CbState, Tripped
<1>18. CASE ResetFailures(t)
  BY <1>0, <1>18 DEF ResetFailures, Locals, NoLocals, CbState, Tripped
<1>19. CASE RotateStart(t)
  BY <1>0, <1>19 DEF RotateStart, Locals, NoLocals, CbState, Tripped
<1>20. CASE RotateNow(t)
  BY <1>0, <1>20 DEF RotateNow, Locals, NoLocals, CbState, Tripped
<1>21. CASE RotateCas(t)
  BY <1>0, <1>21 DEF RotateCas, Locals, NoLocals, CbState, Tripped
<1>22. CASE RotateRequests(t)
  BY <1>0, <1>22 DEF RotateRequests, Locals, NoLocals, CbState, Tripped
<1>23. CASE RotateFailures(t)
  BY <1>0, <1>23 DEF RotateFailures, Locals, NoLocals, CbState, Tripped
<1> QED
  BY <1>1, <1>2, <1>3, <1>4, <1>5, <1>6, <1>7, <1>8, <1>9, <1>10, <1>11, <1>12, <1>13, <1>14, <1>15, <1>16, <1>17, <1>18, <1>19, <1>20, <1>21, <1>22, <1>23
  DEF Next, Tick, SetBack, NoCallers, Step, allow_request, record_success_or_failure,
      open_circuit, reset_window, maybe_rotate_window

\* A step that does not show in the mapping is a stuttering step of BreakerSpec.
LEMMA AbsStutter ==
  ASSUME UNCHANGED <<absCircuit, absRequests, absFailures, absStart, absOpened, now, absDoing>>
  PROVE  [Abs!Next]_(Abs!vars)
BY DEF Abs!vars, absStatus

\* What the mapping says the only caller is doing is its status in BreakerSpec.
LEMMA AbsBecome ==
  ASSUME NEW t \in Threads, Threads = {t}, NEW from, NEW to, absDoing = from, absDoing' = to
  PROVE  Abs!Become(t, from, to)
BY DEF Abs!Become, absStatus

\* Every step of a single caller is one operation of BreakerSpec, or none.
LEMMA AbsStep ==
  ASSUME NEW t \in Threads, Threads = {t}, TypeOK, AloneInv, [Next]_vars
  PROVE  [Abs!Next]_(Abs!vars)
<1> USE DEF AloneInv, vars, shared, Goto, Return, TrippingPC, absCircuit, absRequests,
            absFailures, absStart, absOpened, absDoing
<1>0. /\ here = pc[t] /\ mine = loc[t] /\ here' = pc'[t] /\ mine' = loc'[t]
      /\ pc \in [Threads -> PC] /\ loc \in [Threads -> Locals] /\ loc[t] \in Locals
      /\ state \in CbState /\ window_requests \in Nat /\ window_failures \in Nat
      /\ now \in Nat /\ absStatus[t] = absDoing
  BY OnlyMe, BreakerAssumption DEF TypeOK, absStatus
<1>1. CASE AllowState(t)
  <2>1. CASE state = "Open"
    <3>1. UNCHANGED <<absCircuit, absRequests, absFailures, absStart, absOpened, now, absDoing>>
      BY <1>0, <1>1, <2>1 DEF AllowState
    <3> QED
      BY <3>1, AbsStutter
  <2>2. CASE state = "Closed"
    <3>1. /\ UNCHANGED <<absCircuit, absRequests, absFailures, absStart, absOpened, now>>
          /\ absCircuit = "Closed" /\ absDoing = "idle" /\ absDoing' = "sent"
      BY <1>0, <1>1, <2>2 DEF AllowState
    <3> HIDE DEF absCircuit, absRequests, absFailures, absStart, absOpened, absDoing
    <3> QED
      BY <3>1, AbsBecome DEF Abs!Next, Abs!Admit
  <2>3. CASE state = "HalfOpen"
    <3>1. /\ UNCHANGED <<absCircuit, absRequests, absFailures, absStart, absOpened, now>>
          /\ absCircuit = "HalfOpen" /\ absDoing = "idle" /\ absDoing' = "probe"
      BY <1>0, <1>1, <2>3 DEF AllowState
    <3> HIDE DEF absCircuit, absRequests, absFailures, absStart, absOpened, absDoing
    <3> QED
      BY <1>0, <3>1, AbsBecome DEF Abs!Next, Abs!Probe
  <2> QED
    BY <1>0, <2>1, <2>2, <2>3 DEF CbState
<1>2. CASE AllowOpenedAt(t)
  <2>1. UNCHANGED <<absCircuit, absRequests, absFailures, absStart, absOpened, now, absDoing>>
    BY <1>0, <1>2 DEF AllowOpenedAt, NoLocals
  <2> QED
    BY <2>1, AbsStutter
<1>3. CASE AllowNow(t)
  <2>1. CASE Since(loc[t].reg, now) >= HalfOpenTimeout
    <3>1. /\ UNCHANGED <<absRequests, absFailures, absStart, absOpened, now>>
          /\ absCircuit = "Open" /\ absCircuit' = "HalfOpen"
          /\ absDoing = "idle" /\ absDoing' = "probe" /\ absOpened = loc[t].reg
      BY <1>0, <1>3, <2>1 DEF AllowNow
    <3>2. Abs!Elapsed(absOpened) >= HalfOpenTimeout
      BY <2>1, <3>1 DEF Abs!Elapsed, Since
    <3> HIDE DEF absCircuit, absRequests, absFailures, absStart, absOpened, absDoing
    <3> QED
      BY <1>0, <3>1, <3>2, AbsBecome DEF Abs!Next, Abs!Probe
  <2>2. CASE ~(Since(loc[t].reg, now) >= HalfOpenTimeout)
    <3>1. UNCHANGED <<absCircuit, absRequests, absFailures, absStart, absOpened, now, absDoing>>
      BY <1>0, <1>3, <2>2 DEF AllowNow, NoLocals
    <3> QED
      BY <3>1, AbsStutter
  <2> QED
    BY <2>1, <2>2
<1>4. CASE AllowCas(t)
  <2>1. UNCHANGED <<absCircuit, absRequests, absFailures, absStart, absOpened, now, absDoing>>
    BY <1>0, <1>4 DEF AllowCas
  <2> QED
    BY <2>1, AbsStutter
<1>5. CASE Abandon(t)
  <2>1. /\ UNCHANGED <<absCircuit, absRequests, absFailures, absStart, absOpened, now>>
        /\ absDoing \in {"sent", "probe"} /\ absDoing' = "idle"
    BY <1>0, <1>5 DEF Abandon, NoLocals
  <2> HIDE DEF absCircuit, absRequests, absFailures, absStart, absOpened, absDoing
  <2> QED
    BY <2>1, AbsBecome DEF Abs!Next, Abs!Abandon
<1>6. CASE RecordSuccess(t)
  <2>1. UNCHANGED <<absCircuit, absRequests, absFailures, absStart, absOpened, now, absDoing>>
    BY <1>0, <1>6 DEF RecordSuccess, NoLocals, CbState
  <2> QED
    BY <2>1, AbsStutter
<1>7. CASE RecordFailure(t)
  <2>1. UNCHANGED <<absCircuit, absRequests, absFailures, absStart, absOpened, now, absDoing>>
    BY <1>0, <1>7 DEF RecordFailure, NoLocals, CbState, Locals
  <2> QED
    BY <2>1, AbsStutter
<1>8. CASE StoreClosed(t)
  <2>1. UNCHANGED <<absCircuit, absRequests, absFailures, absStart, absOpened, now, absDoing>>
    BY <1>0, <1>8 DEF StoreClosed
  <2> QED
    BY <2>1, AbsStutter
<1>9. CASE AddRequest(t)
  <2>1. CASE loc[t].ok
    <3>1. /\ UNCHANGED <<absCircuit, absFailures, absStart, absOpened, now>>
          /\ absRequests' = absRequests + 1
          /\ absDoing = "recording" /\ absDoing' = "idle"
      BY <1>0, <1>9, <2>1 DEF AddRequest, NoLocals
    <3> HIDE DEF absCircuit, absRequests, absFailures, absStart, absOpened, absDoing
    <3> QED
      BY <3>1, AbsBecome DEF Abs!Next, Abs!CountSuccess
  <2>2. CASE ~loc[t].ok
    <3>1. UNCHANGED <<absCircuit, absRequests, absFailures, absStart, absOpened, now, absDoing>>
      BY <1>0, <1>9, <2>2 DEF AddRequest, Locals
    <3> QED
      BY <3>1, AbsStutter
  <2> QED
    BY <2>1, <2>2
<1>10. CASE AddFailure(t)
  <2>1. CASE Tripped(loc[t].reg, window_failures + 1)
    <3>1. UNCHANGED <<absCircuit, absRequests, absFailures, absStart, absOpened, now, absDoing>>
      BY <1>0, <1>10, <2>1 DEF AddFailure
    <3> QED
      BY <3>1, AbsStutter
  <2>2. CASE ~Tripped(loc[t].reg, window_failures + 1)
    <3>1. /\ UNCHANGED <<absCircuit, absStart, absOpened, now>>
          /\ absRequests' = absRequests + 1 /\ absRequests' = loc[t].reg
          /\ absFailures' = absFailures + 1 /\ absFailures' = window_failures + 1
          /\ absDoing = "recording" /\ absDoing' = "idle"
      BY <1>0, <1>10, <2>2 DEF AddFailure, NoLocals
    <3>2. ~Tripped(absRequests', absFailures')
      BY <2>2, <3>1
    <3> HIDE DEF absCircuit, absRequests, absFailures, absStart, absOpened, absDoing
    <3> QED
      BY <3>1, <3>2, AbsBecome DEF Abs!Next, Abs!CountFailure, Tripped
  <2> QED
    BY <2>1, <2>2
<1>11. CASE OpenState(t)
  <2>1. UNCHANGED <<absCircuit, absRequests, absFailures, absStart, absOpened, now, absDoing>>
    BY <1>0, <1>11 DEF OpenState
  <2> QED
    BY <2>1, AbsStutter
<1>12. CASE OpenNow(t)
  <2>0. loc'[t].seen = loc[t].seen /\ loc'[t].clk = now
    BY <1>0, <1>12 DEF OpenNow, Locals
  <2>1. CASE loc[t].seen = "Closed"
    <3>1. /\ UNCHANGED <<absStart, now>>
          /\ absCircuit' = "Open" /\ absOpened' = now
          /\ absRequests' = absRequests + 1 /\ absRequests' = window_requests
          /\ absFailures' = absFailures + 1 /\ absFailures' = window_failures
          /\ absDoing = "recording" /\ absDoing' = "idle"
      BY <1>0, <1>12, <2>0, <2>1 DEF OpenNow
    <3>2. Tripped(absRequests', absFailures')
      BY <1>0, <1>12, <2>1, <3>1 DEF OpenNow
    <3> HIDE DEF absCircuit, absRequests, absFailures, absStart, absOpened, absDoing
    <3> QED
      BY <3>1, <3>2, AbsBecome DEF Abs!Next, Abs!CountFailure, Tripped
  <2>2. CASE loc[t].seen = "HalfOpen"
    <3>1. /\ UNCHANGED <<absRequests, absFailures, absStart, now>>
          /\ absCircuit = "HalfOpen" /\ absCircuit' = "Open" /\ absOpened' = now
          /\ absDoing = "probe" /\ absDoing' = "idle"
      BY <1>0, <1>12, <2>0, <2>2 DEF OpenNow
    <3> HIDE DEF absCircuit, absRequests, absFailures, absStart, absOpened, absDoing
    <3> QED
      BY <3>1, AbsBecome DEF Abs!Next, Abs!ProbeFails
  <2> QED
    BY <1>0, <1>12, <2>1, <2>2 DEF OpenNow
<1>13. CASE OpenAt(t)
  <2>1. UNCHANGED <<absCircuit, absRequests, absFailures, absStart, absOpened, now, absDoing>>
    BY <1>0, <1>13 DEF OpenAt, NoLocals
  <2> QED
    BY <2>1, AbsStutter
<1>14. CASE ResetNow(t)
  <2>0. loc'[t].clk = now
    BY <1>0, <1>14 DEF ResetNow, Locals
  <2>1. /\ UNCHANGED <<absOpened, now>>
        /\ absCircuit = "HalfOpen" /\ absCircuit' = "Closed" /\ absStart' = now
        /\ absRequests' = 0 /\ absFailures' = 0
        /\ absDoing = "probe" /\ absDoing' = "idle"
    BY <1>0, <1>14, <2>0 DEF ResetNow
  <2> HIDE DEF absCircuit, absRequests, absFailures, absStart, absOpened, absDoing
  <2> QED
    BY <2>1, AbsBecome DEF Abs!Next, Abs!ProbeSucceeds
<1>15. CASE ResetStart(t)
  <2>1. UNCHANGED <<absCircuit, absRequests, absFailures, absStart, absOpened, now, absDoing>>
    BY <1>0, <1>15 DEF ResetStart
  <2> QED
    BY <2>1, AbsStutter
<1>16. CASE ResetRequests(t)
  <2>1. UNCHANGED <<absCircuit, absRequests, absFailures, absStart, absOpened, now, absDoing>>
    BY <1>0, <1>16 DEF ResetRequests
  <2> QED
    BY <2>1, AbsStutter
<1>17. CASE ResetFailures(t)
  <2>1. UNCHANGED <<absCircuit, absRequests, absFailures, absStart, absOpened, now, absDoing>>
    BY <1>0, <1>17 DEF ResetFailures, NoLocals
  <2> QED
    BY <2>1, AbsStutter
<1>18. CASE RotateStart(t)
  <2>1. UNCHANGED <<absCircuit, absRequests, absFailures, absStart, absOpened, now, absDoing>>
    BY <1>0, <1>18 DEF RotateStart, Locals
  <2> QED
    BY <2>1, AbsStutter
<1>19. CASE RotateNow(t)
  <2>1. CASE Since(loc[t].reg, now) >= Window
    <3>0. loc'[t].clk = now /\ loc'[t].seen = loc[t].seen
      BY <1>0, <1>19, <2>1 DEF RotateNow, Locals
    <3>1. /\ UNCHANGED <<absCircuit, absOpened, now>> /\ absCircuit = "Closed"
          /\ absStart = loc[t].reg /\ absStart' = now
          /\ absRequests' = 0 /\ absFailures' = 0
          /\ absDoing = "sent" /\ absDoing' = "recording"
      BY <1>0, <1>19, <2>1, <3>0 DEF RotateNow
    <3>2. Abs!Elapsed(absStart) >= Window
      BY <2>1, <3>1 DEF Abs!Elapsed, Since
    <3> HIDE DEF absCircuit, absRequests, absFailures, absStart, absOpened, absDoing
    <3> QED
      BY <3>1, <3>2, AbsBecome DEF Abs!Next, Abs!Freshen
  <2>2. CASE ~(Since(loc[t].reg, now) >= Window)
    <3>1. /\ UNCHANGED <<absCircuit, absRequests, absFailures, absStart, absOpened, now>>
          /\ absCircuit = "Closed" /\ absStart = loc[t].reg
          /\ absDoing = "sent" /\ absDoing' = "recording"
      BY <1>0, <1>19, <2>2 DEF RotateNow
    <3>2. ~(Abs!Elapsed(absStart) >= Window)
      BY <2>2, <3>1 DEF Abs!Elapsed, Since
    <3> HIDE DEF absCircuit, absRequests, absFailures, absStart, absOpened, absDoing
    <3> QED
      BY <3>1, <3>2, AbsBecome DEF Abs!Next, Abs!Freshen
  <2> QED
    BY <2>1, <2>2
<1>20. CASE RotateCas(t)
  <2>1. UNCHANGED <<absCircuit, absRequests, absFailures, absStart, absOpened, now, absDoing>>
    BY <1>0, <1>20 DEF RotateCas
  <2> QED
    BY <2>1, AbsStutter
<1>21. CASE RotateRequests(t)
  <2>1. UNCHANGED <<absCircuit, absRequests, absFailures, absStart, absOpened, now, absDoing>>
    BY <1>0, <1>21 DEF RotateRequests
  <2> QED
    BY <2>1, AbsStutter
<1>22. CASE RotateFailures(t)
  <2>1. UNCHANGED <<absCircuit, absRequests, absFailures, absStart, absOpened, now, absDoing>>
    BY <1>0, <1>22 DEF RotateFailures
  <2> QED
    BY <2>1, AbsStutter
<1>23. CASE Tick \/ SetBack
  <2>1. /\ UNCHANGED <<absCircuit, absRequests, absFailures, absStart, absOpened, absDoing>>
        /\ now' \in {now + 1, now - 1} /\ now' >= 0
    BY <1>0, <1>23, BreakerAssumption DEF Tick, SetBack
  <2> HIDE DEF absCircuit, absRequests, absFailures, absStart, absOpened, absDoing
  <2> QED
    BY <2>1 DEF Abs!Next, Abs!Clock, absStatus
<1>24. CASE UNCHANGED vars
  <2>1. UNCHANGED <<absCircuit, absRequests, absFailures, absStart, absOpened, now, absDoing>>
    BY <1>0, <1>24
  <2> QED
    BY <2>1, AbsStutter
<1> QED
  BY <1>1, <1>2, <1>3, <1>4, <1>5, <1>6, <1>7, <1>8, <1>9, <1>10, <1>11, <1>12, <1>13, <1>14, <1>15, <1>16, <1>17, <1>18, <1>19, <1>20, <1>21, <1>22, <1>23, <1>24
  DEF Next, NoCallers, Step, allow_request, record_success_or_failure, open_circuit,
      reset_window, maybe_rotate_window

\* With one caller, the lock-free breaker implements BreakerSpec: the diagram of
\* the module documentation, one probe at a time, and trips on the counts of the
\* current window only, for every threshold, window and timeout and a clock
\* that is set back.
THEOREM Refinement == ASSUME OneCaller PROVE Spec => ImplementsBreakerSpec
<1> PICK t \in Threads : Threads = {t}
  BY DEF OneCaller
<1>1. Init => AloneInv /\ Abs!Init
  <2> SUFFICES ASSUME Init PROVE AloneInv /\ Abs!Init
    OBVIOUS
  <2>1. here = "idle"
    BY OnlyMe DEF Init
  <2>2. AloneInv
    BY <2>1 DEF AloneInv, TrippingPC
  <2>3. Abs!Init
    BY <2>1, BreakerAssumption DEF Init, Abs!Init, absCircuit, absRequests, absFailures, absStart, absOpened,
                absStatus, absDoing, TrippingPC
  <2> QED
    BY <2>2, <2>3
<1>2. TypeOK /\ AloneInv /\ [Next]_vars => AloneInv'
  BY AloneStep
<1>3. TypeOK /\ AloneInv /\ [Next]_vars => [Abs!Next]_(Abs!vars)
  BY AbsStep
<1> QED
  BY <1>1, <1>2, <1>3, Typing, PTL DEF Spec, ImplementsBreakerSpec, Abs!Spec
=============================================================================
