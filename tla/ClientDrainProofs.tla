------------------------- MODULE ClientDrainProofs -------------------------
(***************************************************************************)
(* Theorems about ClientDrain for any number of callers and shutters, with *)
(* or without deadlines and dropped sends.                                  *)
(***************************************************************************)
EXTENDS ClientDrain, FiniteSetTheorems, TLAPS

\* A subset of the callers is finite and has a cardinality.
LEMMA InFlightFinite == IsFiniteSet(InFlight) /\ Cardinality(InFlight) \in Nat
<1>1. InFlight \subseteq Callers
  BY DEF InFlight
<1> QED
  BY <1>1, DrainAssumption, FS_Subset, FS_CardinalityType

Counted == TypeOK /\ Accounting

\* The typing and the count are preserved together: that in_flight does not
\* drop below 0 rests on the count.
LEMMA CountStep == ASSUME Counted, [Next]_vars PROVE Counted'
<1> USE DEF Counted, TypeOK, CallerPC, ShutterPC, vars, cells, CHold, CGoto, SGoto
<1>0. IsFiniteSet(InFlight) /\ Cardinality(InFlight) \in Nat
  BY InFlightFinite
<1>1. ASSUME NEW c \in Callers, send(c) PROVE Counted'
  <2>1. CASE AddInFlight(c)
    <3>1. InFlight' = InFlight \cup {c} /\ c \notin InFlight
      BY <2>1 DEF AddInFlight, InFlight
    <3>2. Cardinality(InFlight') = Cardinality(InFlight) + 1
      BY <1>0, <3>1, FS_AddElement
    <3> QED
      BY <1>0, <2>1, <3>2 DEF AddInFlight, Accounting
  <2>2. CASE Cancel(c)
    <3>1. InFlight' = InFlight \ {c} /\ c \in InFlight
      BY <2>2 DEF Cancel, InFlight
    <3>2. Cardinality(InFlight') = Cardinality(InFlight) - 1
      BY <1>0, <3>1, FS_RemoveElement
    <3> QED
      BY <1>0, <2>2, <3>2 DEF Cancel, Accounting
  <2>3. CASE FetchSub(c)
    <3>1. InFlight' = InFlight \ {c} /\ c \in InFlight
      BY <2>3 DEF FetchSub, InFlight
    <3>2. Cardinality(InFlight') = Cardinality(InFlight) - 1 /\ Cardinality(InFlight') \in Nat
      BY <1>0, <3>1, FS_RemoveElement, FS_CardinalityType
    <3> QED
      BY <1>0, <2>3, <3>2 DEF FetchSub, Accounting
  <2>4. CASE \/ CheckFlag(c) \/ PolicyGet(c) \/ PolicyEntry(c) \/ PolicyRefuses(c)
             \/ Respond(c) \/ LoadFlag(c) \/ NotifyWaiters(c)
    <3> USE DEF CheckFlag, PolicyGet, PolicyEntry, PolicyRefuses, Respond, LoadFlag, NotifyWaiters
    <3>1. InFlight' = InFlight
      BY <2>4 DEF InFlight
    <3> QED
      BY <2>4, <3>1 DEF Accounting
  <2> QED
    BY <1>1, <2>1, <2>2, <2>3, <2>4 DEF send, policy_for, finish_in_flight
<1>2. ASSUME NEW s \in Shutters, shutdown(s) \/ Flush(s) PROVE Counted'
  <2> USE DEF shutdown, StoreFlag, Flush, Load1, Register, Load2, Poll, Woken, Expire, Report
  <2>1. InFlight' = InFlight
    BY <1>2 DEF InFlight
  <2>2. TypeOK'
    BY <1>2
  <2> QED
    BY <1>2, <2>1, <2>2 DEF Accounting
<1>3. CASE UNCHANGED vars
  BY <1>3 DEF Accounting, InFlight
<1> QED
  BY <1>1, <1>2, <1>3 DEF Next, Stopped

\* The initial state is counted.
LEMMA CountInit == ASSUME Init PROVE Counted
<1>1. InFlight = {}
  BY DEF Init, InFlight
<1>2. Cardinality(InFlight) = 0
  BY <1>1, FS_EmptySet
<1>3. Accounting
  BY <1>2 DEF Init, Accounting
<1>4. policy \in Nat /\ held \in [Callers -> Nat]
  BY DEF Init
<1>5. cpc \in [Callers -> CallerPC] /\ spc \in [Shutters -> ShutterPC] /\ left \in [Shutters -> Nat]
  BY DEF Init, CallerPC, ShutterPC
<1>6. TypeOK
  BY <1>4, <1>5 DEF Init, TypeOK
<1> QED
  BY <1>3, <1>6 DEF Counted

\* The variables keep their types; in_flight does not wrap.
THEOREM Typing == Spec => []TypeOK
<1>1. Counted /\ [Next]_vars => Counted'
  BY CountStep
<1>2. Counted => TypeOK
  BY DEF Counted
<1> QED
  BY CountInit, <1>1, <1>2, PTL DEF Spec

\* in_flight is the number of sends in flight plus the dropped ones.
THEOREM Counting == Spec => []Accounting
<1>1. Counted /\ [Next]_vars => Counted'
  BY CountStep
<1>2. Counted => Accounting
  BY DEF Counted
<1> QED
  BY CountInit, <1>1, <1>2, PTL DEF Spec

-----------------------------------------------------------------------------
(* No wakeup is lost by a shutdown whose store is not delayed *)

\* What NoLostWakeup needs: past an undelayed store the flag is in memory, and
\* a shutter past line 249 is registered with the Notify.
FlagInv ==
  /\ (\E s \in Shutters \ Delayed : spc[s] # "start") => is_shutting_down
  /\ \A s \in Shutters : spc[s] \in {"load2", "poll", "wait"} => s \in waiters

\* The invariant of the drain: a shutter that decided to wait is either
\* notified or can count on a finisher.
WakeInv ==
  /\ Counted /\ FlagInv
  /\ \A s \in Shutters \ Delayed :
       spc[s] \in {"poll", "wait"} /\ s \notin notified => Notifier

\* WakeInv is preserved by every step.
LEMMA WakeStep == ASSUME WakeInv, [Next]_vars PROVE WakeInv'
<1>0. Counted'
  BY CountStep DEF WakeInv
<1> USE DEF WakeInv, FlagInv, Notifier, Counted, TypeOK, CallerPC, ShutterPC, vars, cells, CHold, CGoto, SGoto
<1>1. ASSUME NEW c \in Callers, send(c) PROVE WakeInv'
  <2>1. CASE CheckFlag(c)
    BY <1>0, <2>1 DEF CheckFlag
  <2>2. CASE PolicyRefuses(c)
    BY <1>0, <2>2 DEF PolicyRefuses
  <2>3. CASE AddInFlight(c)
    BY <1>0, <2>3 DEF AddInFlight
  <2>4. CASE Respond(c)
    BY <1>0, <2>4 DEF Respond
  <2>5. CASE Cancel(c)
    BY <1>0, <2>5 DEF Cancel
  <2>6. CASE FetchSub(c)
    BY <1>0, <2>6 DEF FetchSub
  <2>7. CASE LoadFlag(c)
    BY <1>0, <2>7 DEF LoadFlag
  <2>8. CASE NotifyWaiters(c)
    BY <1>0, <2>8 DEF NotifyWaiters
  <2>9. CASE PolicyGet(c)
    BY <1>0, <2>9 DEF PolicyGet
  <2>10. CASE PolicyEntry(c)
    BY <1>0, <2>10 DEF PolicyEntry
  <2> QED
    BY <1>1, <2>1, <2>2, <2>3, <2>4, <2>5, <2>6, <2>7, <2>8, <2>9, <2>10
    DEF send, policy_for, finish_in_flight
<1>2. ASSUME NEW s \in Shutters, shutdown(s) \/ Flush(s) PROVE WakeInv'
  <2>1. CASE StoreFlag(s)
    BY <1>0, <2>1 DEF StoreFlag
  <2>2. CASE Flush(s)
    BY <1>0, <2>2 DEF Flush
  <2>3. CASE Load1(s)
    BY <1>0, <2>3 DEF Load1
  <2>4. CASE Register(s)
    BY <1>0, <2>4 DEF Register
  <2>5. CASE Load2(s)
    BY <1>0, <2>5 DEF Load2
  <2>6. CASE Poll(s)
    BY <1>0, <2>6 DEF Poll
  <2>7. CASE Woken(s)
    BY <1>0, <2>7 DEF Woken
  <2>8. CASE Expire(s)
    BY <1>0, <2>8 DEF Expire
  <2>9. CASE Report(s)
    BY <1>0, <2>9 DEF Report
  <2> QED
    BY <1>2, <2>1, <2>2, <2>3, <2>4, <2>5, <2>6, <2>7, <2>8, <2>9 DEF shutdown
<1>3. CASE UNCHANGED vars
  BY <1>0, <1>3
<1> QED
  BY <1>1, <1>2, <1>3 DEF Next, Stopped

\* The re-check of line 251 is enough for every shutdown call whose flag store
\* is not delayed, for any number of concurrent sends and shutdowns.
THEOREM WakeupsKept == Spec => []NoLostWakeup
<1>1. Init => WakeInv
  BY CountInit DEF Init, WakeInv, FlagInv
<1>2. WakeInv /\ [Next]_vars => WakeInv'
  BY WakeStep
<1>3. WakeInv => NoLostWakeup
  BY DEF WakeInv, NoLostWakeup, Waiting
<1> QED
  BY <1>1, <1>2, <1>3, PTL DEF Spec

-----------------------------------------------------------------------------
(* One PolicySet *)

\* OnePolicySet needs to know that what is held was registered: policy_for never
\* returns without an entry, and an entry once made stays.
PolicyInv ==
  /\ TypeOK
  /\ \A c \in Callers :
       cpc[c] \notin {"idle", "lookup", "entry"} => held[c] = policy /\ policy # 0

\* PolicyInv is preserved by every step.
LEMMA PolicyStep == ASSUME PolicyInv, TypeOK', [Next]_vars PROVE PolicyInv'
<1> USE DEF PolicyInv, TypeOK, CallerPC, ShutterPC, vars, cells, CHold, CGoto, SGoto
<1>1. ASSUME NEW c \in Callers, send(c) PROVE PolicyInv'
  <2>1. CASE PolicyGet(c)
    BY <2>1 DEF PolicyGet
  <2>2. CASE PolicyEntry(c)
    BY <2>2 DEF PolicyEntry
  <2>3. CASE CheckFlag(c) \/ PolicyRefuses(c)
    BY <2>3 DEF CheckFlag, PolicyRefuses
  <2>4. CASE AddInFlight(c) \/ Respond(c) \/ Cancel(c)
    BY <2>4 DEF AddInFlight, Respond, Cancel
  <2>5. CASE finish_in_flight(c)
    BY <2>5 DEF finish_in_flight, FetchSub, LoadFlag, NotifyWaiters
  <2> QED
    BY <1>1, <2>1, <2>2, <2>3, <2>4, <2>5 DEF send, policy_for
<1>2. ASSUME NEW s \in Shutters, shutdown(s) \/ Flush(s) PROVE PolicyInv'
  BY <1>2 DEF shutdown, StoreFlag, Flush, Load1, Register, Load2, Poll, Woken, Expire, Report
<1>3. CASE UNCHANGED vars
  BY <1>3
<1> QED
  BY <1>1, <1>2, <1>3 DEF Next, Stopped

\* Any number of first calls to a target end up with the same PolicySet, the one
\* in the registry.
THEOREM PolicyUnique == Spec => []OnePolicySet
<1>1. Init => PolicyInv
  BY CountInit DEF Init, PolicyInv, Counted
<1>2. PolicyInv /\ TypeOK' /\ [Next]_vars => PolicyInv'
  BY PolicyStep
<1>3. PolicyInv => OnePolicySet
  BY DEF PolicyInv, OnePolicySet
<1> QED
  BY <1>1, <1>2, <1>3, Typing, PTL DEF Spec
=============================================================================
