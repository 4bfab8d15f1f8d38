------------------------ MODULE EventPipelineProofs ------------------------
(***************************************************************************)
(* Theorems about EventPipeline for any set of members, any length of the  *)
(* log and any number of crashes, lost commits and rebalances.             *)
(***************************************************************************)
EXTENDS EventPipeline, TLAPS

-----------------------------------------------------------------------------
(* The queues of commits *)

Commit == [gen : Nat, upto : Nat]

\* Queueing a commit in c leaves every queue well typed, puts the commit last
\* in m's queue and changes nothing else.
LEMMA QueueAppend ==
  ASSUME NEW c \in [Members -> Seq(Commit)], NEW m \in Members, NEW r \in Commit,
         NEW d, d = [c EXCEPT ![m] = Append(@, r)]
  PROVE  /\ d \in [Members -> Seq(Commit)]
         /\ \A n \in Members \ {m} : d[n] = c[n]
         /\ Len(d[m]) = Len(c[m]) + 1 /\ d[m][Len(c[m]) + 1] = r
         /\ \A i \in 1..Len(c[m]) : d[m][i] = c[m][i]
OBVIOUS

\* Taking the oldest commit off m's queue leaves every queue well typed and
\* moves the others of that queue up by one.
LEMMA QueueTail ==
  ASSUME NEW c \in [Members -> Seq(Commit)], NEW m \in Members, c[m] # <<>>,
         NEW d, d = [c EXCEPT ![m] = Tail(@)]
  PROVE  /\ d \in [Members -> Seq(Commit)]
         /\ \A n \in Members \ {m} : d[n] = c[n]
         /\ 1 \in 1..Len(c[m]) /\ Head(c[m]) = c[m][1] /\ Head(c[m]) \in Commit
         /\ Len(d[m]) = Len(c[m]) - 1
         /\ \A i \in 1..Len(d[m]) : i + 1 \in 1..Len(c[m]) /\ d[m][i] = c[m][i + 1]
OBVIOUS

-----------------------------------------------------------------------------
(* Type correctness *)

\* TypeOK is preserved by every step.
LEMMA TypeStep == ASSUME TypeOK, [Next]_vars PROVE TypeOK'
<1> USE PipelineAssumption DEF TypeOK, vars, group, member, counters, Goto, Fault
<1>1. ASSUME NEW m \in Members, MemberNext(m) PROVE TypeOK'
  <2>1. CASE Recv(m)
    BY <2>1 DEF Recv
  <2>2. CASE HandlerOk(m)
    <3>1. position[m] \in Nat
      OBVIOUS
    <3>2. CASE log[position[m]] \in Poison
      BY <2>2, <3>1, <3>2 DEF HandlerOk
    <3>3. CASE log[position[m]] \notin Poison
      BY <2>2, <3>1, <3>3 DEF HandlerOk
    <3> QED
      BY <3>2, <3>3
  <2>3. CASE HandlerErr(m)
    BY <2>3 DEF HandlerErr
  <2>4. CASE CommitMessage(m)
    <3>1. commits' \in [Members -> Seq(Commit)]
      <4>1. CASE UNCHANGED commits
        BY <4>1 DEF Commit
      <4>2. CASE commits' = [commits EXCEPT
                   ![m] = Append(@, [gen |-> joined[m], upto |-> position[m]])]
        <5>1. [gen |-> joined[m], upto |-> position[m]] \in Commit
          BY DEF Commit
        <5> QED
          BY <4>2, <5>1, QueueAppend DEF Commit
      <4> QED
        BY <2>4, <4>1, <4>2 DEF CommitMessage
    <3>2. /\ pc' = [pc EXCEPT ![m] = "recv"] \/ pc' = [pc EXCEPT ![m] = "stopped"]
          /\ faults' \in 0..MaxFaults
          /\ UNCHANGED <<log, committed, generation, joined, position, consumed, skipped>>
      BY <2>4 DEF CommitMessage
    <3>3. pc' \in [Members -> {"down", "recv", "handling", "commit", "stopped"}]
      BY <3>2
    <3> QED
      BY <3>1, <3>2, <3>3 DEF Commit
  <2>5. CASE Stopped(m)
    BY <2>5 DEF Stopped
  <2>6. CASE Rerun(m)
    BY <2>6 DEF Rerun
  <2>7. CASE Crash(m)
    BY <2>7 DEF Crash
  <2>8. CASE Connect(m)
    BY <2>8 DEF Connect
  <2>9. CASE Assign(m)
    BY <2>9 DEF Assign
  <2>10. CASE Revoked(m)
    BY <2>10 DEF Revoked
  <2>11. CASE CommitApplied(m)
    <3>1. commits' \in [Members -> Seq(Commit)] /\ Head(commits[m]) \in Commit
      BY <2>11, QueueTail DEF CommitApplied, Commit
    <3> QED
      BY <2>11, <3>1 DEF CommitApplied, Commit
  <2>12. CASE CommitLost(m)
    <3>1. commits' \in [Members -> Seq(Commit)]
      BY <2>12, QueueTail DEF CommitLost, Commit
    <3> QED
      BY <2>12, <3>1 DEF CommitLost, Commit
  <2> QED
    BY <1>1, <2>1, <2>2, <2>3, <2>4, <2>5, <2>6, <2>7, <2>8, <2>9, <2>10, <2>11, <2>12
    DEF MemberNext, run
<1>2. ASSUME NEW r \in Records, Produce(r) PROVE TypeOK'
  BY <1>2 DEF Produce
<1>3. CASE UNCHANGED vars
  BY <1>3
<1> QED
  BY <1>1, <1>2, <1>3 DEF Next, Drained

\* The pipeline's variables keep their types.
THEOREM Typing == Spec => []TypeOK
<1>1. Init => TypeOK
  BY PipelineAssumption DEF Init, TypeOK
<1>2. TypeOK /\ [Next]_vars => TypeOK'
  BY TypeStep
<1> QED
  BY <1>1, <1>2, PTL DEF Spec

-----------------------------------------------------------------------------
(* Commits are ordered, and fenced by the generation *)

\* Who may believe to own the partition: no two members of one generation,
\* none of a generation to come, and a member in its loop body always some.
MembershipInv ==
  /\ \A m \in Members :
       /\ joined[m] <= generation
       /\ pc[m] = "down" => joined[m] = 0 /\ commits[m] = <<>>
       /\ pc[m] \in {"handling", "commit", "stopped"} => joined[m] # 0
  /\ \A m, n \in Members : joined[m] = joined[n] /\ joined[m] # 0 => m = n

\* The commits the broker would still accept are their owner's alone, lie
\* between the committed offset and its position, and are queued in order.
Queued(m) == 1..Len(commits[m])

OwnerAhead == \A m \in Members : Owns(m) => committed <= position[m]

GenerationsPast ==
  \A m \in Members : \A i \in Queued(m) :
    0 < commits[m][i].gen /\ commits[m][i].gen <= generation

CurrentOwned ==
  \A m \in Members : \A i \in Queued(m) : commits[m][i].gen = generation =>
    /\ joined[m] = generation
    /\ committed <= commits[m][i].upto /\ commits[m][i].upto <= position[m]

InOrder ==
  \A m \in Members : \A i, j \in Queued(m) :
    i <= j /\ commits[m][i].gen = generation /\ commits[m][j].gen = generation
      => commits[m][i].upto <= commits[m][j].upto

FenceInv == OwnerAhead /\ GenerationsPast /\ CurrentOwned /\ InOrder

OrderInv == TypeOK /\ MembershipInv /\ FenceInv

\* MembershipInv is preserved by every step.
LEMMA MembershipStep == ASSUME TypeOK, MembershipInv, [Next]_vars PROVE MembershipInv'
<1> USE DEF TypeOK, MembershipInv, vars, group, member, counters, Goto
<1>1. ASSUME NEW m \in Members, MemberNext(m) PROVE MembershipInv'
  <2>1. CASE Recv(m)
    BY <2>1 DEF Recv
  <2>2. CASE HandlerOk(m)
    BY <2>2 DEF HandlerOk
  <2>3. CASE HandlerErr(m)
    BY <2>3 DEF HandlerErr
  <2>4. CASE CommitMessage(m)
    BY <2>4 DEF CommitMessage
  <2>5. CASE Stopped(m)
    BY <2>5 DEF Stopped
  <2>6. CASE Rerun(m)
    BY <2>6 DEF Rerun
  <2>7. CASE Crash(m)
    BY <2>7 DEF Crash
  <2>8. CASE Connect(m)
    BY <2>8 DEF Connect
  <2>9. CASE Assign(m)
    BY <2>9 DEF Assign
  <2>10. CASE Revoked(m)
    BY <2>10 DEF Revoked
  <2>11. CASE CommitApplied(m)
    BY <2>11 DEF CommitApplied
  <2>12. CASE CommitLost(m)
    BY <2>12 DEF CommitLost
  <2> QED
    BY <1>1, <2>1, <2>2, <2>3, <2>4, <2>5, <2>6, <2>7, <2>8, <2>9, <2>10, <2>11, <2>12
    DEF MemberNext, run
<1>2. ASSUME NEW r \in Records, Produce(r) PROVE MembershipInv'
  BY <1>2 DEF Produce
<1>3. CASE UNCHANGED vars
  BY <1>3
<1> QED
  BY <1>1, <1>2, <1>3 DEF Next, Drained

\* A queued commit is a generation and an offset.
LEMMA QueuedType ==
  ASSUME TypeOK
  PROVE  /\ commits \in [Members -> Seq(Commit)]
         /\ \A m \in Members : \A i \in Queued(m) :
              commits[m][i].gen \in Nat /\ commits[m][i].upto \in Nat
<1>1. commits \in [Members -> Seq(Commit)]
  BY DEF TypeOK, Commit
<1>2. ASSUME NEW m \in Members, NEW i \in Queued(m)
      PROVE  commits[m][i].gen \in Nat /\ commits[m][i].upto \in Nat
  <2>1. commits[m][i] \in Commit
    BY <1>1 DEF Queued
  <2> QED
    BY <2>1 DEF Commit
<1> QED
  BY <1>1, <1>2

\* A step that leaves queues, ownership and the committed offset alone, and
\* moves no position back, keeps FenceInv.
LEMMA FenceFrame ==
  ASSUME TypeOK, FenceInv, UNCHANGED <<committed, generation, joined, commits>>,
         position' \in [Members -> Nat], \A m \in Members : position[m] <= position'[m]
  PROVE  FenceInv'
<1> USE QueuedType DEF FenceInv
<1>1. OwnerAhead'
  BY DEF TypeOK, OwnerAhead, Owns
<1>2. GenerationsPast'
  BY DEF GenerationsPast, Queued
<1>3. CurrentOwned'
  <2>1. ASSUME NEW m \in Members, NEW i \in Queued(m), commits[m][i].gen = generation
        PROVE  /\ joined[m] = generation
               /\ committed <= commits[m][i].upto /\ commits[m][i].upto <= position'[m]
    <3>1. /\ position[m] \in Nat /\ position'[m] \in Nat /\ position[m] <= position'[m]
          /\ commits[m][i].upto \in Nat /\ commits[m][i].upto <= position[m]
      BY <2>1 DEF TypeOK, CurrentOwned
    <3> QED
      BY <2>1, <3>1 DEF CurrentOwned
  <2> QED
    BY <2>1 DEF CurrentOwned, Queued
<1>4. InOrder'
  BY DEF InOrder, Queued
<1> QED
  BY <1>1, <1>2, <1>3, <1>4

\* A member that leaves, and whose queue is lost with it, keeps FenceInv.
LEMMA FenceLeave ==
  ASSUME TypeOK, FenceInv, NEW m \in Members,
         joined' = [joined EXCEPT ![m] = 0], commits' = [commits EXCEPT ![m] = <<>>],
         UNCHANGED <<committed, generation, position>>
  PROVE  FenceInv'
<1> USE QueuedType DEF FenceInv
<1>0. /\ \A n \in Members \ {m} : commits'[n] = commits[n] /\ joined'[n] = joined[n]
      /\ Queued(m)' = {} /\ joined'[m] = 0
  BY DEF TypeOK, Queued
<1>1. OwnerAhead'
  BY <1>0 DEF TypeOK, OwnerAhead, Owns
<1>2. GenerationsPast'
  BY <1>0 DEF GenerationsPast, Queued
<1>3. CurrentOwned'
  BY <1>0 DEF CurrentOwned, Queued
<1>4. InOrder'
  BY <1>0 DEF InOrder, Queued
<1> QED
  BY <1>1, <1>2, <1>3, <1>4

\* Dropping the oldest commit of a queue, applied or not, keeps FenceInv when
\* the committed offset stays or becomes that commit's.
LEMMA FenceTail ==
  ASSUME TypeOK, MembershipInv, FenceInv, NEW m \in Members,
         commits[m] # <<>>, commits' = [commits EXCEPT ![m] = Tail(@)],
         UNCHANGED <<generation, joined, position>>,
         \/ UNCHANGED committed
         \/ Head(commits[m]).gen = generation /\ committed' = Head(commits[m]).upto
  PROVE  FenceInv' /\ committed <= committed'
<1> USE QueuedType DEF FenceInv
<1>0. /\ \A n \in Members \ {m} : commits'[n] = commits[n]
      /\ 1 \in Queued(m) /\ Head(commits[m]) = commits[m][1]
      /\ \A i \in Queued(m)' : i + 1 \in Queued(m) /\ commits'[m][i] = commits[m][i + 1]
      /\ \A i \in Queued(m)' : i \in Nat
  BY QueueTail DEF Queued
<1>1. CASE UNCHANGED committed
  <2>1. OwnerAhead'
    BY <1>1 DEF OwnerAhead, Owns
  <2>2. GenerationsPast'
    BY <1>0 DEF GenerationsPast, Queued
  <2>3. CurrentOwned'
    BY <1>0, <1>1 DEF CurrentOwned, Queued
  <2>4. InOrder'
    BY <1>0 DEF InOrder, Queued
  <2> QED
    BY <1>1, <2>1, <2>2, <2>3, <2>4 DEF TypeOK
<1>2. CASE commits[m][1].gen = generation /\ committed' = commits[m][1].upto
  <2>0. /\ committed <= committed' /\ committed' <= position[m]
        /\ joined[m] = generation /\ generation > 0
    BY <1>0, <1>2 DEF CurrentOwned, GenerationsPast, TypeOK
  <2>m. \A n \in Members : joined[n] = generation => n = m
    BY <2>0 DEF MembershipInv
  <2>1. OwnerAhead'
    BY <2>0, <2>m DEF OwnerAhead, Owns
  <2>2. GenerationsPast'
    BY <1>0 DEF GenerationsPast, Queued
  <2>3. CurrentOwned'
    <3>1. ASSUME NEW i \in Queued(m)', commits'[m][i].gen = generation
          PROVE  committed' <= commits'[m][i].upto /\ commits'[m][i].upto <= position[m]
      <4>0. i \in Nat /\ 1 <= i + 1
        BY <1>0, <3>1
      <4>1. i + 1 \in Queued(m) /\ commits'[m][i] = commits[m][i + 1]
        BY <1>0, <3>1
      <4>2. commits[m][1].upto <= commits[m][i + 1].upto
        BY <1>0, <1>2, <3>1, <4>0, <4>1 DEF InOrder
      <4> QED
        BY <1>2, <3>1, <4>1, <4>2 DEF CurrentOwned
    <3>2. ASSUME NEW n \in Members \ {m}, NEW i \in Queued(n)'
          PROVE  commits'[n][i].gen # generation
      BY <1>0, <2>m, <3>2 DEF CurrentOwned, Queued
    <3> QED
      BY <2>0, <3>1, <3>2 DEF CurrentOwned
  <2>4. InOrder'
    BY <1>0 DEF InOrder, Queued
  <2> QED
    BY <2>0, <2>1, <2>2, <2>3, <2>4
<1> QED
  BY <1>0, <1>1, <1>2

\* A commit of the record just handled goes to the end of m's queue.
LEMMA FenceAppend ==
  ASSUME TypeOK, MembershipInv, FenceInv, NEW m \in Members, joined[m] # 0,
         commits' = [commits EXCEPT
                       ![m] = Append(@, [gen |-> joined[m], upto |-> position[m]])],
         UNCHANGED <<committed, generation, joined, position>>
  PROVE  FenceInv'
<1> USE QueuedType DEF FenceInv, Queued
<1> DEFINE last == Len(commits[m]) + 1
<1>0. /\ \A n \in Members \ {m} : commits'[n] = commits[n] /\ Queued(n)' = Queued(n)
      /\ Queued(m)' = Queued(m) \cup {last}
      /\ commits'[m][last].gen = joined[m] /\ commits'[m][last].upto = position[m]
      /\ \A i \in Queued(m) : commits'[m][i] = commits[m][i] /\ i < last
  <2> DEFINE new == [gen |-> joined[m], upto |-> position[m]]
  <2>1. new \in Commit /\ new.gen = joined[m] /\ new.upto = position[m]
    BY DEF Commit, TypeOK
  <2> HIDE DEF new
  <2>2. commits' = [commits EXCEPT ![m] = Append(@, new)]
    BY DEF new
  <2>3. /\ \A n \in Members \ {m} : commits'[n] = commits[n]
        /\ Len(commits'[m]) = last /\ commits'[m][last] = new
        /\ \A i \in 1..Len(commits[m]) : commits'[m][i] = commits[m][i]
        /\ Len(commits[m]) \in Nat
    BY <2>1, <2>2, QueueAppend
  <2> QED
    BY <2>1, <2>3 DEF Queued
<1>j. joined[m] \in Nat /\ joined[m] <= generation /\ position[m] \in Nat /\ last \in Nat
  BY DEF TypeOK, MembershipInv
<1> HIDE DEF last
<1>1. OwnerAhead'
  BY DEF OwnerAhead, Owns
<1>2. GenerationsPast'
  <2>1. ASSUME NEW n \in Members, NEW i \in Queued(n)'
        PROVE  0 < commits'[n][i].gen /\ commits'[n][i].gen <= generation
    <3>1. CASE n = m /\ i = last
      BY <1>0, <1>j, <3>1
    <3>2. CASE ~(n = m /\ i = last)
      BY <1>0, <2>1, <3>2 DEF GenerationsPast
    <3> QED
      BY <3>1, <3>2
  <2> QED
    BY <2>1 DEF GenerationsPast
<1>3. CurrentOwned'
  <2>1. ASSUME NEW n \in Members, NEW i \in Queued(n)', commits'[n][i].gen = generation
        PROVE  /\ joined[n] = generation
               /\ committed <= commits'[n][i].upto /\ commits'[n][i].upto <= position[n]
    <3>1. CASE n = m /\ i = last
      <4>1. joined[m] = generation => committed <= position[m]
        BY <1>j DEF OwnerAhead, Owns, TypeOK
      <4> QED
        BY <1>0, <1>j, <2>1, <3>1, <4>1
    <3>2. CASE ~(n = m /\ i = last)
      BY <1>0, <2>1, <3>2 DEF CurrentOwned
    <3> QED
      BY <3>1, <3>2
  <2> QED
    BY <2>1 DEF CurrentOwned
<1>4. InOrder'
  <2>1. ASSUME NEW n \in Members, NEW i \in Queued(n)', NEW j \in Queued(n)', i <= j,
               commits'[n][i].gen = generation, commits'[n][j].gen = generation
        PROVE  commits'[n][i].upto <= commits'[n][j].upto
    <3>1. CASE n = m /\ j = last
      <4>1. CASE i = last
        BY <1>0, <1>j, <3>1, <4>1
      <4>2. CASE i # last
        BY <1>0, <2>1, <3>1, <4>2 DEF CurrentOwned
      <4> QED
        BY <4>1, <4>2
    <3>2. CASE ~(n = m /\ j = last)
      <4>1. i \in Queued(n) /\ j \in Queued(n)
        BY <1>0, <1>j, <2>1, <3>2 DEF Queued
      <4> QED
        BY <1>0, <2>1, <4>1 DEF InOrder
    <3> QED
      BY <3>1, <3>2
  <2> QED
    BY <2>1 DEF InOrder
<1> QED
  BY <1>1, <1>2, <1>3, <1>4

\* A new generation makes every queued commit one of an older generation.
LEMMA FenceAssign ==
  ASSUME TypeOK, MembershipInv, FenceInv, NEW m \in Members, Assign(m)
  PROVE  FenceInv'
<1> USE QueuedType DEF FenceInv
<1>0. /\ generation' = generation + 1 /\ UNCHANGED <<committed, commits>>
      /\ \A n \in Members : joined'[n] = generation' => position'[n] = committed
  BY DEF Assign, MembershipInv, TypeOK
<1>t. generation \in Nat
  BY DEF TypeOK
<1>1. \A n \in Members : \A i \in Queued(n) :
        /\ 0 < commits[n][i].gen /\ commits[n][i].gen < generation'
        /\ commits[n][i].gen <= generation'
  BY <1>0, <1>t DEF GenerationsPast
<1>2. OwnerAhead'
  BY <1>0 DEF OwnerAhead, Owns, TypeOK
<1>3. GenerationsPast'
  BY <1>0, <1>1 DEF GenerationsPast, Queued
<1>4. CurrentOwned'
  BY <1>0, <1>t, <1>1 DEF CurrentOwned, Queued
<1>5. InOrder'
  BY <1>0, <1>t, <1>1 DEF InOrder, Queued
<1> QED
  BY <1>2, <1>3, <1>4, <1>5

\* A member that finds out that it lost the partition keeps FenceInv: none of
\* its commits is of the current generation.
LEMMA FenceRevoked ==
  ASSUME TypeOK, MembershipInv, FenceInv, NEW m \in Members, Revoked(m)
  PROVE  FenceInv'
<1> USE QueuedType DEF FenceInv
<1>0. /\ UNCHANGED <<committed, generation, position, commits>>
      /\ joined[m] # generation /\ joined'[m] = 0
      /\ \A n \in Members \ {m} : joined'[n] = joined[n]
  BY DEF Revoked, group, TypeOK
<1>1. OwnerAhead'
  BY <1>0 DEF OwnerAhead, Owns, TypeOK
<1>2. GenerationsPast'
  BY <1>0 DEF GenerationsPast, Queued
<1>3. CurrentOwned'
  BY <1>0 DEF CurrentOwned, Queued
<1>4. InOrder'
  BY <1>0 DEF InOrder, Queued
<1> QED
  BY <1>1, <1>2, <1>3, <1>4

\* FenceInv is preserved by every step, and no step moves the committed offset
\* back.
LEMMA FenceStep ==
  ASSUME OrderInv, [Next]_vars PROVE FenceInv' /\ committed <= committed'
<1> USE DEF OrderInv, vars, group, member, counters, Goto
<1>0. TypeOK' /\ \A m \in Members : position[m] \in Nat
  BY TypeStep DEF TypeOK
<1>c. committed <= committed
  BY DEF TypeOK
<1>1. ASSUME NEW m \in Members, MemberNext(m) PROVE FenceInv' /\ committed <= committed'
  <2>1. CASE Recv(m)
    BY <1>0, <2>1, FenceFrame DEF Recv, TypeOK
  <2>2. CASE HandlerOk(m)
    BY <1>0, <2>2, FenceFrame DEF HandlerOk, TypeOK
  <2>3. CASE HandlerErr(m)
    BY <1>0, <2>3, FenceFrame DEF HandlerErr, TypeOK
  <2>4. CASE CommitMessage(m)
    <3>1. /\ UNCHANGED <<committed, generation, joined, position>>
          /\ committed <= committed' /\ joined[m] # 0
      BY <2>4 DEF CommitMessage, MembershipInv, TypeOK
    <3>2. CASE UNCHANGED commits
      BY <1>0, <3>1, <3>2, FenceFrame DEF TypeOK
    <3>3. CASE commits' = [commits EXCEPT
                  ![m] = Append(@, [gen |-> joined[m], upto |-> position[m]])]
      BY <3>1, <3>3, FenceAppend
    <3> QED
      BY <2>4, <3>2, <3>3 DEF CommitMessage
  <2>5. CASE Stopped(m)
    BY <1>c, <2>5, FenceLeave DEF Stopped
  <2>6. CASE Rerun(m)
    BY <1>0, <2>6, FenceFrame DEF Rerun, TypeOK
  <2>7. CASE Crash(m)
    BY <1>c, <2>7, FenceLeave DEF Crash
  <2>8. CASE Connect(m)
    BY <1>0, <2>8, FenceFrame DEF Connect, TypeOK
  <2>9. CASE Assign(m)
    BY <1>c, <2>9, FenceAssign DEF Assign
  <2>10. CASE Revoked(m)
    BY <1>c, <2>10, FenceRevoked DEF Revoked
  <2>11. CASE CommitApplied(m)
    BY <2>11, FenceTail DEF CommitApplied
  <2>12. CASE CommitLost(m)
    BY <2>12, FenceTail DEF CommitLost
  <2> QED
    BY <1>1, <2>1, <2>2, <2>3, <2>4, <2>5, <2>6, <2>7, <2>8, <2>9, <2>10, <2>11, <2>12
    DEF MemberNext, run
<1>2. ASSUME NEW r \in Records, Produce(r) PROVE FenceInv' /\ committed <= committed'
  BY <1>0, <1>2, FenceFrame DEF Produce, TypeOK
<1>3. CASE UNCHANGED vars
  BY <1>0, <1>3, FenceFrame DEF TypeOK
<1> QED
  BY <1>1, <1>2, <1>3 DEF Next, Drained

\* Ownership and the queues of commits stay in order through crashes,
\* rebalances and lost commits.
THEOREM Ordered == Spec => []OrderInv
<1>1. Init => OrderInv
  BY PipelineAssumption DEF Init, OrderInv, TypeOK, MembershipInv, FenceInv, OwnerAhead,
       Owns, GenerationsPast, CurrentOwned, InOrder, Queued
<1>2. OrderInv /\ [Next]_vars => OrderInv'
  BY TypeStep, MembershipStep, FenceStep DEF OrderInv
<1> QED
  BY <1>1, <1>2, PTL DEF Spec

\* The committed offset of the group never moves back, whoever commits.
THEOREM NeverRewinds == Spec => CommitNeverRewinds
<1>1. OrderInv /\ [Next]_vars => [committed' >= committed]_vars
  BY FenceStep, TypeStep DEF OrderInv, TypeOK
<1> QED
  BY <1>1, Ordered, PTL DEF Spec, CommitNeverRewinds

-----------------------------------------------------------------------------
(* Everything committed was handled *)

\* How far m's handler has accepted what recv returned: all of it, but not the
\* record in the handler's hands, nor the one run returned on.
Accepted(m) ==
  IF pc[m] = "handling" \/ (pc[m] = "stopped" /\ m \in Failing)
    THEN position[m] - 1
    ELSE position[m]

Handled == consumed \cup skipped

\* What CommittedHandled needs to be inductive: the committed offset is what a
\* queued commit will make it, and a queued commit is a member's position.
MembersHandled == \A m \in Members : joined[m] # 0 => 1..Accepted(m) \subseteq Handled
QueuesHandled ==
  \A m \in Members : \A i \in 1..Len(commits[m]) : 1..commits[m][i].upto \subseteq Handled

HandledInv == CommittedHandled /\ MembersHandled /\ QueuesHandled

\* No consumer both has a handler that fails and calls run again after it:
\* such a consumer would go on behind the record its handler refused.
NoRerunAfterErr == Failing \cap Rerunners = {}

\* Counting a record changes no other count.
LEMMA HandledGrows == ASSUME [Next]_vars PROVE Handled \subseteq Handled'
<1> USE DEF vars, counters, Handled
<1>1. ASSUME NEW m \in Members, MemberNext(m) PROVE Handled \subseteq Handled'
  BY <1>1 DEF MemberNext, run, Recv, HandlerOk, HandlerErr, CommitMessage, Stopped, Rerun,
              Crash, Connect, Assign, Revoked, CommitApplied, CommitLost
<1> QED
  BY <1>1 DEF Next, Produce, Drained

\* A step of m disturbs MembersHandled only in what m has accepted itself.
LEMMA MembersFrame ==
  ASSUME TypeOK, MembersHandled, Handled \subseteq Handled', NEW m \in Members,
         \A n \in Members \ {m} :
           pc'[n] = pc[n] /\ position'[n] = position[n] /\ joined'[n] = joined[n],
         joined'[m] # 0 => (1..Accepted(m) \subseteq Handled)'
  PROVE  MembersHandled'
BY DEF MembersHandled, Handled, Accepted

\* A step that queues no commit keeps QueuesHandled, also when it drops some.
LEMMA QueuesFrame ==
  ASSUME TypeOK, QueuesHandled, Handled \subseteq Handled', NEW m \in Members,
         \/ UNCHANGED commits
         \/ commits' = [commits EXCEPT ![m] = <<>>]
         \/ commits[m] # <<>> /\ commits' = [commits EXCEPT ![m] = Tail(@)]
  PROVE  QueuesHandled'
<1> USE DEF QueuesHandled
<1>1. CASE UNCHANGED commits
  BY <1>1 DEF Handled
<1>2. CASE commits' = [commits EXCEPT ![m] = <<>>]
  <2>1. /\ Len(commits'[m]) = 0
        /\ \A n \in Members \ {m} : commits'[n] = commits[n]
    BY <1>2 DEF TypeOK
  <2> QED
    BY <2>1 DEF Handled
<1>3. CASE commits[m] # <<>> /\ commits' = [commits EXCEPT ![m] = Tail(@)]
  <2>1. /\ \A n \in Members \ {m} : commits'[n] = commits[n]
        /\ \A i \in 1..Len(commits'[m]) :
             i + 1 \in 1..Len(commits[m]) /\ commits'[m][i] = commits[m][i + 1]
    BY <1>3, QueuedType, QueueTail
  <2>2. ASSUME NEW n \in Members, NEW i \in 1..Len(commits'[n])
        PROVE  1..commits'[n][i].upto \subseteq Handled'
    <3>1. CASE n = m
      BY <2>1, <2>2, <3>1
    <3>2. CASE n # m
      BY <2>1, <2>2, <3>2
    <3> QED
      BY <3>1, <3>2
  <2> QED
    BY <2>2
<1> QED
  BY <1>1, <1>2, <1>3

\* HandledInv is preserved by every step.
LEMMA HandledStep ==
  ASSUME NoRerunAfterErr, TypeOK, MembershipInv, HandledInv, [Next]_vars
  PROVE  HandledInv'
<1> USE DEF HandledInv, vars, group, member, counters, Goto
<1>h. Handled \subseteq Handled'
  BY HandledGrows
<1>t. /\ \A m \in Members : position[m] \in Nat /\ joined[m] \in Nat
      /\ pc \in [Members -> {"down", "recv", "handling", "commit", "stopped"}]
      /\ joined \in [Members -> Nat] /\ position \in [Members -> Nat]
  BY DEF TypeOK
<1>c. committed' = committed => CommittedHandled'
  BY <1>h DEF CommittedHandled, Handled
<1>1. ASSUME NEW m \in Members, MemberNext(m) PROVE HandledInv'
  <2>1. CASE Recv(m)
    <3>1. MembersHandled'
      BY <1>h, <1>t, <2>1, MembersFrame DEF Recv, MembersHandled, Accepted
    <3> QED
      BY <1>c, <1>h, <2>1, <3>1, QueuesFrame DEF Recv
  <2>2. CASE HandlerOk(m)
    <3>1. joined[m] # 0 => 1..position[m] \subseteq Handled'
      <4>1. position[m] \in Handled' /\ pc[m] = "handling"
        BY <2>2 DEF HandlerOk, Handled
      <4>2. joined[m] # 0 => 1..(position[m] - 1) \subseteq Handled'
        BY <1>h, <4>1 DEF MembersHandled, Accepted
      <4> QED
        BY <1>t, <4>1, <4>2
    <3>2. MembersHandled'
      BY <1>h, <1>t, <2>2, <3>1, MembersFrame DEF HandlerOk, Accepted
    <3> QED
      BY <1>c, <1>h, <2>2, <3>2, QueuesFrame DEF HandlerOk
  <2>3. CASE HandlerErr(m)
    <3>1. MembersHandled'
      BY <1>h, <1>t, <2>3, MembersFrame DEF HandlerErr, MembersHandled, Accepted
    <3> QED
      BY <1>c, <1>h, <2>3, <3>1, QueuesFrame DEF HandlerErr
  <2>4. CASE CommitMessage(m)
    <3>0. /\ UNCHANGED <<committed, joined, position>> /\ pc[m] = "commit" /\ joined[m] # 0
          /\ pc' = [pc EXCEPT ![m] = "recv"] \/ pc' = [pc EXCEPT ![m] = "stopped"]
      BY <2>4 DEF CommitMessage, MembershipInv
    <3>1. 1..position[m] \subseteq Handled' /\ 1..(position[m] - 1) \subseteq Handled'
      BY <1>h, <1>t, <3>0 DEF MembersHandled, Accepted
    <3>2. MembersHandled'
      BY <1>h, <1>t, <3>0, <3>1, MembersFrame DEF Accepted
    <3>3. QueuesHandled'
      <4>1. CASE UNCHANGED commits
        BY <1>h, <4>1, QueuesFrame
      <4>2. CASE commits' = [commits EXCEPT
                   ![m] = Append(@, [gen |-> joined[m], upto |-> position[m]])]
        <5> DEFINE new == [gen |-> joined[m], upto |-> position[m]]
        <5>1. new \in Commit /\ new.upto = position[m]
          BY <1>t DEF Commit
        <5> HIDE DEF new
        <5>2. commits' = [commits EXCEPT ![m] = Append(@, new)]
          BY <4>2 DEF new
        <5>3. /\ \A n \in Members \ {m} : commits'[n] = commits[n]
              /\ Len(commits'[m]) = Len(commits[m]) + 1
              /\ commits'[m][Len(commits[m]) + 1] = new /\ Len(commits[m]) \in Nat
              /\ \A i \in 1..Len(commits[m]) : commits'[m][i] = commits[m][i]
          BY <5>1, <5>2, QueuedType, QueueAppend
        <5>4. ASSUME NEW n \in Members, NEW i \in 1..Len(commits'[n])
              PROVE  1..commits'[n][i].upto \subseteq Handled'
          <6>1. CASE n = m /\ i = Len(commits[m]) + 1
            BY <3>1, <5>1, <5>3, <6>1
          <6>2. CASE n = m /\ i # Len(commits[m]) + 1
            <7>1. i \in 1..Len(commits[m])
              BY <5>3, <5>4, <6>2
            <7> QED
              BY <1>h, <5>3, <6>2, <7>1 DEF QueuesHandled
          <6>3. CASE n # m
            BY <1>h, <5>3, <5>4, <6>3 DEF QueuesHandled
          <6> QED
            BY <6>1, <6>2, <6>3
        <5> QED
          BY <5>4 DEF QueuesHandled
      <4> QED
        BY <2>4, <4>1, <4>2 DEF CommitMessage
    <3> QED
      BY <1>c, <3>0, <3>2, <3>3
  <2>5. CASE Stopped(m)
    <3>1. MembersHandled'
      BY <1>h, <1>t, <2>5, MembersFrame DEF Stopped
    <3> QED
      BY <1>c, <1>h, <2>5, <3>1, QueuesFrame DEF Stopped
  <2>6. CASE Rerun(m)
    <3>1. MembersHandled'
      BY <1>h, <1>t, <2>6, MembersFrame DEF Rerun, NoRerunAfterErr, MembersHandled, Accepted
    <3> QED
      BY <1>c, <1>h, <2>6, <3>1, QueuesFrame DEF Rerun
  <2>7. CASE Crash(m)
    <3>1. MembersHandled'
      BY <1>h, <1>t, <2>7, MembersFrame DEF Crash
    <3> QED
      BY <1>c, <1>h, <2>7, <3>1, QueuesFrame DEF Crash
  <2>8. CASE Connect(m)
    <3>1. MembersHandled'
      BY <1>h, <1>t, <2>8, MembersFrame DEF Connect, MembershipInv
    <3> QED
      BY <1>c, <1>h, <2>8, <3>1, QueuesFrame DEF Connect
  <2>9. CASE Assign(m)
    <3>1. MembersHandled'
      BY <1>h, <1>t, <2>9, MembersFrame DEF Assign, CommittedHandled, Handled, Accepted
    <3> QED
      BY <1>c, <1>h, <2>9, <3>1, QueuesFrame DEF Assign
  <2>10. CASE Revoked(m)
    <3>1. MembersHandled'
      BY <1>h, <1>t, <2>10, MembersFrame DEF Revoked
    <3> QED
      BY <1>c, <1>h, <2>10, <3>1, QueuesFrame DEF Revoked
  <2>11. CASE CommitApplied(m)
    <3>1. MembersHandled'
      BY <1>h, <1>t, <2>11, MembersFrame DEF CommitApplied, MembersHandled, Accepted
    <3>2. CommittedHandled'
      <4>1. 1 \in 1..Len(commits[m]) /\ Head(commits[m]) = commits[m][1]
        BY <2>11, QueuedType, QueueTail DEF CommitApplied
      <4>2. CASE committed' = Head(commits[m]).upto
        BY <1>h, <4>1, <4>2 DEF QueuesHandled, CommittedHandled, Handled
      <4> QED
        BY <1>c, <2>11, <4>2 DEF CommitApplied
    <3> QED
      BY <1>h, <2>11, <3>1, <3>2, QueuesFrame DEF CommitApplied
  <2>12. CASE CommitLost(m)
    <3>1. MembersHandled'
      BY <1>h, <1>t, <2>12, MembersFrame DEF CommitLost, MembersHandled, Accepted
    <3> QED
      BY <1>c, <1>h, <2>12, <3>1, QueuesFrame DEF CommitLost
  <2> QED
    BY <1>1, <2>1, <2>2, <2>3, <2>4, <2>5, <2>6, <2>7, <2>8, <2>9, <2>10, <2>11, <2>12
    DEF MemberNext, run
<1>2. CASE UNCHANGED <<group, member, counters>>
  BY <1>2 DEF CommittedHandled, MembersHandled, QueuesHandled, Accepted, Handled
<1> QED
  BY <1>1, <1>2 DEF Next, Produce, Drained

\* At-least-once: with no consumer that goes on behind an error of its handler,
\* every record below the committed offset was accepted by a handler, for any
\* number of members, crashes, rebalances, and lost or late commits.
THEOREM AtLeastOnce == ASSUME NoRerunAfterErr PROVE Spec => []CommittedHandled
<1> DEFINE IInv == TypeOK /\ MembershipInv /\ HandledInv
<1>1. Init => IInv
  BY PipelineAssumption DEF Init, TypeOK, MembershipInv, HandledInv, CommittedHandled,
       MembersHandled, QueuesHandled, Accepted
<1>2. IInv /\ [Next]_vars => IInv'
  BY TypeStep, MembershipStep, HandledStep
<1>3. IInv => CommittedHandled
  BY DEF HandledInv
<1> QED
  BY <1>1, <1>2, <1>3, PTL DEF Spec

-----------------------------------------------------------------------------
(* While nothing fails, no record is handled twice *)

\* Until the first fault the group has one owner at most, the same one for ever,
\* and everything handled lies behind it: up to the last record it received, or
\* before the one in its handler's hands.
Behind(m) ==
  \A n \in Handled : n <= position[m] /\ (pc[m] = "handling" => n < position[m])

Calm ==
  faults = 0 =>
    /\ \A m \in Members :
         /\ pc[m] \in {"recv", "handling", "commit"}
         /\ joined[m] \in {0, generation}
         /\ Owns(m) => Behind(m)
    /\ generation = 0 => Handled = {}
    /\ generation > 0 => Owned

\* Calm is preserved by every step: a step that could end it is a fault.
LEMMA CalmStep ==
  ASSUME TypeOK, MembershipInv, Calm, [Next]_vars PROVE Calm'
<1> SUFFICES ASSUME faults = 0, faults' = 0 PROVE Calm'
  <2>1. ASSUME NEW m \in Members, MemberNext(m) PROVE UNCHANGED faults \/ Fault
    BY <2>1 DEF MemberNext, run, Recv, HandlerOk, HandlerErr, CommitMessage, Stopped, Rerun,
                Crash, Connect, Assign, Revoked, CommitApplied, CommitLost
  <2>2. UNCHANGED faults \/ Fault
    BY <2>1 DEF Next, Produce, Drained, vars
  <2>3. faults \in Nat
    BY PipelineAssumption DEF TypeOK
  <2> QED
    BY <2>2, <2>3 DEF Calm, Fault
<1> USE DEF TypeOK, MembershipInv, Calm, Owns, Owned, Behind, Handled, Goto, vars, group,
            member, counters
<1>1. ASSUME NEW m \in Members, MemberNext(m) PROVE Calm'
  <2>1. CASE Recv(m)
    BY <2>1 DEF Recv
  <2>2. CASE HandlerOk(m)
    <3>1. /\ Handled' = Handled \cup {position[m]}
          /\ UNCHANGED <<generation, joined, position>>
          /\ pc[m] = "handling" /\ pc' = [pc EXCEPT ![m] = "commit"]
      BY <2>2 DEF HandlerOk
    <3>2. \A n \in Members : Owns(n) => n = m
      BY <3>1
    <3>3. Behind(m)'
      <4>1. Behind(m) /\ position[m] \in Nat /\ position'[m] = position[m] /\ pc'[m] = "commit"
        BY <3>1
      <4>2. ASSUME NEW n \in Handled' PROVE n <= position'[m]
        <5>1. CASE n \in Handled
          BY <4>1, <5>1
        <5>2. CASE n = position[m]
          BY <4>1, <5>2
        <5> HIDE DEF Handled
        <5> QED
          BY <3>1, <5>1, <5>2
      <4> HIDE DEF Handled
      <4> QED
        BY <4>1, <4>2
    <3> QED
      BY <3>1, <3>2, <3>3
  <2>3. CASE HandlerErr(m) \/ Crash(m) \/ CommitLost(m)
    BY <2>3 DEF HandlerErr, Crash, CommitLost, Fault
  <2>4. CASE CommitMessage(m)
    BY <2>4 DEF CommitMessage, Fault
  <2>5. CASE Stopped(m) \/ Rerun(m) \/ Connect(m)
    BY <2>5 DEF Stopped, Rerun, Connect
  <2>6. CASE Assign(m)
    BY <2>6 DEF Assign, Fault
  <2>7. CASE Revoked(m)
    BY <2>7 DEF Revoked
  <2>8. CASE CommitApplied(m)
    BY <2>8 DEF CommitApplied
  <2> QED
    BY <1>1, <2>1, <2>2, <2>3, <2>4, <2>5, <2>6, <2>7, <2>8 DEF MemberNext, run
<1>2. CASE UNCHANGED <<group, member, counters>>
  BY <1>2
<1> QED
  BY <1>1, <1>2 DEF Next, Produce, Drained

\* A record handled again was preceded by a fault, for any number of members
\* and records.
THEOREM OnceWhileCalm == Spec => RepeatOnlyAfterFault
<1> DEFINE IInv == TypeOK /\ MembershipInv /\ Calm
<1>1. Init => IInv
  BY PipelineAssumption DEF Init, TypeOK, MembershipInv, Calm, Owns, Owned, Handled
<1>2. IInv /\ [Next]_vars => IInv'
  BY TypeStep, MembershipStep, CalmStep
<1>3. IInv => \A m \in Members :
                Handles(m) /\ position[m] \in consumed \cup skipped => faults > 0
  <2> SUFFICES ASSUME IInv, NEW m \in Members, pc[m] = "handling",
                      position[m] \in Handled, faults = 0
               PROVE  FALSE
    BY PipelineAssumption DEF Handles, Handled, TypeOK
  <2>1. Owns(m)
    BY DEF MembershipInv, Calm, Owns, TypeOK
  <2> QED
    BY <2>1 DEF Calm, Behind, TypeOK
<1> QED
  BY <1>1, <1>2, <1>3, PTL DEF Spec, RepeatOnlyAfterFault
=============================================================================
