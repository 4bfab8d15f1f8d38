--------------------------- MODULE EventPipeline ---------------------------
(***************************************************************************)
(* The consuming side of tasks.events: kafka::Consumer::run driving the     *)
(* handler of consumer::Worker, in one or more worker processes of the same *)
(* consumer group, on one partition.  Commits are asynchronous: run queues  *)
(* the offset and goes on, the broker applies it later or never.            *)
(*                                                                          *)
(* The broker and librdkafka are external and modelled from how the code    *)
(* uses them: the coordinator gives the partition to one member per         *)
(* generation, a new owner starts at the committed offset (earliest when    *)
(* there is none), a commit of an older generation is refused, and a member *)
(* learns of a rebalance only when it polls.                                *)
(***************************************************************************)
EXTENDS Integers, Sequences

CONSTANTS
  Members,         \* worker processes of the group
  Records, Poison, \* what may be on the topic; the part no event decodes from
  Failing,         \* members whose handler can return Err (Worker's never does)
  Rerunners,       \* members that call run again on the Consumer it returned from
  MaxLog,          \* bound: records produced
  MaxFaults        \* bound: crashes, failed calls and spontaneous rebalances

ASSUME PipelineAssumption ==
  /\ Poison \subseteq Records
  /\ Failing \subseteq Members /\ Rerunners \subseteq Members
  /\ MaxLog \in Nat /\ MaxFaults \in Nat

VARIABLES
  log,         \* the partition; offset n of the broker is index n + 1 here
  committed,   \* the group's committed offset: records 1..committed are done with
  generation,  \* of the group
  pc,          \* of each member: down, recv, handling, commit or stopped
  joined,      \* the generation each member believes in, 0 = none
  position,    \* the last record recv returned, counted from the assignment
  commits,     \* per member, the queued commits, oldest first
  consumed, skipped,  \* history: records counted by the worker's two counters
  faults

group == <<committed, generation>>
member == <<pc, joined, position, commits>>
counters == <<consumed, skipped>>
vars == <<log, group, member, counters, faults>>

Init ==
  /\ log = <<>> /\ committed = 0 /\ generation = 0
  /\ pc = [m \in Members |-> "recv"]
  /\ joined = [m \in Members |-> 0] /\ position = [m \in Members |-> 0]
  /\ commits = [m \in Members |-> <<>>]
  /\ consumed = {} /\ skipped = {} /\ faults = 0

Goto(m, from, to) == pc[m] = from /\ pc' = [pc EXCEPT ![m] = to]
Fault == faults < MaxFaults /\ faults' = faults + 1

-----------------------------------------------------------------------------
(* Consumer::run with the handler of Worker::run *)

\* Mutant of Recv: each turn of the loop subscribes again, and so starts from
\* the committed offset.
RecvResubscribed(m) ==
  /\ joined[m] # 0 /\ committed < Len(log)
  /\ position' = [position EXCEPT ![m] = committed + 1]
  /\ Goto(m, "recv", "handling")
  /\ UNCHANGED <<log, group, joined, commits, counters, faults>>

\* recv returns the next record; an Err of recv is logged and polled again.
Recv(m) ==
  /\ joined[m] # 0 /\ position[m] < Len(log)
  /\ position' = [position EXCEPT ![m] = @ + 1]
  /\ Goto(m, "recv", "handling")
  /\ UNCHANGED <<log, group, joined, commits, counters, faults>>

\* Mutant of HandlerOk: a record that does not decode is tried again and again.
HandlerOkRetriesPoison(m) ==
  /\ pc[m] = "handling"
  /\ IF log[position[m]] \in Poison
       THEN UNCHANGED <<pc, consumed>>
       ELSE Goto(m, "handling", "commit") /\ consumed' = consumed \cup {position[m]}
  /\ UNCHANGED <<log, group, joined, position, commits, skipped, faults>>

\* The handler counts a decoded event as consumed and an undecodable one as
\* skipped, and accepts both.
HandlerOk(m) ==
  /\ Goto(m, "handling", "commit")
  /\ IF log[position[m]] \in Poison
       THEN skipped' = skipped \cup {position[m]} /\ UNCHANGED consumed
       ELSE consumed' = consumed \cup {position[m]} /\ UNCHANGED skipped
  /\ UNCHANGED <<log, group, joined, position, commits, faults>>

\* Mutant of HandlerErr: the error is logged and the record committed.
HandlerErrSwallowed(m) ==
  /\ m \in Failing /\ Fault
  /\ Goto(m, "handling", "commit")
  /\ UNCHANGED <<log, group, joined, position, commits, counters>>

\* `handler(msg).await?` leaves run.
HandlerErr(m) ==
  /\ m \in Failing /\ Fault
  /\ Goto(m, "handling", "stopped")
  /\ UNCHANGED <<log, group, joined, position, commits, counters>>

\* Mutant of CommitMessage: the commit is sent under the group's current
\* generation and not the one the record was read in.
CommitMessageUnfenced(m) ==
  /\ commits' = [commits EXCEPT
                   ![m] = Append(@, [gen |-> generation, upto |-> position[m]])]
  /\ Goto(m, "commit", "recv")
  /\ UNCHANGED <<log, group, joined, position, counters, faults>>

\* commit_message in CommitMode::Async queues the offset, or fails and leaves run.
CommitMessage(m) ==
  /\ \/ /\ commits' = [commits EXCEPT
                         ![m] = Append(@, [gen |-> joined[m], upto |-> position[m]])]
        /\ Goto(m, "commit", "recv") /\ UNCHANGED faults
     \/ Fault /\ Goto(m, "commit", "stopped") /\ UNCHANGED commits
  /\ UNCHANGED <<log, group, joined, position, counters>>

run(m) == Recv(m) \/ HandlerOk(m) \/ HandlerErr(m) \/ CommitMessage(m)

-----------------------------------------------------------------------------
(* The process: select! ends it when run returns; it is started again *)

\* Worker::run returned: the Consumer is dropped and the process exits.
Stopped(m) ==
  /\ m \notin Rerunners /\ Goto(m, "stopped", "down")
  /\ joined' = [joined EXCEPT ![m] = 0]
  /\ commits' = [commits EXCEPT ![m] = <<>>]
  /\ UNCHANGED <<log, group, position, counters, faults>>

\* run borrows the Consumer, so its caller may call it again: the client is
\* the same, and so is its position.
Rerun(m) ==
  /\ m \in Rerunners /\ Goto(m, "stopped", "recv")
  /\ UNCHANGED <<log, group, joined, position, commits, counters, faults>>

Crash(m) ==
  /\ pc[m] # "down" /\ Fault
  /\ pc' = [pc EXCEPT ![m] = "down"]
  /\ joined' = [joined EXCEPT ![m] = 0]
  /\ commits' = [commits EXCEPT ![m] = <<>>]
  /\ UNCHANGED <<log, group, position, counters>>

\* Consumer::connect in a fresh process subscribes and starts polling.
Connect(m) ==
  /\ Goto(m, "down", "recv")
  /\ UNCHANGED <<log, group, joined, position, commits, counters, faults>>

-----------------------------------------------------------------------------
(* The broker *)

Produce(r) ==
  /\ Len(log) < MaxLog
  /\ log' = Append(log, r)
  /\ UNCHANGED <<group, member, counters, faults>>

Owns(m) == joined[m] = generation /\ generation > 0
Owned == \E m \in Members : Owns(m)

\* Mutants of Assign: auto.offset.reset = latest; the start is one record early.
AssignLatest(m) ==
  /\ pc[m] = "recv" /\ ~Owns(m)
  /\ IF Owned THEN Fault ELSE UNCHANGED faults
  /\ generation' = generation + 1
  /\ joined' = [joined EXCEPT ![m] = generation + 1]
  /\ position' = [position EXCEPT ![m] = IF committed = 0 THEN Len(log) ELSE committed]
  /\ UNCHANGED <<log, committed, pc, commits, counters>>
AssignOneEarly(m) ==
  /\ pc[m] = "recv" /\ ~Owns(m)
  /\ IF Owned THEN Fault ELSE UNCHANGED faults
  /\ generation' = generation + 1
  /\ joined' = [joined EXCEPT ![m] = generation + 1]
  /\ position' = [position EXCEPT ![m] = committed - 1]
  /\ UNCHANGED <<log, committed, pc, commits, counters>>

\* The coordinator gives the partition to m: because it has no owner, or in a
\* rebalance that takes it from a live one.
Assign(m) ==
  /\ pc[m] = "recv" /\ ~Owns(m)
  /\ IF Owned THEN Fault ELSE UNCHANGED faults
  /\ generation' = generation + 1
  /\ joined' = [joined EXCEPT ![m] = generation + 1]
  /\ position' = [position EXCEPT ![m] = committed]
  /\ UNCHANGED <<log, committed, pc, commits, counters>>

\* A member of an older generation finds out when it polls.
Revoked(m) ==
  /\ pc[m] = "recv" /\ joined[m] # 0 /\ joined[m] # generation
  /\ joined' = [joined EXCEPT ![m] = 0]
  /\ UNCHANGED <<log, group, pc, position, commits, counters, faults>>

\* A queued commit reaches the broker, which refuses an older generation.
CommitApplied(m) ==
  /\ commits[m] # <<>>
  /\ committed' = IF Head(commits[m]).gen = generation THEN Head(commits[m]).upto
                  ELSE committed
  /\ commits' = [commits EXCEPT ![m] = Tail(@)]
  /\ UNCHANGED <<log, generation, pc, joined, position, counters, faults>>

\* It fails on the way; nobody looks at the result of an asynchronous commit.
CommitLost(m) ==
  /\ commits[m] # <<>> /\ Fault
  /\ commits' = [commits EXCEPT ![m] = Tail(@)]
  /\ UNCHANGED <<log, group, pc, joined, position, counters>>

MemberNext(m) ==
  \/ run(m) \/ Stopped(m) \/ Rerun(m) \/ Crash(m) \/ Connect(m)
  \/ Assign(m) \/ Revoked(m) \/ CommitApplied(m) \/ CommitLost(m)

\* Everything produced has been dealt with; the members poll in vain.
Drained ==
  /\ Len(log) = MaxLog
  /\ \A m \in Members : pc[m] = "recv" /\ commits[m] = <<>>
  /\ UNCHANGED vars

Next == (\E m \in Members : MemberNext(m)) \/ (\E r \in Records : Produce(r)) \/ Drained

Spec == Init /\ [][Next]_vars

(***************************************************************************)
(* A live process runs its loop, a process that ended is started again (the *)
(* container's restart policy), the broker answers and the coordinator      *)
(* finds an owner.  Faults are not fair, they are only allowed.             *)
(***************************************************************************)
MemberFairness(m) ==
  /\ WF_vars(Recv(m)) /\ WF_vars(HandlerOk(m)) /\ WF_vars(CommitMessage(m))
  /\ WF_vars(Stopped(m)) /\ WF_vars(Rerun(m)) /\ WF_vars(Connect(m))
  /\ WF_vars(Revoked(m)) /\ WF_vars(CommitApplied(m)) /\ WF_vars(~Owned /\ Assign(m))

FairSpec == Spec /\ \A m \in Members : MemberFairness(m)

-----------------------------------------------------------------------------
(* Properties *)

\* Every variable has its type.
TypeOK ==
  /\ log \in Seq(Records) /\ committed \in Nat /\ generation \in Nat
  /\ pc \in [Members -> {"down", "recv", "handling", "commit", "stopped"}]
  /\ joined \in [Members -> Nat] /\ position \in [Members -> Nat]
  /\ commits \in [Members -> Seq([gen : Nat, upto : Nat])]
  /\ consumed \subseteq Nat /\ skipped \subseteq Nat /\ faults \in 0..MaxFaults

\* At-least-once: "commits only what the handler accepts, so a failing handler
\* leaves the record for redelivery".  Every record below the committed offset
\* was accepted by a handler, across crashes, rebalances and lost commits.
CommittedHandled == 1..committed \subseteq consumed \cup skipped

\* The committed offset never moves back: asynchronous commits of a member are
\* applied in order, and those of a member that lost the partition are refused.
CommitNeverRewinds == [][committed' >= committed]_vars

\* A record is handled a second time only when something went wrong before: a
\* process died, a call failed, or the partition was taken from a live owner.
\* Commits lag behind the handler (they are asynchronous), but while nothing
\* fails the one owner reads on from its position and every record is counted
\* once by one of the worker's two counters.
Handles(m) == pc[m] = "handling" /\ pc'[m] = "commit"
RepeatOnlyAfterFault ==
  [][\A m \in Members :
       Handles(m) /\ position[m] \in consumed \cup skipped => faults > 0]_vars

\* "a poison record must not wedge the loop": every record produced is handled
\* at last, the ones behind an undecodable one too.
EveryRecordHandled ==
  \A n \in 1..MaxLog : Len(log) >= n ~> n \in consumed \cup skipped
=============================================================================
