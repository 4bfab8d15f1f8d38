------------------------- MODULE TaskServiceProofs -------------------------
(***************************************************************************)
(* Theorems about TaskService for any number of handlers and tasks, with    *)
(* commands that fail before or after they take effect, and about           *)
(* TaskSystem, the service and its consumers, for any number of workers.    *)
(***************************************************************************)
EXTENDS TaskSystem, TLAPS

-----------------------------------------------------------------------------
(* The inductive invariant *)

\* Only drawn ids are stored, only indexed ids become known, and only known
\* ids are answered or deleted.
Scope ==
  /\ json \subseteq used /\ known \subseteq used /\ index \subseteq known
  /\ acked \subseteq known /\ attempted \subseteq known /\ gone \subseteq attempted

\* A create owns its id, and nobody else knows it before the SADD.
Creating ==
  /\ \A h \in Handlers :
       /\ pc[h] \in {"set", "sadd", "publish", "created"} => id[h] \in used
       /\ pc[h] = "set" => id[h] \notin json \cup known
       /\ pc[h] = "sadd" => id[h] \in json \ known
       /\ pc[h] \in {"publish", "created"} => id[h] \in known
  /\ \A h, k \in Handlers :
       /\ pc[h] \in {"set", "sadd", "publish", "created"}
       /\ pc[k] \in {"set", "sadd", "publish", "created"}
       /\ id[h] = id[k]
       => h = k

\* How far a delete has got.
Deleting ==
  \A h \in Handlers :
    /\ pc[h] \in {"get", "del", "srem", "deleted"} => id[h] \in known
    /\ pc[h] \in {"srem", "deleted"} => id[h] \in attempted \ json
    /\ pc[h] = "deleted" => id[h] \notin index

\* What a client can know of is stored and indexed until a delete touches it.
KnownStored == known \ attempted \subseteq json \cap index

\* Events are about known tasks.
LogKnown == \A n \in 1..Len(log) : log[n] \in known

StoreInv ==
  TypeOK /\ Scope /\ Creating /\ Deleting /\ KnownStored /\ NoResurrection /\ LogKnown

\* Appending copies of one event keeps the log a sequence of known ids.
LEMMA AppendCopies ==
  ASSUME NEW S, NEW s \in Seq(S), NEW x \in S, NEW k \in Nat
  PROVE  LET t == s \o [n \in 1..k |-> x]
         IN  /\ t \in Seq(S)
             /\ \A n \in 1..Len(t) : t[n] = x \/ (n \in 1..Len(s) /\ t[n] = s[n])
<1> DEFINE c == [n \in 1..k |-> x]
<1>1. c \in Seq(S) /\ Len(c) = k
  OBVIOUS
<1>2. s \o c \in Seq(S) /\ Len(s \o c) = Len(s) + k
  BY <1>1
<1>3. ASSUME NEW n \in 1..Len(s \o c)
      PROVE  (s \o c)[n] = x \/ (n \in 1..Len(s) /\ (s \o c)[n] = s[n])
  <2>1. CASE n <= Len(s)
    BY <1>1, <1>2, <2>1
  <2>2. CASE n > Len(s)
    <3>1. n - Len(s) \in 1..k
      BY <1>2, <2>2
    <3>2. (s \o c)[n] = c[n - Len(s)]
      BY <1>1, <1>2, <2>2
    <3> QED
      BY <3>1, <3>2
  <2> QED
    BY <1>2, <2>1, <2>2
<1> QED
  BY <1>2, <1>3

\* The types are preserved by every step.
LEMMA TypeStep == ASSUME StoreInv, [Next]_vars PROVE TypeOK'
<1> USE DEF StoreInv, TypeOK, PC, Scope, Creating, Deleting, ClearListing, vars, valkey, listing, history, Goto, Command
<1>1. ASSUME NEW h \in Handlers, create(h) \/ delete_one(h) \/ list(h) \/ Vanish(h)
      PROVE  TypeOK'
  <2>1. CASE Create(h)
    BY <2>1 DEF Create
  <2>2. CASE SetJson(h)
    BY <2>2 DEF SetJson
  <2>3. CASE SetAdd(h)
    BY <2>3 DEF SetAdd
  <2>4. CASE PublishCreated(h)
    BY <2>4 DEF PublishCreated
  <2>5. CASE Created(h)
    BY <2>5 DEF Created
  <2>6. CASE Delete(h)
    BY <2>6 DEF Delete
  <2>7. CASE DeleteGet(h)
    BY <2>7 DEF DeleteGet
  <2>8. CASE DelJson(h)
    BY <2>8 DEF DelJson
  <2>9. CASE SetRemove(h)
    BY <2>9 DEF SetRemove
  <2>10. CASE Deleted(h)
    BY <2>10 DEF Deleted
  <2>11. CASE List(h)
    BY <2>11 DEF List
  <2>12. CASE SetMembers(h)
    BY <2>12 DEF SetMembers
  <2>13. CASE ListGet(h)
    BY <2>13 DEF ListGet
  <2>14. CASE Listed(h)
    BY <2>14 DEF Listed
  <2>15. CASE Vanish(h)
    BY <2>15 DEF Vanish
  <2> QED
    BY <1>1, <2>1, <2>2, <2>3, <2>4, <2>5, <2>6, <2>7, <2>8, <2>9, <2>10, <2>11, <2>12, <2>13, <2>14, <2>15 DEF create, delete_one, list
<1>2. CASE UNCHANGED vars
  BY <1>2
<1> QED
  BY <1>1, <1>2 DEF Next

\* Scope is preserved by every step.
LEMMA ScopeStep == ASSUME StoreInv, [Next]_vars PROVE Scope'
<1> USE DEF StoreInv, TypeOK, PC, Scope, Creating, Deleting, vars, valkey, listing, history, Goto, Command
<1>1. ASSUME NEW h \in Handlers, create(h) \/ delete_one(h) \/ list(h) \/ Vanish(h)
      PROVE  Scope'
  <2>1. CASE Create(h)
    BY <2>1 DEF Create
  <2>2. CASE SetJson(h)
    BY <2>2 DEF SetJson
  <2>3. CASE SetAdd(h)
    BY <2>3 DEF SetAdd
  <2>4. CASE PublishCreated(h)
    BY <2>4 DEF PublishCreated
  <2>5. CASE Created(h)
    BY <2>5 DEF Created
  <2>6. CASE Delete(h)
    BY <2>6 DEF Delete
  <2>7. CASE DeleteGet(h)
    BY <2>7 DEF DeleteGet
  <2>8. CASE DelJson(h)
    BY <2>8 DEF DelJson
  <2>9. CASE SetRemove(h)
    BY <2>9 DEF SetRemove
  <2>10. CASE Deleted(h)
    BY <2>10 DEF Deleted
  <2>11. CASE List(h)
    BY <2>11 DEF List
  <2>12. CASE SetMembers(h)
    BY <2>12 DEF SetMembers
  <2>13. CASE ListGet(h)
    BY <2>13 DEF ListGet
  <2>14. CASE Listed(h)
    BY <2>14 DEF Listed
  <2>15. CASE Vanish(h)
    BY <2>15 DEF Vanish
  <2> QED
    BY <1>1, <2>1, <2>2, <2>3, <2>4, <2>5, <2>6, <2>7, <2>8, <2>9, <2>10, <2>11, <2>12, <2>13, <2>14, <2>15 DEF create, delete_one, list
<1>2. CASE UNCHANGED vars
  BY <1>2
<1> QED
  BY <1>1, <1>2 DEF Next

\* Creating is preserved by every step.
LEMMA CreatingStep == ASSUME StoreInv, [Next]_vars PROVE Creating'
<1> USE DEF StoreInv, TypeOK, PC, Scope, Creating, Deleting, vars, valkey, listing, history, Goto, Command
<1>1. ASSUME NEW h \in Handlers, create(h) \/ delete_one(h) \/ list(h) \/ Vanish(h)
      PROVE  Creating'
  <2>1. CASE Create(h)
    BY <2>1 DEF Create
  <2>2. CASE SetJson(h)
    BY <2>2 DEF SetJson
  <2>3. CASE SetAdd(h)
    BY <2>3 DEF SetAdd
  <2>4. CASE PublishCreated(h)
    BY <2>4 DEF PublishCreated
  <2>5. CASE Created(h)
    BY <2>5 DEF Created
  <2>6. CASE Delete(h)
    BY <2>6 DEF Delete
  <2>7. CASE DeleteGet(h)
    BY <2>7 DEF DeleteGet
  <2>8. CASE DelJson(h)
    BY <2>8 DEF DelJson
  <2>9. CASE SetRemove(h)
    BY <2>9 DEF SetRemove
  <2>10. CASE Deleted(h)
    BY <2>10 DEF Deleted
  <2>11. CASE List(h)
    BY <2>11 DEF List
  <2>12. CASE SetMembers(h)
    BY <2>12 DEF SetMembers
  <2>13. CASE ListGet(h)
    BY <2>13 DEF ListGet
  <2>14. CASE Listed(h)
    BY <2>14 DEF Listed
  <2>15. CASE Vanish(h)
    BY <2>15 DEF Vanish
  <2> QED
    BY <1>1, <2>1, <2>2, <2>3, <2>4, <2>5, <2>6, <2>7, <2>8, <2>9, <2>10, <2>11, <2>12, <2>13, <2>14, <2>15 DEF create, delete_one, list
<1>2. CASE UNCHANGED vars
  BY <1>2
<1> QED
  BY <1>1, <1>2 DEF Next

\* Deleting is preserved by every step.
LEMMA DeletingStep == ASSUME StoreInv, [Next]_vars PROVE Deleting'
<1> USE DEF StoreInv, TypeOK, PC, Scope, Creating, Deleting, vars, valkey, listing, history, Goto, Command
<1>1. ASSUME NEW h \in Handlers, create(h) \/ delete_one(h) \/ list(h) \/ Vanish(h)
      PROVE  Deleting'
  <2>1. CASE Create(h)
    BY <2>1 DEF Create
  <2>2. CASE SetJson(h)
    BY <2>2 DEF SetJson
  <2>3. CASE SetAdd(h)
    BY <2>3 DEF SetAdd
  <2>4. CASE PublishCreated(h)
    BY <2>4 DEF PublishCreated
  <2>5. CASE Created(h)
    BY <2>5 DEF Created
  <2>6. CASE Delete(h)
    BY <2>6 DEF Delete
  <2>7. CASE DeleteGet(h)
    BY <2>7 DEF DeleteGet
  <2>8. CASE DelJson(h)
    BY <2>8 DEF DelJson
  <2>9. CASE SetRemove(h)
    BY <2>9 DEF SetRemove
  <2>10. CASE Deleted(h)
    BY <2>10 DEF Deleted
  <2>11. CASE List(h)
    BY <2>11 DEF List
  <2>12. CASE SetMembers(h)
    BY <2>12 DEF SetMembers
  <2>13. CASE ListGet(h)
    BY <2>13 DEF ListGet
  <2>14. CASE Listed(h)
    BY <2>14 DEF Listed
  <2>15. CASE Vanish(h)
    BY <2>15 DEF Vanish
  <2> QED
    BY <1>1, <2>1, <2>2, <2>3, <2>4, <2>5, <2>6, <2>7, <2>8, <2>9, <2>10, <2>11, <2>12, <2>13, <2>14, <2>15 DEF create, delete_one, list
<1>2. CASE UNCHANGED vars
  BY <1>2
<1> QED
  BY <1>1, <1>2 DEF Next

\* KnownStored and NoResurrection are preserved by every step.
LEMMA StoredStep == ASSUME StoreInv, [Next]_vars PROVE (KnownStored /\ NoResurrection)'
<1> USE DEF StoreInv, TypeOK, PC, Scope, Creating, Deleting, KnownStored, NoResurrection, vars, valkey, listing, history, Goto, Command
<1>1. ASSUME NEW h \in Handlers, create(h) \/ delete_one(h) \/ list(h) \/ Vanish(h)
      PROVE  (KnownStored /\ NoResurrection)'
  <2>1. CASE Create(h)
    BY <2>1 DEF Create
  <2>2. CASE SetJson(h)
    BY <2>2 DEF SetJson
  <2>3. CASE SetAdd(h)
    BY <2>3 DEF SetAdd
  <2>4. CASE PublishCreated(h)
    BY <2>4 DEF PublishCreated
  <2>5. CASE Created(h)
    BY <2>5 DEF Created
  <2>6. CASE Delete(h)
    BY <2>6 DEF Delete
  <2>7. CASE DeleteGet(h)
    BY <2>7 DEF DeleteGet
  <2>8. CASE DelJson(h)
    BY <2>8 DEF DelJson
  <2>9. CASE SetRemove(h)
    BY <2>9 DEF SetRemove
  <2>10. CASE Deleted(h)
    BY <2>10 DEF Deleted
  <2>11. CASE List(h)
    BY <2>11 DEF List
  <2>12. CASE SetMembers(h)
    BY <2>12 DEF SetMembers
  <2>13. CASE ListGet(h)
    BY <2>13 DEF ListGet
  <2>14. CASE Listed(h)
    BY <2>14 DEF Listed
  <2>15. CASE Vanish(h)
    BY <2>15 DEF Vanish
  <2> QED
    BY <1>1, <2>1, <2>2, <2>3, <2>4, <2>5, <2>6, <2>7, <2>8, <2>9, <2>10, <2>11, <2>12, <2>13, <2>14, <2>15 DEF create, delete_one, list
<1>2. CASE UNCHANGED vars
  BY <1>2
<1> QED
  BY <1>1, <1>2 DEF Next

\* LogKnown is preserved by every step.
LEMMA LogStep == ASSUME StoreInv, [Next]_vars PROVE LogKnown'
<1> USE DEF StoreInv, TypeOK, PC, Scope, Creating, LogKnown, vars, valkey, listing, history, Goto, Command
<1>1. ASSUME NEW h \in Handlers, create(h) \/ delete_one(h) \/ list(h) \/ Vanish(h)
      PROVE  LogKnown'
  <2>1. CASE Create(h)
    BY <2>1 DEF Create
  <2>2. CASE SetJson(h)
    BY <2>2 DEF SetJson
  <2>3. CASE SetAdd(h)
    BY <2>3 DEF SetAdd
  <2>4. CASE PublishCreated(h)
    <3>1. PICK copies \in 0..MaxCopies : log' = log \o [n \in 1..copies |-> id[h]]
      BY <2>4 DEF PublishCreated
    <3>2. log \in Seq(Ids) /\ id[h] \in Ids /\ id[h] \in known /\ copies \in Nat
      BY <2>4, TaskAssumption DEF PublishCreated
    <3>3. \A n \in 1..Len(log') : log'[n] = id[h] \/ (n \in 1..Len(log) /\ log'[n] = log[n])
      BY <3>1, <3>2, AppendCopies
    <3> QED
      BY <2>4, <3>2, <3>3 DEF PublishCreated
  <2>5. CASE Created(h)
    BY <2>5 DEF Created
  <2>6. CASE Delete(h)
    BY <2>6 DEF Delete
  <2>7. CASE DeleteGet(h)
    BY <2>7 DEF DeleteGet
  <2>8. CASE DelJson(h)
    BY <2>8 DEF DelJson
  <2>9. CASE SetRemove(h)
    BY <2>9 DEF SetRemove
  <2>10. CASE Deleted(h)
    BY <2>10 DEF Deleted
  <2>11. CASE List(h)
    BY <2>11 DEF List
  <2>12. CASE SetMembers(h)
    BY <2>12 DEF SetMembers
  <2>13. CASE ListGet(h)
    BY <2>13 DEF ListGet
  <2>14. CASE Listed(h)
    BY <2>14 DEF Listed
  <2>15. CASE Vanish(h)
    BY <2>15 DEF Vanish
  <2> QED
    BY <1>1, <2>1, <2>2, <2>3, <2>4, <2>5, <2>6, <2>7, <2>8, <2>9, <2>10, <2>11, <2>12, <2>13, <2>14, <2>15 DEF create, delete_one, list
<1>2. CASE UNCHANGED vars
  BY <1>2
<1> QED
  BY <1>1, <1>2 DEF Next

\* StoreInv holds initially and is preserved.
LEMMA StoreInductive == (Init => StoreInv) /\ (StoreInv /\ [Next]_vars => StoreInv')
<1>1. ASSUME Init PROVE StoreInv
  BY <1>1 DEF Init, StoreInv, TypeOK, PC, Scope, Creating, Deleting, KnownStored,
              NoResurrection, LogKnown
<1>2. ASSUME StoreInv, [Next]_vars PROVE StoreInv'
  BY <1>2, TypeStep, ScopeStep, CreatingStep, DeletingStep, StoredStep, LogStep
     DEF StoreInv
<1> QED
  BY <1>1, <1>2

-----------------------------------------------------------------------------
(* The store *)

\* The service's variables keep their types.
THEOREM Typing == Spec => []TypeOK
<1>1. StoreInv => TypeOK
  BY DEF StoreInv
<1> QED
  BY StoreInductive, <1>1, PTL DEF Spec

\* A task answered 201 stays stored and indexed until it is deleted.
THEOREM AckedIsDurable == Spec => []Durable
<1>1. StoreInv => Durable
  BY DEF StoreInv, Scope, KnownStored, Durable
<1> QED
  BY StoreInductive, <1>1, PTL DEF Spec

\* A task answered 204 never comes back, under either key.
THEOREM GoneStaysGone == Spec => []NoResurrection
<1>1. StoreInv => NoResurrection
  BY DEF StoreInv
<1> QED
  BY StoreInductive, <1>1, PTL DEF Spec

\* An index entry without a task was left by a delete.
THEOREM DanglingExplained == Spec => []DanglingOnlyFromDelete
<1>1. StoreInv => DanglingOnlyFromDelete
  BY DEF StoreInv, Scope, KnownStored, DanglingOnlyFromDelete
<1> QED
  BY StoreInductive, <1>1, PTL DEF Spec

\* No event is about a task that was not stored.
THEOREM EventsFollowStore == Spec => []NoPhantomEvent
<1>1. StoreInv => NoPhantomEvent
  BY DEF StoreInv, TypeOK, KnownStored, LogKnown, NoPhantomEvent
<1> QED
  BY StoreInductive, <1>1, PTL DEF Spec

-----------------------------------------------------------------------------
(* Lists *)

\* What a list in progress still has to read covers what it owes, and it has
\* read nothing that was gone when it began.
ListInv ==
  \A h \in Handlers :
    /\ owed[h] \subseteq acked /\ banned[h] \subseteq gone
    /\ pc[h] = "mget" => owed[h] \ attempted \subseteq got[h] \cup todo[h]
    /\ pc[h] # "mget" => got[h] = {}
    /\ got[h] \cap banned[h] = {}

\* ListInv is preserved by every step.
LEMMA ListStep == ASSUME StoreInv, ListInv, [Next]_vars PROVE ListInv'
<1> USE DEF StoreInv, TypeOK, PC, Scope, KnownStored, NoResurrection, ListInv, ClearListing, vars, valkey, listing, history, Goto, Command
<1>1. ASSUME NEW h \in Handlers, create(h) \/ delete_one(h) \/ list(h) \/ Vanish(h)
      PROVE  ListInv'
  <2>1. CASE Create(h)
    BY <2>1 DEF Create
  <2>2. CASE SetJson(h)
    BY <2>2 DEF SetJson
  <2>3. CASE SetAdd(h)
    BY <2>3 DEF SetAdd
  <2>4. CASE PublishCreated(h)
    BY <2>4 DEF PublishCreated
  <2>5. CASE Created(h)
    BY <2>5 DEF Created
  <2>6. CASE Delete(h)
    BY <2>6 DEF Delete
  <2>7. CASE DeleteGet(h)
    BY <2>7 DEF DeleteGet
  <2>8. CASE DelJson(h)
    BY <2>8 DEF DelJson
  <2>9. CASE SetRemove(h)
    BY <2>9 DEF SetRemove
  <2>10. CASE Deleted(h)
    BY <2>10 DEF Deleted
  <2>11. CASE List(h)
    BY <2>11 DEF List
  <2>12. CASE SetMembers(h)
    BY <2>12 DEF SetMembers
  <2>13. CASE ListGet(h)
    BY <2>13 DEF ListGet
  <2>14. CASE Listed(h)
    BY <2>14 DEF Listed
  <2>15. CASE Vanish(h)
    BY <2>15 DEF Vanish
  <2> QED
    BY <1>1, <2>1, <2>2, <2>3, <2>4, <2>5, <2>6, <2>7, <2>8, <2>9, <2>10, <2>11, <2>12, <2>13, <2>14, <2>15 DEF create, delete_one, list
<1>2. CASE UNCHANGED vars
  BY <1>2
<1> QED
  BY <1>1, <1>2 DEF Next

\* ListInv holds initially and is preserved along with StoreInv.
LEMMA ListInductive ==
  /\ Init => StoreInv /\ ListInv
  /\ StoreInv /\ ListInv /\ [Next]_vars => (StoreInv /\ ListInv)'
<1>1. Init => ListInv
  BY DEF Init, ListInv
<1> QED
  BY <1>1, StoreInductive, ListStep

\* Every list answer holds all tasks acknowledged before it began that no
\* DELETE has touched, however the store changes while the list reads it.
THEOREM ListsAreComplete == Spec => []ListComplete
<1>1. ListInv => ListComplete
  BY DEF ListInv, ListComplete
<1> QED
  BY ListInductive, <1>1, PTL DEF Spec

\* No list answer holds a task deleted before it began.
THEOREM ListsAreFresh == Spec => []ListFresh
<1>1. ListInv => ListFresh
  BY DEF ListInv, ListFresh
<1> QED
  BY ListInductive, <1>1, PTL DEF Spec

-----------------------------------------------------------------------------
(* The service and the consumers together *)

\* The consumers of TaskSystem, with what EventPipelineProofs knows of them.
Pipe == INSTANCE EventPipelineProofs WITH
  Records <- Ids, Poison <- {}, Failing <- {}, Rerunners <- {},
  MaxLog <- 0, pc <- mpc

\* Its members are those of TaskSystem.
LEMMA SameMember ==
  ASSUME NEW m \in Members, Consumers!MemberNext(m) PROVE Pipe!MemberNext(m)
<1> USE DEF Consumers!Goto, Pipe!Goto, Consumers!Fault, Pipe!Fault, Consumers!Owns, Pipe!Owns,
        Consumers!Owned, Pipe!Owned, Consumers!group, Pipe!group, Consumers!member, Pipe!member,
        Consumers!counters, Pipe!counters
<1>1. Consumers!Recv(m) => Pipe!Recv(m)
  BY DEF Consumers!Recv, Pipe!Recv
<1>2. Consumers!HandlerOk(m) => Pipe!HandlerOk(m)
  BY DEF Consumers!HandlerOk, Pipe!HandlerOk
<1>3. Consumers!HandlerErr(m) => Pipe!HandlerErr(m)
  BY DEF Consumers!HandlerErr, Pipe!HandlerErr
<1>4. Consumers!CommitMessage(m) => Pipe!CommitMessage(m)
  BY DEF Consumers!CommitMessage, Pipe!CommitMessage
<1>5. Consumers!Stopped(m) => Pipe!Stopped(m)
  BY DEF Consumers!Stopped, Pipe!Stopped
<1>6. Consumers!Rerun(m) => Pipe!Rerun(m)
  BY DEF Consumers!Rerun, Pipe!Rerun
<1>7. Consumers!Crash(m) => Pipe!Crash(m)
  BY DEF Consumers!Crash, Pipe!Crash
<1>8. Consumers!Connect(m) => Pipe!Connect(m)
  BY DEF Consumers!Connect, Pipe!Connect
<1>9. Consumers!Assign(m) => Pipe!Assign(m)
  BY DEF Consumers!Assign, Pipe!Assign
<1>10. Consumers!Revoked(m) => Pipe!Revoked(m)
  BY DEF Consumers!Revoked, Pipe!Revoked
<1>11. Consumers!CommitApplied(m) => Pipe!CommitApplied(m)
  BY DEF Consumers!CommitApplied, Pipe!CommitApplied
<1>12. Consumers!CommitLost(m) => Pipe!CommitLost(m)
  BY DEF Consumers!CommitLost, Pipe!CommitLost
<1> QED
  BY <1>1, <1>2, <1>3, <1>4, <1>5, <1>6, <1>7, <1>8, <1>9, <1>10, <1>11, <1>12
  DEF Consumers!MemberNext, Pipe!MemberNext, Consumers!run, Pipe!run

GroupInv == Pipe!TypeOK /\ Pipe!MembershipInv /\ Pipe!FenceInv /\ Pipe!HandledInv

SystemInv == StoreInv /\ GroupInv

\* The consumers are as EventPipeline describes them, and the service does not
\* disturb them.
LEMMA GroupStep ==
  ASSUME SystemInv, [SystemNext]_<<vars, consumerVars>>
  PROVE  GroupInv' /\ committed <= committed'
<1> USE DEF SystemInv, GroupInv
<1>c. committed \in Nat
  BY DEF Pipe!TypeOK
<1>1. CASE ConsumerStep
  <2>1. [Pipe!Next]_(Pipe!vars)
    BY <1>1, SameMember DEF ConsumerStep, Pipe!Next
  <2>2. Pipe!NoRerunAfterErr
    BY DEF Pipe!NoRerunAfterErr
  <2>3. Pipe!OrderInv
    BY DEF Pipe!OrderInv
  <2>4. Pipe!TypeOK'
    BY <2>1, SystemAssumption, Pipe!TypeStep
  <2>5. Pipe!MembershipInv'
    BY <2>1, SystemAssumption, Pipe!MembershipStep
  <2>6. Pipe!FenceInv' /\ committed <= committed'
    BY <2>1, <2>3, SystemAssumption, Pipe!FenceStep
  <2>7. Pipe!HandledInv'
    BY <2>1, <2>2, SystemAssumption, Pipe!HandledStep
  <2> QED
    BY <2>4, <2>5, <2>6, <2>7
<1>2. CASE [Next]_vars /\ UNCHANGED consumerVars
  <2>0. log' \in Seq(Ids)
    BY <1>2, TypeStep DEF TypeOK
  <2>1. Pipe!TypeOK'
    BY <1>2, <2>0 DEF Pipe!TypeOK, consumerVars
  <2>2. Pipe!MembershipInv'
    BY <1>2 DEF Pipe!MembershipInv, consumerVars
  <2>3. Pipe!FenceInv'
    BY <1>2 DEF Pipe!FenceInv, Pipe!OwnerAhead, Pipe!Owns, Pipe!GenerationsPast,
                Pipe!CurrentOwned, Pipe!InOrder, Pipe!Queued, consumerVars
  <2>4. Pipe!HandledInv'
    BY <1>2 DEF Pipe!HandledInv, Pipe!CommittedHandled, Pipe!MembersHandled,
                Pipe!QueuesHandled, Pipe!Accepted, Pipe!Handled, consumerVars
  <2> QED
    BY <1>2, <1>c, <2>1, <2>2, <2>3, <2>4 DEF consumerVars
<1> QED
  BY <1>1, <1>2 DEF SystemNext, ServiceStep

\* A worker only reads the topic.
LEMMA OnlyReads == ASSUME NEW m \in Members, Pipe!MemberNext(m) PROVE UNCHANGED log
BY DEF Pipe!MemberNext, Pipe!run, Pipe!Recv, Pipe!HandlerOk, Pipe!HandlerErr,
       Pipe!CommitMessage, Pipe!Stopped, Pipe!Rerun, Pipe!Crash, Pipe!Connect, Pipe!Assign,
       Pipe!Revoked, Pipe!CommitApplied, Pipe!CommitLost

\* SystemInv is preserved by every step of the composition.
LEMMA SystemStep ==
  ASSUME SystemInv, [SystemNext]_<<vars, consumerVars>> PROVE SystemInv'
<1>1. GroupInv'
  BY GroupStep
<1>2. CASE ConsumerStep
  <2>1. UNCHANGED log
    BY <1>2, SameMember, OnlyReads DEF ConsumerStep
  <2>2. UNCHANGED vars
    BY <1>2, <2>1 DEF ConsumerStep, vars
  <2>3. StoreInv'
    BY <2>2, StoreInductive DEF SystemInv
  <2> QED
    BY <1>1, <2>3 DEF SystemInv
<1>3. CASE [Next]_vars /\ UNCHANGED consumerVars
  <2>1. StoreInv'
    BY <1>3, StoreInductive DEF SystemInv
  <2> QED
    BY <1>1, <2>1 DEF SystemInv
<1> QED
  BY <1>2, <1>3 DEF SystemNext, ServiceStep

\* SystemInv is an invariant of the composition.
LEMMA SystemInvariant == SystemSpec => []SystemInv
<1>1. SystemInit => SystemInv
  <2> SUFFICES ASSUME SystemInit PROVE SystemInv
    OBVIOUS
  <2>1. StoreInv
    BY StoreInductive DEF SystemInit
  <2>2. GroupInv
    BY SystemAssumption DEF SystemInit, Init, Consumers!Init, GroupInv, Pipe!TypeOK,
         Pipe!MembershipInv, Pipe!FenceInv, Pipe!OwnerAhead, Pipe!Owns, Pipe!GenerationsPast,
         Pipe!CurrentOwned, Pipe!InOrder, Pipe!Queued, Pipe!HandledInv,
         Pipe!CommittedHandled, Pipe!MembersHandled, Pipe!QueuesHandled, Pipe!Accepted
  <2> QED
    BY <2>1, <2>2 DEF SystemInv
<1>2. SystemInv /\ [SystemNext]_<<vars, consumerVars>> => SystemInv'
  BY SystemStep
<1> QED
  BY <1>1, <1>2, PTL DEF SystemSpec

\* At-least-once, end to end: Worker's handler never fails, so whatever the group
\* has committed of the service's events was counted by a worker.
THEOREM SystemAtLeastOnce == SystemSpec => []Consumers!CommittedHandled
<1>1. SystemInv => Consumers!CommittedHandled
  BY DEF SystemInv, GroupInv, Pipe!HandledInv, Pipe!CommittedHandled,
         Consumers!CommittedHandled
<1> QED
  BY <1>1, SystemInvariant, PTL

\* And the group's committed offset never moves back while the service publishes.
THEOREM SystemNeverRewinds == SystemSpec => Consumers!CommitNeverRewinds
<1>1. SystemInv /\ [SystemNext]_<<vars, consumerVars>>
        => [committed' >= committed]_(Consumers!vars)
  <2> SUFFICES ASSUME SystemInv, [SystemNext]_<<vars, consumerVars>>
               PROVE  committed' >= committed
    OBVIOUS
  <2>1. committed \in Nat /\ committed' \in Nat /\ committed <= committed'
    BY GroupStep DEF SystemInv, GroupInv, Pipe!TypeOK
  <2> QED
    BY <2>1
<1> QED
  BY <1>1, SystemInvariant, PTL DEF SystemSpec, Consumers!CommitNeverRewinds
=============================================================================
