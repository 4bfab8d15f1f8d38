---------------------------- MODULE TaskService ----------------------------
(***************************************************************************)
(* The tasks service: the handlers of tasks/src/lib.rs over the two-key     *)
(* store of tasks/src/store.rs.  A task is JSON at task:{id} and its id a   *)
(* member of the set `tasks`; no command touches both, so every handler is  *)
(* a sequence of single Valkey commands that other handlers interleave      *)
(* with.  Any command can fail, before or after the server executed it,     *)
(* and a handler can vanish between two commands: its client hung up, or    *)
(* the process died.  Several processes are just more handlers.             *)
(*                                                                          *)
(* A task's content never changes after it is created, so a stored task is  *)
(* its id, and the answer of a list its set of ids; sorting it by           *)
(* created_at loses and adds nothing.                                       *)
(***************************************************************************)
EXTENDS Integers, Sequences

CONSTANTS
  Handlers,  \* concurrent requests
  Ids,       \* bound: the UUIDs that will ever be drawn
  MaxCopies  \* bound: copies of one event that librdkafka's retries append

ASSUME TaskAssumption == MaxCopies \in Nat

VARIABLES
  json,      \* ids with a task:{id} key
  index,     \* members of the set `tasks`
  log,       \* the partition of tasks.events: ids in the order appended
  pc,        \* where each handler is
  id,        \* the task it works on
  todo, got, \* list: ids still to GET, tasks already read
  used,      \* UUIDs drawn so far
  known,     \* ids a client can have learned, from a list, an event or a 201
  acked,     \* history: ids answered 201
  attempted, \* history: ids a DELETE has begun to remove
  gone,      \* history: ids answered 204
  owed,      \* history: per list, what was acked and not attempted at its start
  banned     \* history: per list, what was gone at its start

valkey == <<json, index>>
listing == <<todo, got, owed, banned>>
history == <<known, acked, attempted, gone>>
vars == <<valkey, log, pc, id, listing, used, history>>

NoId == "none"

Init ==
  /\ json = {} /\ index = {} /\ log = <<>>
  /\ pc = [h \in Handlers |-> "idle"] /\ id = [h \in Handlers |-> NoId]
  /\ todo = [h \in Handlers |-> {}] /\ got = [h \in Handlers |-> {}]
  /\ owed = [h \in Handlers |-> {}] /\ banned = [h \in Handlers |-> {}]
  /\ used = {} /\ known = {} /\ acked = {} /\ attempted = {} /\ gone = {}

Goto(h, from, to) ==
  /\ pc[h] = from /\ pc' = [pc EXCEPT ![h] = to]
  /\ id' = IF to = "idle" THEN [id EXCEPT ![h] = NoId] ELSE id

\* One Valkey command of handler h.  Executed and answered, the handler goes
\* on; executed but the answer lost, or not executed at all, it returns a 500.
Command(h, from, to, effect, noEffect) ==
  \/ effect /\ (Goto(h, from, to) \/ Goto(h, from, "idle"))
  \/ noEffect /\ Goto(h, from, "idle")

-----------------------------------------------------------------------------
(* POST /tasks: SET, SADD, publish, 201 *)

Create(h) ==
  \E i \in Ids \ used :
    /\ pc[h] = "idle" /\ pc' = [pc EXCEPT ![h] = "set"]
    /\ id' = [id EXCEPT ![h] = i] /\ used' = used \cup {i}
    /\ UNCHANGED <<valkey, log, listing, history>>

\* Mutant of SetJson: a failed SET is not noticed.
SetJsonUnchecked(h) ==
  /\ json' \in {json, json \cup {id[h]}} /\ Goto(h, "set", "sadd")
  /\ UNCHANGED <<index, log, listing, used, history>>

SetJson(h) ==
  /\ Command(h, "set", "sadd", json' = json \cup {id[h]}, UNCHANGED json)
  /\ UNCHANGED <<index, log, listing, used, history>>

\* Mutant of SetAdd: a failed SADD is not noticed.
SetAddUnchecked(h) ==
  /\ index' \in {index, index \cup {id[h]}} /\ Goto(h, "sadd", "publish")
  /\ UNCHANGED <<json, log, listing, used, history>>

SetAdd(h) ==
  /\ Command(h, "sadd", "publish",
             index' = index \cup {id[h]} /\ known' = known \cup {id[h]},
             UNCHANGED <<index, known>>)
  /\ UNCHANGED <<json, log, listing, used, acked, attempted, gone>>

\* publish is best effort: the event may be lost, and librdkafka's retries may
\* append it again; the handler goes on to its 201 whatever the outcome.
PublishCreated(h) ==
  /\ \E copies \in 0..MaxCopies : log' = log \o [n \in 1..copies |-> id[h]]
  /\ Goto(h, "publish", "created")
  /\ UNCHANGED <<valkey, listing, used, history>>

Created(h) ==
  /\ acked' = acked \cup {id[h]}
  /\ Goto(h, "created", "idle")
  /\ UNCHANGED <<valkey, log, listing, used, known, attempted, gone>>

create(h) ==
  Create(h) \/ SetJson(h) \/ SetAdd(h) \/ PublishCreated(h) \/ Created(h)

-----------------------------------------------------------------------------
(* DELETE /tasks/{id}: GET, then DEL and SREM if the task was there *)

Delete(h) ==
  \E i \in known :
    /\ pc[h] = "idle" /\ pc' = [pc EXCEPT ![h] = "get"] /\ id' = [id EXCEPT ![h] = i]
    /\ UNCHANGED <<valkey, log, listing, used, history>>

\* Mutant of DeleteGet: a GET that fails or misses is answered 204.
DeleteGetIdempotent(h) ==
  /\ \/ id[h] \in json /\ Goto(h, "get", "del")
     \/ Goto(h, "get", "deleted")
  /\ UNCHANGED <<valkey, log, listing, used, history>>

\* A miss is a 404, and the index is left alone.
DeleteGet(h) ==
  /\ \/ id[h] \in json /\ Goto(h, "get", "del")
     \/ Goto(h, "get", "idle")
  /\ UNCHANGED <<valkey, log, listing, used, history>>

DelJson(h) ==
  /\ Command(h, "del", "srem", json' = json \ {id[h]}, UNCHANGED json)
  /\ attempted' = attempted \cup {id[h]}
  /\ UNCHANGED <<index, log, listing, used, known, acked, gone>>

\* Mutant of SetRemove: a failed SREM is not noticed.
SetRemoveUnchecked(h) ==
  /\ index' \in {index, index \ {id[h]}} /\ Goto(h, "srem", "deleted")
  /\ UNCHANGED <<json, log, listing, used, history>>

SetRemove(h) ==
  /\ Command(h, "srem", "deleted", index' = index \ {id[h]}, UNCHANGED index)
  /\ UNCHANGED <<json, log, listing, used, history>>

Deleted(h) ==
  /\ gone' = gone \cup {id[h]}
  /\ Goto(h, "deleted", "idle")
  /\ UNCHANGED <<valkey, log, listing, used, known, acked, attempted>>

delete_one(h) ==
  Delete(h) \/ DeleteGet(h) \/ DelJson(h) \/ SetRemove(h) \/ Deleted(h)

-----------------------------------------------------------------------------
(* GET /tasks: SMEMBERS, then a GET per member, skipping the ones that miss *)

List(h) ==
  /\ pc[h] = "idle" /\ pc' = [pc EXCEPT ![h] = "smembers"]
  /\ owed' = [owed EXCEPT ![h] = acked \ attempted]
  /\ banned' = [banned EXCEPT ![h] = gone]
  /\ UNCHANGED <<valkey, log, id, todo, got, used, history>>

SetMembers(h) ==
  /\ Goto(h, "smembers", "mget")
  /\ todo' = [todo EXCEPT ![h] = index]
  /\ UNCHANGED <<valkey, log, got, owed, banned, used, history>>

\* Mutant of ListGet: the first id that misses ends the loop.
ListGetStopsAtMiss(h) ==
  /\ pc[h] = "mget"
  /\ \E i \in todo[h] :
       /\ todo' = [todo EXCEPT ![h] = IF i \in json THEN @ \ {i} ELSE {}]
       /\ got' = IF i \in json THEN [got EXCEPT ![h] = @ \cup {i}] ELSE got
  /\ UNCHANGED <<valkey, log, pc, id, owed, banned, used, history>>

\* The order in which SMEMBERS returned the ids is not specified.
ListGet(h) ==
  /\ pc[h] = "mget"
  /\ \E i \in todo[h] :
       /\ todo' = [todo EXCEPT ![h] = @ \ {i}]
       /\ got' = IF i \in json THEN [got EXCEPT ![h] = @ \cup {i}] ELSE got
  /\ UNCHANGED <<valkey, log, pc, id, owed, banned, used, history>>

ClearListing(h) ==
  /\ todo' = [todo EXCEPT ![h] = {}] /\ got' = [got EXCEPT ![h] = {}]
  /\ owed' = [owed EXCEPT ![h] = {}] /\ banned' = [banned EXCEPT ![h] = {}]

\* The 200 with the tasks read.
Listed(h) ==
  /\ todo[h] = {}
  /\ Goto(h, "mget", "idle") /\ ClearListing(h)
  /\ UNCHANGED <<valkey, log, used, history>>

list(h) == List(h) \/ SetMembers(h) \/ ListGet(h) \/ Listed(h)

-----------------------------------------------------------------------------
\* The handler goes away between two commands, or a command of a list fails.
Vanish(h) ==
  /\ pc[h] # "idle" /\ Goto(h, pc[h], "idle") /\ ClearListing(h)
  /\ UNCHANGED <<valkey, log, used, history>>

Next == \E h \in Handlers : create(h) \/ delete_one(h) \/ list(h) \/ Vanish(h)

Spec == Init /\ [][Next]_vars

-----------------------------------------------------------------------------
(* Properties *)

PC == {"idle", "set", "sadd", "publish", "created", "get", "del", "srem", "deleted",
       "smembers", "mget"}

\* Every variable has its type.
TypeOK ==
  /\ json \subseteq Ids /\ index \subseteq Ids /\ log \in Seq(Ids)
  /\ pc \in [Handlers -> PC] /\ id \in [Handlers -> Ids \cup {NoId}]
  /\ todo \in [Handlers -> SUBSET Ids] /\ got \in [Handlers -> SUBSET Ids]
  /\ owed \in [Handlers -> SUBSET Ids] /\ banned \in [Handlers -> SUBSET Ids]
  /\ used \subseteq Ids /\ known \subseteq Ids /\ acked \subseteq Ids
  /\ attempted \subseteq Ids /\ gone \subseteq Ids

\* "A task is durable once stored": a task answered 201 is in the store and in
\* the index until somebody deletes it, whatever other handlers fail or race.
Durable == acked \ attempted \subseteq json \cap index

\* A task answered 204 is in neither key and never comes back: no create or
\* interrupted delete of another handler resurrects it.
NoResurrection == gone \cap (json \cup index) = {}

\* An index entry without a task is always the trace of a delete, so a list
\* that skips it hides no task that was only being created.
DanglingOnlyFromDelete == index \ json \subseteq attempted

\* A list answer is complete: it holds every task that was answered 201 before
\* the list began, unless a DELETE of it has begun since.
ListComplete ==
  \A h \in Handlers :
    pc[h] = "mget" /\ todo[h] = {} => owed[h] \ attempted \subseteq got[h]

\* A list answer is not stale: it holds no task whose DELETE was answered 204
\* before the list began.
ListFresh == \A h \in Handlers : got[h] \cap banned[h] = {}

\* The event is published after the task is stored: every event is about a
\* task that is in the store, or that a DELETE has begun to remove.
NoPhantomEvent == \A n \in DOMAIN log : log[n] \in (json \cap index) \cup attempted
=============================================================================
