---------------------------- MODULE SecretCache ----------------------------
(***************************************************************************)
(* secrets::SecretCache (secrets/src/cache.rs): one snapshot behind an      *)
(* ArcSwap.  replace is one store.  insert copies the snapshot, adds to the *)
(* copy and stores it, without a compare: a copy can be out of date when it *)
(* is stored, and then undoes what others stored meanwhile.                 *)
(*                                                                          *)
(* The history variable settled says what that leaves a user to rely on:    *)
(* what the cache held at a moment with no insert under way, for each name  *)
(* until somebody writes it.                                                *)
(***************************************************************************)
EXTENDS Naturals

CONSTANTS
  Names, Secrets,
  None,           \* get's answer for a name that is not there
  Open,           \* in settled: nothing is promised about the name
  Writers

ASSUME SecretAssumption == None \notin Secrets /\ Open \notin Secrets \cup {None}

Maps == [Names -> Secrets \cup {None}]

VARIABLES
  inner,          \* the published snapshot
  next,           \* the copy an insert works on
  writes,         \* the name each insert in progress is about
  busy,           \* writers between the load and the store of an insert
  settled         \* history: what each name must read as, or Open

vars == <<inner, next, writes, busy, settled>>

Empty == [n \in Names |-> None]

Init ==
  /\ inner = Empty /\ busy = {} /\ settled = Empty
  /\ next = [w \in Writers |-> Empty] /\ writes \in [Writers -> Names]

get(n) == inner[n]

\* Once no insert is under way the snapshot is settled.
Settle(m) == settled' = IF busy' = {} THEN m ELSE settled

\* Mutant of InsertLoad: the copy starts out empty.
InsertLoadEmpty(w, n, v) ==
  /\ w \notin busy
  /\ next' = [next EXCEPT ![w] = [Empty EXCEPT ![n] = v]]
  /\ busy' = busy \cup {w} /\ writes' = [writes EXCEPT ![w] = n]
  /\ settled' = [settled EXCEPT ![n] = Open]
  /\ UNCHANGED inner

\* insert up to the store: load, clone, add.
InsertLoad(w, n, v) ==
  /\ w \notin busy
  /\ next' = [next EXCEPT ![w] = [inner EXCEPT ![n] = v]]
  /\ busy' = busy \cup {w} /\ writes' = [writes EXCEPT ![w] = n]
  /\ settled' = [settled EXCEPT ![n] = Open]
  /\ UNCHANGED inner

InsertStore(w) ==
  /\ w \in busy
  /\ inner' = next[w]
  /\ busy' = busy \ {w}
  /\ Settle(next[w])
  /\ next' = [next EXCEPT ![w] = Empty]
  /\ UNCHANGED writes

\* An insert under way will undo a replace: nothing is promised then.
replace(m) ==
  /\ inner' = m
  /\ settled' = IF busy = {} THEN m ELSE [n \in Names |-> Open]
  /\ UNCHANGED <<next, writes, busy>>

Next ==
  \/ \E w \in Writers, n \in Names, v \in Secrets : InsertLoad(w, n, v)
  \/ \E w \in Writers : InsertStore(w)
  \/ \E m \in Maps : replace(m)

Spec == Init /\ [][Next]_vars

-----------------------------------------------------------------------------
(* Properties *)

\* Every variable has its type.
TypeOK ==
  /\ inner \in Maps /\ next \in [Writers -> Maps]
  /\ writes \in [Writers -> Names] /\ busy \subseteq Writers
  /\ settled \in [Names -> Secrets \cup {None, Open}]

\* However inserts overlap, they lose only what is being written: a secret that
\* was there, or had been removed, at a moment without an insert under way reads
\* the same until its own name is inserted or the map replaced.
SettledStays == \A n \in Names : settled[n] # Open => get(n) = settled[n]
=============================================================================
