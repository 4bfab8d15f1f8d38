------------------------- MODULE PingServiceProofs -------------------------
(***************************************************************************)
(* Theorems about PingService and the KeyedLimiter under it, for any rate,  *)
(* clients, keys and tasks.  The budget of an address is proved from a      *)
(* two-sided relation between the level of a cell and the admissions it has *)
(* seen: the cell holds what was admitted in the last t ticks but for t     *)
(* ticks of draining (Filled), and it holds nothing else (Caused).          *)
(***************************************************************************)
EXTENDS PingService, TLAPS

Users == Clients \cup Throttled

\* The key under which a client's requests, or a task, take cells, and whose use
\* that is.
KeyOf(u) == IF u \in Clients THEN client_key(Headers[u]) ELSE Wants[u]
HolderOf(u) == IF u \in Clients THEN Holder(u) ELSE Wants[u].ip

\* What the clients, tasks and keys of an instance are.
KeysNamed ==
  /\ Clients \cap Throttled = {}
  /\ \A u \in Users : KeyOf(u) \in Keys

\* The proxy in front writes the headers that client_key believes: the first hop
\* of X-Forwarded-For, or X-Real-IP where there is none, is the client's address,
\* the latter without blanks.  A client no header names may have any address.
HeadersTruthful ==
  /\ \A c \in Clients :
       LET h == Headers[c] IN
       /\ h.forwarded # <<>> => Head(h.forwarded).ip = Address[c]
       /\ h.forwarded = <<>> /\ h.real # <<>> =>
            Head(h.real).ip = Address[c] /\ Head(h.real).blanks = FALSE
  /\ \A w \in Throttled : Wants[w] \in Hop /\ Wants[w].blanks = FALSE

-----------------------------------------------------------------------------
\* A key without a cell has nothing to forget: a sweep changes no level.
SweptEmpty == \A k \in Keys : level[k] > 0 => k \in cells

Filled ==
  \A u \in Users, t \in 0..Second :
    Interval * admitted[HolderOf(u)][t] <= level[KeyOf(u)] + t

Undrained(t) == IF t < Burst * Interval THEN Burst * Interval - 1 - t ELSE 0

Caused ==
  \A u \in Users, t \in 0..Second :
    level[KeyOf(u)] <= Interval * admitted[HolderOf(u)][t] + Undrained(t)

LimitInv == TypeOK /\ rate <= Second /\ SweptEmpty
FilledInv == rate > 0 => Filled
CausedInv == rate > 0 => Caused

-----------------------------------------------------------------------------
\* Where the headers are truthful, key and holder name each other: client_key
\* finds the address behind either header, and Global where there is none.
LEMMA KeyNamesHolder ==
  ASSUME KeysNamed, HeadersTruthful, NEW u \in Users
  PROVE  KeyOf(u) = [ip |-> HolderOf(u), blanks |-> FALSE]
<1>1. CASE u \in Clients
  <2> DEFINE h == Headers[u]
  <2>1. /\ h.forwarded \in Seq(Hop) /\ h.real \in Seq(Hop)
        /\ KeyOf(u) = client_key(h) /\ HolderOf(u) = Holder(u)
    BY <1>1, PingAssumption DEF KeyOf, HolderOf
  <2>2. /\ h.forwarded # <<>> => Head(h.forwarded).ip = Address[u]
        /\ h.forwarded = <<>> /\ h.real # <<>> =>
             Head(h.real).ip = Address[u] /\ Head(h.real).blanks = FALSE
    BY <1>1 DEF HeadersTruthful
  <2>3. CASE h.forwarded # <<>>
    <3>1. trim(Head(h.forwarded)) = [ip |-> Address[u], blanks |-> FALSE]
      BY <2>2, <2>3 DEF trim
    <3> QED BY <2>1, <2>3, <3>1 DEF client_key, Holder
  <2>4. CASE h.forwarded = <<>> /\ h.real # <<>>
    <3>1. Head(h.real) \in Hop
      BY <2>1, <2>4
    <3>2. Head(h.real) = [ip |-> Address[u], blanks |-> FALSE]
      BY <2>2, <2>4, <3>1 DEF Hop
    <3> QED BY <2>1, <2>4, <3>2 DEF client_key, Holder
  <2>5. CASE h.forwarded = <<>> /\ h.real = <<>>
    BY <2>1, <2>5 DEF client_key, Holder, Global
  <2> QED BY <2>3, <2>4, <2>5
<1>2. CASE u \notin Clients
  <2>1. Wants[u] \in Hop /\ Wants[u].blanks = FALSE
    BY <1>2 DEF Users, HeadersTruthful
  <2> QED BY <1>2, <2>1 DEF KeyOf, HolderOf, Hop
<1> QED BY <1>1, <1>2

\* One key for each holder, and one holder for each key.
LEMMA KeysAreHolders ==
  ASSUME KeysNamed, HeadersTruthful, NEW u \in Users, NEW v \in Users
  PROVE  KeyOf(u) = KeyOf(v) <=> HolderOf(u) = HolderOf(v)
<1>1. /\ KeyOf(u) = [ip |-> HolderOf(u), blanks |-> FALSE]
      /\ KeyOf(v) = [ip |-> HolderOf(v), blanks |-> FALSE]
  BY KeyNamesHolder
<1>2. KeyOf(u) = KeyOf(v) => HolderOf(u) = HolderOf(v)
  <2> SUFFICES ASSUME KeyOf(u) = KeyOf(v) PROVE HolderOf(u) = HolderOf(v)
    OBVIOUS
  <2>1. KeyOf(u).ip = HolderOf(u) /\ KeyOf(v).ip = HolderOf(v)
    <3>1. \A x : [ip |-> x, blanks |-> FALSE].ip = x
      OBVIOUS
    <3> QED BY <1>1, <3>1
  <2> QED BY <2>1
<1> QED BY <1>1, <1>2

-----------------------------------------------------------------------------
LEMMA Times == \A i, a \in Nat : i * a \in Nat /\ i * (a + 1) = i * a + i
  BY SMT

\* A quota has a burst and an interval of at least one tick.
LEMMA QuotaFacts ==
  ASSUME rate \in Nat, rate <= Second
  PROVE  /\ Burst \in Nat \ {0} /\ Interval \in Nat \ {0}
         /\ Burst * Interval \in Nat
         /\ rate > 0 => Burst = rate
<1> DEFINE n == nonzero(rate)
<1>1. n \in Nat \ {0} /\ n <= Second
  BY PingAssumption DEF nonzero
<1>2. Second \div n \in Nat \ {0}
  <2>1. \A s, d \in Nat \ {0} : d <= s => s \div d \in Nat \ {0}
    BY SMT
  <2> QED BY <1>1, <2>1, PingAssumption
<1>3. Burst \in Nat \ {0} /\ Interval \in Nat \ {0}
  BY <1>1, <1>2 DEF Burst, Interval
<1> HIDE DEF n
<1>4. Burst * Interval \in Nat
  BY <1>3, Times
<1>5. rate > 0 => Burst = rate
  BY DEF Burst, nonzero
<1> QED BY <1>3, <1>4, <1>5

\* The options of a valid environment.
LEMMA RateTyped ==
  ASSUME NEW e \in Environments
  PROVE  rate_limit_rps(e) \in 0..Second
<1>1. e.rps \in Seq(0..Second)
  BY PingAssumption
<1> QED BY <1>1, PingAssumption DEF rate_limit_rps

\* What a step does to the levels and the history: nothing, an admission of
\* somebody under its own key, or a tick.
Effect ==
  \/ UNCHANGED <<rate, level, admitted>>
  \/ rate > 0 /\ UNCHANGED rate /\ \E u \in Users : Admit(HolderOf(u), KeyOf(u))
  \/ Tick

\* With a limiter no route escapes it, and a sweep drops empty cells only.
LEMMA EffectStep ==
  ASSUME KeysNamed, LimitInv, [Next]_vars
  PROVE  Effect
<1> USE DEF LimitInv, Effect
<1>1. ASSUME NEW c \in Clients, NEW route, Request(c, route)
      PROVE  Effect
  <2>1. KeyOf(c) = client_key(Headers[c]) /\ HolderOf(c) = Holder(c) /\ c \in Users
    BY DEF KeyOf, HolderOf, Users
  <2>2. CASE route \in Guarded /\ CheckOk(HolderOf(c), KeyOf(c))
    <3>1. rate > 0
      BY <2>2 DEF Guarded
    <3> QED BY <2>1, <2>2, <3>1 DEF CheckOk
  <2>3. CASE CheckErr(KeyOf(c))
    BY <2>3 DEF CheckErr, limiterVars
  <2>4. CASE route \in Routes \ Guarded /\ ~(rate > 0)
    BY <1>1, <2>4 DEF Request, CheckOk, CheckErr, Guarded, limiterVars
  <2>5. ~(route \in Routes \ Guarded /\ rate > 0)
    BY DEF Guarded
  <2> QED BY <1>1, <2>1, <2>2, <2>3, <2>4, <2>5 DEF Request
<1>2. ASSUME NEW w \in Throttled, rate > 0, until_ready(w)
      PROVE  Effect
  <2>1. KeyOf(w) = Wants[w] /\ HolderOf(w) = Wants[w].ip /\ w \in Users
    BY DEF KeyOf, HolderOf, Users, KeysNamed
  <2> QED BY <1>2, <2>1 DEF until_ready, UntilReadyWaits, UntilReadyReturns
<1>3. ASSUME retain_recent
      PROVE  Effect
  <2>1. level \in [Keys -> 0..Burst * Interval]
    BY DEF TypeOK
  <2>2. rate \in Nat /\ rate <= Second
    BY DEF TypeOK
  <2>3. Burst * Interval \in Nat
    BY <2>2, QuotaFacts
  <2>4. \A k \in Keys : k \notin cells' => level[k] = 0
    BY <1>3, <2>1, <2>3 DEF retain_recent, SweptEmpty
  <2>5. level' = [k \in Keys |-> level[k]]
    BY <1>3, <2>4 DEF retain_recent
  <2> QED BY <1>3, <2>1, <2>5 DEF retain_recent
<1>4. CASE UNCHANGED vars
  BY <1>4 DEF vars, limiterVars
<1> QED BY <1>1, <1>2, <1>3, <1>4 DEF Next, OtherUsers, Pass

-----------------------------------------------------------------------------
\* An admission counts for its address, in every window, and for no other.
LEMMA RecordEffect ==
  ASSUME admitted \in [Holders -> [0..Second -> Nat]],
         NEW u \in Users, Record(HolderOf(u))
  PROVE  /\ admitted' \in [Holders -> [0..Second -> Nat]]
         /\ \A o \in Holders, t \in 0..Second :
              admitted'[o][t] = IF o = HolderOf(u) THEN admitted[o][t] + 1 ELSE admitted[o][t]
<1> DEFINE mine == admitted[HolderOf(u)]
           more == [t \in 0..Second |-> mine[t] + 1]
<1>1. HolderOf(u) \in Holders
  BY DEF Users, Holders, HolderOf
<1>2. mine \in [0..Second -> Nat]
  BY <1>1
<1>3. more \in [0..Second -> Nat] /\ \A t \in 0..Second : more[t] = mine[t] + 1
  <2> HIDE DEF mine
  <2> QED BY <1>2
<1>4. admitted' = [admitted EXCEPT ![HolderOf(u)] = more]
  BY DEF Record
<1> HIDE DEF more
<1> QED BY <1>1, <1>3, <1>4

LEMMA AdmitLimit ==
  ASSUME KeysNamed, LimitInv, NEW u \in Users, Admit(HolderOf(u), KeyOf(u)), UNCHANGED rate
  PROVE  /\ cells' \subseteq Keys /\ level' \in [Keys -> 0..Burst * Interval]
         /\ admitted' \in [Holders -> [0..Second -> Nat]]
         /\ SweptEmpty'
<1>1. rate \in Nat /\ rate <= Second /\ level \in [Keys -> 0..Burst * Interval]
  BY DEF LimitInv, TypeOK
<1>2. Interval \in Nat /\ Burst * Interval \in Nat
  BY <1>1, QuotaFacts
<1>3. KeyOf(u) \in Keys /\ HolderOf(u) \in Holders
  BY DEF KeysNamed, Users, Holders, HolderOf
<1>4. cells' \subseteq Keys
  BY <1>3 DEF Admit, LimitInv, TypeOK
<1> DEFINE top == Burst * Interval
<1>5. level' \in [Keys -> 0..top]
  <2>1. level[KeyOf(u)] + Interval <= top
    BY DEF Admit, Conforms
  <2>2. level' = [level EXCEPT ![KeyOf(u)] = @ + Interval]
    BY DEF Admit
  <2> HIDE DEF top
  <2> QED BY <1>1, <1>2, <1>3, <2>1, <2>2 DEF top
<1>6. admitted' \in [Holders -> [0..Second -> Nat]]
  <2>1. admitted \in [Holders -> [0..Second -> Nat]]
    BY DEF LimitInv, TypeOK
  <2> QED BY <2>1, RecordEffect DEF Admit
<1>7. SweptEmpty'
  BY <1>1, <1>3 DEF Admit, LimitInv, SweptEmpty
<1> QED BY <1>4, <1>5, <1>6, <1>7

LEMMA LimitStep ==
  ASSUME KeysNamed, LimitInv, [Next]_vars
  PROVE  LimitInv'
<1>1. rate \in Nat /\ rate <= Second
  BY DEF LimitInv, TypeOK
<1>2. Burst * Interval \in Nat
  BY <1>1, QuotaFacts
<1>3. rate' = rate => Burst' = Burst /\ Interval' = Interval
  BY DEF Burst, Interval
<1>4. ASSUME NEW u \in Users, Admit(HolderOf(u), KeyOf(u)), UNCHANGED <<rate, env>>,
             waiting' \in [Throttled -> {"new", "waiting", "through"}]
      PROVE  LimitInv'
  <2>1. /\ cells' \subseteq Keys /\ level' \in [Keys -> 0..Burst * Interval]
        /\ admitted' \in [Holders -> [0..Second -> Nat]]
        /\ SweptEmpty'
    BY <1>4, AdmitLimit
  <2> QED BY <1>1, <1>3, <1>4, <2>1 DEF LimitInv, TypeOK
<1>5. ASSUME NEW c \in Clients, NEW route, Request(c, route)
      PROVE  LimitInv'
  <2>1. KeyOf(c) = client_key(Headers[c]) /\ HolderOf(c) = Holder(c) /\ c \in Users
    BY DEF KeyOf, HolderOf, Users
  <2>2. CASE CheckOk(HolderOf(c), KeyOf(c))
    BY <1>4, <1>5, <2>1, <2>2 DEF CheckOk, Request, LimitInv, TypeOK
  <2>3. CASE CheckErr(KeyOf(c))
    BY <1>3, <1>5, <2>3 DEF CheckErr, Request, limiterVars, LimitInv, TypeOK, SweptEmpty
  <2>4. CASE UNCHANGED <<rate, cells, level, waiting>> /\ (Record(HolderOf(c)) \/ UNCHANGED admitted)
    <3>1. admitted' \in [Holders -> [0..Second -> Nat]]
      BY <2>1, <2>4, RecordEffect DEF LimitInv, TypeOK
    <3> QED BY <1>3, <1>5, <2>4, <3>1 DEF Request, LimitInv, TypeOK, SweptEmpty
  <2> QED BY <1>5, <2>1, <2>2, <2>3, <2>4 DEF Request
<1>6. ASSUME NEW w \in Throttled, until_ready(w), UNCHANGED env
      PROVE  LimitInv'
  <2>1. KeyOf(w) = Wants[w] /\ HolderOf(w) = Wants[w].ip /\ w \in Users
    BY DEF KeyOf, HolderOf, Users, KeysNamed
  <2>2. CASE UntilReadyWaits(w)
    BY <1>3, <1>6, <2>2 DEF UntilReadyWaits, LimitInv, TypeOK, SweptEmpty
  <2>3. CASE UntilReadyReturns(w)
    <3>1. waiting' \in [Throttled -> {"new", "waiting", "through"}]
      BY <2>3 DEF UntilReadyReturns, LimitInv, TypeOK
    <3> QED BY <1>4, <1>6, <2>1, <2>3, <3>1 DEF UntilReadyReturns
  <2> QED BY <1>6, <2>2, <2>3 DEF until_ready
<1>7. CASE retain_recent /\ UNCHANGED env
  <2>1. level' \in [Keys -> 0..Burst * Interval]
    BY <1>2, <1>7 DEF retain_recent, LimitInv, TypeOK
  <2>2. SweptEmpty'
    BY <1>7 DEF retain_recent, SweptEmpty
  <2> QED BY <1>3, <1>7, <2>1, <2>2 DEF retain_recent, LimitInv, TypeOK
<1>8. CASE Pass
  <2> DEFINE top == Burst * Interval
  <2>1. level' \in [Keys -> 0..top]
    <3>1. level \in [Keys -> 0..top] /\ top \in Nat
      BY <1>2 DEF LimitInv, TypeOK
    <3>2. level' = [k \in Keys |-> IF level[k] > 0 THEN level[k] - 1 ELSE 0]
      BY <1>8 DEF Pass, Tick
    <3> HIDE DEF top
    <3> QED BY <3>1, <3>2
  <2>2. SweptEmpty'
    BY <1>8 DEF Pass, Tick, LimitInv, SweptEmpty, TypeOK
  <2>3. admitted' \in [Holders -> [0..Second -> Nat]]
    <3>1. \A t \in 0..Second : t # 0 => t - 1 \in 0..Second
      BY PingAssumption
    <3> QED BY <1>8, <3>1 DEF Pass, Tick, LimitInv, TypeOK
  <2> QED BY <1>3, <1>8, <2>1, <2>2, <2>3 DEF Pass, Tick, LimitInv, TypeOK
<1>9. CASE UNCHANGED vars
  BY <1>3, <1>9 DEF vars, limiterVars, LimitInv, TypeOK, SweptEmpty
<1> QED BY <1>5, <1>6, <1>7, <1>8, <1>9 DEF Next, OtherUsers

LEMMA Limited ==
  ASSUME KeysNamed
  PROVE  Spec => []LimitInv
<1>1. Init => LimitInv
  <2> SUFFICES ASSUME Init PROVE LimitInv
    OBVIOUS
  <2>1. env \in Environments /\ rate \in Nat /\ rate <= Second
    BY RateTyped, PingAssumption DEF Init
  <2>2. 0 \in 0..Burst * Interval
    BY <2>1, QuotaFacts
  <2> QED BY <2>1, <2>2 DEF Init, LimiterInit, LimitInv, TypeOK, SweptEmpty
<1>2. LimitInv /\ [Next]_vars => LimitInv'
  BY LimitStep
<1> QED BY <1>1, <1>2, PTL DEF Spec

\* The limiter's and the service's variables keep their types for any rate; no
\* cell holds more than a burst, and sweeps and ticks take none below empty.
THEOREM Typing ==
  ASSUME KeysNamed
  PROVE  Spec => []TypeOK
<1>1. LimitInv => TypeOK
  BY DEF LimitInv
<1> QED BY <1>1, Limited, PTL

-----------------------------------------------------------------------------
\* The facts about one state that the arithmetic below needs.
LEMMA StateFacts ==
  ASSUME KeysNamed, LimitInv
  PROVE  /\ Interval \in Nat \ {0} /\ Burst \in Nat \ {0} /\ Burst * Interval \in Nat
         /\ \A u \in Users :
              /\ KeyOf(u) \in Keys /\ HolderOf(u) \in Holders
              /\ level[KeyOf(u)] \in Nat /\ level[KeyOf(u)] <= Burst * Interval
              /\ \A t \in 0..Second :
                   /\ admitted[HolderOf(u)][t] \in Nat
                   /\ Interval * admitted[HolderOf(u)][t] \in Nat
<1>1. Interval \in Nat \ {0} /\ Burst \in Nat \ {0} /\ Burst * Interval \in Nat
  BY QuotaFacts DEF LimitInv, TypeOK
<1>2. ASSUME NEW u \in Users
      PROVE  /\ KeyOf(u) \in Keys /\ HolderOf(u) \in Holders
             /\ level[KeyOf(u)] \in Nat /\ level[KeyOf(u)] <= Burst * Interval
  BY <1>1 DEF KeysNamed, Users, Holders, HolderOf, LimitInv, TypeOK
<1>3. \A o \in Holders, t \in 0..Second : admitted[o][t] \in Nat
  BY DEF LimitInv, TypeOK
<1>4. \A o \in Holders, t \in 0..Second : Interval * admitted[o][t] \in Nat
  BY <1>1, <1>3, Times
<1> QED BY <1>1, <1>2, <1>3, <1>4

\* An admission raises the level of its key by one interval, and no other.
LEMMA AdmitLevel ==
  ASSUME KeysNamed, LimitInv, NEW u \in Users, Admit(HolderOf(u), KeyOf(u)), NEW v \in Users
  PROVE  level'[KeyOf(v)] = IF KeyOf(v) = KeyOf(u) THEN level[KeyOf(v)] + Interval
                                                  ELSE level[KeyOf(v)]
  BY DEF Admit, KeysNamed, LimitInv, TypeOK

\* A tick drains every cell by one and ages the history by one.
LEMMA TickEffect ==
  ASSUME KeysNamed, LimitInv, Tick, NEW v \in Users, NEW t \in 0..Second
  PROVE  /\ rate' = rate
         /\ level'[KeyOf(v)] = IF level[KeyOf(v)] > 0 THEN level[KeyOf(v)] - 1 ELSE 0
         /\ admitted'[HolderOf(v)][t] = IF t = 0 THEN 0 ELSE admitted[HolderOf(v)][t - 1]
<1>1. KeyOf(v) \in Keys /\ HolderOf(v) \in Holders /\ DOMAIN admitted = Holders
  BY StateFacts DEF LimitInv, TypeOK
<1> QED BY <1>1 DEF Tick

\* Whatever is admitted for an address is in the cell of its key, less what has
\* drained since.
LEMMA FilledStep ==
  ASSUME KeysNamed, HeadersTruthful, LimitInv, FilledInv, [Next]_vars
  PROVE  FilledInv'
<1>1. Effect
  BY EffectStep
<1>2. CASE UNCHANGED <<rate, level, admitted>>
  BY <1>2 DEF FilledInv, Filled, Interval
<1>3. ASSUME rate > 0, UNCHANGED rate, NEW u \in Users, Admit(HolderOf(u), KeyOf(u)),
             NEW v \in Users, NEW t \in 0..Second
      PROVE  Interval * admitted'[HolderOf(v)][t] <= level'[KeyOf(v)] + t
  <2> DEFINE a == admitted[HolderOf(v)][t]
  <2>1. Interval * a <= level[KeyOf(v)] + t
    BY <1>3 DEF FilledInv, Filled
  <2>2. Interval \in Nat /\ a \in Nat /\ Interval * a \in Nat /\ level[KeyOf(v)] \in Nat
    BY <1>3, StateFacts
  <2>3. level'[KeyOf(v)] = IF KeyOf(v) = KeyOf(u) THEN level[KeyOf(v)] + Interval
                                                  ELSE level[KeyOf(v)]
    BY <1>3, AdmitLevel
  <2>4. admitted'[HolderOf(v)][t] = IF HolderOf(v) = HolderOf(u) THEN a + 1 ELSE a
    BY <1>3, RecordEffect, StateFacts DEF Admit, LimitInv, TypeOK
  <2>5. HolderOf(v) = HolderOf(u) => KeyOf(v) = KeyOf(u)
    BY <1>3, KeysAreHolders
  <2>6. Interval * (a + 1) = Interval * a + Interval
    BY <2>2, Times
  <2> HIDE DEF a
  <2>7. CASE HolderOf(v) = HolderOf(u)
    BY <2>1, <2>2, <2>3, <2>4, <2>5, <2>6, <2>7
  <2>8. CASE HolderOf(v) # HolderOf(u)
    <3>1. level[KeyOf(v)] <= level'[KeyOf(v)] /\ level'[KeyOf(v)] \in Nat
      BY <2>2, <2>3
    <3> QED BY <2>1, <2>2, <2>4, <2>8, <3>1
  <2> QED BY <2>7, <2>8
<1>4. ASSUME rate > 0, Tick, NEW v \in Users, NEW t \in 0..Second
      PROVE  Interval * admitted'[HolderOf(v)][t] <= level'[KeyOf(v)] + t
  <2>1. Interval \in Nat /\ level[KeyOf(v)] \in Nat
    BY <1>4, StateFacts
  <2>2. /\ level'[KeyOf(v)] = IF level[KeyOf(v)] > 0 THEN level[KeyOf(v)] - 1 ELSE 0
        /\ admitted'[HolderOf(v)][t] = IF t = 0 THEN 0 ELSE admitted[HolderOf(v)][t - 1]
    BY <1>4, TickEffect
  <2>3. CASE t = 0
    <3>1. Interval * 0 = 0
      BY <2>1
    <3> QED BY <2>1, <2>2, <2>3, <3>1
  <2>4. CASE t # 0
    <3>1. t - 1 \in 0..Second
      BY <2>4, PingAssumption
    <3> DEFINE p == Interval * admitted[HolderOf(v)][t - 1]
    <3>2. p <= level[KeyOf(v)] + (t - 1) /\ p \in Nat
      BY <1>4, <3>1, StateFacts DEF FilledInv, Filled
    <3>3. Interval * admitted'[HolderOf(v)][t] = p
      BY <2>2, <2>4
    <3> HIDE DEF p
    <3> QED BY <2>1, <2>2, <3>1, <3>2, <3>3, PingAssumption
  <2> QED BY <2>3, <2>4
<1>5. rate' = rate => Interval' = Interval
  BY DEF Interval
<1>6. CASE rate > 0 /\ UNCHANGED rate /\ \E u \in Users : Admit(HolderOf(u), KeyOf(u))
  BY <1>3, <1>5, <1>6 DEF FilledInv, Filled, KeyOf
<1>7. CASE Tick
  <2>1. rate' = rate
    BY <1>7 DEF Tick
  <2> QED BY <1>4, <1>5, <1>7, <2>1 DEF FilledInv, Filled, KeyOf
<1> QED BY <1>1, <1>2, <1>6, <1>7 DEF Effect

\* A cell holds nothing but what was admitted for its address, less what may have
\* drained since.
LEMMA CausedStep ==
  ASSUME KeysNamed, HeadersTruthful, LimitInv, CausedInv, [Next]_vars
  PROVE  CausedInv'
<1> DEFINE top == Burst * Interval
<1>1. Effect
  BY EffectStep
<1>2. CASE UNCHANGED <<rate, level, admitted>>
  BY <1>2 DEF CausedInv, Caused, Undrained, Interval, Burst
<1>3. ASSUME NEW t \in 0..Second
      PROVE  Undrained(t) \in Nat
  <2>1. top \in Nat
    BY StateFacts
  <2> HIDE DEF top
  <2>2. Undrained(t) = IF t < top THEN top - 1 - t ELSE 0
    BY DEF Undrained, top
  <2> QED BY <2>1, <2>2, PingAssumption
<1>4. ASSUME rate > 0, UNCHANGED rate, NEW u \in Users, Admit(HolderOf(u), KeyOf(u)),
             NEW v \in Users, NEW t \in 0..Second
      PROVE  level'[KeyOf(v)] <= Interval * admitted'[HolderOf(v)][t] + Undrained(t)
  <2> DEFINE a == admitted[HolderOf(v)][t]
  <2>1. level[KeyOf(v)] <= Interval * a + Undrained(t)
    BY <1>4 DEF CausedInv, Caused
  <2>2. Interval \in Nat /\ a \in Nat /\ Interval * a \in Nat /\ level[KeyOf(v)] \in Nat
    BY <1>4, StateFacts
  <2>3. level'[KeyOf(v)] = IF KeyOf(v) = KeyOf(u) THEN level[KeyOf(v)] + Interval
                                                  ELSE level[KeyOf(v)]
    BY <1>4, AdmitLevel
  <2>4. admitted'[HolderOf(v)][t] = IF HolderOf(v) = HolderOf(u) THEN a + 1 ELSE a
    BY <1>4, RecordEffect, StateFacts DEF Admit, LimitInv, TypeOK
  <2>5. KeyOf(v) = KeyOf(u) => HolderOf(v) = HolderOf(u)
    BY <1>4, KeysAreHolders
  <2>6. Interval * (a + 1) = Interval * a + Interval
    BY <2>2, Times
  <2>7. Undrained(t) \in Nat
    BY <1>3
  <2> HIDE DEF a
  <2>8. CASE KeyOf(v) = KeyOf(u)
    BY <2>1, <2>2, <2>3, <2>4, <2>5, <2>6, <2>7, <2>8
  <2>9. CASE KeyOf(v) # KeyOf(u)
    BY <2>1, <2>2, <2>3, <2>4, <2>6, <2>7, <2>9
  <2> QED BY <2>8, <2>9
<1>5. ASSUME rate > 0, Tick, NEW v \in Users, NEW t \in 0..Second
      PROVE  level'[KeyOf(v)] <= Interval * admitted'[HolderOf(v)][t] + Undrained(t)
  <2>1. Interval \in Nat /\ top \in Nat /\ level[KeyOf(v)] \in Nat /\ level[KeyOf(v)] <= top
    BY <1>5, StateFacts
  <2>2. /\ level'[KeyOf(v)] = IF level[KeyOf(v)] > 0 THEN level[KeyOf(v)] - 1 ELSE 0
        /\ admitted'[HolderOf(v)][t] = IF t = 0 THEN 0 ELSE admitted[HolderOf(v)][t - 1]
    BY <1>5, TickEffect
  <2>3. \A s \in 0..Second : Undrained(s) = IF s < top THEN top - 1 - s ELSE 0
    BY DEF Undrained
  <2> HIDE DEF top
  <2>4. CASE t = 0
    <3>1. Interval * 0 = 0
      BY <2>1
    <3>2. Undrained(0) = IF 0 < top THEN top - 1 ELSE 0
      BY <2>1, <2>3, <2>4
    <3> QED BY <2>1, <2>2, <2>4, <3>1, <3>2
  <2>5. CASE t # 0
    <3>1. t - 1 \in 0..Second
      BY <2>5, PingAssumption
    <3> DEFINE p == Interval * admitted[HolderOf(v)][t - 1]
    <3>2. level[KeyOf(v)] <= p + Undrained(t - 1) /\ p \in Nat
      BY <1>5, <3>1, StateFacts DEF CausedInv, Caused
    <3>3. Interval * admitted'[HolderOf(v)][t] = p
      BY <2>2, <2>5
    <3>4. Undrained(t - 1) = IF t - 1 < top THEN top - t ELSE 0
      BY <2>1, <2>3, <3>1, PingAssumption
    <3>5. Undrained(t) = IF t < top THEN top - 1 - t ELSE 0
      BY <2>3
    <3> HIDE DEF p
    <3> QED BY <2>1, <2>2, <2>5, <3>2, <3>3, <3>4, <3>5, PingAssumption
  <2> QED BY <2>4, <2>5
<1>6. rate' = rate => Interval' = Interval /\ Burst' = Burst
  BY DEF Interval, Burst
<1>7. CASE rate > 0 /\ UNCHANGED rate /\ \E u \in Users : Admit(HolderOf(u), KeyOf(u))
  BY <1>4, <1>6, <1>7 DEF CausedInv, Caused, KeyOf, Undrained
<1>8. CASE Tick
  <2>1. rate' = rate
    BY <1>8 DEF Tick
  <2> QED BY <1>5, <1>6, <1>8, <2>1 DEF CausedInv, Caused, KeyOf, Undrained
<1> QED BY <1>1, <1>2, <1>7, <1>8 DEF Effect

-----------------------------------------------------------------------------
LEMMA StartsEmpty == KeysNamed /\ Init => LimitInv /\ FilledInv /\ CausedInv
<1> SUFFICES ASSUME KeysNamed, Init PROVE LimitInv /\ FilledInv /\ CausedInv
  OBVIOUS
<1>1. env \in Environments /\ rate \in Nat /\ rate <= Second
  BY RateTyped, PingAssumption DEF Init
<1>2. Interval \in Nat /\ Burst * Interval \in Nat
  BY <1>1, QuotaFacts
<1>3. LimitInv
  BY <1>1, <1>2 DEF Init, LimiterInit, LimitInv, TypeOK, SweptEmpty
<1>4. ASSUME NEW u \in Users, NEW t \in 0..Second
      PROVE  /\ Interval * admitted[HolderOf(u)][t] = 0 /\ level[KeyOf(u)] = 0
             /\ Undrained(t) \in Nat
  <2>1. admitted[HolderOf(u)][t] = 0 /\ level[KeyOf(u)] = 0
    <3>1. KeyOf(u) \in Keys /\ HolderOf(u) \in Holders
      BY <1>3, StateFacts
    <3> QED BY <3>1 DEF Init, LimiterInit
  <2> DEFINE top == Burst * Interval
  <2>2. Undrained(t) = IF t < top THEN top - 1 - t ELSE 0
    BY DEF Undrained
  <2>3. top \in Nat
    BY <1>2
  <2> HIDE DEF top
  <2>4. Undrained(t) \in Nat
    BY <2>2, <2>3, PingAssumption
  <2> QED BY <1>2, <2>1, <2>4
<1>5. Filled
  BY <1>4 DEF Filled
<1>6. Caused
  BY <1>4 DEF Caused
<1> QED BY <1>3, <1>5, <1>6 DEF FilledInv, CausedInv

\* With a limit configured, requests from one address, and those of all unnamed
\* clients together, reach the handlers at most a burst at once and one more per
\* interval, at any rate up to one per tick, for any number of clients, routes,
\* waiting tasks and sweeps, behind a proxy that writes truthful headers.
THEOREM RateLimited ==
  ASSUME KeysNamed, HeadersTruthful
  PROVE  Spec => []Budget
<1>1. Init => LimitInv /\ FilledInv
  BY StartsEmpty
<1>2. LimitInv /\ FilledInv /\ [Next]_vars => LimitInv' /\ FilledInv'
  BY LimitStep, FilledStep
<1>3. LimitInv /\ FilledInv => Budget
  <2> SUFFICES ASSUME LimitInv, FilledInv, rate > 0,
                      NEW o \in Holders, NEW t \in 0..Second
               PROVE  admitted[o][t] <= Burst + t \div Interval
    BY DEF Budget
  <2>1. PICK u \in Users : o = HolderOf(u)
    BY DEF Holders, Users, HolderOf, KeysNamed
  <2> DEFINE a == admitted[o][t]
  <2>2. /\ Interval * a <= level[KeyOf(u)] + t
        /\ Interval \in Nat \ {0} /\ Burst \in Nat /\ a \in Nat
        /\ level[KeyOf(u)] \in Nat /\ level[KeyOf(u)] <= Burst * Interval
    BY <2>1, StateFacts DEF FilledInv, Filled
  <2>3. \A i \in Nat \ {0}, b, x, s, l \in Nat :
          i * x <= l + s /\ l <= b * i => x <= b + s \div i
    <3> SUFFICES ASSUME NEW i \in Nat \ {0}, NEW b \in Nat, NEW x \in Nat, NEW s \in Nat,
                        NEW l \in Nat, i * x <= l + s, l <= b * i, ~(x <= b + s \div i)
                 PROVE  FALSE
      OBVIOUS
    <3>1. PICK q \in Nat : q = s \div i /\ s < i * q + i
      BY SMT
    <3>2. x >= b + q + 1
      BY <3>1
    <3>3. PICK d \in Nat : x = b + q + 1 + d
      <4>1. x - (b + q + 1) \in Nat
        BY <3>1, <3>2
      <4> QED BY <3>1, <4>1
    <3>4. i * x = b * i + i * q + i + i * d
      BY <3>1, <3>3
    <3>5. i * d \in Nat /\ b * i \in Nat /\ i * q \in Nat
      BY <3>1, <3>3
    <3> QED BY <3>1, <3>4, <3>5
  <2>4. t \in Nat
    BY PingAssumption
  <2> QED BY <2>2, <2>3, <2>4
<1> QED BY <1>1, <1>2, <1>3, PTL DEF Spec

\* Behind a proxy that writes truthful headers a client that one names is refused
\* only for a full burst of its own address within the last second, whatever
\* others do; the unnamed ones pay for each other, and for nobody else.
THEOREM OwnUseOnly ==
  ASSUME KeysNamed, HeadersTruthful
  PROVE  Spec => []OwnBudget
<1>1. Init => LimitInv /\ CausedInv
  BY StartsEmpty
<1>2. LimitInv /\ CausedInv /\ [Next]_vars => LimitInv' /\ CausedInv'
  BY LimitStep, CausedStep
<1>3. LimitInv /\ CausedInv => OwnBudget
  <2> SUFFICES ASSUME LimitInv, CausedInv, NEW c \in Clients,
                      rate > 0, ~Conforms(client_key(Headers[c]))
               PROVE  admitted[Holder(c)][Second - 1] >= Burst
    BY DEF OwnBudget
  <2> DEFINE a == admitted[Holder(c)][Second - 1]
  <2>1. c \in Users /\ KeyOf(c) = client_key(Headers[c]) /\ HolderOf(c) = Holder(c) /\ Second - 1 \in 0..Second
    BY PingAssumption DEF Users, KeyOf, HolderOf
  <2>2. /\ Interval \in Nat \ {0} /\ Burst \in Nat /\ a \in Nat
        /\ level[KeyOf(c)] \in Nat
    BY <2>1, StateFacts
  <2>3. level[KeyOf(c)] <= Interval * a + Undrained(Second - 1)
    BY <2>1 DEF CausedInv, Caused
  <2>4. Burst * Interval <= Second
    <3>1. \A n, s \in Nat \ {0} : n * (s \div n) <= s
      BY SMT
    <3>2. rate \in Nat \ {0} /\ nonzero(rate) = rate
      BY DEF LimitInv, TypeOK, nonzero
    <3> QED BY <3>1, <3>2, PingAssumption DEF Burst, Interval
  <2>5. Undrained(Second - 1) = 0
    <3> DEFINE top == Burst * Interval
    <3>1. top \in Nat /\ top <= Second
      BY <2>1, <2>4, StateFacts
    <3>2. Undrained(Second - 1) = IF Second - 1 < top THEN top - 1 - (Second - 1) ELSE 0
      BY DEF Undrained
    <3> HIDE DEF top
    <3> QED BY <3>1, <3>2, PingAssumption
  <2>6. level[KeyOf(c)] + Interval > Burst * Interval
    BY <2>1, <2>2, StateFacts DEF Conforms
  <2>7. \A i \in Nat \ {0}, b, x, l \in Nat : l <= i * x /\ l + i > b * i => x >= b
    <3> SUFFICES ASSUME NEW i \in Nat \ {0}, NEW b \in Nat, NEW x \in Nat, NEW l \in Nat,
                        l <= i * x, l + i > b * i, ~(x >= b)
                 PROVE  FALSE
      OBVIOUS
    <3>1. PICK d \in Nat : b = x + 1 + d
      <4>1. b - (x + 1) \in Nat
        OBVIOUS
      <4> QED BY <4>1
    <3>2. b * i = i * x + i + d * i /\ d * i \in Nat /\ i * x \in Nat
      BY <3>1
    <3> QED BY <3>2
  <2> HIDE DEF a
  <2>8. level[KeyOf(c)] <= Interval * a
    <3>1. Interval * a \in Nat
      BY <2>2, Times
    <3> QED BY <2>2, <2>3, <2>5, <3>1
  <2>9. a >= Burst
    BY <2>2, <2>6, <2>7, <2>8
  <2> QED BY <2>9 DEF a
<1> QED BY <1>1, <1>2, <1>3, PTL DEF Spec

-----------------------------------------------------------------------------
\* A value that may be missing is there.
LEMMA Present ==
  ASSUME NEW S, NEW s \in Seq(S), Len(s) <= 1, s # <<>>
  PROVE  Len(s) = 1 /\ s[1] \in S /\ s = << s[1] >> /\ Head(s) = s[1]
<1>1. Len(s) \in Nat /\ Len(s) # 0
  OBVIOUS
<1>2. Len(s) = 1
  BY <1>1
<1>3. s[1] \in S /\ Head(s) = s[1]
  BY <1>2
<1>4. s = << s[1] >>
  BY <1>2, <1>3
<1> QED BY <1>2, <1>3, <1>4

\* Or-ing the differing bits of two equally long strings tells exactly the equal
\* ones apart, for bytes and lengths of any value.
LEMMA ConstantTimeEq ==
  ASSUME NEW a \in Seq(Byte), NEW b \in Seq(Byte)
  PROVE  constant_time_eq(a, b) <=> a = b
<1>1. \A i \in DOMAIN a : xor(a[i], a[i]) = {}
  BY DEF xor
<1>2. ASSUME constant_time_eq(a, b)
      PROVE  a = b
  <2>1. Len(a) = Len(b)
    BY <1>2 DEF constant_time_eq
  <2>2. \A i \in DOMAIN a : xor(a[i], b[i]) = {}
    BY <1>2 DEF constant_time_eq
  <2>3. \A i \in DOMAIN a : a[i] = b[i]
    BY <2>2 DEF xor
  <2> QED BY <2>1, <2>3
<1>3. constant_time_eq(a, a)
  BY <1>1 DEF constant_time_eq
<1> QED BY <1>2, <1>3

\* /secure answers 200 to exactly the configured key behind "Bearer ", and to
\* nothing when none, an empty one or one that to_str refuses is configured, for
\* any key and header.
THEOREM GateOpensToKey ==
  ASSUME KeysNamed
  PROVE  Spec => []SecureOnlyToKey
<1>1. ASSUME LimitInv, NEW auth \in Bearers
      PROVE  Handler("/secure", auth) = 200 <=>
               \E key \in {env.key[i] : i \in DOMAIN env.key} :
                 /\ key # <<>> /\ \A i \in DOMAIN key : visible(key[i])
                 /\ auth = << [scheme |-> "Bearer", token |-> key] >>
  <2>1. env.key \in Seq(Seq(Byte)) /\ Len(env.key) <= 1
    BY <1>1, PingAssumption DEF LimitInv, TypeOK
  <2>2. auth \in Seq([scheme : STRING, token : Seq(Byte)]) /\ Len(auth) <= 1
    BY PingAssumption
  <2>3. CASE api_key = <<>>
    <3>1. Handler("/secure", auth) = 404
      <4>1. "/secure" \notin Routes
        BY <2>3 DEF Routes
      <4> QED BY <4>1 DEF Handler
    <3>2. \A key \in {env.key[i] : i \in DOMAIN env.key} : key = <<>>
      BY <2>1, <2>3 DEF api_key
    <3> QED BY <3>1, <3>2
  <2>4. CASE api_key # <<>>
    <3>1. api_key = env.key /\ Len(env.key) = 1
      <4>1. api_key = env.key
        BY <2>4 DEF api_key
      <4> QED BY <2>1, <2>4, <4>1, Present
    <3> DEFINE k == env.key[1]
    <3>2. env.key = <<k>> /\ k \in Seq(Byte) /\ k # <<>> /\ Head(api_key) = k
      BY <2>1, <2>4, <3>1 DEF api_key
    <3>3. Handler("/secure", auth) = secure(auth)
      BY <2>4 DEF Handler, Routes
    <3>4. {env.key[i] : i \in DOMAIN env.key} = {k}
      BY <3>2
    <3> HIDE DEF k
    <3>5. secure(auth) = 200 <=>
            to_str(k) /\ auth = << [scheme |-> "Bearer", token |-> k] >>
      <4>1. CASE auth = <<>>
        BY <4>1 DEF secure
      <4>2. CASE auth # <<>>
        <5>1. PICK h \in [scheme : STRING, token : Seq(Byte)] : auth = <<h>>
          BY <2>2, <4>2, Present
        <5>2. Head(auth) = h
          BY <5>1
        <5>3. secure(auth) = 200 <=> to_str(k) /\ h.scheme = "Bearer" /\ h.token = k
          <6>1. constant_time_eq(h.token, k) <=> h.token = k
            BY <3>2, <5>1, ConstantTimeEq
          <6> QED BY <3>2, <4>2, <5>2, <6>1 DEF secure
        <5>4. h = [scheme |-> "Bearer", token |-> k] <=> h.scheme = "Bearer" /\ h.token = k
          OBVIOUS
        <5> QED BY <5>1, <5>3, <5>4
      <4> QED BY <4>1, <4>2
    <3> QED BY <3>2, <3>3, <3>4, <3>5 DEF to_str
  <2> QED BY <2>3, <2>4
<1>2. LimitInv => SecureOnlyToKey
  BY <1>1 DEF SecureOnlyToKey
<1> QED BY <1>2, Limited, PTL
=============================================================================
