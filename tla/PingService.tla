---------------------------- MODULE PingService ----------------------------
(***************************************************************************)
(* The ping service (ping/src): main's options, the routes and their        *)
(* order, the rate-limit middleware and the Bearer gate, over a             *)
(* KeyedLimiter.  A request is one step: check is the only state it touches *)
(* and is atomic.  ping calls check only; the tasks of Throttled and        *)
(* retain_recent are the limiter's other users, absent from ping.           *)
(*                                                                          *)
(* A header or variable that may be missing is a sequence of at most one    *)
(* value.  An x-forwarded-for or x-real-ip that to_str refuses counts as    *)
(* missing.  A byte is the set of its bits that are 1.                      *)
(***************************************************************************)
EXTENDS KeyedLimiter, Sequences

CONSTANTS
  Clients,        \* who sends requests, each on its own
  Address,        \* the IP address each of them has
  Headers,        \* x-forwarded-for (its comma-separated hops) and x-real-ip of each client
  Environments,   \* values of PING_RATE_LIMIT_RPS and PING_API_KEY; rps <<>> if not a u32
  Bearers         \* Authorization headers: scheme and token

Byte == SUBSET (0..7)
Hop == [ip : STRING, blanks : BOOLEAN]   \* blanks: around the address, in the header

\* A rate above one cell per tick (a nanosecond in governor) has no interval.
ASSUME PingAssumption ==
  /\ Second \in Nat \ {0}
  /\ \A c \in Clients :
       /\ Headers[c].forwarded \in Seq(Hop)
       /\ Headers[c].real \in Seq(Hop) /\ Len(Headers[c].real) <= 1
  /\ \A e \in Environments :
       /\ e.rps \in Seq(0..Second) /\ Len(e.rps) <= 1
       /\ e.key \in Seq(Seq(Byte)) /\ Len(e.key) <= 1
  /\ \A auth \in Bearers :
       auth \in Seq([scheme : STRING, token : Seq(Byte)]) /\ Len(auth) <= 1

VARIABLE env

vars == <<limiterVars, env>>

-----------------------------------------------------------------------------
(* main *)

\* Option<SecretString>; an empty variable is no key.
api_key == IF env.key = << <<>> >> THEN <<>> ELSE env.key

\* 0 disables; so does anything that does not parse.
rate_limit_rps(e) == IF e.rps = <<>> THEN 0 ELSE Head(e.rps)

-----------------------------------------------------------------------------
(* routes *)

Routes == {"/ping", "/version"} \cup (IF api_key # <<>> THEN {"/secure"} ELSE {})

\* Mutant of Guarded: the limiter is layered on before /secure is added.
GuardedFirstTwo == IF rate > 0 THEN {"/ping", "/version"} ELSE {}

\* route_layer wraps the routes added so far, and it comes last.
Guarded == IF rate > 0 THEN Routes ELSE {}

xor(x, y) == (x \ y) \cup (y \ x)

\* Mutant of constant_time_eq: no length check; zip stops at the shorter one.
constant_time_eq_zip(a, b) ==
  UNION {xor(a[i], b[i]) : i \in DOMAIN a \cap DOMAIN b} = {}

\* secrets::constant_time_eq: the bits in which any two bytes differ, or-ed.
constant_time_eq(a, b) ==
  /\ Len(a) = Len(b)
  /\ UNION {xor(a[i], b[i]) : i \in DOMAIN a} = {}

\* The bytes that to_str takes: 32 to 126, and the tab.
visible(b) ==
  \/ 7 \notin b /\ b \cap {5, 6} # {} /\ b # 0..6
  \/ b = {0, 3}

to_str(token) == \A i \in DOMAIN token : visible(token[i])

secure(auth) ==
  IF /\ auth # <<>> /\ to_str(Head(auth).token)
     /\ Head(auth).scheme = "Bearer"
     /\ constant_time_eq(Head(auth).token, Head(api_key))
    THEN 200 ELSE 401

\* What the handler of a matched route answers; no match is a 404.
Handler(route, auth) ==
  IF route \notin Routes THEN 404
  ELSE IF route = "/secure" THEN secure(auth) ELSE 200

-----------------------------------------------------------------------------
(* rate_limit *)

trim(hop) == [ip |-> hop.ip, blanks |-> FALSE]

Global == [ip |-> "global", blanks |-> FALSE]

\* Mutant of client_key: X-Forwarded-For is not looked at.
client_key_real_ip(h) == IF h.real # <<>> THEN Head(h.real) ELSE Global

client_key(h) ==
  IF h.forwarded # <<>> THEN trim(Head(h.forwarded))
  ELSE IF h.real # <<>> THEN Head(h.real)
  ELSE Global

\* Whose use a client's requests are: its address's if a header names one, else
\* that of all clients whom no header names, together.
Holder(c) ==
  IF Headers[c].forwarded # <<>> \/ Headers[c].real # <<>> THEN Address[c] ELSE Global.ip

Holders == {Holder(c) : c \in Clients} \cup {Wants[w].ip : w \in Throttled}

\* A request the limiter lets through, or that it does not stand before, reaches
\* its handler.  Admissions are not recorded for a service without a limiter.
Request(c, route) ==
  LET k == client_key(Headers[c]) IN
  /\ \/ route \in Guarded /\ (CheckOk(Holder(c), k) \/ CheckErr(k))
     \/ /\ route \in Routes \ Guarded
        /\ IF rate > 0 THEN Record(Holder(c)) ELSE UNCHANGED admitted
        /\ UNCHANGED <<rate, cells, level, waiting>>
  /\ UNCHANGED env

-----------------------------------------------------------------------------
Init ==
  /\ env \in Environments /\ rate = rate_limit_rps(env)
  /\ LimiterInit(Holders)

\* The limiter's other users exist where there is a limiter.
OtherUsers ==
  /\ rate > 0
  /\ (\E w \in Throttled : until_ready(w)) \/ retain_recent
  /\ UNCHANGED env

Pass == Tick /\ UNCHANGED env

Next ==
  \/ \E c \in Clients, route \in {"/ping", "/version", "/secure"} : Request(c, route)
  \/ OtherUsers
  \/ Pass

\* Time passes, and a timer that is due wakes its task.  Nobody need send a
\* request or call retain_recent.
Fairness ==
  /\ WF_vars(Pass)
  /\ \A w \in Throttled : WF_vars(rate > 0 /\ until_ready(w) /\ UNCHANGED env)

Spec == Init /\ [][Next]_vars /\ Fairness

-----------------------------------------------------------------------------
(* Properties *)

\* Every variable has its type; no cell holds more than a burst.
TypeOK ==
  /\ env \in Environments /\ rate \in Nat
  /\ cells \subseteq Keys
  /\ level \in [Keys -> 0..Burst * Interval]
  /\ waiting \in [Throttled -> {"new", "waiting", "through"}]
  /\ admitted \in [Holders -> [0..Second -> Nat]]

\* With a limit configured, requests from one address reach the handlers, on
\* whichever routes and whichever header names the address, at most a burst at
\* once and one more per interval; so do those of all unnamed clients together.
\* Sweeping recovered keys in between gives no budget back.
Budget ==
  rate > 0 => \A o \in Holders, t \in 0..Second :
                admitted[o][t] <= Burst + t \div Interval

\* A client that a header names is refused only when its own address has used a
\* full burst within the last second.  The clients no header names share one
\* bucket: one of them is refused only when together they have used a burst, and
\* never for what a named address did.
OwnBudget ==
  \A c \in Clients :
    rate > 0 /\ ~Conforms(client_key(Headers[c]))
      => admitted[Holder(c)][Second - 1] >= Burst

\* /secure answers 200 to exactly the configured key, behind "Bearer ", and to
\* nothing if none, an empty one, or one that to_str refuses is configured:
\* comparing by or-ed differences is equality.
SecureOnlyToKey ==
  \A auth \in Bearers :
    Handler("/secure", auth) = 200 <=>
      \E key \in {env.key[i] : i \in DOMAIN env.key} :
        /\ key # <<>> /\ \A i \in DOMAIN key : visible(key[i])
        /\ auth = << [scheme |-> "Bearer", token |-> key] >>

\* A task in until_ready returns, unless others go on taking the cells of its
\* key as they come free.
UntilReadyEnds ==
  \A w \in Throttled :
    <>[][waiting'[w] = waiting[w] => level'[Wants[w]] <= level[Wants[w]]]_vars
      => (waiting[w] = "waiting" ~> waiting[w] = "through")
=============================================================================
