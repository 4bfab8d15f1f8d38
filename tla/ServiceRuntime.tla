--------------------------- MODULE ServiceRuntime ---------------------------
(***************************************************************************)
(* The life of a service process: the fail-fast boot of tasks/src/main.rs   *)
(* from its configuration, the background probes of valkey and kafka, the   *)
(* readiness registry and the graceful shutdown of httpx, and a load        *)
(* balancer that routes requests to the process while /readyz answers 200.  *)
(*                                                                          *)
(* A probe asks its dependency and stores the answer in two steps, and the  *)
(* readiness handler reads the gate and then every flag one by one, so      *)
(* each of them works with values that may have changed since.              *)
(*                                                                          *)
(* External, modelled from how the code uses them: axum::serve, which stops *)
(* accepting when the shutdown future returns and then waits for the open   *)
(* connections; the dependencies; the supervisor (restart: on-failure in    *)
(* docker/stack.yml); the load balancer.                                    *)
(***************************************************************************)
EXTENDS ServiceConfig, FiniteSets

CONSTANTS
  Deps,      \* the dependencies, each with a connection, a probe and a check
  Inputs,    \* what a process can be given: a config file and TASKS_ variables
  Address,   \* where each dependency is
  SocketAddrs, Endpoints,  \* the texts that parse as listen address, as OTLP endpoint
  Conns,     \* connections the load balancer can hold open
  MaxFlaps   \* bound: outages and recoveries of dependencies, and ports found taken

ASSUME RuntimeAssumption ==
  MaxFlaps \in Nat /\ Deps \subseteq {"valkey", "kafka"}

VARIABLES
  phase,    \* load, boot, serving, signalled, draining, stopped or failed
  cfg,      \* what Config::load returned, as a set of at most one Config
  gate,     \* Health.ready
  checks,   \* Health.checks: the dependencies registered
  healthy,  \* the AtomicBool of each dependency's probe
  probe,    \* of each probe: off, tick, or the answer it is about to store
  conn,     \* of each connection: closed, idle or handling
  ask,      \* the /readyz request: none, gate, or checks with asked and all_ok
  asked, all_ok,
  routing,  \* the load balancer's view: the last /readyz answer was a 200
  up,       \* environment: is the dependency reachable
  inputs,   \* environment: the config file and variables of the process
  flaps

server == <<phase, cfg, gate, checks>>
probes == <<healthy, probe>>
readyz == <<ask, asked, all_ok, routing>>
env == <<up, inputs, flaps>>
vars == <<server, probes, conn, readyz, env>>

Booted == [phase |-> "load", cfg |-> {}, gate |-> FALSE, checks |-> {},
           healthy |-> [d \in Deps |-> FALSE], probe |-> [d \in Deps |-> "off"]]

Init ==
  /\ inputs \in Inputs /\ phase = Booted.phase /\ cfg = Booted.cfg /\ gate = Booted.gate /\ checks = Booted.checks
  /\ healthy = Booted.healthy /\ probe = Booted.probe
  /\ conn = [c \in Conns |-> "closed"]
  /\ ask = "none" /\ asked = {} /\ all_ok = TRUE
  /\ routing = FALSE
  /\ up \in [Deps -> BOOLEAN] /\ flaps = 0

Listening == phase \in {"serving", "signalled"}
Cfg == CHOOSE c \in cfg : TRUE

-----------------------------------------------------------------------------
(* Boot: load the settings, connect to every dependency, bind, open the gate *)

\* otelx::init: the exporter is built, and can fail, only if export is on.
init(otelx) == otelx.otel_enabled = Bool(FALSE) \/ otelx.otel_endpoint.v \in Endpoints

\* Config::load and otelx::init; main returns the error of either.
LoadConfig ==
  /\ phase = "load"
  /\ LET loaded == load_yaml(TasksDefaults, inputs.file, inputs.env) IN
       IF \E c \in loaded : init(Project(c, OtelxFields))
         THEN phase' = "boot" /\ cfg' = loaded
         ELSE phase' = "failed" /\ UNCHANGED cfg
  /\ UNCHANGED <<gate, checks, probes, conn, readyz, env>>

\* Where each dependency is looked for, and its probe's period.
Url(d) == IF d = "valkey" THEN Project(Cfg, ValkeyFields).valkey_url.v
                          ELSE TasksKafka(Cfg).kafka_brokers.v
Secs(d) == IF d = "valkey" THEN Project(Cfg, ValkeyFields).valkey_probe_secs.v
                           ELSE TasksKafka(Cfg).kafka_probe_secs.v
\* Mutant of Period: no max(1).
PeriodUnclamped(d) == Secs(d)
Period(d) == IF Secs(d) < 1 THEN 1 ELSE Secs(d)

\* Cache::connect, Producer::connect: a dependency that answers the first PING
\* or metadata request gets a healthy flag, a probe and a readiness check.
\* main connects in one order and registers the checks after the last; nobody can
\* tell before the gate opens, so any order is allowed here.  A probe of period
\* 0 would die at once: tokio's interval panics.
Connect(d) ==
  /\ phase = "boot" /\ d \notin checks /\ up[d] /\ Url(d) = Address[d]
  /\ checks' = checks \cup {d}
  /\ healthy' = [healthy EXCEPT ![d] = TRUE]
  /\ probe' = [probe EXCEPT ![d] = IF Period(d) > 0 THEN "tick" ELSE "off"]
  /\ UNCHANGED <<phase, cfg, gate, conn, readyz, env>>

\* Otherwise connect returns the error and so does main.
ConnectFails(d) ==
  /\ phase = "boot" /\ d \notin checks /\ (~up[d] \/ Url(d) # Address[d])
  /\ phase' = "failed"
  /\ UNCHANGED <<cfg, gate, checks, probes, conn, readyz, env>>

\* Mutant of Bind: the server starts while dependencies are still connecting.
BindEarly ==
  /\ phase = "boot" /\ checks # {} /\ Project(Cfg, HttpxFields).addr.v \in SocketAddrs
  /\ phase' = "serving" /\ gate' = TRUE
  /\ UNCHANGED <<cfg, checks, probes, conn, readyz, env>>

Bind ==
  /\ phase = "boot" /\ checks = Deps /\ Project(Cfg, HttpxFields).addr.v \in SocketAddrs
  /\ phase' = "serving" /\ gate' = TRUE
  /\ UNCHANGED <<cfg, checks, probes, conn, readyz, env>>

\* The address does not parse, or the port is taken (for now): run returns the
\* error before it opens the gate.
BindFails ==
  /\ phase = "boot" /\ checks = Deps
  /\ IF Project(Cfg, HttpxFields).addr.v \in SocketAddrs
       THEN flaps < MaxFlaps /\ flaps' = flaps + 1
       ELSE UNCHANGED flaps
  /\ phase' = "failed"
  /\ UNCHANGED <<cfg, gate, checks, probes, conn, readyz, up, inputs>>

\* The supervisor starts a failed process again, with the same settings.
Restart ==
  /\ phase = "failed"
  /\ phase' = Booted.phase /\ cfg' = Booted.cfg /\ gate' = Booted.gate /\ checks' = Booted.checks
  /\ healthy' = Booted.healthy /\ probe' = Booted.probe
  /\ UNCHANGED <<conn, readyz, env>>

-----------------------------------------------------------------------------
(* spawn_health_probe, spawn_probe: ask, await the answer, store it *)

Alive == phase \notin {"stopped", "failed"}

ProbeAsk(d) ==
  /\ Alive /\ probe[d] = "tick"
  /\ probe' = [probe EXCEPT ![d] = IF up[d] THEN "ok" ELSE "err"]
  /\ UNCHANGED <<server, healthy, conn, readyz, env>>

\* Mutant of ProbeStore: a failure is never taken back.
ProbeStoreErr(d) ==
  /\ Alive /\ probe[d] \in {"ok", "err"}
  /\ healthy' = [healthy EXCEPT ![d] = @ /\ probe[d] = "ok"]
  /\ probe' = [probe EXCEPT ![d] = "tick"]
  /\ UNCHANGED <<server, conn, readyz, env>>

ProbeStore(d) ==
  /\ Alive /\ probe[d] \in {"ok", "err"}
  /\ healthy' = [healthy EXCEPT ![d] = probe[d] = "ok"]
  /\ probe' = [probe EXCEPT ![d] = "tick"]
  /\ UNCHANGED <<server, conn, readyz, env>>

-----------------------------------------------------------------------------
(* GET /readyz *)

ReadyAsked ==
  /\ ask = "none" /\ ask' = IF Listening THEN "gate" ELSE "none"
  /\ routing' = (routing /\ Listening)
  /\ UNCHANGED <<server, probes, conn, asked, all_ok, env>>

\* is_ready: a closed gate is a 503 at once.
ReadyGate ==
  /\ ask = "gate"
  /\ IF gate THEN ask' = "checks" /\ UNCHANGED routing
             ELSE ask' = "none" /\ routing' = FALSE
  /\ asked' = {} /\ all_ok' = TRUE
  /\ UNCHANGED <<server, probes, conn, env>>

\* readiness_check: what the probe last stored, not what is true now.
readiness(d) == healthy[d]

\* run_checks, one flag at a time; the order does not affect the answer.
RunCheck(d) ==
  /\ ask = "checks" /\ d \in checks \ asked
  /\ asked' = asked \cup {d} /\ all_ok' = (all_ok /\ readiness(d))
  /\ UNCHANGED <<server, probes, conn, ask, routing, env>>

ReadyAnswered ==
  /\ ask = "checks" /\ asked = checks
  /\ ask' = "none" /\ asked' = {} /\ all_ok' = TRUE /\ routing' = all_ok
  /\ UNCHANGED <<server, probes, conn, env>>

ready == ReadyAsked \/ ReadyGate \/ (\E d \in Deps : RunCheck(d)) \/ ReadyAnswered

-----------------------------------------------------------------------------
(* Requests the load balancer routes here, and the drain *)

\* A routed request on a new connection, or on one kept alive.
Request(c) ==
  /\ routing /\ conn[c] # "handling"
  /\ \/ conn[c] = "idle" \/ Listening
  /\ conn' = [conn EXCEPT ![c] = "handling"]
  /\ UNCHANGED <<server, probes, readyz, env>>

Answer(c) ==
  /\ conn[c] = "handling"
  /\ conn' = [conn EXCEPT ![c] = IF phase = "draining" THEN "closed" ELSE "idle"]
  /\ UNCHANGED <<server, probes, readyz, env>>

\* Mutant of Close: the drain leaves kept-alive connections to their clients.
CloseByClient(c) ==
  /\ conn[c] = "idle" /\ phase # "draining" /\ conn' = [conn EXCEPT ![c] = "closed"]
  /\ UNCHANGED <<server, probes, readyz, env>>

\* An idle connection is closed by its client, or by the drain.
Close(c) ==
  /\ conn[c] = "idle" /\ conn' = [conn EXCEPT ![c] = "closed"]
  /\ UNCHANGED <<server, probes, readyz, env>>

\* shutdown_signal closes the gate before it returns.
Signal ==
  /\ phase = "serving" /\ phase' = "signalled" /\ gate' = FALSE
  /\ UNCHANGED <<cfg, checks, probes, conn, readyz, env>>

StopAccepting ==
  /\ phase = "signalled" /\ phase' = "draining"
  /\ UNCHANGED <<cfg, gate, checks, probes, conn, readyz, env>>

\* serve returns once every connection is closed; main returns Ok and there is
\* no restart.
Stopped ==
  /\ phase = "draining" /\ ask = "none" /\ \A c \in Conns : conn[c] = "closed"
  /\ phase' = "stopped"
  /\ UNCHANGED <<cfg, gate, checks, probes, conn, readyz, env>>

-----------------------------------------------------------------------------
(* The environment *)

Flap(d) ==
  /\ flaps < MaxFlaps /\ flaps' = flaps + 1
  /\ up' = [up EXCEPT ![d] = ~@]
  /\ UNCHANGED <<server, probes, conn, readyz, inputs>>

Next ==
  \/ LoadConfig \/ Bind \/ BindFails \/ Restart \/ ready \/ Signal \/ StopAccepting \/ Stopped
  \/ \E d \in Deps : Connect(d) \/ ConnectFails(d) \/ ProbeAsk(d) \/ ProbeStore(d) \/ Flap(d)
  \/ \E c \in Conns : Request(c) \/ Answer(c) \/ Close(c)

Spec == Init /\ [][Next]_vars

(***************************************************************************)
(* The process runs on: boot, probes (PING has a response timeout, and      *)
(* fetch_metadata METADATA_TIMEOUT) and the readiness handler.  The load    *)
(* balancer keeps asking, the supervisor restarts, handlers answer, and a   *)
(* drained connection closes.  Nobody need send a signal or a request.      *)
(***************************************************************************)
Fairness ==
  /\ WF_vars(LoadConfig) /\ WF_vars(Bind \/ BindFails) /\ WF_vars(Restart) /\ WF_vars(StopAccepting) /\ WF_vars(Stopped)
  /\ WF_vars(ReadyAsked) /\ WF_vars(ReadyGate) /\ WF_vars(ReadyAnswered)
  /\ \A d \in Deps : /\ WF_vars(Connect(d) \/ ConnectFails(d)) /\ WF_vars(RunCheck(d))
                     /\ WF_vars(ProbeAsk(d)) /\ WF_vars(ProbeStore(d))
  /\ \A c \in Conns : WF_vars(Answer(c)) /\ WF_vars(phase = "draining" /\ Close(c))

FairSpec == Spec /\ Fairness

-----------------------------------------------------------------------------
(* Properties *)

\* Every variable has its type.
TypeOK ==
  /\ phase \in {"load", "boot", "serving", "signalled", "draining", "stopped", "failed"}
  /\ inputs \in Inputs /\ cfg \subseteq load_yaml(TasksDefaults, inputs.file, inputs.env)
  /\ gate \in BOOLEAN /\ checks \subseteq Deps
  /\ healthy \in [Deps -> BOOLEAN] /\ probe \in [Deps -> {"off", "tick", "ok", "err"}]
  /\ conn \in [Conns -> {"closed", "idle", "handling"}]
  /\ ask \in {"none", "gate", "checks"} /\ asked \subseteq Deps /\ all_ok \in BOOLEAN
  /\ routing \in BOOLEAN
  /\ up \in [Deps -> BOOLEAN] /\ flaps \in 0..MaxFlaps

\* Nobody is sent to a process that has not reached all of its dependencies
\* since it started: "failing fast at boot if any is unreachable", and the
\* gate opens only once the server listens.
RoutedOnlyAfterBoot ==
  routing \/ ask # "none" \/ (\E c \in Conns : conn[c] # "closed")
    => checks = Deps /\ phase \notin {"load", "boot", "failed"}

\* By the documented precedence: the value of a field.
Effective(f) == Winner(TasksDefaults, inputs.file, inputs.env, f)

\* The field that says where a dependency is.
UrlField(d) == IF d = "valkey" THEN "valkey_url" ELSE "kafka_brokers"

\* The settings are usable and point at what is there.
Right ==
  /\ Usable(TasksDefaults, inputs.file, inputs.env)
  /\ Effective("addr").v \in SocketAddrs
  /\ \A d \in Deps : Effective(UrlField(d)).v = Address[d]
  /\ Effective("otel_enabled").v => Effective("otel_endpoint").v \in Endpoints

\* "Env wins over the file; both win over these defaults" (tasks/config.rs:12): a
\* process that listens has for every field the value that wins, and a process
\* with wrong settings never listens, however often it is restarted.
ServesAsConfigured ==
  Listening => Right /\ cfg = {[f \in DOMAIN TasksDefaults |-> Effective(f)]}

\* tasks and consumer read f alike: an override of both must be a text that YAML
\* takes for itself (a quoted one loses its quotes in tasks and keeps them in
\* consumer), and a value from the file of tasks must be the consumer's default,
\* for the consumer reads no file.
ReadAlike(f) ==
  IF f \in DOMAIN inputs.env
    THEN Parsed(inputs.env[f]) = Str(inputs.env[f].text)
    ELSE inputs.file.state = "mapping" /\ f \in DOMAIN inputs.file.map
           => inputs.file.map[f] = ConsumerDefaults[f]

\* Two loaders, one meeting point: let a consumer get the overrides of a tasks
\* process, and accept them as tasks did.  It drains the topic, on the brokers,
\* that tasks publishes to, exactly if both read these settings alike.
ServicesMeet ==
  \A t \in cfg, c \in from_env(ConsumerDefaults, inputs.env) :
    \A f \in {"kafka_brokers", "kafka_topic"} :
      TasksKafka(t)[f] = ConsumerKafka(c)[f] <=> ReadAlike(f)

\* A dependency that stays away is noticed: the load balancer stops routing,
\* although the flag, the answer and its view are each a step behind.
OutageStopsRouting == \A d \in Deps : <>[](~up[d]) => <>[](~routing)

\* When its settings are right, every dependency stays reachable and no signal
\* comes, the process boots, restarts included, and the load balancer routes to
\* it for good.
RecoveryRoutes ==
  <>[](\A d \in Deps : up[d]) /\ []Right /\ [](phase \in {"load", "boot", "failed", "serving"})
    => <>[]routing

\* "serve until SIGINT/SIGTERM, then drain in-flight requests": after the
\* signal the drain comes to its end and the load balancer has gone away.
\* Every handler that has begun is taken to answer: the drain has no deadline, so
\* one that hangs would hold it for ever.
DrainEnds == phase = "signalled" ~> phase = "stopped" /\ ~routing
=============================================================================
