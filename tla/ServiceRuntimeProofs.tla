------------------------ MODULE ServiceRuntimeProofs ------------------------
(***************************************************************************)
(* Theorems about ServiceConfig for any file and any environment, and about *)
(* ServiceRuntime for any settings, connections, outages and restarts.      *)
(***************************************************************************)
EXTENDS ServiceRuntime, TLAPS

-----------------------------------------------------------------------------
(* Loading the settings *)

\* The defaults of a Config have the types of its fields.
WellTyped(defaults) == \A f \in DOMAIN defaults : defaults[f].kind \in Takes(f)

\* The defaults of tasks do.
LEMMA TasksDefaultsTyped == WellTyped(TasksDefaults)
<1> USE DEF TasksDefaults, Str, Uint, Bool, Float
<1>1. DOMAIN TasksDefaults =
        {"addr", "shutdown_timeout_secs", "log_level", "log_format", "valkey_url",
         "valkey_probe_secs", "kafka_brokers", "kafka_topic", "kafka_client_id",
         "kafka_probe_secs", "otel_enabled", "otel_service_name", "otel_endpoint",
         "otel_sampler_ratio"}
  OBVIOUS
<1> QED
  BY <1>1 DEF WellTyped, Takes

\* What load_yaml returns is what the documentation promises: every field has
\* the value that wins, environment over file over default, or nothing is
\* returned because a value that wins does not have the type of its field.
THEOREM Precedence ==
  ASSUME NEW defaults, WellTyped(defaults), NEW file, NEW environment
  PROVE  load_yaml(defaults, file, environment) =
           IF Usable(defaults, file, environment)
             THEN {[f \in DOMAIN defaults |-> Winner(defaults, file, environment, f)]} ELSE {}
<1> DEFINE map == IF file.state = "mapping" THEN file.map ELSE [k \in {} |-> Str("")]
           over == Overlay(map, environment)
           win(f) == Winner(defaults, file, environment, f)
<1>1. CASE file.state \notin {"absent", "mapping"}
  BY <1>1 DEF load_yaml, Usable
<1>2. CASE file.state \in {"absent", "mapping"}
  <2>1. load_yaml(defaults, file, environment) = Deserialize(defaults, over)
    BY <1>2 DEF load_yaml
  <2>2. DOMAIN over = DOMAIN map \cup DOMAIN environment
    BY DEF Overlay
  <2>3. \A f \in DOMAIN defaults :
          win(f) = IF f \in DOMAIN over THEN over[f] ELSE defaults[f]
    <3>1. CASE file.state = "mapping"
      BY <2>2, <3>1 DEF Winner, Overlay
    <3>2. CASE file.state = "absent"
      <4>1. DOMAIN map = {}
        BY <3>2
      <4> HIDE DEF map
      <4> QED
        BY <2>2, <3>2, <4>1 DEF Winner, Overlay
    <3> QED
      BY <1>2, <3>1, <3>2
  <2> HIDE DEF over, win
  <2>4. (\E f \in DOMAIN defaults \cap DOMAIN over : over[f].kind \notin Takes(f))
          <=> ~(\A f \in DOMAIN defaults : win(f).kind \in Takes(f))
    BY <2>3 DEF WellTyped
  <2>5. [f \in DOMAIN defaults |-> IF f \in DOMAIN over THEN over[f] ELSE defaults[f]]
          = [f \in DOMAIN defaults |-> win(f)]
    BY <2>3
  <2>6. Usable(defaults, file, environment) <=> \A f \in DOMAIN defaults : win(f).kind \in Takes(f)
    BY <1>2 DEF Usable, win
  <2>7. Deserialize(defaults, over) =
          IF Usable(defaults, file, environment) THEN {[f \in DOMAIN defaults |-> win(f)]} ELSE {}
    BY <2>4, <2>5, <2>6 DEF Deserialize
  <2> QED
    BY <2>1, <2>7 DEF win
<1> QED
  BY <1>1, <1>2

-----------------------------------------------------------------------------
(* Type correctness *)

\* TypeOK is preserved by every step.
LEMMA TypeStep == ASSUME TypeOK, [Next]_vars PROVE TypeOK'
<1> USE RuntimeAssumption DEF TypeOK, vars, server, probes, readyz, env, Booted
<1>1. CASE LoadConfig
  BY <1>1 DEF LoadConfig
<1>2. CASE Bind
  BY <1>2 DEF Bind
<1>3. CASE BindFails
  BY <1>3 DEF BindFails
<1>4. CASE Restart
  BY <1>4 DEF Restart
<1>5. CASE ReadyAsked
  BY <1>5 DEF ReadyAsked
<1>6. CASE ReadyGate
  BY <1>6 DEF ReadyGate
<1>7. CASE ReadyAnswered
  BY <1>7 DEF ReadyAnswered
<1>8. CASE Signal
  BY <1>8 DEF Signal
<1>9. CASE StopAccepting
  BY <1>9 DEF StopAccepting
<1>10. CASE Stopped
  BY <1>10 DEF Stopped
<1>11. ASSUME NEW d \in Deps,
              Connect(d) \/ ConnectFails(d) \/ ProbeAsk(d) \/ ProbeStore(d) \/ Flap(d) \/ RunCheck(d)
       PROVE  TypeOK'
  <2>1. CASE Connect(d)
    BY <2>1 DEF Connect
  <2>2. CASE ConnectFails(d)
    BY <2>2 DEF ConnectFails
  <2>3. CASE ProbeAsk(d)
    BY <2>3 DEF ProbeAsk
  <2>4. CASE ProbeStore(d)
    BY <2>4 DEF ProbeStore
  <2>5. CASE Flap(d)
    BY <2>5 DEF Flap
  <2>6. CASE RunCheck(d)
    BY <2>6 DEF RunCheck, readiness
  <2> QED
    BY <1>11, <2>1, <2>2, <2>3, <2>4, <2>5, <2>6
<1>12. ASSUME NEW c \in Conns, Request(c) \/ Answer(c) \/ Close(c) PROVE TypeOK'
  <2>1. CASE Request(c)
    BY <2>1 DEF Request
  <2>2. CASE Answer(c)
    BY <2>2 DEF Answer
  <2>3. CASE Close(c)
    BY <2>3 DEF Close
  <2> QED
    BY <1>12, <2>1, <2>2, <2>3
<1>13. CASE UNCHANGED vars
  BY <1>13
<1> QED
  BY <1>1, <1>2, <1>3, <1>4, <1>5, <1>6, <1>7, <1>8, <1>9, <1>10, <1>11, <1>12, <1>13
  DEF Next, ready

\* A process starts with variables of their types.
LEMMA InitType == ASSUME Init PROVE TypeOK
<1>1. /\ phase = "load" /\ cfg = {} /\ gate = FALSE /\ checks = {}
      /\ healthy = [d \in Deps |-> FALSE] /\ probe = [d \in Deps |-> "off"]
  BY DEF Init, Booted
<1>2. inputs \in Inputs /\ up \in [Deps -> BOOLEAN] /\ flaps \in 0..MaxFlaps
  BY RuntimeAssumption DEF Init
<1>3. /\ conn \in [Conns -> {"closed", "idle", "handling"}]
      /\ ask \in {"none", "gate", "checks"} /\ asked \subseteq Deps
      /\ all_ok \in BOOLEAN /\ routing \in BOOLEAN
  BY DEF Init
<1>4. healthy \in [Deps -> BOOLEAN] /\ probe \in [Deps -> {"off", "tick", "ok", "err"}]
  BY <1>1
<1> QED
  BY <1>1, <1>2, <1>3, <1>4 DEF TypeOK

\* The variables of the process keep their types.
THEOREM Typing == Spec => []TypeOK
<1>1. Init => TypeOK
  BY InitType
<1>2. TypeOK /\ [Next]_vars => TypeOK'
  BY TypeStep
<1> QED
  BY <1>1, <1>2, PTL DEF Spec

-----------------------------------------------------------------------------
(* Boot *)

Starting == {"load", "boot", "failed"}

\* What RoutedOnlyAfterBoot needs to be inductive: the server starts only when
\* every dependency is registered, and no dependency is ever unregistered.
AllRegistered == phase \notin Starting => checks = Deps

BootInv == TypeOK /\ AllRegistered /\ RoutedOnlyAfterBoot

\* BootInv is preserved by every step.
LEMMA BootStep ==
  ASSUME BootInv, [Next]_vars PROVE (AllRegistered /\ RoutedOnlyAfterBoot)'
<1> USE DEF BootInv, TypeOK, AllRegistered, RoutedOnlyAfterBoot, Starting, vars, server, probes,
            readyz, env, Booted
<1>1. CASE LoadConfig
  BY <1>1 DEF LoadConfig
<1>2. CASE Bind
  BY <1>2 DEF Bind
<1>3. CASE BindFails
  BY <1>3 DEF BindFails
<1>4. CASE Restart
  BY <1>4 DEF Restart
<1>5. CASE ReadyAsked
  BY <1>5 DEF ReadyAsked, Listening
<1>6. CASE ReadyGate
  BY <1>6 DEF ReadyGate
<1>7. CASE ReadyAnswered
  BY <1>7 DEF ReadyAnswered
<1>8. CASE Signal
  BY <1>8 DEF Signal
<1>9. CASE StopAccepting
  BY <1>9 DEF StopAccepting
<1>10. CASE Stopped
  BY <1>10 DEF Stopped
<1>11. ASSUME NEW d \in Deps,
              Connect(d) \/ ConnectFails(d) \/ ProbeAsk(d) \/ ProbeStore(d) \/ Flap(d) \/ RunCheck(d)
       PROVE  (AllRegistered /\ RoutedOnlyAfterBoot)'
  <2>1. CASE Connect(d)
    BY <2>1 DEF Connect
  <2>2. CASE ConnectFails(d)
    BY <2>2 DEF ConnectFails
  <2>3. CASE ProbeAsk(d)
    BY <2>3 DEF ProbeAsk
  <2>4. CASE ProbeStore(d)
    BY <2>4 DEF ProbeStore
  <2>5. CASE Flap(d)
    BY <2>5 DEF Flap
  <2>6. CASE RunCheck(d)
    BY <2>6 DEF RunCheck, readiness
  <2> QED
    BY <1>11, <2>1, <2>2, <2>3, <2>4, <2>5, <2>6
<1>12. ASSUME NEW c \in Conns, Request(c) \/ Answer(c) \/ Close(c) PROVE (AllRegistered /\ RoutedOnlyAfterBoot)'
  <2>1. CASE Request(c)
    BY <2>1 DEF Request, Listening
  <2>2. CASE Answer(c)
    BY <2>2 DEF Answer
  <2>3. CASE Close(c)
    BY <2>3 DEF Close
  <2> QED
    BY <1>12, <2>1, <2>2, <2>3
<1>13. CASE UNCHANGED vars
  BY <1>13
<1> QED
  BY <1>1, <1>2, <1>3, <1>4, <1>5, <1>6, <1>7, <1>8, <1>9, <1>10, <1>11, <1>12, <1>13
  DEF Next, ready

\* BootInv is an invariant of the process.
LEMMA Booting == Spec => []BootInv
<1>1. Init => BootInv
  BY InitType DEF Init, BootInv, AllRegistered, RoutedOnlyAfterBoot, Starting, Booted
<1>2. BootInv /\ [Next]_vars => BootInv'
  BY TypeStep, BootStep DEF BootInv
<1> QED
  BY <1>1, <1>2, PTL DEF Spec

\* Nobody is sent to a process that has not reached all of its dependencies
\* since it was started, however often it fails and is restarted.
THEOREM NoEarlyRouting == Spec => []RoutedOnlyAfterBoot
<1>1. BootInv => RoutedOnlyAfterBoot
  BY DEF BootInv
<1> QED
  BY <1>1, Booting, PTL

-----------------------------------------------------------------------------
(* A process that listens is the one that was configured *)

\* What load_yaml has to return, by the documented precedence.
Expected == [f \in DOMAIN TasksDefaults |-> Effective(f)]

Exports == Effective("otel_enabled").v => Effective("otel_endpoint").v \in Endpoints

\* How far the settings have been put to the test: all of them once they are
\* loaded, the address of a dependency when it is registered, and the listen
\* address when the server starts.
LoadedInv == phase \notin {"load", "failed"} =>
  Usable(TasksDefaults, inputs.file, inputs.env) /\ Exports /\ cfg = {Expected}
ReachedInv == \A d \in checks : Effective(UrlField(d)).v = Address[d]
BoundInv == phase \notin Starting => Effective("addr").v \in SocketAddrs

ServeInv == LoadedInv /\ ReachedInv /\ BoundInv

\* LoadConfig goes on only with the settings that win, and only with an
\* exporter that can be built.
LEMMA LoadedRight ==
  ASSUME LoadConfig, phase' = "boot"
  PROVE  Usable(TasksDefaults, inputs.file, inputs.env) /\ Exports /\ cfg' = {Expected}
<1> DEFINE loaded == load_yaml(TasksDefaults, inputs.file, inputs.env)
<1>1. cfg' = loaded /\ \E c \in loaded : init(Project(c, OtelxFields))
  BY DEF LoadConfig
<1>2. loaded = IF Usable(TasksDefaults, inputs.file, inputs.env) THEN {Expected} ELSE {}
  BY TasksDefaultsTyped, Precedence DEF Expected, Effective
<1> HIDE DEF loaded
<1>3. Usable(TasksDefaults, inputs.file, inputs.env) /\ loaded = {Expected}
  BY <1>1, <1>2
<1>4. init(Project(Expected, OtelxFields))
  BY <1>1, <1>3
<1>5. \A f \in {"otel_enabled", "otel_endpoint"} : Expected[f] = Effective(f)
  BY DEF Expected, TasksDefaults
<1>6. /\ Project(Expected, OtelxFields).otel_enabled = Effective("otel_enabled")
      /\ Project(Expected, OtelxFields).otel_endpoint = Effective("otel_endpoint")
  BY <1>5 DEF Project, OtelxFields
<1>7. Bool(FALSE).v = FALSE
  BY DEF Bool
<1>8. Effective("otel_enabled") = Bool(FALSE) \/ Effective("otel_endpoint").v \in Endpoints
  BY <1>4, <1>6 DEF init
<1>9. Exports
  BY <1>7, <1>8 DEF Exports
<1> QED
  BY <1>1, <1>3, <1>9

\* Once loaded, the fields the process uses are the ones that win.
LEMMA UsesExpected ==
  ASSUME cfg = {Expected}
  PROVE  /\ \A d \in Deps : Url(d) = Effective(UrlField(d)).v
         /\ Project(Cfg, HttpxFields).addr = Effective("addr")
<1>1. Cfg = Expected
  BY DEF Cfg
<1>2. \A f \in {"addr", "valkey_url", "kafka_brokers"} : Expected[f] = Effective(f)
  BY DEF Expected, TasksDefaults
<1>3. Project(Expected, HttpxFields).addr = Effective("addr")
  BY <1>2 DEF Project, HttpxFields
<1>4. Project(Expected, ValkeyFields).valkey_url = Effective("valkey_url")
  BY <1>2 DEF Project, ValkeyFields
<1>5. TasksKafka(Expected).kafka_brokers = Effective("kafka_brokers")
  BY <1>2 DEF TasksKafka
<1> QED
  BY <1>1, <1>3, <1>4, <1>5, RuntimeAssumption DEF Url, UrlField

\* ServeInv is preserved by every step.
LEMMA ServeStep == ASSUME TypeOK, ServeInv, [Next]_vars PROVE ServeInv'
<1> USE DEF ServeInv, LoadedInv, ReachedInv, BoundInv, Starting, vars, server, probes, readyz, env
<1>1. CASE LoadConfig
  <2>1. UNCHANGED <<inputs, checks>> /\ phase' \in {"boot", "failed"}
    BY <1>1 DEF LoadConfig
  <2> QED
    BY <1>1, <2>1, LoadedRight DEF Effective, Expected, Exports
<1>2. CASE Bind
  <2>1. cfg = {Expected} /\ Project(Cfg, HttpxFields).addr.v \in SocketAddrs
    BY <1>2 DEF Bind
  <2>2. UNCHANGED <<inputs, checks, cfg>> /\ phase = "boot" /\ phase' = "serving"
    BY <1>2 DEF Bind
  <2> QED
    BY <2>1, <2>2, UsesExpected DEF Effective, Expected, Exports
<1>3. ASSUME NEW d \in Deps, Connect(d) PROVE ServeInv'
  <2>1. cfg = {Expected} /\ Url(d) = Address[d]
    BY <1>3 DEF Connect
  <2>2. UNCHANGED <<inputs, phase, cfg>> /\ checks' = checks \cup {d}
    BY <1>3 DEF Connect
  <2>3. Effective(UrlField(d)).v = Address[d]
    BY <2>1, UsesExpected
  <2> QED
    BY <2>2, <2>3 DEF Effective, Expected, Exports
<1>4. CASE Restart
  BY <1>4 DEF Restart, Booted
<1>5. CASE UNCHANGED <<inputs, cfg, checks>> /\ (phase' = "failed" \/ UNCHANGED phase)
  BY <1>5 DEF Effective, Expected, Exports
<1>6. CASE /\ UNCHANGED <<inputs, cfg, checks>> /\ phase \notin Starting
           /\ phase' \notin Starting
  BY <1>6 DEF Effective, Expected, Exports
<1>7. CASE BindFails \/ Signal \/ StopAccepting \/ Stopped \/ ready
  BY <1>5, <1>6, <1>7 DEF BindFails, Signal, StopAccepting, Stopped, ready, ReadyAsked, ReadyGate,
       RunCheck, ReadyAnswered
<1>8. ASSUME NEW d \in Deps, ConnectFails(d) \/ ProbeAsk(d) \/ ProbeStore(d) \/ Flap(d)
      PROVE  ServeInv'
  BY <1>5, <1>8 DEF ConnectFails, ProbeAsk, ProbeStore, Flap
<1>9. ASSUME NEW c \in Conns, Request(c) \/ Answer(c) \/ Close(c) PROVE ServeInv'
  BY <1>5, <1>9 DEF Request, Answer, Close
<1> QED
  BY <1>1, <1>2, <1>3, <1>4, <1>5, <1>7, <1>8, <1>9 DEF Next

\* A process that listens has for every field the value that wins by the
\* documented precedence, and one with wrong settings never listens, for every
\* file, every environment and any number of restarts.
THEOREM ListensAsConfigured == Spec => []ServesAsConfigured
<1>1. Init => ServeInv
  BY DEF Init, ServeInv, LoadedInv, ReachedInv, BoundInv, Starting, Booted
<1>2. TypeOK /\ ServeInv /\ [Next]_vars => ServeInv'
  BY ServeStep
<1>3. BootInv /\ ServeInv => ServesAsConfigured
  BY DEF BootInv, AllRegistered, Starting, ServeInv, LoadedInv, ReachedInv, BoundInv,
         ServesAsConfigured, Listening, Right, Expected, Exports
<1> QED
  BY <1>1, <1>2, <1>3, Typing, Booting, PTL DEF Spec

-----------------------------------------------------------------------------
(* tasks and consumer *)

\* What either service makes of a setting they share: tasks the value that wins,
\* consumer the text of the override.
LEMMA SharedValue ==
  ASSUME NEW t \in load_yaml(TasksDefaults, inputs.file, inputs.env),
         NEW c \in from_env(ConsumerDefaults, inputs.env),
         NEW f \in {"kafka_brokers", "kafka_topic"}
  PROVE  t[f] = c[f] <=> ReadAlike(f)
<1> DEFINE env_ == inputs.env
           map == [g \in DOMAIN env_ |->
                     IF Takes(g) = {"str"} THEN Str(env_[g].text) ELSE Parsed(env_[g])]
<1>0. Takes(f) = {"str"}
  BY DEF Takes
<1>1. /\ f \in DOMAIN TasksDefaults /\ f \in DOMAIN ConsumerDefaults
      /\ TasksDefaults[f] = ConsumerDefaults[f]
  BY DEF TasksDefaults, ConsumerDefaults
<1>2. t[f] = Winner(TasksDefaults, inputs.file, env_, f)
  BY <1>1, TasksDefaultsTyped, Precedence
<1>3. c[f] = IF f \in DOMAIN env_ THEN Str(env_[f].text) ELSE ConsumerDefaults[f]
  <2>1. c \in Deserialize(ConsumerDefaults, map)
    BY DEF from_env
  <2> HIDE DEF map
  <2>2. c = [g \in DOMAIN ConsumerDefaults |->
               IF g \in DOMAIN map THEN map[g] ELSE ConsumerDefaults[g]]
    BY <2>1 DEF Deserialize
  <2>3. c[f] = IF f \in DOMAIN map THEN map[f] ELSE ConsumerDefaults[f]
    BY <1>1, <2>2
  <2>4. DOMAIN map = DOMAIN env_ /\ (f \in DOMAIN env_ => map[f] = Str(env_[f].text))
    BY <1>0 DEF map
  <2> QED
    BY <2>3, <2>4
<1> HIDE DEF map
<1>4. CASE f \in DOMAIN env_
  BY <1>2, <1>3, <1>4 DEF Winner, ReadAlike
<1>5. CASE f \notin DOMAIN env_
  BY <1>1, <1>2, <1>3, <1>5 DEF Winner, ReadAlike
<1> QED
  BY <1>4, <1>5

\* A consumer that accepts the overrides of a tasks process meets it on a topic
\* and on brokers exactly if both read these settings alike, for every file and
\* every environment.
THEOREM LoadersMeet == Spec => []ServicesMeet
<1>1. TypeOK => ServicesMeet
  <2> SUFFICES ASSUME TypeOK, NEW t \in cfg,
                      NEW c \in from_env(ConsumerDefaults, inputs.env),
                      NEW f \in {"kafka_brokers", "kafka_topic"}
               PROVE  TasksKafka(t)[f] = ConsumerKafka(c)[f] <=> ReadAlike(f)
    BY DEF ServicesMeet
  <2>1. t[f] = c[f] <=> ReadAlike(f)
    BY SharedValue DEF TypeOK
  <2>2. TasksKafka(t)[f] = t[f] /\ ConsumerKafka(c)[f] = c[f]
    BY DEF TasksKafka, ConsumerKafka
  <2> QED
    BY <2>1, <2>2
<1> QED
  BY <1>1, Typing, PTL
=============================================================================
