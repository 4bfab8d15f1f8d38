--------------------------- MODULE ServiceConfig ---------------------------
(***************************************************************************)
(* How the services get their settings: httpx::load_yaml (tasks: a YAML     *)
(* file overlaid with the environment) and envy's from_env (consumer), with *)
(* the fields, types and defaults of the Config structs and the projections *)
(* handed to the libraries.                                                 *)
(*                                                                          *)
(* A YAML value is its kind and its content.  An environment variable is    *)
(* its text and what the text means as YAML (valid is FALSE where it is no  *)
(* YAML at all).  The environment holds the prefixed variables, by          *)
(* lower-case name without the prefix.  A file is absent, broken (it cannot *)
(* be read or parsed), no mapping, or a mapping.                            *)
(***************************************************************************)
EXTENDS Integers

Str(v) == [kind |-> "str", v |-> v]
Uint(v) == [kind |-> "uint", v |-> v]
Bool(v) == [kind |-> "bool", v |-> v]
Float(v) == [kind |-> "float", v |-> v]

-----------------------------------------------------------------------------
(* The Config structs *)

HttpxFields == {"addr", "shutdown_timeout_secs", "log_level", "log_format"}
ValkeyFields == {"valkey_url", "valkey_probe_secs"}
OtelxFields == {"otel_enabled", "otel_service_name", "otel_endpoint", "otel_sampler_ratio"}

TasksDefaults ==
  [addr |-> Str("0.0.0.0:8082"), shutdown_timeout_secs |-> Uint(10),
   log_level |-> Str("info"), log_format |-> Str("json"),
   valkey_url |-> Str("redis://127.0.0.1:6379"), valkey_probe_secs |-> Uint(5),
   kafka_brokers |-> Str("localhost:9092"), kafka_topic |-> Str("tasks.events"),
   kafka_client_id |-> Str("tasks"), kafka_probe_secs |-> Uint(5),
   otel_enabled |-> Bool(FALSE), otel_service_name |-> Str("tasks"),
   otel_endpoint |-> Str("http://localhost:4317"), otel_sampler_ratio |-> Float("1.0")]

ConsumerDefaults ==
  [addr |-> Str("0.0.0.0:8083"), shutdown_timeout_secs |-> Uint(10),
   log_level |-> Str("info"), log_format |-> Str("json"),
   kafka_brokers |-> Str("localhost:9092"), kafka_topic |-> Str("tasks.events"),
   kafka_group |-> Str("tasks-consumer"), kafka_probe_secs |-> Uint(5),
   otel_enabled |-> Bool(FALSE), otel_service_name |-> Str("consumer"),
   otel_endpoint |-> Str("http://localhost:4317"), otel_sampler_ratio |-> Float("1.0")]

\* The kinds serde takes for a field: a String only a string, an f64 any number.
Takes(f) ==
  CASE f \in {"shutdown_timeout_secs", "valkey_probe_secs", "kafka_probe_secs"} -> {"uint"}
    [] f = "otel_enabled" -> {"bool"}
    [] f = "otel_sampler_ratio" -> {"uint", "float"}
    [] OTHER -> {"str"}

\* Projections: Config::httpx, valkey, otelx, and kafka of either service.
Project(cfg, fields) == [f \in fields |-> cfg[f]]
TasksKafka(cfg) ==
  [kafka_brokers |-> cfg.kafka_brokers, kafka_topic |-> cfg.kafka_topic,
   kafka_group |-> Str("tasks-producer"), kafka_client_id |-> cfg.kafka_client_id,
   kafka_probe_secs |-> cfg.kafka_probe_secs]

\* Mutant of ConsumerKafka: the group is subscribed to.
ConsumerKafkaByGroup(cfg) ==
  [kafka_brokers |-> cfg.kafka_brokers, kafka_topic |-> cfg.kafka_group,
   kafka_group |-> cfg.kafka_group, kafka_client_id |-> Str("consumer"),
   kafka_probe_secs |-> cfg.kafka_probe_secs]

ConsumerKafka(cfg) ==
  [kafka_brokers |-> cfg.kafka_brokers, kafka_topic |-> cfg.kafka_topic,
   kafka_group |-> cfg.kafka_group, kafka_client_id |-> Str("consumer"),
   kafka_probe_secs |-> cfg.kafka_probe_secs]

-----------------------------------------------------------------------------
(* Loading: the set of configs a loader can return, {} for an error *)

\* serde: a field that is there must have its type, one that is not has its
\* default, a key that is no field is ignored.
Deserialize(defaults, map) ==
  IF \E f \in DOMAIN defaults \cap DOMAIN map : map[f].kind \notin Takes(f)
    THEN {}
    ELSE {[f \in DOMAIN defaults |-> IF f \in DOMAIN map THEN map[f] ELSE defaults[f]]}

\* serde_yaml_ng::from_str, or the text itself where it is not YAML.
Parsed(text) == IF text.valid THEN text.yaml ELSE Str(text.text)

\* Mutant of Overlay: a key the file has is not touched.
OverlayKeepsFile(map, env) ==
  [k \in DOMAIN map \cup DOMAIN env |-> IF k \in DOMAIN map THEN map[k] ELSE Parsed(env[k])]

Overlay(map, env) ==
  [k \in DOMAIN map \cup DOMAIN env |-> IF k \in DOMAIN env THEN Parsed(env[k]) ELSE map[k]]

load_yaml(defaults, file, env) ==
  CASE file.state = "absent" -> Deserialize(defaults, Overlay([k \in {} |-> Str("")], env))
    [] file.state = "mapping" -> Deserialize(defaults, Overlay(file.map, env))
    [] OTHER -> {}

\* envy: every text is a string; for any other type it is parsed by the field.
from_env(defaults, env) ==
  Deserialize(defaults,
    [f \in DOMAIN env |-> IF Takes(f) = {"str"} THEN Str(env[f].text) ELSE Parsed(env[f])])

-----------------------------------------------------------------------------
(* What the documentation promises *)

\* "environment variable > YAML file value > serde default", field by field: the
\* value that wins, and only that one, must have the field's type.
Winner(defaults, file, env, f) ==
  IF f \in DOMAIN env THEN Parsed(env[f])
  ELSE IF file.state = "mapping" /\ f \in DOMAIN file.map THEN file.map[f]
  ELSE defaults[f]

Usable(defaults, file, env) ==
  /\ file.state \in {"absent", "mapping"}
  /\ \A f \in DOMAIN defaults : Winner(defaults, file, env, f).kind \in Takes(f)
=============================================================================
