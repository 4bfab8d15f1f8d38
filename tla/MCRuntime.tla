----------------------------- MODULE MCRuntime -----------------------------
(* tasks with right and wrong settings in the file, in the environment and in
   both. *)
EXTENDS ServiceRuntime

Text(text, yaml) == [text |-> text, valid |-> TRUE, yaml |-> yaml]
NoYaml(text) == [text |-> text, valid |-> FALSE]
NoFile == [state |-> "absent"]
File(map) == [state |-> "mapping", map |-> map]
NoEnv == [f \in {} |-> Text("", Str(""))]

InputsMC ==
  {[file |-> NoFile, env |-> NoEnv],
   \* the file's ill-typed addr is overlaid; TASKS_CONFIG is itself a TASKS_ variable
   [file |-> File([addr |-> Uint(80), valkey_probe_secs |-> Uint(0), kafka_topic |-> Str("t")]),
    env |-> [config |-> Text("c.yaml", Str("c.yaml")), addr |-> Text("0.0.0.0:80", Str("0.0.0.0:80"))]],
   [file |-> File([addr |-> Str("0.0.0.0:80")]), env |-> [addr |-> NoYaml("@nowhere")]],
   [file |-> File([addr |-> Str("0.0.0.0:80")]), env |-> [kafka_topic |-> Text("42", Uint(42))]],
   \* a plain topic and quoted brokers; plain brokers of elsewhere
   [file |-> NoFile, env |-> [kafka_topic |-> Text("jobs", Str("jobs")),
                              kafka_brokers |-> Text("'localhost:9092'", Str("localhost:9092"))]],
   [file |-> NoFile, env |-> [kafka_brokers |-> Text("elsewhere:9092", Str("elsewhere:9092"))]],
   [file |-> File([kafka_probe_secs |-> Str("often")]), env |-> NoEnv],
   [file |-> File([valkey_url |-> Str("redis://elsewhere")]), env |-> NoEnv],
   [file |-> NoFile, env |-> [otel_enabled |-> Text("true", Bool(TRUE)),
                              otel_endpoint |-> Text("not a uri", Str("not a uri"))]],
   [file |-> [state |-> "broken"], env |-> NoEnv],
   [file |-> [state |-> "no mapping"], env |-> [addr |-> Text("0.0.0.0:80", Str("0.0.0.0:80"))]]}

AddressMC == [valkey |-> "redis://127.0.0.1:6379", kafka |-> "localhost:9092"]
=============================================================================
