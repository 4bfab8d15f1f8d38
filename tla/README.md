# rust-basics in TLA+

A verification project for the `rust-basics` workspace: a resilient HTTP client,
a task service over Valkey and Kafka, a consumer worker, a rate-limited ping
service, a secrets cache, and the `httpx` scaffolding the services share. The models are
written from the Rust source; TLC checks them on small instances and TLAPS proves the
safety properties for every instance. `PROJECT.json` maps each definition to the lines it models.

## The system

| part | state | operations | what is hard about it |
| --- | --- | --- | --- |
| circuit breaker (`resilient-client/src/circuit_breaker.rs`) | five atomics: state, two window counters, window start, opening time | `allow_request`, `record_success`, `record_failure` | lock-free: every access is its own step, state and time are stored apart, counters are cleared in two stores, the wall clock can step back, and reads 0 before the epoch |
| drain of the client (`client.rs`) | flag, in-flight counter, `Notify`, registry of policies | `send`, `policy_for`, `finish_in_flight`, `shutdown` | check-then-act on the flag, lost wake-ups, dropped futures, weak memory, two first calls to one target |
| policy stack and retry (`client.rs`) | breaker, limiter, gauge, counters, attempt counter | `send`, `send_with_retry` | a refused or dropped probe must not wedge the breaker; retries must end; five exits, four of them with their own metrics |
| heartbeat (`heartbeat/src`) | a ticker, two counters | calls `send_with_retry` one at a time; cancelled with the server | its future is dropped at an await |
| task service (`tasks/src`) | `task:{id}` keys, the `tasks` set | `create`, `list`, `delete_one`, `get_one` | two keys, no transaction: interleaved handlers, failed commands, lost answers |
| valkey, kafka handles | a health flag with a background probe | one command per method; `publish`; `Consumer::run` | answers from a flag that is always a little old |
| consumer (`consumer/src`) | group offset, in-memory position | handle, then commit asynchronously | crashes, rebalances, late and lost commits, poison records |
| httpx server (`httpx/src`) | readiness gate, check registry, connections | boot, `/readyz`, signal, drain | the drain against a load balancer's view |
| configuration (`httpx/src/config.rs`, `*/src/config.rs`) | none | `load_yaml`, `from_env`, projections | three layers of values with types, two loaders that must agree on where the services meet |
| secrets cache (`secrets/src/cache.rs`) | one snapshot pointer | `get`, `insert`, `replace` | copy-on-write without compare |
| ratelimit (`ratelimit/src`) | a cell per key | `check`, `until_ready`, `retain_recent` | reclaiming cells without giving budget back; waiters that lose the race for a cell |
| ping (`ping/src`) | the limiter | `/ping`, `/version`, `/secure` behind one middleware | the order of layers, one address under several headers, one bucket for all clients without any, the comparison of tokens |
| otelx, problem, metrics, logging | see `PROJECT.json` | | otelx only as a step of the boot that can fail |

Interactions: heartbeat drives the client, the client drives breaker and limiter;
the service writes Valkey, then publishes to `tasks.events`; the consumer group
drains that topic; every process runs under `httpx` and is restarted by Docker on
failure (`docker/stack.yml`).

The correctness properties per part are the ones the modules state, each with a
comment; the hazards they answer to are listed at their lines in `PROJECT.json`.

## Modules

**CircuitBreaker** has one action per atomic access or clock read. `pc` says where
each thread is, `loc` holds its locals (the state it matched on, the outcome it
reports, the atomic and the clock value it loaded). `Abandon` is a call that was
admitted and never reported. The clock may be set back to `Earliest`: 1 for a clock that
stays after the epoch, 0 for one that `now_ms` may find before it. `MCBreaker` adds the
thread symmetry.
**BreakerSpec** is the breaker the documentation describes, with atomic operations.
**BreakerOneCaller** maps the one to the other for a single caller: an operation
takes effect where it reads what decides it (a clock read, mostly), and the mapping
undoes or anticipates the stores around that point.

**ClientDrain** has `send`, `policy_for`, `finish_in_flight` and `shutdown` step by step.
The target may be configured or not; a `PolicySet` is a number (0: none yet), and what it
decides the choice to admit or refuse. For the shutdown calls in `Delayed` the
`Release` store of the flag becomes visible late, as x86-64's store buffer allows; the
read-modify-write operations and the lock inside `Notify` are not delayed. Only the
calls in `Timed` have a deadline that can expire: what an untimed call does shows what
the protocol achieves without its safety net.

**OutboundClient** is one `send_with_retry` caller against one target, in the code's
order: shutdown flag, breaker, limiter, request, classification, counters, gauge, retry. A
counter is what the current call has added to it, `turnedAway` the sends it lost to a
shutdown, `unchecked` the beats minus the checks. Times are ages that stop at the duration they are compared with, so the state is finite without a clock
bound and the liveness properties are meaningful.

**TaskService** is a set of request handlers. Each Valkey command is one action and
can be executed and answered, executed with its answer lost, or not executed;
`Vanish` is a handler that is cut off, or a list whose command fails. History variables record what was answered
(`acked`, `gone`), what a delete has begun to remove (`attempted`), and what each
list owes or must not show (`owed`, `banned`).

**EventPipeline** is `Consumer::run` with the worker's handler, in a group on one
partition. Broker and librdkafka are external and modelled from their use.
The members in `Failing` have a handler that can return an error, those in
`Rerunners` call `run` again on the same `Consumer`; `Worker` does neither, but
`Consumer::run` is written for such callers too.

**TaskSystem** joins the two through the topic's log.

**ServiceConfig** has no state: the `Config` structs of tasks and consumer with their
defaults and types, the two loaders as operators that return a set of at most one
config, the projections, and the documented precedence as the reference (`Winner`,
`Usable`). A YAML value is a kind and a content, a variable is its text and what the
text means as YAML.

**ServiceRuntime** is the life of a process: load the settings and start tracing, connect
to each dependency or fail, bind and open the gate, probe in the background, answer
`/readyz`, and on a signal close the gate, stop accepting and wait for the connections.
The load balancer routes while the last `/readyz` answer was a 200; its connections
(`Request`, `Answer`, `Close`) are axum's and hyper's and external. `MCRuntime` lists the
settings a process may be given.

**KeyedLimiter** is `ratelimit::Limiter`. Governor's cells are external and modelled from
their use: a cell fills by an interval per admission, drains with time, holds a burst.
Levels are relative to now, and the history counts the admissions of the last 0, 1, 2, ...
ticks up to a second, so time has no bound.
**PingService** puts ping's options, routes, middleware and Bearer gate on top of it. Ping
calls `check` only; `OtherUsers` are the other callers the crate is written for. Each
client has its true `Address` besides its headers, so that `Budget` and `OwnBudget` speak
about addresses and not about the keys the code derives from the headers; the clients no
header names are one `Holder` together, as the doc of `rate_limit` has it.

**SecretCache** is the snapshot pointer: `insert` is a load and a store, `replace` one
store. Overlapping inserts do lose updates; the history variable `settled` holds what a
user can rely on all the same.

The proofs are in modules of their own: `CircuitBreakerProofs` (with the refinement),
`ClientDrainProofs`, `OutboundClientProofs`, `TaskServiceProofs` (with `TaskSystem`),
`EventPipelineProofs`, `ServiceRuntimeProofs` (with `ServiceConfig`), `PingServiceProofs`
(with `KeyedLimiter`) and `SecretCacheProofs`.
Definitions introduced by "Mutant of" are deliberately wrong versions of the
definition they precede; no specification uses them. Each property a run checks has one that
TLC must reject when it takes the definition's place.

## Runs that pass

| run | instance | shows |
| --- | --- | --- |
| `breaker` | 2 threads, window 2, timeout 1, clock 1..3 with steps back (not before the epoch), 3 requests | `NeverWedgedOpen`, `SkewBound`: enough for one thread to be overtaken in a rotation, a reset or an opening by a complete call of the other, and for the circuit to trip, half-open and close |
| `breaker_one_caller` | 1 thread, clock 0..6 with steps back, 5 requests | the code implements `BreakerSpec`: several rotations and two openings fit |
| `drain` | 2 senders, whose futures may be dropped twice; a target with or without a policy; 2 shutdown calls, one delayed and with a deadline, one with neither | exact counter; one policy; the undelayed call misses no wake-up and returns unless a send was dropped; the deadline bounds the other one whatever is lost; the client comes to rest. Two senders and one waiter are the smallest race, on the counter and on the registry; more of them are the theorems' business |
| `client` | 2 retries, burst 2, trip at 2 requests, 1 drop, a shutdown at any time | calls return; the circuit closes again when the upstream recovers; the gauge lags only as Open for HalfOpen; every send, retry and check is counted once, but for dropped ones and for sends turned away by a shutdown |
| `tasks` | 3 handlers, 2 ids | durability, no resurrection, complete and fresh lists, no phantom event: two writers race on one id while a list looks on |
| `pipeline` | 2 workers, one whose handler can fail, one that calls `run` again after a failed commit; 3 records, 2 faults | at-least-once, once while nothing fails, monotone commits, every record handled |
| `system` | 2 handlers, 1 id, up to 2 copies of its event, 1 worker, 2 faults | published events are consumed, through restarts and repeated publishes |
| `runtime` | 2 dependencies, 2 connections, 2 outages, recoveries or ports found taken, 11 combinations of file and environment | a process serves only with the settings the precedence gives, and never with wrong ones; tasks and consumer meet on one topic of the same brokers exactly where both read the overrides alike; outages stop the routing, recovery brings it back, the drain ends. The combinations hold one case each of: nothing, a file overlaid by the environment with a probe period of 0, text that is no YAML, a wrong type from either source, a wrong place, a failing exporter, a broken file, a file that is no mapping, a plain topic with quoted brokers, plain brokers elsewhere |
| `ping` | 5 clients of 4 addresses, a second of 2 ticks, limits of 2, 1, 0 and none, 3 keys; one waiting task; sweeps | an address gets its burst and its rate on all routes together, and is refused only for its own use; two clients of different addresses without headers share one bucket and pay for nobody else; the Bearer gate opens to the key alone, and to no key that a header cannot carry; waiters get through; sweeps give nothing back. Two clients of one address under different headers, and one whose headers disagree, are the smallest confusion of keys |
| `secrets` | 3 names, 2 secrets, 2 writers | overlapping inserts and replaces lose only what is being written: two writers overtake each other on two names while the third is settled |

No run turns deadlock checking off: the models say explicitly when a system rests
(`NoCallers`, `Stopped`, `Drained`, a load balancer that keeps asking).

## Where code and documentation disagree

Two of the disagreements are runs that TLC must find violated; `PROJECT.json` quotes
the lines.

* `breaker_diagram`: `record_success` stores Closed on a HalfOpen it loaded earlier; when
  another report has re-opened the circuit meanwhile, it goes from Open to Closed. The
  cause is the plain store, not the number of probes: the second report may come from a
  call admitted while the circuit was still Closed.
* `drain_late_send`: a request can go out after `shutdown` returned Ok.

The models follow the code, so they also contain these, for which there is no run:

* A half-open circuit admits every caller (`circuit_breaker.rs:89`), although "One probe
  request is allowed" (line 32): while the call that won the compare-exchange is out, a
  second one is sent.
* With a clock before the epoch `now_ms` is 0 (`circuit_breaker.rs:175`), which is also the
  mark of a circuit that was never opened: opened then, it stays Open for ever, one caller
  being enough, although "requests are rejected until `half_open_timeout` elapses" (line
  30). `NeverWedgedOpen` holds where the clock stays after the epoch (`Earliest = 1`).
* `Release`/`Acquire` does not order the flag store of `shutdown` before its counter loads
  (`client.rs:245`), so the wake-up that "Re-check after registering the waiter" is meant to
  save can be lost; the deadline then ends the wait. `NoLostWakeup` therefore speaks of the
  calls outside `Delayed`, `DeadlineBoundsShutdown` of the others.
* A create interrupted between its two commands leaves a task no list shows
  (`tasks/src/store.rs:34`), although "every id is kept in the `tasks` set" (line 2).
* `open_circuit` stores Open before its time; in between, the time of the previous
  opening may admit a probe at once (`circuit_breaker.rs:145`).
* A dropped `send` is counted for ever and `ShutdownError::Timeout` reports it as in
  flight (`client.rs:213`; the term `leaked` in `Accounting`).
* The breaker gauge is not written on the rate-limited and dropped paths
  (`client.rs:194`; the second case of `GaugeLag`).
* The doc of `send` puts the limiter before the breaker (`client.rs:172`), the code asks
  the breaker first; `error.rs:18` calls TLS and URL errors fatal, `classify` makes them
  transient.
* A `Consumer` whose handler failed and on which `run` is called again goes on behind
  the failed record, and the next commit covers it (`kafka/src/lib.rs:205`), although an
  `Err` "leaves the record uncommitted for redelivery" (line 187). The `pipeline` run
  therefore keeps `Failing` and `Rerunners` apart: `CommittedHandled` needs it. The worker
  of this repository exits instead.
* `shutdown_timeout` has no caller: the drain has no deadline (`httpx/src/server.rs:82`),
  and the listener closes before a load balancer can have seen the closed gate (line 170).
* `SecretCache::insert` publishes a copy without comparing (`secrets/src/cache.rs:48`): the
  store of an insert whose copy is out of date undoes a `replace`, or another insert, that
  came in between.
* ping never calls `retain_recent`, although it is to be called "periodically for unbounded
  key spaces" (`ratelimit/src/lib.rs:79`): the cells of its limiter, one per key of a request
  header, are never reclaimed.
* A send that finds the client shutting down returns a transient error without counting
  itself (`client.rs:178`); `send_with_retry` retries it and counts the retries
  (`turnedAway` in `CountersAgree`).
* The docs of ping name `/ping` and `/version` (`ping/src/lib.rs:5`), or only `/ping`
  (line 31), as guarded by the limiter; `/secure` is guarded too.
* A `PING_RATE_LIMIT_RPS` that does not parse turns the limit off without a word
  (`ping/src/main.rs:17`). An `X-Real-IP` is not trimmed, an `X-Forwarded-For` is
  (`ping/src/lib.rs:141`).
* `load_yaml` types a variable by its text, not by its field (`httpx/src/config.rs:41`):
  `TASKS_KAFKA_TOPIC=42` ends the boot of tasks, while the consumer takes it; quotes
  and blanks around a text are dropped by one loader and kept by the other, and only tasks
  reads a file. `ServicesMeet` says that these are the only cases in which the two part
  (`ReadAlike`).
* Probe periods are clamped to 1 s, heartbeat's interval is not (`heartbeat/src/worker.rs:88`):
  `HEARTBEAT_INTERVAL_MS=0` ends the process in a panic.

## Fairness

Weak fairness only, of steps the runtime takes by itself: a polled future that can
go on does (tokio), a request ends within its timeout (`client.rs:270`), a store
buffer drains, an existing deadline expires, the limiter refills, probes answer
(PING has a response timeout, `fetch_metadata` has `METADATA_TIMEOUT`), a process that
ended with an error is restarted (`restart: on-failure`), the coordinator finds an
owner for a partition without one, time passes and wakes the timers that are due.
Never assumed: that a client calls, a signal
comes, a fault happens, an upstream or a dependency recovers.

## Proofs

The theorems have the form `Spec => []Inv`, `Spec => [][A]_vars` or, for the refinement,
`Spec => BreakerSpec`, and hold for every value of the constants that the named assumptions
allow. The argument is always an inductive invariant, which TLC checked before it was
proved. A hypothesis that only some theorems need is a named predicate of the proof module
and an `ASSUME` of those theorems; there are five, explained below: `OneCaller`,
`AfterEpoch`, `NoRerunAfterErr`, `KeysNamed`, `HeadersTruthful`. The instances of the passing
runs satisfy those of the properties they check.

* **CircuitBreakerProofs.** `Typing`: `loc` and the clock are typed together, since
  `opened_at` and `window_start` are copies of clock reads. `NotWedged`: the
  invariant adds that a clock value held for `opened_at` is at least 1, that
  HalfOpen and a CAS about to reach it have a positive time behind them, and that
  the pair Open and time 0 has an author still in `open_circuit`. It needs `AfterEpoch`, a
  clock that never reads 0 (see the divergence above); the other theorems do not. `SkewBounded`: the
  difference between the counters is not bounded while a clear is half done, so the
  invariant counts, for each thread, what it may still contribute; a thread inside
  `rotate` or `reset` has cleared the failures before it can be counted again.
  `Refinement`: under `OneCaller`, heartbeat's case, every atomic access maps to a step of
  `BreakerSpec` or to a stutter. `AloneInv` says that what the caller has loaded is still
  stored, which is what fails with two callers (`breaker_diagram`). Proved for any
  thresholds, durations and clock.
* **OutboundClientProofs.** `CountersAgree` is inductive with the types and
  failures <= requests (`CountInv`): `Accounting` covers all five exits of `send`, the
  uncounted one included. `GaugeLag` is not: an answer that finds the circuit Open
  would write a gauge the invariant does not allow, so `GaugeInv` adds that no request is in
  flight while the circuit is Open, itself a theorem (`NoneWhileOpen`).
* **EventPipelineProofs.** `OrderInv` orders, for each member, its position, the commits in
  its queue and the group's offset, and lets only the commits of the current generation
  count: the owner is not behind the offset (`OwnerAhead`), other queues hold past generations
  (`GenerationsPast`), queued commits ascend from the offset (`InOrder`). `CommitNeverRewinds`
  follows for every caller of `Consumer::run`. `AtLeastOnce` needs `NoRerunAfterErr`, no
  consumer that both fails a record and goes on behind it, true of `Worker`; `HandledInv`
  says of every position and every queued commit that all before it is handled.
  `OnceWhileCalm`: while no fault has happened one member owns the partition, and nothing
  at or after its position has been handled (`Calm`).
* **ClientDrainProofs.** `Typing` and `Counting` go together: the counter cannot wrap
  because it equals the number of callers between the two updates plus the dropped
  ones. `WakeupsKept` needs to know that past an undelayed store the flag is in
  memory, that a waiter past its registration is registered, and that the promise of
  `NoLostWakeup` already holds between the re-check and the first poll (`WakeInv`). Other
  shutdown calls may be delayed: they only set the flag, and nobody clears it.
  `PolicyUnique` needs that a held policy was registered and that an entry, once made,
  stays: `policy_for` returns what `entry` found under its lock, not what `get` missed.
* **SecretCacheProofs.** `SettledStays` is not inductive, as a store publishes a copy made
  earlier: `CopyInv` adds that every copy in progress already agrees with what is settled
  and that the name it writes is open. `SettledKept` then holds for any number of writers.
* **TaskServiceProofs.** `StoreInv` ties each handler's position to the keys: a creating
  handler owns its id alone (`used`), what it has stored is there, a deleting handler
  past `DEL` leaves no JSON, and `known` ids are stored or attempted. Durability, no
  resurrection, dangling entries and events follow. `ListInv` adds what a list in
  progress has still to read, from which `ListComplete` and `ListFresh` follow.
  For `TaskSystem` the theorems of the parts are composed: a step of the handlers only
  appends to the log, which keeps the pipeline's invariants (`GroupStep`); a step of the
  consumers is one of `EventPipeline` and leaves the store alone. So `CommittedHandled` and
  `CommitNeverRewinds` hold of the whole, from the lemmas of `EventPipelineProofs` through an
  instance.
* **ServiceRuntimeProofs.** `Precedence`: for any well-typed defaults, any file and any
  environment, `load_yaml` returns exactly what the documented precedence gives.
  `NoEarlyRouting` needs that a process past its boot has registered all checks (`BootInv`).
  `ListensAsConfigured` relates settings loaded at one step to addresses used at later ones:
  `ServeInv` says that the loaded settings are the expected ones, that every registered check
  was reached at the address they name, and that a bound socket is theirs. `LoadersMeet`:
  whatever file and environment both accept, the two loaders agree on brokers and topic
  exactly where they read the setting alike (see the divergence above).
* **PingServiceProofs.** The level of a cell bounds the admissions of its address from both
  sides: interval times admissions of the last t ticks is at most level + t (`Filled`,
  giving `Budget`), and the level is at most that plus what can not have drained yet
  (`Caused`, giving `OwnBudget`); a sweep changes no level because only cells are above 0
  (`SweptEmpty`). Rates need not divide a second. `KeysNamed` says that the keys in use are
  in `Keys`. `HeadersTruthful` is about the proxy that writes the headers: the first hop of
  `X-Forwarded-For`, or `X-Real-IP` where there is none, is the client's address; a client
  may also have no header. From it `KeyNamesHolder` derives that `client_key` gives every
  holder one key and every key one holder. The code believes these headers whoever wrote
  them: what a client without such a proxy may claim is outside both theorems. `PingAssumption` excludes
  rates above one per tick (a nanosecond), at which an interval is 0. `GateOpensToKey`
  rests on `ConstantTimeEq`: or-ing the differing bits is equality, for strings of any length.

Every safety property the passing runs check is a theorem. The type invariants of the
breaker, the drain, the task store and the runtime are theorems only; the others are also
checked by TLC.

Only model-checked: liveness (`ShutdownWakes`, `ComesToRest`, `DeadlineBoundsShutdown`,
`CallReturns`, `Recovers`, `EveryRecordHandled`, `PublishedIsConsumed`, `OutageStopsRouting`,
`RecoveryRoutes`, `DrainEnds`, `UntilReadyEnds`), for which TLAPS offers no rule here, and
the two violations, which are counterexamples. `DrainEnds` takes handlers to answer: one that
hangs keeps the process draining, as the drain has no deadline. The effect of a probe period
of 0 that `OutageStopsRouting`'s mutant shows, a probe that dies alone, is that of builds in
which panics unwind; the release and dist profiles abort the process.

## Not modelled

* Payloads, titles, JSON and problem bodies, log and trace output, histograms, the HTTP
  metrics: nothing in the programs reads them back.
* `seal`, `open` and the key loaders of `secrets`: pure functions whose content is the
  AES-GCM crate; what is left, a length check and a split, has no interesting state.
* The `Config` structs of `resilient-client`, `heartbeat` and ping: defaults without
  precedence or projection of their own. Their values are CONSTANTS.
* The delay `full_jitter` draws: any delay from 0 up is allowed, which is more than the
  code does.
* TTLs (never set), the width of counters (a window never holds 2^32 requests), several
  partitions (they do not interact), several targets of one client (they share the
  drain's cells only), Valkey fail-over, and memory models weaker than x86-64's.

## Plan

1. Done: breaker, drain and registry, policy stack with its counters, task store, event
   pipeline, their composition, process life from its configuration, keyed limiter and
   ping, secrets cache; proofs of every safety property that is checked.
2. Next: simpler proofs where an invariant can be shared, and further safety
   properties that no run states yet, such as bounds on what a poison record skips.
