# Uptime checker: a TLA+ model

This directory holds a TLA+ model of the uptime checker (`src/src/`), the TLC
configurations that check it on small instances, and TLAPS proofs of its main
results. `PROJECT.json` maps every definition to the source lines it stands for,
lists the runs, and lists the hazards in the code with the properties that watch
them. Line numbers below are in `src/src/`.

- Model-check: `tlc -workers 2 -config X.cfg M`; the modules and configs are
  paired in the tables below.
- Prove: `tlapm M.tla` for each of `ConfigStoreProofs`, `CheckExecutorProofs`,
  `SchedulerProofs`, `VectorProducerProofs`, `ConfigProviderProofs`, `LifecycleProofs`,
  `EndpointProofs` and `FleetProofs`.

## 1. The system

A checker process owns some partitions of the check configurations in Redis. For
each partition a scheduler wakes up every second, finds the checks that are due
in its config store and queues them at one executor. The executor runs them,
retries failures, and hands the results to a producer (Kafka, or Vector over
HTTP). The scheduler saves in Redis the last tick all of whose checks are done,
and a restarted process resumes after it.

| component | state | operations | what makes it correct |
|---|---|---|---|
| check schedule (`types/check_config.rs`) | none | `slots`, `should_run`, `Tick::from_time` | each config once per interval, each region one turn per round |
| config store (`config_store.rs`) | configs by id, 3600 tick buckets, `last_update` | `add_config`, `remove_config`, `get_configs` | both indexes agree after any sequence of changes |
| config provider (`redis_config_provider.rs`, `redis.rs`) | progress through partitions, what it consumed | initial load, poll of updates, apply | the stores follow Redis; no change is lost |
| config waiter (`config_waiter.rs`) | a timer | `wait_for_partition_boot` | a scheduler starts, and not before its configs are there |
| scheduler (`scheduler.rs`) | next tick, ticks in flight, last completed tick; the watermark in Redis | tick loop, in-order tick processor, save | no tick below the watermark lacks a result; progress resumes after a crash |
| check executor (`check_executor.rs`) | queue, running checks, two counters, oneshots | queue, run, retry, record, cancel | one final result per check; the oneshot tells the truth; it stops |
| HTTP checker (`checker/reqwest_checker.rs`) | one check in progress | request, bounded read, verdict, capture; the robots.txt check | within the timeout; the result is about the response received |
| check results (`types/result.rs`) | none | the parts of a request as timings, their printed form | parts lie within the request, no time is billed twice |
| assertions (`assertions/`) | operation budget, gas; the cache of compiled assertions | compile, evaluate, get or compile | bounded work, the verdict the expression means, errors that point at their cause; each check judged by its own assertion |
| Vector producer (`producer/vector_producer.rs`) | channel, chunk, batch in flight, pending gauge | send, chunk, post, retry, flush | in order, nothing lost, nothing twice in the pipeline |
| Kafka producer (`producer/kafka_producer.rs`) | none of its own | produce | delegated to librdkafka |
| manager and life cycle (`manager.rs`, `app.rs`) | services by partition, tokens, join handles | register, unregister, stop | an ordered stop that always ends |
| endpoint (`endpoint/`) | its task, the checker it shares with the executor | run or validate one check for a caller, stop | answers everyone; a request cannot end the process |
| settings (`app/config.rs`) and partition ownership (`redis_config_provider.rs`) | the settings of a process | merge defaults, file and environment; own every n-th partition | after a deploy each partition has exactly one owner |
| logging, metrics | none that is read back | | |

**Interactions.** The scheduler and the executor share an mpsc channel and one
oneshot per check. The executor and the Vector producer share an mpsc channel.
The monitor task of the provider writes the config stores that the schedulers
read, under an `RwLock`. The endpoint and the executor share the checker and its
assertion cache, which is behind one `RwLock`. All tasks share one cancellation token, and each
partition has one more. Redis is shared by every process: configs, updates and
the watermark.

**What is hard here.** Two processes that serve one partition during a deploy;
processes that consume updates of one partition while the fleet is scaled; a
crash at any point between a check and the save of its tick; a `SET` that timed
out and is applied later; checks that finish out of order; the order in which
tasks see the same token; updates that are deleted from Redis when they are
read, some of which do not parse; panics, which abort the whole process in the release profile
(`Cargo.toml:77-81`).

## 2. The modules

| module | models | state and actions |
|---|---|---|
| `CheckSchedule` | `check_config.rs`, `Tick` | operators only: `Slots`, `ShouldRun`, `TickIndex` |
| `ConfigStore` | `config_store.rs` | both indexes; one action per method, as each runs under the lock |
| `ConfigProvider` | the Redis hashes, the external writer, load and poll | one action per Redis command and per `await`-free stretch between commands |
| `PartitionBoot` | the waiters beside the sequential initial load, in real time | connection, request and answer of Redis, timer ticks, updates, stops |
| `ExecutorPromise` | what the scheduler relies on: the abstract executor | accept, publish, settle, drop, close |
| `CheckExecutor` | the executor itself, in detail | counter update and send as separate steps, futures with their phases, cancellation, panics |
| `Scheduler` | all processes that serve a partition, over `ExecutorPromise`, with Redis | boot, tick loop, processor, each outcome of a `SET`, crash, stop, overlap |
| `VectorProducer` | the producer and its worker | send, count, chunk, post with each answer, backoff, end |
| `Partitions` | the constants that `PartitionBoot` and `Manager` share | none |
| `Manager` | the tasks of a process | monitor, provider, services stream, main `select`, `stop()` |
| `RequestTimings` | the timings of a result | operators only: `RequestInfo`, `ErroredRequestInfo`, `Debug` |
| `HttpCheck` | `check_url` and `check_robots` | request, chunks, verdict, second read, result; the rules of a robots.txt |
| `Assertions` | `compiled.rs`: compile, eval, failure data | compile one assertion, judge one response, extract the failure data |
| `AssertionCache` | `cache.rs` by concurrent tasks | look up, compile, insert, each lock taken and released as a step |
| `Endpoint` | `endpoint/` and the checks beside it | requests, scheduled checks, the path of `do_check` through the cache, graceful shutdown |
| `Fleet` | settings, `determine_owned_partitions`, the processes of a deployment | changes, deploys, starts and stops, load, consume, apply, and the errors of the last two |

`Scheduler` EXTENDS `ExecutorPromise`; `CheckExecutor` INSTANCEs it with a
refinement mapping (`ImplementsPromise`), so the scheduler's results rest on
what the detailed executor was shown to do. `ConfigStore` EXTENDS
`CheckSchedule`, `HttpCheck` EXTENDS `RequestTimings`, `Endpoint` EXTENDS
`AssertionCache`, `PartitionBoot` and `Manager` EXTEND `Partitions`. What two modules
that are proved about together would both call `Init`, `Next` or `Spec` has a prefix in
one of them (`Boot` in `PartitionBoot`, `Check` in `HttpCheck`). The `MC...` modules add only definitions for TLC; the
`...Proofs` modules hold the theorems.

### Abstractions

- **Schedule.** A subscription matters only through its two UUIDv5 values, the
  constants `SlotSeed` and `RegionSeed`. `MaxInterval` is 3600 s in the code.
- **Scheduler.** `Due` gives the configs of each tick. It is a constant: it is the
  snapshot each tick reads, and how a store comes to hold it is the subject of
  `ConfigStore` and `ConfigProvider`. The ticks of a process are consecutive and
  its channel is FIFO, so channel and batch are intervals of ticks. The limit of
  1000 of `recv_many` is not reached. A timed-out `SET` stays in `delayed` and may
  be applied at any later time, even after `SET`s of the same process, which
  over-approximates one connection and is exact for several. `base` is a history
  variable: a process that finds no watermark starts at the present and gives up
  what was before. Time ends at `MaxTick`. The branch for a stored value that is not a
  timestamp cannot be reached from the values the code writes.
- **Executor.** Check kinds other than the URL check are never queued
  (`scheduler.rs:127-132` is commented out). Each of the three paths that ends in
  a panic is an action; `build` chooses between the release profile and an
  unwinding build, and between spawned checks and checks that run inside the
  loop's task.
- **Vector producer.** A `u64` product is computed on its set of bits, so the wrap
  is that of the code. `num_of_retries` stops counting at `MaxRetries`, and
  `pending_items` is a counter modulo `CounterRange`. `endpoint_ok` says whether a
  request to the configured endpoint can be built, which is the same for every batch.
- **Manager.** Only the release profile: a panic ends the process. The executor,
  the producer's worker and the schedulers are tasks that run and end; what they
  do is in their modules.
- **Config provider.** A config is the number of the write that made it. The writer
  is outside the repository; it is modelled from the tests' `send_update` and
  `send_delete`, which change the config hash first and the update hash second. An update transaction (read
  and delete) is one step, as in Redis. `Invalid` versions do not parse,
  and any update may be written as one that does not. `dropped` is an auxiliary
  variable: the changes whose update was taken from Redis for nothing, by a command that
  failed or because it did not parse, until another update of theirs is consumed.
- **Boot.** A quarter of a second is the unit; `BootIdle` and `BootMaxIdle` have their
  real values of 0.5 and 10 s. Instants are kept as ages that stop growing at the
  limit they are compared with, so time goes on for ever and updates are not
  counted. `MaxLatency` bounds each wait for Redis, the one for the connection included.
  A read that fails is a panic, the end of the process, and has no counterpart.
- **HTTP check.** A body is its length, an assertion's outcome is open, and the
  errors of the client are the sets of classes its error chain can contain. The
  two bounded reads of a URL check share the check's deadline, and a robots.txt
  has its own. A robots.txt is the place where the rule about the URL ends and
  whether it bars it; a rule that is cut short may bar more or be dropped.
- **Timings.** A hop is when it started and which instants the client noted: the notes
  are taken one after the other, each at any time from the last one on; `Micro` clock units are a microsecond, so
  that a part may begin and end within one. `Width` stands for the range of the
  unsigned numbers in which the printed offsets are computed.
- **Assertions.** A text is its rank in the order of texts and the number it parses to,
  or `None`. A pattern is the set of texts it matches; a JSONPath query is whether
  it selects, fails and what it costs. A body is the sequence of values the
  query finds, or `None` when it is not JSON: empty, unreadable or cut off by the
  bounded read. What `relay_pattern` and `jsonpath_rust` accept, match and
  charge is external. `Value::I64` is never built by the code and has no counterpart.
- **Assertion cache.** A cached assertion is represented by its key, so a check
  judged by another's assertion can be told. Entries leave only when they are
  replaced, as in the code.
- **Endpoint.** A caller is a connection on which requests follow each other, or
  scheduled checks run. The outcome of the request is open; only the status and what
  the retry logic makes of it are kept. `validate_check` compiles with
  `state.max_assertion_ops` and the checks with the limit of the checker: `endpoint/mod.rs:35`
  and `manager.rs:174` take both from the one setting, so they are one constant.
- **Fleet.** Of a partition's configs one is followed, as the number of its last change; a
  change and its update are one step, and so is the load of a partition: `ConfigProvider`
  has them in parts. Only the settings that ownership depends on are modelled.
  `shared` is an auxiliary variable: the partitions of a process that another
  could consume while both ran. So is `lost`: the partitions whose last update a
  process took from Redis and could not apply.

## 3. The runs

Deadlock is checked except in `assertions`, where a behaviour is one assertion judged
once, and in `endpoint`, where a server that has ended serves no one. Settings and
builds that change the control flow (`build` in `CheckExecutor`, `retry_forever`
and `endpoint_ok` in `VectorProducer`, `read_only` in `Manager`, the configuration of a check in
`HttpCheck`) are variables that keep their initial value, so one run covers all
of them.

| run | module, config | shows |
|---|---|---|
| `config_store` | `MCConfigStore` | after any sequence of updates the indexes agree, every window of an interval runs a config once, every round gives each region its turn |
| `executor` | `MCCheckExecutor` | counters never wrap, one result per check, the oneshot tells the truth, nothing is lost before a stop, a cancelled loop returns; the executor refines `ExecutorPromise`, with liveness, in every build |
| `scheduler_faults` | `MCScheduler` | two processes that may overlap, crashes, lost keys, late `SET`s, dropped connections, fatal errors: no holes |
| `scheduler_live` | `MCScheduler`, `MCSchedulerLive.cfg` | every check is given to the producer and the watermark catches up across a crash or a fatal error, unless the process was told to stop; one that was comes down |
| `vector` | `MCVectorProducer` | order, no loss; nothing is given up when retrying, unless its request cannot be built; everything leaves; the worker ends |
| `manager` | `MCManager` | `stop()` ends, and an exit is orderly |
| `provider` | `MCConfigProvider` | only a failed command, or an update that does not parse, loses a change; otherwise the stores converge |
| `boot` | `MCPartitionBoot` | schedulers start after the load when Redis is fast; every waiter answers, unless updates never pause |
| `check_safety` | `MCHttpCheck` | one timeout for all reads; the capture holds what was received; the parts lie within their request, add up to no more than it, and print without wrapping |
| `assertions` | `MCAssertions` | what is rejected is rejected at its culprit; the verdict is what the expression means, whatever the gas; an error names its leaf; failure data fail the same way; a verdict on a body that was cut off is the one the whole would have |
| `endpoint` | `MCEndpoint` | a check is judged by its own assertion whoever shares its slot; a request never reaches the dropped retry channel; everyone is answered |
| `fleet` | `MCFleet` | after a deploy each partition has one owner; a process falls behind Redis only where another shared its partition or where it lost the update itself |

Each module also has a type invariant (`TypeOK`, `StoreTypeOK`, `CacheTypeOK`, `CheckTypeOK`, `BootTypeOK`), and
`VectorProducer` has `PendingDoesNotDrift` for its gauge. They hold on the instances
of these runs and can be added to any of the configs; section 4 proves the second, and
the types as far as the theorems need them. `SavesCovered` is the strengthening of
`NoHoles` that section 4 proves.

### Disagreements between the code and what its source says of it

The modules state the following claims of the source as well. No run is kept for them;
each is violated when the property is added to the config in the last column, with
the constants it names.

| the source says | the code does | property, config |
|---|---|---|
| `scheduler.rs:193-195`: after a dropped check the next loop fails | the executor is cancelled before the scheduler is told to stop; when a batch had completed a tick before the dropped one, the processor goes round, a later tick without checks completes, and the watermark passes the dropped check, which no process runs again | `NoHoles`, `MCScheduler.cfg` with `Proc = {p1}` and `Faults = {"sigterm"}` |
| `vector_producer.rs:169`: "a maximum cap" on the delay | the product wraps before the cap is applied: from the 63rd failure on the delay is 0 | `CappedBackoff`, `MCVectorProducer.cfg` with `Result = {r1}`, `BatchSize = 1`, `MaxRetries = 64` |
| `manager.rs:200`: the executor ends when the senders are gone | the loop owns a sender itself, only the token ends it | `SendersGoneEndsLoop`, `MCCheckExecutor.cfg` |
| `check_executor.rs:376`: the loop's channel exists | a retry after the cancellation finds it closed and panics | `RetryChannelExists`, `MCCheckExecutor.cfg` |
| `check_executor.rs:389`: the recording channel exists | during a stop the scheduler drops receivers of checks that still run | `RecordingChannelExists`, `MCScheduler.cfg` with `Proc = {p1}` and `Faults = {"sigterm"}` |
| `kafka_producer.rs:41-43`: no holes | a produce error is logged and the check counts as done | `NoHoles`, `MCScheduler.cfg` with `Faults = {"produce"}` |
| `manager.rs:299-300`: all services are shut down first | the provider's `select` may end with the monitor (always in read-only mode), and nothing is unregistered | `AllServicesShutDown`, `MCManager.cfg` |
| `manager.rs:392`: no outstanding references | the monitor may hold one | `NoOutstandingReferences`, `MCManager.cfg` |
| `manager.rs:329`: the partition is registered | it may have been unregistered while Redis answered | `PartitionIsRegistered`, `MCManager.cfg` |
| `redis_config_provider.rs:134`: wait and retry | the updates that were consumed with the error are gone, and so are, without an error, the ones that do not parse (`redis.rs:87-93`) | `NoChangeIsLost`, `MCConfigProvider.cfg`; with `RedisErrors = FALSE` for the second |
| `redis_config_provider.rs:233`: no race | two runs of the checker race for the updates | `OnlyErrorsLose`, `MCConfigProvider.cfg` with `Process = {p, q}` and `RedisErrors = FALSE` |
| `config_waiter.rs:28`: the backlog has been read | a slow connection, or a slow read of another partition, outlasts `BOOT_MAX_IDLE` | `StartsAfterBacklog`, `MCPartitionBoot.cfg` with `MaxLatency = 120`, the default timeout of 30 s (14 is enough) |
| `reqwest_checker.rs:60`: a failure is captured | the body that was read is dropped when the assertion does not compile | `FailureIsCaptured`, `MCHttpCheck.cfg` |
| `reqwest_checker.rs:581`: truncated if needed | nothing truncates | `CaptureIsTruncated`, `MCHttpCheck.cfg` |
| `reqwest_checker.rs:452`: billed to the part that failed | other errors of `connect()` are billed to the sending | `BilledWhereItFailed`, `MCHttpCheck.cfg` |
| `assertions/compiled.rs:22`: "Assertion took too long" | a pattern compared with a value that is not a string is reported so too, whatever the gas (`compiled.rs:560`) | `TookTooLongMeansGas`, `MCAssertions.cfg` |

What the models also had to follow, and a reader of the code may not expect:

- `RuntimeError::set_path` leaves `TookTooLong` without a path, so `ErrorNamesItsLeaf` is
  about the other errors.
- A header check with a numeric literal aborts on the first header whose key passes
  and whose value is not a number, although a later one might pass.
- `CutBodyNeverJudged` rests on the fact that a JSON document cut short is no
  document. A body that is one bare number is the exception, and not modelled.
- When the response begins before the request is all sent, `request_sent` is missing
  and the time to the first byte includes the connection; `BilledOnce` excludes
  this case. A printed offset is taken from the lookup: for a plain `http` request
  that made one, or for one that failed after it, the difference of unsigned numbers
  is negative; `DebugShowsOffsets` states where it is not.
- The body is capped at `max_body_bytes` by whole chunks, so a capture may
  exceed it by the rest of the last one.
- A waiter whose partition is updated again and again within `BOOT_IDLE_TIMEOUT` never
  lets its scheduler start, which `config_waiter.rs:34-35` admits (XXX). `EveryWaiterAnswers`
  excludes such updates; without its second disjunct it is violated by them, and holds
  with it for a partition that is stopped in their midst.
- `retry_vector_errors_forever` does not cover a request that cannot be built: `build()`
  leaves `send_batch` by `?` (`vector_producer.rs:160-165`), and each batch is given up.
  `NothingGivenUp` says that nothing else is.
- A retry after a timed-out request posts the whole batch again, although Vector may
  have taken it. `PipelineKeepsOrder` is about the worker, not about what Vector receives.
- `check_robots` is described with a window of 10 s; `ROBOTS_TIMEOUT` is 5 s.

### Bounds

- `config_store`: buckets of 6 with intervals 2, 3 and 6, so a window wraps in
  each; two subscriptions share buckets; region lists of length 0, 2 and 3 against
  all intervals. Properties of the schedule repeat with the period of
  interval and rounds, which the checked horizon covers.
- `scheduler_faults`: three ticks with two, one and no checks are enough for a batch of
  several ticks, a tick open in its middle and an empty tick after it; two processes
  for an overlap or a restart. The theorem is for any number of processes.
  `scheduler_live`: a tick of two checks between empty ones, a process and its
  successor, which do not overlap.
- `executor`: two slots, two checks and a retry each, so that both slots are taken
  while a retry waits in the queue, and a retry waits behind another check.
- `vector`: a full chunk, a partial one and the flush, with and without an endpoint for
  which a request can be built.
- `manager`: one partition being stopped and one being worked on or not registered.
- `provider`: two partitions, one with two subscriptions, and as many writes as
  it takes to change, delete and change again, the second being unreadable; any of
  their updates may be unreadable. A read-only process only reads, and is left to the
  proof.
- `boot`: every time that the connection and the answers of Redis take up to the bound of
  3.25 s, in steps of a quarter of a second, and any number of updates. The bound is the
  largest with `(|Partition| + 1) * MaxLatency < BootMaxIdle`; one step more violates
  `StartsAfterBacklog`.
- `check_safety`: chunks of 1 and 2 against a bound of 3, so a read ends under, on and
  over it; a clock of two units per microsecond and four units per timeout, so
  that every order and coincidence of a request's instants occurs.
- `assertions`: every leaf with every comparison and operand kind, and trees of
  depth three over leaves that pass, fail and cannot be evaluated; three
  responses; gas that ends before, within and after an evaluation; budgets of 3
  and 16 operations.
- `endpoint`: two tasks and three assertions, two within the limit, all in one slot
  of the cache, so that every lookup races an insert of another key.
- `fleet`: two checkers and a read-only process over three partitions, so that the
  owners of a partition differ between fleets of one and two; one deploy, two changes, and failures
  at every command.

Symmetry is used only in `scheduler_faults`, over processes, and in `fleet`, over the
processes that are not read-only. The specifications treat these alike, and neither run
checks liveness.

### Fairness

- Weak fairness of a task's steps: tokio runs every task that is ready.
- A check ends: `check_url` runs under the config's timeout (shown in `KeepsTimeout`).
- The clock advances, and a process that is needed is started (`scheduler_live`):
  the deployment restarts it.
- Strong fairness of `VectorAnswers`: Vector is not down forever. Without it
  a retry forever is what the code promises.
- Strong fairness of `EndPartition` and `EndRound` in `Manager`: a partition has
  finitely many configs, so a round over them ends.
- Strong fairness of `ConsumeConfigUpdates`: Redis is not down forever.
- In `Endpoint`, weak fairness of each task's work and of the end of the server, and
  strong fairness of taking the cache's lock: it is a `std` `RwLock`, held for a
  lookup or an insert and never across an `await`, and a thread that waits for it is
  woken when it is released.
- None of the environment's faults is fair.

`scheduler_live` uses an unwinding build: with `panic = 'abort'` the panics
of a stop only end the process sooner.

## 4. The proofs

Each theorem holds for every value of the constants that satisfies the named
`ASSUME`s. TLC evaluates these on the instances, and checked the invariants before they were proved.

**`ConfigStoreProofs`: `BucketsAlwaysMatch`, `OncePerIntervalHolds`, `RegionsTakeTurnsHolds`.**
Assumptions: intervals are positive and divide `MaxInterval`; seeds are naturals.
Inductive invariant `StoreInv`: types, `FiledById` (a config is kept under its own id) and
`BucketsMatchConfigs`. `FiledById` is needed because removing one config from the buckets
must not remove an equal one of another id. The other two add number theory. In
every window of `interval` seconds exactly one is congruent to `first_slot`, and taking it
modulo `MaxInterval` first changes nothing as the interval divides it. In a window of
`n` intervals these are `n` ticks in a row (`TicksOfRound`), so each turn modulo `n`
comes once (`OneTickPerTurn`), and the runs of a region are in bijection with the places
at which it is named.

**`CheckExecutorProofs`: `CountersCoverWorkHolds`, `OneResultPerCheckHolds`,
`OneshotTellsTheTruthHolds`, `LosesOnlyWhenStoppedHolds`, `ImplementsPromiseSafety`.** No
assumption but the types of the constants; every build, cancellation at any
moment and all three panics. None of these is inductive: each needs to know that a check
is never in two places. `ExecutorInv` says so (`OnePlace`: once in the queue or in
one future that is not over, with a retry number above those of its earlier futures), and
ties to it the oneshot (`FateTells`), the results (`ResultIsLast`), what is left
when the loop has ended (`LoopState`) and the gauges (`Counted`: `queue_size` includes the
checks that are reserved or about to be requeued, since both are counted before
they are sent). The refinement then goes action by action: a step of the executor maps to
accept, publish, settle, drop or close of `ExecutorPromise`, or leaves its state alone.

**`SchedulerProofs`: `TypeCorrect`, `NoHolesHolds`.** The second assumes
`Uninterrupted`: no stop signal and no produce error, the two faults that make
holes (section 3). All other faults, overlapping processes among them, are allowed.
`NoHoles` alone is not inductive, since a save in progress, a delayed `SET` or a
tick not yet drained may become the watermark. `SavesCovered` says that each of these
is covered already, that a oneshot is resolved only after a result, and that the
executor outlives its scheduler.

**`VectorProducerProofs`: `PipelineKeepsOrderHolds`, `NothingGivenUpHolds`,
`PendingDoesNotDriftHolds`.** For any results, batch size and width of the counter.
`PipelineInv` adds the types and `CountedOnce`: what `uncounted` holds is finite and was
sent, so the `fetch_add` that comes after the send counts a result once, wherever
in the pipeline it is by then. `NothingGivenUpHolds` follows the setting through the
retries: while it is on, a batch leaves with an answer or for want of a request. The delay is left out of the proved types: it is a power of two
with the wrap of a `u64`, which the provers cannot evaluate, and no theorem depends on it.

**`ConfigProviderProofs`: `ProviderTypeCorrect`, `ChangesReachTheStore`.** The second
assumes `OneOwner`: one process polls the partitions. `ProviderInv` adds to
`OnlyErrorsLose` that updates agree with the configs once announced
(`UpdatesAgree`), what the monitor holds between commands (`MonitorHolds`), and
that a payload or a consumed update which Redis has overtaken is followed
by another (`OvertakenIsPending`). An update that does not parse is part of it: it
is noted in `dropped` when it is consumed, and the readable ones beside it are not.

**`CheckExecutorProofs`, of `HttpCheck`: `KeepsTimeoutHolds`, `CapturesBodyHolds`,
`PartsWithinRequestHolds`, `BilledOnceHolds`, `DebugShowsOffsetsHolds`, `CheckTypeCorrect`.**
The check is the one the executor runs, and its module shares no state with the
executor's. Assumptions (`CheckAssumption`, `TimingAssumption`): the timeouts, the chunk and the unit of
the clock are positive, the timeout in microseconds can be written in a number of
`Width`, and `None` is none of the values it stands beside. Two inductive invariants:

- `HttpInv`: one deadline for all waits (`OneDeadline`), and `BodyIsReceived`: the body is
  what was received, or nothing was read yet, so that the second read of a captured
  check cannot miss what the first one took.
- `TimingInv`: a result tells of one part that failed by the timeout, or of a hop
  that ended by it, and says which notes the client took (`Reported`).

The timings of a hop follow from `InOrder`: after the first `i` notes, each one that is not
missing lies between the start and the last note, and none is before an earlier one.
`NotedInOrder` shows that taking the next note keeps it, and `HopsInOrder` follows it through
all nine. The rest is arithmetic: cutting to microseconds is monotone
(`MicrosGrow`) and a sum of cut durations is at most the cut sum (`MicrosAdd`), so a part that
lies within the request on the clock does so in the result (`TimingWithin`, `PartsOfHop`); the
six parts of a hop whose `request_sent` is there follow each other (`PartsFollow`), so they add
up to no more than the whole (`HopBilledOnce`); and where no part starts before the
lookup the unsigned differences are the true ones (`OffsetsShown`).

**`LifecycleProofs`: `StartsAfterBacklogHolds`, `ExitIsOrderlyHolds`, `ManagerTypeCorrect`.** The
first assumes `RedisIsFast`: finitely many partitions, and
`(|Partition| + 1) * MaxLatency < BootMaxIdle`, one wait for the connection and one for each
partition; a slower Redis refutes the property (section 3).
`BootInv` bounds the time while anything is to be loaded (`OnTime`: the connection and the
answers so far took at most `MaxLatency` each) and says that a waiter of a partition still to be loaded has not
started (`WaitsForLoad`). The others are about `Manager`. `LifeInv`: `stop()` awaits the
handles in order (`AwaitedInOrder`); a task that ended stays so, and the services' task
ends last of those it depends on (`TasksEnd`); a partition is registered at most once
(`RegisteredOnce`), without which a scheduler that had drained might be started again; a
scheduler told to stop has ended or is waited for (`ToldIsAwaited`).

**`EndpointProofs`: `JudgedByItsOwnHolds`, `ExecuteNeverAbortsHolds`.** Assumptions: `None` is none of the values it stands beside.
`EndpointInv` adds that an entry of the cache is what its own key compiles to
(`EntriesAreTrue`), that a check in the cache keeps its key (`AskersHaveKeys`) and that a caller
starts afresh.

**`FleetProofs`: `OneOwnerHolds`, `BehindOnlyWhenSharedOrLostHolds`.** For any number of partitions,
processes and deploys, and failures at any command. A partition is owned by the checker whose number is its
remainder modulo the size of the fleet (`OwnedByRemainder`). `FleetInv` adds that numbers are below the size of
the fleet they were deployed with (`NumberedBelowTotal`), that processes which poll one partition
at the same time are noted in `shared` (`SharingIsNoted`), and that a process works on one
partition at a time (`OneAtATime`), so an error loses the updates of no other.

The constants' assumptions that the proofs brought to light are in the modules and say
that an absent `Option` differs from the values it stands beside (`CacheAssumption`,
`EndpointAssumption`, `CheckAssumption`) and that a timeout fits the numbers in which it is
printed (`CheckAssumption`).

### Only model-checked

- Liveness under fairness everywhere, and with it the fairness of `ImplementsPromise`:
  outside the prover's reach.
- `Assertions`: its operators are recursive over the tree of an assertion, which the
  prover cannot take.

## 5. Not modelled

- The IP filter, the construction of the client and its connections, trace ids,
  certificate data and serialization: conversions without state of the checker.
- The pattern, JSONPath, robots.txt and HTTP libraries; librdkafka and the Kafka
  settings. The Kafka producer hands a result on and keeps nothing.
- Opening connections to Redis, except for the time it takes at boot, and its cluster mode.
- The command line and the parsing of single settings.
- `should_check_robots`: nothing calls it, as `scheduler.rs:127-132` is commented
  out; `check_robots` itself is modelled, apart from a scheduler that would queue it.
- Logging, metrics, test doubles and test utilities.

## 6. Plan

1. **Done:** the schedule and the store; the executor and its promise; the scheduler;
   the Vector producer; the manager; the provider; the boot; an HTTP check with its
   timings and the robots.txt; assertions and their cache; the endpoint; the fleet with
   its settings and the ownership of partitions.
2. **Proved:** every safety invariant and action property that the runs check, but for
   those of `Assertions`, and the safety of the refinement.
3. **Left to TLC:** liveness, and the assertions. A further property of theirs, or of any
   part that changes, starts as a run and is proved where the prover can reach it.
