# Specification of the telemetry collector

TLA+ models, model-checking configurations and proofs for the event path of this service: from the HTTP gateway and the
gRPC handlers through deduplication, the in-memory queue, the workers and their batchers, to the storage plugins and what
they leave in the backends; with the start-up from a configuration, and the shutdown, crash and restart of all of it. The
models are written from the Go source; `PROJECT.json` gives, for every definition, the lines it stands for.

## 1. The system

| Component | Source | State | Operations | Status |
|---|---|---|---|---|
| Batcher | `pkg/processor/batcher.go` | buffer, mutex, current timer; timers and timer goroutines of the runtime | `Add`, `Flush`, `timeoutFlush`, `flush` (`Size` reads) | `Batcher`, proved |
| Processor | `pkg/processor/processor.go` | `inputChan`, worker pool, context, wait group, four counters | `Submit`, `worker`, `processBatch`, `writeToPlugin`, `Shutdown` (`Stats` reads) | `Processor`, proved |
| Deduplicators | `pkg/dedup/*.go`, `internal/bootstrap/deduplicator.go` | memory: map of key to time, cleanup goroutine; Redis: keys with a TTL | `IsDuplicate`, `Mark`, sweep, `Close` | `MemoryDedup`, `RedisDedup`, proved |
| Event types | `pkg/events` | none | `DeduplicationKey`, `ToDocument` | `EventKeys` |
| Storage plugins | `pkg/storage/plugin.go`, `pkg/storage/plugins/**` | connections; the backend's contents | `Initialize`, `Filter`, `WriteBatch`, `Close` | `Plugins`, a module per package, `Sink`, proved |
| Application | `main.go`, `internal/app`, `internal/bootstrap/{plugins,processor}.go` | what has been started | `New`, `Run`, `Shutdown` | `Application`, proved |
| Telemetry service | `pkg/service/telemetry.go` | none | three handlers | `Requests`, `Service`, proved |
| Auth interceptors | `pkg/common/authServerInterceptor.go` | token validator of the SDK | unary and stream interceptor | `Requests`; the validator is external |
| Configuration | `pkg/config/config.go` | none | `LoadConfig`, `ValidateConfig`, `GetEnabledPlugins` | `Config` |
| Servers, gateway | `internal/server`, `pkg/common/gateway.go`, `pkg/pb/service*.go` | listeners | start; they are never stopped | start and failure in `Application`, the way of a request in `Requests` |
| IAM bootstrap | `internal/bootstrap/iam.go` | the SDK's session | `InitializeIAM` | the login in `Config` |
| Tracing, logging, messages and descriptors | `pkg/common`, `pkg/pb` | none of the program | library wiring | not modelled |

How they interact. Each event type has its own processor, deduplicator and plugin instances. A request comes by gRPC, or
by HTTP through the gateway, which is a gRPC client of its own process. A handler goroutine calls `Submit`, which asks the
deduplicator, marks the key, and sends the event into a buffered channel (blocking when it is full). A fixed pool of
workers receives from the channel; every worker owns a `Batcher` and adds the event to it. The batcher flushes when full,
when its timer fires, or when the worker leaves; the flush runs **with the batcher's mutex held** and fans the batch out
to all plugins in parallel, waiting for all of them. `Shutdown` closes the channel, waits for the workers, and after its
timeout cancels the context that the workers select on and that the writes derive from. Instances of the service share
Redis and the backends, and nothing else.

What is hard. Many goroutines meet at the deduplicator, the channel and the mutex. `time.AfterFunc` starts a goroutine
that `Stop` can no longer recall once the timer has fired. Closing the channel races with sends into it, the exit of a
worker races with flushes of its timers, the timeout of `Shutdown` races with everything. Writes fail in part and are
never retried, and may be cut short by the shutdown. A process that dies takes acknowledged events with it, while Redis
keeps their keys. The list with the line where each hazard bites, and the property that covers it, is under "hazards" in
`PROJECT.json`.

What makes each component correct:

* Batcher: no event is lost, repeated or reordered; no batch is left behind without a timer; batches stay within
  `maxSize`; `Flush` returns only when everything before it has been written; nobody waits for the mutex for ever.
* Processor: every accepted event is handled once by one worker; a plugin's failure stays its own; a clean shutdown
  has handled everything; back-pressure releases; deduplication does not eat the last copy of a key.
* Deduplicator: a key marked within the TTL is reported; an expired one is not; different events have different keys.
* Plugins: a reported success means the batch is persisted, in the container of its type, and stays there; what is lost
  is lost for a reason of its own.
* Application: a plugin is not used before `Initialize` or after `Close`; a clean stop loses nothing.
* Service: only genuine, complete requests get in; an answer tells the truth, also when the instance that gave it dies.

## 2. Modules

| Module | Role |
|---|---|
| `BatchStream` | abstract: a stream cut into contiguous batches, one at a time with the consumer |
| `Batcher` | `batcher.go`; instantiates `BatchStream` as `Stream` |
| `Ledger` | abstract: events accepted while open, handled in batches, drained or aborted |
| `Processor`, `MCProcessor` | `processor.go`; instantiates `Batcher` once per worker as `B(w)`, and `Ledger` as `L` |
| `SeenWindow` | abstract: what a deduplicator promises about a key, given its age |
| `MemoryDedup`, `MCMemoryDedup` | `memory.go`; instantiates `SeenWindow` as `W` |
| `EventKeys` | `DeduplicationKey` and `ToDocument` of the three event types, as operators |
| `RedisDedup` | `redis.go` on a shared server, with the keys of `EventKeys`; instantiates `SeenWindow` as `W` |
| `Application`, `MCApplication` | the process from start to exit; instantiates `Ledger` once per event type as `L(t)` |
| `Plugins` | what the storage plugins have in common: their life, the workers that call them, the backend |
| `S3Plugins`, `PostgresPlugins`, `MongoPlugins`, `KafkaPlugins` | a package each, with an action per file and method |
| `Sink`, `MCSink` | the packages together, and what their writes promise |
| `Config` | `config.go` and what the bootstrap makes of it, as operators |
| `Requests` | gateway, generated handlers, interceptors and handlers, as operators |
| `Service`, `MCService` | requests on several instances that share a Redis; extends `RedisDedup` and `Requests` |
| `BatcherProofs`, `ProcessorProofs`, `FanOutProofs`, `MemoryDedupProofs`, `RedisDedupProofs`, `ApplicationProofs`, `SinkProofs`, `ServiceProofs` | theorems (TLAPS) |

Definitions whose names contain an underscore and whose comment says *mutant* are deliberate mistakes. No specification
uses them: they exist to show that each property notices the bug it is meant to notice (`PROJECT.json` pairs every
property of every passing run with one).

### Batcher

`events`, `timer` and `lock` are `b.events`, `b.timer` and the holder of `b.mu`. A timer is named by the event that
armed it. `armed` holds the timers that may still fire; `waiting` holds the timeoutFlush goroutines that wait for the
mutex, stale ones included; `batch` is the copy `flushFunc` is working on. `pc` and `arg` say what each caller is
doing. `added` and `written` are histories.

An Add is four steps: the call (`AddCall`), the critical section up to the arming of the timer (`AddAppend`), and either
the return (`AddReturn`) or the flush (`AddFlush`). The timer may fire between any two of them, even before the flush in
the same critical section stops it. `StartFlush` is `flush()` up to the entry of `flushFunc`, and `FlushReturn` is
`flushFunc`'s return with the deferred unlock; between the two lies a write of arbitrary length. Taking the mutex and
finding an empty buffer is one step.

### Processor

`sub[e]` follows the Submit of event `e`; each event has its own handler goroutine, and a repeated event is another
event with the same `Key`. `CheckDuplicate`, `Mark`, `TrySend`, `BlockingSend` and `CountReceived` are the points at
which other goroutines can intervene. The channel is `queue` (its buffer), `sendq` (the parked senders; a receive from
a full channel moves the first of them into the buffer, as the Go runtime does) and `closed`. A send on a closed
channel sets `crashed`: the gRPC server installs no recovery interceptor (`internal/server/grpc.go:58`), so the panic
ends the process, and every action requires `~crashed`.

`batcher[w]` is a record with the variables of `Batcher`; the worker's actions repeat those of `Batcher` on it, and
`WorkersUseBatcher` says that they do so faithfully. `todo[w]` are the plugins the batch of `w` still waits for.
`WriteToPlugin` is the end of `writeToPlugin`: the filter, then a write that persists the whole filtered batch, or, if
the plugin is `Flaky` or the context cancelled, any part of it. `stored` and `lost` record the outcome.

`shutdown` follows Shutdown: `CloseInput`, then `ReturnDrained` or `ReturnTimeout`; when both are possible the choice is
free, as in a Go select.

The deduplicator is the set `seen`. With `"memory"` the two calls succeed; with `"redis"` the check may fail (the event
is then treated as new) and the mark may fail before or after it took effect; with `"none"` nothing is remembered.
`Expire` forgets a key at any time if `KeysExpire`.

### Deduplicators

In `MemoryDedup` every operation is one step, since each holds the mutex throughout. `now` is the clock, `tick` the
one-element channel of the ticker; a tick that finds the previous one still there is dropped. The sweep
(`RemoveExpired`) may come up to `Lag` after its tick, and marks and checks may fall in between. `Close` is two steps,
`CloseSignal` and `CloseClear`, between which the goroutine may still sweep. In `RedisDedup` the server's state is the
expiry of each key; `Mark` replaces it. Calls of any instance may fail, and a failed `SET` may have taken effect.
`SeenWindow` says what both owe their caller: a key younger than the TTL is reported, one older than TTL + Slack is not.
For Redis Slack is 0; for memory it is a cleanup period plus the lag, because `IsDuplicate` does not look at the age of
an entry.

`EventKeys` gives the key an event has as a sequence of tokens in which the colon is a token like others, so that fields
with colons can run into each other as they can in the strings. Documents keep the fields the key is made of, and `Told`
reads them back.

### Application

`main` says where the main goroutine is, `turn` and `place` are its loop counters. `InitializePlugin` is one iteration
for one event type: the plugin opens, or `Initialize` fails, `New` returns the error and `main` exits with what is open
left open. Unknown names are skipped, and if nothing is open every type gets the noop plugin. The gRPC server takes
requests from `StartGRPCServer` on, until the process ends: nothing stops it. `Signal` kills before `Notify` and starts
the shutdown after it. A processor is reduced to `Ledger`'s phases with the writes under way (`todo`): `Send` panics on a
closed processor; `ShutdownDrained` and `ShutdownTimeout` are the two ends of its `Shutdown`; after the second its queued
events stay where they are and its writes go on, and may fail. The processors are shut down one after the other, then
the deduplicators are closed, then the plugins type by type.

### Storage plugins

`kind` is the package of the behaviour, `typeOf` gives each worker its event type, and `condition` says how the backend
is. `plugin[t]` goes from `"new"` to `"open"` or `"failed"` and on to `"closed"`, in the order in which the bootstrap
goes through the types. PostgreSQL and MongoDB contact their server in `Initialize`; S3 and Kafka do not, so they open
whatever state their backend is in. `held` is the backend: sets of events per container, which is an S3 object (named by type and
time), a table, a collection or a topic. The three files of a package are copies that differ in such literals, and each
has actions of its own (`S3WriteGameplay`, `S3WritePerformance`, ...).

A `WriteBatch` is three steps: the call, the encoding (marshalling, `BeginTx`, and for S3 the time that names the
object), and the backend's part. That part fails, succeeds, or succeeds with the reply lost, in which case the caller
sees an error. What is specific to each backend: a PUT replaces an object of the same key (S3), unordered documents and
partitions succeed one by one (MongoDB, Kafka). PostgreSQL has a step more: `Insert` takes at most `MaxRows` rows, all of
which must be good, and puts them into the transaction (`call[c].tx`), where nobody else sees them; `Commit` moves what
the transaction holds into the table, or fails. `Unencodable` and `Rejected` are the events with faults of their own.

`processor[t]` says how the processor of a type is: they are shut down one after the other, and each is drained or times
out. After the `Cancel` of its type a call that is under way may fail and one that starts is dead from the start; the
writes of the other types go on under their own context. Plugins are closed when every processor has been dealt with,
which may be under the writes of a type that was cancelled.

### Configuration, requests and the service

`Config` takes an environment as a record. Its list of plugins is a sequence of tokens, commas and blanks among them, so
that splitting (`Split`, a recursive function), trimming and skipping do what the code does; the names found are a set,
since their order decides nothing here. `Listed`, in `Service`, reads the same list without splitting it, and `OkIsKept`
is stated with that, so that it does not depend on what it checks. `StoragePlugins` and `Deduplicator` say what the bootstrap
makes of a configuration.

`Requests` has one operator per layer. None of the layers keeps a state, so each gives the status it answers with, or what
the next one gives. The order in which they come is the point: `Forward` decodes before the gRPC call, `Handle` decodes
before the interceptors, `Create` validates before it looks for the user. The validator of the SDK is a verdict: it
refuses what is not genuine, and may refuse anything. `LocalGateway`, generated and unused, goes past the interceptors.

`Service` puts them together. A request's way up to `Submit` is the step `Arrive`; `CheckDuplicate`, `MarkSeen`, `Send`
and `Reply` are steps of their own, between which other requests are handled and the instance may die. An instance is
`"down"`, `"up"` or `"draining"` (after the signal; the servers go on). `Boot` starts it if the configuration is valid and the
login works, `Crash` is any end without a shutdown (a panic, `os.Exit`, kill), `Exit` the end of a shutdown. `unsaved`
are the pairs of event and plugin that a process holds in memory. `Write` takes one of them out: the noop plugin discards
it; any other stores its document, or fails and does not, or fails although the backend has it, and a failure is logged
and the event dropped (`processor.go:186`), which `dropped` records. `lost` collects the keys that a process took with
it, or that a Submit marked and then dropped. While an instance is draining `Send` may still queue the event, since the
three processors are shut down one after the other, or answer Internal. `boots` bounds the number of starts.

## 3. What the runs check

| Run | Instance | What it shows |
|---|---|---|
| `batcher` | 2 callers, 3 events, size 2 | the invariants, `FlushIsBarrier`, liveness and `ImplementsStream` for all interleavings of adds, flushes and timers |
| `pool` | 2 workers, 3 events, 1 failing plugin, channel of 1, size 2 | `Conservation`, `DrainedShutdown`, `PerWorkerOrder`, `ImplementsLedger` |
| `faults` | 1 worker, 2 plugins (one failing, one filtering), Redis faults, expiry | `TypeOK`, `FanOut`, `DuplicateHasOriginal` |
| `liveness` | 1 worker, 3 events, channel of 1, size 2 | `AcceptedIsHandled`, `BlockedSubmitReturns`, `WorkersExit`, and that the worker drives its batcher as `Batcher` has it (`WorkersUseBatcher`) |
| `memory_dedup` | 3 events of which 2 are one key, TTL 2, period 3, lag 1, time to 8 | `RememberedForTTL`, `ForgottenInTime`, `ImplementsWindow` |
| `service` | 2 instances with up to 3 starts, TTL 1, time to 2; 20 requests and 12 configurations, in groups of up to 3; writes that fail | `GenuineOnly`, `AnswersAreTrue`, `OkIsKept`, `RefusedHasTwin`, `ImplementsWindow` |
| `application` | 2 event types, 3 events; a sound, an unknown and a failing plugin, or an unknown one only | `ServesWhenReady`, `StopsInOrder`, `CleanExit`, `LedgerPerType`, `ShutdownEnds` |
| `sink` | each of the 5 packages with 2 workers of one type or two, 4 events of which one cannot be marshalled and one is rejected, statements of 2 rows, 2 instants | `SuccessIsDurable`, `AllOrNothing`, `GoodRowsSurvive` |

Four further runs exhibit behaviour that contradicts a statement in the repository (section 5).

Why these bounds are enough for the cases of interest. With three events and size 2 there is a full batch and a
remainder; a batch flushed by its timer and a successor for the stale goroutine to hit; and with a channel of 1, one
event in a worker's hands, one in the channel and one parked sender. Two workers suffice for every race for the channel
and for any reordering between workers. Two plugins, one failing, suffice for failure isolation. Two event types suffice
for the sequence of the shutdown: one already drained or aborted while the other still takes requests. The clock of
`MemoryDedup` runs over two sweeps and past the expiry of a key marked again after the first; that of `Service` past the
expiry of a key marked twice, by different instances; that of `Sink` allows uploads in the same and in different
milliseconds. In `Sink` the assignments have two workers of one type and every type beside another, so that a container
shared by mistake is noticed. Apart from the clocks and the starts nothing is bounded but the constants, because each
event is submitted once (or, to a deduplicator, as often as the clock allows).

The groups of `service` (`MCCases`) each put together what can interfere: a user behaviour with its retry on another
instance and a third time; the first two with a plugin that stores and more restarts; a user behaviour at two times; requests whose fields run into each other if a colon is dropped,
or whose colons meet; every kind of bad request beside a good one, with authorization on and off; and a good request
under every kind of bad configuration. Requests of different groups do not share a key, so that there is nothing between
them to check.

`pool` uses the symmetry of the two workers, `service` that of the two instances, `sink` that of the two sound events;
no property distinguishes them. No run with liveness uses any.

Deadlock is checked in every run. In `Processor` the only states without a proper step are those of `Stopped`: the
process is down, or Shutdown has returned, the workers have exited and no Submit is in progress. In `Application` they
are the states of `Ended`, the process being down; in `Sink` those of `Finished`, with everything closed or the process
gone after a failed `Initialize`; in `Service` those of `Rest`, with every instance down.

## 4. Fairness

`Batcher!Fairness` and `Processor!Fairness` say that a goroutine that can run does, that an armed timer fires, and that
`flushFunc` and `WriteBatch` return; the last rests on the 30 s context each write carries (`processor.go:179`).
Acquiring the mutex is strongly fair because a `sync.Mutex` hands itself to a waiter that has starved for 1 ms. Nothing
obliges a client to submit, an event to be added, `Flush` or `Shutdown` to be called, a key to expire or the shutdown
timeout to fire. A crash ends all promises, and so does the cancelled context for queued events; the liveness properties
say so.

`Application` assumes that main goes on during the
shutdown, that a `Close` returns, and that a processor's Shutdown returns at its timeout at the latest; it assumes
nothing of writes or requests, so `ShutdownEnds` does not rest on them. `MemoryDedup`, `Sink` and `Service` have safety
properties only and assume nothing.

## 5. Statements the code does not keep

| Run | Statement | What the code does |
|---|---|---|
| `shutdown_loses` | README.md:101 "no in-flight data is lost", `processor.go:261` "Stop accepting new events", `:251` "processor is shutting down" | a Submit that meets Shutdown panics on the closed channel and takes the process down with what the workers had not written |
| `duplicate_race` | `dedup.go:23` "to prevent future duplicates" | two handlers check the same key before either marks it |
| `s3_overwrite` | `plugin.go:36` "Returns the number of successfully written events" | two batches of a namespace encoded in the same millisecond get one object key, and the second upload replaces the first |
| `behaviour_repeat` | `deduplicatable.go:12` "Should combine namespace, user_id, session_id, timestamp" | the key of a user behaviour event has no timestamp (`user_behavior.go:33`): the same action again in a session is refused |

`NoLossOnShutdown` has a second way to fail, which the shorter counterexample hides: after the timeout of Shutdown the
context is cancelled (`processor.go:289`), workers leave with events in the channel, and the last writes run under the
cancelled context.

The passing runs delimit these: without a timeout and a panic the drain is complete (`DrainedShutdown`), a clean exit of
the process has persisted everything (`CleanExit`), S3 objects with distinct times stay (`SuccessIsDurable`), what was
answered with OK is kept unless a process took it with it or its own write failed (`OkIsKept`), and an event that is
refused agrees with an earlier one on every field that the code puts into the key (`RefusedHasTwin`).

Seen while modelling, in the models, and without a run of its own:

* DESIGN.md:1967 gives the data loss as "0%", "Guaranteed". Besides the timeout above, every crash, `os.Exit` of a server
  goroutine and failed write loses acknowledged events, and nothing retries a write although DESIGN.md:1902 lists retry
  logic: `RetryPolicy` of `plugin.go` has no caller.
* An instance that shuts down still takes requests. Once a Shutdown has timed out a Submit can mark its key and then answer
  Internal; with Redis the client's retry, at any instance, is answered with OK as a duplicate, and no event was ever queued.
  A crash between the mark and the queue does the same (`lost` in `AnswersAreTrue`).
* With two workers the events of a user reach a plugin in either order, although `docs/PLUGINS.md:205` speaks of
  "Partitioning by user_id for ordered processing"; the default is ten workers (`config.go:41`). What is kept, with any
  number of them, is the order of the events that one worker takes (`PerWorkerOrder`). `PerUserOrder` follows for a single
  worker (`OneWorkerKeepsUsers`); put into `ProcessorPool.cfg`, TLC finds it violated.
* A timer that fired while a flush held the mutex flushes the next, fresh batch (`batcher.go:63` ignores the result of
  `Stop`), against README.md:89-91. It never loses or doubles an event (`InOrder`).
* A SIGTERM between the start of the gRPC server and `signal.NotifyContext` (`main.go:29-35`) kills the process with
  accepted events in memory.
* One event that cannot be marshalled fails its whole S3 batch, and one row that is rejected its whole PostgreSQL batch,
  against `plugin.go:37` "Implementations should handle partial failures gracefully"; MongoDB keeps the rest
  (`GoodRowsSurvive`). A client can send such a row: the first `X-Forwarded-For` becomes `source_ip` as it stands, and
  the column has 45 characters.
* S3 and Kafka open without contacting the backend, and `HealthCheck` has no caller: a wrong bucket or broker shows in
  failed writes only.
* The ports in the configuration are validated and then not used: `internal/server/grpc.go:31` and `gateway.go:24` have
  theirs as constants.
* A list of plugins that holds nothing but commas passes `ValidateConfig` and ends in the noop plugin, as does one with
  unknown names only.

## 6. What is proved

Every theorem holds for any values of the constants, from the named assumptions of its modules alone. The proofs follow
one pattern: an inductive invariant, kept by each action in a step of its own, of which the properties are consequences.

### BatcherProofs

`TypeCorrect` is inductive by itself. The safety invariants are not. `BatchHasTimer` needs to know that an Add which finds
the buffer empty finds no timer armed; `BoundedBatch` that an Add finds room; `InOrder` that a flush finds no batch in
flight. `LockDiscipline` supplies this: whoever gets the mutex finds no batch in flight and room in the buffer, a caller
between append and flush is the lock holder, and an empty buffer means a nil timer. The conjunction `IInv` is inductive
(`IInvInductive`, one step per action; the three ways into `flush` share `StartFlushSafe`), and `Invariance` gives
`NoStrandedBatch`, `EventsInOrder`, `BatchesBounded` and `LockDisciplined`.

`FlushBarrier` is the action property that shutdown rests on: only two steps end a call of Flush, and in each of them
`IInv` leaves no room for an unwritten event. `StreamRefinement` maps every step to a step of `BatchStream` or to a
stutter; the point is `EmitStep`, that the buffer is exactly the part of the stream after what was written.

### ProcessorProofs and FanOutProofs

The invariant `IInv` of `ProcessorProofs` has four parts: the shapes of the variables (`Shapes`); where each event is
(`Accounted`: an event is in `accepted` exactly if its Submit says so, parked senders are distinct and not accepted, what
a worker has in its hands it has not added yet, and `Conservation`); how far the channel is drained (`Draining`: it is closed exactly
when Shutdown has begun, nobody is parked then, and a worker on its way out has found it empty unless the context was
cancelled); and, for each worker, `Batching`, what `LockDiscipline` and `InOrder` are for a batcher of its own. From it:

* `NothingLostOnTheWay` (`Conservation`), and `KeepsLedger`: every step of handlers, workers, timers and Shutdown is a
  step or a stutter of `Ledger`. `DrainStep` is where `Draining` and `Batching` are needed: when all workers have exited,
  accepted and handled are the same.
* `WorkersBatch`: every step is, for each worker, a step or a stutter of module `Batcher`. With `BatcherProofs` this says
  that the batchers in the pool have the properties proved there.
* `NoKeyIsLost` (`DuplicateHasOriginal`) has a small invariant of its own: a key that is seen has an event past the
  deduplicator.

`FanOutProofs` is about the plugins. `Fanning` says what a plugin has dealt with at any time: exactly what it accepts of
the batches that went through `processBatch` and of those in flight that it is done with. Together with `Accounted`, which
keeps the batches of different workers apart, it is inductive and gives `FansOut` and `TypeCorrect`. `Counted` ties the
two counters to the sets they count, and with `IInv` gives `DrainsOnShutdown`. The filter `Among` is a recursive
function; `AmongFacts` and `AmongOrder` look at the least place at which it could go wrong, which `Least` provides.

Order is a relation: `Follows(s, x, y)` says that s has an x and later a y, and three lemmas on appending, joining and
taking the tail spare the proofs the indices. `Arrival` says that what a worker has taken came before what is left in the
channel and in the order in which the worker has it; `Keeping`, that each plugin has the events of a worker in the
worker's order. `Keeping` is inductive together with `Fanning`: a plugin that a batch still waits for has of that worker
only what earlier batches brought. This gives `WorkersKeepOrder` for any number of workers, and with one worker
`OneWorkerKeepsUsers` (`PerUserOrder`). Nothing orders the batches of different workers, which is the reason for the
divergence in section 5.

### MemoryDedupProofs and RedisDedupProofs

For memory the invariant says that the entries are the latest marks, of which only old ones are missing
(`EntriesAreMarks`), and how old an entry can be at a given distance from the last tick, or while a tick waits
(`SweptInTime`). `RemembersForTTL`, `ForgetsInTime` and the refinement `KeepsWindow` follow. For Redis `ExpiresAfterTTL`
is enough; its step lemma is used again in `ServiceProofs`, where instances come and go.

`RefusedHaveTwins` has two halves. `MarkedBefore`: a key that Redis holds, or for which a duplicate is reported, is the
key of an event that some instance marked. `KeyTellsFields`: the keys of two events, of any types, are the same only if
the events agree in type, namespace, user, id and timestamp, or session if they are user behaviour. The keys are joined by colons, and a timestamp
has colons of its own, so this is an argument about parsing: regrouped from the left (`Regroups`), the first colon ends
the first field (`FirstField`), what follows is again a joined sequence, and the last field is what remains. It needs that
the four fields before the last have no colon (`Plain`); with colons anywhere two keys can coincide. That the names of the
types have none is part of `RedisDedupAssumption`. The fingerprint is SHA-256 of the key, and collisions of it are left out.

### ApplicationProofs

The assumption is that the types are distinct and not empty, and that noop neither fails to start nor to write.

The properties speak of the time after the start-up, so their strengthening `IInv` has to say what the start-up did. Its
parts:

* `Initializing`: in the two loops of `InitializeStoragePlugins`, exactly the known plugins before the loop counters are
  open. With the counters at their end this is the same set for every type (`ReadyMoves`), and the noop fallback covers the
  empty one.
* `Uniform`: from then on all types have the same plugins, at least one.
* `Closing` and `PhaseOrder`: a closed plugin means closed deduplicators, closed deduplicators mean that every processor
  is drained or aborted, and the loops of the shutdown have dealt with the types before their counter.
* `Progress`: what remains to be written of an event (`todo`) is known from where it is, a drained processor has none,
  and unless the processor was aborted every sound plugin outside `todo` has persisted the event. A write to a closed
  plugin would break this; `Closing` and `PhaseOrder` rule it out for processors that were not aborted.

Each part is kept by each group of actions (`MainMoves`, `LoopMoves`, `ReadyMoves`, `ShutdownMoves`, `ClosePluginsMoves`,
`ProgressBefore`, `ProgressAfter`), which gives `Invariance`, and from it `Readiness`, `OrderlyStop` and `CleanExits`.
`KeepsLedgers` maps every step to a step or a stutter of each type's ledger; `KeepsLedger` of `ProcessorProofs` is the
other half, that a processor is such a ledger.

### SinkProofs

Every step of the thirteen plugins has one of four shapes (`Shapes`): it leaves the data alone, starts a call, ends one
with a part of its batch added to the container of its type, or puts an S3 object. Over the shapes `OneBatchEach` is
inductive, that an event is in one batch and reaches the backend only when the call has returned. `WritesAreDurable` and
`GoodDocumentsSurvive` follow from it.

`BatchesAreAtomic` needs the open transactions: `Transactions` says that between `Insert` and `Commit` a transaction holds
all the rows of its batch, for the table of its type. Whatever cuts the call off before `Commit` leaves none of them in the
table, and `Commit` puts all there (`ReturnedStays`); that other calls neither add to nor take from the batch is
`OneBatchEach`.

### ServiceProofs

`SInv` says that whatever got as far as Submit has passed every layer (`PassedOnly`) and that each key that a
deduplicator holds, or for which a request was answered, is `Covered`: it is lost, or some request with it is queued or
about to be. This is what survives a crash and a restart, since Redis keeps the key and `lost` or `accepted` keeps its
reason. `OnlyGenuineGetIn` and `AnswersTellTheTruth` follow; `ServiceKeepsWindow` shows that the instances, with whatever
happens to them, are still `SeenWindow` without slack. `ServiceRefusedHaveTwins` carries `RefusedHaveTwins` over to
instances that crash and restart.

`AnsweredAreKept` (`OkIsKept`) follows an event to the end. `AllHeld`: an accepted event is, for each plugin opened that
keeps events, stored, or unsaved at the instance that took it, or dropped after its write to that plugin failed, or lost,
and only an instance that serves has calls or unsaved events. With `Covered` this says where the event is that an OK stands for; `DocumentTellsKey`, that the document of an
event has the event's key. What is left is that the plugins opened are those of the list, which is the theorem
`OpensTheList`: the plugins opened are the ones whose names stand between two commas or ends with nothing but spaces
around them, or noop if there is none. The induction over the list that this needs is again a least place at which
`SplitSoFar` (which parts there are after n tokens, and what each reads) would be wrong. `ServiceAssumption` says that
the list is a sequence of tokens.

### Only model-checked

* All liveness (`AddedIsWritten`, `CallsReturn`, the fairness half of `ImplementsStream`, the `liveness` run,
  `ShutdownEnds`), which is out of the prover's reach.

Every invariant that a passing run checks is a theorem, and so is every action property and the safety half of every
refinement. The `Viol*` runs are counterexamples, for which a run is all there is to have. `PerUserOrder` is no property of
a run; it is proved under the assumption of one worker because it is false for two.

## 7. Not modelled

* The generated messages and descriptors (`pkg/pb/*.pb.go`, the options of `protoc-gen-openapiv2`, `google/api`): data of
  the protobuf library, without control of the program's own. They are more than half of the lines of the repository.
* The Swagger pages, metrics, tracing and logging, the token refresh and the validator of the IAM SDK, the drivers of the
  backends: library wiring and I/O. What the backends do is modelled from how the plugins use them.
* `RetryPolicy`, `NextBackoff` and `HealthCheck`, which nothing calls; `Size`, `Stats` and `Ping`, which only read.
* A second call of `Shutdown` (it would close a closed channel): the application calls it once.
* The composition of everything in one state space. `Application` and `Service` have the processor as a ledger, which
  `KeepsLedger` justifies for the first; that `Service`'s queue and workers, reduced to `unsaved`, are the processor's is
  an abstraction stated in the module and not a theorem.

## 8. Running

    tlc -workers 2 -config ProcessorPool.cfg MCProcessor     # likewise for the other configurations
    tlc -workers 2 -config Batcher.cfg Batcher
    tlapm ProcessorProofs.tla                                # likewise for the other proof modules
