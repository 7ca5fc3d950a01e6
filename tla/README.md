# TLA+ specifications of tiny-cache

tiny-cache is a key-value cache with a gRPC interface, time-to-live and size
limits, kept in memory or in a SQLite file. This directory holds TLA+ modules
that model it, TLC configurations that check them on small instances, and
proofs that TLAPS checks for all instances.

    tlc -workers 2 -config MemoryStoreLimits.cfg MCMemoryStore
    tlapm MemoryStoreProofs.tla

`PROJECT.json` lists, for each definition, the source lines it translates, the
runs with their properties, for each property a mutation of the model that
breaks it, the hazards of the code and the findings. The operators whose comment
begins with "A bug:" are these mutations. No action uses them.

## 1. Inventory

| Component | State | Operations | What is hard |
| --- | --- | --- | --- |
| Memory store (`infrastructure/memory_store.py`) | `OrderedDict` in order of use, `current_memory_bytes`, counters, one lock, a stop event | `get`, `set`, `set_if_absent`, `compare_and_set`, `delete`, `stats`, `clear`, `stop` | accounting over pop, restore, evict and expire; loops with the lock held; limits at the boundary |
| Expired entry cleaner (`memory_store_cleanup.py`) | a thread with a snapshot | wait, snapshot, check, remove one by one | the snapshot is stale when it is used; it must go on after errors and end after `stop` |
| Entries, limits, results (`memory_store_models.py`, `application/results.py`) | none | expiry test, clamped limits, statuses | boundaries |
| SQLite store (`sqlite_store.py`) | rows of a file, `entry_count`, `current_memory_bytes` and counters beside it, a connection | those of the memory store, and loading at a start | crash or SQL error between two transactions; restarts; the clock starts over at a boot; closing while others work |
| Store port (`application/ports.py`) | none | the interface of both stores | both stores must keep the same promise |
| Application service, validation (`application/service.py`, `domain/`) | none | namespace and key to storage key, then a call of the store | keys that meet; lengths at the boundary |
| gRPC handlers, batches (`transport/grpc/servicer.py`, `batch_mapping.py`, `status_mapping.py`, `response_mapping.py`) | one coroutine per call, one job per call in a thread pool | nine handlers | other callers between the items of a batch; partial failure; cancellation while a thread works |
| Request lifecycle, interceptors (`request_lifecycle.py`, `interceptors.py`, `transport/active_requests.py`) | the count of active calls, the request id of a context | enter and leave the scopes of a call | every way out must leave the scopes |
| Health and metrics (`grpc/health.py`, `http/health_app.py`) | serving status | health, readiness, stats, metrics | requests that share the thread pool with the calls; answers while starting and stopping |
| Process (`main.py`, `store_factory.py`) | started parts, the shutdown task | `serve`, signals, shutdown | a start that fails half way; shutdown that begins twice; stopping the store under working threads |
| Command line client (`cli.py`) | a channel, a call with a deadline, an exit code | one command per call of the service | a deadline that races the answer; exit codes that scripts act on |
| Protocol messages (`cache.proto`) | none | | counters of any size in 32-bit fields |
| Configuration, TLS, logging (`config.py`, `tls.py`, `logging.py`, `protobuf.py`) | none after the start | | ranges of numbers |

How they interact: a handler on the event loop hands its work to the thread
pool with `asyncio.to_thread`; the thread calls the application service, which
validates, forms the storage key and calls the store; the store's lock orders the
threads, the cleaner and the HTTP handlers. `main.py` starts the parts in
order and stops them in the reverse order.

What makes each part correct:

- **stores**: the counters agree with the content; the limits hold; nothing that
  is alive is lost but by a call, an eviction or (SQLite) a failure of a write of
  its key; nothing that has expired is served; expired entries leave in the end;
  no call blocks for ever; both keep one contract.
- **application service**: different namespaces never meet in one storage key.
- **gRPC**: an answer says of each item what happened; no effect after the
  answer; every call ends; the count of active calls is exact.
- **process**: nothing that was started is left running; the store is stopped
  last and once, when no caller waits for it; no call is accepted before the
  store is there; a process that was told to end does.
- **client**: the exit code of a write tells what became of the value.

## 2. Plan

1. `CacheModels`, `CacheContract`, `MemoryStore` and its proofs — done.
2. `SqliteStore` over the same contract, with crashes, restarts, errors, and its
   proofs — done.
3. `StorageKey` and its proofs, which cover strings of any length — done.
4. `GrpcService`, composed with `CacheContract`, and its proofs — done.
5. `StatsMessage`: counters in the fields of the message — done; the hit rate
   and the HTTP rendering of the same numbers are left out.
6. `Server`: startup with failing steps, signals, shutdown, the serving status,
   HTTP requests, and the store closed under calls that are under way, composed
   with `GrpcService`; `Cli` beside it; and their proofs — done.
7. Theorems for every safety and action property that a passing run checks, and
   for how the parts fit: what is said of the calls and of their use of the store
   holds in the whole process, beside its HTTP requests and its shutdown — done.

## 3. The modules

| Module | Models |
| --- | --- |
| `CacheModels` | entries, expiry, limits and results; no state |
| `CacheContract` | the abstract store: a map of entries that may drop what has expired; `Contents` says what it may hold when it is opened, `MayFail` whether a write may fail half way |
| `MemoryStore` | `CacheStore` with its cleaner thread |
| `SqliteStore` | `SqliteCacheStore` with its file, its process and its cleaner |
| `StorageKey` | namespaces and keys |
| `GrpcService` | handlers, thread pool, batches and cancellation over a `CacheContract` store |
| `StatsMessage` | the numbers of a store in the fields of `CacheStats`, over `MemoryStore` |
| `Server` | the process: `serve()`, signals, shutdown task, HTTP listener and health service around the calls of `GrpcService` |
| `Cli` | commands of the client beside other clients of `Server` |
| `CacheModelsProofs`, `SequenceLemmas` | lemmas about entries and their bytes, and about sequences |
| `MemoryStoreProofs`, `SqliteStoreProofs`, `StorageKeyProofs`, `GrpcServiceProofs`, `LostUpdateProofs`, `ServerProofs` | theorems about the modules they name; `LostUpdateProofs` continues `GrpcServiceProofs`, and `ServerProofs` is about `Server` and `Cli` |
| `MC...` | constants for TLC |

### Data

Keys and values are model values; a value has a size (`SizeOf`, which stands for
`sys.getsizeof` and so is positive). Clock readings and times to live are whole
seconds; the code's clock is finer, but all its decisions compare a difference of
readings with a whole ttl. The sum of the sizes of entries is the
cardinality of a set of bytes, `BytesOf`, which TLC can count and about which
the library's theorems on finite sets apply. The limits are the resolved ones:
`max_value_bytes` is the clamp of `CacheStoreLimits.resolve`. The hit rate is left
out.

### The lock, and what a step is

In both stores a public method without a loop is one step, which reads the clock
once. A method that evicts or purges takes one step per round and keeps the lock,
`holder`, in between; time, `stop()` and the unlocked work of the cleaner go on
between its rounds. A `set`, `set_if_absent` or `compare_and_set` begins with the
step that checks its condition and pops the old entry, goes on with one
`_evict_lru` for each round of either loop, and ends with `RejectOversize` or
`StoreOrExhausted`. In between the popped entry is in the frame only.
Properties speak of `Held(k)`: the entry of `k` as a caller who waits for
the lock may rely on it, in the store or in the frame.

The loop over a list of keys (cleaner, `stats`) may take the keys in any order;
the code takes them in the order of the container. This allows more behaviours.

### The cleaner

`CleanerSnapshot` (locked), `CleanerCheck` (not locked), `_remove_if_expired` once
per key (locked), and `CleanerExit` when `wait` returns with the event set. The
event is only looked at in `wait`, so a pass goes on after `stop()`.

### SQLite

Every step commits at most one transaction, so a crash falls between two
steps. `Crash` and `Exit` keep the table and nothing else; `Start` loads the
two numbers; `Reboot` sets the clock back to zero while the process is down.
`StatementFails` rolls back the next transaction of the method that has the lock
and leaves it; a first statement that fails changes nothing and is a stuttering
step, but for a `get` whose delete fails after it has counted the miss
(`GetFails`). `Persisted` is the content of the file at the beginning and may break
the limits, as after a restart with lower ones. `Close` may come at any
time after `stop()` when the lock is free, since the join of the cleaner is given
up after five seconds; calls on a closed connection raise and change nothing.
A query for the least recently used row may return any of several with the same
`last_accessed`. The loss of the last commits at a power failure (`synchronous`
is `NORMAL`) is not modelled, nor several processes on one file, which the
documents rule out.

### gRPC

`Begin` is what runs on the event loop up to the `await`: both scopes are
entered and the job is queued. A worker takes the oldest job (`StartJob`) and
works through its items, each a call of `CacheContract` that waits for
its lock. `Answer` resumes the handler. `Cancel` is the `CancelledError` that
asyncio throws into a waiting handler: the scopes are left, a job that is still
in the queue is dropped (its future is cancelled), a running one is not.
`StoreRaises` and `WriteRaises` stand for exceptions of the store; the latter
may lose the old entry of its key, as the SQLite store does. The thread pool
and asyncio are external. `committed` is a history variable.

### The process

`Server` adds to the calls what `main.py` does around them. `main` is how far
`serve()` has come: `new`, `created` (the store is open, the servicers exist),
`started` (gRPC listens), `serving` (HTTP listens too, signals have their
handlers), `ending` (`wait_for_termination` has returned), `closing` (`serve()`
has returned or raised and `asyncio.run` cancels what is left), `exited`.
`shutdown_task` is the task of `_begin_shutdown`: `draining` and `cancelling` are
`grpc_server.stop` within and after its grace period, `cleaning` is the cleanup of
the HTTP runner followed by the stop of the store. Each step of the start may
raise: only a refused port stops the store on its way out. Each step
of the shutdown may raise too, which the code logs before it goes on.

The calls of `GrpcService` are taken over action by action, with what the
process adds to their guards: the server accepts between its start and its stop,
handlers go on while the loop runs, the SQLite store raises when it is closed
(`CallClosedStore`, recorded in `met_closed`), the memory store never does.
`Probes` are HTTP requests that read the statistics; they use the pool but are not
counted, and a client that goes away does not cancel them. `HealthCheck` is a
call of the standard health service behind the same interceptors, which await what
the handler returns.

External, and modelled from their use: `grpc.aio` (`stop` refuses new calls
at once, cancels what is left after the grace period and returns when no call is
left; `wait_for_termination` returns after it), `aiohttp` (`cleanup` returns when
no request is left), `asyncio.run` (cancels all tasks, then waits for the pool).

### The client

A command of `Cli` waits for its channel, makes one unary call and ends with the
exit code that `cli.py` gives to the answer. `RpcError` is any `AioRpcError`, in
particular the deadline: it may come at any time while the command runs, also with
the answer under way, and the server may cancel the call then, later or never
(`GrpcCancel`), so that the work may go on after the command has ended.

### Statistics

`StatsMessage` takes the snapshot that `stats()` returns and builds the message
from it: a number above `Int32Max` makes the constructor raise, which the handler
answers by `INTERNAL`.

### Names

Definitions keep the names of the code (`_remove_entry`, `_evict_lru`,
`current_memory_bytes`); steps that have no function of their own are named for
what they do.

## 4. The runs

| Run | Instance | Shows |
| --- | --- | --- |
| `memory_limits` | 3 keys, 3 sizes, 2 places, 3 bytes, value limit above the memory limit | types, exact accounting, limits, no `CAPACITY_EXHAUSTED`, LRU, the contract |
| `memory_expiry` | 2 keys, 1 place, ttl 1, clock to 2 | no live entry lost to the cleaner or to a rejected write; losses counted; the contract, with time; expired entries leave, loops end, `stop()` ends the thread |
| `sqlite_failures` | 2 keys, 1 place; the file is new or was left over the limits; 1 crash or SQL error | the numbers agree with the table; a full file does not grow; the row used last is as hot as any; what a failure may cost; losses counted; the contract |
| `sqlite_liveness` | 2 keys, 1 crash, error or reboot | the cleaner survives errors; `stop()` completes |
| `grpc_calls` | 3 calls out of 11 kinds, batches of 0, 2 and 3 items, 2 keys, one write with a ttl of 1, clock to 1 | no lost update; exact count of active calls; complete and truthful answers; no effect after the answer |
| `storage_key` | keys of up to 7 characters over `1 : a`, headers with blanks and bad characters | namespaces never meet |
| `server` | 1 call or command of 6 kinds, 1 HTTP request, 1 worker, both stores, one failure of each part | the store is stopped once, and after the callers are answered; the count of calls; exit codes; the store stops, the process ends, every call ends |

Bounds. `MaxClock` bounds the clock. One tick after a write makes a ttl of 1
expire; a second one lets the entry that took the place of an expired one expire
in its turn. Further ticks add no new order of events. Entries without a ttl are
in `memory_limits`, in the old files of `sqlite_failures` and in the gRPC runs.
`MaxEvents` bounds the counters. It guards only the start of a call that may
count, so every loop that was begun ends, and two counted events may come between
two calls of `clear`, with any number of deletes. No guard of the code looks at
the counters. Two keys are a victim and a key being written; three, with two
places, give the recency order a middle. Of the three sizes two small ones fit
together, two large ones do not, and the huge one never fits.
`MaxMishaps` is 1: every state that a failure leaves is one in which the invariants
must hold again, so a second failure starts from nothing new. Keys
and calls are symmetric in the runs that check safety alone; no run with liveness
uses symmetry.
The `server` run has one call and one HTTP request: the lifecycle looks at calls
only to see whether one waits, so what matters is that a call and a request,
which drain at different steps, can each be late, queued behind the other or
cancelled. How several calls interleave in the store is the question of
`grpc_calls`.
Deadlock is checked except in the gRPC and server runs, where the system stops
when all calls have ended or the process has.

Five runs are expected to find a violation, each of a sentence in the
documents; `PROJECT.json` quotes them under `findings`:

- `sqlite_persistence`: an update of a live key loses it if the process ends
  between the delete and the insert;
- `sqlite_reboot`: an expired row is served again after a reboot, because
  `created_at` is a monotonic reading;
- `storage_key_collision`: without a namespace, the key `3:foo:bar` is the
  key `bar` of namespace `foo`;
- `health_check`: a `Check` of the standard health service is answered by
  `UNKNOWN`, since the interceptors await a method that is no coroutine;
- `stats_width`: a counter that has outgrown 32 bits makes `Stats` answer
  `INTERNAL` (2 stands for the largest number of the field).

`docs/specification.md:83` says that an entry is expired when its age is `> ttl`,
where line 111 of the same document and the code say `>= ttl`; the model follows
the code.

Fairness. A thread that holds the lock goes on (weak fairness of its steps). A
thread that waits for the lock may be passed by others, Python's lock being
unfair, but it is not passed for ever: strong fairness for the locked
steps of the cleaner, for closing the connection and for the store calls of
workers. `wait(cleanup_interval)` times out and returns at once when the event is
set. In `Server` fairness is stated for each process, which is at one kind of step
at a time: the pool takes jobs (`WF`), a worker gets on with its job (`SF`, for the
lock), the event loop resumes a handler and throws the cancellations that the
shutdown or `asyncio.run` has asked for (`WF`), the shutdown task goes on (`SF`,
since stopping the SQLite store needs the lock), and so does `serve()` (`WF`).
Clients, signals, the clock, `stop()`, failures, the start of `serve()` and the
next start of a process are not fair. `CallsReturn`, that every accepted
call is answered or cancelled, is checked in `server`, where the end of the
process is one of the things that may overtake a call.

## 5. The proofs

The theorems hold for all keys, values, sizes, ttls, limits, requests, numbers of
workers and bounds that satisfy the assumptions of the modules; `Keys` and `Rpcs`
may be infinite. The assumptions say that sizes and limits are positive numbers,
that bounds are natural numbers, that `None` is none of the records, keys and
values it is told apart from, that no value is one of the status codes that an
answer may have in its place (`ValuesAreNoStatuses`: bytes are no member of an
enumeration), that a file has finitely many rows, and that a string is a finite
sequence of its characters (`StringsAreSequences`).

| Theorem | Statement |
| --- | --- |
| `MemoryStoreProofs!Invariance` | `Spec => []Inv` |
| `TypeCorrect` | `Spec => []TypeOK` |
| `AccountingCorrect` | `Spec => []AccountingExact` |
| `LimitsRespected` | `Spec => []WithinLimits` |
| `NoCapacityRejection` | `Spec => []NeverExhausted` |
| `FramesAreConsistent` | `Spec => []FrameConsistent` |
| `LiveEntriesKept` | `Spec => LiveEntryKept` |
| `LossesAreCounted` | `Spec => LossesCounted` |
| `LastUsedIsKept` | `Spec => LastUsedSurvives` |
| `ContractImplemented` | `Spec => ImplementsContract` |
| `SqliteStoreProofs!Invariance` | `Spec => []IInv` |
| `TypeCorrect`, `AccountingCorrect`, `NoCapacityRejection` | `TypeOK`, `AccountingExact`, `NeverExhausted` are invariants |
| `GrowthLimited` | `Spec => GrowthWithinLimits` |
| `LiveEntriesKept` | `Spec => LiveEntryKept` |
| `LossesAreCounted` | `Spec => LossesCounted` |
| `LastUsedIsHottest` | `"reboot" \notin Mishaps /\ RowsOfThisBoot => (Spec => []LastUsedHottest)` |
| `ContractImplemented` | `"reboot" \notin Mishaps => (Spec => ImplementsContract)` |
| `StorageKeyProofs!KeyInvariance` | `Spec => []KeyInv` |
| `KeysAreAccepted`, `NamespacesAreIsolated`, `SharedKeysAreExact` | `StoreAcceptsKey`, `NamespacesIsolated`, `SharedKeyspaceExact` are invariants |
| `GrpcServiceProofs!CallsInvariance` | `Spec => []GInv` |
| `ActiveCountExact`, `AnswersAreComplete`, `AnswersAreTruthful` | `ActiveExact`, `AnswersComplete`, `StatusTruthful` are invariants |
| `EffectsStayInScope` | `Spec => EffectsInScope` |
| `CallsTypeCorrect` | `Spec => []TypeOK` |
| `StoreUsedByContract` | `Spec => Store!Spec` |
| `LostUpdateProofs!UpdatesInvariance` | `Spec => []UInv(Rpcs)` |
| `UpdatesAreNotLost` | `Spec => []NoLostUpdate` |
| `ServerProofs!CommandsAreClients` | `CliSpec => ServerSpec` |
| `ServerInvariance` | `ServerSpec => []SInv` |
| `ServerTypeCorrect`, `StoreStopsOnce`, `ShutdownDrainsFirst`, `CallsAreCounted`, `ExitCodesAreTruthful` | `ServerTypeOK`, `StoppedOnce`, `DrainedFirst`, `CallsCounted`, `ExitTruthful` are invariants of `CliSpec` |
| `ServerTellsTruth`, `ServerLosesNoUpdate` | `StatusTruthful`, `NoLostUpdate` are invariants of `CliSpec` |
| `ServerEffectsInScope` | `CliSpec => EffectsInScope` |
| `ServerUsesContract` | `CliSpec => Store!Spec` |

**Memory store.** All rests on one inductive invariant, `IInv`: the five parts of
`Inv`, which the runs check, and that the set of bytes is finite. No part is
inductive alone. `TypeOK` needs exact accounting, or the counter could become
negative when an entry is removed. Accounting needs `FrameConsistent`: if the
key of a write were in the store when the write ends, its bytes would be counted
twice. The limits count the popped entry; without that a rejected write that
puts it back could not be shown to respect them. And
that no write is rejected for lack of room needs all of them: when the
loop has emptied the order, the store is empty, so the counter is zero, so a
value no larger than `max_value_bytes` fits, since that is clamped to
`max_memory_bytes` (`RoomIsLeft`). The refinement maps the cache of the contract to
`Entries`, the store with the popped entry in its place, and the pending write to
the frame; `RInv` adds that a `compare_and_set` under way has popped the entry that
it compared, whose value is in its answer. Every step is then one of the
contract's or changes neither. In particular the abstract `Reject` changes nothing,
because the popped entry was never gone.

That losses are counted is a statement about a set, the keys whose `Held` becomes
`None` in the step. It is empty or has one member, because each step removes at
most one entry and a popped one is still held; the case that takes an argument is
the eviction, whose victim is in the order, so in the store, so not the key of the
write (`FrameConsistent`). That the key used last survives needs one more
invariant, `UsedLast`: as long as the last call that returned was a use, its key is
absent or the last in the order. Every use appends its key (`UseStep`); taking out
another one leaves the last one last (`RemoveFirstKeepsLast`); a write in progress
puts nothing in before it answers; and an answer that is a refusal is no use, which
is where `ValuesAreNoStatuses` is needed. Since the order holds each key once, its
head is not its last key when it has two.

**SQLite store.** The same argument with the table in the place of the
dictionary; `IInv` says of the table that it has finitely many rows and bytes, and
claims exact numbers only while the process is not down. A start makes them exact
whatever the file holds. A growth step is one in which the numbers and the row in
the frame together exceed what they were, so restoring a row is none. In the
refinement a failed statement or the end of a process in the middle of a write is
`Fail`, the step that the contract allows to lose the key of the write. A
reboot sets the clock back, which the contract does not know; hence the premise.
`LastUsedIsHottest` has the same one, and for the same reason that the first file
holds no row that was used later than the clock says (`RowsOfThisBoot`). Its
invariant, `HotInv`, says that no row, in the file or in a frame, was used later
than now. The premise is needed: TLC finds a row used at time 1 that is hotter,
after a crash and a reboot, than the one that a later call used at time 0, so that
the eviction takes the newer one until the clock has caught up. `LossesCounted` is
proved as for the memory store, step by step; it says nothing of the steps that
fail, whose losses nobody counts.

**Storage keys.** `KeyInv` says that the entry, when there is one, is the encoding of
a normal caller that wrote it last, and of the one that read it last. Isolation is
then that `Namespaced` is injective (`EncodingIsInjective`), for namespaces and
keys of any characters: a namespace is as long as the number before it says, and
the number ends at the first colon, since a digit is none (`SplitAtFirstColon`,
`DecimalHasNoColon`). No induction over strings is needed: the first character
that is not a blank, and the last, exist because sets of numbers have least and,
if bounded, greatest members (`LeastExists`, `GreatestExists`).

**gRPC.** `GInv` relates four things: the phase of a handler, the progress of its job
(`InStep`: as many outcomes as items are done, a job is queued, running, done or
dropped as its handler waits, was answered or was cancelled), the queue and the
write in progress (which belongs to a running job at an item of a write), and the
history (`Booked`: an item is in `committed` exactly if its outcome says so). The
properties follow from it at once. It is stated for a set of calls, so that
`Server` can use it for the calls beside its HTTP requests. `StoreUsedByContract`
says what it means that the servicer is a client of the store: with the
projection to the variables of the store, each of its steps is one step of
`CacheContract`, with writes that may fail, or none. So what `GrpcService` takes for
granted of its store is no more than what both stores are shown to implement, the
SQLite store as long as the host does not reboot.

**No lost update.** Let a value be *stored* by the writes that put it under a key,
and *replaced* by the `compare_and_set` calls that expected it. `UInv` says that for
every key and value the number of replacements, plus one if the value is there or
the `compare_and_set` in progress has found it, is at most the number of times it
was stored. A commit of that call turns the one into a replacement; any other
commit adds to both sides; an eviction, an expiry or a failure only takes away.
The argument asks of a step no more than `CallsMove`: it is one of a worker, or it
leaves the store and the history alone, keeps the request of every call that has
begun and gives no outcome to a job that runs.

**Process.** `SInv` has the invariant of the calls, and says which `main` goes with
which `shutdown_task` and state of the store (`Lifecycle`), and what has drained
when (`Drained`): from `cleaning` on no call waits unless `grpc_server.stop`
has raised, from the stop of the store on no request does. For most steps it is
enough to know that a call only goes on (`Onward`) or that the lifecycle stays as
it is. `CommandsAreClients` carries all this over to the composition with the
client; `ExitInv` adds what a command knows of its call. Every step of the process
is a `CallsMove` (`StepsMove`), be it of a probe, of a health check or of the
shutdown, so that the theorems about `GrpcService` and about lost updates carry over
from their lemmas. `ProbesRead` is added for `StatusTruthful`: an answer over HTTP has
no items, and is none to a write.

Checked by TLC only: liveness (`ExpiredRemoved`, `LockReleased`, `CleanerEnds`,
`StopCompletes`, `StoreStops`, `ProcessEnds`, `CallsReturn`), since the prover has no
rules for fairness and `ENABLED`.

## 6. Not modelled

- `config.py`, `tls.py`, `logging.py`, `protobuf.py`: run once at the start; the
  ranges that they accept are assumptions on constants, and a file that cannot be
  read is a start that raises. The environment, the parsing of numbers and the
  construction of credentials have no state that could go wrong later.
- HTTP: the rendering of the numbers (JSON, Prometheus text), `/` and `/live`,
  which answer without looking at anything. `/ready` goes on to answer 200 while
  the gRPC server drains, as `/health` does; no document says otherwise.
- The `Watch` stream of the health service.
- `cli.py`: the parsing of arguments, files and TTLs, and the output. The wait
  for the channel has no deadline, so a command without a server does not end.
- SIGTERM before its handlers are installed ends the process by its
  default action, which needs no model.
- The hit rate, a quotient of two counters.
- The five seconds of the joins: time in the model is in the clock of the
  store; a join that ends and one that is given up both let `stop()` go on.
- Request ids, logging, log levels, wording of errors.
