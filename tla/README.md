# A formal model of A3S Boot

A3S Boot is an asynchronous Rust framework in the style of NestJS: modules with
providers and lifecycle hooks, controllers and a request pipeline, message
transports, queues, schedulers and resilient clients. This directory holds TLA+
modules translated from its source, TLC configurations that check them on small
instances, and proofs that TLAPS checks for all instances. Paths below are
relative to the crate's `src/`, unless they begin with another directory of the
repository.

Run a check with `tlc -config Leases.cfg MCLeases`, a proof with
`tlapm PostgresQueueProofs.tla`. `PROJECT.json` maps every definition to the lines
it models, and lists runs, mutants (one plausible bug of the code for each
property, which breaks it), hazards and theorems.

## 1. The system

| Component | State | Operations | Hard because of | Correct if |
|---|---|---|---|---|
| Module registry `app/registration.rs`, `app/builder.rs` | registered and active modules, pending order | register (imports, forward imports), finalize | recursion over graphs that may be cyclic | modules follow their imports, each once; only cycles are refused |
| Application `app/application.rs`, `handle.rs`, `context.rs`, `microservice.rs` | handle's `initialized`, what each module's hooks did | build, init, listen, start_all_microservices, close, serve_with | hooks that fail half-way, futures dropped by a signal or a caller | what a life bootstraps it destroys; only bootstrapped modules serve |
| Lazy modules `app/lazy.rs` | cache of loaded modules | load, load_async | concurrent loads of overlapping graphs | one instance of each module |
| Provider definitions, resolution `provider/definition.rs`, `module_ref.rs`, `entry.rs` | providers, exports and overrides of each module, caches by scope and context | register, plan, resolve, seed, get | scopes that outlive one another, aliases, visibility, order of overrides | only the broken is refused, contexts stay apart |
| Provider instances `provider/cache.rs`, `entry.rs`, `resolution.rs` | slots (vacant, building, ready), process-wide graph of waiting threads | resolve, build, fail, panic, seed asynchronously | threads block on one another's builds | no deadlock, no lost wake-up, one instance, no false cycle |
| PostgreSQL queue `queue/postgres*` | table of jobs, leases, deduplication owners, successors; worker loops | enqueue, claim, heartbeat, release, finish, recover, clear, retention, start, shutdown | several processes, crashes, lost replies, expiring leases, retries | one owner per job, outcomes final, attempts counted once, nothing lost, all ends |
| In-process queue `queue.rs` | jobs in the external a3s-lane crate, workers, a `Notify` | the same, with notifications | notifications without a permit, restarts that overlap | workers bounded, jobs end, shutdown returns |
| Scheduler `schedule.rs` | jobs, task handles, running flag, a lock for each | schedule, remove, clear, start, shutdown, tasks | each call takes several locks in turn | a registered job is spawned once; shutdown stops all |
| Service client `service_client.rs`, `resilience/` | bulkhead counter, breaker, attempts | call with permit, admission, retries; circuit_state | lock-free counter, late results, dropped futures | bound kept, probes end, calls end, breaker heals |
| Service discovery `service_discovery/` | instances, etcd cache, watch, leases | upsert, refresh, watch, register, shutdown | snapshots and events out of order | the cache follows etcd |
| Routing `routing/`, `versioning.rs`, `app/builder.rs` | the table of routes | prefix, version, preflight, duplicates, match | precedence of paths, hosts, versions and methods | the answer does not depend on the order of declaration |
| Request pipeline `pipeline/`, `routing/controller.rs`, `route/`, `transport/pattern.rs`, `websocket/gateway.rs` | what is composed for each handler; a request's place in the chain | builder calls in any order, overrides; run, filter | scopes and orders of declaration; interceptors that call on twice, late or never | what is declared reaches the handler, nested as declared |
| HTTP adapter and exchange `adapters/axum.rs`, `http/`, `error.rs` | one exchange | limits, dispatch natively or by the application, filters, HEAD, OPTIONS | two kinds of routing, responses from five sources | whole bodies, true statuses and headers |
| Validation, serialization `validation.rs`, `serialization.rs` | one request's data | validate, transform, shape | options of several scopes, several validators | handlers get what was validated |
| OpenAPI `openapi.rs` | the document | schemas, operations, components | overwriting and merging of parts | the document says what is declared |
| WebSocket gateways `websocket/` | table of connections and rooms | open, close, join, broadcast | open against close, failing hooks | closed connections are gone |
| Message transports `transport/` | brokers, servers, tasks of messages | send, emit, deliver, acknowledge, serve | acknowledgement against crash, panic and reconnection | acknowledged is handled |
| Events, CQRS, health `events.rs`, `cqrs/`, `health.rs` | registries of handlers | register, emit, execute, check | handlers that register, remove or fail during a call | a call runs what it found |
| Database `database.rs` | log of the in-memory backend, a transaction's statements | execute, begin, commit, roll back | clones of a transaction used at once | logged once, with what was accepted |
| Sessions, rate limits, cache `session/`, `security/rate_limit.rs`, `cache.rs` | maps under one lock each | load, change, save; acquire; get, set | check-then-act, a clock read early | cookie follows data; limits; true hits |
| Idempotency, outbox `idempotency.rs`, `outbox.rs` | maps under one lock each | begin, complete; enqueue, dequeue | users' check-then-act | - |
| HTTP messages, authentication, HTTP and iLink clients, discovery, logging, configuration, testing, macros | none beyond a call | parse, sign, I/O, format, generate | external or sequential | - |

**Interactions.** `BootApplicationBuilder` builds a `ModuleRegistry`; its order is
the order of all lifecycle hooks, which `Application` runs. Finalizing a module
plans its providers (`ProviderResolution`) and initializes its singletons through
`ProviderCache`, and request handlers resolve request-scoped ones there. Queue and
scheduler are providers whose bootstrap and shutdown hooks call `start` and
`shutdown`. A request goes from the adapter (`HttpExchange`) to a route (`Routing`),
through the enhancers that were composed for it (`Composition`,
`HandlerDefinitions`) in the order of `Dispatch`, with `Payloads` validating, and
`ResponseCache`, `RateLimit` and `Sessions` among its interceptors, guards and
middleware; messages (`Transports`) and sockets (`WebSocketGateway`) run the same
pipelines. `ServiceClient` asks a load balancer over a `ServiceDiscovery` for an
instance, inside a permit of its `Bulkhead` and an admission of its
`CircuitBreaker`. Queue workers of several processes meet only in the table.

## 2. The modules

| Module | Models | Composes |
|---|---|---|
| `ModuleRegistry` | depth-first registration with its stack of active modules | |
| `Application` | finalization, hooks, shells, serving; proofs in `ApplicationProofs` | extends `ModuleRegistry` |
| `LazyModules` | loads of module graphs into a shared cache | |
| `ProviderDefinitions` | what is declared of a provider | |
| `ProviderResolution` | registration, plans, scopes, contexts, seeds, gets | extends `ProviderDefinitions` |
| `ProviderCache` | slots, wait graph, resolving threads; proofs in `ProviderCacheProofs` | |
| `LeasedJobs` | abstract: what a queue promises of its jobs | |
| `PostgresQueue` | table, transactions, workers; proofs in `PostgresQueueProofs` | implements `LeasedJobs` |
| `EnqueueRace` | enqueue, finish and clear of that store statement by statement | its commits are steps of `PostgresQueue` |
| `LaneQueue` | the in-process backend: workers, `Notify`, start and shutdown; proofs in `LaneQueueProofs` | its store is `LeasedJobs` |
| `Scheduler` | registry, handles, flag, calls, tasks | |
| `CircuitBreaker` | the breaker's operations | |
| `ServiceClient` | calls over bulkhead, breaker, retries; proofs in `ServiceClientProofs` | extends `CircuitBreaker` |
| `EtcdDiscovery` | snapshots, watch loops, registrations, shutdown | |
| `Subsequences` | the elements of a sequence at some of its positions | |
| `Routing` | building the table; matching a request | extends `Subsequences` |
| `Composition` | lists of enhancers for routes and for other handlers | extends `Subsequences` |
| `HandlerDefinitions` | metadata, validation and overrides of handlers | |
| `Dispatch` | one run through a pipeline | |
| `HttpExchange` | one exchange, from the server's refusals to HEAD | |
| `Payloads` | validators of a request, shaping of a response | |
| `OpenApi` | builders of a document and the document | extends `Subsequences` |
| `WebSocketGateway` | connections, rooms, hooks, broadcasts | |
| `Transports` | brokers, servers and tasks of eight protocols | |
| `Buses` | events, commands, queries, health indicators | extends `Subsequences` |
| `Database`, `Sessions`, `RateLimit`, `ResponseCache` | the component of that name | |
| `Components` | those of the above that are proved about in `ComponentProofs`, `RequestProofs` and `DeclaredProofs`, side by side: what each promises | an instance of each |

The `MC*` modules add only graphs, workloads, bounds and names of model values,
and put components that share no state side by side: a behaviour of `MCQueues`,
`MCCalls`, `MCLeases`, `MCProviderCache` or `MCComponents` is one of one of its parts,
chosen at the start (`part`, `workload`, `shape`), the others rest. This checks the
same behaviours as a run for each. `MCFindings` has two of the components behind
findings, each with a specification in which it runs alone. `MCComponents` extends `Application` and
`Components`, where each of the parts proved about has its own variables, and gives the
other parts the variables `x1` to `x11` in turn. Definitions called *variant* in a comment are
the mutants: nothing else uses them.
Only `ProviderResolution`, which nothing is proved about, has RECURSIVE operators
(a factory that resolves what it needs); elsewhere recursion is a recursive
function or a fold.

### The queues
`jobs` is `boot_queue_jobs`, a row for each id. Every statement or transaction of
`queue/postgres/store.rs` is one step: `Claim`, `Heartbeat`, `Release`, `Complete`,
`Fail`, `Enqueue`, `Clear`. The recovery transaction is not: `RecoverBegin` selects
and locks expired rows, `RecoverRow` handles one in `draft` (a stall, or a terminal
failure with successor and retention), and `RecoverCommit` or `RecoverFails`
publishes or discards the draft. While it is open other transactions wait: those
that touch its rows would wait on their locks, those that do not would commute
with it, so only its atomicity is at stake. `pc`, `held`, `stopping` are a worker
in `run_postgres_worker`; its select is the choice among `ProcessorEnds`,
`ProcessorTimesOut`, `Heartbeat` and `SeesShutdown`. `Crash`, `StatementFails` and
`ClaimReplyLost` are the faults, `Start` the restart.
Deadlines are kept as whether they have passed; `created` and `finished`
are readings of a logical clock, for their order. An owner that is locked by
someone else during an enqueue (`MaybeLocked`) is a choice of outcomes.

`EnqueueRace` takes one-step transactions apart. `tx` holds for each transaction its place,
clock, uncommitted writes, locks, and the rows its statement found: a statement
finds rows in what was committed when it began, waits for their locks and looks at
each again; an insert waits for whoever writes an entry of a unique index it needs.
`LockDeduplication`, `ReleaseExpired`, `LockOwner`, `Join`, `Insert`, `Ensure` are the
statements of `enqueue`, `FinishReads` and `FinishEnds` (and `Insert`) those of `finish`,
`FindAll` and `Delete` the one of `clear`, row by row. `OneStep` compares each commit
with what `PostgresQueue`'s operators make of the table just before it, read at the
transaction's clock; the one difference is an owner that finish stored after the
request released expired ids, which is joined even if its time is over. `PostgresQueue`
has `clear` as one step too; in `EnqueueRace` rows stored while it waits outlive it.

`LeasedJobs` says what any queue owes one job: work is done under a lease whose
token nobody else holds, only an owner ends it or its lease is over, and what
ended is not worked again. `PostgresQueue` maps each row to such a job
(`ImplementsLeasedJobs`), its token to the row's. `LaneQueue` takes the external
store to be `LeasedJobs` with recoveries and is about what `queue.rs` adds: each lock,
store call and wait of start, shutdown, process, enqueue, clear and of a worker's
loop is a step; `woken` and `permit` are the one `Notify` all workers wait for,
`overlapped` remembers that a start ran inside a shutdown. Then more workers may be
alive than one start makes, as the code allows; what `WorkersBounded` says of them in any
case is that someone keeps or awaits the handle of each, and `LaneEnds` that they end.

### Providers
In `ProviderCache` a step is what happens under one lock: `Loop` is an iteration of
`get_or_try_insert_with` (find the slot ready, register in the wait graph and
sleep, or mark it building), `Factory` a resolution the factory on top of the
thread's stack makes, or its end, error or panic; `Finish` the end of a
build, with `ProviderBuildReset` when it unwinds; `SeedBegin` and `SeedEnds` are
`seed_singleton_async`. Wake-ups without a notification exist (`WakesSpuriously`)
and are bounded as faults are.

`ProviderResolution` leaves threads out and has what they ask for: `RegisterModule`
with overrides, the entries a module can look up (its own, exported by its
imports, global), the plan of each with its cycle check, the seeding of
asynchronous factories and the build of singletons in `Finalize`, and `Get` and
its kin, from the root or in a context. `made` has an entry
for each instance, with what its factory was given.

### Scheduler
Registry, handle map and running flag have a lock each, so schedule (register,
check the flag, spawn or undo), remove and clear (job, then handle), start (flag,
copy, spawn one by one) and shutdown (flag, take handles, abort and await one by
one) are several steps each. A task fires, ends, and notices its abort only where
it awaits.

### Modules and the application
`visiting` is the recursion of `register_module` as a stack of frames of what is left
to import, imports before forward imports; `refused` the module a cyclic import
is reported for. `Application` runs *agendas* of hooks: build (init), bootstrap, its
undoing, close. `HookFails` and `Dropped` stop one, `AssemblyFails` refuses a build
whose hooks all succeeded (routes that clash); what then happens is the shell's
code: `init` undoes a failed bootstrap, `close` leaves the flag, `serve_with` shuts
down. `done` remembers for each hook the last stage it completed.
`LazyModules` loads such graphs at run time: a load looks in the cache, registers
its graph with instances of its own, and then caches the names that are still
missing.

### Resilience and discovery
Breaker operations are one step each under the mutex; `opened_at` is kept as
whether the cooldown has elapsed. `Load` and `CompareExchange` are `try_acquire`,
`DropPermit` is the permit's drop; `Admitted`, `Refused`, `Selects`, `SelectsNone`,
`Succeeds`, `Retries`, `Fails`, `Wakes` are `call_request`. `Dropped` is a caller that
drops the future while it awaits; the breaker is not told.
`EtcdDiscovery` keeps etcd's `stored` beside the `cache`; a snapshot is read in one
step and put into the cache in another, a watch loop has a queue of changes it has
not seen, and a registration's keep-alive, cancel and abort are steps. The task of a
registration deletes its key and revokes the lease, looks at the result of neither and
removes the cache entry (`Deleted`, `Uncached`): if both fail the instance is stored and
unseen until its lease runs out. `raced` remembers such an id, and those for which a
snapshot, a second loop or a registration wrote the cache after what it wrote had
changed; `CacheFollows` is about the others.

### From request to handler
`Routing` declares a table by the builder's steps (prefix with its exclusions,
preflight routes, the refusal of duplicates) and asks it one request; a path is a
sequence of segments, `"any"` for a parameter and `"rest"` for a wildcard, its
specificity computed as the code does.
`Composition` applies builder calls to a controller, its routes and their module in any
order, and tracks for each enhancer list where its entries come from;
`HandlerDefinitions` does the same for what is not a list: metadata with its
defaults, validation with options, components replaced by type. `Dispatch` runs a
request through them: level k of the chain is the k-th interceptor, which may call
on, again, twice at a time or never, and drop what it called; `CallHandler`'s
flag refuses a second run while one is under way. `HttpExchange` is what surrounds it:
limits and parsing, 404, 405, HEAD and OPTIONS in both kinds of routing,
the handler a builder makes (its body extractor, its response conversion), filters
and the errors they answer, and what of a response survives. `Payloads` applies
validators one after the other to a body, path parameters or a query string, and
interceptors to a JSON reply. `OpenApi` makes the document of the same declarations.

### Stores and messages
`WebSocketGateway`: the table of connections is one lock, the connected flag of a
connection another; hooks, the writer and a broadcast interleave with closes by the
socket's task, by clones and by failing hooks. A connection has no Drop, so a panic of
its task (`TaskPanics`) leaves it open and in the table until somebody closes it, and one
of a disconnect hook (`CutShort`) leaves it there for good: `GoneIsForgotten` says so of
all others. `Transports`: `inbox`
and `queue` are the broker's, `tasks` the server's; `protocol` decides how a message is
given out, acknowledged, answered and what a lost connection does. `Closed` is a TCP
client that sees its connection end without a reply, the only way its call can end then,
for it has no timeout. `AckedIsHandled` is RabbitMQ's promise; `AnsweredIsHandled` is that
of all eight protocols, and `TcpCallsEnd` that of TCP. `Buses`: a call
copies the handlers it found and runs them one by one. `Database`: the finished flag
and the pending statements are two locks. `Sessions`: middleware, handler and
interceptor of overlapping requests; `stray` and `torn` remember what parts the data
from the cookie, the second only until a request has the session to itself again.
`RateLimit`: the clock is read in one step,
the buckets are changed in another. `ResponseCache`: `get`, the handler and `set`.

## 3. The runs

| Run | Instance | Properties |
|---|---|---|
| `Leases` | 2 workers, 4 tokens, 3 ids. Workload *fencing*: a retried job and a delayed one, processors registered late, 1 fault, batches of 2. Workload *dedup*: three requests of one deduplication id in every order of keep-last, replace, extend; batches of 1 | `SoleOwner`, `AttemptsAreFailures`, `Budgets`, `DedupUnique`, `NoStealing`, `WorkSurvives`, `RetentionKeepsNewest`, `ImplementsLeasedJobs` |
| `QueueEnds` | 1 worker, 2 requests, 2 faults; or the scheduler with 2 clients (one outside the runtime), 1 call, 1 start, 1 stop | `EveryJobEnds`, `ShutdownReturns`; `ShutdownEnds` |
| `Calls` | 3 callers, 2 permits, thresholds 2, 1 retry; or the in-process queue with 2 workers, 2 callers, 2 starts, 1 stop, 1 clear; or a message over TCP to 2 servers that serve twice, 1 fault | `BulkheadBound`, `ProbeReports`, `CallsEnd`, `Heals`; `WorkersBounded`, `LaneEnds` |
| `Live` | 3 threads on a ring of 3 keys, or 2 on a diamond whose third key is seeded; 1 fault | `NoWaitCycle`, `AsleepOnLiveBuild`, `BuiltOnce`, `EveryResolutionEnds` |
| `Components` | the other components, each on an instance of its own (below) | 19 |
| `Poison` | 1 worker, 3 keep-last requests that expire | violates `ExpiredLeaseResolved` |
| `SchedLeak` | 1 client, 1 call | violates `StopsDuringShutdown` |
| `Hybrid` | 2 microservices | violates `HybridServes` |
| `Probe` | as `Calls` | violates `ProbeInFlight` |
| `Rewatch` | 3 calls (bootstrap, refresh, shutdown), 1 fault | violates `BootstrapWatches` |
| `Preflight` | 1 route with a version | violates `PreflightAnswered` |
| `SplitGraph` | 2 loads of one module with an import | violates `ImportsAreCached` |

What the bounds of the first four let happen: two workers and a lease that runs out
give a stale owner, its successor and a recovery, and tokens return to use when
nobody knows them, so that four are enough for any history of two claims in
memory and two in the table; three requests of one id are an owner, its successor
and a competitor. One worker and two requests give a retry, a stall and a crash of
one job and then its successor. Two permits among three callers are contended, and
a late result of a call from before the breaker opened meets a probe. Two starts
and a stop overlap in the two ways there are. A circle of three threads is the
shortest that is not closed by one's own builder (the threads call before the first
build begins, in the order of their keys: which thread has a call, and whether it calls
later or waits to be scheduled, is all the same); in the diamond a
thread waits below what another builds, and the seed comes over it.

The parts of `Components`:

| Part | Instance | Property |
|---|---|---|
| application | every graph of 3 modules with up to 2 imports, a ring and a diamond; 2 calls, 1 fault | `UpInOrder` (`DependenciesFirst`, `RefusedOnCycle`, `UpOnUp`, `NothingLeftUp`), `ServesWhileUp` |
| `EnqueueRace` | 2 requests with any of 4 options beside a claim, a finish, a clear; 2 clock readings, 1 lost connection | `CommitsAreSteps` (`OneStep`, `NoClash`) |
| `ProviderResolution` | 3 modules (library, global middle, application), every way to declare, alias and scope up to the offers of `ProviderOffers`, overrides, 2 contexts, 2 gets | `ProvidersResolve` |
| `Scheduler` | 2 clients, 2 jobs, 2 calls, 2 starts, 1 stop, 1 run of a repeated job | `JobsRunAsAsked` |
| `Routing` | tables of 2 of the declared routes (parameters, wildcards, hosts, versions), each strategy of versioning | `OrderIndependent` |
| `EtcdDiscovery` | 1 instance of 2 values, 3 changes, 2 bootstraps or refreshes, 1 fault | `CacheFollows` |
| `Composition`, `HandlerDefinitions` | 3 and 4 builder calls in every order | `ScopesNest` |
| `Dispatch` | 2 each of guards, interceptors, pipes and filters, 6 polls | `OneRunAtATime` |
| `HttpExchange`, `Payloads` | tables of routes of one path, bodies up to and above the limit, filters that fail; 2 validators with any options, 2 interceptors | `ExchangeHolds` |
| `OpenApi` | 2 described routes, 2 descriptions of each | `DocumentAgrees` |
| `WebSocketGateway` | 2 connections, 1 room, 2 hooks each way | `ConnectionsClose` |
| `LazyModules` | 2 loaders, overlapping graphs, modules registered eagerly or not | `OneModulePerName` |
| `Transports` | 1 call, 2 servers, 8 protocols, 2 serves, 1 fault | `AckedIsHandled` (with `AnsweredIsHandled`) |
| `Buses` | a caller, a module, 2 topics and a wildcard, 4 registrations | `CallsWhatItFound` |
| `Database` | 2 transactions, 2 statements | `LoggedOnce` |
| `Sessions` | 3 requests of a browser, 2 operations each | `CookieFollowsData` |
| `RateLimit` | 3 requests, 2 subjects, a policy of either of 2 limits, windows across the clock's bound | `LimitedWhenFull` |
| `ResponseCache` | 2 clients, 3 calls, every default time to live, 3 times | `HitsAreTrue` |

These are safety properties of two or three actors, each violated in its smallest
form by two of them and one change between; the mutants show that the instances
reach such behaviours. Most properties join several conjuncts about one hazard,
named in the part's module with a comment each.

Deadlock is checked except where the modelled calls may simply be over (their number
is bounded): `QueueEnds`, `Calls`, `Live`, `Components`, `Hybrid`, `SchedLeak`,
`Rewatch`, `Preflight`, `SplitGraph`.

**Fairness.** `MCQueues!QueuesSpec`: a worker's next statement is executed in the
end although other transactions keep getting in between (strong fairness of its
turn, of its claim, and of the selection of each expired row: row locks are
granted in turn, and every batch is ordered by age); deadlines of rows that stay
come. What processors and operators do is not assumed there but in the
properties that need it, by `Operated`: processors return or time out, workers are
started again. `ShutdownReturns` does without. `Jobs!Fairness`: calls under way and
polled tasks run on. `MCProviderCache!ShapesSpec`: a thread that is not blocked is
scheduled, an async factory ends. `Application!FairSpec` (`Hybrid`): hooks return;
nothing is assumed of servers. `MCCalls!CallsSpec`: a call is polled to its end, for
requests have a timeout, and the clock runs; `Lane!Fairness` the same of workers,
processors and the callers of start and shutdown; so `LaneEnds` does not cover a
processor that neither returns nor has a timeout, for whose worker shutdown waits.
`Messages!Fairness`: clients read on and see a connection that is closed, a server accepts
while it listens, handlers return or panic. A host that vanishes without closing its
connections is not covered: a TCP client then waits for good. `CallsEnd` is, of the
service client, about a call that holds a permit, since the compare-and-swap loop is
lock-free and not wait-free; it names one caller, as callers are interchangeable.
`Heals` assumes a service that is well for good, callers that go on calling and none
that drops a call. All other passing runs are about safety and assume no fairness.

## 4. The findings

1. **Poison** (`queue/postgres/lifecycle.rs:226`): a successor that cannot be stored
   makes the recovery of its owner's expired lease fail, again and again, before
   any claim: the queue stands still.
2. **SchedLeak** (`schedule.rs:326`): a job scheduled while the scheduler shuts down is
   spawned after the handles were taken and goes on firing.
3. **Hybrid** (`app/handle.rs:203`): `start_all_microservices` awaits the first server's
   end before it starts the second.
4. **Probe** (`resilience/circuit_breaker.rs:117`): a half-open probe whose caller drops it
   leaves the breaker refusing for good.
5. **Rewatch** (`service_discovery/etcd.rs:163`): the flag that a watch has started is set
   before the watch is opened; after a failure the next bootstrap starts none.
6. **Preflight** (`app/builder.rs:841`): the OPTIONS routes made for CORS carry no
   version, and preflights of versioned routes find none.
7. **SplitGraph** (`app/lazy.rs:113`): two loads of a module at a time can leave in the
   cache a module whose import is an instance that is not in the cache.

Observed and not counted as findings, for want of a sentence to hold them to or of
a run:

- *Queue.* `replace_delayed_owner` keeps the old work's attempts. A job without a
  registered processor is claimed and released again and again ahead of the jobs
  behind it. A keep-last request that finds its owner pending, between two
  attempts say, is answered with the owner and dropped. A request that finds its
  owner gone may fail on the unique index for the successor that finish stored
  meanwhile (`NoClash` allows it), rather than look again. `ensure_idempotent_job`
  reports different work when the row whose id clashed was removed between the two
  statements. A clear beside a finish deletes the finished job and leaves its
  successor, whose request was answered before the clear (`queue/postgres.rs:153`
  says "Remove every job owned by this queue").
- *Breaker, scheduler.* A late success frees the flag of another call's probe, so
  that two are under way. Removing a name while schedule is between
  registration and spawn leaves a task for a job that is not registered, and a
  registration undone by name may remove another caller's job.
- *Providers.* A transient nested in one that is got at the root with `get` is cached
  for its inquirer and used again by later resolutions, where
  `website/content/en/core/application-model.mdx:79` says "Constructed per
  inquirer and reused within one resolution".
- *Routing.* A host that is one parameter, `{tenant}`, is as specific as no host at
  all, and the tie goes by the order of declaration; `OrderIndependent` leaves that
  case out. Natively an unknown path is answered without the global filters and
  before its method is looked at (404; the application's routing answers 405 to an
  unknown method), and the filters of a 405 may be another route's of the path.
- *Pipeline.* The diagram under "Execution pipeline" in
  `website/content/en/protocols/websocket.mdx` puts pipes before guards;
  `websocket/connection.rs:154-206` runs guards, interceptors, then pipes. A component
  wrapped for all protocols (`with_execution_guard` of gateways and patterns) has the
  wrapper's type, and a test's override by type does not reach it. Metadata that a
  controller or gateway sets twice leaves earlier members with the first value.
- *Exchange.* Clones of a streaming response share its one stream: who consumes it
  second gets 500. A JSON handler declared with status 204 is answered 500.
- *Validation.* A repeated query parameter of a type's field is refused by plain
  validation and taken with its last value under whitelist; plain validators do not
  look at inherited options.
- *OpenAPI.* `{*name}` and `{name}` are one path of the document, and so are routes that
  differ in host or version: the last declared is described.
- *Discovery, gateways, database.* The task of a registration ignores that its delete and
  revoke failed. A panic leaves a WebSocket connection in its gateway's table. A statement
  that passed `check_open` and is pushed after `finish` took the statements is answered Ok
  and is in no log (`LoggedOnce` says what is logged, and leaves it out).
- *Cache.* The default key leaves out version, host and identity, where
  `website/content/en/capabilities/openapi-and-http.mdx:76` says "A cache key must
  include identity, tenant, locale, version"; a value computed before a removal is
  stored after it.

## 5. The proofs

All theorems hold for any number of workers, threads or callers and any job,
key or threshold; the only assumptions are the named ones on the constants.
Each is proved from an invariant that is stronger than what it says, given here
with the reason why less is not inductive.

- `PostgresQueueProofs`, first what concerns leases.
  - `Typing`, `Ownership` (`SoleOwner`), `Leasing` (`NoStealing`).
    `SoleOwner` is not inductive: that a claim in memory whose token still fences a
    row is the only one needs that tokens in memory are distinct and that a row under
    such a token holds the claim's work (`ClaimsMatch`); and that recovery keeps
    this needs that the draft of an open recovery differs from the table only in
    the rows it handles (`DraftAgrees`). `IInv` joins both with the types. `Leasing`
    is an action property of the same invariant.
  - `Refinement` (`ImplementsLeasedJobs`). Every step clears
    the table, claims one row under a token that no row has, or is *quiet*: each row
    keeps state and token, is inserted, removed from among the ended, or leaves
    the state active (to pending or to an end), and no token is new (`StepKinds`). Each
    of the three maps to a step of `LeasedJobs` or a stutter. Two facts join `IInv`
    (`RInv`): the draft of a recovery is a quiet change of the table (`DraftSettles`),
    which its commit needs; and the tokens of two rows differ (`TokensApart`), so that
    `LeasedJobs`' owners do.
  Then what concerns the rest of a row. What holds of the table after
  a recovery commits must hold of its draft after each row it handles, so each
  invariant says the same of both, or how the draft differs from the table.
  - `Attempts` (`AttemptsAreFailures`) and `WithinBudgets`
    (`Budgets`), of one invariant: each row of the table, and of the draft,
    counts right (`RowCounts`). Both assume `NothingReplaced`, that no work asks for
    replacement: `replace_delayed_owner` writes the new work over a delayed row
    and keeps the attempts and stalls of the old, which bind the new work. In the
    runs work that is replaced has not been tried before, so both hold there.
  - `OneLiveOwner` (`DedupUnique`). A row that is written keeps its
    deduplication id or gives it up (`Sheds`); only insert_job takes one, and fails where
    the unique index has it (`InsertFails`); the end of a job gives its id up before its
    successor takes it. The same of the draft (`DInv`).
  - `NothingLost` (`WorkSurvives`): an open recovery has left the pending rows of the
    table as they were, and each request kept by an owner is kept in the draft or
    stored there (`DraftCarries`).
  - `NewestKept` (`RetentionKeepsNewest`): of the results in the table the draft keeps
    the newest (`DraftNewest`), which each further row that is ended preserves because the
    results it adds are newer than those it may delete. It assumes that there are
    finitely many ids, so that a batch of deletions has an order, and
    `CountsUnlimited`, that no policy that keeps a number of results also limits how
    many a transaction deletes: `store.rs` then deletes the newest of those in
    excess first. The runs' policies are of both kinds that the theorem covers.
- `ProviderCacheProofs`
  - `Typing`, `NoDeadlock` (`NoWaitCycle`), `NoLostWakeup`
    (`AsleepOnLiveBuild`). The walk of the registration is a recursive function; the
    argument is that if it ends without meeting the waiter, the set of threads it
    visited has an edge out of it or ends at a thread that does not wait, and
    that removing edges closes no circle. Wake-ups need `IdsOK`: ids of
    builds under way are below the next id, and a build is in one slot.
  - `Once` (`BuiltOnce`) and `AtWork` (a slot that is being built has its factory on the
    builder's stack, and nobody waits twice), of `OnceInv`. One instance: only the frame
    whose build the slot names can fill it, and a seed only a slot without an instance
    (`SeedFrames`, `AnswersOK`). Real cycles only: each factory on a stack was asked
    for by the one below it, so its key is in the least set closed under dependencies
    of every key beneath (`Chains`, `Targets`; `Below` is that set, not a recursion); an
    edge of the wait graph is of a build under way in the slot its thread asked for
    (`EdgesLive`); then a walk that comes back to the waiter passes from key to key
    that depends on it, and the key depends on itself.
- `ApplicationProofs`
  - `OnlyRealCycles` (`RefusedOnCycle`): the modules on the stack depend on one another
    in turn (`Chained`), so that one met again depends on itself (`CycleInv`).
  - `InOrder` (`UpInOrder`), `Serving` (`ServesWhileUp`), `Typing`. `RegInv` joins to
    `DependenciesFirst` that an import of a module on the stack is registered, still to
    be taken, or just above it (`VisitsOK`). Hooks run along the order of registration,
    so what an agenda has reached is a prefix of it (`Reached`); `Control` says in which
    call of the shell which agenda can be, and `Settled` that between agendas all is up
    or nothing is, unless one broke off.
- `LaneQueueProofs`, for finitely many workers and natural counts (`Bounds`), about
  `LaneSpec`, the lane of the run `Calls`: `Typing`, `Implements` (`L!Spec`: the jobs in the queue's store move as `LeasedJobs`
  says, each step of worker, caller and clock being one of its steps or a stutter), and
  `Bounded` (`WorkersBounded`). `Sound` has the types and that an active job is the
  claim its worker holds. That each live worker has its handle in the list or in a
  shutdown that waits for it (`Awaited`) holds however calls overlap (`AwaitedNext`). The
  number of workers needs three more facts (`Orderly`), which a start that runs inside a
  shutdown breaks, so that they hold as long as none did (`~overlapped`): one start at a
  time is between its flag and its workers, and finds none alive (`OneSpawns`); a stopped
  queue without a shutdown under way has no live worker (`StopsFirst`), because a
  shutdown that waits has taken all handles (`HandlesTaken`).
- `ServiceClientProofs`: `Invariance`, `Typing`, `Bulkhead` (`BulkheadBound`), `Probing`
  (`ProbeReports`). The bound needs `LoadedBelow`: a value loaded and not yet
  exchanged is below the limit. `ProbeReports` is inductive given the types.
- `ComponentProofs`, the parts of `Components`. `PartsSpec` is any one of them at a
  time, with any constants; each theorem says of it what the run `Components` checks,
  under the part's own assumption, if it needs one.
  - `OneRun` (`OneRunAtATime`), for any number of interceptors (`PipelineGiven`). A
    level's `running` flag says that what is behind it is live, and behind a level that is
    not live nothing is (`ChainInv`): so an interceptor that drops what it called drops
    all of it.
  - `ConnectionsClosed` (`ConnectionsClose`). A connection whose flag is set is in the table
    and nobody closed it; one that is neither open nor closed by anyone is in no table
    (`SocketHeld`): this is what makes the flag choose one closer. A close that was cut
    short keeps a closer of its own name (`"lost"`). `GatewayGiven`: nobody is no closer.
  - `AckedIsHandledAlways` (`AckedIsHandled`), for any servers and calls and all eight
    protocols. A task past its dispatch has run its handler (`PastDispatch`), so that the
    acknowledgement or reply it is about to send is true even if its connection is lost
    first and the message is given out again.
  - `LoggedOnceAlways` (`LoggedOnce`). What is in the log is of finished transactions
    (`LoggedIsFinished`), so that none is logged again; a statement that was accepted is
    pending or was executed (`AcceptedIsPending`), which the two locks, taken one after
    the other, could break; and pending statements are distinct (`PendingOnce`).
  - `HitsAreTrueAlways` (`HitsAreTrue`). Every entry is true of its key and its time
    (`TrueEntries`), and so is what a client is about to store, although others stored,
    removed and waited since it looked (`Storing`). `CacheGiven`: times to live are numbers
    or none.
  - `CookieFollowsDataAlways` (`CookieFollowsData`). It needs of a request in flight what its
    response will do (`Carries` for data without a cookie, `Heals` for a cookie without
    data), each as long as what it does not survive (`stray`, `torn`: overlaps, errors,
    expiry, clears) has not happened, and that it works on the id of its cookie (`OwnId`).
    `torn` ends when a request begins alone, so that `Heals` is established there anew.
    `SessionsGiven`: no id is the absence of one or the word for an expired cookie.
  - `CacheFollowsAlways` (`CacheFollows`). For an id that no two steps raced for, each
    watch's pending events tell the stored value last, or say nothing of the id and the
    cache has it (`LoopTells`), and snapshots taken and puts or deletes under way are true
    (`TrueTo`). `InstancesGiven`: an instance's value is not the absence of one.
  - `Limiting` (`LimitedWhenFull`), for finitely many requests and natural limits, windows
    and waits (`LimitsGiven`). A bucket counts only requests that were let through inside its
    window (`CountsAllowed`), and a request that waits read the clock less than the
    longest wait ago (`InTime`), so that it is inside the window of the bucket that it
    finds, though it may have read the clock before the bucket was made.
  - `HandlersKnowAlways` (`HandlersKnow`, a conjunct of `ScopesNest`), for any builder
    calls. What a member knows
    of a key is its own, or one of what its container was given (`MembersKnow`); that
    whoever disables validation has none to ask for (`Refusing`) makes merging with a scope
    above idempotent, which adding members before or after the container's calls needs.
    `BuildersGiven`: no metadata is none.
  - `OneInstancePerName` (`OneModulePerName`), for names that are modules and an eager set
    that no loader owns (`LazyGiven`). A cached module was made eagerly or is in the graph
    of a load that is over (`Cached`); that its imports are complete needs the whole
    recursion of `register_arc_inner`: on the stack of a load each module has links for
    exactly what it no longer asks for, and asks next for the one above it (`Stack`);
    what it registered has all its links, what it has not come to has none, and each link
    is its own or of a load that is over (`Graph`).
- `RequestProofs`, the parts of `Components` that a request meets, mostly about
  positions of sequences (`Subsequences`; what concerns it alone is proved in
  `ComponentProofs`): a set of positions has a first, because every
  set of numbers has (`LeastOf`), and as many elements are taken as it has positions.
  - `OrderIndependentAlways` (`OrderIndependent`), for any table, strategy, prefix and
    request (`RoutesGiven`: a route's host is not a single parameter, the observation of
    section 4; a prefix is a sequence of segments). Two routes of equal specificity that
    both match a request have the same path and host, segment by segment from the first in
    which they differ (`FirstDiffers`, `SameShape`); their versions both match, so that they
    overlap (`BothVersions`); `validate_unique_routes` refused one of them, unless their
    methods differ. So the best are one for each method (`OneForEachMethod`), and no order of
    them matters (`ReorderedAnswers`).
  - `CallsWhatItFoundAlways` (`CallsWhatItFound`), for any callers, topics and
    registrations (`BusGiven`: a module's definitions are for topics). What a call has called
    and what it has left are together what it found when it looked (`Working`), whatever
    was registered or cleared since; ids in the registry grow (`Registry`), and a command
    or query has one handler (`OneTaken`).
  - `ScopesNestAlways` (`ScopesNest`), for any builder calls and any number of a route's own
    components (`OwnGiven`). A component's place is its scope and its number there. Each
    scope's list has its places in turn (`InPlace`), and a route's those of its controller
    so far and then its own, whenever the route was added (`Follows`, which also says what
    it has of the controller's host, tags and validation): `insert_*_prefix_at` needs that
    the controller's number is where its components end (`PlacesInsert`). `build` then
    joins such lists (`PlacesJoin`, `PlacesConsumed`), and an override replaces a component
    in its place (`PlacesStay`).
  - `ExchangeHoldsAlways` (`ExchangeHolds`), of the exchange and of payloads.
    `ExchangeGiven`: responses, requests and routes are of their types, only an
    HttpException has a status, and a handler that does not make its own response has one.
    What is sent is a valid response or the error in its place, so that its headers are
    true (`SentIsTrue`; lengths that do not conflict are one, `OneLength`); the filters
    are told of the last error alone, by a copy that loses nothing (`ErrorsInv`,
    `ClonesAreWhole`); a handler is called only for what `to_boot_request` lets through
    (`HandledInv`, `LetThrough`); where no route takes all methods, native and
    application routing find a taker or none together (`RoutesTaking`); and the loop over
    the accept header ends with a range that nothing is more specific than (`BestMatchIs`:
    that the recursive function exists, and what it returns, by induction on positions).
    `PayloadGiven`: types require fields they have; no value of a field is the absence of
    one; JSON replies have the length of their items. What the handler is to find holds
    after each validator (`ValidInv`): a query that is still there is what its map says, and no
    field of the last type is repeated in it (`OnceIsOne`), and what a type accepts it accepts as it
    writes it (`WrittenIsValid`). What is left of a reply obeys each option that was merged so far
    (`ShapedInv`): objects only lose fields (`ObjectShaped`), and a shape that is passed over as
    empty asks for nothing (`ShapesMerge`).
- `DeclaredProofs`, the parts of `Components` that do what an application declared.
  - `TrackedAlways` and `JobsRunAsAskedAlways` (`JobsRunAsAsked`), for any clients, kinds of
    jobs and finitely many jobs registered on module init (`SchedulerGiven`; numbers of
    periods are not the absence of one). Each task that was not aborted is under its name
    in the map of handles, or shutdown has taken it and aborts it next (`Tracked`);
    the one that shutdown awaits is the only one that is stopped and not over
    (`Awaited`). That all jobs are spawned needs for each name who will do it, or found
    that it cannot (`Responsible`), and that each of those knows the job by the number that
    is registered (`NumbersKnown`), which holds as long as nothing was removed or
    shut down, or nothing was scheduled (`Orderly`): the finding `SchedLeak` and the
    observations on removal lie outside.
  - `DocumentAgreesAlways` (`DocumentAgrees`), for any routes, descriptions and components
    (`DocumentGiven`: a path names each parameter once, which `validate_route_segment`,
    `routing/path.rs:205`, sees to). The fold of `from_routes` is an induction over the
    routes (`FromRoutesIs`): after the first n the document has, at each path and method,
    the operation of the route that is to be described there (`PathsUpTo`, `PathsStep`), and
    each component as the last visible one of them has it (`ComponentsUpTo`,
    `ComponentsStep`). A route's parameters have each name and place once, whatever was
    described in whatever order (`DescribedKnown`, `UpsertKnown`), and an operation takes
    over those and adds those of the path that are missing (`OperationIs`, `NthHits`).
    Schemas that builders change stay schemas (`SchemasChanged`), and what pick and omit
    make of one are its two halves (`RetainIs`, `SplitWhole`).

Only model-checked: liveness (fairness is outside the prover's reach, as is
ENABLED); what recursive definitions compute for every input (induction over
data, except where it is one over the positions of a sequence, which needs only that
the natural numbers are well ordered); `ProvidersResolve`, whose module has RECURSIVE
operators; `CommitsAreSteps`, whose comparison of a
transaction's commit with `PostgresQueue`'s operators covers all of
a row's fields; and the findings' counterexamples.

## 6. Not modelled

Components that no module models: the outbox and the idempotency store, which
nothing in the crate calls (the protocol around them is the application's); HTTP
messages, forms, files, compression and views, which are parsing and formatting;
authentication, CSRF and headers of security, which decide on one request with
external cryptography; the HTTP client and the iLink client, which are I/O; discovery of metadata,
logging, configuration and testing; the macros, which generate code.

Within the modelled parts: recovery, retries and heartbeats between the statements of an
enqueue (they write rows under the locks finish takes); payloads, options' encodings, the error log; the overlap of the asynchronous
build with other tasks (it takes the same steps, the registry being borrowed
mutably through its awaits); `into_app` of an initialized handle, and clones of an
application used at once; what background tasks of microservices do after close;
request contexts that expired; the degrade policy's choice of answer; static,
Kubernetes and Consul discovery, maps behind one lock that nothing updates; names,
texts, encodings and sizes of messages, headers and schemas; stores, brokers and
backends that an application brings, of which the modules have what `src/` relies
on. A user's code (handlers, factories, hooks, interceptors) is any of the choices
its interface leaves it.

## 7. Plan

1. `OneStep` with recovery's statements beside enqueue's, and for larger workloads.
2. A client over `Transports` with its own timeout, and the outbox with a
   dispatcher, should the crate come to have either.
