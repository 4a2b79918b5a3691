# Verification of bge-m3-embedding-server

TLA+ models of the embedding server in `src/src/`. TLC checks every property on
small instances; TLAPS proves all of the safety ones, and that the worker pool
implements its abstract service, for every size. File names below are relative to
`src/src/` unless they start with `docs/`.

## 1. The system

The server answers `/v1/embeddings`, `:sparse` and `:both` from a pool of worker
threads, each with an ONNX Runtime session. On GPUs the sessions use TensorRT,
whose engines are compiled for input shapes, slowly and with much memory, and
kept as *plan* files on a volume shared by a fleet of containers. A good part of
the code exists so that no engine is compiled while a client waits.

| Component | State | Operations | Talks to |
|---|---|---|---|
| Worker pool: `embedder/pool.rs`, `embedder/worker/{run,dispatch,guard,startup}.rs` | bounded request channel, mutex around its receiver, `live_workers`, `loaded_workers`; per worker: session, `consecutive_failures`, request in hand | sequential loading, `dense`/`sparse`/`both`/`probe`/`send_adaptive_warmup`, receive, idle unload, reload, dispatch, circuit breaker, exit | handlers and tasks by channel and oneshot reply; counters read by handlers |
| Bootstrap: `lib.rs`, `bootstrap/{readiness,probe_task}.rs`, `state.rs` | `ready`, `probe_status`, `request_permits`, shared cost model | await the pool, resolve the cost model (override, cache, probe), drain and release permits, readiness calls, `process::exit` | pool calls; the probe cache file |
| Probe: `probe/{runner,fit,cache}.rs` | data points, `probe-coefficients.json` | sweep of shapes, fit, save, load | pool calls, alone |
| Handlers: `handler/*.rs`, `error.rs` | a permit and a pending call each | `check_ready`, `validate_input`, acquire, call, answer; dropped at any await when the client leaves | semaphore, pool |
| Coverage: `embedder/trt_warmup.rs`, `jit_guard.rs`, `worker/propagation.rs` | `warmed_seq_ceiling`, `warmed_local`, broadcast receivers, plan file | prewarm of a shard, admit or refuse, report a slow run, broadcast, drain | atomic shared by all workers; broadcast and suspect channels |
| Adaptive warm-up: `embedder/adaptive_warmup.rs` | `pending`, `warmed`, `shapes_this_hour`, `hour_start` | collect suspects, wait for quiet, fire one shape, take the acknowledgement | suspect channel in, pool call out, broadcast |
| Batching: `binpack.rs`, `embedder/{dense,sparse,dual,tokenize}.rs`, `worker/trt_retry.rs` | chunks, output slots, attempt | pack, guard, run, scatter, retry with half the budget | runs inside a dispatch |
| Engine cache: `embedder/trt_cache/*.rs`, `trt_cache_gc.rs`, `trt_warmup/{runner,postcondition}.rs`, `sm_detect.rs` | files on a shared volume | write probe at every load and reload, enumeration by capability, fsync, GC, postconditions | other containers, through the files |
| Start-up: `config.rs`, `sysinfo.rs`, `bootstrap/budget.rs`, with the spawning part of `pool.rs` and the prewarm of `trt_warmup.rs` | the configuration, each worker's device and shard, the memory deltas, the first cost model | resolve the environment, refuse it, clamp the workers, shard the shapes, prewarm, measure, detect memory, divide the budget | environment, cgroup files, `nvidia-smi`, the plan on the volume |
| `bootstrap/router.rs`, `session.rs`, `model_files.rs`, `weights.rs`, `models.rs`, `logging.rs`, `gpu_stats.rs` | none that changes after the start | routing, I/O, logging | - |

What is hard here: threads that share one receiver and leave it in several ways;
handlers whose futures are dropped in the middle; a probe that must be alone in a
pool that serves; counters kept by hand in many places; coverage knowledge that
is spread over sessions, a file, an atomic and two lossy channels; containers
killed between a write and its fsync, and an fsync that fails; a status computed
from three loads while the counters move; limits and defaults that meet at a
boundary; bounded channels, an hourly budget and timeouts. `PROJECT.json` lists each such hazard at its line ("hazards"), with the
properties that would catch it going wrong.

What makes each part correct:

- pool: the counters are exact, no request is lost or served twice, every call
  returns, sessions are gone when the live count is zero;
- bootstrap and handlers: permits are conserved, the probe is alone, no request
  runs on untuned coefficients, every admitted request is answered;
- `/health`: it answers a status the server really had, and the status moves only
  along the documented diagram;
- start-up: the budget of all workers fits the machine, the longest text fits a
  worker's budget, no two workers share a GPU, the shards partition the grid, and
  the fast path on a warm volume skips no shape that is not on disk;
- coverage: the ceiling announces only tiers that are on disk, no dangerous tier
  is compiled in a client's request;
- adaptive warm-up: nothing is compiled twice, the budget bounds the compiles,
  what is pending is tried, the task ends with the workers;
- batching: chunks fit the budget, each text gets its own embedding, refusals
  are atomic;
- engine cache: the write probe tells the truth unless probes overlap, what was reported durable
  survives kills, exit code 0 means a plan for this GPU.

## 2. Modules

| Module | Models | Uses |
|---|---|---|
| `EmbedService` | what the pool promises its callers: a bounded FIFO line and at most N servers, one answer per call, one orderly close | - |
| `WorkerPool` | the pool, its init task, the worker loop, the callers | implements `EmbedService` (`PoolIsAService`) |
| `Health` | the `/health` handler beside a running pool | extends `WorkerPool` |
| `Server` | bootstrap, probe, permits, handlers, `/health/deep`, crash and restart | composes `EmbedService` in place of the pool |
| `EngineCoverage` | prewarm, ceiling, guard, propagation, warm-up requests | - |
| `AdaptiveWarmup` | the loop of the warm-up task | - |
| `EmbedBatch` | one request inside a worker | - |
| `EngineCache` | the shared directory of plans and the containers around it | - |
| `WriteProbe` | the write probe of every load, reload and teardown, by the threads of several containers | - |
| `Startup` | one start: configuration, clamp, shards, prewarm, memory, budget | - |
| `WorkerPoolProofs`, `ServerProofs`, `EngineCoverageProofs`, `EngineCacheProofs`, `WriteProbeProofs`, `EmbedBatchProofs`, `AdaptiveWarmupProofs`, `StartupProofs` | the theorems about the module they are named after, with their inductive invariants (section 4) | that module, TLAPS; `WorkerPoolProofs` is also about `Health` |
| `MCHealth`, `MCServer`, `MCEngineCache`, `MCWriteProbe` | symmetry for TLC | |
| `MCStartup` | the environments and machines `Startup` is checked on | |

`PROJECT.json` maps every definition to the lines it stands for. Some notes on
how state and actions correspond to the code:

**WorkerPool.** `wpc` is the program counter of `run_worker`. One action is one
stretch of code between two points where another thread can observe a change.
The way out of `run_worker` is three actions, because Rust drops the locals in
reverse order of declaration: the session (`DropSession`), the `WorkerGuard`
(`DropGuard`, which moves `live_workers`), then the thread's clone of the
receiver (`DropReceiver`; with the last clone the channel closes and the queued
reply senders are dropped). `Results` is how an inference can end, as the error
chain tells it; `Panic` exists in builds that unwind (`Unwind`), for the release
profile aborts. The caller of an embed request may leave (`Abandon`): the future
of its handler is dropped. `loaded` is an integer, so that a wrapped counter
shows as -1.

**Health.** The handler loads `ready`, `live_workers` and `loaded_workers` one
after the other (`LoadReady`, `LoadLive`, `LoadLoaded`), and the pool may step in
between. `seen` is a history variable: the statuses the server has had since the
first load. `Total` is `AppState::total_workers`, which is `cfg.workers` before the
pool clamps it.

**Server.** `boot` is the place of the readiness task and then of the probe task,
which follow one another. `Exit` resets what lives in memory and leaves the probe
cache. Here `live` only shrinks: a worker leaves its loop (`WorkerExits`) only after
it has answered a request with a fatal TensorRT error, as `worker/run.rs:227-231`
does. `fatal` holds the requests that end so and `leaving` counts the workers that
have answered one and still have to drop their guard. Only TensorRT has such errors,
and on a GPU the cost model is always an override, so that no worker leaves while
the probe runs.

**EngineCoverage.** A shape is its sequence tier, the only dimension the guard
looks at. `profile[w]` is what the session of a worker covers, `plan` what the
file on disk covers; a run above both compiles. Whether a run is reported as slow
is left open, since the code compares a time with a threshold. `persists` says
whether the provider writes each plan it compiles; the code cannot see it, and
both safety properties are conditional on it.

**AdaptiveWarmup.** Time is ticks; `Hour` ticks make an hour. `recent` is a
history variable with the ages of the compiles of the last hour.

**EmbedBatch.** A text is its index and length; an embedding is the index of the
text it was computed from. Ties of the unstable sort come out in any order. The
scan of `bin_pack` is one step for each text (`Pack`), so that what it computes is
an invariant of the scan and needs no induction over lists.

**EngineCache.** A plan file is identified by its `_smXX` tag and is absent, being
written, buffered, durable or torn. The two passes of the GC are separate actions,
since other containers run in between. The run that primes a new session's arena
may write a plan before the GC (`BeginWrite` at `"prime"`; `Prime` where it writes
none). `mixed` and `settled` are history
variables: whether two containers were writing a plan at once, and whether its last
write was flushed without a warning. An fsync may fail, which is only logged; what
the code then reports as fsynced is not settled.

**WriteProbe.** Every inspection of the directory creates, writes, reads and deletes
`.write_probe`, a fixed name, and logs the outcome; nothing else depends on it, so
that it is a module of its own. A thread is a container and a number, 0 for the main
thread. The first loads of a container's workers follow one another (`LoadNext`),
a worker without models probes again in the request that reloads them (`Reload`),
and the main thread of a warm-up-only container after its pool is gone (`Teardown`).
`logged` is what the last probe of a thread logged and `met` the containers of which
another thread was probing meanwhile, the thread's own included. `EngineCache` has
one thread for each container, which is enough for plans (a container writes them
one after the other) and not for probes.

**Startup.** Lengths are counted in 64 tokens and memory in 32 KiB, in which the
defaults and the cost model are exact integers. A setting is a number or `Unset`,
for a variable that does not parse is treated as absent. Settings the process only
passes on (paths, addresses, names, timeouts) are left out. A plan is the set of
shapes it was built from and covers the box they span in both dimensions. A run
inside the box loads and may be slow; one outside compiles, which is longer than
the threshold of the fast path; which builds fail, which runs are slow, what the
probe fits and what its file holds are left open. `trt_prewarm` is one step for
each shape: `StartPrewarm` puts the checks into `todo`, `SkipShape`, `RunShape` and
`ShapeFails` take its first, `CompileRest` goes on to the whole shard and
`EndPrewarm` signals. The sort before the median is any order that sorts
(`SortedOrders`), and a shard is written as what `shard_shapes` picks: an index and
every n-th one after it. The last step, `Ended`, changes
nothing, so that a start that is stuck before its end is a deadlock.

**External assumptions.** Modelled from how the code uses them: the TensorRT
provider (loads a covering plan, else compiles and rewrites the plan in place; a
failed run writes nothing), tokio's channels and semaphore (FIFO, and a oneshot
whose sender is dropped wakes its receiver), the broadcast channel (a lagging
receiver loses the oldest), the HTTP server (drops a handler's future when the
client leaves), the orchestrator (restarts what has exited) and the kernel (may
write back early; a kill may lose what was not flushed by the container's host).

## 3. Runs

| Run | Instance | Shows |
|---|---|---|
| `pool` | 2 workers, 2 slots, 2 embed callers and 1 maintenance call, threshold 2, the `/health` handler | the channel fills, a worker can fail twice in a row, unload, reload and exit with requests queued: the counters are exact, requests conserved, the drop order right, and the pool refines `EmbedService`; `HealthTruthful` and `FollowsDiagram` |
| `pool_live` | 2 workers, 2 embed callers, 1 maintenance call | `EveryCallReturns`, `ShutdownCompletes` |
| `server` | 2 configured workers, 1 thread, 2 clients, 2 probe shapes | one permit without a probe so that a client waits, none during the probe, two after it so that one request waits in the channel: `PermitAccounting`, `ProbeAlone`, `TrafficIsTuned`, `EveryRequestAnswered` |
| `server_boot` | 1 worker | violation, see section 5 |
| `coverage` | 2 workers with a shard each, 2 tiers (the second dangerous), broadcast of 1 message | shards, a partly failed shard, the fast path on a warm disk, lag, unload, fatal builds and restarts: `CeilingSound`, `NoInbandCompile` |
| `coverage_healing` | 1 worker, 2 tiers | violation, see section 5 |
| `adaptive` | 3 shapes, channel of 2, budget 1 | overflow of the channel, an exhausted budget, two budgets within an hour: `PendingFresh`, `HourlyBudget`, `SuspectsAreTried`, `TaskEnds` |
| `batch` | all requests of 1 to 4 texts of 1 to 3 tokens, 5 budgets, 3 ceilings | `RunsFit`, `EveryTextEmbedded`, `RefusedUnrun` |
| `cache` | 2 containers, 2 capabilities (symmetric), one container with the GC on, 2 shapes per start | `ReportedSurvives`, `ExitZeroHonest` under kills and failing fsyncs at any step |
| `write_probe` | 2 containers (symmetric) of 2 workers, 2.7 million states | `ProbeTruthful`, `BootProbeTruthful`: a probe can meet one of its own container, one of the other, or the file a kill has left |
| `startup` | 1,824 pairs of environment and machine, 421,401 states | `BudgetFits`, `LongestTextFits`, `OneOutlierIgnored`, `OwnDevice`, `ShardsPartition`, `GridCovered` |
| `guard_batch` | the defaults on one GPU | violation, see section 5 |

**Why the bounds are enough.** Two workers give every interleaving at the lock,
on the counters and on the last drop of the receiver, and a third caller waits
when both slots are taken. No safety property rests on the bounds, since all are
proved; what TLC adds to the proofs is that the models can do what they are meant
to do, that the mutants are caught, and liveness. Permits matter at zero, one and the full count, all of which
occur. Two tiers on either side of the guard's threshold are the two cases it
tells apart, and a channel of one message lags at the second. In `EmbedBatch` the
costs of single texts are 2, 6 and 12 and the budgets lie below, on and between
sums of them. In `EngineCache` the volume outlives the restarts, so that several
compiles meet although each start runs two shapes. `MCStartup` leaves
the settings that have a limit or a default unset, or gives them zero, a value
inside or one beyond; the machines have nested limits, sentinel limits, none, or
no reading of their memory at all; the old plans are
short of the grid in batches or in lengths, or there is none; up to five workers
are asked of one to four devices, so that shards are uneven; a build may fail in
the least or the greatest length of the grid, or in both. Bounds in the models:
`probed`, `points` (2 stands for more), `hourAge` (stops at `Hour`).

**Deadlock** is checked except where stopping is right: a pool whose workers have
all left, and a request that has been answered (`batch`).

**Fairness.** Threads and tasks are scheduled and the runtime returns from what it
is given (weak fairness of each step of a worker, of the boot task, of the
warm-up task; a worker that has given a fatal answer does leave). Strong fairness of `Send`, `Acquire` and `PoolEnter` stands for the
FIFO queues of tokio's channel and semaphore: a waiter is not overtaken for ever.
The order among blocked senders is thereby assumed, not checked; `PoolIsAService` is
about the order of what the channel has accepted.
Which worker gets the receiver's lock is left open. Nobody is obliged to call, to
leave, to time out, to fail, to crash or to shut down. `coverage_healing` assumes
far more (requests of every tier arrive for ever, runs succeed and are reported,
warm-ups succeed), so that its violation is the code's and not a lack of effort.

Every property of a passing run has a mutant, a plausible bug in a mapped
definition (`PROJECT.json`, "mutants"; in the modules each stands before the
definition it replaces) under which TLC finds the property violated.

## 4. Proofs

Every invariant and action property of the passing runs, and the refinement, is a
theorem as well (`PROJECT.json`, "theorems"). Each proof module has an inductive
invariant, a lemma for each of its conjuncts with one step per action, and a
theorem `Spec => []Inv` from which the properties follow. The assumptions are the
named ASSUMEs of the modelled module: sizes, capacities, budgets and thresholds are
arbitrary (mostly positive) naturals, and the sets of callers, containers,
capabilities and shapes are arbitrary. None of the properties is inductive alone;
what the invariants add, and why:

**WorkerPool** (`PoolInvariant`, `TypeCorrect`, `RequestsConserved`, `LiveCounted`,
`LoadedCounted`, `SessionsFlushed`, `ThreadsConsistent`).

    PoolInv == TypeOK /\ ThreadInv /\ RequestConservation
               /\ LiveAccounting /\ LoadedAccounting

The counters need to know which threads own a guard or a session at each place of
`run_worker`; the bound of the circuit breaker needs that an outcome `Failure` was
classified with room to spare; conservation needs that a worker holds a request
exactly from the receive to the reply. `ThreadInv` says this.
`PoolImplementsService` is the refinement `Spec => PoolIsAService`: the initial
states map to initial ones, and each step of a thread, the init task or a caller
is a step of `EmbedService` or changes nothing its callers can see. It rests on
`ServiceInv == PoolInv /\ LoadingInv`: while the pool loads nobody has called, and
the workers already up wait. (`PoolIsAService` has no fairness; that the pool also
answers is the run `pool_live`.)

**Health** (`HealthInvariant`, `HealthIsTruthful`, `StatusFollowsDiagram`).
`HealthInv` adds to `ServiceInv` that in a pool in use a worker leaves only through
a fatal build or a panic (`LeaversInv`), what `ready` implies (`ServesInv`), and
what has been seen between the loads (`SeenInv`): the live count only falls, and
whenever it has fallen since it was loaded, the status the handler is about to give
was the server's at some moment in between.

**Server** (`ServerInvariant`, `ServerTypeCorrect`, `PermitsAddUp`,
`ProbeUndisturbed`, `TrafficAfterTuning`).
`ServerInv == TypeOK /\ LineInv /\ CrewInv /\ BootInv /\ QuietInv /\ PermitAccounting`.
The workers that serve and those that are leaving are different ones, hence at most
`live` (`CrewInv`), without which an exit could take a worker twice. The
conservation of permits needs that whoever is in the pool's line is there once
(`LineInv`) and at which step of the boot each status and model is in force
(`BootInv`); that the probe is alone needs that before `ready` no handler is past
its check and none has left a request behind (`QuietInv`).

**EngineCoverage** (`CoverageInvariant`, `CoverageTypeCorrect`, `CeilingIsSound`,
`NoDangerousCompile`). `CoverInv`: where the provider writes its plans, the plan on
disk bounds the ceiling, each session's profile and each dangerous tier the guard
has already let through, which is the state between the check and the run.

**EngineCache** (`CacheInvariant`, `CacheTypeCorrect`, `FlushedSurvives`,
`ExitIsHonest`). The conjuncts follow a plan file through kills: who writes a file
that is partial (`WriterInv`), and that a plan no foreign GC deletes is whole, or
durable once flushed (`PlanInv`).

**WriteProbe** (`ProbeInvariant`, `ProbeTypeCorrect`, `ProbeIsTruthful`,
`BootProbeIsTruthful`), for any number of containers and of workers in each. Two
threads inside the probe know of each other (`MetInv`), hence the file of a thread
that has met nobody is what that thread made of it (`SentinelInv`), and its probe
cannot fail on a writable volume. Before a container serves, only its last loader, or
in the end its main thread, probes (`SoloInv`), hence it has not met itself
(`BootInv`).

**EmbedBatch** (`BatchInvariant`, `BatchTypeCorrect`, `ChunksFit`,
`EmbeddingsInOrder`, `RefusalIsAtomic`). `ScanInv` is the loop invariant of
`bin_pack` (no text is lost, `current_max_seq` is the greatest length of the chunk,
every chunk fits or is one text), `RunInv` that of the runs (each text has its
embedding or is in a chunk still to run, all admitted).

**AdaptiveWarmup** (`WarmupInvariant`, `WarmupTypeCorrect`, `PendingIsFresh`,
`TwoBudgetsAnHour`). `HourInv` splits the compiles of the last hour into those of
the fixed hour that runs, which are counted, and at most one budget of older ones,
which will be an hour old before the next reset.

**Startup** (`StartInvariant`, `StartTypeCorrect`, `BudgetIsSafe`, `LongestFits`,
`OutlierIgnored`, `DevicesDistinct`, `ShardsPartitionGrid`, `GridIsCovered`), for
every environment, machine, list of shapes and measurement.

    StartInv == TypeInv /\ SpawnInv /\ WarmInv /\ OneOutlierIgnored /\ OpenInv

`SpawnInv` says what each worker was given; with it distinct devices are arithmetic
(`DivModUnique`) and the partition is a bijection between the positions of the list
and the places in the shards (`ShardPositions`, `PositionShard`). `WarmInv` is the
loop invariant of `trt_prewarm`: each shape is covered, failed or still to come,
and as long as every check was a hit all checks are covered; `ExtremesCover` then
gives the whole shard from at most four shapes. `OpenInv` keeps what the floor
established. The budget rests on `BudgetDivides` (the workspaces of all workers,
with saturating subtraction and rounding division) and `MemoryIsLeast` (the walk
over nested groups finds the least limit); the median on `MedianIsMiddle`.

**Only model-checked:** the liveness properties `EveryCallReturns`,
`ShutdownCompletes`, `EveryRequestAnswered`, `SuspectsAreTried` and `TaskEnds`, since
the prover has neither fairness nor ENABLED. Induction over data is avoided rather
than used: loops over lists are steps, whose invariants do the induction, and where
a least element is needed it comes from the well-foundedness of the naturals
(`LeastNumber`). No module declares a RECURSIVE operator. What is external stays
assumed (section 2): the proofs hold of the models.

## 5. Where the code and its documentation disagree

Shown by a run:

1. `OnlyFailedTiersUncovered`: `jit_guard.rs:65-68` says the only dangerous shapes
   without an engine are those of a length whose warm-up failed, since `bin_pack`
   bounds the batch. With the defaults it makes chunks of up to 53 texts of 4096
   tokens, the largest warmed batch is 32, and `admit` (`jit_guard.rs:150`) looks
   at the length only.
2. `BootEndsReadyOrExits`: `lib.rs:119` says background tasks exit the process on
   their unrecoverable failures. A readiness call that fails after the probe is
   only logged (`bootstrap/probe_task.rs:123-125`): the process stays, never ready.
   In the trace the dense readiness call is answered with an error.
3. `SelfHealing`: `jit_guard.rs:70-75` says coverage refused at the start-up is
   admitted again once the warm-up task or a peer has compiled the tier. Both
   learn of a tier only from a run that was slow, and a refused tier never runs.

Contradicted by what a theorem states of the code:

4. *Permits after the start.* `state.rs:115-117` says `request_permits` is raised to
   `cfg_workers` on every terminal probe status, and `lib.rs:191-192` that any bypass
   of the probe raises it. On `Disabled` and `CacheHit`
   (`bootstrap/readiness.rs:171-205`) nothing does: the server runs for good with
   `max(N-1, 1)` permits. `PermitAccounting` says how many there are at each stage
   (`PermitsInBeing`).
5. *Permits during the probe.* `docs/request-flow.md:42` ("N-1 permits during probe")
   and `:143` ("`max(N-1, 1)` in-flight during probe") let requests in. The probe task
   first takes all N-1 permits (`bootstrap/probe_task.rs:74`) and keeps them until it
   ends, so that with two workers or more there are none. `PermitAccounting` has the
   number, and `ProbeAlone` says that no handler's call is in the pool.
6. *Traffic during the probe.* "The server flips `ready = true` *before* the probe
   finishes" (`docs/startup-probe/10-execution.md:99-101`); "workers can begin serving
   requests with conservative defaults while the probe runs"
   (`docs/architecture.md:250-253`, and again at `:283`); the same in the doc of
   `run_readiness_probe` (`bootstrap/readiness.rs:53-55`) and, of the bin-packer, in
   `docs/health-state-machine.md:129`. On a cache miss `run_readiness_probe` returns
   once the probe task is spawned, and that task makes the readiness calls and sets
   `ready` after the probe has ended (`bootstrap/probe_task.rs:121-125`). Until then
   every request is answered 503, and no request is ever packed with the initial
   coefficients: `ProbeAlone`, `TrafficIsTuned`.

Other observations:

- the budget "per rolling hour" of `adaptive_warmup.rs:68` counts from a fixed
  hour, so that the bound that holds is two budgets (`HourlyBudget`);
- with one configured worker the probe drains no permit and the server ends with
  two, `ready` alone keeping the traffic out while the probe runs;
- `pool.rs:93` says `loaded_workers` is the number of workers with a model in
  memory; the exit on a fatal engine build (`worker/run.rs:227-231`) leaves it one
  too high, and `LoadedAccounting` is the exact statement;
- `total_workers` (`lib.rs:414`) is the count before the clamp of `pool.rs:150`:
  with more workers than GPUs `/health` warns for ever, which is why
  `FollowsDiagram` is about pools that were not clamped;
- a test says `median_usize` returns "the lower of the two middle elements"
  (`embedder/pool/tests/lifecycle.rs:134`); it returns the upper, so that with two
  workers one outlier does decide the footprint, and `OneOutlierIgnored` starts at
  three;
- the cgroup walk of `sysinfo.rs` takes the deepest limit it finds, not the least,
  and does not compare it with the host's memory, and it looks at the v1 limit only
  when v2 has none; `BudgetFits` is stated where the limits are nested and, as on
  Linux, one of the two hierarchies has the memory controller. The proof needs both
  conditions;
- `binpack.rs:94` says the coefficients are validated positive at construction;
  those of `BGE_M3_COST_MODEL_A` and `_B` are not, and `config.rs:952` says they
  require a memory setting, which has a default. An overridden budget is also not
  divided by the number of workers, so that `BudgetFits` leaves overrides out;
- the sample log of `docs/startup-probe/11-end-to-end.md:160-168` shows, after a
  failed fit, conservative coefficients with `max_workspace_bytes=2147483648`; the code
  keeps `per_worker_workspace` in that case too (`bootstrap/probe_task.rs:95-99`),
  which is what `BudgetFits` is about;
- a reload may log that the write probe failed on a volume that is fine, when another
  worker of the same container, or another container, is probing (`worker/run.rs:141`,
  `trt_cache/inspect.rs:64`): `ProbeTruthful` says that it takes such an overlap;
- `probe/runner.rs:155` says the warm-up run of the probe is gated by the RSS
  guard; nothing gates it.

## 6. Plan

Done: 1. `EmbedService` and `WorkerPool`; 2. `Server`; 3. `EngineCoverage`;
4. `AdaptiveWarmup`; 5. `EmbedBatch`; 6. `EngineCache` and `WriteProbe`;
7. `Health`; 8. `Startup`; 9. a theorem for each of their safety properties and for the refinement.

Next, to model: the rules by which the probe skips a shape (`probe/runner.rs`), and
the warm-up-only teardown composed with `WorkerPool`.

Next, to prove: that `Server`'s use of the pool's interface is a refinement of
`EmbedService` with crashes, and facts the liveness properties rest on that are
safety (that a waiting call always has somebody who will answer it).

## 7. Not modelled

Routing and the TLS listener, model download and session construction,
floating-point arithmetic (normalisation, projection, regression), API types,
logging and the heartbeat of long compiles, and the benches, examples, scripts and
tools: I/O, external libraries or sequential code without state. The text of the
environment is not parsed character by character: what a parser rejects is
`Unset`. Of the probe, the sweep's calls are modelled in `Server` and its result in
`Startup`, and which shapes it skips is not. Of the warm-up-only teardown,
`EngineCache` has the order of fsync, count and exit code; that the wait for the
workers gives up after ten seconds makes no difference to it, since the count that
decides the code follows either way. Where such a part can fail in a way the rest
reacts to (a load, a fit, a detection, a budget that is too small), the failure is
an alternative of the action that calls it.

## 8. Running

    tlc -workers 2 -config MCHealth.cfg MCHealth
    tlapm --threads 2 WorkerPoolProofs.tla

`tlapm` exits 0 when every obligation is proved; each proof module takes some
minutes from nothing. The runs, with their module and configuration, are listed in `PROJECT.json`.
