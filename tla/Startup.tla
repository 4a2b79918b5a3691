-------------------------------- MODULE Startup --------------------------------
(***************************************************************************)
(* One start of the server, from its environment to the moment it opens    *)
(* for traffic or gives up: configuration (config.rs), the clamp and the   *)
(* device and warm-up shard of each worker (pool.rs), the prewarm of a     *)
(* shard (trt_warmup.rs), memory detection (sysinfo.rs), the workspace     *)
(* budget (bootstrap/budget.rs) and the cost model that comes of it        *)
(* (bootstrap/readiness.rs).  What a process does after that is in the     *)
(* other modules, whose constants are settings this one resolves.          *)
(*                                                                         *)
(* Units: a length is counted in 64 tokens and memory in 32 KiB, so that   *)
(* the cost model and every default below is exact: 16 KiB per token and   *)
(* 8 B per token squared are 32 and 1.  A memory is below 2^31 units.      *)
(***************************************************************************)
EXTENDS Integers, Sequences, FiniteSets, SequencesExt, FiniteSetsExt

CONSTANTS
  Deployments,    \* the environments a start may have, each with its machine
  RssDeltas,      \* what a worker may measure around its model load
  FailingSeqs,    \* the sequence lengths whose engine build may fail
  Coefficients,   \* the pairs the probe may fit or have left in its file
  Unset           \* a variable not set, or not parsed; a limit that is "max"

ConservativeA       == 32
ConservativeB       == 1
ModelMaxSeq         == 128         \* 8192 tokens
OsHeadroom          == 8192        \* 256 MiB
DefaultMaxWorkspace == 65536       \* 2 GiB
DefaultVramBudget   == 327680      \* 10 GiB
FallbackMemory      == 131072      \* 4 GiB
OneTib              == 33554432

\* A shape is <<batch, seq>>.  The default grid, in batch-major order.
DefaultTrtWarmupShapes ==
  LET batches == <<1, 2, 4, 8, 16, 32>>
      seqs    == <<2, 8, 32, 128>>
  IN  [i \in 1 .. 24 |-> << batches[1 + (i - 1) \div 4], seqs[1 + ((i - 1) % 4)] >>]

Shapes     == Nat \X Nat
Numbers    == Nat \cup {Unset}
CostModels == [a : Int, b : Int, max : Nat]

\* The environment variables, parsed.
Environments ==
  [workers : Numbers, maxBatch : Numbers, maxSeq : Numbers, safety : Int \cup {Unset},
   memory : Numbers, disableAuto : BOOLEAN, tokenBudget : Numbers,
   coefficients : [a : Int, b : Int] \cup {Unset}, ep : {"cpu", "cuda", "tensorrt"},
   vram : Numbers, gpuCount : Numbers, shapes : Seq(Shapes \cup {Unset}),
   guard : BOOLEAN, guardSeq : Numbers, warmupOnly : BOOLEAN, strict : BOOLEAN,
   probeCache : BOOLEAN, tls : {"none", "both", "half"}]

\* The machine: the limits of its groups, its memory, the entries of the driver's
\* directory, and the volume.
Hosts ==
  [v2 : Seq(Numbers), v1 : Numbers, ram : Numbers, gpus : Numbers,
   plan : SUBSET Shapes, persists : BOOLEAN]

ASSUME StartupAssumption ==
  /\ Unset \notin Int /\ Unset \notin CostModels
  /\ Deployments \subseteq [env : Environments, host : Hosts]
  /\ RssDeltas \subseteq Nat
  /\ FailingSeqs \subseteq Nat
  /\ Coefficients \subseteq [a : Nat \ {0}, b : Nat \ {0}]

VARIABLES
  env,      \* the environment of the process
  host,     \* the machine
  stage,    \* "config", "loading", "checking" or "compiling" the shapes of a
            \* shard, "measured", or how the start ended
  cfg,      \* Config, once it is resolved
  n,        \* the workers of the pool
  shard,    \* the warm-up shapes of each worker spawned so far
  device,   \* the device of each worker spawned so far
  deltas,   \* rss_deltas
  plan,     \* the shapes the engine plan on the volume was built from
  built,    \* those the session of the worker that prewarms covers
  check,    \* check_shapes, as far as they have been run
  todo,     \* the shapes of the loop it is in that are still to be run
  fast,     \* all_checks_fast
  fresh,    \* fresh_compiles > 0
  warmed,   \* max_warmed_seq
  failed,   \* the shapes whose build failed
  ceiling,  \* warmed_seq_ceiling
  rss,      \* model_rss_per_worker_bytes
  avail,    \* the memory detected
  model,    \* the cost model in force
  source    \* where it came from

prewarmVars == <<built, check, todo, fast, fresh, warmed, plan, failed>>
workerVars  == <<shard, device, deltas, ceiling, prewarmVars>>
budgetVars  == <<rss, avail, model, source>>
vars        == <<env, host, stage, cfg, n, workerVars, budgetVars>>

-----------------------------------------------------------------------------
(* Config::from_lookup *)

Setting(value, default) == IF value = Unset THEN default ELSE value
AtLeastOne(x) == IF x < 1 THEN 1 ELSE x

MaxSeqLength(e) ==
  LET raw == Setting(e.maxSeq, ModelMaxSeq) IN
  IF raw = 0 \/ raw > ModelMaxSeq THEN ModelMaxSeq ELSE raw

\* The safety factor, in tenths, clamped to 0.1 .. 1.0.
SafetyTenths(e) ==
  LET raw == Setting(e.safety, 7) IN
  CASE raw < 1 -> 1 [] raw > 10 -> 10 [] OTHER -> raw

\* The positions of the tokens up to i that are a "BxL"; the others are Unset.
Parsed(raw, i) == {j \in 1 .. i : raw[j] # Unset}

\* Tokens that are no shape are skipped; an empty list is none.
ParseTrtWarmupShapes(raw) ==
  LET kept == Parsed(raw, Len(raw)) IN
  IF kept = {} THEN DefaultTrtWarmupShapes
  ELSE [k \in 1 .. Cardinality(kept) |->
          raw[CHOOSE i \in kept : Cardinality(Parsed(raw, i)) = k]]

Conservative(max) == [a |-> ConservativeA, b |-> ConservativeB, max |-> max]

\* The overrides of automatic tuning, in their order; Unset means probe.
ResolveCostModelOverride(e) ==
  LET ceilingGiven == Setting(e.memory, DefaultMaxWorkspace) IN
  CASE e.disableAuto -> Conservative(ceilingGiven)
    [] ~e.disableAuto /\ e.tokenBudget # Unset ->
         Conservative(e.tokenBudget * (ConservativeA + ConservativeB * MaxSeqLength(e)))
    [] ~e.disableAuto /\ e.tokenBudget = Unset /\ e.coefficients # Unset ->
         [a |-> e.coefficients.a, b |-> e.coefficients.b, max |-> ceilingGiven]
    [] OTHER -> Unset

CostModelOverride(e) ==
  IF e.ep = "cpu" THEN ResolveCostModelOverride(e)
  ELSE Conservative(Setting(e.vram, DefaultVramBudget))

DetectGpuCountUnfloored(override, h) == Setting(override, Setting(h.gpus, 1))

\* The override, else the driver's directory when it has entries, else 1.
DetectGpuCount(override, h) ==
  IF override # Unset THEN AtLeastOne(override)
  ELSE IF h.gpus # Unset /\ h.gpus > 0 THEN h.gpus ELSE 1

FromLookup(e, h) ==
  [workers    |-> AtLeastOne(Setting(e.workers, 2)),
   maxBatch   |-> AtLeastOne(Setting(e.maxBatch, 256)),
   maxSeq     |-> MaxSeqLength(e),
   safety     |-> SafetyTenths(e),
   override   |-> CostModelOverride(e),
   ep         |-> e.ep,
   gpuCount   |-> DetectGpuCount(e.gpuCount, h),
   shapes     |-> ParseTrtWarmupShapes(e.shapes),
   guard      |-> e.guard,
   guardSeq   |-> AtLeastOne(Setting(e.guardSeq, 64)),
   warmupOnly |-> e.warmupOnly,
   strict     |-> e.strict,
   probeCache |-> e.probeCache]

-----------------------------------------------------------------------------
(* EmbedPool::spawn: how many workers, and what each of them is given *)

ClampNothing(c) == c.workers

ClampWorkers(c) ==
  IF c.ep # "cpu" /\ c.workers > c.gpuCount THEN c.gpuCount ELSE c.workers

\* shard_shapes: the positions, from 0, congruent to the worker's index, which are
\* the index and every count-th one after it.
ShardShapes(shapes, id, count) ==
  IF count <= 1 THEN shapes
  ELSE [k \in 1 .. (Len(shapes) + count - 1 - id) \div count |->
          shapes[id + 1 + count * (k - 1)]]

WorkerShapesOfCfg(id) ==
  IF cfg.ep = "tensorrt" /\ n > 1 THEN ShardShapes(cfg.shapes, id, cfg.workers)
  ELSE cfg.shapes

\* The warm-up shapes of a worker's configuration.
WorkerShapes(id) ==
  IF cfg.ep = "tensorrt" /\ n > 1 THEN ShardShapes(cfg.shapes, id, n)
  ELSE cfg.shapes

\* The orders in which a list of numbers is sorted.
SortedOrders(values) ==
  {order \in Bijection(DOMAIN values, DOMAIN values) :
     \A i, j \in DOMAIN values : i < j => values[order[i]] <= values[order[j]]}

MaxUsize(sorted) == IF sorted = <<>> THEN 0 ELSE sorted[Len(sorted)]

\* median_usize: the element at len / 2 of the sorted list, counted from 0.
MedianUsize(sorted) ==
  IF sorted = <<>> THEN 0 ELSE sorted[Len(sorted) \div 2 + 1]

-----------------------------------------------------------------------------
(* The prewarm of one shard.  External: a plan covers, in each dimension,  *)
(* the range of the shapes it was built from; a run inside is a load, and  *)
(* a run outside a build, longer than the threshold, that extends it.      *)

Covers(p, s) ==
  \A dim \in 1 .. 2 : \E lo, hi \in p : lo[dim] <= s[dim] /\ s[dim] <= hi[dim]

\* The first shape of the list that has the value in the dimension.
Representative(shapes, dim, value) ==
  shapes[SelectInSeq(shapes, LAMBDA s : s[dim] = value)]

\* The shapes of the list with the least and the greatest of a dimension.
Extremes(shapes, dim) ==
  LET values == {shapes[i][dim] : i \in DOMAIN shapes}
  IN  << Representative(shapes, dim, Min(values)),
         Representative(shapes, dim, Max(values)) >>

CoverageCheckOfBatches(shapes) == IF shapes = <<>> THEN <<>> ELSE Extremes(shapes, 1)

\* A shape for each extreme of each dimension; the one that stands for several
\* is run for the first of them.
CoverageCheckShapes(shapes) ==
  IF shapes = <<>> THEN <<>> ELSE Extremes(shapes, 1) \o Extremes(shapes, 2)

-----------------------------------------------------------------------------
(* Memory and the budget *)

Numeric(limit) == limit # Unset /\ limit < OneTib

\* cgroup_v2_walk: levels is the list of memory.max from the process's own
\* group up to the mount point.
CgroupV2WalkFromRoot(levels) ==
  LET found == SelectLastInSeq(levels, Numeric) IN
  IF found = 0 THEN Unset ELSE levels[found]

CgroupV2Walk(levels) ==
  LET found == SelectInSeq(levels, Numeric) IN
  IF found = 0 THEN Unset ELSE levels[found]

CgroupMemory(h) ==
  LET v2 == CgroupV2Walk(h.v2) IN
  IF v2 # Unset THEN v2 ELSE IF Numeric(h.v1) THEN h.v1 ELSE Unset

DetectAvailableMemory(e, h) ==
  Setting(e.memory, Setting(CgroupMemory(h), Setting(h.ram, FallbackMemory)))

SaturatingSub(x, y) == IF x > y THEN x - y ELSE 0

\* compute_workspace_budget: the workspace of one worker.
WorkspaceBudget(available, workers, modelRss, tenths) ==
  LET total == SaturatingSub(SaturatingSub(available, workers * modelRss), OsHeadroom)
  IN  (total * tenths) \div (10 * workers)

\* CostModel::chunk_cost; a negative product is cast to 0.
ChunkCost(m, count, maxSeq) ==
  SaturatingSub(m.a * count * maxSeq, 0) + SaturatingSub(m.b * count * maxSeq * maxSeq, 0)

Fits(m, count, maxSeq) == ChunkCost(m, count, maxSeq) <= m.max

\* The least budget a server is opened with: one text of the greatest length.
PhysicsFloorDropped(c) == 0
PhysicsFloor(c) == ChunkCost(Conservative(0), 1, c.maxSeq)

-----------------------------------------------------------------------------
(* The steps of a start *)

Init ==
  /\ \E d \in Deployments : env = d.env /\ host = d.host
  /\ stage = "config"
  /\ cfg = Unset
  /\ n = 0
  /\ shard = <<>>
  /\ device = <<>>
  /\ deltas = <<>>
  /\ plan = host.plan
  /\ built = {}
  /\ check = {}
  /\ todo = <<>>
  /\ fast = FALSE
  /\ fresh = FALSE
  /\ warmed = 0
  /\ failed = {}
  /\ ceiling = 0
  /\ rss = 0
  /\ avail = 0
  /\ model = Conservative(DefaultMaxWorkspace)
  /\ source = "default"

\* Config::from_env, which validates the TLS pair, and EmbedPool::spawn up to
\* its first worker.
Configure ==
  /\ stage = "config"
  /\ env.tls # "half"
  /\ LET c == FromLookup(env, host) IN
       /\ cfg' = c
       /\ n' = ClampWorkers(c)
       /\ model' = Setting(c.override, model)
  /\ stage' = "loading"
  /\ UNCHANGED <<env, host, workerVars, rss, avail, source>>

RefuseConfig ==
  /\ stage = "config"
  /\ env.tls = "half"
  /\ stage' = "refused"
  /\ UNCHANGED <<env, host, cfg, n, workerVars, budgetVars>>

\* The next worker is spawned, and given its device and its shard.  Workers
\* load one after the other.
SpawnWorker(id) ==
  /\ Len(deltas) < n
  /\ id = Len(deltas)
  /\ device' = Append(device, id % cfg.gpuCount)
  /\ shard' = Append(shard, WorkerShapes(id))
  /\ UNCHANGED <<env, host, cfg, n, budgetVars>>

LoadWorker ==
  /\ stage = "loading"
  /\ cfg.ep # "tensorrt"
  /\ SpawnWorker(Len(deltas))
  /\ \E delta \in RssDeltas : deltas' = Append(deltas, delta)
  /\ UNCHANGED <<stage, ceiling, prewarmVars>>

\* On TensorRT it compiles its shard before it signals (trt_prewarm): first the
\* extremes, when there is a plan.
StartPrewarm ==
  /\ stage = "loading"
  /\ cfg.ep = "tensorrt"
  /\ SpawnWorker(Len(deltas))
  /\ stage' = "checking"
  /\ built' = plan
  /\ check' = {}
  /\ LET shapes == WorkerShapes(Len(deltas)) IN
       /\ todo' = IF plan = {} THEN <<>> ELSE CoverageCheckShapes(shapes)
       /\ fast' = (plan # {} /\ shapes # <<>>)
  /\ fresh' = FALSE
  /\ warmed' = 0
  /\ UNCHANGED <<deltas, ceiling, plan, failed>>

\* A shape already run as a check is not run twice.
SkipShape ==
  /\ stage \in {"checking", "compiling"}
  /\ todo # <<>>
  /\ Head(todo) \in check
  /\ todo' = Tail(todo)
  /\ UNCHANGED <<env, host, stage, cfg, n, shard, device, deltas, ceiling, built, check,
                 fast, fresh, warmed, plan, failed, budgetVars>>

\* run_warmup_shape succeeds, as a load or as a build, and is a cache hit when it
\* was no longer than the threshold, which a build always is.
RunShape ==
  /\ stage \in {"checking", "compiling"}
  /\ todo # <<>>
  /\ Head(todo) \notin check
  /\ \E cacheHit \in BOOLEAN :
       /\ cacheHit => Covers(built, Head(todo))
       /\ fast' = (fast /\ cacheHit)
       /\ fresh' = (fresh \/ ~cacheHit)
  /\ built' = IF Covers(built, Head(todo)) THEN built ELSE built \cup {Head(todo)}
  /\ plan' = IF host.persists THEN built' ELSE plan
  /\ warmed' = IF Head(todo)[2] > warmed THEN Head(todo)[2] ELSE warmed
  /\ check' = IF stage = "checking" THEN check \cup {Head(todo)} ELSE check
  /\ todo' = Tail(todo)
  /\ UNCHANGED <<env, host, stage, cfg, n, shard, device, deltas, ceiling, failed,
                 budgetVars>>

\* The build of the shape fails.
ShapeFails ==
  /\ stage \in {"checking", "compiling"}
  /\ todo # <<>>
  /\ Head(todo) \notin check
  /\ ~Covers(built, Head(todo))
  /\ Head(todo)[2] \in FailingSeqs
  /\ fast' = FALSE
  /\ failed' = failed \cup {Head(todo)}
  /\ check' = IF stage = "checking" THEN check \cup {Head(todo)} ELSE check
  /\ todo' = Tail(todo)
  /\ UNCHANGED <<env, host, stage, cfg, n, shard, device, deltas, ceiling, built, fresh,
                 warmed, plan, budgetVars>>

\* Not all checks were cache hits: every shape not yet run is compiled.
CompileRest ==
  /\ stage = "checking"
  /\ todo = <<>>
  /\ ~fast
  /\ stage' = "compiling"
  /\ todo' = Last(shard)
  /\ UNCHANGED <<env, host, cfg, n, shard, device, deltas, ceiling, built, check, fast,
                 fresh, warmed, plan, failed, budgetVars>>

\* The shard is warm.  A strict worker that compiled and finds no plan on the
\* volume does not signal but fails.
EndPrewarm ==
  /\ stage = "compiling" \/ (stage = "checking" /\ fast)
  /\ todo = <<>>
  /\ ceiling' = IF warmed > ceiling THEN warmed ELSE ceiling
  /\ IF cfg.strict /\ fresh /\ plan = {}
     THEN stage' = "failed" /\ UNCHANGED deltas
     ELSE /\ stage' = "loading"
          /\ \E delta \in RssDeltas : deltas' = Append(deltas, delta)
  /\ UNCHANGED <<env, host, cfg, n, shard, device, prewarmVars, budgetVars>>

\* load_models fails: the init task returns the error, and the process exits.
LoadFails ==
  /\ stage = "loading"
  /\ Len(deltas) < n
  /\ stage' = "failed"
  /\ UNCHANGED <<env, host, cfg, n, workerVars, budgetVars>>

\* All workers have signalled: the median is stored.  A warm-up container has
\* done its work (what it then checks is in EngineCache).
Measure ==
  /\ stage = "loading"
  /\ Len(deltas) = n
  /\ \E order \in SortedOrders(deltas) :
       rss' = MedianUsize([i \in 1 .. Len(deltas) |-> deltas[order[i]]])
  /\ stage' = IF cfg.warmupOnly THEN "warmed" ELSE "measured"
  /\ UNCHANGED <<env, host, cfg, n, workerVars, avail, model, source>>

\* run_readiness_probe: detection, budget, floor and cost model.  The probe,
\* which fits coefficients or falls back, and the calls that open the server
\* are in Server.
Workspace ==
  WorkspaceBudget(DetectAvailableMemory(env, host), cfg.workers, rss, cfg.safety)

Resolve(m, from) ==
  /\ Workspace >= PhysicsFloor(cfg)
  /\ avail' = DetectAvailableMemory(env, host)
  /\ model' = m
  /\ source' = from
  /\ stage' = "open"
  /\ UNCHANGED <<env, host, cfg, n, workerVars, rss>>

UseOverride ==
  /\ stage = "measured"
  /\ cfg.override # Unset
  /\ Resolve(cfg.override, "override")

\* A usable coefficients file may or may not be on the volume.
UseProbeCache ==
  /\ stage = "measured"
  /\ cfg.override = Unset
  /\ cfg.probeCache
  /\ \E c \in Coefficients :
       Resolve([a |-> c.a, b |-> c.b, max |-> Workspace], "cache")

UseProbe ==
  /\ stage = "measured"
  /\ cfg.override = Unset
  /\ \/ \E c \in Coefficients :
          Resolve([a |-> c.a, b |-> c.b, max |-> Workspace], "fitted")
     \/ Resolve(Conservative(Workspace), "conservative")

BelowFloor ==
  /\ stage = "measured"
  /\ Workspace < PhysicsFloor(cfg)
  /\ avail' = DetectAvailableMemory(env, host)
  /\ stage' = "failed"
  /\ UNCHANGED <<env, host, cfg, n, workerVars, rss, model, source>>

Ended == stage \in {"refused", "failed", "warmed", "open"} /\ UNCHANGED vars

Next ==
  \/ Configure
  \/ RefuseConfig
  \/ LoadWorker
  \/ StartPrewarm
  \/ SkipShape
  \/ RunShape
  \/ ShapeFails
  \/ CompileRest
  \/ EndPrewarm
  \/ LoadFails
  \/ Measure
  \/ UseOverride
  \/ UseProbeCache
  \/ UseProbe
  \/ BelowFloor
  \/ Ended

Spec == Init /\ [][Next]_vars

-----------------------------------------------------------------------------
(* Properties *)

\* Type correctness, and with it that every resolved setting is one the other
\* modules assume: at least one worker, device, text and guarded length.
TypeOK ==
  /\ stage \in {"config", "loading", "checking", "compiling", "measured", "refused",
                "failed", "warmed", "open"}
  /\ cfg # Unset =>
       /\ {cfg.workers, cfg.maxBatch, cfg.gpuCount, cfg.guardSeq, n} \subseteq Nat \ {0}
       /\ cfg.maxSeq \in 1 .. ModelMaxSeq
       /\ cfg.safety \in 1 .. 10
       /\ cfg.shapes # <<>>
  /\ {rss, avail, ceiling, model.max} \subseteq Nat
  /\ plan \cup failed \subseteq Shapes
  /\ Len(deltas) <= n

\* A host whose groups are limited no higher than those they are nested in.  The
\* kernel attaches the memory controller to one of the two hierarchies.
Nested(h) ==
  /\ Numeric(h.v1) => ~\E i \in DOMAIN h.v2 : Numeric(h.v2[i])
  /\ \A i, j \in DOMAIN h.v2 : i < j /\ Numeric(h.v2[i]) /\ Numeric(h.v2[j]) => h.v2[i] <= h.v2[j]
  /\ h.ram # Unset
  /\ \A limit \in ToSet(h.v2) \cup {h.v1} : Numeric(limit) => limit <= h.ram

\* The memory the kernel lets the process have, or what the operator said.
Limit ==
  IF env.memory # Unset THEN env.memory
  ELSE Min({host.ram} \cup {l \in ToSet(host.v2) \cup {host.v1} : Numeric(l)})

\* A server whose budget was computed never plans for more than the process may
\* use: every worker at its workspace ceiling at once, the model of each, and
\* the headroom fit the limit, although the subtractions saturate and the walk
\* over the groups stops at the first limit (bootstrap/budget.rs, sysinfo.rs).
BudgetFits ==
  (stage = "open" /\ source # "override" /\ (env.memory # Unset \/ Nested(host))) =>
    n * model.max + n * rss + OsHeadroom <= Limit

\* Opened with the conservative coefficients, by the probe's fallback or by
\* BGE_M3_DISABLE_AUTO_BUDGET, a server can run one text of the greatest length
\* inside its workspace, which is what the floor in readiness.rs is there for.
LongestTextFits ==
  (/\ stage = "open"
   /\ \/ source = "conservative"
      \/ cfg.ep = "cpu" /\ env.disableAuto) => Fits(model, 1, cfg.maxSeq)

\* With three workers or more, one worker's odd measurement does not decide the
\* model footprint: two of them are at least it and two at most (pool.rs).
OneOutlierIgnored ==
  (stage \in {"measured", "open"} /\ n >= 3) =>
    /\ Cardinality({i \in DOMAIN deltas : deltas[i] >= rss}) >= 2
    /\ Cardinality({i \in DOMAIN deltas : deltas[i] <= rss}) >= 2

\* On a GPU no two workers share a device, however many are asked for.
OwnDevice ==
  (cfg # Unset /\ cfg.ep # "cpu") =>
    \A i, j \in DOMAIN device : i # j => device[i] # device[j]

\* The places, in the shards of the workers, at which a shape stands.
Given(shape) ==
  {p \in UNION {{i} \X (DOMAIN shard[i]) : i \in DOMAIN shard} : shard[p[1]][p[2]] = shape}

\* Between them the workers are given every configured shape exactly as often as
\* it is configured: no tier is left out and none is compiled twice.
ShardsPartition ==
  (stage \in {"measured", "warmed", "open"} /\ cfg.ep = "tensorrt") =>
    \A shape \in ToSet(cfg.shapes) :
      Cardinality(Given(shape)) = Cardinality({j \in DOMAIN cfg.shapes : cfg.shapes[j] = shape})

\* When the workers are up, the plan on the volume covers every configured shape
\* whose build did not fail: those the warm-cache fast path skipped included, the
\* "zero false positives" of trt_warmup.rs.
GridCovered ==
  (stage \in {"measured", "warmed", "open"} /\ cfg.ep = "tensorrt" /\ host.persists) =>
    \A shape \in ToSet(cfg.shapes) : Covers(plan, shape) \/ shape \in failed

\* The chunks bin_pack may build: one text, or several that fit the budget.
Packable(batch, seq) == batch = 1 \/ Fits(model, batch, seq)

\* What the guard refuses (jit_guard.rs).
Admit(seq) == ~(seq >= cfg.guardSeq /\ seq > ceiling)

\* jit_guard.rs: "The only reachable uncovered-and-dangerous region is a sequence
\* length tier that warmup failed to compile".  So when no build failed, a chunk of
\* a dangerous length that the guard lets through is covered by the plan.
OnlyFailedTiersUncovered ==
  (stage = "open" /\ cfg.ep = "tensorrt" /\ cfg.guard /\ host.persists /\ failed = {}) =>
    \A batch \in 1 .. cfg.maxBatch, seq \in cfg.guardSeq .. cfg.maxSeq :
      (Packable(batch, seq) /\ Admit(seq)) => Covers(plan, <<batch, seq>>)
=============================================================================
