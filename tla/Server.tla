-------------------------------- MODULE Server --------------------------------
(***************************************************************************)
(* The server around the pool: the readiness task and the memory-probe     *)
(* task (bootstrap/readiness.rs, probe_task.rs), the request permits       *)
(* (state.rs, lib.rs), the embedding handlers and /health/deep             *)
(* (handler/), the probe cache file and the restart of the process by its  *)
(* orchestrator.                                                           *)
(*                                                                         *)
(* The pool is the service EmbedService describes, which WorkerPool        *)
(* implements: a caller asks, enters the line, is served and collects one  *)
(* answer.  Here the crew shrinks: a worker whose inference ends in a      *)
(* fatal TensorRT error answers it and leaves.  A client stands for one    *)
(* request in being; it is used again once its last call is settled.       *)
(***************************************************************************)
EXTENDS Integers, Sequences, FiniteSets

CONSTANTS
  CfgWorkers,         \* cfg.workers, which sizes the permits
  N,                  \* worker threads of the pool (clamped to the GPU count)
  CapacityPerWorker,  \* request channel slots per worker
  Clients,            \* requests to /v1/embeddings, :sparse and :both
  Canary,             \* the request of /health/deep
  Boot,               \* the calls of the readiness and probe tasks
  ProbeShapes         \* shapes of the probe sweep, the warm-up left out

ASSUME ServerAssumption ==
  /\ CfgWorkers \in Nat \ {0}
  /\ N \in 1 .. CfgWorkers
  /\ CapacityPerWorker \in Nat \ {0}
  /\ ProbeShapes \in Nat
  /\ IsFiniteSet(Clients)
  /\ Canary \notin Clients
  /\ Boot \notin Clients \cup {Canary}

Handlers == Clients \cup {Canary}
Requests == Handlers \cup {Boot}
Capacity == N * CapacityPerWorker

VARIABLES
  up,           \* whether the process runs
  mode,         \* the configuration: "override", "cached" or "uncached"
  cache,        \* probe-coefficients.json: "none", "stale" or "valid"
  boot,         \* where the readiness task, or the probe task, is
  probed,       \* calls of the probe sweep that are over, the warm-up included
  points,       \* data points collected by the probe (2 stands for any more)
  model,        \* the shared cost model: where its coefficients come from
  probeStatus,  \* probe_status
  ready,        \* ready
  permits,      \* available permits of request_permits
  live,         \* live_workers
  fatal,        \* requests being served whose inference ends in a fatal error
  leaving,      \* workers that have answered one and not left their loop yet
  handler,      \* where each handler is, or the status it answers with
  call, line, serving, open   \* the pool, see EmbedService

bootVars    == <<mode, cache, boot, probed, points, model, probeStatus, ready>>
poolVars    == <<call, line, serving, open>>
crewVars    == <<live, fatal, leaving>>
vars        == <<up, bootVars, permits, crewVars, handler, poolVars>>

Pool == INSTANCE EmbedService WITH Leaving <- Handlers

Answers  == {"ok", "err", "rejected"}
Statuses == {"200", "400", "500", "503"}

\* max(cfg_workers - 1, 1): one slot is kept for the probe.
InitialPermits == IF CfgWorkers - 1 > 1 THEN CfgWorkers - 1 ELSE 1

\* What acquire_many_owned takes before the probe.
Drained == CfgWorkers - 1

\* The handlers that own an OwnedSemaphorePermit; /health/deep takes none.
Holders == {c \in Clients : handler[c] = "call"}

-----------------------------------------------------------------------------
(* The process *)

\* The cost model run() starts with.
InitialModel == IF mode = "override" THEN "override" ELSE "default"

Init ==
  /\ up = TRUE
  /\ mode \in {"override", "cached", "uncached"}
  /\ cache \in {"none", "stale"}
  /\ boot = "init"
  /\ probed = 0
  /\ points = 0
  /\ model = InitialModel
  /\ probeStatus = "Running"
  /\ ready = FALSE
  /\ permits = InitialPermits
  /\ live = N
  /\ fatal = {}
  /\ leaving = 0
  /\ handler = [h \in Handlers |-> "idle"]
  /\ Pool!ServiceInit

\* process::exit(1), or a death the code cannot prevent (OOM kill, a fault in
\* the runtime, an abort on panic): the memory goes, back to what run() sets
\* up; the cache file stays.
Exit ==
  /\ up' = FALSE
  /\ boot' = "init"
  /\ probed' = 0
  /\ points' = 0
  /\ model' = InitialModel
  /\ probeStatus' = "Running"
  /\ ready' = FALSE
  /\ permits' = InitialPermits
  /\ live' = N
  /\ fatal' = {}
  /\ leaving' = 0
  /\ handler' = [h \in Handlers |-> "idle"]
  /\ call' = [r \in Requests |-> "idle"]
  /\ line' = <<>>
  /\ serving' = {}
  /\ open' = TRUE
  /\ UNCHANGED <<mode, cache>>

Crash == up /\ Exit

\* The orchestrator starts the container again.
Restart ==
  /\ ~up
  /\ up' = TRUE
  /\ UNCHANGED <<bootVars, permits, crewVars, handler, poolVars>>

-----------------------------------------------------------------------------
(* The readiness task: run_readiness_probe *)

\* The pool failed to load, or the workspace is below the physics floor.
InitFails ==
  /\ up /\ boot = "init"
  /\ Exit

\* The pool is loaded and the budget suffices.
InitOk ==
  /\ up /\ boot = "init"
  /\ boot' = "resolve"
  /\ UNCHANGED <<up, mode, cache, probed, points, model, probeStatus, ready,
                 permits, crewVars, handler, poolVars>>

ResolveOverride ==
  /\ up /\ boot = "resolve"
  /\ mode = "override"
  /\ model' = "override"
  /\ probeStatus' = "Disabled"
  /\ boot' = "dense"
  /\ UNCHANGED <<up, mode, cache, probed, points, ready, permits, crewVars, handler,
                 poolVars>>

\* try_load_probe_cache: a file with this version, model, length and arch.
ResolveCacheHit ==
  /\ up /\ boot = "resolve"
  /\ mode = "cached"
  /\ cache = "valid"
  /\ model' = "cached"
  /\ probeStatus' = "CacheHit"
  /\ boot' = "dense"
  /\ UNCHANGED <<up, mode, cache, probed, points, ready, permits, crewVars, handler,
                 poolVars>>

StartProbeReady ==
  /\ up /\ boot = "resolve"
  /\ mode = "uncached" \/ (mode = "cached" /\ cache # "valid")
  /\ probeStatus' = "Running"
  /\ ready' = TRUE
  /\ boot' = "drain"
  /\ UNCHANGED <<up, mode, cache, probed, points, model, permits, crewVars, handler,
                 poolVars>>

\* spawn_probe_task.
StartProbe ==
  /\ up /\ boot = "resolve"
  /\ mode = "uncached" \/ (mode = "cached" /\ cache # "valid")
  /\ probeStatus' = "Running"
  /\ boot' = "drain"
  /\ UNCHANGED <<up, mode, cache, probed, points, model, ready, permits, crewVars,
                 handler, poolVars>>

\* acquire_many_owned(cfg_workers - 1), then forget: the permits are gone until
\* the task adds them back.
DrainPermits ==
  /\ up /\ boot = "drain"
  /\ permits >= Drained
  /\ permits' = permits - Drained
  /\ boot' = "probe"
  /\ UNCHANGED <<up, mode, cache, probed, points, model, probeStatus, ready, crewVars,
                 handler, poolVars>>

-----------------------------------------------------------------------------
(* The probe task: run_probe, then publication, readiness checks, release *)

\* pool.probe, for the arena warm-up first and then for each shape.
ProbeShape ==
  /\ up /\ boot = "probe"
  /\ probed <= ProbeShapes
  /\ Pool!Ask(Boot)
  /\ UNCHANGED <<up, bootVars, permits, crewVars, handler>>

\* A measured shape is a data point; the warm-up and a failed shape are not.
ProbeAnswer ==
  /\ up /\ boot = "probe"
  /\ Pool!Collect(Boot)
  /\ probed' = probed + 1
  /\ points' = IF call[Boot] = "ok" /\ probed > 0 /\ points < 2
               THEN points + 1 ELSE points
  /\ UNCHANGED <<up, mode, cache, boot, model, probeStatus, ready, permits, crewVars,
                 handler>>

\* The estimate exceeds the worker's budget, or the RSS guard fires.
SkipShape ==
  /\ up /\ boot = "probe"
  /\ call[Boot] = "idle"
  /\ probed \in 1 .. ProbeShapes
  /\ probed' = probed + 1
  /\ UNCHANGED <<up, mode, cache, boot, points, model, probeStatus, ready, permits,
                 crewVars, handler, poolVars>>

\* fit_cost_model needs two points, and can still refuse a fit that is singular
\* or has a negative coefficient.
FitCostModel == IF points >= 2 THEN {"fitted", "conservative"} ELSE {"conservative"}

\* save_probe_cache: a temporary file and a rename, whose failure is only logged.
SaveProbeCache == IF mode = "cached" THEN {cache, "valid"} ELSE {cache}

\* The end of run_probe and what follows without an await: the model is stored,
\* a real fit is cached, the status is published.
PublishProbe ==
  /\ up /\ boot = "probe"
  /\ call[Boot] = "idle"
  /\ probed = ProbeShapes + 1
  /\ model' \in FitCostModel
  /\ \/ model' = "fitted" /\ probeStatus' = "Complete" /\ cache' \in SaveProbeCache
     \/ model' = "conservative" /\ probeStatus' = "Failed" /\ UNCHANGED cache
  /\ boot' = "dense"
  /\ UNCHANGED <<up, mode, probed, points, ready, permits, crewVars, handler, poolVars>>

\* run_readiness_checks_and_open: one dense call, then one sparse call.
CheckCall ==
  /\ up /\ boot \in {"dense", "sparse"}
  /\ Pool!Ask(Boot)
  /\ UNCHANGED <<up, bootVars, permits, crewVars, handler>>

\* Whether the checks run in the probe task, which then releases the permits.
InProbeTask == probeStatus \in {"Complete", "Failed"}

CheckOk ==
  /\ up /\ boot \in {"dense", "sparse"}
  /\ call[Boot] = "ok"
  /\ Pool!Collect(Boot)
  /\ \/ boot = "dense" /\ boot' = "sparse" /\ UNCHANGED ready
     \/ /\ boot = "sparse"
        /\ ready' = TRUE
        /\ boot' = IF InProbeTask THEN "release" ELSE "done"
  /\ UNCHANGED <<up, mode, cache, probed, points, model, probeStatus, permits, crewVars,
                 handler>>

\* A failed check: the readiness task exits the process; the probe task logs
\* the error and goes on to release the permits.
CheckFails ==
  /\ up /\ boot \in {"dense", "sparse"}
  /\ call[Boot] \in {"err", "rejected"}
  /\ \/ ~InProbeTask /\ Exit
     \/ /\ InProbeTask
        /\ Pool!Collect(Boot)
        /\ boot' = "release"
        /\ UNCHANGED <<up, mode, cache, probed, points, model, probeStatus, ready,
                       permits, crewVars, handler>>

ReleasePermitsForgotten ==
  /\ up /\ boot = "release"
  /\ boot' = "done"
  /\ UNCHANGED <<up, mode, cache, probed, points, model, probeStatus, ready, permits,
                 crewVars, handler, poolVars>>

ReleasePermitsAgain ==
  /\ up /\ boot = "release"
  /\ permits' = permits + CfgWorkers
  /\ UNCHANGED <<up, mode, cache, boot, probed, points, model, probeStatus, ready,
                 crewVars, handler, poolVars>>

\* add_permits(cfg_workers).
ReleasePermits ==
  /\ up /\ boot = "release"
  /\ permits' = permits + CfgWorkers
  /\ boot' = "done"
  /\ UNCHANGED <<up, mode, cache, probed, points, model, probeStatus, ready, crewVars,
                 handler, poolVars>>

-----------------------------------------------------------------------------
(* The handlers *)

\* check_ready, then validate_input: the request is refused or joins the gate.
Arrive(c) ==
  /\ up
  /\ handler[c] = "idle" /\ call[c] = "idle"
  /\ \/ /\ ~ready \/ live = 0
        /\ handler' = [handler EXCEPT ![c] = "503"]
     \/ /\ ready /\ live > 0
        /\ handler' = [handler EXCEPT ![c] = "400"]
     \/ /\ ready /\ live > 0
        /\ handler' = [handler EXCEPT ![c] = "gate"]
  /\ UNCHANGED <<up, bootVars, permits, crewVars, poolVars>>

\* acquire_owned, then the call of the pool with no await in between.
Acquire(c) ==
  /\ up
  /\ handler[c] = "gate"
  /\ permits > 0
  /\ permits' = permits - 1
  /\ handler' = [handler EXCEPT ![c] = "call"]
  /\ Pool!Ask(c)
  /\ UNCHANGED <<up, bootVars, crewVars>>

\* The status an answer of the pool becomes (error.rs): a refusal by the
\* in-band guard is retriable.
StatusOf(answer) == CASE answer = "ok" -> "200"
                      [] answer = "rejected" -> "503"
                      [] OTHER -> "500"

\* The handler returns and its permit is dropped.
Respond(c) ==
  /\ up
  /\ handler[c] = "call"
  /\ handler' = [handler EXCEPT ![c] = StatusOf(call[c])]
  /\ permits' = permits + 1
  /\ Pool!Collect(c)
  /\ UNCHANGED <<up, bootVars, crewVars>>

\* GET /health/deep: no permit, no check of the live workers.
DeepHealthUnready ==
  /\ up
  /\ handler[Canary] = "idle"
  /\ Pool!Ask(Canary)
  /\ handler' = [handler EXCEPT ![Canary] = "call"]
  /\ UNCHANGED <<up, bootVars, permits, crewVars>>

DeepHealth ==
  /\ up
  /\ handler[Canary] = "idle" /\ call[Canary] = "idle"
  /\ \/ /\ ~ready
        /\ handler' = [handler EXCEPT ![Canary] = "503"]
        /\ UNCHANGED poolVars
     \/ /\ ready
        /\ handler' = [handler EXCEPT ![Canary] = "call"]
        /\ Pool!Ask(Canary)
  /\ UNCHANGED <<up, bootVars, permits, crewVars>>

DeepHealthAnswer ==
  /\ up
  /\ handler[Canary] = "call"
  /\ handler' = [handler EXCEPT ![Canary] = IF call[Canary] = "ok" THEN "200" ELSE "503"]
  /\ Pool!Collect(Canary)
  /\ UNCHANGED <<up, bootVars, permits, crewVars>>

\* The canary call is dropped after 30 s.
DeepHealthTimeout ==
  /\ up
  /\ handler[Canary] = "call"
  /\ handler' = [handler EXCEPT ![Canary] = "503"]
  /\ Pool!Leave(Canary)
  /\ UNCHANGED <<up, bootVars, permits, crewVars>>

DisconnectLeaks(c) ==
  /\ up
  /\ \/ /\ handler[c] = "gate"
        /\ UNCHANGED <<permits, poolVars>>
     \/ /\ handler[c] = "call"
        /\ UNCHANGED permits
        /\ Pool!Leave(c) \/ Pool!Collect(c)
  /\ handler' = [handler EXCEPT ![c] = "idle"]
  /\ UNCHANGED <<up, bootVars, crewVars>>

\* The client goes away: the handler's future is dropped where it stands, its
\* permit with it, while a worker may still hold the request.
Disconnect(c) ==
  /\ up
  /\ \/ /\ handler[c] = "gate"
        /\ UNCHANGED <<permits, poolVars>>
     \/ /\ handler[c] = "call"
        /\ permits' = permits + 1
        /\ Pool!Leave(c) \/ Pool!Collect(c)
  /\ handler' = [handler EXCEPT ![c] = "idle"]
  /\ UNCHANGED <<up, bootVars, crewVars>>

\* The response is sent.
Finish(h) ==
  /\ up
  /\ handler[h] \in Statuses
  /\ handler' = [handler EXCEPT ![h] = "idle"]
  /\ UNCHANGED <<up, bootVars, permits, crewVars, poolVars>>

-----------------------------------------------------------------------------
(* The pool *)

serverVars == <<up, bootVars, permits, handler>>

\* The line, and the refusals once every worker has gone.
PoolEnter(r)  == up /\ Pool!Enter(r)  /\ UNCHANGED <<serverVars, crewVars>>
PoolRefuse(r) == up /\ Pool!Refuse(r) /\ UNCHANGED <<serverVars, crewVars>>

\* A free worker takes the head of the line.  How its inference ends is settled
\* here: fatally only on TensorRT, where the cost model is always an override
\* (config.rs:667-681) and no probe runs, and only for a caller that has not left,
\* as the worker skips the others.  Nothing else ends a worker.
PoolServe ==
  /\ up
  /\ Cardinality(serving) + leaving < live
  /\ Pool!Serve
  /\ \/ UNCHANGED fatal
     \/ /\ mode = "override"
        /\ call[Head(line)] = "waiting"
        /\ fatal' = fatal \cup {Head(line)}
  /\ UNCHANGED <<serverVars, live, leaving>>

\* The worker answers; the answer to a fatal inference is its last.  The guard
\* that refuses a request is built on TensorRT only.
PoolReply(r) ==
  /\ up
  /\ Pool!Reply(r)
  /\ call'[r] = "rejected" => mode = "override"
  /\ \/ r \notin fatal /\ UNCHANGED <<fatal, leaving>>
     \/ /\ r \in fatal
        /\ call'[r] = Pool!Answered(r, "err")
        /\ fatal' = fatal \ {r}
        /\ leaving' = leaving + 1
  /\ UNCHANGED <<serverVars, live>>

\* The last worker has left and its clone of the receiver is dropped.
PoolClose == up /\ live = 0 /\ Pool!Close /\ UNCHANGED <<serverVars, crewVars>>

\* A worker leaves its loop, after the reply to the request that made it.
WorkerExits ==
  /\ up
  /\ leaving > 0
  /\ leaving' = leaving - 1
  /\ live' = live - 1
  /\ UNCHANGED <<up, bootVars, permits, fatal, handler, poolVars>>

BootStep ==
  \/ InitOk \/ InitFails \/ ResolveOverride \/ ResolveCacheHit \/ StartProbe
  \/ DrainPermits \/ ProbeShape \/ ProbeAnswer \/ SkipShape \/ PublishProbe
  \/ CheckCall \/ CheckOk \/ CheckFails \/ ReleasePermits

Next ==
  \/ BootStep
  \/ \E c \in Clients : Arrive(c) \/ Acquire(c) \/ Respond(c) \/ Disconnect(c)
  \/ DeepHealth \/ DeepHealthAnswer \/ DeepHealthTimeout
  \/ \E h \in Handlers : Finish(h)
  \/ \E r \in Requests : PoolEnter(r) \/ PoolRefuse(r) \/ PoolReply(r)
  \/ PoolServe
  \/ PoolClose
  \/ WorkerExits
  \/ Crash
  \/ Restart

Spec == Init /\ [][Next]_vars

\* The tasks run, the semaphore and the channel serve their waiters in FIFO
\* order, the workers answer what they take and leave after a fatal answer;
\* nobody has to arrive, to go away or to crash, and no inference has to fail.
Fairness ==
  /\ WF_vars(BootStep)
  /\ WF_vars(Restart)
  /\ \A c \in Clients : SF_vars(Acquire(c)) /\ WF_vars(Respond(c))
  /\ WF_vars(DeepHealthAnswer)
  /\ WF_vars(PoolServe)
  /\ WF_vars(PoolClose)
  /\ WF_vars(WorkerExits)
  /\ \A r \in Requests :
       SF_vars(PoolEnter(r)) /\ WF_vars(PoolRefuse(r)) /\ WF_vars(PoolReply(r))

FairSpec == Spec /\ Fairness

-----------------------------------------------------------------------------
(* Properties *)

TypeOK ==
  /\ up \in BOOLEAN
  /\ mode \in {"override", "cached", "uncached"}
  /\ cache \in {"none", "stale", "valid"}
  /\ boot \in {"init", "resolve", "drain", "probe", "dense", "sparse", "release", "done"}
  /\ probed \in 0 .. ProbeShapes + 1
  /\ points \in 0 .. 2
  /\ model \in {"default", "override", "cached", "fitted", "conservative"}
  /\ probeStatus \in {"Disabled", "Running", "Complete", "Failed", "CacheHit"}
  /\ ready \in BOOLEAN
  /\ permits \in 0 .. CfgWorkers + 1
  /\ live \in 0 .. N
  /\ fatal \subseteq serving
  /\ leaving \in 0 .. N
  /\ handler \in [Handlers -> {"idle", "gate", "call"} \cup Statuses]
  /\ call \in [Requests -> {"idle", "sending", "waiting", "abandoned"} \cup Answers]
  /\ line \in Seq(Requests)
  /\ serving \subseteq Requests
  /\ open \in BOOLEAN

\* The permits in being at each stage of the start-up, as the code moves them:
\* a start without a probe keeps the initial ones for good, and a probe takes
\* them all, unless there is only one worker.
PermitsInBeing ==
  CASE boot = "probe" \/ (InProbeTask /\ boot # "done") -> InitialPermits - Drained
    [] InProbeTask /\ boot = "done" -> InitialPermits - Drained + CfgWorkers
    [] OTHER -> InitialPermits

\* No permit is lost or made up: on every way out of a handler (answer, error,
\* client gone at the gate or in the pool) its permit comes back exactly once,
\* whatever the probe task drains and releases meanwhile.
PermitAccounting == permits + Cardinality(Holders) = PermitsInBeing

\* The probe measures the process's memory, so nothing else may use the pool
\* while it runs: no handler's call is in it, left over or being made, not even
\* that of /health/deep, which takes no permit.  (This is what probe_task.rs
\* does; docs/request-flow.md lets max(N-1, 1) requests in during the probe.)
ProbeAlone == boot = "probe" => \A h \in Handlers : call[h] = "idle"

\* No request of a client reaches the pool before the cost model that packs its
\* chunks has been settled and published: the override, the cached or fitted
\* coefficients or, after a failed probe, the conservative ones for this budget.
\* (Several documents, and the doc of run_readiness_probe, say that traffic is
\* served on defaults while the probe runs.)
TrafficIsTuned ==
  \A h \in Handlers :
    call[h] # "idle" => model # "default" /\ probeStatus # "Running"

\* A request past check_ready gets out of the gate and out of the pool, even
\* when it arrived in the window between ready and the release of the permits,
\* when every worker exits or when other clients leave.
EveryRequestAnswered ==
  \A c \in Clients : handler[c] \in {"gate", "call"} ~> handler[c] \notin {"gate", "call"}

\* doc of run(): "Background tasks log and call process::exit(1) on their own
\* unrecoverable failures": a start-up ends with a ready server or an exit.
BootEndsReadyOrExits == up /\ boot = "init" ~> ready \/ ~up

=============================================================================
