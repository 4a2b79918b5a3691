------------------------------ MODULE WorkerPool ------------------------------
(***************************************************************************)
(* The embedding worker pool: EmbedPool (embedder/pool.rs), its init task, *)
(* the request loop of its worker threads (embedder/worker/run.rs,         *)
(* dispatch.rs, guard.rs) and the callers of EmbedPool::dense, sparse,     *)
(* both, probe and send_adaptive_warmup.                                   *)
(*                                                                         *)
(* A request stands for the whole life of one call: the caller blocks in   *)
(* Sender::send while the bounded channel is full, then on the oneshot     *)
(* reply.  Texts, tensors and embeddings are left out: all that the pool   *)
(* tells apart about an inference is how it ends.  What a slow inference   *)
(* does to the TensorRT engine coverage (the broadcast and the JIT-suspect *)
(* channel) is the subject of another module.                              *)
(***************************************************************************)
EXTENDS Integers, Sequences, FiniteSets

CONSTANTS
  N,                    \* worker threads, after the clamp to the GPU count
  CapacityPerWorker,    \* request channel slots per worker (4 in the code)
  EmbedRequests,        \* calls of dense, sparse and both: the caller may leave
  MaintenanceRequests,  \* calls of probe and send_adaptive_warmup: it never does
  NoRequest,            \* a worker that holds no request
  Threshold,            \* circuit_breaker_threshold
  IdleTimeoutOn,        \* idle_timeout is Some(_)
  TensorRt,             \* ep = tensorrt: guard refusals and fatal builds occur
  Unwind                \* panics unwind (dev and test builds); the release
                        \* profile sets panic = "abort", which ends the process

ASSUME PoolAssumption ==
  /\ N \in Nat \ {0}
  /\ CapacityPerWorker \in Nat \ {0}
  /\ Threshold \in Nat \ {0}
  /\ IdleTimeoutOn \in BOOLEAN
  /\ TensorRt \in BOOLEAN
  /\ Unwind \in BOOLEAN
  /\ EmbedRequests \cap MaintenanceRequests = {}
  /\ NoRequest \notin EmbedRequests \cup MaintenanceRequests

Workers  == 0 .. N - 1
Requests == EmbedRequests \cup MaintenanceRequests
Capacity == N * CapacityPerWorker
Unlocked == N            \* the value of rxLock when no worker holds the mutex

VARIABLES
  initPc,    \* the init task: "loading", "done" or "failed"
  initId,    \* the worker whose readiness signal the init task awaits
  ready,     \* the message in the readiness channel: "none", "ok" or "err"
  wpc,       \* where each worker thread is
  models,    \* whether each worker owns a loaded session
  fails,     \* consecutive_failures of each worker
  cur,       \* the request each worker has taken and not yet answered
  outcome,   \* the InferenceOutcome each worker has yet to act on, or left with
  rxLock,    \* the holder of the mutex around the channel's receiver
  queue,     \* the bounded request channel
  senders,   \* whether an EmbedPool handle, hence a Sender, still exists
  call,      \* the state of each call
  live,      \* live_workers
  loaded     \* loaded_workers: -1 stands for the wrapped AtomicUsize

initVars == <<initPc, initId, ready>>
vars == <<initPc, initId, ready, wpc, models, fails, cur, outcome, rxLock,
          queue, senders, call, live, loaded>>

-----------------------------------------------------------------------------
(* Vocabulary *)

Answers  == {"ok", "err", "rejected"}
Outcomes == {"Ok", "Failure", "TrtFatal", "CircuitBreak", "Rejected", "Panicked"}

\* The request loop, from taking the receiver's lock to acting on an outcome.
LoopPcs == {"loop", "recv", "reload", "dispatch", "running", "finished"}

\* Leaving run_worker: locals are dropped in reverse order of declaration (the
\* session before the WorkerGuard), then the arguments (the receiver).
ExitPcs == {"dropSession", "dropGuard", "dropRx", "exited"}

\* The pcs in which a worker holds the request it took from the channel.
HoldingPcs == {"reload", "dispatch", "running"}

InQueue(r) == \E i \in 1 .. Len(queue) : queue[i] = r

\* A call the pool has accepted and not yet answered.
InFlight(r) == call[r] \in {"waiting", "abandoned"}

\* The Receiver lives while a worker or the init task owns a clone of its Arc.
ReceiverAlive == \/ initPc = "loading"
                 \/ \E w \in Workers : wpc[w] \notin {"unspawned", "exited"}

LastOwner(w) == /\ initPc # "loading"
                /\ \A v \in Workers \ {w} : wpc[v] \in {"unspawned", "exited"}

\* What a reply, or the drop of its sender, makes of a call: a caller that has
\* gone (its future was dropped) never sees it.
Settled(r, answer) == IF call[r] = "abandoned" THEN "idle" ELSE answer

-----------------------------------------------------------------------------
(* The init task of EmbedPool::spawn *)

\* startup_worker loads the session (and prewarms it) and signals ready.
StartupOk(w) ==
  /\ wpc[w] = "starting"
  /\ wpc' = [wpc EXCEPT ![w] = "loop"]
  /\ models' = [models EXCEPT ![w] = TRUE]
  /\ ready' = "ok"
  /\ UNCHANGED <<initPc, initId, fails, cur, outcome, rxLock, queue, senders,
                 call, live, loaded>>

StartupErrUnguarded(w) ==
  /\ wpc[w] = "starting"
  /\ wpc' = [wpc EXCEPT ![w] = "dropRx"]
  /\ ready' \in {"err", "none"}
  /\ UNCHANGED <<initPc, initId, models, fails, cur, outcome, rxLock, queue,
                 senders, call, live, loaded>>

\* A failed load sends Err before the thread returns; a failed prewarm
\* postcondition in strict mode, or a panic, returns without a message.
StartupErr(w) ==
  /\ wpc[w] = "starting"
  /\ wpc' = [wpc EXCEPT ![w] = "dropGuard"]
  /\ ready' \in {"err", "none"}
  /\ UNCHANGED <<initPc, initId, models, fails, cur, outcome, rxLock, queue,
                 senders, call, live, loaded>>

\* await_worker_signal returned Ok: the init task, not the worker, counts the
\* load, then spawns the next follower or ends.
InitCounts ==
  /\ initPc = "loading"
  /\ ready = "ok"
  /\ ready' = "none"
  /\ loaded' = loaded + 1
  /\ \/ /\ initId + 1 < N
        /\ initId' = initId + 1
        /\ wpc' = [wpc EXCEPT ![initId + 1] = "starting"]
        /\ UNCHANGED initPc
     \/ /\ initId + 1 = N
        /\ initPc' = "done"
        /\ UNCHANGED <<initId, wpc>>
  /\ UNCHANGED <<models, fails, cur, outcome, rxLock, queue, senders, call, live>>

\* await_worker_signal returned Err: the message first (biased select), else
\* the join handle of a thread that ended without one.  No call has been made
\* yet, so the init task's clone of the receiver goes with an empty channel.
InitFails ==
  /\ initPc = "loading"
  /\ \/ ready = "err"
     \/ ready = "none" /\ wpc[initId] = "exited"
  /\ initPc' = "failed"
  /\ ready' = "none"
  /\ UNCHANGED <<initId, wpc, models, fails, cur, outcome, rxLock, queue,
                 senders, call, live, loaded>>

-----------------------------------------------------------------------------
(* Callers *)

\* A caller enters dense, sparse, both, probe or send_adaptive_warmup.  The
\* handlers, the probe and the adaptive warm-up all start after the init task.
Call(r) ==
  /\ initPc = "done"
  /\ senders
  /\ call[r] = "idle"
  /\ call' = [call EXCEPT ![r] = "sending"]
  /\ UNCHANGED <<initVars, wpc, models, fails, cur, outcome, rxLock, queue,
                 senders, live, loaded>>

\* Sender::send completes: there is a free slot.
Send(r) ==
  /\ call[r] = "sending"
  /\ ReceiverAlive
  /\ Len(queue) < Capacity
  /\ queue' = Append(queue, r)
  /\ call' = [call EXCEPT ![r] = "waiting"]
  /\ UNCHANGED <<initVars, wpc, models, fails, cur, outcome, rxLock, senders,
                 live, loaded>>

\* "EmbedPool channel closed": every worker has gone.
SendClosed(r) ==
  /\ call[r] = "sending"
  /\ ~ReceiverAlive
  /\ call' = [call EXCEPT ![r] = "err"]
  /\ UNCHANGED <<initVars, wpc, models, fails, cur, outcome, rxLock, queue,
                 senders, live, loaded>>

\* The HTTP client disconnects, or /health/deep times out: the handler future
\* is dropped, and with it the pending send or the reply receiver.
Abandon(r) ==
  /\ r \in EmbedRequests
  /\ \/ call[r] = "sending" /\ call' = [call EXCEPT ![r] = "idle"]
     \/ call[r] = "waiting" /\ call' = [call EXCEPT ![r] = "abandoned"]
  /\ UNCHANGED <<initVars, wpc, models, fails, cur, outcome, rxLock, queue,
                 senders, live, loaded>>

\* The caller takes its answer; the request may be used for a later call.
Return(r) ==
  /\ call[r] \in Answers
  /\ call' = [call EXCEPT ![r] = "idle"]
  /\ UNCHANGED <<initVars, wpc, models, fails, cur, outcome, rxLock, queue,
                 senders, live, loaded>>

\* The last EmbedPool handle is dropped (the warm-up-only path of lib.rs).
DropPool ==
  /\ initPc = "done"
  /\ senders
  /\ \A r \in Requests : call[r] \in {"idle", "abandoned"}
  /\ senders' = FALSE
  /\ UNCHANGED <<initVars, wpc, models, fails, cur, outcome, rxLock, queue,
                 call, live, loaded>>

-----------------------------------------------------------------------------
(* The request loop of run_worker *)

LockReceiver(w) ==
  /\ wpc[w] = "loop"
  /\ rxLock = Unlocked
  /\ rxLock' = w
  /\ wpc' = [wpc EXCEPT ![w] = "recv"]
  /\ UNCHANGED <<initVars, models, fails, cur, outcome, queue, senders, call,
                 live, loaded>>

ReceiveNewest(w) ==
  /\ wpc[w] = "recv"
  /\ queue # <<>>
  /\ cur' = [cur EXCEPT ![w] = queue[Len(queue)]]
  /\ queue' = SubSeq(queue, 1, Len(queue) - 1)
  /\ rxLock' = Unlocked
  /\ wpc' = [wpc EXCEPT ![w] = IF models[w] THEN "dispatch" ELSE "reload"]
  /\ UNCHANGED <<initVars, models, fails, outcome, senders, call, live, loaded>>

\* Ok(Some(request)): the lock guard is dropped with the statement.
Receive(w) ==
  /\ wpc[w] = "recv"
  /\ queue # <<>>
  /\ cur' = [cur EXCEPT ![w] = Head(queue)]
  /\ queue' = Tail(queue)
  /\ rxLock' = Unlocked
  /\ wpc' = [wpc EXCEPT ![w] = IF models[w] THEN "dispatch" ELSE "reload"]
  /\ UNCHANGED <<initVars, models, fails, outcome, senders, call, live, loaded>>

\* Err(elapsed).  The timeout spans the wait for the lock and for a message,
\* and runs only while a session is loaded.  It is polled after recv, so the
\* lock's holder never times out with a message, or the close, to receive.
IdleTimeout(w) ==
  /\ IdleTimeoutOn
  /\ models[w]
  /\ \/ wpc[w] = "loop" /\ UNCHANGED rxLock
     \/ wpc[w] = "recv" /\ queue = <<>> /\ senders /\ rxLock' = Unlocked
  /\ wpc' = [wpc EXCEPT ![w] = "loop"]
  /\ models' = [models EXCEPT ![w] = FALSE]
  /\ loaded' = loaded - 1
  /\ UNCHANGED <<initVars, fails, cur, outcome, queue, senders, call, live>>

ReceiveClosedUnchecked(w) ==
  /\ wpc[w] = "recv"
  /\ queue = <<>>
  /\ ~senders
  /\ rxLock' = Unlocked
  /\ loaded' = loaded - 1
  /\ wpc' = [wpc EXCEPT ![w] = "dropSession"]
  /\ UNCHANGED <<initVars, models, fails, cur, outcome, queue, senders, call, live>>

ReceiveClosedOnlyLoaded(w) ==
  /\ wpc[w] = "recv"
  /\ queue = <<>>
  /\ ~senders
  /\ models[w]
  /\ rxLock' = Unlocked
  /\ loaded' = loaded - 1
  /\ wpc' = [wpc EXCEPT ![w] = "dropSession"]
  /\ UNCHANGED <<initVars, models, fails, cur, outcome, queue, senders, call, live>>

\* Ok(None): the channel is closed and drained.
ReceiveClosed(w) ==
  /\ wpc[w] = "recv"
  /\ queue = <<>>
  /\ ~senders
  /\ rxLock' = Unlocked
  /\ loaded' = IF models[w] THEN loaded - 1 ELSE loaded
  /\ wpc' = [wpc EXCEPT ![w] = "dropSession"]
  /\ UNCHANGED <<initVars, models, fails, cur, outcome, queue, senders, call, live>>

\* The request found the worker without a session: load_models, arena prime.
ReloadOk(w) ==
  /\ wpc[w] = "reload"
  /\ models' = [models EXCEPT ![w] = TRUE]
  /\ loaded' = loaded + 1
  /\ wpc' = [wpc EXCEPT ![w] = "dispatch"]
  /\ UNCHANGED <<initVars, fails, cur, outcome, rxLock, queue, senders, call, live>>

ReloadErrRequeues(w) ==
  /\ wpc[w] = "reload"
  /\ call' = [call EXCEPT ![cur[w]] = Settled(cur[w], "err")]
  /\ queue' = Append(queue, cur[w])
  /\ cur' = [cur EXCEPT ![w] = NoRequest]
  /\ wpc' = [wpc EXCEPT ![w] = "loop"]
  /\ UNCHANGED <<initVars, models, fails, outcome, rxLock, senders, live, loaded>>

\* reply_request_load_error, then continue.
ReloadErr(w) ==
  /\ wpc[w] = "reload"
  /\ call' = [call EXCEPT ![cur[w]] = Settled(cur[w], "err")]
  /\ cur' = [cur EXCEPT ![w] = NoRequest]
  /\ wpc' = [wpc EXCEPT ![w] = "loop"]
  /\ UNCHANGED <<initVars, models, fails, outcome, rxLock, queue, senders,
                 live, loaded>>

\* dispatch_request: an embed request whose caller has left is skipped.
SkipAbandoned(w) ==
  /\ wpc[w] = "dispatch"
  /\ call[cur[w]] = "abandoned"
  /\ call' = [call EXCEPT ![cur[w]] = "idle"]
  /\ cur' = [cur EXCEPT ![w] = NoRequest]
  /\ wpc' = [wpc EXCEPT ![w] = "loop"]
  /\ UNCHANGED <<initVars, models, fails, outcome, rxLock, queue, senders,
                 live, loaded>>

StartInference(w) ==
  /\ wpc[w] = "dispatch"
  /\ call[cur[w]] # "abandoned"
  /\ wpc' = [wpc EXCEPT ![w] = "running"]
  /\ UNCHANGED <<initVars, models, fails, cur, outcome, rxLock, queue, senders,
                 call, live, loaded>>

\* How one dispatch can end, as the error chain tells it.
Results(r) == IF r \in EmbedRequests /\ TensorRt
              THEN {"ok", "err", "rejected", "fatal"}
              ELSE {"ok", "err"}

\* classify_inference_outcome; a probe or an adaptive warm-up leaves the
\* default Ok, whatever its result.
ClassifyInferenceOutcome(r, result, consecutive) ==
  CASE r \in MaintenanceRequests -> "Ok"
    [] r \in EmbedRequests /\ result = "fatal" -> "TrtFatal"
    [] r \in EmbedRequests /\ result = "rejected" -> "Rejected"
    [] r \in EmbedRequests /\ result = "err" ->
         IF consecutive + 1 >= Threshold THEN "CircuitBreak" ELSE "Failure"
    [] OTHER -> "Ok"

NextConsecutiveFailuresNoReset(o, consecutive) ==
  CASE o = "Ok" -> 0
    [] o \in {"Failure", "CircuitBreak"} -> consecutive + 1
    [] OTHER -> consecutive

NextConsecutiveFailures(o, consecutive) ==
  CASE o \in {"Ok", "CircuitBreak"} -> 0
    [] o = "Failure" -> consecutive + 1
    [] OTHER -> consecutive

\* finalize_embed_route: classify, reply, hand the outcome to the loop.
FinishInference(w) ==
  /\ wpc[w] = "running"
  /\ \E result \in Results(cur[w]) :
       /\ outcome' = [outcome EXCEPT
                        ![w] = ClassifyInferenceOutcome(cur[w], result, fails[w])]
       /\ call' = [call EXCEPT
                     ![cur[w]] = Settled(cur[w], IF result = "fatal" THEN "err"
                                                 ELSE result)]
  /\ cur' = [cur EXCEPT ![w] = NoRequest]
  /\ wpc' = [wpc EXCEPT ![w] = "finished"]
  /\ UNCHANGED <<initVars, models, fails, rxLock, queue, senders, live, loaded>>

\* A panic in the tokenizer or the runtime that unwinds run_worker: the reply
\* sender is dropped ("Worker dropped reply sender") and the guards run.  Under
\* panic = "abort" it ends the process instead, and the pool with it.
Panic(w) ==
  /\ Unwind
  /\ wpc[w] = "running"
  /\ outcome' = [outcome EXCEPT ![w] = "Panicked"]
  /\ call' = [call EXCEPT ![cur[w]] = Settled(cur[w], "err")]
  /\ cur' = [cur EXCEPT ![w] = NoRequest]
  /\ wpc' = [wpc EXCEPT ![w] = "dropSession"]
  /\ UNCHANGED <<initVars, models, fails, rxLock, queue, senders, live, loaded>>

\* After the reply: count the failure, then exit, unload or go on.
ApplyOutcome(w) ==
  /\ wpc[w] = "finished"
  /\ fails' = [fails EXCEPT ![w] = NextConsecutiveFailures(outcome[w], fails[w])]
  /\ wpc' = [wpc EXCEPT ![w] = IF outcome[w] = "TrtFatal" THEN "dropSession"
                               ELSE "loop"]
  /\ \/ /\ outcome[w] = "CircuitBreak"
        /\ models' = [models EXCEPT ![w] = FALSE]
        /\ loaded' = loaded - 1
     \/ /\ outcome[w] # "CircuitBreak"
        /\ UNCHANGED <<models, loaded>>
  /\ outcome' = [outcome EXCEPT ![w] = IF @ = "TrtFatal" THEN @ ELSE "Ok"]
  /\ UNCHANGED <<initVars, cur, rxLock, queue, senders, call, live>>

-----------------------------------------------------------------------------
(* Leaving run_worker *)

DropSessionLate(w) ==
  /\ wpc[w] = "dropSession"
  /\ wpc' = [wpc EXCEPT ![w] = "dropGuard"]
  /\ UNCHANGED <<initVars, models, fails, cur, outcome, rxLock, queue, senders,
                 call, live, loaded>>

DropSession(w) ==
  /\ wpc[w] = "dropSession"
  /\ models' = [models EXCEPT ![w] = FALSE]
  /\ wpc' = [wpc EXCEPT ![w] = "dropGuard"]
  /\ UNCHANGED <<initVars, fails, cur, outcome, rxLock, queue, senders, call,
                 live, loaded>>

DropGuardUncounts(w) ==
  /\ wpc[w] = "dropGuard"
  /\ live' = live - 1
  /\ loaded' = loaded - 1
  /\ wpc' = [wpc EXCEPT ![w] = "dropRx"]
  /\ UNCHANGED <<initVars, models, fails, cur, outcome, rxLock, queue, senders,
                 call>>

\* WorkerGuard::drop.
DropGuard(w) ==
  /\ wpc[w] = "dropGuard"
  /\ live' = live - 1
  /\ wpc' = [wpc EXCEPT ![w] = "dropRx"]
  /\ UNCHANGED <<initVars, models, fails, cur, outcome, rxLock, queue, senders,
                 call, loaded>>

DropReceiverKeepsQueue(w) ==
  /\ wpc[w] = "dropRx"
  /\ wpc' = [wpc EXCEPT ![w] = "exited"]
  /\ UNCHANGED <<initVars, models, fails, cur, outcome, rxLock, queue, senders,
                 call, live, loaded>>

\* The thread's clone of the receiver goes; with the last one the channel
\* closes and the queued requests, with their reply senders, are dropped.
DropReceiver(w) ==
  /\ wpc[w] = "dropRx"
  /\ wpc' = [wpc EXCEPT ![w] = "exited"]
  /\ \/ /\ ~LastOwner(w)
        /\ UNCHANGED <<queue, call>>
     \/ /\ LastOwner(w)
        /\ queue' = <<>>
        /\ call' = [r \in Requests |->
                      IF InQueue(r) THEN Settled(r, "err") ELSE call[r]]
  /\ UNCHANGED <<initVars, models, fails, cur, outcome, rxLock, senders, live,
                 loaded>>

-----------------------------------------------------------------------------
Init ==
  /\ initPc = "loading"
  /\ initId = 0
  /\ ready = "none"
  /\ wpc = [w \in Workers |-> IF w = 0 THEN "starting" ELSE "unspawned"]
  /\ models = [w \in Workers |-> FALSE]
  /\ fails = [w \in Workers |-> 0]
  /\ cur = [w \in Workers |-> NoRequest]
  /\ outcome = [w \in Workers |-> "Ok"]
  /\ rxLock = Unlocked
  /\ queue = <<>>
  /\ senders = TRUE
  /\ call = [r \in Requests |-> "idle"]
  /\ live = N
  /\ loaded = 0

WorkerStep(w) ==
  \/ StartupOk(w) \/ StartupErr(w)
  \/ LockReceiver(w) \/ Receive(w) \/ IdleTimeout(w) \/ ReceiveClosed(w)
  \/ ReloadOk(w) \/ ReloadErr(w)
  \/ SkipAbandoned(w) \/ StartInference(w) \/ FinishInference(w) \/ Panic(w)
  \/ ApplyOutcome(w)
  \/ DropSession(w) \/ DropGuard(w) \/ DropReceiver(w)

CallerStep(r) ==
  Call(r) \/ Send(r) \/ SendClosed(r) \/ Abandon(r) \/ Return(r)

Next ==
  \/ InitCounts
  \/ InitFails
  \/ \E w \in Workers : WorkerStep(w)
  \/ \E r \in Requests : CallerStep(r)
  \/ DropPool

Spec == Init /\ [][Next]_vars

\* Threads and tasks are scheduled, loads and inferences return, and a
\* blocked send is not overtaken for ever (tokio's channel queues its senders
\* in FIFO order); of the workers at the lock, which one gets it is left open.
\* Nobody has to call, to leave, to time out, to fail or to shut the pool down.
Fairness ==
  /\ WF_vars(InitCounts)
  /\ WF_vars(InitFails)
  /\ WF_vars(\E w \in Workers : LockReceiver(w))
  /\ \A w \in Workers :
       /\ WF_vars(StartupOk(w) \/ StartupErr(w))
       /\ WF_vars(Receive(w) \/ ReceiveClosed(w))
       /\ WF_vars(ReloadOk(w) \/ ReloadErr(w))
       /\ WF_vars(SkipAbandoned(w) \/ StartInference(w))
       /\ WF_vars(FinishInference(w) \/ Panic(w))
       /\ WF_vars(ApplyOutcome(w))
       /\ WF_vars(DropSession(w) \/ DropGuard(w) \/ DropReceiver(w))
  /\ \A r \in Requests : SF_vars(Send(r)) /\ WF_vars(SendClosed(r))

FairSpec == Spec /\ Fairness

-----------------------------------------------------------------------------
(* Properties *)

TypeOK ==
  /\ initPc \in {"loading", "done", "failed"}
  /\ initId \in Workers
  /\ ready \in {"none", "ok", "err"}
  /\ wpc \in [Workers -> {"unspawned", "starting"} \cup LoopPcs \cup ExitPcs]
  /\ models \in [Workers -> BOOLEAN]
  /\ fails \in [Workers -> 0 .. Threshold - 1]
  /\ cur \in [Workers -> Requests \cup {NoRequest}]
  /\ outcome \in [Workers -> Outcomes]
  /\ rxLock \in Workers \cup {Unlocked}
  /\ queue \in Seq(Requests)
  /\ Len(queue) <= Capacity
  /\ senders \in BOOLEAN
  /\ call \in [Requests -> {"idle", "sending", "waiting", "abandoned"} \cup Answers]
  /\ live \in Int
  /\ loaded \in Int

\* A worker holds a request from the receive to the reply, never past it.
HeldInv == \A w \in Workers : cur[w] # NoRequest <=> wpc[w] \in HoldingPcs

\* A session exists only where run_worker has one in scope, and always where
\* an inference needs one.
SessionInv ==
  \A w \in Workers :
    /\ wpc[w] \in {"unspawned", "starting", "reload", "dropGuard", "dropRx", "exited"}
         => ~models[w]
    /\ wpc[w] \in {"dispatch", "running", "finished"} => models[w]

\* An outcome is carried from the dispatch to the post-processing, or out of
\* the loop; a Failure is one the breaker still tolerates.
OutcomeInv ==
  \A w \in Workers :
    /\ wpc[w] \notin ExitPcs \cup {"finished"} => outcome[w] = "Ok"
    /\ wpc[w] = "finished" =>
         /\ outcome[w] # "Panicked"
         /\ outcome[w] = "Failure" => fails[w] + 1 < Threshold

\* The init task starts the workers one at a time, each after the signal of
\* the one before.
LoaderInv ==
  /\ \A w \in Workers :
       wpc[w] = "starting" => initPc = "loading" /\ ready = "none" /\ w = initId
  /\ ready # "none" => initPc = "loading"
  /\ initPc = "loading" => \A w \in Workers : w > initId => wpc[w] = "unspawned"

\* What the place a thread has reached says of its request, its session, the
\* outcome it carries and the init task.  The guard is dropped after the
\* session, and the breaker acts before the count can reach the threshold: this
\* is what makes the accounting below inductive.
ThreadInv == HeldInv /\ SessionInv /\ OutcomeInv /\ LoaderInv

\* live_workers, which check_ready, /health and the warm-up-only teardown read,
\* is exactly the number of threads whose WorkerGuard has not been dropped, on
\* every way out of run_worker (failed load, closed channel, fatal build, panic).
LiveAccounting ==
  live = Cardinality({w \in Workers : wpc[w] \notin {"dropRx", "exited"}})

\* A worker whose loaded session is in loaded_workers, or will be once the init
\* task has taken its signal; a worker that died of a fatal build or a panic
\* stays in it for ever, for run_worker returns without the fetch_sub.
CountedLoaded(w) ==
  \/ wpc[w] \in LoopPcs /\ models[w]
  \/ wpc[w] \in ExitPcs /\ outcome[w] \in {"TrtFatal", "Panicked"}

\* Loads the worker has signalled and the init task has not counted yet.
UncountedSignals == IF ready = "ok" THEN 1 ELSE 0

\* loaded_workers never drifts but for those two cases: the idle unload, the
\* circuit breaker, the reload and the close keep it in step with the sessions.
LoadedAccounting ==
  loaded = Cardinality({w \in Workers : CountedLoaded(w)}) - UncountedSignals

\* No request is lost or served twice: a call is in flight exactly while its
\* request is in the channel or in the hands of one worker, never both.
RequestConservation ==
  /\ \A i, j \in 1 .. Len(queue) : queue[i] = queue[j] => i = j
  /\ \A v, w \in Workers : cur[v] = cur[w] /\ cur[v] # NoRequest => v = w
  /\ \A w \in Workers : ~InQueue(cur[w])
  /\ \A r \in Requests : InFlight(r) <=> InQueue(r) \/ \E w \in Workers : cur[w] = r

\* What wait_for_workers_to_exit relies on: when live_workers reads zero every
\* session has been destroyed, so the runtime has flushed its caches.
SessionsGoneAtZero == live = 0 => \A w \in Workers : ~models[w]

\* The pool implements the service its callers see: first come first served by
\* at most N workers, one answer for each accepted call, and no call left behind
\* by the last worker's exit.
Service == INSTANCE EmbedService WITH
             Leaving <- EmbedRequests,
             line    <- queue,
             serving <- {cur[w] : w \in Workers} \ {NoRequest},
             open    <- ReceiverAlive

PoolIsAService == Service!ServiceSpec

\* Every call returns: whatever the workers do (reload failures, the breaker,
\* fatal exits of all of them with requests queued), the caller gets an answer.
EveryCallReturns ==
  \A r \in Requests :
    call[r] \in {"sending", "waiting"} ~> call[r] \notin {"sending", "waiting"}

\* Dropping the pool handle makes every worker leave its loop, loaded or not.
ShutdownCompletes == ~senders ~> live = 0

=============================================================================
