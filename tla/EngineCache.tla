----------------------------- MODULE EngineCache -----------------------------
(***************************************************************************)
(* The TensorRT engine cache, a directory on a volume that the containers  *)
(* of a fleet share: the enumeration by compute capability (enumerate.rs), *)
(* the fsync after each compile (fsync.rs, trt_warmup/runner.rs), the      *)
(* garbage collection of other capabilities' plans (trt_cache_gc.rs), the  *)
(* persistence postconditions (postcondition.rs, lib.rs) and the kill that *)
(* may strike a container between any two steps.                           *)
(*                                                                         *)
(* A plan file is its _smXX tag.  The file and its sidecars are one thing, *)
(* which the provider, external, loads when it is whole and rewrites in    *)
(* place when it is not or covers too little; what it covers is the        *)
(* subject of EngineCoverage.  A task stands for a container with one      *)
(* worker and for its successors on the same host.  The inspection of the  *)
(* directory at each load of a session only counts and logs; its write     *)
(* probe, which touches no plan, is the subject of WriteProbe.             *)
(***************************************************************************)
EXTENDS Naturals, FiniteSets

CONSTANTS
  Tasks,      \* containers that mount the cache
  Sms,        \* compute capabilities of the fleet
  GcTasks,    \* tasks built and started with the cache GC on
  ShapesRun,  \* warm-up shapes a task runs
  NoTask,
  NoSm        \* nvidia-smi could not tell the capability

ASSUME CacheAssumption ==
  /\ IsFiniteSet(Tasks)
  /\ IsFiniteSet(Sms)
  /\ GcTasks \subseteq Tasks
  /\ ShapesRun \in Nat
  /\ NoTask \notin Tasks
  /\ NoSm \notin Sms

VARIABLES
  writable,    \* whether the volume lets the containers create and write files
  strict,      \* prewarm_strict
  warmupOnly,  \* warmup_only
  sm,          \* the compute capability of each task's GPU
  pc,          \* where each task is
  detected,    \* detected_sm
  deleted,     \* the plans its garbage collection has deleted
  left,        \* shapes it has yet to run
  fresh,       \* fresh_compiles > 0
  plan,        \* each capability's plan file: what it holds and who wrote it last
  mixed,       \* capabilities whose plan two tasks have been writing at once
  settled      \* those whose last write was alone and has been fsynced without a warning

config    == <<writable, strict, warmupOnly, sm>>
history   == <<mixed, settled>>
vars      == <<config, pc, detected, deleted, left, fresh, plan, history>>

States   == {"none", "partial", "buffered", "durable", "torn"}
NoPlan   == [state |-> "none", by |-> NoTask]
Ended    == {"down", "failed", "exit0"}
Writing  == {"priming", "compile", "inband"}

Moves(t, to) == pc' = [pc EXCEPT ![t] = to]

Init ==
  /\ writable \in BOOLEAN
  /\ strict \in BOOLEAN
  /\ warmupOnly \in BOOLEAN
  /\ sm \in [Tasks -> Sms]
  /\ pc = [t \in Tasks |-> "down"]
  /\ detected = [t \in Tasks |-> NoSm]
  /\ deleted = [t \in Tasks |-> {}]
  /\ left = [t \in Tasks |-> 0]
  /\ fresh = [t \in Tasks |-> FALSE]
  /\ plan = [s \in Sms |-> NoPlan]
  /\ mixed = {}
  /\ settled = {}

-----------------------------------------------------------------------------
(* The files *)

\* engine_files_for_sm: by name alone, whatever the files hold.
EngineFilesForAnySm(target) == {s \in Sms : plan[s].state # "none"}

EngineFilesForSm(target) ==
  {s \in Sms : plan[s].state # "none" /\ (target = NoSm \/ s = target)}

FsyncNames(t) == plan

\* fsync_cache_dir: what this host has written reaches the volume.
FsyncCacheDir(t) ==
  [s \in Sms |-> IF plan[s] = [state |-> "buffered", by |-> t]
                 THEN [state |-> "durable", by |-> t] ELSE plan[s]]

\* A flush that fails is warned of and no more: the caller goes on as if it had
\* succeeded.
Flush(t, succeeds) == plan' = IF succeeds THEN FsyncCacheDir(t) ELSE plan

\* The kernel writes a buffered file back by itself.
Writeback(s) ==
  /\ plan[s].state = "buffered"
  /\ plan' = [plan EXCEPT ![s].state = "durable"]
  /\ UNCHANGED <<config, pc, detected, deleted, left, fresh, history>>

-----------------------------------------------------------------------------
(* startup_worker *)

\* The container is started, for the first time or again: its session is loaded.
Start(t) ==
  /\ pc[t] \in Ended
  /\ Moves(t, "prime")
  /\ detected' = [detected EXCEPT ![t] = NoSm]
  /\ fresh' = [fresh EXCEPT ![t] = FALSE]
  /\ UNCHANGED <<config, deleted, left, plan, history>>

\* The run that primes the session's arena writes no plan, or fails.
Prime(t) ==
  /\ pc[t] = "prime"
  /\ Moves(t, "gc")
  /\ UNCHANGED <<config, detected, deleted, left, fresh, plan, history>>

-----------------------------------------------------------------------------
(* gc_stale_sm_plans *)

\* The plans of other capabilities.
Stale(t) == {s \in Sms : plan[s].state # "none" /\ s # sm[t]}

\* The first pass, when both gates are on and the capability is known: each
\* stale plan is deleted, or its deletion fails.
GcPlans(t) ==
  /\ pc[t] = "gc"
  /\ \/ /\ t \in GcTasks
        /\ \E gone \in SUBSET Stale(t) :
             /\ plan' = [s \in Sms |-> IF s \in gone THEN NoPlan ELSE plan[s]]
             /\ deleted' = [deleted EXCEPT ![t] = gone]
             /\ Moves(t, IF gone = {} THEN "detect" ELSE "sidecars")
     \/ /\ Moves(t, "detect")
        /\ UNCHANGED <<deleted, plan>>
  /\ UNCHANGED <<config, detected, left, fresh, history>>

\* The second pass: the sidecars named after the deleted plans go, also those
\* of a plan that a peer has compiled anew in between.
GcSidecars(t) ==
  /\ pc[t] = "sidecars"
  /\ \E gone \in SUBSET {s \in deleted[t] : plan[s].state \in {"buffered", "durable"}} :
       plan' = [s \in Sms |-> IF s \in gone THEN [plan[s] EXCEPT !.state = "torn"] ELSE plan[s]]
  /\ deleted' = [deleted EXCEPT ![t] = {}]
  /\ Moves(t, "detect")
  /\ UNCHANGED <<config, detected, left, fresh, history>>

-----------------------------------------------------------------------------
(* trt_prewarm *)

\* detect_sm_for_device, which may fail, then the shapes.
Detect(t) ==
  /\ pc[t] = "detect"
  /\ \E d \in {sm[t], NoSm} : detected' = [detected EXCEPT ![t] = d]
  /\ left' = [left EXCEPT ![t] = ShapesRun]
  /\ Moves(t, "shape")
  /\ UNCHANGED <<config, deleted, fresh, plan, history>>

\* A run that loads a whole plan, or compiles without a plan reaching the disk;
\* a slow one counts as a fresh compile.
RunShape(t) ==
  /\ pc[t] = "shape"
  /\ left[t] > 0
  /\ \E slow \in BOOLEAN : fresh' = [fresh EXCEPT ![t] = @ \/ slow]
  /\ Moves(t, "fsync")
  /\ UNCHANGED <<config, detected, deleted, left, plan, history>>

\* A run that fails: nothing is written and nothing flushed.
FailShape(t) ==
  /\ pc[t] = "shape"
  /\ left[t] > 0
  /\ left' = [left EXCEPT ![t] = @ - 1]
  /\ UNCHANGED <<config, pc, detected, deleted, fresh, plan, history>>

\* Nobody else is writing the plan of this task's capability.
SoleWriter(t) ==
  \A u \in Tasks \ {t} : pc[u] \in Writing => sm[u] # sm[t]

\* The provider begins to write a plan in place: for the prime run, for a warm-up
\* shape or, once the task serves, for a client's request or the prime run of a
\* reload.
BeginWrite(t) ==
  /\ writable
  /\ \/ pc[t] = "prime" /\ Moves(t, "priming")
     \/ pc[t] = "shape" /\ left[t] > 0 /\ Moves(t, "compile")
     \/ pc[t] = "serve" /\ Moves(t, "inband")
  /\ plan' = [plan EXCEPT ![sm[t]] = [state |-> "partial", by |-> t]]
  /\ mixed' = IF SoleWriter(t) THEN mixed \ {sm[t]} ELSE mixed \cup {sm[t]}
  /\ settled' = settled \ {sm[t]}
  /\ UNCHANGED <<config, detected, deleted, left, fresh>>

\* The plan is written, unless it was deleted meanwhile.  Two tasks that write
\* the same file may leave neither's content.
EndWrite(t) ==
  /\ \/ pc[t] = "compile" /\ Moves(t, "fsync") /\ fresh' = [fresh EXCEPT ![t] = TRUE]
     \/ pc[t] = "priming" /\ Moves(t, "gc") /\ UNCHANGED fresh
     \/ pc[t] = "inband" /\ Moves(t, "serve") /\ UNCHANGED fresh
  /\ LET f == plan[sm[t]] IN
     \E written \in IF f.by = t THEN {"buffered"}
                    ELSE IF f.state = "none" THEN {"none"} ELSE {f.state, "torn"} :
       plan' = [plan EXCEPT ![sm[t]].state = written]
  /\ UNCHANGED <<config, detected, deleted, left, history>>

FsyncShapeUncounted(t) ==
  /\ pc[t] = "fsync"
  /\ Flush(t, TRUE)
  /\ left' = [left EXCEPT ![t] = @ + 1]
  /\ Moves(t, "shape")
  /\ UNCHANGED <<config, detected, deleted, fresh, history>>

\* "engine compiled, cached, and fsynced" is logged, whether it was or not.
FsyncShape(t) ==
  /\ pc[t] = "fsync"
  /\ \E succeeds \in BOOLEAN :
       /\ Flush(t, succeeds)
       /\ settled' = IF succeeds /\ plan[sm[t]].by = t /\ sm[t] \notin mixed
                     THEN settled \cup {sm[t]} ELSE settled
  /\ UNCHANGED mixed
  /\ left' = [left EXCEPT ![t] = @ - 1]
  /\ Moves(t, "shape")
  /\ UNCHANGED <<config, detected, deleted, fresh>>

\* should_fail_readiness over the plans counted after the sweep.
PostconditionFailed(t) == fresh[t] /\ EngineFilesForSm(detected[t]) = {}

\* The end of the sweep: ready, or an exit that the orchestrator answers.
EndPrewarm(t) ==
  /\ pc[t] = "shape"
  /\ left[t] = 0
  /\ \E succeeds \in BOOLEAN : Flush(t, succeeds)
  /\ Moves(t, IF strict /\ PostconditionFailed(t) THEN "down"
              ELSE IF warmupOnly THEN "teardown" ELSE "serve")
  /\ UNCHANGED <<config, detected, deleted, left, fresh, history>>

-----------------------------------------------------------------------------
(* The end of a warm-up-only container *)

\* The pool is dropped, the workers are waited for, the directory is flushed.
Teardown(t) ==
  /\ pc[t] = "teardown"
  /\ \E succeeds \in BOOLEAN : Flush(t, succeeds)
  /\ Moves(t, "count")
  /\ UNCHANGED <<config, detected, deleted, left, fresh, history>>

\* The capability is detected once more, the plans are counted.
Count(t) ==
  /\ pc[t] = "count"
  /\ \E d \in {sm[t], NoSm} :
       /\ detected' = [detected EXCEPT ![t] = d]
       /\ Moves(t, IF EngineFilesForSm(d) = {} THEN "failed" ELSE "exit0")
  /\ UNCHANGED <<config, deleted, left, fresh, plan, history>>

-----------------------------------------------------------------------------
\* SIGKILL, of memory mostly: what the task was writing is torn, what it had
\* written and not flushed may be.
Kill(t) ==
  /\ pc[t] \notin Ended
  /\ Moves(t, "down")
  /\ detected' = [detected EXCEPT ![t] = NoSm]
  /\ deleted' = [deleted EXCEPT ![t] = {}]
  /\ left' = [left EXCEPT ![t] = 0]
  /\ fresh' = [fresh EXCEPT ![t] = FALSE]
  /\ \E lost \in BOOLEAN :
       plan' = [s \in Sms |->
                  IF plan[s].by # t THEN plan[s]
                  ELSE IF \/ plan[s].state = "partial"
                          \/ lost /\ plan[s].state = "buffered"
                  THEN [state |-> "torn", by |-> NoTask]
                  ELSE [plan[s] EXCEPT !.by = NoTask]]
  /\ UNCHANGED <<config, history>>

TaskStep(t) ==
  \/ Start(t) \/ Prime(t) \/ GcPlans(t) \/ GcSidecars(t)
  \/ Detect(t) \/ RunShape(t) \/ FailShape(t) \/ BeginWrite(t) \/ EndWrite(t)
  \/ FsyncShape(t) \/ EndPrewarm(t) \/ Teardown(t) \/ Count(t) \/ Kill(t)

Next == (\E t \in Tasks : TaskStep(t)) \/ \E s \in Sms : Writeback(s)

Spec == Init /\ [][Next]_vars

-----------------------------------------------------------------------------
(* Properties *)

TypeOK ==
  /\ writable \in BOOLEAN
  /\ strict \in BOOLEAN
  /\ warmupOnly \in BOOLEAN
  /\ sm \in [Tasks -> Sms]
  /\ pc \in [Tasks -> Ended \cup Writing \cup {"prime", "gc", "sidecars", "detect",
                       "shape", "fsync", "serve", "teardown", "count"}]
  /\ detected \in [Tasks -> Sms \cup {NoSm}]
  /\ deleted \in [Tasks -> SUBSET Sms]
  /\ left \in [Tasks -> 0 .. ShapesRun]
  /\ fresh \in [Tasks -> BOOLEAN]
  /\ plan \in [Sms -> [state : States, by : Tasks \cup {NoTask}]]
  /\ mixed \subseteq Sms
  /\ settled \subseteq Sms

\* What the fsync after each compile is for: a plan whose write has been
\* fsynced without a warning is neither lost nor torn by the kill of any container, by a peer's
\* sweep or by the GC of a container of its own capability, until the provider
\* rewrites it.
ReportedSurvives ==
  \A s \in settled :
    (\A u \in GcTasks : sm[u] = s) => plan[s].state \notin {"none", "torn"}

\* A warm-up container that exits 0 leaves a plan file for its own GPU on the
\* volume, not just those of other capabilities, whatever of it was killed,
\* counted or cached before.
ExitZeroHonest ==
  \A t \in Tasks :
    pc[t] = "exit0" /\ detected[t] # NoSm /\ (\A u \in GcTasks : sm[u] = sm[t])
      => plan[sm[t]].state # "none"

=============================================================================
