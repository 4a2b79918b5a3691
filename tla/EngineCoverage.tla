---------------------------- MODULE EngineCoverage ----------------------------
(***************************************************************************)
(* TensorRT engine coverage: what the start-up prewarm (trt_warmup.rs,     *)
(* worker/startup.rs), the engine propagation broadcast                    *)
(* (worker/propagation.rs) and the adaptive warm-up requests do to the     *)
(* pool-wide warmed_seq_ceiling, and what the in-band guard (jit_guard.rs) *)
(* then lets through.                                                      *)
(*                                                                         *)
(* A shape (batch, seq) is reduced to its sequence tier, which is all the  *)
(* guard looks at.  The TensorRT execution provider is external: a session *)
(* covers the tiers up to profile[w], the plan file on the shared disk the *)
(* tiers up to plan, and a run above both compiles an engine.  The time a  *)
(* run takes is compared with a threshold and tells nothing for certain,   *)
(* so that any run may be fast or slow.                                    *)
(***************************************************************************)
EXTENDS Integers, Sequences, FiniteSets

CONSTANTS
  N,             \* worker threads
  MaxTier,       \* the configured warm-up shapes are the tiers 1 .. MaxTier
  GuardSeq,      \* trt_inband_jit_guard_seq: the first dangerous tier
  PropCapacity,  \* messages the broadcast channel keeps (32 in the code)
  Faults         \* whether the process may die and engine builds be fatal

ASSUME CoverageAssumption ==
  /\ N \in Nat \ {0}
  /\ MaxTier \in Nat \ {0}
  /\ GuardSeq \in 1 .. MaxTier
  /\ PropCapacity \in Nat \ {0}
  /\ Faults \in BOOLEAN

Workers == 0 .. N - 1
Tiers   == 1 .. MaxTier
None    == 0             \* no tier: nothing covered, nothing asked

VARIABLES
  strict,       \* prewarm_strict
  persists,     \* whether every engine compiled leaves a plan on the disk
  plan,         \* the highest tier of the plan file on disk, or None
  ceiling,      \* warmed_seq_ceiling
  pc,           \* where each worker is
  session,      \* whether it has a session
  profile,      \* the highest tier its session covers, or None
  job,          \* the tier of the request it has taken, or None
  warmup,       \* whether that request is an adaptive warm-up
  warmedLocal,  \* warmed_local
  inbox,        \* what its broadcast receiver has yet to deliver
  suspects,     \* the tiers reported slow that the warm-up task may fire
  task,         \* the warm-up task: "idle", "sent", "taken" or "acked"
  asked         \* the tier it has fired

config     == <<strict, persists>>
taskVars   == <<suspects, task, asked>>
workerVars == <<pc, session, profile, job, warmup, warmedLocal, inbox>>
vars       == <<config, plan, ceiling, workerVars, taskVars>>

-----------------------------------------------------------------------------
(* Pure parts *)

\* The highest of a set of tiers, None when there is none.
Highest(S) == IF S = {} THEN None ELSE CHOOSE t \in S : \A u \in S : u <= t
Lowest(S)  == CHOOSE t \in S : \A u \in S : t <= u
Higher(s, t) == IF s > t THEN s ELSE t

\* Stride assignment of the configured list, whose element i - 1 is tier i.
ShardShapes(w) == IF N <= 1 THEN Tiers ELSE {t \in Tiers : (t - 1) % N = w}

\* A shape for each dimensional extreme: of tiers, the lowest and the highest.
CoverageCheckShapes(S) == IF S = {} THEN {} ELSE {Lowest(S), Highest(S)}

MaxWarmedSeqOfShard(S, warmed) == Highest(S)

\* max_warmed_seq: of the shapes that were run, those that succeeded count.
MaxWarmedSeq(S, warmed) == Highest(warmed)

AdmitAbove(seq, warmedSeqCeiling) == ~(seq > GuardSeq /\ seq > warmedSeqCeiling)

\* TrtJitGuard::admit, with the ceiling read when the guard was built.
Admit(seq, warmedSeqCeiling) == ~(seq >= GuardSeq /\ seq > warmedSeqCeiling)

-----------------------------------------------------------------------------
(* The execution provider: a run covered by the session or by the plan is a *)
(* load, one above both a compile, whose plan may fail to reach the disk.   *)

Covered(w, s) == s <= profile[w] \/ s <= plan

PlansAfter(w, ran) ==
  LET compiled == {s \in ran : ~Covered(w, s)} IN
  IF compiled = {} THEN {plan}
  ELSE IF persists THEN {Highest(compiled)}
  ELSE {plan} \cup compiled

\* session.run() succeeded for every tier of ran.
Ran(w, ran) ==
  /\ profile' = [profile EXCEPT ![w] = Higher(@, Highest(ran))]
  /\ plan' \in PlansAfter(w, ran)

-----------------------------------------------------------------------------
(* The channels *)

\* The workers that have subscribed to the broadcast channel.
Subscribed(w) == pc[w] \notin {"unspawned", "exited"}

DeliverAll(s) ==
  [w \in Workers |-> IF Subscribed(w) THEN Append(inbox[w], s) ELSE inbox[w]]

\* broadcast::Sender::send: a receiver that lags loses its oldest messages.
Deliver(s) ==
  [w \in Workers |->
     IF ~Subscribed(w) THEN inbox[w]
     ELSE IF Len(inbox[w]) < PropCapacity THEN Append(inbox[w], s)
     ELSE Append(Tail(inbox[w]), s)]

-----------------------------------------------------------------------------
(* The process *)

FreshProcess ==
  /\ ceiling = None
  /\ pc = [w \in Workers |-> "unspawned"]
  /\ session = [w \in Workers |-> FALSE]
  /\ profile = [w \in Workers |-> None]
  /\ job = [w \in Workers |-> None]
  /\ warmup = [w \in Workers |-> FALSE]
  /\ warmedLocal = [w \in Workers |-> {}]
  /\ inbox = [w \in Workers |-> <<>>]
  /\ suspects = {}
  /\ task = "idle"
  /\ asked = None

Init ==
  /\ strict \in BOOLEAN
  /\ persists \in BOOLEAN
  /\ plan = None
  /\ FreshProcess

\* The process dies, or exits, and is started again: the plan file remains.
Die ==
  /\ ceiling' = None
  /\ pc' = [w \in Workers |-> "unspawned"]
  /\ session' = [w \in Workers |-> FALSE]
  /\ profile' = [w \in Workers |-> None]
  /\ job' = [w \in Workers |-> None]
  /\ warmup' = [w \in Workers |-> FALSE]
  /\ warmedLocal' = [w \in Workers |-> {}]
  /\ inbox' = [w \in Workers |-> <<>>]
  /\ suspects' = {}
  /\ task' = "idle"
  /\ asked' = None
  /\ UNCHANGED config

Crash == Faults /\ Die /\ UNCHANGED plan

-----------------------------------------------------------------------------
(* Start-up *)

\* prewarm_persistence_postcondition_failed, in the only form that blocks.
ShouldFailReadiness(freshCompiles) == strict /\ freshCompiles # {} /\ plan' = None

\* startup_worker: the workers load one after the other, and trt_prewarm runs
\* the shapes of the shard.  With plans on disk the extremes are run first, and
\* if all of them are fast the others are skipped.  The ceiling is raised before
\* the postcondition is looked at; its failure in strict mode exits the process.
StartupWorker(w) ==
  /\ pc[w] = "unspawned"
  /\ \A v \in Workers : v < w => pc[v] # "unspawned"
  /\ \E failed, fast \in SUBSET ShardShapes(w) :
       LET shapes      == ShardShapes(w)
           checks      == IF plan = None THEN {} ELSE CoverageCheckShapes(shapes)
           fullyCached == checks # {} /\ checks \subseteq fast \ failed
           warmed      == (IF fullyCached THEN checks ELSE shapes) \ failed
       IN /\ plan' \in PlansAfter(w, warmed)
          /\ \/ /\ ShouldFailReadiness(warmed \ fast)
                /\ Die
             \/ /\ ~ShouldFailReadiness(warmed \ fast)
                /\ ceiling' = Higher(ceiling, MaxWarmedSeq(shapes, warmed))
                /\ profile' = [profile EXCEPT ![w] = Highest(warmed)]
                /\ session' = [session EXCEPT ![w] = TRUE]
                /\ pc' = [pc EXCEPT ![w] = "top"]
                /\ UNCHANGED <<config, job, warmup, warmedLocal, inbox, taskVars>>

-----------------------------------------------------------------------------
(* The request loop *)

\* The top of the loop, with a session: one message of drain_engine_propagation.
\* The shape is noted before the prewarm, whose failure is only logged.
Drain(w) ==
  /\ pc[w] = "top"
  /\ session[w]
  /\ inbox[w] # <<>>
  /\ LET s == Head(inbox[w]) IN
     /\ inbox' = [inbox EXCEPT ![w] = Tail(@)]
     /\ warmedLocal' = [warmedLocal EXCEPT ![w] = @ \cup {s}]
     /\ \/ /\ s \notin warmedLocal[w]
           /\ Ran(w, {s})
           /\ ceiling' = Higher(ceiling, MaxWarmedSeq({s}, {s}))
        \/ UNCHANGED <<plan, ceiling, profile>>
  /\ UNCHANGED <<config, pc, session, job, warmup, taskVars>>

\* The worker goes to wait for a request.
Wait(w) ==
  /\ pc[w] = "top"
  /\ ~session[w] \/ inbox[w] = <<>>
  /\ pc' = [pc EXCEPT ![w] = "recv"]
  /\ UNCHANGED <<config, plan, ceiling, session, profile, job, warmup, warmedLocal,
                 inbox, taskVars>>

\* A client's request whose longest chunk is of tier s, once the pool is up.
Take(w, s) ==
  /\ pc[w] = "recv"
  /\ \A v \in Workers : pc[v] # "unspawned"
  /\ job' = [job EXCEPT ![w] = s]
  /\ pc' = [pc EXCEPT ![w] = "taken"]
  /\ UNCHANGED <<config, plan, ceiling, session, profile, warmup, warmedLocal, inbox,
                 taskVars>>

\* The request of the adaptive warm-up task.
TakeWarmup(w) ==
  /\ pc[w] = "recv"
  /\ task = "sent"
  /\ task' = "taken"
  /\ job' = [job EXCEPT ![w] = asked]
  /\ warmup' = [warmup EXCEPT ![w] = TRUE]
  /\ pc' = [pc EXCEPT ![w] = "taken"]
  /\ UNCHANGED <<config, plan, ceiling, session, profile, warmedLocal, inbox,
                 suspects, asked>>

\* Back to the top of the loop, the request answered.
Answered(w) ==
  /\ pc' = [pc EXCEPT ![w] = "top"]
  /\ job' = [job EXCEPT ![w] = None]
  /\ warmup' = [warmup EXCEPT ![w] = FALSE]

\* The warm-up task drops the tier it has fired and may fire the next.
TaskDone == task' = "idle" /\ asked' = None

\* A new session knows nothing of the shapes the old one had loaded.
Reload(w) ==
  /\ pc[w] = "taken"
  /\ ~session[w]
  /\ \/ /\ session' = [session EXCEPT ![w] = TRUE]
        /\ UNCHANGED <<pc, job, warmup, taskVars>>
     \/ /\ Answered(w)
        /\ IF warmup[w] THEN TaskDone /\ UNCHANGED suspects ELSE UNCHANGED taskVars
        /\ UNCHANGED session
  /\ UNCHANGED <<config, plan, ceiling, profile, warmedLocal, inbox>>

\* build_shape_guard reads the ceiling; what guard_chunks decides later depends
\* on that reading alone.  A refused request is answered 503 and leaves no trace.
Refuse(w) ==
  /\ pc[w] = "taken"
  /\ session[w] /\ ~warmup[w]
  /\ ~Admit(job[w], ceiling)
  /\ Answered(w)
  /\ UNCHANGED <<config, plan, ceiling, session, profile, warmedLocal, inbox, taskVars>>

Run(w) ==
  /\ pc[w] = "taken"
  /\ session[w] /\ ~warmup[w]
  /\ Admit(job[w], ceiling)
  /\ pc' = [pc EXCEPT ![w] = "run"]
  /\ UNCHANGED <<config, plan, ceiling, session, profile, job, warmup, warmedLocal,
                 inbox, taskVars>>

\* finalize_embed_route on Ok: a slow run is reported to the warm-up task and to
\* the peers (log_inference_complete), and the worker marks it as its own.
RunOk(w) ==
  /\ pc[w] = "run"
  /\ Ran(w, {job[w]})
  /\ \/ UNCHANGED <<suspects, inbox, warmedLocal>>
     \/ /\ suspects' \in {suspects, suspects \cup {job[w]}}
        /\ inbox' = Deliver(job[w])
        /\ warmedLocal' = [warmedLocal EXCEPT ![w] = @ \cup {job[w]}]
  /\ Answered(w)
  /\ UNCHANGED <<config, ceiling, session, task, asked>>

\* On Err, which a later chunk may have met after an earlier one compiled: the
\* worker keeps its session or, when the breaker trips, drops it.
RunErr(w) ==
  /\ pc[w] = "run"
  /\ \/ Ran(w, {job[w]}) /\ UNCHANGED session
     \/ UNCHANGED <<plan, session, profile>>
     \/ /\ plan' \in {plan} \cup PlansAfter(w, {job[w]})
        /\ session' = [session EXCEPT ![w] = FALSE]
        /\ profile' = [profile EXCEPT ![w] = None]
  /\ Answered(w)
  /\ UNCHANGED <<config, ceiling, warmedLocal, inbox, taskVars>>

\* A failed engine build: the worker leaves run_worker.
RunFatal(w) ==
  /\ Faults
  /\ pc[w] = "run"
  /\ pc' = [pc EXCEPT ![w] = "exited"]
  /\ job' = [job EXCEPT ![w] = None]
  /\ session' = [session EXCEPT ![w] = FALSE]
  /\ profile' = [profile EXCEPT ![w] = None]
  /\ inbox' = [inbox EXCEPT ![w] = <<>>]
  /\ UNCHANGED <<config, plan, ceiling, warmup, warmedLocal, taskVars>>

\* The AdaptiveWarmup arm of dispatch_request: trt_prewarm of one shape.
Warm(w) ==
  /\ pc[w] = "taken"
  /\ session[w] /\ warmup[w]
  /\ \/ /\ Ran(w, {job[w]})
        /\ ceiling' = Higher(ceiling, MaxWarmedSeq({job[w]}, {job[w]}))
        /\ task' = "acked"
        /\ UNCHANGED asked
     \/ /\ TaskDone
        /\ UNCHANGED <<plan, ceiling, profile>>
  /\ Answered(w)
  /\ UNCHANGED <<config, session, warmedLocal, inbox, suspects>>

IdleUnload(w) ==
  /\ pc[w] = "recv"
  /\ session[w]
  /\ pc' = [pc EXCEPT ![w] = "top"]
  /\ session' = [session EXCEPT ![w] = FALSE]
  /\ profile' = [profile EXCEPT ![w] = None]
  /\ UNCHANGED <<config, plan, ceiling, job, warmup, warmedLocal, inbox, taskVars>>

-----------------------------------------------------------------------------
(* The adaptive warm-up task, whose loop AdaptiveWarmup models *)

Fire(s) ==
  /\ task = "idle"
  /\ s \in suspects
  /\ suspects' = suspects \ {s}
  /\ task' = "sent"
  /\ asked' = s
  /\ UNCHANGED <<config, plan, ceiling, workerVars>>

\* broadcast_engine_ready, unless the compile took no measurable time.
BroadcastReady ==
  /\ task = "acked"
  /\ TaskDone
  /\ inbox' \in {Deliver(asked), inbox}
  /\ UNCHANGED <<config, plan, ceiling, pc, session, profile, job, warmup, warmedLocal,
                 suspects>>

-----------------------------------------------------------------------------
WorkerStep(w) ==
  \/ StartupWorker(w) \/ Drain(w) \/ Wait(w) \/ TakeWarmup(w) \/ Reload(w)
  \/ Refuse(w) \/ Run(w) \/ RunOk(w) \/ RunErr(w) \/ RunFatal(w) \/ Warm(w)
  \/ IdleUnload(w)

Next ==
  \/ \E w \in Workers : WorkerStep(w)
  \/ \E w \in Workers, s \in Tiers : Take(w, s)
  \/ \E s \in Tiers : Fire(s)
  \/ BroadcastReady
  \/ Crash

Spec == Init /\ [][Next]_vars

\* A deployment that does all it can for its coverage: requests of every tier
\* keep arriving, runs of each tier succeed, slowly enough to be reported, the
\* task fires what is reported and its compiles, and those of the peers, succeed.
WarmOk(w) == Warm(w) /\ task' = "acked"
ReportedRun(w) == RunOk(w) /\ suspects' = suspects \cup {job[w]}
Fairness ==
  /\ \A w \in Workers :
       /\ WF_vars(StartupWorker(w))
       /\ WF_vars(Drain(w) \/ Wait(w))
       /\ WF_vars(Refuse(w) \/ Run(w))
       /\ SF_vars(Reload(w) /\ session'[w])
       /\ SF_vars(ReportedRun(w))
       /\ SF_vars(TakeWarmup(w))
       /\ SF_vars(WarmOk(w))
       /\ \A s \in Tiers : SF_vars(Take(w, s))
  /\ \A s \in Tiers : SF_vars(Fire(s))
  /\ WF_vars(BroadcastReady)

FairSpec == Spec /\ Fairness

-----------------------------------------------------------------------------
(* Properties *)

TypeOK ==
  /\ strict \in BOOLEAN
  /\ persists \in BOOLEAN
  /\ plan \in Tiers \cup {None}
  /\ ceiling \in Tiers \cup {None}
  /\ pc \in [Workers -> {"unspawned", "top", "recv", "taken", "run", "exited"}]
  /\ session \in [Workers -> BOOLEAN]
  /\ profile \in [Workers -> Tiers \cup {None}]
  /\ job \in [Workers -> Tiers \cup {None}]
  /\ warmup \in [Workers -> BOOLEAN]
  /\ warmedLocal \in [Workers -> SUBSET Tiers]
  /\ inbox \in [Workers -> Seq(Tiers)]
  /\ \A w \in Workers : Len(inbox[w]) <= PropCapacity
  /\ suspects \subseteq Tiers
  /\ task \in {"idle", "sent", "taken", "acked"}
  /\ asked \in Tiers \cup {None}

\* The ceiling is the pool-wide coverage signal jit_guard.rs says it is: no tier
\* is announced as warmed, by the prewarm of a shard of which some shapes failed,
\* by a peer's broadcast or by the warm-up task, that is not on disk for every
\* worker to load, even across restarts.  It rests on the provider's writing
\* the plans it compiles, which the code cannot see.
CeilingSound == persists => ceiling <= plan

\* The failure the guard is there to prevent: no client request is in the
\* runtime with a dangerous tier for which an engine would have to be compiled,
\* whatever unloads, reloads, lags and restarts have done to the worker's session.
NoInbandCompile ==
  \A w \in Workers :
    persists /\ pc[w] = "run" /\ job[w] >= GuardSeq => Covered(w, job[w])

\* A request refused by the guard, about to be answered 503.
Refused(s) ==
  \E w \in Workers :
    pc[w] = "taken" /\ session[w] /\ ~warmup[w] /\ job[w] = s /\ ~Admit(s, ceiling)

\* doc of jit_guard.rs, "Self-healing": "coverage that was refused at startup is
\* admitted again", the warm-up task and the propagation raising the ceiling.
SelfHealing == \A s \in Tiers : Refused(s) ~> ceiling >= s

=============================================================================
