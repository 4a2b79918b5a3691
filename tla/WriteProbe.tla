------------------------------ MODULE WriteProbe ------------------------------
(***************************************************************************)
(* The write probe of the engine cache (trt_cache/inspect.rs): the file    *)
(* .write_probe that every inspection of the shared directory creates,     *)
(* writes, reads back and deletes.  Each load of a session inspects the    *)
(* directory (session.rs): the first loads of a container's workers, one   *)
(* after the other (pool.rs), and the reload of any worker whose models    *)
(* were dropped when idle or by the circuit breaker (worker/run.rs).  The  *)
(* main thread of a warm-up-only container inspects it once more before it *)
(* exits (lib.rs).  The file has one name for all of them.                 *)
(*                                                                         *)
(* The probe only logs, so nothing of it is in EngineCache.  A thread is a *)
(* container and a number: 0 is the main thread, the others are workers.   *)
(***************************************************************************)
EXTENDS Naturals, FiniteSets

CONSTANTS
  Containers,   \* containers that mount the cache
  Workers,      \* worker threads of a container
  NoThread

Threads == Containers \X (0 .. Workers)

ASSUME WriteProbeAssumption ==
  /\ IsFiniteSet(Containers)
  /\ Workers \in Nat \ {0}
  /\ NoThread \notin Threads

VARIABLES
  writable,    \* whether the volume lets the containers create and write files
  warmupOnly,  \* the containers with warmup_only
  stage,       \* "down", "loading", "serving" or "ending", for each container
  loads,       \* workers of a container that have begun their first load
  pc,          \* where each thread is
  sentinel,    \* the file .write_probe: who made it, NoThread if absent, and its data
  logged,      \* what the last probe of each thread has logged
  met          \* containers of which another thread was probing during that probe

config == <<writable, warmupOnly>>
vars   == <<config, stage, loads, pc, sentinel, logged, met>>

NoFile   == [by |-> NoThread, data |-> FALSE]
ProbePcs == {"rm", "create", "write", "read", "unlink"}

Moves(t, to) == pc' = [pc EXCEPT ![t] = to]

Init ==
  /\ writable \in BOOLEAN
  /\ warmupOnly \in SUBSET Containers
  /\ stage = [c \in Containers |-> "down"]
  /\ loads = [c \in Containers |-> 0]
  /\ pc = [t \in Threads |-> "off"]
  /\ sentinel = NoFile
  /\ logged = [t \in Threads |-> {}]
  /\ met = [t \in Threads |-> {}]

-----------------------------------------------------------------------------
(* Who inspects the directory, and when *)

\* The thread enters run_write_probe; who is in it at the same time is noted.
EnterProbe(t) ==
  /\ Moves(t, "rm")
  /\ logged' = [logged EXCEPT ![t] = {}]
  /\ met' = [u \in Threads |->
               IF u = t THEN {v[1] : v \in {w \in Threads \ {t} : pc[w] \in ProbePcs}}
               ELSE IF pc[u] \in ProbePcs THEN met[u] \cup {t[1]} ELSE met[u]]

\* The container is started, for the first time or again: the leader loads.
Start(c) ==
  /\ stage[c] = "down"
  /\ stage' = [stage EXCEPT ![c] = "loading"]
  /\ loads' = [loads EXCEPT ![c] = 1]
  /\ EnterProbe(<<c, 1>>)
  /\ UNCHANGED <<config, sentinel>>

LoadNextAtOnce(c) ==
  /\ stage[c] = "loading"
  /\ loads[c] < Workers
  /\ loads' = [loads EXCEPT ![c] = @ + 1]
  /\ EnterProbe(<<c, loads[c] + 1>>)
  /\ UNCHANGED <<config, stage, sentinel>>

LoadNextUnbounded(c) ==
  /\ stage[c] = "loading"
  /\ pc[<<c, loads[c]>>] \in {"loaded", "unloaded"}
  /\ loads' = [loads EXCEPT ![c] = @ + 1]
  /\ EnterProbe(<<c, loads[c] + 1>>)
  /\ UNCHANGED <<config, stage, sentinel>>

\* The next worker is spawned once the one before has signalled ready.
LoadNext(c) ==
  /\ stage[c] = "loading"
  /\ loads[c] < Workers
  /\ pc[<<c, loads[c]>>] \in {"loaded", "unloaded"}
  /\ loads' = [loads EXCEPT ![c] = @ + 1]
  /\ EnterProbe(<<c, loads[c] + 1>>)
  /\ UNCHANGED <<config, stage, sentinel>>

\* Every worker is ready: requests may come.
Serve(c) ==
  /\ stage[c] = "loading"
  /\ loads[c] = Workers
  /\ pc[<<c, Workers>>] \in {"loaded", "unloaded"}
  /\ c \notin warmupOnly
  /\ stage' = [stage EXCEPT ![c] = "serving"]
  /\ UNCHANGED <<config, loads, pc, sentinel, logged, met>>

\* Or, of a warm-up-only container, the pool is dropped, no worker inspects the
\* directory again, and the main thread does.
Teardown(c) ==
  /\ stage[c] = "loading"
  /\ loads[c] = Workers
  /\ pc[<<c, Workers>>] \in {"loaded", "unloaded"}
  /\ c \in warmupOnly
  /\ stage' = [stage EXCEPT ![c] = "ending"]
  /\ EnterProbe(<<c, 0>>)
  /\ UNCHANGED <<config, loads, sentinel>>

\* The worker drops its models: after the idle timeout or by the circuit breaker.
Unload(t) ==
  /\ pc[t] = "loaded"
  /\ t[2] # 0
  /\ Moves(t, "unloaded")
  /\ UNCHANGED <<config, stage, loads, sentinel, logged, met>>

\* It has a request and no models: load_models again.
Reload(t) ==
  /\ stage[t[1]] = "serving"
  /\ pc[t] = "unloaded"
  /\ EnterProbe(t)
  /\ UNCHANGED <<config, stage, loads, sentinel>>

\* The container is gone: killed between any two steps, or it has exited, by
\* itself at the end of a warm-up or because a first load failed.  The file stays.
Gone(c) ==
  /\ stage[c] # "down"
  /\ stage' = [stage EXCEPT ![c] = "down"]
  /\ loads' = [loads EXCEPT ![c] = 0]
  /\ pc' = [t \in Threads |-> IF t[1] = c THEN "off" ELSE pc[t]]
  /\ logged' = [t \in Threads |-> IF t[1] = c THEN {} ELSE logged[t]]
  /\ met' = [t \in Threads |-> IF t[1] = c THEN {} ELSE met[t]]
  /\ UNCHANGED <<config, sentinel>>

-----------------------------------------------------------------------------
(* ensure_and_inspect, run_write_probe *)

\* The inspection is over, the load goes on.  One that fails leaves a serving
\* worker without models; at the start it ends the container, which is Gone.
LeaveProbe(t, lines) ==
  /\ \E to \in {"loaded", "unloaded"} :
       /\ to = "unloaded" => stage[t[1]] = "serving"
       /\ Moves(t, to)
  /\ logged' = [logged EXCEPT ![t] = lines]

RemoveStaleSkipped(t) ==
  /\ pc[t] = "rm"
  /\ Moves(t, "create")
  /\ UNCHANGED <<config, stage, loads, sentinel, logged, met>>

\* The sentinel that a killed container left is removed first; where not even the
\* directory can be made, the probe is left out.
RemoveStale(t) ==
  /\ pc[t] = "rm"
  /\ sentinel' = IF writable THEN NoFile ELSE sentinel
  /\ \/ Moves(t, "create") /\ UNCHANGED logged
     \/ ~writable /\ LeaveProbe(t, {})
  /\ UNCHANGED <<config, stage, loads, met>>

\* create_new: the file must not exist.
CreateSentinel(t) ==
  /\ pc[t] = "create"
  /\ \/ /\ writable /\ sentinel = NoFile
        /\ sentinel' = [by |-> t, data |-> FALSE]
        /\ Moves(t, "write")
        /\ UNCHANGED logged
     \/ /\ ~writable \/ sentinel # NoFile
        /\ LeaveProbe(t, {"failed"})
        /\ UNCHANGED sentinel
  /\ UNCHANGED <<config, stage, loads, met>>

\* The write goes to the file the thread has opened, which another may have
\* removed, with or without a successor under its name.  On a network file
\* system it may then fail, and the cleanup takes what is there.
WriteSentinel(t) ==
  /\ pc[t] = "write"
  /\ \/ /\ sentinel' = IF sentinel.by = t THEN [sentinel EXCEPT !.data = TRUE] ELSE sentinel
        /\ Moves(t, "read")
        /\ UNCHANGED logged
     \/ /\ sentinel.by # t
        /\ sentinel' = NoFile
        /\ LeaveProbe(t, {"failed"})
  /\ UNCHANGED <<config, stage, loads, met>>

\* The file is opened again by its name, read and compared.
ReadSentinel(t) ==
  /\ pc[t] = "read"
  /\ \/ /\ sentinel.data
        /\ Moves(t, "unlink")
        /\ UNCHANGED <<sentinel, logged>>
     \/ /\ ~sentinel.data
        /\ sentinel' = NoFile
        /\ LeaveProbe(t, {"failed"})
  /\ UNCHANGED <<config, stage, loads, met>>

\* A deletion that fails is logged after the success of the rest.
UnlinkSentinel(t) ==
  /\ pc[t] = "unlink"
  /\ sentinel' = NoFile
  /\ LeaveProbe(t, IF sentinel = NoFile THEN {"succeeded", "failed"} ELSE {"succeeded"})
  /\ UNCHANGED <<config, stage, loads, met>>

ProbeStep(t) ==
  \/ RemoveStale(t) \/ CreateSentinel(t) \/ WriteSentinel(t) \/ ReadSentinel(t)
  \/ UnlinkSentinel(t)

Next ==
  \/ \E c \in Containers : Start(c) \/ LoadNext(c) \/ Serve(c) \/ Teardown(c) \/ Gone(c)
  \/ \E t \in Threads : Unload(t) \/ Reload(t) \/ ProbeStep(t)

Spec == Init /\ [][Next]_vars

-----------------------------------------------------------------------------
(* Properties *)

TypeOK ==
  /\ writable \in BOOLEAN
  /\ warmupOnly \subseteq Containers
  /\ stage \in [Containers -> {"down", "loading", "serving", "ending"}]
  /\ loads \in [Containers -> 0 .. Workers]
  /\ pc \in [Threads -> ProbePcs \cup {"off", "loaded", "unloaded"}]
  /\ sentinel \in [by : Threads \cup {NoThread}, data : BOOLEAN]
  /\ logged \in [Threads -> SUBSET {"succeeded", "failed"}]
  /\ met \in [Threads -> SUBSET Containers]

\* The write probe tells the truth about the volume: although its file has a
\* fixed name and a killed container leaves it behind, it reports a failure of
\* a writable volume only when another thread, a reloading worker of the same
\* container included, was probing at the same time.
ProbeTruthful ==
  \A t \in Threads : /\ "failed" \in logged[t] => ~writable \/ met[t] # {}
                     /\ "succeeded" \in logged[t] => writable

\* A container does not disturb itself before it serves: its workers load one
\* after the other and none reloads before the last is ready, so that a failure
\* reported at the start of a writable volume, or at the end of a warm-up, takes
\* another container that was probing meanwhile.
BootProbeTruthful ==
  \A t \in Threads :
    stage[t[1]] # "serving" /\ "failed" \in logged[t] => ~writable \/ met[t] \ {t[1]} # {}

=============================================================================
