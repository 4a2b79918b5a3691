-------------------------------- MODULE Health --------------------------------
(***************************************************************************)
(* GET /health (handler/health.rs) over the pool it reports on.  The       *)
(* handler loads three atomics, one after the other, while the workers and *)
(* the readiness task change them; the answer is derived from what it got. *)
(* docs/health-state-machine.md draws the status as a state machine.       *)
(***************************************************************************)
EXTENDS WorkerPool

CONSTANT Total    \* AppState::total_workers: cfg.workers, before the clamp

ASSUME HealthAssumption == Total \in Nat /\ Total >= N

VARIABLES
  isReady,   \* AppState::ready, which run_readiness_checks_and_open sets
  hpc,       \* the next load of the handler: "ready", "live" or "loaded"
  hLive,     \* what it loaded from live_workers (0 while it has not)
  seen       \* history: the statuses the server has had since its first load

handlerVars == <<hpc, hLive, seen>>
healthVars  == <<vars, isReady, handlerVars>>

\* The branches of the handler, in its order.
StatusOf(isUp, liveCount, loadedCount) ==
  IF ~isUp THEN "loading"
  ELSE IF liveCount = 0 THEN "fail"
  ELSE IF loadedCount = 0 THEN "idle"
  ELSE IF liveCount < Total THEN "warn"
  ELSE "ok"

\* What the server's status is at this moment.
Status == StatusOf(isReady, live, loaded)

\* The readiness calls went through: ready.store(true).
BecomeReady ==
  /\ initPc = "done"
  /\ senders
  /\ ~isReady
  /\ isReady' = TRUE
  /\ UNCHANGED vars

\* While the handler is between its loads, its history grows with every step.
Observe == seen' = IF hpc = "ready" THEN seen ELSE seen \cup {Status'}

\* The three loads.  A handler holds the AppState, and so a sender; one that
\* finds the server not ready answers "loading" whatever it loads next.
LoadReady ==
  /\ senders
  /\ isReady
  /\ hpc = "ready"
  /\ hpc' = "live"
  /\ seen' = {Status}
  /\ UNCHANGED <<vars, isReady, hLive>>

LoadLive ==
  /\ hpc = "live"
  /\ hLive' = live
  /\ hpc' = "loaded"
  /\ UNCHANGED <<vars, isReady, seen>>

\* What the handler will answer if it loads loaded_workers now.
Answer == StatusOf(TRUE, hLive, loaded)

\* The last load, and the answer.
LoadLoaded ==
  /\ hpc = "loaded"
  /\ hpc' = "ready"
  /\ hLive' = 0
  /\ seen' = {}
  /\ UNCHANGED <<vars, isReady>>

HealthInit ==
  /\ Init
  /\ isReady = FALSE
  /\ hpc = "ready"
  /\ hLive = 0
  /\ seen = {}

\* A step of the pool.  The handle is dropped only by the warm-up-only path,
\* which never builds an AppState and never serves.
PoolStep ==
  /\ Next
  /\ ~senders' => ~isReady /\ hpc = "ready"
  /\ UNCHANGED isReady

HealthNext ==
  \/ (PoolStep \/ BecomeReady) /\ Observe /\ UNCHANGED <<hpc, hLive>>
  \/ LoadReady
  \/ LoadLive
  \/ LoadLoaded

HealthSpec == HealthInit /\ [][HealthNext]_healthVars

-----------------------------------------------------------------------------
(* Properties *)

\* "there is no cached status that can go stale" (health-state-machine.md): the
\* three loads are not one, yet whatever the workers do in between (unload,
\* reload, leave, all of them), the answer is a status the server really had at
\* some moment between the first load and the last.
HealthTruthful ==
  hpc = "loaded" => Answer \in seen

\* The arrows of the state diagram once the server is ready.
Diagram == {<<"ok", "idle">>, <<"ok", "warn">>, <<"ok", "fail">>,
            <<"idle", "ok">>, <<"idle", "fail">>, <<"warn", "fail">>}

\* Where every configured worker has a thread (no clamp), the status follows
\* the diagram of health-state-machine.md: a degraded server never looks idle
\* or healthy again, and a failed one has failed for good.
FollowsDiagram ==
  [][Total = N /\ Status # "loading" /\ Status' # Status
       => <<Status, Status'>> \in Diagram]_healthVars

=============================================================================
