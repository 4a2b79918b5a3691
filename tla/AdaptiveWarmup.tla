---------------------------- MODULE AdaptiveWarmup ----------------------------
(***************************************************************************)
(* The adaptive warm-up task (embedder/adaptive_warmup.rs): it collects    *)
(* the shapes of slow inferences from the bounded JIT-suspect channel,     *)
(* waits until the pool has been quiet for a while and has the workers     *)
(* compile one shape at a time, within an hourly budget.                   *)
(*                                                                         *)
(* The pool is reduced to its queue depth, zero or not, and to how it      *)
(* answers a warm-up request; what a compile does to the engine coverage   *)
(* is the subject of EngineCoverage.  Time is counted in ticks, of which   *)
(* Hour make an hour; the sleeps between two looks at the pool only        *)
(* separate steps.                                                         *)
(***************************************************************************)
EXTENDS Integers, Sequences, FiniteSets, Functions

CONSTANTS
  Shapes,            \* the shapes inferences run with
  ChannelCapacity,   \* slots of the JIT-suspect channel (64 in the code)
  MaxShapesPerHour,  \* max_shapes_per_hour
  QuietSecs,         \* quiet_secs
  Hour               \* ticks in an hour

ASSUME WarmupAssumption ==
  /\ IsFiniteSet(Shapes)
  /\ ChannelCapacity \in Nat \ {0}
  /\ MaxShapesPerHour \in Nat
  /\ QuietSecs \in Nat
  /\ Hour \in Nat \ {0}

VARIABLES
  pc,              \* where the task is
  rx,              \* the JIT-suspect channel
  pending,         \* pending, an IndexSet: insertion order, no duplicates
  warmed,          \* warmed
  shapesThisHour,  \* shapes_this_hour
  hourAge,         \* ticks since hour_start (Hour stands for any more)
  idle,            \* consecutive_idle
  busy,            \* queue_depth() > 0
  workers,         \* whether a worker, hence a suspect sender, still exists
  recent           \* the ages of the compiles of the last hour, oldest first

vars == <<pc, rx, pending, warmed, shapesThisHour, hourAge, idle, busy, workers,
          recent>>

-----------------------------------------------------------------------------
(* Pure parts *)

InsertUnchecked(p, s) == IF s \in Range(p) THEN p ELSE Append(p, s)

\* A shape already warmed or already pending is skipped.
Insert(p, s) == IF s \in warmed \cup Range(p) THEN p ELSE Append(p, s)

\* The shapes in the channel that Insert would take.
NewShapes == Range(rx) \ (warmed \cup Range(pending))

\* The first a in the channel comes before any b.
Precedes(a, b) == \E k \in DOMAIN rx : rx[k] = a /\ \A i \in 1 .. k : rx[i] # b

\* drain_rx: everything the channel holds is inserted, oldest first.
Drain ==
  /\ rx' = <<>>
  /\ \E added \in Bijection(1 .. Cardinality(NewShapes), NewShapes) :
       /\ \A i, j \in DOMAIN added : i < j => Precedes(added[i], added[j])
       /\ pending' = pending \o added

-----------------------------------------------------------------------------
Init ==
  /\ pc = "top"
  /\ rx = <<>>
  /\ pending = <<>>
  /\ warmed = {}
  /\ shapesThisHour = 0
  /\ hourAge = 0
  /\ idle = 0
  /\ busy = FALSE
  /\ workers = TRUE
  /\ recent = <<>>

-----------------------------------------------------------------------------
(* The rest of the server *)

SuspectUnbounded(s) ==
  /\ workers
  /\ pc # "exited"
  /\ rx' = Append(rx, s)
  /\ UNCHANGED <<pc, pending, warmed, shapesThisHour, hourAge, idle, busy, workers,
                 recent>>

\* A worker reports a slow inference; try_send drops it when the channel is full.
Suspect(s) ==
  /\ workers
  /\ pc # "exited"
  /\ Len(rx) < ChannelCapacity
  /\ rx' = Append(rx, s)
  /\ UNCHANGED <<pc, pending, warmed, shapesThisHour, hourAge, idle, busy, workers,
                 recent>>

\* Requests queue up, or the queue empties.
Traffic ==
  /\ workers
  /\ busy' = ~busy
  /\ UNCHANGED <<pc, rx, pending, warmed, shapesThisHour, hourAge, idle, workers,
                 recent>>

\* The last worker exits: the suspect channel loses its senders, and the pool's
\* channel its receiver, with whatever it held.
WorkersGone ==
  /\ workers
  /\ workers' = FALSE
  /\ busy' = FALSE
  /\ UNCHANGED <<pc, rx, pending, warmed, shapesThisHour, hourAge, idle, recent>>

\* Those of the compiles that are an hour old are no longer recent.
Tick ==
  /\ hourAge' = IF hourAge < Hour THEN hourAge + 1 ELSE hourAge
  /\ \E old \in 0 .. Len(recent) :
       /\ \A i \in 1 .. Len(recent) : recent[i] + 1 >= Hour <=> i <= old
       /\ recent' = [i \in 1 .. Len(recent) - old |-> recent[i + old] + 1]
  /\ UNCHANGED <<pc, rx, pending, warmed, shapesThisHour, idle, busy, workers>>

-----------------------------------------------------------------------------
(* The loop of the task *)

BudgetNeverReset == [spent |-> shapesThisHour, age |-> hourAge]

BudgetHourNotRestarted == IF hourAge >= Hour THEN [spent |-> 0, age |-> hourAge]
                          ELSE [spent |-> shapesThisHour, age |-> hourAge]

\* The hourly reset at the top of the loop.
Budget == IF hourAge >= Hour THEN [spent |-> 0, age |-> 0]
          ELSE [spent |-> shapesThisHour, age |-> hourAge]

\* Nothing to do or no budget left, requests in the queue, or a quiet window to
\* wait for, none when quiet_secs is zero.
Top ==
  /\ pc = "top"
  /\ Drain
  /\ shapesThisHour' = Budget.spent
  /\ hourAge' = Budget.age
  /\ idle' = 0
  /\ pc' = IF pending' = <<>> \/ Budget.spent >= MaxShapesPerHour THEN "select"
           ELSE IF busy THEN "sleep"
           ELSE IF QuietSecs = 0 THEN "fire" ELSE "quiet"
  /\ UNCHANGED <<warmed, busy, workers, recent>>

\* The select: a suspect arrives.
SelectSuspect ==
  /\ pc = "select"
  /\ rx # <<>>
  /\ pending' = Insert(pending, Head(rx))
  /\ rx' = Tail(rx)
  /\ pc' = "top"
  /\ UNCHANGED <<warmed, shapesThisHour, hourAge, idle, busy, workers, recent>>

SelectClosedRetries ==
  /\ pc = "select"
  /\ rx = <<>>
  /\ ~workers
  /\ pc' = "top"
  /\ UNCHANGED <<rx, pending, warmed, shapesThisHour, hourAge, idle, busy, workers,
                 recent>>

\* The select: the channel is closed, and the task ends.
SelectClosed ==
  /\ pc = "select"
  /\ rx = <<>>
  /\ ~workers
  /\ pc' = "exited"
  /\ UNCHANGED <<rx, pending, warmed, shapesThisHour, hourAge, idle, busy, workers,
                 recent>>

\* The sleep of the select, or of the wait for the queue to empty.
Wake ==
  /\ \/ pc = "select" /\ rx = <<>> /\ workers
     \/ pc = "sleep"
  /\ pc' = "top"
  /\ UNCHANGED <<rx, pending, warmed, shapesThisHour, hourAge, idle, busy, workers,
                 recent>>

\* One second of wait_for_quiet_window.
QuietSecond ==
  /\ pc = "quiet"
  /\ Drain
  /\ \/ /\ busy
        /\ pc' = "top"
        /\ UNCHANGED idle
     \/ /\ ~busy
        /\ idle' = idle + 1
        /\ pc' = IF idle + 1 >= QuietSecs THEN "fire" ELSE "quiet"
  /\ UNCHANGED <<warmed, shapesThisHour, hourAge, busy, workers, recent>>

\* send_adaptive_warmup of the first pending shape; a closed pool ends the task.
Fire ==
  /\ pc = "fire"
  /\ pc' = IF workers THEN "ack" ELSE "exited"
  /\ UNCHANGED <<rx, pending, warmed, shapesThisHour, hourAge, idle, busy, workers,
                 recent>>

\* A worker has compiled the shape, or loaded it.
AckOk ==
  /\ pc = "ack"
  /\ workers
  /\ warmed' = warmed \cup {Head(pending)}
  /\ pending' = Tail(pending)
  /\ shapesThisHour' = shapesThisHour + 1
  /\ recent' = Append(recent, 0)
  /\ pc' = "top"
  /\ UNCHANGED <<rx, hourAge, idle, busy, workers>>

\* The compile failed, or the acknowledgement was dropped with its worker: the
\* shape is given up, at no charge to the budget.
AckErr ==
  /\ pc = "ack"
  /\ pending' = Tail(pending)
  /\ pc' = "top"
  /\ UNCHANGED <<rx, warmed, shapesThisHour, hourAge, idle, busy, workers, recent>>

-----------------------------------------------------------------------------
TaskStep ==
  \/ Top \/ SelectSuspect \/ SelectClosed \/ Wake \/ QuietSecond \/ Fire
  \/ AckOk \/ AckErr

Next ==
  \/ TaskStep
  \/ \E s \in Shapes : Suspect(s)
  \/ Traffic
  \/ WorkersGone
  \/ Tick

Spec == Init /\ [][Next]_vars

\* The runtime polls the task, sleeps end, a worker answers what it is sent and
\* time passes.  Nobody has to be slow, to send requests or to exit.
Fairness == WF_vars(TaskStep) /\ WF_vars(Tick)

FairSpec == Spec /\ Fairness

-----------------------------------------------------------------------------
(* Properties *)

TypeOK ==
  /\ pc \in {"top", "select", "sleep", "quiet", "fire", "ack", "exited"}
  /\ rx \in Seq(Shapes)
  /\ Len(rx) <= ChannelCapacity
  /\ pending \in Seq(Shapes)
  /\ warmed \subseteq Shapes
  /\ shapesThisHour \in 0 .. MaxShapesPerHour
  /\ hourAge \in 0 .. Hour
  /\ idle \in 0 .. QuietSecs
  /\ busy \in BOOLEAN
  /\ workers \in BOOLEAN
  /\ recent \in Seq(0 .. Hour - 1)

\* "Successfully compiled shapes are not re-submitted in the current session",
\* and a shape is never pending twice: wherever a suspect is taken in (the top of
\* the loop, the select, the quiet window), while its shape waits or compiles.
PendingFresh ==
  /\ IsInjective(pending)
  /\ Range(pending) \cap warmed = {}
  /\ pc \in {"quiet", "fire", "ack"} => pending # <<>>

\* What the hourly budget really bounds: hour_start is fixed, not rolling, so
\* that the compiles of any hour are at most those of two budgets.
HourlyBudget == Len(recent) <= 2 * MaxShapesPerHour

\* Once the traffic has stopped for good every pending shape is tried: the budget
\* is restored although nothing wakes the task but its own sleep.
SuspectsAreTried ==
  MaxShapesPerHour > 0 /\ <>[]~busy
    => \A s \in Shapes : s \in Range(pending) ~> s \notin Range(pending) \/ pc = "exited"

\* The task, which holds a handle of the pool, does not outlive the workers.
TaskEnds == ~workers ~> pc = "exited"

=============================================================================
