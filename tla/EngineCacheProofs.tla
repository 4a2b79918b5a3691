--------------------------- MODULE EngineCacheProofs ---------------------------
(***************************************************************************)
(* Proofs about EngineCache, for every fleet that shares a cache and every *)
(* set of capabilities: what a flushed plan survives and what an exit with *)
(* success leaves on the volume.                                           *)
(***************************************************************************)
EXTENDS EngineCache, TLAPS

-----------------------------------------------------------------------------
(* The inductive invariant *)

\* A task that compiles or flushes for a shape has that shape left to count.
LeftInv ==
  \A t \in Tasks : pc[t] \in {"compile", "fsync"} => left[t] > 0

\* A task deletes no sidecars of its own capability, and none without the GC.
DeletedInv ==
  \A t \in Tasks : \A s \in deleted[t] : t \in GcTasks /\ s # sm[t]

\* A file that is being written belongs to the task that began to write it last;
\* where two have written at once the file is in mixed, until a later write is
\* alone; and what has been flushed is not being written.
WriterInv ==
  /\ \A s \in Sms : plan[s].state = "partial" =>
       /\ plan[s].by \in Tasks
       /\ pc[plan[s].by] \in Writing
       /\ sm[plan[s].by] = s
  /\ \A t \in Tasks : pc[t] \in Writing =>
       /\ sm[t] \notin settled
       /\ sm[t] \notin mixed => plan[sm[t]].by \in {t, NoTask}
  /\ \A t, u \in Tasks :
       t # u /\ pc[t] \in Writing /\ pc[u] \in Writing /\ sm[t] = sm[u] => sm[t] \in mixed

\* A capability whose plans no garbage collection of another one deletes.
Spared(s) == \A u \in GcTasks : sm[u] = s

\* A spared plan that one task has written is whole or on its way, and one that
\* has been flushed is durable.
PlanInv ==
  \A s \in Sms : Spared(s) =>
    /\ s \notin mixed /\ plan[s].by # NoTask => plan[s].state \notin {"none", "torn"}
    /\ s \in settled => plan[s].state = "durable"

CacheInv ==
  /\ TypeOK
  /\ LeftInv
  /\ DeletedInv
  /\ WriterInv
  /\ PlanInv
  /\ ExitZeroHonest

-----------------------------------------------------------------------------
(* Types *)

\* Where a task can be.
Pcs == Ended \cup Writing \cup {"prime", "gc", "sidecars", "detect", "shape", "fsync",
                                 "serve", "teardown", "count"}

\* The values of the variables stay of their types: a shape is uncounted only once.
LEMMA StepTyped ==
  ASSUME TypeOK, LeftInv, [Next]_vars
  PROVE  TypeOK'
<1>1. CASE UNCHANGED vars
  BY <1>1 DEF TypeOK, vars, config, history
<1>2. ASSUME NEW s \in Sms, Writeback(s)
      PROVE  TypeOK'
  BY <1>2 DEF TypeOK, Writeback, config, history, States
<1>3. ASSUME NEW t \in Tasks, TaskStep(t)
      PROVE  TypeOK'
  <2> USE DEF TypeOK, config, history, Moves, Writing
  <2>1. CASE Start(t)
    BY <2>1 DEF Start
  <2>2. CASE Prime(t)
    BY <2>2 DEF Prime
  <2>4. CASE GcPlans(t)
    <3>1. NoPlan \in [state : States, by : Tasks \cup {NoTask}]
      BY DEF NoPlan, States
    <3>2. /\ plan' \in [Sms -> [state : States, by : Tasks \cup {NoTask}]]
          /\ deleted' \in [Tasks -> SUBSET Sms]
      <4>1. CASE plan' = plan /\ deleted' = deleted
        BY <4>1
      <4>2. CASE \E gone \in SUBSET Stale(t) :
                   /\ plan' = [s \in Sms |-> IF s \in gone THEN NoPlan ELSE plan[s]]
                   /\ deleted' = [deleted EXCEPT ![t] = gone]
        <5>1. PICK gone \in SUBSET Stale(t) :
                /\ plan' = [s \in Sms |-> IF s \in gone THEN NoPlan ELSE plan[s]]
                /\ deleted' = [deleted EXCEPT ![t] = gone]
          BY <4>2
        <5>2. gone \in SUBSET Sms
          BY DEF Stale
        <5>. QED
          BY <3>1, <5>1, <5>2
      <4>. QED
        BY <2>4, <4>1, <4>2 DEF GcPlans
    <3>3. pc' \in [Tasks -> Pcs]
      BY <2>4 DEF GcPlans, Pcs
    <3>. QED
      BY <2>4, <3>2, <3>3 DEF GcPlans, Pcs
  <2>5. CASE GcSidecars(t)
    BY <2>5 DEF GcSidecars, States
  <2>6. CASE Detect(t)
    BY <2>6, CacheAssumption DEF Detect
  <2>7. CASE RunShape(t)
    <3>1. PICK slow \in BOOLEAN : fresh' = [fresh EXCEPT ![t] = @ \/ slow]
      BY <2>7 DEF RunShape
    <3>2. fresh' \in [Tasks -> BOOLEAN]
      BY <3>1
    <3>. QED
      BY <2>7, <3>2 DEF RunShape
  <2>3. CASE FailShape(t)
    BY <2>3, CacheAssumption DEF FailShape
  <2>8. CASE BeginWrite(t)
    BY <2>8 DEF BeginWrite, States
  <2>9. CASE EndWrite(t)
    <3>1. fresh' \in [Tasks -> BOOLEAN] /\ pc' \in [Tasks -> Pcs]
      BY <2>9 DEF EndWrite, Pcs
    <3>2. PICK written \in States : plan' = [plan EXCEPT ![sm[t]].state = written]
      BY <2>9 DEF EndWrite, States
    <3>3. plan' \in [Sms -> [state : States, by : Tasks \cup {NoTask}]]
      BY <3>2
    <3>. QED
      BY <2>9, <3>1, <3>3 DEF EndWrite, Pcs
  <2>10. CASE FsyncShape(t)
    BY <2>10, CacheAssumption DEF FsyncShape, Flush, FsyncCacheDir, States, LeftInv
  <2>11. CASE EndPrewarm(t)
    BY <2>11 DEF EndPrewarm, Flush, FsyncCacheDir, States, Ended
  <2>12. CASE Teardown(t)
    <3>1. plan' \in [Sms -> [state : States, by : Tasks \cup {NoTask}]]
      BY <2>12 DEF Teardown, Flush, FsyncCacheDir, States
    <3>2. pc' \in [Tasks -> Pcs]
      BY <2>12 DEF Teardown, Pcs
    <3>. QED
      BY <2>12, <3>1, <3>2 DEF Teardown, Pcs
  <2>13. CASE Count(t)
    BY <2>13 DEF Count, Ended
  <2>14. CASE Kill(t)
    BY <2>14, CacheAssumption DEF Kill, States, Ended
  <2>. QED
    BY <1>3, <2>1, <2>2, <2>3, <2>4, <2>5, <2>6, <2>7, <2>8,
       <2>9, <2>10, <2>11, <2>12, <2>13, <2>14 DEF TaskStep
<1>. QED
  BY <1>1, <1>2, <1>3 DEF Next

-----------------------------------------------------------------------------
(* What a step leaves alone *)

\* A task's step is its own.
LEMMA Framed ==
  ASSUME TypeOK, NEW t \in Tasks, TaskStep(t)
  PROVE  /\ UNCHANGED config
         /\ \A u \in Tasks \ {t} :
              /\ pc'[u] = pc[u]
              /\ detected'[u] = detected[u] /\ deleted'[u] = deleted[u]
              /\ left'[u] = left[u]
<1> USE DEF TypeOK, config, history, Moves
<1>1. CASE Start(t) \/ Teardown(t)
  BY <1>1 DEF Start, Teardown
<1>2. CASE Prime(t)
  BY <1>2 DEF Prime
<1>3. CASE GcPlans(t) \/ GcSidecars(t)
  BY <1>3 DEF GcPlans, GcSidecars
<1>4. CASE Detect(t) \/ RunShape(t) \/ FailShape(t)
  BY <1>4 DEF Detect, RunShape, FailShape
<1>5. CASE BeginWrite(t) \/ EndWrite(t)
  BY <1>5 DEF BeginWrite, EndWrite
<1>6. CASE FsyncShape(t) \/ EndPrewarm(t)
  BY <1>6 DEF FsyncShape, EndPrewarm
<1>7. CASE Count(t)
  BY <1>7 DEF Count
<1>8. CASE Kill(t)
  BY <1>8 DEF Kill
<1>. QED
  BY <1>1, <1>2, <1>3, <1>4, <1>5, <1>6, <1>7, <1>8 DEF TaskStep

\* Where a task comes from: what is in the code before each of its places.
LEMMA Arrives ==
  ASSUME TypeOK, NEW t \in Tasks, TaskStep(t)
  PROVE  /\ pc'[t] \in {"compile", "fsync"} =>
              RunShape(t) \/ BeginWrite(t) \/ EndWrite(t)
         /\ pc'[t] \in Writing => BeginWrite(t)
         /\ pc'[t] = "exit0" => Count(t)
<1> USE DEF TypeOK, Moves, Writing
<1>1. CASE Start(t) \/ Teardown(t)
  BY <1>1 DEF Start, Teardown
<1>2. CASE Prime(t)
  BY <1>2 DEF Prime
<1>3. CASE GcPlans(t) \/ GcSidecars(t)
  BY <1>3 DEF GcPlans, GcSidecars
<1>4. CASE Detect(t) \/ RunShape(t) \/ FailShape(t)
  BY <1>4 DEF Detect, RunShape, FailShape
<1>5. CASE BeginWrite(t)
  BY <1>5 DEF BeginWrite
<1>9. CASE EndWrite(t)
  BY <1>9 DEF EndWrite
<1>6. CASE FsyncShape(t) \/ EndPrewarm(t)
  BY <1>6 DEF FsyncShape, EndPrewarm
<1>7. CASE Count(t)
  BY <1>7 DEF Count
<1>8. CASE Kill(t)
  BY <1>8 DEF Kill
<1>. QED
  BY <1>1, <1>2, <1>3, <1>4, <1>5, <1>6, <1>7, <1>8, <1>9 DEF TaskStep

\* A shape is counted once it has been flushed, or has failed.
LEMMA StepLeft ==
  ASSUME TypeOK, LeftInv, [Next]_vars
  PROVE  LeftInv'
<1>1. ASSUME NEW t \in Tasks, TaskStep(t)
      PROVE  LeftInv'
  <2>1. ASSUME pc'[t] \in {"compile", "fsync"}
        PROVE  left'[t] > 0
    BY <1>1, <2>1, Arrives
       DEF TypeOK, LeftInv, RunShape, BeginWrite, EndWrite, Moves
  <2>. QED
    BY <1>1, <2>1, Framed DEF LeftInv
<1>2. CASE UNCHANGED vars \/ \E s \in Sms : Writeback(s)
  BY <1>2 DEF LeftInv, vars, Writeback
<1>. QED
  BY <1>1, <1>2 DEF Next

-----------------------------------------------------------------------------
(* The plans *)

\* Only the garbage collection remembers what it has deleted.
LEMMA StepDeleted ==
  ASSUME TypeOK, DeletedInv, [Next]_vars
  PROVE  DeletedInv'
<1>1. ASSUME NEW t \in Tasks, TaskStep(t)
      PROVE  DeletedInv'
  <2>1. deleted \in [Tasks -> SUBSET Sms] /\ sm' = sm
    BY <1>1, Framed DEF TypeOK, config
  <2>2. \A s \in deleted'[t] : t \in GcTasks /\ s # sm[t]
    <3>1. CASE GcPlans(t)
      BY <2>1, <3>1 DEF GcPlans, Stale, DeletedInv
    <3>2. CASE GcSidecars(t) \/ Kill(t)
      BY <2>1, <3>2 DEF GcSidecars, Kill
    <3>3. CASE ~GcPlans(t) /\ ~GcSidecars(t) /\ ~Kill(t)
      <4>1. deleted' = deleted
        BY <1>1, <3>3
           DEF TaskStep, Start, Prime, Detect, RunShape, FailShape, BeginWrite, EndWrite,
               FsyncShape, EndPrewarm, Teardown, Count
      <4>. QED
        BY <4>1 DEF DeletedInv
    <3>. QED
      BY <3>1, <3>2, <3>3
  <2>. QED
    BY <1>1, <2>1, <2>2, Framed DEF DeletedInv
<1>2. CASE UNCHANGED vars \/ \E s \in Sms : Writeback(s)
  BY <1>2 DEF DeletedInv, vars, Writeback, config
<1>. QED
  BY <1>1, <1>2 DEF Next

\* A plan that is the same, or has reached the volume.
Flushed(s) ==
  \/ plan'[s] = plan[s]
  \/ plan[s].state = "buffered" /\ plan'[s] = [state |-> "durable", by |-> plan[s].by]

\* A flush, one that fails too, does no more.
LEMMA FlushOnly ==
  ASSUME TypeOK, NEW t \in Tasks, NEW succeeds \in BOOLEAN, Flush(t, succeeds),
         NEW s \in Sms
  PROVE  Flushed(s)
BY DEF TypeOK, Flush, FsyncCacheDir, Flushed

\* A step that neither writes nor kills: it starts and ends no write, and spared
\* plans are at most flushed by it.
LEMMA NoWrite ==
  ASSUME TypeOK, DeletedInv, NEW t \in Tasks, TaskStep(t),
         ~BeginWrite(t), ~EndWrite(t), ~Kill(t)
  PROVE  /\ pc[t] \notin Writing /\ pc'[t] \notin Writing
         /\ mixed' = mixed
         /\ FsyncShape(t) \/ settled' = settled
         /\ \A s \in Sms : /\ plan'[s].state = "partial" => plan'[s] = plan[s]
                           /\ plan'[s].by \in {plan[s].by, NoTask}
         /\ \A s \in Sms : Spared(s) => Flushed(s)
<1>1. pc'[t] \notin Writing
  BY Arrives
<1>2. pc[t] \notin Writing
  BY DEF TaskStep, Start, Prime, GcPlans, GcSidecars, Detect, RunShape, FailShape, FsyncShape,
     EndPrewarm, Teardown, Count, Writing, Ended
<1>3. mixed' = mixed /\ (FsyncShape(t) \/ settled' = settled)
  BY DEF TaskStep, Start, Prime, GcPlans, GcSidecars, Detect, RunShape, FailShape, FsyncShape,
     EndPrewarm, Teardown, Count, history
<1>4. plan \in [Sms -> [state : States, by : Tasks \cup {NoTask}]] /\ sm \in [Tasks -> Sms]
  BY DEF TypeOK
<1>5. ASSUME NEW s \in Sms
      PROVE  /\ plan'[s].state = "partial" => plan'[s] = plan[s]
             /\ plan'[s].by \in {plan[s].by, NoTask}
             /\ Spared(s) => Flushed(s)
  <2>1. CASE GcPlans(t)
    <3>1. \/ plan'[s] = plan[s]
          \/ t \in GcTasks /\ s # sm[t] /\ plan'[s] = NoPlan
      BY <1>4, <2>1 DEF GcPlans, Stale
    <3>. QED
      BY <3>1 DEF NoPlan, Spared, Flushed
  <2>2. CASE GcSidecars(t)
    <3>1. PICK gone \in SUBSET deleted[t] :
            plan' = [x \in Sms |-> IF x \in gone THEN [plan[x] EXCEPT !.state = "torn"]
                                  ELSE plan[x]]
      BY <2>2 DEF GcSidecars
    <3>2. s \in gone => t \in GcTasks /\ s # sm[t]
      BY DEF DeletedInv
    <3>. QED
      BY <1>4, <3>1, <3>2 DEF Spared, Flushed
  <2>3. CASE FsyncShape(t) \/ EndPrewarm(t) \/ Teardown(t)
    <3>1. PICK succeeds \in BOOLEAN : Flush(t, succeeds)
      BY <2>3 DEF FsyncShape, EndPrewarm, Teardown
    <3>2. Flushed(s)
      BY <3>1, FlushOnly
    <3>. QED
      BY <1>4, <3>2 DEF Flushed
  <2>4. CASE ~(GcPlans(t) \/ GcSidecars(t) \/ FsyncShape(t) \/ EndPrewarm(t) \/ Teardown(t))
    <3>1. plan' = plan
      BY <2>4
         DEF TaskStep, Start, Prime, Detect, RunShape, FailShape, Count
    <3>. QED
      BY <3>1 DEF Flushed
  <2>. QED
    BY <2>1, <2>2, <2>3, <2>4
<1>. QED
  BY <1>1, <1>2, <1>3, <1>5

\* The kernel flushes one plan.
LEMMA WritebackFlushes ==
  ASSUME TypeOK, NEW x \in Sms, Writeback(x)
  PROVE  \A s \in Sms : Flushed(s)
BY DEF TypeOK, Writeback, Flushed

\* Every step keeps track of who writes which plan.
LEMMA StepWriter ==
  ASSUME TypeOK, DeletedInv, WriterInv, [Next]_vars
  PROVE  WriterInv'
<1>1. /\ plan \in [Sms -> [state : States, by : Tasks \cup {NoTask}]]
      /\ sm \in [Tasks -> Sms] /\ pc \in [Tasks -> Pcs]
  BY DEF TypeOK, Pcs
<1>2. /\ \A s \in Sms : plan[s].state = "partial" =>
           plan[s].by \in Tasks /\ pc[plan[s].by] \in Writing /\ sm[plan[s].by] = s
      /\ \A t \in Tasks : pc[t] \in Writing =>
           sm[t] \notin settled /\ (sm[t] \notin mixed => plan[sm[t]].by \in {t, NoTask})
      /\ \A t, u \in Tasks :
           t # u /\ pc[t] \in Writing /\ pc[u] \in Writing /\ sm[t] = sm[u] => sm[t] \in mixed
  BY DEF WriterInv
<1>3. ASSUME NEW t \in Tasks, TaskStep(t)
      PROVE  WriterInv'
  <2>1. sm' = sm /\ \A u \in Tasks \ {t} : pc'[u] = pc[u]
    BY <1>3, Framed DEF config
  <2>2. CASE BeginWrite(t)
    <3>1. /\ pc[t] \notin Writing /\ pc'[t] \in Writing
          /\ plan' = [plan EXCEPT ![sm[t]] = [state |-> "partial", by |-> t]]
          /\ mixed' = IF SoleWriter(t) THEN mixed \ {sm[t]} ELSE mixed \cup {sm[t]}
          /\ settled' = settled \ {sm[t]}
      BY <1>1, <2>2 DEF BeginWrite, Moves, Writing
    <3>2. SoleWriter(t) <=> \A u \in Tasks \ {t} : pc[u] \in Writing => sm[u] # sm[t]
      BY DEF SoleWriter, Writing
    <3>3. ASSUME NEW s \in Sms, plan'[s].state = "partial"
          PROVE  /\ plan'[s].by \in Tasks /\ pc'[plan'[s].by] \in Writing
                 /\ sm[plan'[s].by] = s
      <4>1. CASE s = sm[t]
        BY <1>1, <3>1, <4>1
      <4>2. CASE s # sm[t]
        BY <1>1, <1>2, <2>1, <3>1, <3>3, <4>2
      <4>. QED
        BY <4>1, <4>2
    <3>4. ASSUME NEW u \in Tasks, pc'[u] \in Writing
          PROVE  /\ sm[u] \notin settled'
                 /\ sm[u] \notin mixed' => plan'[sm[u]].by \in {u, NoTask}
      <4>1. CASE u = t
        BY <1>1, <3>1, <4>1
      <4>2. CASE u # t /\ sm[u] = sm[t]
        BY <2>1, <3>1, <3>2, <3>4, <4>2
      <4>3. CASE u # t /\ sm[u] # sm[t]
        BY <1>1, <1>2, <2>1, <3>1, <3>4, <4>3
      <4>. QED
        BY <4>1, <4>2, <4>3
    <3>5. ASSUME NEW u \in Tasks, NEW v \in Tasks,
                 u # v, pc'[u] \in Writing, pc'[v] \in Writing, sm[u] = sm[v]
          PROVE  sm[u] \in mixed'
      <4>1. CASE sm[u] = sm[t]
        BY <2>1, <3>1, <3>2, <3>5, <4>1
      <4>2. CASE sm[u] # sm[t]
        BY <1>2, <2>1, <3>1, <3>5, <4>2
      <4>. QED
        BY <4>1, <4>2
    <3>. QED
      BY <2>1, <3>3, <3>4, <3>5 DEF WriterInv
  <2>3. CASE EndWrite(t)
    <3>1. /\ pc[t] \in Writing /\ pc'[t] \notin Writing
          /\ mixed' = mixed /\ settled' = settled
      BY <1>1, <2>3 DEF EndWrite, Moves, Writing, history
    <3>2. PICK written \in States :
            /\ plan' = [plan EXCEPT ![sm[t]].state = written]
            /\ written = "partial" => plan[sm[t]].by # t /\ plan[sm[t]].state = "partial"
      BY <1>1, <2>3 DEF EndWrite, States
    <3>3. ASSUME NEW s \in Sms
          PROVE  /\ plan'[s].by = plan[s].by
                 /\ plan'[s].state = "partial" =>
                      plan[s].state = "partial" /\ (s = sm[t] => plan[s].by # t)
      BY <1>1, <3>2
    <3>4. ASSUME NEW s \in Sms, plan'[s].state = "partial"
          PROVE  /\ plan'[s].by \in Tasks /\ pc'[plan'[s].by] \in Writing
                 /\ sm[plan'[s].by] = s
      <4>1. plan[s].state = "partial" /\ plan'[s].by = plan[s].by /\ plan[s].by # t
        BY <1>2, <3>3, <3>4
      <4>. QED
        BY <1>2, <2>1, <4>1
    <3>. QED
      BY <1>1, <1>2, <2>1, <3>1, <3>3, <3>4 DEF WriterInv
  <2>4. CASE Kill(t)
    <3>1. /\ pc'[t] \notin Writing /\ mixed' = mixed /\ settled' = settled
      BY <1>1, <2>4 DEF Kill, Moves, Writing, history
    <3>2. ASSUME NEW s \in Sms
          PROVE  /\ plan'[s].state = "partial" => plan'[s] = plan[s] /\ plan[s].by # t
                 /\ plan'[s].by \in {plan[s].by, NoTask}
      BY <1>1, <2>4 DEF Kill
    <3>3. ASSUME NEW s \in Sms, plan'[s].state = "partial"
          PROVE  /\ plan'[s].by \in Tasks /\ pc'[plan'[s].by] \in Writing
                 /\ sm[plan'[s].by] = s
      BY <1>2, <2>1, <3>2, <3>3
    <3>. QED
      BY <1>1, <1>2, <2>1, <3>1, <3>2, <3>3 DEF WriterInv
  <2>5. CASE ~BeginWrite(t) /\ ~EndWrite(t) /\ ~Kill(t)
    <3>1. /\ pc[t] \notin Writing /\ pc'[t] \notin Writing /\ mixed' = mixed
          /\ FsyncShape(t) \/ settled' = settled
          /\ \A s \in Sms : /\ plan'[s].state = "partial" => plan'[s] = plan[s]
                            /\ plan'[s].by \in {plan[s].by, NoTask}
      BY <1>3, <2>5, NoWrite
    <3>2. ASSUME NEW s \in Sms, plan'[s].state = "partial"
          PROVE  /\ plan'[s].by \in Tasks /\ pc'[plan'[s].by] \in Writing
                 /\ sm[plan'[s].by] = s
      BY <1>2, <2>1, <3>1, <3>2
    <3>3. ASSUME NEW u \in Tasks, pc[u] \in Writing
          PROVE  sm[u] \notin settled'
      <4>1. CASE settled' = settled
        BY <1>2, <3>3, <4>1
      <4>2. CASE FsyncShape(t)
        <5>1. \/ settled' = settled
              \/ /\ plan[sm[t]].by = t /\ sm[t] \notin mixed
                 /\ settled' = settled \cup {sm[t]}
          BY <4>2 DEF FsyncShape
        <5>2. sm[u] = sm[t] /\ sm[t] \notin mixed => plan[sm[t]].by \in {u, NoTask}
          BY <1>2, <3>3
        <5>3. u # t /\ t # NoTask
          BY <3>1, <3>3, CacheAssumption
        <5>. QED
          BY <1>2, <3>3, <5>1, <5>2, <5>3
      <4>. QED
        BY <3>1, <4>1, <4>2
    <3>. QED
      BY <1>1, <1>2, <2>1, <3>1, <3>2, <3>3 DEF WriterInv
  <2>. QED
    BY <2>2, <2>3, <2>4, <2>5
<1>4. ASSUME NEW x \in Sms, Writeback(x)
      PROVE  WriterInv'
  <2>1. UNCHANGED <<pc, sm, mixed, settled>>
    BY <1>4 DEF Writeback, config, history
  <2>2. ASSUME NEW s \in Sms
        PROVE  /\ plan'[s].by = plan[s].by
               /\ plan'[s].state = "partial" => plan[s].state = "partial"
    <3>1. Flushed(s)
      BY <1>4, WritebackFlushes
    <3>. QED
      BY <3>1 DEF Flushed
  <2>. QED
    BY <1>1, <1>2, <2>1, <2>2 DEF WriterInv
<1>5. CASE UNCHANGED vars
  BY <1>2, <1>5 DEF vars, config, history, WriterInv
<1>. QED
  BY <1>3, <1>4, <1>5 DEF Next

\* Every step keeps the spared plans whole, and the flushed ones durable.
LEMMA StepPlan ==
  ASSUME TypeOK, DeletedInv, WriterInv, PlanInv, [Next]_vars
  PROVE  PlanInv'
<1>1. /\ plan \in [Sms -> [state : States, by : Tasks \cup {NoTask}]]
      /\ sm \in [Tasks -> Sms] /\ pc \in [Tasks -> Pcs]
  BY DEF TypeOK, Pcs
<1>2. ASSUME NEW t \in Tasks, TaskStep(t), NEW s \in Sms, Spared(s)
      PROVE  /\ s \notin mixed' /\ plan'[s].by # NoTask => plan'[s].state \notin {"none", "torn"}
             /\ s \in settled' => plan'[s].state = "durable"
  <2>1. /\ s \notin mixed /\ plan[s].by # NoTask => plan[s].state \notin {"none", "torn"}
        /\ s \in settled => plan[s].state = "durable"
    BY <1>2 DEF PlanInv
  <2>2. CASE BeginWrite(t)
    <3>1. /\ plan' = [plan EXCEPT ![sm[t]] = [state |-> "partial", by |-> t]]
          /\ mixed' = mixed \ {sm[t]} \/ mixed' = mixed \cup {sm[t]}
          /\ settled' = settled \ {sm[t]}
      BY <2>2 DEF BeginWrite
    <3>2. CASE s = sm[t]
      BY <1>1, <3>1, <3>2
    <3>3. CASE s # sm[t]
      BY <1>1, <2>1, <3>1, <3>3
    <3>. QED
      BY <3>2, <3>3
  <2>3. CASE EndWrite(t)
    <3>1. /\ pc[t] \in Writing /\ mixed' = mixed /\ settled' = settled
      BY <1>1, <2>3 DEF EndWrite, Moves, Writing, history
    <3>2. PICK written \in States :
            /\ plan' = [plan EXCEPT ![sm[t]].state = written]
            /\ plan[sm[t]].by = t => written = "buffered"
      BY <1>1, <2>3 DEF EndWrite, States
    <3>3. sm[t] \notin settled /\ (sm[t] \notin mixed => plan[sm[t]].by \in {t, NoTask})
      BY <3>1 DEF WriterInv
    <3>4. CASE s = sm[t]
      <4>1. plan'[s].by = plan[s].by /\ (plan[s].by = t => plan'[s].state = "buffered")
        BY <1>1, <3>2, <3>4
      <4>. QED
        BY <3>1, <3>3, <3>4, <4>1
    <3>5. CASE s # sm[t]
      BY <1>1, <2>1, <3>1, <3>2, <3>5
    <3>. QED
      BY <3>4, <3>5
  <2>4. CASE Kill(t)
    <3>1. mixed' = mixed /\ settled' = settled
      BY <2>4 DEF Kill, history
    <3>2. /\ plan'[s].by # NoTask => plan'[s] = plan[s]
          /\ plan[s].state = "durable" => plan'[s].state = "durable"
      BY <1>1, <2>4 DEF Kill
    <3>. QED
      BY <2>1, <3>1, <3>2
  <2>5. CASE ~BeginWrite(t) /\ ~EndWrite(t) /\ ~Kill(t)
    <3>1. mixed' = mixed /\ (FsyncShape(t) \/ settled' = settled) /\ Flushed(s)
          /\ pc[t] \notin Writing
      BY <1>2, <2>5, NoWrite
    <3>2. /\ plan'[s].by = plan[s].by
          /\ plan'[s].state = plan[s].state \/ plan'[s].state = "durable"
      BY <3>1 DEF Flushed
    <3>3. CASE s \in settled \/ s \notin settled'
      BY <2>1, <3>1, <3>2, <3>3
    <3>4. CASE s \notin settled /\ s \in settled'
      <4>1. /\ s = sm[t] /\ plan[s].by = t /\ s \notin mixed
            /\ plan' = FsyncCacheDir(t)
        BY <3>1, <3>4 DEF FsyncShape, Flush
      <4>2. plan[s].state \notin {"none", "torn"}
        BY <2>1, <4>1, CacheAssumption
      <4>3. plan[s].state # "partial"
        BY <3>1, <4>1 DEF WriterInv
      <4>4. plan[s].state \in {"buffered", "durable"}
        BY <1>1, <4>2, <4>3 DEF States
      <4>5. plan[s] = [state |-> plan[s].state, by |-> t]
        BY <1>1, <4>1
      <4>6. plan'[s].state = "durable"
        <5>1. CASE plan[s].state = "buffered"
          BY <4>1, <4>5, <5>1 DEF FsyncCacheDir
        <5>2. CASE plan[s].state = "durable"
          BY <3>2, <5>2
        <5>. QED
          BY <4>4, <5>1, <5>2
      <4>. QED
        BY <4>6
    <3>. QED
      BY <3>3, <3>4
  <2>. QED
    BY <2>2, <2>3, <2>4, <2>5
<1>3. ASSUME NEW t \in Tasks, TaskStep(t)
      PROVE  PlanInv'
  <2>1. sm' = sm
    BY <1>3, Framed DEF config
  <2>. QED
    BY <1>2, <1>3, <2>1 DEF PlanInv, Spared
<1>4. ASSUME NEW x \in Sms, Writeback(x)
      PROVE  PlanInv'
  <2>1. UNCHANGED <<sm, mixed, settled>>
    BY <1>4 DEF Writeback, config, history
  <2>2. ASSUME NEW s \in Sms
        PROVE  /\ plan'[s].by = plan[s].by
               /\ plan'[s].state = plan[s].state \/ plan'[s].state = "durable"
    <3>1. Flushed(s)
      BY <1>4, WritebackFlushes
    <3>. QED
      BY <3>1 DEF Flushed
  <2>. QED
    BY <2>1, <2>2 DEF PlanInv, Spared
<1>5. CASE UNCHANGED vars
  BY <1>5 DEF vars, config, history, PlanInv, Spared
<1>. QED
  BY <1>3, <1>4, <1>5 DEF Next

\* A spared plan never disappears.
LEMMA PlanStays ==
  ASSUME TypeOK, DeletedInv, Next, NEW s \in Sms, Spared(s), plan'[s].state = "none"
  PROVE  plan[s].state = "none"
<1>1. plan \in [Sms -> [state : States, by : Tasks \cup {NoTask}]] /\ sm \in [Tasks -> Sms]
  BY DEF TypeOK
<1>2. ASSUME NEW t \in Tasks, TaskStep(t)
      PROVE  plan[s].state = "none"
  <2>1. CASE BeginWrite(t)
    BY <1>1, <2>1 DEF BeginWrite
  <2>2. CASE EndWrite(t)
    BY <1>1, <2>2 DEF EndWrite
  <2>3. CASE Kill(t)
    BY <1>1, <2>3 DEF Kill
  <2>4. CASE ~BeginWrite(t) /\ ~EndWrite(t) /\ ~Kill(t)
    <3>1. Flushed(s)
      BY <1>2, <2>4, NoWrite
    <3>. QED
      BY <3>1 DEF Flushed
  <2>. QED
    BY <2>1, <2>2, <2>3, <2>4
<1>3. ASSUME NEW x \in Sms, Writeback(x)
      PROVE  plan[s].state = "none"
  <2>1. Flushed(s)
    BY <1>3, WritebackFlushes
  <2>. QED
    BY <2>1 DEF Flushed
<1>. QED
  BY <1>2, <1>3 DEF Next

\* What was counted before the exit is there as long as nobody else deletes it.
LEMMA StepExit ==
  ASSUME TypeOK, DeletedInv, ExitZeroHonest, [Next]_vars
  PROVE  ExitZeroHonest'
<1>1. sm \in [Tasks -> Sms] /\ detected \in [Tasks -> Sms \cup {NoSm}] /\ pc \in [Tasks -> Pcs]
  BY DEF TypeOK, Pcs
<1>2. ASSUME NEW t \in Tasks, TaskStep(t), sm' = sm, NEW u \in Tasks,
             pc'[u] = "exit0", detected'[u] # NoSm, Spared(sm[u]),
             plan'[sm[u]].state = "none"
      PROVE  FALSE
  <2>1. plan[sm[u]].state = "none"
    BY <1>1, <1>2, PlanStays DEF Next
  <2>2. CASE u # t
    BY <1>2, <2>1, <2>2, Framed DEF ExitZeroHonest, Spared
  <2>3. CASE u = t
    <3>1. Count(t)
      BY <1>2, <2>3, Arrives
    <3>2. PICK d \in {sm[t], NoSm} :
            /\ detected' = [detected EXCEPT ![t] = d]
            /\ pc' = [pc EXCEPT ![t] = IF EngineFilesForSm(d) = {} THEN "failed" ELSE "exit0"]
      BY <3>1 DEF Count, Moves
    <3>3. d = sm[t] /\ EngineFilesForSm(d) # {}
      BY <1>1, <1>2, <2>3, <3>2
    <3>4. sm[t] # NoSm
      BY <1>1, CacheAssumption
    <3>. QED
      BY <2>1, <2>3, <3>3, <3>4 DEF EngineFilesForSm
  <2>. QED
    BY <2>2, <2>3
<1>3. ASSUME NEW t \in Tasks, TaskStep(t)
      PROVE  ExitZeroHonest'
  <2>1. sm' = sm
    BY <1>3, Framed DEF config
  <2>. QED
    BY <1>2, <1>3, <2>1 DEF ExitZeroHonest, Spared
<1>4. ASSUME NEW x \in Sms, Writeback(x)
      PROVE  ExitZeroHonest'
  <2>1. UNCHANGED <<sm, pc, detected>>
    BY <1>4 DEF Writeback, config
  <2>2. ASSUME NEW u \in Tasks, Spared(sm[u]), plan'[sm[u]].state = "none"
        PROVE  plan[sm[u]].state = "none"
    BY <1>1, <1>4, <2>2, PlanStays DEF Next
  <2>. QED
    BY <2>1, <2>2 DEF ExitZeroHonest, Spared
<1>5. CASE UNCHANGED vars
  BY <1>5 DEF vars, config, ExitZeroHonest
<1>. QED
  BY <1>3, <1>4, <1>5 DEF Next

-----------------------------------------------------------------------------
(* The theorems *)

\* An empty volume and no container up.
LEMMA InitCache == Init => CacheInv
<1> SUFFICES ASSUME Init
             PROVE  CacheInv
  OBVIOUS
<1>1. TypeOK
  BY CacheAssumption DEF Init, TypeOK, NoPlan, States, Ended
<1>2. LeftInv /\ DeletedInv
  BY DEF Init, LeftInv, DeletedInv
<1>3. WriterInv /\ PlanInv /\ ExitZeroHonest
  BY DEF Init, WriterInv, PlanInv, ExitZeroHonest, Writing, NoPlan
<1>. QED
  BY <1>1, <1>2, <1>3 DEF CacheInv

\* The inductive invariant, for every fleet on the volume.
THEOREM CacheInvariant == Spec => []CacheInv
<1>1. CacheInv /\ [Next]_vars => CacheInv'
  BY StepTyped, StepLeft, StepDeleted, StepWriter,
     StepPlan, StepExit DEF CacheInv
<1>. QED
  BY <1>1, InitCache, PTL DEF Spec

\* Types, and that no task counts more shapes than it runs (runner.rs).
THEOREM CacheTypeCorrect == Spec => []TypeOK
<1>1. CacheInv => TypeOK
  BY DEF CacheInv
<1>. QED
  BY <1>1, CacheInvariant, PTL

\* fsync_cache_dir after each compile, for any number of containers and
\* capabilities: a plan reported as flushed survives kills, sweeps and the GC of
\* its own capability.
THEOREM FlushedSurvives == Spec => []ReportedSurvives
<1>1. CacheInv => ReportedSurvives
  BY DEF CacheInv, TypeOK, PlanInv, ReportedSurvives, Spared
<1>. QED
  BY <1>1, CacheInvariant, PTL

\* The persistence postcondition of warmup_only, for any fleet: exit 0 leaves a
\* plan for the container's own GPU on the volume.
THEOREM ExitIsHonest == Spec => []ExitZeroHonest
<1>1. CacheInv => ExitZeroHonest
  BY DEF CacheInv
<1>. QED
  BY <1>1, CacheInvariant, PTL

=============================================================================
