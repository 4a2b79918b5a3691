------------------------- MODULE EngineCoverageProofs -------------------------
(***************************************************************************)
(* Proofs about EngineCoverage, for every number of workers and tiers and  *)
(* every place of the guard's threshold.                                   *)
(***************************************************************************)
EXTENDS EngineCoverage, WellFoundedInduction, TLAPS

-----------------------------------------------------------------------------
(* Tiers *)

\* A set of naturals that is not empty has a least one.
LEMMA LeastNatural ==
  ASSUME NEW T \in SUBSET Nat, T # {}
  PROVE  \E m \in T : \A j \in T : m <= j
<1>1. PICK m \in T : \A j \in T : ~(<<j, m>> \in OpToRel(<, Nat))
  BY NatLessThanWellFounded, WFMin
<1>2. ASSUME NEW j \in T
      PROVE  m <= j
  <2>1. <<j, m>> \in OpToRel(<, Nat) <=> j < m
    BY DEF OpToRel
  <2>2. ~(<<j, m>> \in OpToRel(<, Nat))
    BY <1>1
  <2>3. ~(j < m)
    BY <2>1, <2>2, Zenon
  <2>. QED
    BY <2>3
<1>. QED
  BY <1>2

\* A set of tiers that is not empty has a highest one.
LEMMA HighestTier ==
  ASSUME NEW S \in SUBSET Tiers, S # {}
  PROVE  \E t \in S : \A u \in S : u <= t
<1> DEFINE T == {MaxTier - t : t \in S}
<1>1. T \in SUBSET Nat
  BY CoverageAssumption DEF Tiers
<1>2. T # {}
  OBVIOUS
<1>3. PICK m \in T : \A j \in T : m <= j
  <2> HIDE DEF T
  <2>. QED
    BY <1>1, <1>2, LeastNatural
<1>4. PICK t \in S : m = MaxTier - t
  OBVIOUS
<1>5. ASSUME NEW u \in S
      PROVE  u <= t
  <2>1. m <= MaxTier - u
    BY <1>3
  <2>. QED
    BY <1>4, <2>1, CoverageAssumption DEF Tiers
<1>. QED
  BY <1>5

\* What Highest returns: None for no tier, else a member that bounds the others.
LEMMA HighestIs ==
  ASSUME NEW S \in SUBSET Tiers
  PROVE  /\ Highest(S) \in Tiers \cup {None}
         /\ S # {} => Highest(S) \in S
         /\ \A u \in S : u <= Highest(S)
<1>1. CASE S = {}
  BY <1>1 DEF Highest
<1>2. CASE S # {}
  BY <1>2, HighestTier DEF Highest
<1>. QED
  BY <1>1, <1>2

\* Higher is the greater of two tiers.
LEMMA HigherIs ==
  ASSUME NEW s \in Tiers \cup {None}, NEW t \in Tiers \cup {None}
  PROVE  /\ Higher(s, t) \in Tiers \cup {None}
         /\ s <= Higher(s, t) /\ t <= Higher(s, t)
         /\ Higher(s, t) \in {s, t}
  BY CoverageAssumption DEF Higher, Tiers, None

-----------------------------------------------------------------------------
(* The inductive invariant *)

\* A request in hand has a tier, the warm-up task remembers the one it fired
\* until it is answered, and at most one worker has the task's request.
TaskInv ==
  /\ task # "idle" => asked \in Tiers
  /\ \A w \in Workers :
       /\ pc[w] \in {"taken", "run"} => job[w] \in Tiers
       /\ warmup[w] => pc[w] = "taken" /\ task = "taken"
  /\ \A v, w \in Workers : warmup[v] /\ warmup[w] => v = w

\* Where the provider writes what it compiles, the plan on disk bounds all that
\* is known of the coverage: the ceiling, what each session has loaded, and the
\* dangerous tiers the guard has let through.
CoverInv ==
  persists =>
    /\ ceiling <= plan
    /\ \A w \in Workers :
         /\ profile[w] <= plan
         /\ pc[w] = "run" /\ job[w] >= GuardSeq => job[w] <= plan

CoverageInv == TypeOK /\ TaskInv /\ CoverInv

-----------------------------------------------------------------------------
(* The execution provider *)

\* Whatever was run, the plan on disk stays a tier or none.
LEMMA PlansTyped ==
  ASSUME TypeOK, NEW w \in Workers, NEW ran \in SUBSET Tiers,
         NEW p \in PlansAfter(w, ran)
  PROVE  p \in Tiers \cup {None}
<1> DEFINE compiled == {s \in ran : ~Covered(w, s)}
<1>1. compiled \in SUBSET Tiers
  OBVIOUS
<1>2. Highest(compiled) \in Tiers \cup {None}
  BY <1>1, HighestIs
<1>. QED
  BY <1>2 DEF PlansAfter, TypeOK

\* A provider that persists never shrinks the plan on disk, and afterwards the
\* plan covers all that was run.
LEMMA PlansGrow ==
  ASSUME TypeOK, NEW w \in Workers, persists, profile[w] <= plan,
         NEW ran \in SUBSET Tiers, NEW p \in PlansAfter(w, ran)
  PROVE  plan <= p /\ Highest(ran) <= p
<1> DEFINE compiled == {s \in ran : ~Covered(w, s)}
<1>1. /\ compiled \in SUBSET Tiers
      /\ p \in IF compiled = {} THEN {plan} ELSE {Highest(compiled)}
  BY DEF PlansAfter
<1>2. /\ \A s \in compiled : ~Covered(w, s) /\ s \in ran
      /\ \A s \in ran : s \notin compiled => Covered(w, s)
  OBVIOUS
<1> HIDE DEF compiled
<1>3. /\ plan \in Nat /\ profile[w] \in Nat
      /\ \A s \in Tiers : s \in Nat
  BY CoverageAssumption DEF TypeOK, Tiers, None
<1>4. /\ Highest(ran) \in Tiers \cup {None}
      /\ ran # {} => Highest(ran) \in ran
      /\ ran = {} => Highest(ran) = 0
  BY HighestIs DEF Highest, None
<1>5. /\ compiled # {} => Highest(compiled) \in compiled
      /\ \A u \in compiled : u <= Highest(compiled)
  BY <1>1, HighestIs
<1>6. \A s \in compiled : s > plan
  BY <1>1, <1>2, <1>3 DEF Covered
<1>7. \A s \in ran : s \notin compiled => s <= plan
  BY <1>2, <1>3 DEF Covered
<1>8. CASE compiled = {}
  BY <1>1, <1>3, <1>4, <1>7, <1>8
<1>9. CASE compiled # {}
  <2>1. p = Highest(compiled) /\ p \in compiled /\ p \in Nat
    BY <1>1, <1>3, <1>5, <1>9
  <2>2. plan < p
    BY <1>3, <1>6, <2>1
  <2>3. ASSUME ran # {}
        PROVE  Highest(ran) <= p
    <3>1. Highest(ran) \in ran /\ Highest(ran) \in Nat
      BY <1>3, <1>4, <2>3
    <3>2. CASE Highest(ran) \in compiled
      BY <1>5, <2>1, <3>2
    <3>3. CASE Highest(ran) \notin compiled
      BY <1>3, <1>7, <2>1, <2>2, <3>1, <3>3
    <3>. QED
      BY <3>2, <3>3
  <2>. QED
    BY <1>3, <1>4, <2>1, <2>2, <2>3
<1>. QED
  BY <1>8, <1>9

\* A run of one tier leaves the plan and the sessions typed.
LEMMA RanTyped ==
  ASSUME TypeOK, NEW w \in Workers, NEW ran \in SUBSET Tiers, Ran(w, ran)
  PROVE  /\ plan' \in Tiers \cup {None}
         /\ profile' \in [Workers -> Tiers \cup {None}]
<1>1. plan' \in Tiers \cup {None}
  BY PlansTyped DEF Ran
<1>2. Highest(ran) \in Tiers \cup {None}
  BY HighestIs
<1>3. profile[w] \in Tiers \cup {None} /\ profile \in [Workers -> Tiers \cup {None}]
  BY DEF TypeOK
<1>4. Higher(profile[w], Highest(ran)) \in Tiers \cup {None}
  BY <1>2, <1>3, HigherIs
<1>. QED
  BY <1>1, <1>3, <1>4 DEF Ran

\* What a single tier warmed adds to the ceiling.
LEMMA CeilingTyped ==
  ASSUME TypeOK, NEW ran \in SUBSET Tiers, NEW S
  PROVE  Higher(ceiling, MaxWarmedSeq(S, ran)) \in Tiers \cup {None}
<1>1. Highest(ran) \in Tiers \cup {None}
  BY HighestIs
<1>2. ceiling \in Tiers \cup {None}
  BY DEF TypeOK
<1>. QED
  BY <1>1, <1>2, HigherIs DEF MaxWarmedSeq

\* A broadcast keeps each receiver's backlog within the channel's capacity.
LEMMA DeliverTyped ==
  ASSUME TypeOK, NEW s \in Tiers
  PROVE  /\ Deliver(s) \in [Workers -> Seq(Tiers)]
         /\ \A w \in Workers : Len(Deliver(s)[w]) <= PropCapacity
<1>1. ASSUME NEW w \in Workers
      PROVE  /\ Deliver(s)[w] \in Seq(Tiers)
             /\ Len(Deliver(s)[w]) <= PropCapacity
  <2>1. /\ inbox[w] \in Seq(Tiers) /\ Len(inbox[w]) <= PropCapacity
        /\ PropCapacity \in Nat \ {0}
    BY CoverageAssumption DEF TypeOK
  <2>2. CASE ~Subscribed(w)
    BY <2>1, <2>2 DEF Deliver
  <2>3. CASE Subscribed(w) /\ Len(inbox[w]) < PropCapacity
    <3>1. Deliver(s)[w] = Append(inbox[w], s)
      BY <2>3 DEF Deliver
    <3>. QED
      BY <2>1, <2>3, <3>1
  <2>4. CASE Subscribed(w) /\ ~(Len(inbox[w]) < PropCapacity)
    <3>1. Deliver(s)[w] = Append(Tail(inbox[w]), s)
      BY <2>4 DEF Deliver
    <3>2. /\ inbox[w] # <<>>
          /\ Tail(inbox[w]) \in Seq(Tiers) /\ Len(Tail(inbox[w])) = Len(inbox[w]) - 1
      BY <2>1, <2>4
    <3>. QED
      BY <2>1, <3>1, <3>2
  <2>. QED
    BY <2>2, <2>3, <2>4
<1>2. Deliver(s) \in [Workers -> Seq(Tiers)]
  BY <1>1 DEF Deliver
<1>. QED
  BY <1>1, <1>2

-----------------------------------------------------------------------------
(* Types *)

\* A process that has just started is typed, whatever the plan it finds.
LEMMA DieTyped ==
  ASSUME TypeOK, Die, plan' \in Tiers \cup {None}
  PROVE  TypeOK'
<1>1. /\ strict' \in BOOLEAN /\ persists' \in BOOLEAN
      /\ ceiling' \in Tiers \cup {None}
      /\ suspects' \subseteq Tiers
      /\ task' \in {"idle", "sent", "taken", "acked"}
      /\ asked' \in Tiers \cup {None}
  BY DEF TypeOK, Die, config
<1>2. /\ pc' \in [Workers -> {"unspawned", "top", "recv", "taken", "run", "exited"}]
      /\ session' \in [Workers -> BOOLEAN]
      /\ profile' \in [Workers -> Tiers \cup {None}]
      /\ job' \in [Workers -> Tiers \cup {None}]
      /\ warmup' \in [Workers -> BOOLEAN]
  BY DEF Die
<1>3. /\ warmedLocal' \in [Workers -> SUBSET Tiers]
      /\ inbox' \in [Workers -> Seq(Tiers)]
      /\ \A w \in Workers : Len(inbox'[w]) <= PropCapacity
  BY CoverageAssumption DEF Die
<1>. QED
  BY <1>1, <1>2, <1>3 DEF TypeOK

\* The shapes a worker's prewarm succeeds with are tiers.
LEMMA ShardTyped ==
  ASSUME NEW w \in Workers
  PROVE  /\ ShardShapes(w) \in SUBSET Tiers
         /\ CoverageCheckShapes(ShardShapes(w)) \in SUBSET ShardShapes(w)
<1> DEFINE S == ShardShapes(w)
<1>1. S \in SUBSET Tiers
  BY DEF ShardShapes
<1>2. ASSUME S # {}
      PROVE  Highest(S) \in S /\ Lowest(S) \in S
  <2>1. S \in SUBSET Nat
    BY <1>1, CoverageAssumption DEF Tiers
  <2> HIDE DEF S
  <2>2. \E t \in S : \A u \in S : t <= u
    BY <1>2, <2>1, LeastNatural
  <2>3. Lowest(S) \in S
    BY <2>2 DEF Lowest
  <2>4. Highest(S) \in S
    BY <1>1, <1>2, HighestIs
  <2>. QED
    BY <2>3, <2>4
<1>. QED
  BY <1>1, <1>2 DEF CoverageCheckShapes

\* The start-up of a worker: what it has warmed is a set of tiers.
LEMMA StartupTyped ==
  ASSUME TypeOK, NEW w \in Workers, StartupWorker(w)
  PROVE  TypeOK'
<1>1. PICK failed \in SUBSET ShardShapes(w), fast \in SUBSET ShardShapes(w) :
        StartupWorker(w)!3!(failed, fast)
  BY DEF StartupWorker
<1> DEFINE shapes      == ShardShapes(w)
           checks      == IF plan = None THEN {} ELSE CoverageCheckShapes(shapes)
           fullyCached == checks # {} /\ checks \subseteq fast \ failed
           warmed      == (IF fullyCached THEN checks ELSE shapes) \ failed
<1>2. warmed \in SUBSET Tiers
  BY ShardTyped
<1>3. /\ plan' \in PlansAfter(w, warmed)
      /\ \/ Die
         \/ /\ ceiling' = Higher(ceiling, MaxWarmedSeq(shapes, warmed))
            /\ profile' = [profile EXCEPT ![w] = Highest(warmed)]
            /\ session' = [session EXCEPT ![w] = TRUE]
            /\ pc' = [pc EXCEPT ![w] = "top"]
            /\ UNCHANGED <<config, job, warmup, warmedLocal, inbox, taskVars>>
  BY <1>1
<1> HIDE DEF warmed, shapes
<1>4. plan' \in Tiers \cup {None}
  BY <1>2, <1>3, PlansTyped
<1>5. CASE Die
  BY <1>4, <1>5, DieTyped
<1>6. ASSUME ceiling' = Higher(ceiling, MaxWarmedSeq(shapes, warmed)),
             profile' = [profile EXCEPT ![w] = Highest(warmed)],
             session' = [session EXCEPT ![w] = TRUE],
             pc' = [pc EXCEPT ![w] = "top"],
             UNCHANGED <<config, job, warmup, warmedLocal, inbox, taskVars>>
      PROVE  TypeOK'
  <2>1. ceiling' \in Tiers \cup {None}
    BY <1>2, <1>6, CeilingTyped
  <2>2. Highest(warmed) \in Tiers \cup {None}
    BY <1>2, HighestIs
  <2>. QED
    BY <1>4, <1>6, <2>1, <2>2 DEF TypeOK, config, taskVars
<1>. QED
  BY <1>3, <1>5, <1>6

\* Every step keeps the types.
LEMMA StepTyped ==
  ASSUME CoverageInv, Next
  PROVE  TypeOK'
<1> USE DEF config, taskVars, workerVars
<1>1. TypeOK /\ TaskInv
  BY DEF CoverageInv
<1>2. \A w \in Workers : pc[w] \in {"taken", "run"} =>
        job[w] \in Tiers /\ {job[w]} \in SUBSET Tiers
  BY <1>1 DEF TaskInv
<1>3. ASSUME NEW w \in Workers, StartupWorker(w)
      PROVE  TypeOK'
  BY <1>1, <1>3, StartupTyped
<1>4. ASSUME NEW w \in Workers, Drain(w)
      PROVE  TypeOK'
  <2> DEFINE s == Head(inbox[w])
  <2>1. /\ inbox[w] \in Seq(Tiers) /\ inbox[w] # <<>>
        /\ Len(inbox[w]) <= PropCapacity /\ PropCapacity \in Nat
    BY <1>1, <1>4, CoverageAssumption DEF TypeOK, Drain
  <2>2. /\ s \in Tiers /\ {s} \in SUBSET Tiers
        /\ Tail(inbox[w]) \in Seq(Tiers) /\ Len(Tail(inbox[w])) <= PropCapacity
    BY <2>1
  <2>3. /\ inbox' = [inbox EXCEPT ![w] = Tail(@)]
        /\ warmedLocal' = [warmedLocal EXCEPT ![w] = @ \cup {s}]
        /\ UNCHANGED <<config, pc, session, job, warmup, taskVars>>
        /\ \/ Ran(w, {s}) /\ ceiling' = Higher(ceiling, MaxWarmedSeq({s}, {s}))
           \/ UNCHANGED <<plan, ceiling, profile>>
    BY <1>4 DEF Drain
  <2> HIDE DEF s
  <2>4. /\ plan' \in Tiers \cup {None}
        /\ profile' \in [Workers -> Tiers \cup {None}]
        /\ ceiling' \in Tiers \cup {None}
    <3>1. CASE Ran(w, {s}) /\ ceiling' = Higher(ceiling, MaxWarmedSeq({s}, {s}))
      BY <1>1, <2>2, <3>1, RanTyped, CeilingTyped
    <3>2. CASE UNCHANGED <<plan, ceiling, profile>>
      BY <1>1, <3>2 DEF TypeOK
    <3>. QED
      BY <2>3, <3>1, <3>2
  <2>. QED
    BY <1>1, <2>2, <2>3, <2>4 DEF TypeOK
<1>5. ASSUME NEW w \in Workers, Wait(w) \/ Run(w) \/ IdleUnload(w)
      PROVE  TypeOK'
  BY <1>1, <1>5 DEF TypeOK, Wait, Run, IdleUnload
<1>6. ASSUME NEW w \in Workers, NEW s \in Tiers, Take(w, s)
      PROVE  TypeOK'
  BY <1>1, <1>6 DEF TypeOK, Take
<1>7. ASSUME NEW w \in Workers, TakeWarmup(w)
      PROVE  TypeOK'
  BY <1>1, <1>7 DEF TypeOK, TakeWarmup
<1>8. ASSUME NEW w \in Workers, Reload(w) \/ Refuse(w)
      PROVE  TypeOK'
  BY <1>1, <1>8 DEF TypeOK, Reload, Refuse, Answered, TaskDone
<1>9. ASSUME NEW w \in Workers, RunOk(w)
      PROVE  TypeOK'
  <2>1. job[w] \in Tiers /\ {job[w]} \in SUBSET Tiers
    BY <1>2, <1>9 DEF RunOk
  <2>2. /\ plan' \in Tiers \cup {None}
        /\ profile' \in [Workers -> Tiers \cup {None}]
    BY <1>1, <1>9, <2>1, RanTyped DEF RunOk
  <2>3. /\ Deliver(job[w]) \in [Workers -> Seq(Tiers)]
        /\ \A v \in Workers : Len(Deliver(job[w])[v]) <= PropCapacity
    BY <1>1, <2>1, DeliverTyped
  <2>4. /\ inbox' \in [Workers -> Seq(Tiers)]
        /\ \A v \in Workers : Len(inbox'[v]) <= PropCapacity
        /\ suspects' \subseteq Tiers
        /\ warmedLocal' \in [Workers -> SUBSET Tiers]
    <3>1. CASE UNCHANGED <<suspects, inbox, warmedLocal>>
      BY <1>1, <3>1 DEF TypeOK
    <3>2. CASE /\ suspects' \in {suspects, suspects \cup {job[w]}}
               /\ inbox' = Deliver(job[w])
               /\ warmedLocal' = [warmedLocal EXCEPT ![w] = @ \cup {job[w]}]
      <4>1. suspects' \subseteq Tiers /\ warmedLocal' \in [Workers -> SUBSET Tiers]
        BY <1>1, <2>1, <3>2 DEF TypeOK
      <4>. QED
        BY <2>3, <3>2, <4>1
    <3>. QED
      BY <1>9, <3>1, <3>2 DEF RunOk
  <2>. QED
    BY <1>1, <1>9, <2>2, <2>4 DEF TypeOK, RunOk, Answered
<1>10. ASSUME NEW w \in Workers, RunErr(w)
       PROVE  TypeOK'
  <2>1. {job[w]} \in SUBSET Tiers
    BY <1>2, <1>10 DEF RunErr
  <2>2. /\ plan' \in Tiers \cup {None}
        /\ profile' \in [Workers -> Tiers \cup {None}]
        /\ session' \in [Workers -> BOOLEAN]
    <3>1. CASE Ran(w, {job[w]}) /\ UNCHANGED session
      BY <1>1, <2>1, <3>1, RanTyped DEF TypeOK
    <3>2. CASE UNCHANGED <<plan, session, profile>>
      BY <1>1, <3>2 DEF TypeOK
    <3>3. CASE /\ plan' \in {plan} \cup PlansAfter(w, {job[w]})
               /\ session' = [session EXCEPT ![w] = FALSE]
               /\ profile' = [profile EXCEPT ![w] = None]
      <4>1. plan' \in Tiers \cup {None}
        BY <1>1, <2>1, <3>3, PlansTyped DEF TypeOK
      <4>. QED
        BY <1>1, <3>3, <4>1 DEF TypeOK
    <3>. QED
      BY <1>10, <3>1, <3>2, <3>3 DEF RunErr
  <2>. QED
    BY <1>1, <1>10, <2>2 DEF TypeOK, RunErr, Answered
<1>11. ASSUME NEW w \in Workers, RunFatal(w)
       PROVE  TypeOK'
  BY <1>1, <1>11, CoverageAssumption DEF TypeOK, RunFatal
<1>12. ASSUME NEW w \in Workers, Warm(w)
       PROVE  TypeOK'
  <2>1. {job[w]} \in SUBSET Tiers
    BY <1>2, <1>12 DEF Warm
  <2>2. /\ plan' \in Tiers \cup {None}
        /\ profile' \in [Workers -> Tiers \cup {None}]
        /\ ceiling' \in Tiers \cup {None}
    <3>1. CASE /\ Ran(w, {job[w]})
               /\ ceiling' = Higher(ceiling, MaxWarmedSeq({job[w]}, {job[w]}))
      BY <1>1, <2>1, <3>1, RanTyped, CeilingTyped
    <3>2. CASE UNCHANGED <<plan, ceiling, profile>>
      BY <1>1, <3>2 DEF TypeOK
    <3>. QED
      BY <1>12, <3>1, <3>2 DEF Warm
  <2>. QED
    BY <1>1, <1>12, <2>2 DEF TypeOK, Warm, Answered, TaskDone
<1>13. ASSUME NEW s \in Tiers, Fire(s)
       PROVE  TypeOK'
  BY <1>1, <1>13 DEF TypeOK, Fire
<1>14. CASE BroadcastReady
  <2>1. asked \in Tiers
    BY <1>1, <1>14 DEF TaskInv, BroadcastReady
  <2>2. /\ inbox' \in [Workers -> Seq(Tiers)]
        /\ \A w \in Workers : Len(inbox'[w]) <= PropCapacity
    <3>1. /\ Deliver(asked) \in [Workers -> Seq(Tiers)]
          /\ \A w \in Workers : Len(Deliver(asked)[w]) <= PropCapacity
      BY <1>1, <2>1, DeliverTyped
    <3>2. inbox' = Deliver(asked) \/ inbox' = inbox
      BY <1>14 DEF BroadcastReady
    <3>. QED
      BY <1>1, <3>1, <3>2 DEF TypeOK
  <2>. QED
    BY <1>1, <1>14, <2>2 DEF TypeOK, BroadcastReady, TaskDone
<1>15. CASE Crash
  BY <1>1, <1>15, DieTyped DEF TypeOK, Crash
<1>. QED
  BY <1>3, <1>4, <1>5, <1>6, <1>7, <1>8, <1>9, <1>10, <1>11, <1>12, <1>13, <1>14,
     <1>15
     DEF Next, WorkerStep

-----------------------------------------------------------------------------
(* The warm-up task *)

\* Every step keeps the task's bookkeeping: its request is in one hand at most,
\* and it is the hand that answers which lets the task forget what it asked for.
LEMMA StepTask ==
  ASSUME CoverageInv, Next
  PROVE  TaskInv'
<1> USE DEF config, taskVars, workerVars
<1>1. TypeOK /\ TaskInv
  BY DEF CoverageInv
<1>2. CASE Die
  BY <1>2 DEF TaskInv, Die
<1>3. ASSUME NEW w \in Workers, StartupWorker(w)
      PROVE  TaskInv'
  <2>1. \/ Die
        \/ /\ pc[w] = "unspawned"
           /\ pc' = [pc EXCEPT ![w] = "top"]
           /\ UNCHANGED <<job, warmup, taskVars>>
    BY <1>3 DEF StartupWorker
  <2>. QED
    BY <1>1, <1>2, <2>1 DEF TypeOK, TaskInv
<1>4. ASSUME NEW w \in Workers, Drain(w) \/ Wait(w) \/ Run(w) \/ IdleUnload(w)
      PROVE  TaskInv'
  BY <1>1, <1>4 DEF TypeOK, TaskInv, Drain, Wait, Run, IdleUnload
<1>5. ASSUME NEW w \in Workers, NEW s \in Tiers, Take(w, s)
      PROVE  TaskInv'
  BY <1>1, <1>5 DEF TypeOK, TaskInv, Take
<1>6. ASSUME NEW w \in Workers, TakeWarmup(w)
      PROVE  TaskInv'
  BY <1>1, <1>6 DEF TypeOK, TaskInv, TakeWarmup
<1>7. ASSUME NEW w \in Workers, Reload(w)
      PROVE  TaskInv'
  <2>1. CASE UNCHANGED <<pc, job, warmup, taskVars>>
    BY <1>1, <2>1 DEF TaskInv
  <2>2. CASE Answered(w) /\ warmup[w] /\ TaskDone
    BY <1>1, <2>2 DEF TypeOK, TaskInv, Answered, TaskDone
  <2>3. CASE Answered(w) /\ ~warmup[w] /\ UNCHANGED taskVars
    BY <1>1, <2>3 DEF TypeOK, TaskInv, Answered
  <2>. QED
    BY <1>7, <2>1, <2>2, <2>3 DEF Reload
<1>8. ASSUME NEW w \in Workers, Refuse(w) \/ RunOk(w) \/ RunErr(w)
      PROVE  TaskInv'
  BY <1>1, <1>8 DEF TypeOK, TaskInv, Refuse, RunOk, RunErr, Answered
<1>9. ASSUME NEW w \in Workers, RunFatal(w)
      PROVE  TaskInv'
  BY <1>1, <1>9 DEF TypeOK, TaskInv, RunFatal
<1>10. ASSUME NEW w \in Workers, Warm(w)
       PROVE  TaskInv'
  BY <1>1, <1>10 DEF TypeOK, TaskInv, Warm, Answered, TaskDone
<1>11. ASSUME NEW s \in Tiers, Fire(s)
       PROVE  TaskInv'
  BY <1>1, <1>11 DEF TypeOK, TaskInv, Fire
<1>12. CASE BroadcastReady
  BY <1>1, <1>12 DEF TypeOK, TaskInv, BroadcastReady, TaskDone
<1>13. CASE Crash
  BY <1>2, <1>13 DEF Crash
<1>. QED
  BY <1>3, <1>4, <1>5, <1>6, <1>7, <1>8, <1>9, <1>10, <1>11, <1>12, <1>13
     DEF Next, WorkerStep

-----------------------------------------------------------------------------
(* Coverage *)

\* The plan only grows and the ceiling and one worker's session follow it: what
\* the invariant says of the other workers survives.
LEMMA CoverKept ==
  ASSUME CoverageInv, NEW w \in Workers, UNCHANGED persists,
         TypeOK',
         persists => /\ plan <= plan'
                     /\ ceiling' <= plan'
                     /\ profile'[w] <= plan'
                     /\ pc'[w] = "run" /\ job'[w] >= GuardSeq => job'[w] <= plan',
         \A v \in Workers \ {w} :
            pc'[v] = pc[v] /\ job'[v] = job[v] /\ profile'[v] = profile[v]
  PROVE  CoverInv'
<1>1. SUFFICES ASSUME persists', NEW v \in Workers, v # w
               PROVE  /\ profile'[v] <= plan'
                      /\ pc'[v] = "run" /\ job'[v] >= GuardSeq => job'[v] <= plan'
  BY DEF CoverInv
<1>2. /\ plan \in Nat /\ plan' \in Nat /\ profile[v] \in Nat /\ job[v] \in Nat
  BY CoverageAssumption DEF CoverageInv, TypeOK, Tiers, None
<1>3. /\ plan <= plan' /\ profile[v] <= plan
      /\ pc[v] = "run" /\ job[v] >= GuardSeq => job[v] <= plan
  BY <1>1 DEF CoverageInv, CoverInv
<1>. QED
  BY <1>1, <1>2, <1>3, CoverageAssumption

\* A run where the provider persists: the plan grows to cover what was run, and
\* with it the session and the ceiling raised by the run.
LEMMA RanCovers ==
  ASSUME CoverageInv, persists, NEW w \in Workers, NEW ran \in SUBSET Tiers,
         plan' \in PlansAfter(w, ran), NEW S
  PROVE  /\ plan <= plan'
         /\ Highest(ran) <= plan'
         /\ Higher(profile[w], Highest(ran)) <= plan'
         /\ Higher(ceiling, MaxWarmedSeq(S, ran)) <= plan'
<1>1. TypeOK /\ profile[w] <= plan /\ ceiling <= plan
  BY DEF CoverageInv, CoverInv
<1>2. plan <= plan' /\ Highest(ran) <= plan'
  BY <1>1, PlansGrow
<1>3. Highest(ran) \in Tiers \cup {None} /\ plan' \in Tiers \cup {None}
  BY <1>1, HighestIs, PlansTyped
<1>4. /\ plan \in Nat /\ plan' \in Nat /\ profile[w] \in Nat /\ ceiling \in Nat
      /\ Highest(ran) \in Nat
  BY <1>1, <1>3, CoverageAssumption DEF TypeOK, Tiers, None
<1>. QED
  BY <1>1, <1>2, <1>4 DEF Higher, MaxWarmedSeq

\* A new process has loaded nothing, and the plan it finds covers at least that.
LEMMA DieCovers ==
  ASSUME Die, TypeOK'
  PROVE  CoverInv'
<1>1. plan' \in Nat /\ plan' >= 0
  BY CoverageAssumption DEF TypeOK, Tiers, None
<1>. QED
  BY <1>1 DEF CoverInv, Die, None

\* Every step keeps the plan on disk ahead of all that is known of the coverage.
LEMMA StepCover ==
  ASSUME CoverageInv, Next
  PROVE  CoverInv'
<1> USE DEF config, taskVars, workerVars
<1>1. TypeOK /\ TaskInv /\ CoverInv /\ TypeOK'
  BY StepTyped DEF CoverageInv
<1>2. /\ plan \in Nat /\ plan' \in Nat /\ ceiling \in Nat /\ GuardSeq \in Nat
      /\ \A w \in Workers : job[w] \in Nat /\ profile[w] \in Nat
  BY <1>1, CoverageAssumption DEF TypeOK, Tiers, None
<1>3. \A w \in Workers : pc[w] \in {"taken", "run"} => {job[w]} \in SUBSET Tiers
  BY <1>1 DEF TaskInv
<1>4. ASSUME NEW w \in Workers, StartupWorker(w)
      PROVE  CoverInv'
  <2>1. PICK failed \in SUBSET ShardShapes(w), fast \in SUBSET ShardShapes(w) :
          StartupWorker(w)!3!(failed, fast)
    BY <1>4 DEF StartupWorker
  <2> DEFINE shapes      == ShardShapes(w)
             checks      == IF plan = None THEN {} ELSE CoverageCheckShapes(shapes)
             fullyCached == checks # {} /\ checks \subseteq fast \ failed
             warmed      == (IF fullyCached THEN checks ELSE shapes) \ failed
  <2>2. warmed \in SUBSET Tiers
    BY ShardTyped
  <2>3. /\ plan' \in PlansAfter(w, warmed)
        /\ \/ Die
           \/ /\ ceiling' = Higher(ceiling, MaxWarmedSeq(shapes, warmed))
              /\ profile' = [profile EXCEPT ![w] = Highest(warmed)]
              /\ pc' = [pc EXCEPT ![w] = "top"]
              /\ UNCHANGED <<config, job>>
    BY <2>1
  <2> HIDE DEF warmed, shapes
  <2>4. CASE Die
    BY <1>1, <2>4, DieCovers
  <2>5. ASSUME ceiling' = Higher(ceiling, MaxWarmedSeq(shapes, warmed)),
               profile' = [profile EXCEPT ![w] = Highest(warmed)],
               pc' = [pc EXCEPT ![w] = "top"],
               UNCHANGED <<config, job>>
        PROVE  CoverInv'
    <3>1. profile'[w] = Highest(warmed) /\ pc'[w] = "top"
      BY <1>1, <2>5 DEF TypeOK
    <3>2. persists => plan <= plan' /\ Highest(warmed) <= plan' /\ ceiling' <= plan'
      BY <2>2, <2>3, <2>5, RanCovers
    <3>3. \A v \in Workers \ {w} :
             pc'[v] = pc[v] /\ job'[v] = job[v] /\ profile'[v] = profile[v]
      BY <1>1, <2>5 DEF TypeOK
    <3>. QED
      BY <1>1, <2>5, <3>1, <3>2, <3>3, CoverKept
  <2>. QED
    BY <2>3, <2>4, <2>5
<1>5. ASSUME NEW w \in Workers, Drain(w)
      PROVE  CoverInv'
  <2> DEFINE s == Head(inbox[w])
  <2>1. {s} \in SUBSET Tiers
    BY <1>1, <1>5 DEF TypeOK, Drain
  <2>2. /\ pc[w] = "top" /\ UNCHANGED <<config, pc, job>>
        /\ \/ Ran(w, {s}) /\ ceiling' = Higher(ceiling, MaxWarmedSeq({s}, {s}))
           \/ UNCHANGED <<plan, ceiling, profile>>
    BY <1>5 DEF Drain
  <2> HIDE DEF s
  <2>3. CASE Ran(w, {s}) /\ ceiling' = Higher(ceiling, MaxWarmedSeq({s}, {s}))
    <3>1. persists => plan <= plan' /\ profile'[w] <= plan' /\ ceiling' <= plan'
      BY <1>1, <2>1, <2>3, RanCovers DEF Ran, TypeOK
    <3>2. \A v \in Workers \ {w} : profile'[v] = profile[v]
      BY <1>1, <2>3 DEF Ran, TypeOK
    <3>. QED
      BY <1>1, <2>2, <3>1, <3>2, CoverKept
  <2>4. CASE UNCHANGED <<plan, ceiling, profile>>
    BY <1>1, <2>2, <2>4 DEF CoverInv
  <2>. QED
    BY <2>2, <2>3, <2>4
<1>6. ASSUME NEW w \in Workers,
             Wait(w) \/ TakeWarmup(w) \/ Reload(w) \/ Refuse(w) \/ RunFatal(w)
             \/ IdleUnload(w)
      PROVE  CoverInv'
  <2>1. /\ UNCHANGED <<persists, plan, ceiling>>
        /\ pc'[w] # "run"
        /\ profile'[w] \in {profile[w], None}
        /\ \A v \in Workers \ {w} :
             pc'[v] = pc[v] /\ job'[v] = job[v] /\ profile'[v] = profile[v]
    BY <1>1, <1>6
       DEF TypeOK, Wait, TakeWarmup, Reload, Refuse, RunFatal, IdleUnload, Answered
  <2>2. persists => ceiling' <= plan' /\ profile'[w] <= plan'
    BY <1>1, <1>2, <2>1 DEF CoverInv, None
  <2>. QED
    BY <1>1, <1>2, <2>1, <2>2, CoverKept
<1>7. ASSUME NEW w \in Workers, Run(w)
      PROVE  CoverInv'
  <2>1. /\ Admit(job[w], ceiling)
        /\ UNCHANGED <<persists, plan, ceiling, job, profile>>
        /\ \A v \in Workers \ {w} : pc'[v] = pc[v]
    BY <1>1, <1>7 DEF TypeOK, Run
  <2>2. persists /\ job[w] >= GuardSeq => job[w] <= plan
    BY <1>1, <1>2, <2>1 DEF Admit, CoverInv
  <2>3. persists => ceiling <= plan /\ profile[w] <= plan
    BY <1>1 DEF CoverInv
  <2>. QED
    BY <1>1, <1>2, <2>1, <2>2, <2>3, CoverKept
<1>8. ASSUME NEW w \in Workers, RunOk(w) \/ RunErr(w)
      PROVE  CoverInv'
  <2>1. /\ {job[w]} \in SUBSET Tiers
        /\ pc'[w] = "top"
        /\ UNCHANGED <<persists, ceiling>>
        /\ \A v \in Workers \ {w} : pc'[v] = pc[v] /\ job'[v] = job[v]
    BY <1>1, <1>3, <1>8 DEF TypeOK, RunOk, RunErr, Answered
  <2>2. \/ Ran(w, {job[w]})
        \/ UNCHANGED <<plan, profile>>
        \/ /\ plan' \in {plan} \cup PlansAfter(w, {job[w]})
           /\ profile' = [profile EXCEPT ![w] = None]
    BY <1>8 DEF RunOk, RunErr
  <2>3. /\ persists => plan <= plan' /\ profile'[w] <= plan'
        /\ \A v \in Workers \ {w} : profile'[v] = profile[v]
    <3>1. CASE Ran(w, {job[w]})
      <4>1. persists => plan <= plan' /\ Higher(profile[w], Highest({job[w]})) <= plan'
        BY <2>1, <3>1, RanCovers DEF Ran
      <4>. QED
        BY <1>1, <3>1, <4>1 DEF Ran, TypeOK
    <3>2. CASE UNCHANGED <<plan, profile>>
      BY <1>1, <1>2, <3>2 DEF CoverInv
    <3>3. CASE /\ plan' \in {plan} \cup PlansAfter(w, {job[w]})
               /\ profile' = [profile EXCEPT ![w] = None]
      <4>1. persists => plan <= plan'
        BY <1>2, <2>1, <3>3, RanCovers
      <4>2. profile'[w] = 0 /\ \A v \in Workers \ {w} : profile'[v] = profile[v]
        BY <1>1, <3>3 DEF TypeOK, None
      <4>. QED
        BY <1>2, <4>1, <4>2
    <3>. QED
      BY <2>2, <3>1, <3>2, <3>3
  <2>4. persists => ceiling' <= plan'
    BY <1>1, <1>2, <2>1, <2>3 DEF CoverInv
  <2>. QED
    BY <1>1, <2>1, <2>3, <2>4, CoverKept
<1>9. ASSUME NEW w \in Workers, Warm(w)
      PROVE  CoverInv'
  <2>1. /\ {job[w]} \in SUBSET Tiers
        /\ pc'[w] = "top"
        /\ UNCHANGED persists
        /\ \A v \in Workers \ {w} : pc'[v] = pc[v] /\ job'[v] = job[v]
    BY <1>1, <1>3, <1>9 DEF TypeOK, Warm, Answered
  <2>2. CASE /\ Ran(w, {job[w]})
             /\ ceiling' = Higher(ceiling, MaxWarmedSeq({job[w]}, {job[w]}))
    <3>1. persists => /\ plan <= plan' /\ ceiling' <= plan'
                      /\ Higher(profile[w], Highest({job[w]})) <= plan'
      BY <2>1, <2>2, RanCovers DEF Ran
    <3>2. /\ profile'[w] = Higher(profile[w], Highest({job[w]}))
          /\ \A v \in Workers \ {w} : profile'[v] = profile[v]
      BY <1>1, <2>2 DEF Ran, TypeOK
    <3>. QED
      BY <1>1, <2>1, <3>1, <3>2, CoverKept
  <2>3. CASE UNCHANGED <<plan, ceiling, profile>>
    <3>1. persists => plan <= plan' /\ ceiling' <= plan' /\ profile'[w] <= plan'
      BY <1>1, <1>2, <2>3 DEF CoverInv
    <3>. QED
      BY <1>1, <2>1, <2>3, <3>1, CoverKept
  <2>. QED
    BY <1>9, <2>2, <2>3 DEF Warm
<1>10. ASSUME NEW w \in Workers, NEW s \in Tiers, Take(w, s)
       PROVE  CoverInv'
  BY <1>1, <1>10 DEF TypeOK, CoverInv, Take
<1>11. ASSUME NEW s \in Tiers, Fire(s)
       PROVE  CoverInv'
  BY <1>1, <1>11 DEF CoverInv, Fire
<1>12. CASE BroadcastReady
  BY <1>1, <1>12 DEF CoverInv, BroadcastReady
<1>13. CASE Crash
  BY <1>1, <1>13, DieCovers DEF Crash
<1>. QED
  BY <1>4, <1>5, <1>6, <1>7, <1>8, <1>9, <1>10, <1>11, <1>12, <1>13
     DEF Next, WorkerStep

-----------------------------------------------------------------------------
(* Theorems *)

\* The invariant: the bookkeeping of the warm-up task and the lead of the plan on
\* disk hold in every state, however many workers and tiers there are.
THEOREM CoverageInvariant == Spec => []CoverageInv
<1>1. Init => CoverageInv
  <2>1. SUFFICES ASSUME Init PROVE CoverageInv
    OBVIOUS
  <2>2. TypeOK
    <3>1. /\ strict \in BOOLEAN /\ persists \in BOOLEAN
          /\ plan \in Tiers \cup {None} /\ ceiling \in Tiers \cup {None}
          /\ suspects \subseteq Tiers /\ task \in {"idle", "sent", "taken", "acked"}
          /\ asked \in Tiers \cup {None}
      BY <2>1 DEF Init, FreshProcess
    <3>2. /\ pc \in [Workers -> {"unspawned", "top", "recv", "taken", "run", "exited"}]
          /\ session \in [Workers -> BOOLEAN]
          /\ profile \in [Workers -> Tiers \cup {None}]
          /\ job \in [Workers -> Tiers \cup {None}]
          /\ warmup \in [Workers -> BOOLEAN]
      BY <2>1 DEF Init, FreshProcess
    <3>3. /\ warmedLocal \in [Workers -> SUBSET Tiers]
          /\ inbox \in [Workers -> Seq(Tiers)]
          /\ \A w \in Workers : Len(inbox[w]) <= PropCapacity
      BY <2>1, CoverageAssumption DEF Init, FreshProcess
    <3>. QED
      BY <3>1, <3>2, <3>3 DEF TypeOK
  <2>3. TaskInv
    BY <2>1 DEF Init, FreshProcess, TaskInv
  <2>4. CoverInv
    BY <2>1 DEF Init, FreshProcess, CoverInv, None
  <2>. QED
    BY <2>2, <2>3, <2>4 DEF CoverageInv
<1>2. CoverageInv /\ [Next]_vars => CoverageInv'
  <2>1. ASSUME CoverageInv, Next
        PROVE  CoverageInv'
    BY <2>1, StepTyped, StepTask, StepCover DEF CoverageInv
  <2>2. ASSUME CoverageInv, UNCHANGED vars
        PROVE  CoverageInv'
    BY <2>2 DEF CoverageInv, TypeOK, TaskInv, CoverInv, vars, config, workerVars,
                taskVars
  <2>. QED
    BY <2>1, <2>2
<1>. QED
  BY <1>1, <1>2, PTL DEF Spec

\* Type correctness, which includes that no receiver's backlog ever exceeds the
\* capacity of the broadcast channel of worker/propagation.rs.
THEOREM CoverageTypeCorrect == Spec => []TypeOK
<1>1. CoverageInv => TypeOK
  BY DEF CoverageInv
<1>. QED
  BY <1>1, CoverageInvariant, PTL

\* The ceiling the guard of jit_guard.rs trusts is never above the plan on disk,
\* across partial prewarms, broadcasts, adaptive warm-ups, deaths and restarts.
THEOREM CeilingIsSound == Spec => []CeilingSound
<1>1. CoverageInv => CeilingSound
  BY DEF CoverageInv, CoverInv, CeilingSound
<1>. QED
  BY <1>1, CoverageInvariant, PTL

\* No client request of a dangerous tier is ever in the runtime with an engine
\* left to compile, however stale the worker's session or the ceiling it read.
THEOREM NoDangerousCompile == Spec => []NoInbandCompile
<1>1. CoverageInv => NoInbandCompile
  BY DEF CoverageInv, CoverInv, NoInbandCompile, Covered
<1>. QED
  BY <1>1, CoverageInvariant, PTL

=============================================================================
