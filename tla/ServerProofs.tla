----------------------------- MODULE ServerProofs -----------------------------
(***************************************************************************)
(* Proofs about Server, for every number of configured workers, threads,   *)
(* clients and probe shapes: the permits add up, the probe has the pool to *)
(* itself and no traffic runs on an unsettled cost model.                  *)
(***************************************************************************)
EXTENDS Server, FiniteSetTheorems, TLAPS

-----------------------------------------------------------------------------
(* The inductive invariant *)

\* The start-up runs its stages in order: the probe status and the cost model
\* are settled exactly when the checks begin, the server opens after them, only
\* the probe task has permits to release, and a shape is asked for only while
\* shapes are left.
BootInv ==
  /\ boot \in {"init", "resolve", "drain", "probe"} => probeStatus = "Running"
  /\ boot \in {"dense", "sparse", "release", "done"} =>
       probeStatus # "Running" /\ model # "default"
  /\ boot = "release" => InProbeTask
  /\ call[Boot] # "idle" => boot \in {"probe", "dense", "sparse"}
  /\ boot = "probe" /\ call[Boot] # "idle" => probed <= ProbeShapes
  /\ ready => boot \in {"release", "done"}

\* Until the server is ready no handler is past its check, and none has left
\* anything in the pool.
QuietInv ==
  ~ready => \A h \in Handlers : call[h] = "idle" /\ handler[h] \notin {"gate", "call"}

\* A call is in the pool once at most, in line or being served, and whoever is
\* there has sent its request and has no answer yet.
LineInv ==
  /\ \A i \in 1 .. Len(line) :
       call[line[i]] \in {"waiting", "abandoned"} /\ line[i] \notin serving
  /\ \A i, j \in 1 .. Len(line) : line[i] = line[j] => i = j
  /\ \A r \in serving : call[r] \in {"waiting", "abandoned"}

\* No more requests are being served, or have just made their worker leave, than
\* there are live workers, and what will end a worker is being served by one.
CrewInv ==
  /\ live \in 0 .. N /\ leaving \in Nat
  /\ fatal \subseteq serving
  /\ Cardinality(serving) + leaving <= live

ServerInv ==
  TypeOK /\ LineInv /\ CrewInv /\ BootInv /\ QuietInv /\ PermitAccounting

-----------------------------------------------------------------------------
(* The parts *)

\* A step of the pool as the server lets it take one.
PoolMove ==
  \/ \E r \in Requests :
       Pool!Ask(r) \/ Pool!Enter(r) \/ Pool!Refuse(r) \/ Pool!Leave(r)
       \/ Pool!Reply(r) \/ Pool!Collect(r)
  \/ Pool!Serve
  \/ Pool!Close
  \/ UNCHANGED poolVars

PoolTypeOK ==
  /\ call \in [Requests -> {"idle", "sending", "waiting", "abandoned"} \cup Answers]
  /\ line \in Seq(Requests)
  /\ serving \subseteq Requests
  /\ open \in BOOLEAN

\* The pool's variables keep their types, whatever the pool does.
LEMMA PoolMoveTyped ==
  ASSUME PoolTypeOK, PoolMove
  PROVE  PoolTypeOK'
<1> USE DEF PoolTypeOK, Answers
<1>1. ASSUME NEW r \in Requests,
             Pool!Ask(r) \/ Pool!Refuse(r) \/ Pool!Leave(r) \/ Pool!Collect(r)
      PROVE  PoolTypeOK'
  BY <1>1 DEF Pool!Ask, Pool!Refuse, Pool!Leave, Pool!Collect
<1>2. ASSUME NEW r \in Requests, Pool!Enter(r)
      PROVE  PoolTypeOK'
  BY <1>2 DEF Pool!Enter
<1>3. ASSUME NEW r \in Requests, Pool!Reply(r)
      PROVE  PoolTypeOK'
  BY <1>3 DEF Pool!Reply, Pool!Answered, Pool!Answer
<1>4. CASE Pool!Serve
  BY <1>4 DEF Pool!Serve
<1>5. CASE Pool!Close
  <2>1. call' = [r \in Requests |-> IF Pool!Inline(r) THEN Pool!Answered(r, "err")
                                    ELSE call[r]]
    BY <1>5 DEF Pool!Close
  <2>2. \A r \in Requests : Pool!Answered(r, "err") \in {"idle", "err"}
    BY DEF Pool!Answered
  <2>3. call' \in [Requests -> {"idle", "sending", "waiting", "abandoned"} \cup Answers]
    BY <2>1, <2>2
  <2>4. line' = <<>> /\ open' = FALSE /\ serving' = serving
    BY <1>5, Zenon DEF Pool!Close
  <2>5. line' \in Seq(Requests)
    BY <2>4
  <2>6. open' \in BOOLEAN
    BY <2>4
  <2>7. serving' \subseteq Requests
    BY <2>4
  <2>. QED
    BY <2>3, <2>5, <2>6, <2>7
<1>6. CASE UNCHANGED poolVars
  BY <1>6 DEF poolVars
<1>. QED
  BY <1>1, <1>2, <1>3, <1>4, <1>5, <1>6 DEF PoolMove

\* No call gets into the pool a second time.
LEMMA PoolMoveLine ==
  ASSUME PoolTypeOK, LineInv, PoolMove
  PROVE  LineInv'
<1> USE DEF PoolTypeOK, LineInv
<1>1. ASSUME NEW r \in Requests,
             Pool!Ask(r) \/ Pool!Refuse(r) \/ Pool!Leave(r) \/ Pool!Collect(r)
      PROVE  LineInv'
  <2>1. /\ UNCHANGED <<line, serving>>
        /\ \A q \in Requests \ {r} : call'[q] = call[q]
        /\ call[r] \in {"waiting", "abandoned"} => call'[r] \in {"waiting", "abandoned"}
    BY <1>1 DEF Pool!Ask, Pool!Refuse, Pool!Leave, Pool!Collect, Pool!Answer
  <2>. QED
    BY <2>1
<1>2. ASSUME NEW r \in Requests, Pool!Enter(r)
      PROVE  LineInv'
  <2>1. /\ call[r] = "sending" /\ call' = [call EXCEPT ![r] = "waiting"]
        /\ line' = Append(line, r) /\ serving' = serving
    BY <1>2 DEF Pool!Enter
  <2>2. /\ \A i \in 1 .. Len(line) : line[i] # r
        /\ r \notin serving
    BY <2>1
  <2>. QED
    BY <2>1, <2>2
<1>3. ASSUME NEW r \in Requests, Pool!Reply(r)
      PROVE  LineInv'
  <2>1. /\ r \in serving /\ serving' = serving \ {r} /\ line' = line
        /\ \A q \in Requests \ {r} : call'[q] = call[q]
    BY <1>3 DEF Pool!Reply
  <2>. QED
    BY <2>1
<1>4. CASE Pool!Serve
  <2>1. /\ line # <<>> /\ line' = Tail(line) /\ call' = call
        /\ serving' = serving \cup {Head(line)}
    BY <1>4 DEF Pool!Serve
  <2>2. /\ Len(line) >= 1 /\ Len(Tail(line)) = Len(line) - 1 /\ Head(line) = line[1]
        /\ \A i \in 1 .. Len(line) - 1 : Tail(line)[i] = line[i + 1]
    BY <2>1
  <2>. QED
    BY <2>1, <2>2
<1>5. CASE Pool!Close
  <2>1. Len(line') = 0 /\ serving' = {}
    BY <1>5 DEF Pool!Close
  <2>. QED
    BY <2>1
<1>6. CASE UNCHANGED poolVars
  BY <1>6 DEF poolVars
<1>. QED
  BY <1>1, <1>2, <1>3, <1>4, <1>5, <1>6 DEF PoolMove

\* The holders of permits, and the calls being served, can be counted.
LEMMA Counted ==
  ASSUME TypeOK
  PROVE  /\ IsFiniteSet(Holders) /\ Cardinality(Holders) \in Nat
         /\ IsFiniteSet(serving) /\ Cardinality(serving) \in Nat
<1>1. IsFiniteSet(Holders)
  BY ServerAssumption, FS_Subset DEF Holders
<1>2. IsFiniteSet(Clients \cup {Canary})
  BY ServerAssumption, FS_AddElement
<1>3. IsFiniteSet((Clients \cup {Canary}) \cup {Boot})
  BY <1>2, FS_AddElement
<1>4. IsFiniteSet(serving)
  BY <1>3, FS_Subset DEF TypeOK, Requests, Handlers
<1>. QED
  BY <1>1, <1>4, FS_CardinalityType

\* A handler that passes the gate is one holder more.
LEMMA OneMoreHolder ==
  ASSUME TypeOK, NEW c \in Clients, handler[c] # "call",
         handler' = [handler EXCEPT ![c] = "call"]
  PROVE  Cardinality(Holders') = Cardinality(Holders) + 1
<1>1. Holders' = Holders \cup {c} /\ c \notin Holders
  BY DEF TypeOK, Holders, Handlers
<1>. QED
  BY <1>1, Counted, FS_AddElement

\* A handler that returns or is dropped in the pool is one holder less.
LEMMA OneHolderLess ==
  ASSUME TypeOK, NEW c \in Clients, handler[c] = "call",
         NEW v, v # "call",
         handler' = [handler EXCEPT ![c] = v]
  PROVE  Cardinality(Holders') = Cardinality(Holders) - 1
<1>1. Holders' = Holders \ {c} /\ c \in Holders
  BY DEF TypeOK, Holders, Handlers
<1>. QED
  BY <1>1, Counted, FS_RemoveElement

\* A handler that moves outside the pool leaves the holders as they are.
LEMMA SameHolders ==
  ASSUME TypeOK, NEW h \in Handlers, h \in Clients => handler[h] # "call",
         NEW v, h \in Clients => v # "call",
         handler' = [handler EXCEPT ![h] = v]
  PROVE  Holders' = Holders
  BY ServerAssumption DEF TypeOK, Holders, Handlers

-----------------------------------------------------------------------------
(* The process starts, or is gone *)

\* What run() sets up satisfies the invariant.
LEMMA InitInv == Init => ServerInv
<1>1. SUFFICES ASSUME Init PROVE ServerInv
  OBVIOUS
<1>2. InitialPermits \in 0 .. CfgWorkers
  BY ServerAssumption DEF InitialPermits
<1>3. TypeOK
  <2>1. PoolTypeOK
    BY <1>1 DEF Init, Pool!ServiceInit, PoolTypeOK
  <2>2. /\ up \in BOOLEAN /\ mode \in {"override", "cached", "uncached"}
        /\ cache \in {"none", "stale", "valid"} /\ boot = "init"
        /\ model \in {"default", "override"} /\ probeStatus = "Running"
        /\ ready \in BOOLEAN
    BY <1>1 DEF Init, InitialModel
  <2>3. /\ probed \in 0 .. ProbeShapes + 1 /\ points \in 0 .. 2
        /\ permits \in 0 .. CfgWorkers + 1 /\ live \in 0 .. N
    BY <1>1, <1>2, ServerAssumption DEF Init
  <2>4. handler \in [Handlers -> {"idle", "gate", "call"} \cup Statuses]
    BY <1>1 DEF Init
  <2>5. fatal \subseteq serving /\ leaving \in 0 .. N
    BY <1>1, ServerAssumption DEF Init
  <2>. QED
    BY <2>1, <2>2, <2>3, <2>4, <2>5 DEF TypeOK, PoolTypeOK
<1>4. LineInv /\ BootInv /\ QuietInv
  <2>1. line = <<>> /\ serving = {}
    BY <1>1 DEF Init, Pool!ServiceInit
  <2>2. LineInv
    BY <2>1 DEF LineInv
  <2>. QED
    BY <1>1, <2>2 DEF Init, BootInv, QuietInv, Pool!ServiceInit, Requests
<1>5. PermitAccounting
  <2>1. Holders = {}
    BY <1>1 DEF Init, Holders, Handlers
  <2>2. PermitsInBeing = InitialPermits
    BY <1>1 DEF Init, PermitsInBeing, InProbeTask
  <2>. QED
    BY <1>1, <1>2, <2>1, <2>2, FS_EmptySet DEF Init, PermitAccounting
<1>6. CrewInv
  <2>1. serving = {} /\ fatal = {} /\ leaving = 0 /\ live = N
    BY <1>1 DEF Init, Pool!ServiceInit
  <2>. QED
    BY <2>1, FS_EmptySet, ServerAssumption DEF CrewInv
<1>. QED
  BY <1>3, <1>4, <1>5, <1>6 DEF ServerInv

\* So does what an exit or a death leaves for the next start.
LEMMA ExitInv ==
  ASSUME TypeOK, Exit
  PROVE  ServerInv'
<1>2. InitialPermits \in 0 .. CfgWorkers
  BY ServerAssumption DEF InitialPermits
<1>3. TypeOK'
  <2>1. PoolTypeOK'
    BY DEF Exit, PoolTypeOK
  <2>2. /\ up' \in BOOLEAN /\ mode' \in {"override", "cached", "uncached"}
        /\ cache' \in {"none", "stale", "valid"} /\ boot' = "init"
        /\ model' \in {"default", "override"} /\ probeStatus' = "Running"
        /\ ready' \in BOOLEAN
    BY DEF Exit, TypeOK, InitialModel
  <2>3. /\ probed' \in 0 .. ProbeShapes + 1 /\ points' \in 0 .. 2
        /\ permits' \in 0 .. CfgWorkers + 1 /\ live' \in 0 .. N
    BY <1>2, ServerAssumption DEF Exit
  <2>4. handler' \in [Handlers -> {"idle", "gate", "call"} \cup Statuses]
    BY DEF Exit
  <2>5. fatal' \subseteq serving' /\ leaving' \in 0 .. N
    BY ServerAssumption DEF Exit
  <2>. QED
    BY <2>1, <2>2, <2>3, <2>4, <2>5 DEF TypeOK, PoolTypeOK
<1>4. LineInv' /\ BootInv' /\ QuietInv'
  <2>1. line' = <<>> /\ serving' = {}
    BY DEF Exit
  <2>2. LineInv'
    BY <2>1 DEF LineInv
  <2>. QED
    BY <2>2 DEF Exit, BootInv, QuietInv, Requests
<1>5. PermitAccounting'
  <2>1. Holders' = {}
    BY DEF Exit, Holders, Handlers
  <2>2. PermitsInBeing' = InitialPermits
    BY DEF Exit, PermitsInBeing, InProbeTask
  <2>. QED
    BY <1>2, <2>1, <2>2, FS_EmptySet DEF Exit, PermitAccounting
<1>6. CrewInv'
  <2>1. serving' = {} /\ fatal' = {} /\ leaving' = 0 /\ live' = N
    BY DEF Exit
  <2>. QED
    BY <2>1, FS_EmptySet, ServerAssumption DEF CrewInv
<1>. QED
  BY <1>3, <1>4, <1>5, <1>6 DEF ServerInv

-----------------------------------------------------------------------------
(* Every other step *)

\* A failed check in the probe task, which does not exit the process.
CheckLogged == InProbeTask /\ boot' = "release" /\ CheckFails

\* The steps of the two tasks that leave the process up and the permits alone.
BootMove ==
  \/ InitOk \/ ResolveOverride \/ ResolveCacheHit \/ StartProbe
  \/ ProbeShape \/ ProbeAnswer \/ SkipShape \/ PublishProbe
  \/ CheckCall \/ CheckOk \/ CheckLogged

PoolStep ==
  \/ \E r \in Requests : PoolEnter(r) \/ PoolRefuse(r) \/ PoolReply(r)
  \/ PoolServe \/ PoolClose \/ WorkerExits

\* The steps sorted by what they do to the permits and the handlers.
LEMMA Steps ==
  ASSUME Next
  PROVE  \/ Exit
         \/ BootMove \/ DrainPermits \/ ReleasePermits
         \/ \E c \in Clients : Arrive(c) \/ Acquire(c) \/ Respond(c) \/ Disconnect(c)
         \/ DeepHealth \/ DeepHealthAnswer \/ DeepHealthTimeout
         \/ \E h \in Handlers : Finish(h)
         \/ PoolStep
         \/ Restart
<1>1. CheckFails => Exit \/ CheckLogged
  BY DEF CheckFails, CheckLogged
<1>. QED
  BY <1>1 DEF Next, BootStep, BootMove, PoolStep, InitFails, Crash

\* In all of them the pool takes a step of its own or none.
LEMMA StepMovesPool ==
  ASSUME Next, ~Exit
  PROVE  PoolMove
<1> USE DEF PoolMove, Requests, Handlers
<1>1. CASE BootMove
  BY <1>1 DEF BootMove, InitOk, ResolveOverride, ResolveCacheHit, StartProbe,
     ProbeShape, ProbeAnswer, SkipShape, PublishProbe, CheckCall, CheckOk,
     CheckLogged, CheckFails
<1>2. CASE DrainPermits \/ ReleasePermits
  BY <1>2 DEF DrainPermits, ReleasePermits
<1>3. ASSUME NEW c \in Clients, Arrive(c) \/ Acquire(c) \/ Respond(c) \/ Disconnect(c)
      PROVE  PoolMove
  BY <1>3 DEF Arrive, Acquire, Respond, Disconnect
<1>4. CASE DeepHealth \/ DeepHealthAnswer \/ DeepHealthTimeout
  BY <1>4 DEF DeepHealth, DeepHealthAnswer, DeepHealthTimeout
<1>5. ASSUME NEW h \in Handlers, Finish(h)
      PROVE  PoolMove
  BY <1>5 DEF Finish
<1>6. CASE PoolStep
  BY <1>6 DEF PoolStep, PoolEnter, PoolRefuse, PoolReply, PoolServe, PoolClose,
     WorkerExits
<1>7. CASE Restart
  BY <1>7 DEF Restart
<1>. QED
  BY <1>1, <1>2, <1>3, <1>4, <1>5, <1>6, <1>7, Steps

\* What is idle stays out of the pool: its own steps answer no one who has not
\* asked.
LEMMA IdleStays ==
  ASSUME PoolTypeOK, LineInv, PoolStep, NEW q \in Requests, call[q] = "idle"
  PROVE  call'[q] = "idle"
<1> USE DEF PoolTypeOK
<1>1. ASSUME NEW r \in Requests, PoolEnter(r) \/ PoolRefuse(r)
      PROVE  call'[q] = "idle"
  BY <1>1 DEF PoolEnter, PoolRefuse, Pool!Enter, Pool!Refuse
<1>2. ASSUME NEW r \in Requests, PoolReply(r)
      PROVE  call'[q] = "idle"
  BY <1>2 DEF PoolReply, Pool!Reply, LineInv
<1>3. CASE PoolServe \/ WorkerExits
  BY <1>3 DEF PoolServe, Pool!Serve, WorkerExits, poolVars
<1>4. CASE PoolClose
  <2>1. ~Pool!Inline(q)
    BY DEF LineInv, Pool!Inline
  <2>2. call' = [r \in Requests |-> IF Pool!Inline(r) THEN Pool!Answered(r, "err")
                                    ELSE call[r]]
    BY <1>4 DEF PoolClose, Pool!Close
  <2>. QED
    BY <2>1, <2>2
<1>. QED
  BY <1>1, <1>2, <1>3, <1>4 DEF PoolStep

\* The stages of the start-up follow one another.
LEMMA StepBoot ==
  ASSUME ServerInv, Next, ~Exit
  PROVE  BootInv'
<1> USE DEF bootVars, poolVars
<1>1. TypeOK /\ BootInv /\ Boot \in Requests
  BY DEF ServerInv, Requests
<1>2. CASE InitOk \/ ResolveOverride \/ ResolveCacheHit \/ StartProbe
  BY <1>1, <1>2
     DEF BootInv, TypeOK, InProbeTask, InitOk, ResolveOverride, ResolveCacheHit,
         StartProbe
<1>3. CASE DrainPermits \/ ReleasePermits
  BY <1>1, <1>3 DEF BootInv, TypeOK, InProbeTask, DrainPermits, ReleasePermits
<1>4. CASE ProbeShape \/ CheckCall
  BY <1>1, <1>4 DEF BootInv, TypeOK, InProbeTask, ProbeShape, CheckCall, Pool!Ask
<1>5. CASE ProbeAnswer
  BY <1>1, <1>5 DEF BootInv, TypeOK, InProbeTask, ProbeAnswer, Pool!Collect
<1>6. CASE SkipShape \/ PublishProbe
  BY <1>1, <1>6 DEF BootInv, TypeOK, InProbeTask, SkipShape, PublishProbe
<1>7. CASE CheckOk \/ CheckLogged
  BY <1>1, <1>7 DEF BootInv, TypeOK, InProbeTask, CheckOk, CheckLogged, CheckFails,
                       Pool!Collect
\* The handlers and the pool change neither the stage nor, unless the call was
\* there, the call of the tasks.
<1>8. ASSUME UNCHANGED bootVars, call[Boot] = "idle" => call'[Boot] = "idle"
      PROVE  BootInv'
  BY <1>1, <1>8 DEF BootInv, InProbeTask
<1>9. ASSUME NEW c \in Clients, Arrive(c) \/ Acquire(c) \/ Respond(c) \/ Disconnect(c)
      PROVE  BootInv'
  <2>1. Boot # c
    BY ServerAssumption
  <2>2. UNCHANGED bootVars /\ call'[Boot] = call[Boot]
    BY <1>1, <1>9, <2>1
       DEF TypeOK, Arrive, Acquire, Respond, Disconnect, Pool!Ask, Pool!Collect,
           Pool!Leave
  <2>. QED
    BY <1>8, <2>2
<1>10. CASE DeepHealth \/ DeepHealthAnswer \/ DeepHealthTimeout
  <2>1. Boot # Canary
    BY ServerAssumption
  <2>2. UNCHANGED bootVars /\ call'[Boot] = call[Boot]
    BY <1>1, <1>10, <2>1
       DEF TypeOK, DeepHealth, DeepHealthAnswer, DeepHealthTimeout, Pool!Ask,
           Pool!Collect, Pool!Leave
  <2>. QED
    BY <1>8, <2>2
<1>11. ASSUME NEW h \in Handlers, Finish(h)
       PROVE  BootInv'
  BY <1>8, <1>11 DEF Finish
<1>12. CASE PoolStep
  <2>1. UNCHANGED bootVars
    BY <1>12 DEF PoolStep, PoolEnter, PoolRefuse, PoolReply, PoolServe, PoolClose,
       WorkerExits, serverVars
  <2>2. call[Boot] = "idle" => call'[Boot] = "idle"
    BY <1>1, <1>12, IdleStays DEF ServerInv, TypeOK, PoolTypeOK
  <2>. QED
    BY <1>8, <2>1, <2>2
<1>13. CASE Restart
  BY <1>8, <1>13 DEF Restart
<1>. QED
  BY <1>2, <1>3, <1>4, <1>5, <1>6, <1>7, <1>9, <1>10, <1>11, <1>12, <1>13, Steps
     DEF BootMove

\* Before the server is ready no handler moves past its check, and the pool has
\* nothing of theirs to answer.
LEMMA StepQuiet ==
  ASSUME ServerInv, Next, ~Exit
  PROVE  QuietInv'
<1> USE DEF bootVars, poolVars
<1>1. TypeOK /\ LineInv /\ QuietInv /\ Handlers \subseteq Requests /\ Boot \notin Handlers
  BY ServerAssumption DEF ServerInv, Requests, Handlers
<1>2. CASE BootMove
  <2>1. /\ handler' = handler
        /\ ready => ready'
        /\ \A h \in Handlers : call'[h] = call[h]
    BY <1>1, <1>2
       DEF TypeOK, BootMove, InitOk, ResolveOverride, ResolveCacheHit, StartProbe,
           ProbeShape, ProbeAnswer, SkipShape, PublishProbe, CheckCall, CheckOk,
           CheckLogged, CheckFails, Pool!Ask, Pool!Collect
  <2>. QED
    BY <1>1, <2>1 DEF QuietInv
<1>3. CASE DrainPermits \/ ReleasePermits \/ Restart
  BY <1>1, <1>3 DEF QuietInv, DrainPermits, ReleasePermits, Restart
<1>4. ASSUME NEW c \in Clients, Arrive(c) \/ Acquire(c) \/ Respond(c) \/ Disconnect(c)
      PROVE  QuietInv'
  <2>1. ready' = ready
    BY <1>4 DEF Arrive, Acquire, Respond, Disconnect
  <2>2. CASE ready
    BY <2>1, <2>2 DEF QuietInv
  <2>3. CASE ~ready
    <3>1. call[c] = "idle" /\ handler[c] \notin {"gate", "call"} /\ c \in Handlers
      BY <1>1, <2>3 DEF QuietInv, Handlers
    <3>2. Arrive(c)
      BY <1>4, <3>1 DEF Acquire, Respond, Disconnect
    <3>3. handler' = [handler EXCEPT ![c] = "503"] /\ call' = call
      BY <2>3, <3>2 DEF Arrive
    <3>. QED
      BY <1>1, <2>3, <3>3 DEF QuietInv, TypeOK
  <2>. QED
    BY <2>2, <2>3
<1>5. CASE DeepHealth \/ DeepHealthAnswer \/ DeepHealthTimeout
  <2>1. ready' = ready
    BY <1>5 DEF DeepHealth, DeepHealthAnswer, DeepHealthTimeout
  <2>2. CASE ready
    BY <2>1, <2>2 DEF QuietInv
  <2>3. CASE ~ready
    <3>1. handler[Canary] # "call" /\ Canary \in Handlers
      BY <1>1, <2>3 DEF QuietInv, Handlers
    <3>2. handler' = [handler EXCEPT ![Canary] = "503"] /\ call' = call
      BY <1>5, <2>3, <3>1 DEF DeepHealth, DeepHealthAnswer, DeepHealthTimeout
    <3>. QED
      BY <1>1, <2>3, <3>2 DEF QuietInv, TypeOK
  <2>. QED
    BY <2>2, <2>3
<1>6. ASSUME NEW h \in Handlers, Finish(h)
      PROVE  QuietInv'
  BY <1>1, <1>6 DEF QuietInv, TypeOK, Finish
<1>7. CASE PoolStep
  <2>1. UNCHANGED <<ready, handler>>
    BY <1>7 DEF PoolStep, PoolEnter, PoolRefuse, PoolReply, PoolServe, PoolClose,
       WorkerExits, serverVars
  <2>2. \A h \in Handlers : call[h] = "idle" => call'[h] = "idle"
    BY <1>1, <1>7, IdleStays DEF TypeOK, PoolTypeOK
  <2>. QED
    BY <1>1, <2>1, <2>2 DEF QuietInv
<1>. QED
  BY <1>2, <1>3, <1>4, <1>5, <1>6, <1>7, Steps

\* The permits: each way into the pool takes one, each way out brings it back,
\* and the probe task's drain and release shift the total as they shift the sum.
LEMMA StepPermits ==
  ASSUME ServerInv, Next, ~Exit
  PROVE  PermitAccounting' /\ permits' \in Nat
<1> USE DEF bootVars, poolVars
<1>1. TypeOK /\ BootInv /\ QuietInv /\ PermitAccounting
  BY DEF ServerInv
<1>2. /\ permits \in Nat /\ CfgWorkers \in Nat /\ CfgWorkers >= 1
      /\ Drained \in Nat /\ InitialPermits \in Nat
      /\ Cardinality(Holders) \in Nat
  BY <1>1, Counted, ServerAssumption DEF TypeOK, Drained, InitialPermits
<1>3. ASSUME permits' = permits, Holders' = Holders, PermitsInBeing' = PermitsInBeing
      PROVE  PermitAccounting' /\ permits' \in Nat
  BY <1>1, <1>2, <1>3 DEF PermitAccounting
<1>4. CASE BootMove
  <2>1. permits' = permits /\ handler' = handler
    BY <1>4
       DEF BootMove, InitOk, ResolveOverride, ResolveCacheHit, StartProbe,
           ProbeShape, ProbeAnswer, SkipShape, PublishProbe, CheckCall, CheckOk,
           CheckLogged, CheckFails
  <2>2. Holders' = Holders
    BY <2>1 DEF Holders
  <2>3. PermitsInBeing' = PermitsInBeing
    BY <1>1, <1>4
       DEF TypeOK, BootInv, PermitsInBeing, InProbeTask, BootMove, InitOk,
           ResolveOverride, ResolveCacheHit, StartProbe, ProbeShape, ProbeAnswer,
           SkipShape, PublishProbe, CheckCall, CheckOk, CheckLogged, CheckFails
  <2>. QED
    BY <1>3, <2>1, <2>2, <2>3
<1>5. CASE DrainPermits
  <2>1. /\ permits >= Drained /\ permits' = permits - Drained
        /\ Holders' = Holders
    BY <1>5 DEF DrainPermits, Holders
  <2>2. PermitsInBeing = InitialPermits /\ PermitsInBeing' = InitialPermits - Drained
    BY <1>1, <1>5 DEF BootInv, PermitsInBeing, InProbeTask, DrainPermits
  <2>. QED
    BY <1>1, <1>2, <2>1, <2>2 DEF PermitAccounting
<1>6. CASE ReleasePermits
  <2>1. permits' = permits + CfgWorkers /\ Holders' = Holders
    BY <1>6 DEF ReleasePermits, Holders
  <2>2. /\ PermitsInBeing = InitialPermits - Drained
        /\ PermitsInBeing' = InitialPermits - Drained + CfgWorkers
    BY <1>1, <1>6 DEF BootInv, PermitsInBeing, InProbeTask, ReleasePermits
  <2>. QED
    BY <1>1, <1>2, <2>1, <2>2 DEF PermitAccounting
<1>7. ASSUME UNCHANGED bootVars
      PROVE  PermitsInBeing' = PermitsInBeing
  BY <1>7 DEF PermitsInBeing, InProbeTask
<1>8. ASSUME NEW c \in Clients, Arrive(c)
      PROVE  PermitAccounting' /\ permits' \in Nat
  <2>1. /\ handler[c] = "idle" /\ permits' = permits /\ UNCHANGED bootVars
        /\ \/ handler' = [handler EXCEPT ![c] = "503"]
           \/ handler' = [handler EXCEPT ![c] = "400"]
           \/ handler' = [handler EXCEPT ![c] = "gate"]
    BY <1>8 DEF Arrive
  <2>2. c \in Handlers
    BY DEF Handlers
  <2>3. Holders' = Holders
    BY <1>1, <2>1, <2>2, SameHolders
  <2>. QED
    BY <1>3, <1>7, <2>1, <2>3
<1>9. ASSUME NEW c \in Clients, Acquire(c)
      PROVE  PermitAccounting' /\ permits' \in Nat
  <2>1. /\ handler[c] # "call" /\ handler' = [handler EXCEPT ![c] = "call"]
        /\ permits > 0 /\ permits' = permits - 1 /\ UNCHANGED bootVars
    BY <1>9 DEF Acquire
  <2>2. Cardinality(Holders') = Cardinality(Holders) + 1
    BY <1>1, <2>1, OneMoreHolder
  <2>. QED
    BY <1>1, <1>2, <1>7, <2>1, <2>2 DEF PermitAccounting
<1>10. ASSUME NEW c \in Clients, Respond(c) \/ Disconnect(c)
       PROVE  PermitAccounting' /\ permits' \in Nat
  <2>1. CASE handler[c] = "call"
    <3>1. /\ permits' = permits + 1 /\ UNCHANGED bootVars
          /\ \/ handler' = [handler EXCEPT ![c] = StatusOf(call[c])]
             \/ handler' = [handler EXCEPT ![c] = "idle"]
      BY <1>10, <2>1 DEF Respond, Disconnect
    <3>2. StatusOf(call[c]) # "call"
      BY DEF StatusOf
    <3>3. Cardinality(Holders') = Cardinality(Holders) - 1
      BY <1>1, <2>1, <3>1, <3>2, OneHolderLess
    <3>. QED
      BY <1>1, <1>2, <1>7, <3>1, <3>3 DEF PermitAccounting
  <2>2. CASE handler[c] # "call"
    <3>1. /\ permits' = permits /\ UNCHANGED bootVars
          /\ handler' = [handler EXCEPT ![c] = "idle"]
      BY <1>10, <2>2 DEF Respond, Disconnect
    <3>2. c \in Handlers
      BY DEF Handlers
    <3>3. Holders' = Holders
      BY <1>1, <2>2, <3>1, <3>2, SameHolders
    <3>. QED
      BY <1>3, <1>7, <3>1, <3>3
  <2>. QED
    BY <2>1, <2>2
<1>11. CASE DeepHealth \/ DeepHealthAnswer \/ DeepHealthTimeout
  <2>1. PICK v : handler' = [handler EXCEPT ![Canary] = v]
    BY <1>11 DEF DeepHealth, DeepHealthAnswer, DeepHealthTimeout
  <2>2. permits' = permits /\ UNCHANGED bootVars
    BY <1>11 DEF DeepHealth, DeepHealthAnswer, DeepHealthTimeout
  <2>3. Canary \in Handlers /\ Canary \notin Clients
    BY ServerAssumption DEF Handlers
  <2>4. Holders' = Holders
    BY <1>1, <2>1, <2>3, SameHolders
  <2>. QED
    BY <1>3, <1>7, <2>2, <2>4
<1>12. ASSUME NEW h \in Handlers, Finish(h)
       PROVE  PermitAccounting' /\ permits' \in Nat
  <2>1. /\ handler[h] # "call" /\ handler' = [handler EXCEPT ![h] = "idle"]
        /\ permits' = permits /\ UNCHANGED bootVars
    BY <1>12 DEF Finish, Statuses
  <2>2. Holders' = Holders
    BY <1>1, <2>1, SameHolders
  <2>. QED
    BY <1>3, <1>7, <2>1, <2>2
<1>13. CASE PoolStep \/ Restart
  <2>1. permits' = permits /\ handler' = handler /\ UNCHANGED bootVars
    BY <1>13 DEF PoolStep, PoolEnter, PoolRefuse, PoolReply, PoolServe, PoolClose,
       WorkerExits, serverVars, Restart
  <2>2. Holders' = Holders
    BY <2>1 DEF Holders
  <2>. QED
    BY <1>3, <1>7, <2>1, <2>2
<1>. QED
  BY <1>4, <1>5, <1>6, <1>8, <1>9, <1>10, <1>11, <1>12, <1>13, Steps

\* A worker takes a request only when one is free, and leaves only after the
\* answer to the request that made it.
LEMMA StepCrew ==
  ASSUME ServerInv, Next, ~Exit
  PROVE  CrewInv'
<1> USE DEF crewVars, poolVars
<1>1. /\ TypeOK /\ live \in 0 .. N /\ leaving \in Nat /\ fatal \subseteq serving
      /\ Cardinality(serving) + leaving <= live
  BY DEF ServerInv, CrewInv
<1>2. N \in Nat /\ IsFiniteSet(serving) /\ Cardinality(serving) \in Nat
  BY <1>1, Counted, ServerAssumption
<1>3. CASE UNCHANGED <<crewVars, serving>>
  BY <1>1, <1>3 DEF CrewInv
<1>4. CASE PoolServe
  <2>1. /\ Cardinality(serving) + leaving < live
        /\ live' = live /\ leaving' = leaving
        /\ serving' = serving \cup {Head(line)}
        /\ fatal' = fatal \/ fatal' = fatal \cup {Head(line)}
    BY <1>4 DEF PoolServe, Pool!Serve
  <2>2. Cardinality(serving') \in {Cardinality(serving), Cardinality(serving) + 1}
    BY <1>2, <2>1, FS_AddElement
  <2>. QED
    BY <1>1, <1>2, <2>1, <2>2 DEF CrewInv
<1>5. ASSUME NEW r \in Requests, PoolReply(r)
      PROVE  CrewInv'
  <2>1. /\ r \in serving /\ serving' = serving \ {r} /\ live' = live
        /\ \/ r \notin fatal /\ fatal' = fatal /\ leaving' = leaving
           \/ fatal' = fatal \ {r} /\ leaving' = leaving + 1
    BY <1>5 DEF PoolReply, Pool!Reply
  <2>2. Cardinality(serving') = Cardinality(serving) - 1
    BY <1>2, <2>1, FS_RemoveElement
  <2>3. fatal' \subseteq serving'
    BY <1>1, <2>1
  <2>. QED
    BY <1>1, <1>2, <2>1, <2>2, <2>3 DEF CrewInv
<1>6. CASE WorkerExits
  BY <1>1, <1>2, <1>6 DEF CrewInv, WorkerExits
<1>7. BootMove \/ DrainPermits \/ ReleasePermits \/ Restart => UNCHANGED <<crewVars, serving>>
  BY DEF BootMove, InitOk, ResolveOverride, ResolveCacheHit, StartProbe, ProbeShape,
         ProbeAnswer, SkipShape, PublishProbe, CheckCall, CheckOk, CheckLogged,
         CheckFails, Exit, DrainPermits, ReleasePermits, Restart, Pool!Ask, Pool!Collect
<1>8. ASSUME NEW c \in Clients, Arrive(c) \/ Acquire(c) \/ Respond(c) \/ Disconnect(c)
      PROVE  UNCHANGED <<crewVars, serving>>
  BY <1>8 DEF Arrive, Acquire, Respond, Disconnect, Pool!Ask, Pool!Collect, Pool!Leave
<1>9. DeepHealth \/ DeepHealthAnswer \/ DeepHealthTimeout => UNCHANGED <<crewVars, serving>>
  BY DEF DeepHealth, DeepHealthAnswer, DeepHealthTimeout, Pool!Ask, Pool!Collect, Pool!Leave
<1>10. ASSUME NEW h \in Handlers, Finish(h)
       PROVE  UNCHANGED <<crewVars, serving>>
  BY <1>10 DEF Finish
<1>11. PoolStep => \/ UNCHANGED <<crewVars, serving>>
                   \/ PoolServe \/ WorkerExits \/ \E r \in Requests : PoolReply(r)
  BY DEF PoolStep, PoolEnter, PoolRefuse, PoolClose, Pool!Enter, Pool!Refuse, Pool!Close
<1>. QED
  BY <1>3, <1>4, <1>5, <1>6, <1>7, <1>8, <1>9, <1>10, <1>11, Steps

\* Every step keeps the types; that the permits stay within bounds follows from
\* their accounting.
LEMMA StepTyped ==
  ASSUME ServerInv, Next, ~Exit
  PROVE  TypeOK'
<1> USE DEF bootVars, poolVars
<1>1. TypeOK /\ BootInv
  BY DEF ServerInv
<1>2. PoolTypeOK'
  BY <1>1, StepMovesPool, PoolMoveTyped DEF TypeOK, PoolTypeOK
<1>3. /\ up' \in BOOLEAN
      /\ mode' \in {"override", "cached", "uncached"}
      /\ cache' \in {"none", "stale", "valid"}
      /\ boot' \in {"init", "resolve", "drain", "probe", "dense", "sparse", "release",
                    "done"}
      /\ model' \in {"default", "override", "cached", "fitted", "conservative"}
      /\ probeStatus' \in {"Disabled", "Running", "Complete", "Failed", "CacheHit"}
      /\ ready' \in BOOLEAN
  <2>1. CASE BootMove
    BY <1>1, <2>1
       DEF TypeOK, BootMove, InitOk, ResolveOverride, ResolveCacheHit, StartProbe,
           ProbeShape, ProbeAnswer, SkipShape, PublishProbe, FitCostModel,
           SaveProbeCache, CheckCall, CheckOk, CheckLogged, CheckFails
  <2>2. CASE DrainPermits \/ ReleasePermits \/ Restart
    BY <1>1, <2>2 DEF TypeOK, DrainPermits, ReleasePermits, Restart
  <2>3. CASE UNCHANGED <<up, bootVars>>
    BY <1>1, <2>3 DEF TypeOK
  <2>4. ASSUME NEW c \in Clients, Arrive(c) \/ Acquire(c) \/ Respond(c) \/ Disconnect(c)
        PROVE  UNCHANGED <<up, bootVars>>
    BY <2>4 DEF Arrive, Acquire, Respond, Disconnect
  <2>5. DeepHealth \/ DeepHealthAnswer \/ DeepHealthTimeout => UNCHANGED <<up, bootVars>>
    BY DEF DeepHealth, DeepHealthAnswer, DeepHealthTimeout
  <2>6. ASSUME NEW h \in Handlers, Finish(h)
        PROVE  UNCHANGED <<up, bootVars>>
    BY <2>6 DEF Finish
  <2>7. PoolStep => UNCHANGED <<up, bootVars>>
    BY DEF PoolStep, PoolEnter, PoolRefuse, PoolReply, PoolServe, PoolClose,
       WorkerExits, serverVars
  <2>. QED
    BY <2>1, <2>2, <2>3, <2>4, <2>5, <2>6, <2>7, Steps
<1>4. probed' \in 0 .. ProbeShapes + 1 /\ points' \in 0 .. 2
  <2>1. CASE UNCHANGED <<probed, points>>
    BY <1>1, <2>1 DEF TypeOK
  <2>2. CASE ProbeAnswer
    <3>1. boot = "probe" /\ call[Boot] # "idle"
      BY <2>2 DEF ProbeAnswer, Pool!Collect, Pool!Answer
    <3>2. probed <= ProbeShapes
      BY <1>1, <3>1 DEF BootInv
    <3>. QED
      BY <1>1, <2>2, <3>2, ServerAssumption DEF TypeOK, ProbeAnswer
  <2>3. CASE SkipShape
    BY <1>1, <2>3, ServerAssumption DEF TypeOK, SkipShape
  <2>4. BootMove => ProbeAnswer \/ SkipShape \/ UNCHANGED <<probed, points>>
    BY DEF BootMove, InitOk, ResolveOverride, ResolveCacheHit, StartProbe, ProbeShape,
           PublishProbe, CheckCall, CheckOk, CheckLogged, CheckFails, Exit
  <2>5. ASSUME NEW c \in Clients, Arrive(c) \/ Acquire(c) \/ Respond(c) \/ Disconnect(c)
        PROVE  UNCHANGED <<probed, points>>
    BY <2>5 DEF Arrive, Acquire, Respond, Disconnect
  <2>6. DeepHealth \/ DeepHealthAnswer \/ DeepHealthTimeout => UNCHANGED <<probed, points>>
    BY DEF DeepHealth, DeepHealthAnswer, DeepHealthTimeout
  <2>7. ASSUME NEW h \in Handlers, Finish(h)
        PROVE  UNCHANGED <<probed, points>>
    BY <2>7 DEF Finish
  <2>8. PoolStep \/ DrainPermits \/ ReleasePermits \/ Restart
          => UNCHANGED <<probed, points>>
    BY DEF PoolStep, PoolEnter, PoolRefuse, PoolReply, PoolServe, PoolClose,
       WorkerExits, serverVars, DrainPermits, ReleasePermits, Restart
  <2>. QED
    BY <2>1, <2>2, <2>3, <2>4, <2>5, <2>6, <2>7, <2>8, Steps
<1>5. permits' \in 0 .. CfgWorkers + 1
  <2>1. PermitAccounting' /\ permits' \in Nat
    BY StepPermits
  <2>2. PermitsInBeing' \in 0 .. CfgWorkers + 1
    BY ServerAssumption DEF PermitsInBeing, InitialPermits, Drained
  <2>3. Cardinality(Holders') \in Nat
    <3>1. IsFiniteSet(Holders')
      BY ServerAssumption, FS_Subset DEF Holders
    <3>. QED
      BY <3>1, FS_CardinalityType
  <2>. QED
    BY <2>1, <2>2, <2>3, ServerAssumption DEF PermitAccounting
<1>6. live' \in 0 .. N /\ fatal' \subseteq serving' /\ leaving' \in 0 .. N
  <2>1. CrewInv'
    BY StepCrew
  <2>2. IsFiniteSet(serving') /\ Cardinality(serving') \in Nat
    <3>1. IsFiniteSet(Clients \cup {Canary})
      BY ServerAssumption, FS_AddElement
    <3>2. IsFiniteSet((Clients \cup {Canary}) \cup {Boot})
      BY <3>1, FS_AddElement
    <3>3. IsFiniteSet(serving')
      BY <1>2, <3>2, FS_Subset DEF PoolTypeOK, Requests, Handlers
    <3>. QED
      BY <3>3, FS_CardinalityType
  <2>. QED
    BY <2>1, <2>2, ServerAssumption DEF CrewInv
<1>7. handler' \in [Handlers -> {"idle", "gate", "call"} \cup Statuses]
  <2> DEFINE V == {"idle", "gate", "call"} \cup Statuses
  <2>1. CASE handler' = handler
    BY <1>1, <2>1 DEF TypeOK
  <2>2. ASSUME NEW h \in Handlers, NEW v \in V, handler' = [handler EXCEPT ![h] = v]
        PROVE  handler' \in [Handlers -> V]
    BY <1>1, <2>2 DEF TypeOK
  <2>3. BootMove \/ DrainPermits \/ ReleasePermits \/ Restart => handler' = handler
    BY DEF BootMove, InitOk, ResolveOverride, ResolveCacheHit, StartProbe, ProbeShape,
           ProbeAnswer, SkipShape, PublishProbe, CheckCall, CheckOk, CheckLogged,
           CheckFails, Exit, DrainPermits, ReleasePermits, Restart
  <2>4. ASSUME NEW c \in Clients, Arrive(c) \/ Acquire(c) \/ Respond(c) \/ Disconnect(c)
        PROVE  \E v \in V : handler' = [handler EXCEPT ![c] = v]
    <3>1. StatusOf(call[c]) \in V
      BY DEF StatusOf, Statuses
    <3>. QED
      BY <2>4, <3>1 DEF Arrive, Acquire, Respond, Disconnect, Statuses
  <2>5. DeepHealth \/ DeepHealthAnswer \/ DeepHealthTimeout =>
          \E v \in V : handler' = [handler EXCEPT ![Canary] = v]
    BY DEF DeepHealth, DeepHealthAnswer, DeepHealthTimeout, Statuses
  <2>6. ASSUME NEW h \in Handlers, Finish(h)
        PROVE  \E v \in V : handler' = [handler EXCEPT ![h] = v]
    BY <2>6 DEF Finish
  <2>7. PoolStep => handler' = handler
    BY DEF PoolStep, PoolEnter, PoolRefuse, PoolReply, PoolServe, PoolClose,
       WorkerExits, serverVars
  <2>8. Canary \in Handlers /\ Clients \subseteq Handlers
    BY DEF Handlers
  <2> HIDE DEF V
  <2>9. handler' \in [Handlers -> V]
    BY <2>1, <2>2, <2>3, <2>4, <2>5, <2>6, <2>7, <2>8, <1>1, Steps DEF TypeOK, V
  <2>. QED
    BY <2>9 DEF V
<1>. QED
  BY <1>2, <1>3, <1>4, <1>5, <1>6, <1>7 DEF TypeOK, PoolTypeOK

-----------------------------------------------------------------------------
(* Theorems *)

\* The invariant holds through every start, probe, crash and restart.
THEOREM ServerInvariant == Spec => []ServerInv
<1>1. ServerInv /\ [Next]_vars => ServerInv'
  <2>1. ASSUME ServerInv, Next, Exit
        PROVE  ServerInv'
    BY <2>1, ExitInv DEF ServerInv
  <2>2. ASSUME ServerInv, Next, ~Exit
        PROVE  ServerInv'
    <3>1. TypeOK' /\ CrewInv' /\ BootInv' /\ QuietInv' /\ PermitAccounting'
      BY <2>2, StepTyped, StepCrew, StepBoot, StepQuiet, StepPermits
    <3>2. LineInv'
      BY <2>2, StepMovesPool, PoolMoveLine DEF ServerInv, TypeOK, PoolTypeOK
    <3>. QED
      BY <3>1, <3>2 DEF ServerInv
  <2>3. ASSUME ServerInv, UNCHANGED vars
        PROVE  ServerInv'
    BY <2>3
       DEF ServerInv, TypeOK, LineInv, CrewInv, BootInv, QuietInv, PermitAccounting,
           Holders, PermitsInBeing, InProbeTask, vars, bootVars, crewVars, poolVars
  <2>. QED
    BY <2>1, <2>2, <2>3
<1>. QED
  BY InitInv, <1>1, PTL DEF Spec

\* Type correctness: no more permits than the code ever creates, no more live
\* workers than threads, no probe answer beyond the sweep.
THEOREM ServerTypeCorrect == Spec => []TypeOK
<1>1. ServerInv => TypeOK
  BY DEF ServerInv
<1>. QED
  BY <1>1, ServerInvariant, PTL

\* No permit of request_permits is lost or made up, on any way out of a handler
\* and whatever the probe task drains and releases meanwhile.
THEOREM PermitsAddUp == Spec => []PermitAccounting
<1>1. ServerInv => PermitAccounting
  BY DEF ServerInv
<1>. QED
  BY <1>1, ServerInvariant, PTL

\* While the probe measures memory no handler has a call in the pool.
THEOREM ProbeUndisturbed == Spec => []ProbeAlone
<1>1. ServerInv => ProbeAlone
  BY DEF ServerInv, BootInv, QuietInv, ProbeAlone
<1>. QED
  BY <1>1, ServerInvariant, PTL

\* No handler's call reaches the pool before the cost model is settled and its
\* status published.
THEOREM TrafficAfterTuning == Spec => []TrafficIsTuned
<1>1. ServerInv => TrafficIsTuned
  BY DEF ServerInv, TypeOK, BootInv, QuietInv, TrafficIsTuned
<1>. QED
  BY <1>1, ServerInvariant, PTL

=============================================================================
