--------------------------- MODULE WorkerPoolProofs ---------------------------
(***************************************************************************)
(* Proofs about WorkerPool, for every number of workers, every channel     *)
(* capacity, every threshold and every set of requests: its invariants,    *)
(* and that it implements EmbedService; and about Health, for every total  *)
(* the workers are compared with: the answer of /health is a status the    *)
(* server really had, and the status follows the documented diagram.       *)
(***************************************************************************)
EXTENDS Health, FiniteSetTheorems, TLAPS

-----------------------------------------------------------------------------
(* Types and threads *)

\* What NextConsecutiveFailures returns for an outcome the classification can
\* produce stays below the threshold.
LEMMA FailuresBounded ==
  ASSUME NEW o \in Outcomes, NEW k \in 0 .. Threshold - 1,
         o = "Failure" => k + 1 < Threshold
  PROVE  NextConsecutiveFailures(o, k) \in 0 .. Threshold - 1
  BY PoolAssumption DEF NextConsecutiveFailures, Outcomes

\* ClassifyInferenceOutcome yields an outcome, never the panic, and Failure only
\* while one more failure stays below the threshold.
LEMMA Classified ==
  ASSUME NEW r, NEW result, NEW k \in 0 .. Threshold - 1
  PROVE  /\ ClassifyInferenceOutcome(r, result, k) \in Outcomes
         /\ ClassifyInferenceOutcome(r, result, k) # "Panicked"
         /\ ClassifyInferenceOutcome(r, result, k) = "Failure" => k + 1 < Threshold
  BY PoolAssumption DEF ClassifyInferenceOutcome, Outcomes

\* The initial state: nothing loaded, nothing queued, the leader starting.
LEMMA InitTyped == Init => TypeOK /\ ThreadInv
  BY PoolAssumption
  DEF Init, TypeOK, ThreadInv, HeldInv, SessionInv, OutcomeInv, LoaderInv, Workers, Requests, Capacity, Unlocked, LoopPcs,
      ExitPcs, HoldingPcs, Outcomes, Answers

\* Every step of the pool keeps the types, the breaker's bound included.
LEMMA StepTyped ==
  ASSUME TypeOK, ThreadInv, [Next]_vars
  PROVE  TypeOK'
<1> USE PoolAssumption DEF TypeOK, Workers, Requests, LoopPcs, ExitPcs,
                           HoldingPcs, Answers, Settled, initVars
<1>1. CASE InitCounts
  <2>1. loaded' \in Int /\ initPc' \in {"loading", "done", "failed"}
    BY <1>1 DEF InitCounts
  <2>2. initId' \in Workers
    BY <1>1 DEF InitCounts
  <2>3. wpc' \in [Workers -> {"unspawned", "starting"} \cup LoopPcs \cup ExitPcs]
    BY <1>1 DEF InitCounts
  <2>. QED
    BY <1>1, <2>1, <2>2, <2>3 DEF InitCounts
<1>2. CASE InitFails
  BY <1>2 DEF InitFails
<1>3. ASSUME NEW w \in Workers, WorkerStep(w)
      PROVE  TypeOK'
  <2>1. CASE StartupOk(w)
    BY <2>1 DEF StartupOk
  <2>2. CASE StartupErr(w)
    BY <2>2 DEF StartupErr
  <2>3. CASE LockReceiver(w)
    BY <2>3 DEF LockReceiver
  <2>4. CASE Receive(w)
    <3>1. /\ queue' \in Seq(Requests) /\ Len(queue') <= Capacity
          /\ Head(queue) \in Requests
      BY <2>4 DEF Receive, Capacity
    <3>2. wpc' \in [Workers -> {"unspawned", "starting"} \cup LoopPcs \cup ExitPcs]
      BY <2>4 DEF Receive
    <3>3. cur' \in [Workers -> Requests \cup {NoRequest}]
      BY <2>4, <3>1 DEF Receive
    <3>. QED
      BY <2>4, <3>1, <3>2, <3>3 DEF Receive
  <2>5. CASE IdleTimeout(w)
    <3>1. rxLock' \in Workers \cup {Unlocked}
      BY <2>5 DEF IdleTimeout
    <3>2. wpc' \in [Workers -> {"unspawned", "starting"} \cup LoopPcs \cup ExitPcs]
      BY <2>5 DEF IdleTimeout
    <3>3. models' \in [Workers -> BOOLEAN] /\ loaded' \in Int
      BY <2>5 DEF IdleTimeout
    <3>. QED
      BY <2>5, <3>1, <3>2, <3>3 DEF IdleTimeout
  <2>6. CASE ReceiveClosed(w)
    BY <2>6 DEF ReceiveClosed, Unlocked
  <2>7. CASE ReloadOk(w)
    BY <2>7 DEF ReloadOk
  <2>8. CASE ReloadErr(w)
    BY <2>8 DEF ReloadErr
  <2>9. CASE SkipAbandoned(w)
    BY <2>9 DEF SkipAbandoned
  <2>10. CASE StartInference(w)
    BY <2>10 DEF StartInference
  <2>11. CASE FinishInference(w)
    <3>1. PICK result \in Results(cur[w]) :
            /\ outcome' = [outcome EXCEPT
                   ![w] = ClassifyInferenceOutcome(cur[w], result, fails[w])]
            /\ call' = [call EXCEPT
                   ![cur[w]] = Settled(cur[w], IF result = "fatal" THEN "err"
                                               ELSE result)]
      BY <2>11 DEF FinishInference
    <3>2. fails[w] \in 0 .. Threshold - 1
      OBVIOUS
    <3>3. outcome' \in [Workers -> Outcomes]
      BY <3>1, <3>2, Classified
    <3>4. call' \in [Requests -> {"idle", "sending", "waiting", "abandoned"} \cup Answers]
      BY <3>1 DEF Results
    <3>. QED
      BY <2>11, <3>3, <3>4 DEF FinishInference
  <2>12. CASE Panic(w)
    BY <2>12 DEF Panic, Outcomes
  <2>13. CASE ApplyOutcome(w)
    <3>1. /\ fails[w] \in 0 .. Threshold - 1
          /\ outcome[w] \in Outcomes
          /\ outcome[w] = "Failure" => fails[w] + 1 < Threshold
      BY <2>13 DEF ApplyOutcome, ThreadInv, OutcomeInv
    <3>2. fails' \in [Workers -> 0 .. Threshold - 1]
      BY <2>13, <3>1, FailuresBounded DEF ApplyOutcome
    <3>3. models' \in [Workers -> BOOLEAN] /\ loaded' \in Int
      <4>1. CASE models' = [models EXCEPT ![w] = FALSE] /\ loaded' = loaded - 1
        BY <4>1
      <4>2. CASE UNCHANGED <<models, loaded>>
        BY <4>2
      <4>. QED
        BY <2>13, <4>1, <4>2 DEF ApplyOutcome
    <3>4. outcome' \in [Workers -> Outcomes]
      BY <2>13, <3>1 DEF ApplyOutcome, Outcomes
    <3>. QED
      BY <2>13, <3>2, <3>3, <3>4 DEF ApplyOutcome
  <2>14. CASE DropSession(w)
    BY <2>14 DEF DropSession
  <2>15. CASE DropGuard(w)
    BY <2>15 DEF DropGuard
  <2>16. CASE DropReceiver(w)
    <3>1. /\ queue' \in Seq(Requests) /\ Len(queue') <= Capacity
          /\ call' \in [Requests -> {"idle", "sending", "waiting", "abandoned"} \cup Answers]
      <4>1. CASE UNCHANGED <<queue, call>>
        BY <4>1
      <4>2. CASE /\ queue' = <<>>
                 /\ call' = [r \in Requests |->
                               IF InQueue(r) THEN Settled(r, "err") ELSE call[r]]
        BY <4>2 DEF Capacity
      <4>. QED
        BY <2>16, <4>1, <4>2 DEF DropReceiver
    <3>. QED
      BY <2>16, <3>1 DEF DropReceiver
  <2>. QED
    BY <1>3, <2>1, <2>2, <2>3, <2>4, <2>5, <2>6, <2>7, <2>8, <2>9, <2>10,
       <2>11, <2>12, <2>13, <2>14, <2>15, <2>16 DEF WorkerStep
<1>4. ASSUME NEW r \in Requests, CallerStep(r)
      PROVE  TypeOK'
  <2>1. CASE Call(r)
    BY <2>1 DEF Call
  <2>2. CASE Send(r)
    BY <2>2 DEF Send, Capacity
  <2>3. CASE SendClosed(r)
    BY <2>3 DEF SendClosed
  <2>4. CASE Abandon(r)
    BY <2>4 DEF Abandon
  <2>5. CASE Return(r)
    BY <2>5 DEF Return
  <2>. QED
    BY <1>4, <2>1, <2>2, <2>3, <2>4, <2>5 DEF CallerStep
<1>5. CASE DropPool
  BY <1>5 DEF DropPool
<1>6. CASE UNCHANGED vars
  BY <1>6 DEF vars
<1>. QED
  BY <1>1, <1>2, <1>3, <1>4, <1>5, <1>6 DEF Next

\* Every step keeps what a thread's place says of its request, session and
\* outcome, and the one-at-a-time loading of the init task.
LEMMA StepThread ==
  ASSUME TypeOK, ThreadInv, [Next]_vars
  PROVE  ThreadInv'
<1> USE PoolAssumption DEF TypeOK, ThreadInv, HeldInv, SessionInv, OutcomeInv,
                           LoaderInv, Workers, LoopPcs, ExitPcs, HoldingPcs, initVars
<1>1. CASE InitCounts
  <2>1. CASE initId + 1 < N
    <3>1. /\ wpc' = [wpc EXCEPT ![initId + 1] = "starting"]
          /\ initId' = initId + 1 /\ initPc' = initPc
          /\ ready' = "none" /\ ready = "ok" /\ initPc = "loading"
          /\ UNCHANGED <<models, fails, cur, outcome>>
      BY <1>1, <2>1 DEF InitCounts
    <3>2. wpc[initId + 1] = "unspawned" /\ initId + 1 \in Workers
      BY <2>1, <3>1
    <3>3. \A w \in Workers : wpc'[w] = IF w = initId + 1 THEN "starting" ELSE wpc[w]
      BY <3>1
    <3>4. HeldInv'
      BY <3>1, <3>2, <3>3
    <3>5. SessionInv'
      BY <3>1, <3>2, <3>3
    <3>6. OutcomeInv'
      BY <3>1, <3>2, <3>3
    <3>7. LoaderInv'
      BY <3>1, <3>2, <3>3
    <3>. QED
      BY <3>4, <3>5, <3>6, <3>7
  <2>2. CASE ~(initId + 1 < N)
    <3>1. /\ initPc' = "done" /\ UNCHANGED <<initId, wpc, models, fails, cur, outcome>>
          /\ ready' = "none" /\ ready = "ok"
      BY <1>1, <2>2 DEF InitCounts
    <3>. QED
      BY <3>1
  <2>. QED
    BY <2>1, <2>2
<1>2. CASE InitFails
  BY <1>2 DEF InitFails
<1>3. ASSUME NEW w \in Workers, WorkerStep(w)
      PROVE  ThreadInv'
  <2>1. CASE StartupOk(w)
    <3>1. HeldInv'
      BY <2>1 DEF StartupOk
    <3>2. SessionInv'
      BY <2>1 DEF StartupOk
    <3>3. OutcomeInv'
      BY <2>1 DEF StartupOk
    <3>4. LoaderInv'
      BY <2>1 DEF StartupOk
    <3>. QED
      BY <3>1, <3>2, <3>3, <3>4
  <2>2. CASE StartupErr(w)
    BY <2>2 DEF StartupErr
  <2>3. CASE LockReceiver(w)
    BY <2>3 DEF LockReceiver
  <2>4. CASE Receive(w)
    <3>1. Head(queue) \in Requests /\ Head(queue) # NoRequest
      BY <2>4 DEF Receive, Requests
    <3>2. HeldInv'
      BY <2>4, <3>1 DEF Receive
    <3>3. SessionInv'
      BY <2>4, <3>1 DEF Receive
    <3>4. OutcomeInv'
      BY <2>4, <3>1 DEF Receive
    <3>5. LoaderInv'
      BY <2>4, <3>1 DEF Receive
    <3>. QED
      BY <3>2, <3>3, <3>4, <3>5
  <2>5. CASE IdleTimeout(w)
    <3>1. /\ wpc' = [wpc EXCEPT ![w] = "loop"]
          /\ models' = [models EXCEPT ![w] = FALSE]
          /\ UNCHANGED <<initPc, initId, ready, fails, cur, outcome>>
          /\ wpc[w] \in {"loop", "recv"}
      BY <2>5 DEF IdleTimeout
    <3>. QED
      BY <3>1
  <2>6. CASE ReceiveClosed(w)
    BY <2>6 DEF ReceiveClosed
  <2>7. CASE ReloadOk(w)
    BY <2>7 DEF ReloadOk
  <2>8. CASE ReloadErr(w)
    <3>1. HeldInv'
      BY <2>8 DEF ReloadErr
    <3>2. SessionInv'
      BY <2>8 DEF ReloadErr
    <3>3. OutcomeInv'
      BY <2>8 DEF ReloadErr
    <3>4. LoaderInv'
      BY <2>8 DEF ReloadErr
    <3>. QED
      BY <3>1, <3>2, <3>3, <3>4
  <2>9. CASE SkipAbandoned(w)
    <3>1. HeldInv'
      BY <2>9 DEF SkipAbandoned
    <3>2. SessionInv'
      BY <2>9 DEF SkipAbandoned
    <3>3. OutcomeInv'
      BY <2>9 DEF SkipAbandoned
    <3>4. LoaderInv'
      BY <2>9 DEF SkipAbandoned
    <3>. QED
      BY <3>1, <3>2, <3>3, <3>4
  <2>10. CASE StartInference(w)
    BY <2>10 DEF StartInference
  <2>11. CASE FinishInference(w)
    <3>1. PICK result \in Results(cur[w]) :
            outcome' = [outcome EXCEPT
                   ![w] = ClassifyInferenceOutcome(cur[w], result, fails[w])]
      BY <2>11 DEF FinishInference
    <3>2. fails[w] \in 0 .. Threshold - 1
      OBVIOUS
    <3>3. /\ outcome'[w] # "Panicked"
          /\ outcome'[w] = "Failure" => fails[w] + 1 < Threshold
          /\ \A v \in Workers \ {w} : outcome'[v] = outcome[v]
      BY <3>1, <3>2, Classified
    <3>. QED
      BY <2>11, <3>3 DEF FinishInference
  <2>12. CASE Panic(w)
    BY <2>12 DEF Panic
  <2>13. CASE ApplyOutcome(w)
    <3>1. /\ wpc[w] = "finished"
          /\ wpc' = [wpc EXCEPT ![w] = IF outcome[w] = "TrtFatal" THEN "dropSession"
                                       ELSE "loop"]
          /\ outcome' = [outcome EXCEPT ![w] = IF @ = "TrtFatal" THEN @ ELSE "Ok"]
          /\ UNCHANGED <<initPc, initId, ready, cur>>
          /\ \A v \in Workers \ {w} : fails'[v] = fails[v]
      BY <2>13 DEF ApplyOutcome
    <3>2. \A v \in Workers \ {w} : models'[v] = models[v]
      BY <2>13 DEF ApplyOutcome
    <3>3. wpc'[w] \in {"dropSession", "loop"}
      BY <3>1
    <3>4. \A v \in Workers \ {w} : wpc'[v] = wpc[v] /\ outcome'[v] = outcome[v]
      BY <3>1
    <3>5. wpc'[w] = "loop" => outcome'[w] = "Ok"
      BY <3>1
    <3>6. cur[w] = NoRequest
      BY <3>1
    <3>7. HeldInv'
      BY <3>1, <3>3, <3>4, <3>6
    <3>8. SessionInv'
      BY <3>2, <3>3, <3>4
    <3>9. OutcomeInv'
      BY <3>1, <3>3, <3>4, <3>5
    <3>10. LoaderInv'
      BY <3>1, <3>3, <3>4
    <3>. QED
      BY <3>7, <3>8, <3>9, <3>10
  <2>14. CASE DropSession(w)
    BY <2>14 DEF DropSession
  <2>15. CASE DropGuard(w)
    BY <2>15 DEF DropGuard
  <2>16. CASE DropReceiver(w)
    BY <2>16 DEF DropReceiver
  <2>. QED
    BY <1>3, <2>1, <2>2, <2>3, <2>4, <2>5, <2>6, <2>7, <2>8, <2>9, <2>10,
       <2>11, <2>12, <2>13, <2>14, <2>15, <2>16 DEF WorkerStep
<1>4. ASSUME NEW r \in Requests, CallerStep(r)
      PROVE  ThreadInv'
  <2>1. CASE Call(r)
    BY <2>1 DEF Call
  <2>2. CASE Send(r)
    BY <2>2 DEF Send
  <2>3. CASE SendClosed(r)
    BY <2>3 DEF SendClosed
  <2>4. CASE Abandon(r)
    BY <2>4 DEF Abandon
  <2>5. CASE Return(r)
    BY <2>5 DEF Return
  <2>. QED
    BY <1>4, <2>1, <2>2, <2>3, <2>4, <2>5 DEF CallerStep
<1>5. CASE DropPool
  BY <1>5 DEF DropPool
<1>6. CASE UNCHANGED vars
  BY <1>6 DEF vars
<1>. QED
  BY <1>1, <1>2, <1>3, <1>4, <1>5, <1>6 DEF Next

-----------------------------------------------------------------------------
(* Requests *)

\* Joining the channel: the new request is in it, with all that were, and once
\* if it was not there before.
LEMMA JoinLine ==
  ASSUME NEW S, NEW s \in Seq(S), NEW x \in S
  PROVE  /\ \A y : (\E i \in 1 .. Len(Append(s, x)) : Append(s, x)[i] = y)
                    <=> y = x \/ \E i \in 1 .. Len(s) : s[i] = y
         /\ (\A i \in 1 .. Len(s) : s[i] # x)
              /\ (\A i, j \in 1 .. Len(s) : s[i] = s[j] => i = j)
            => \A i, j \in 1 .. Len(Append(s, x)) :
                 Append(s, x)[i] = Append(s, x)[j] => i = j
<1> DEFINE t == Append(s, x)
<1>1. /\ Len(s) \in Nat /\ Len(t) = Len(s) + 1 /\ t[Len(s) + 1] = x
      /\ \A i \in 1 .. Len(s) : t[i] = s[i]
  OBVIOUS
<1> HIDE DEF t
<1>2. \A i \in 1 .. Len(t) : i \in 1 .. Len(s) \/ i = Len(s) + 1
  BY <1>1
<1>3. Len(s) + 1 \in 1 .. Len(t) /\ \A i \in 1 .. Len(s) : i \in 1 .. Len(t)
  BY <1>1
<1>4. ASSUME NEW y  PROVE (\E i \in 1 .. Len(t) : t[i] = y)
                             <=> y = x \/ \E i \in 1 .. Len(s) : s[i] = y
  BY <1>1, <1>2, <1>3
<1>5. ASSUME \A i \in 1 .. Len(s) : s[i] # x,
             \A i, j \in 1 .. Len(s) : s[i] = s[j] => i = j,
             NEW i \in 1 .. Len(t), NEW j \in 1 .. Len(t), t[i] = t[j]
      PROVE  i = j
  BY <1>1, <1>2, <1>5
<1>. QED
  BY <1>4, <1>5 DEF t

\* Leaving the channel: the others stay, each still once.
LEMMA LeaveLine ==
  ASSUME NEW S, NEW s \in Seq(S), s # <<>>,
         \A i, j \in 1 .. Len(s) : s[i] = s[j] => i = j
  PROVE  /\ Head(s) \in S
         /\ \A y : (\E i \in 1 .. Len(s) : s[i] = y)
                    <=> y = Head(s) \/ \E i \in 1 .. Len(Tail(s)) : Tail(s)[i] = y
         /\ \A i \in 1 .. Len(Tail(s)) : Tail(s)[i] # Head(s)
         /\ \A i, j \in 1 .. Len(Tail(s)) : Tail(s)[i] = Tail(s)[j] => i = j
<1> DEFINE t == Tail(s)
<1>1. /\ Len(s) \in Nat /\ Len(s) > 0 /\ Len(t) = Len(s) - 1 /\ Head(s) = s[1]
      /\ Head(s) \in S /\ \A i \in 1 .. Len(t) : t[i] = s[i + 1]
  OBVIOUS
<1> HIDE DEF t
<1>2. \A i \in 1 .. Len(t) : i + 1 \in 1 .. Len(s) /\ i + 1 # 1 /\ i \in Int
  BY <1>1
<1>3. \A i \in 1 .. Len(s) : i = 1 \/ (i - 1 \in 1 .. Len(t) /\ (i - 1) + 1 = i)
  BY <1>1
<1>4. 1 \in 1 .. Len(s)
  BY <1>1
<1>5. ASSUME NEW y, NEW i \in 1 .. Len(s), s[i] = y, y # Head(s)
      PROVE  \E k \in 1 .. Len(t) : t[k] = y
  <2>1. i - 1 \in 1 .. Len(t) /\ (i - 1) + 1 = i
    BY <1>1, <1>3, <1>5
  <2>2. t[i - 1] = y
    BY <1>1, <1>5, <2>1
  <2>. QED
    BY <2>1, <2>2
<1>6. \A i \in 1 .. Len(t) : t[i] # Head(s)
  BY <1>1, <1>2, <1>4
<1>7. ASSUME NEW i \in 1 .. Len(t), NEW j \in 1 .. Len(t), t[i] = t[j]
      PROVE  i = j
  <2>1. i + 1 = j + 1
    BY <1>1, <1>2, <1>7
  <2>. QED
    BY <1>2, <2>1
<1>8. \A y : (\E i \in 1 .. Len(s) : s[i] = y)
             <=> y = Head(s) \/ \E i \in 1 .. Len(t) : t[i] = y
  <2>1. ASSUME NEW i \in 1 .. Len(t)  PROVE \E k \in 1 .. Len(s) : s[k] = t[i]
    BY <1>1, <1>2
  <2>. QED
    BY <1>1, <1>4, <1>5, <2>1
<1>. QED
  BY <1>1, <1>6, <1>7, <1>8 DEF t

\* A step that moves no request and neither accepts nor answers a call.
LEMMA RequestFrame ==
  ASSUME RequestConservation, UNCHANGED <<queue, cur>>,
         \A r \in Requests : InFlight(r)' <=> InFlight(r)
  PROVE  RequestConservation'
  BY DEF RequestConservation, InQueue

\* A worker lets go of its request and settles its call, once.
LEMMA RequestSettled ==
  ASSUME TypeOK, RequestConservation, NEW w \in Workers, cur[w] \in Requests,
         NEW a, a \notin {"waiting", "abandoned"},
         queue' = queue, cur' = [cur EXCEPT ![w] = NoRequest],
         call' = [call EXCEPT ![cur[w]] = a]
  PROVE  RequestConservation'
<1> USE PoolAssumption DEF TypeOK, Requests, InQueue, RequestConservation
<1>1. \A v \in Workers : cur'[v] = IF v = w THEN NoRequest ELSE cur[v]
  OBVIOUS
<1>2. \A i \in 1 .. Len(queue) : queue[i] # NoRequest
  OBVIOUS
<1>3. \A v \in Workers, i \in 1 .. Len(queue') : queue'[i] # cur'[v]
  BY <1>1, <1>2
<1>4. \A u, v \in Workers : cur'[u] = cur'[v] /\ cur'[u] # NoRequest => u = v
  BY <1>1
<1>5. \A r \in Requests : InFlight(r)' <=> InQueue(r)' \/ \E v \in Workers : cur'[v] = r
  <2> SUFFICES ASSUME NEW r \in Requests
               PROVE  InFlight(r)' <=> InQueue(r)' \/ \E v \in Workers : cur'[v] = r
    OBVIOUS
  <2>1. CASE r = cur[w]
    BY <1>1, <2>1 DEF InFlight
  <2>2. CASE r # cur[w]
    <3>1. InFlight(r)' <=> InFlight(r)
      BY <2>2 DEF InFlight
    <3>2. (\E v \in Workers : cur'[v] = r) <=> \E v \in Workers : cur[v] = r
      BY <1>1, <2>2
    <3>. QED
      BY <3>1, <3>2
  <2>. QED
    BY <2>1, <2>2
<1>6. \A i, j \in 1 .. Len(queue') : queue'[i] = queue'[j] => i = j
  OBVIOUS
<1>7. \A v \in Workers : ~InQueue(cur[v])'
  BY <1>3
<1>. QED
  BY <1>4, <1>5, <1>6, <1>7

\* Every step keeps each accepted request in exactly one place.
LEMMA StepRequests ==
  ASSUME TypeOK, ThreadInv, RequestConservation, [Next]_vars
  PROVE  RequestConservation'
<1>1. CASE InitCounts
  BY <1>1, RequestFrame DEF InitCounts, InFlight, initVars
<1>2. CASE InitFails
  BY <1>2, RequestFrame DEF InitFails, InFlight, initVars
<1>3. ASSUME NEW w \in Workers, WorkerStep(w)
      PROVE  RequestConservation'
  <2>1. CASE StartupOk(w)
    BY <2>1, RequestFrame DEF StartupOk, InFlight, initVars
  <2>2. CASE StartupErr(w)
    BY <2>2, RequestFrame DEF StartupErr, InFlight, initVars
  <2>3. CASE LockReceiver(w)
    BY <2>3, RequestFrame DEF LockReceiver, InFlight, initVars
  <2>4. CASE Receive(w)
    <3>1. /\ queue # <<>> /\ queue' = Tail(queue) /\ call' = call
          /\ cur' = [cur EXCEPT ![w] = Head(queue)]
          /\ queue \in Seq(Requests) /\ cur \in [Workers -> Requests \cup {NoRequest}]
      BY <2>4 DEF Receive, TypeOK
    <3>2. cur[w] = NoRequest
      BY <2>4 DEF Receive, ThreadInv, HeldInv, HoldingPcs
    <3>3. /\ Head(queue) \in Requests
          /\ \A q : InQueue(q) <=> q = Head(queue) \/ InQueue(q)'
          /\ \A i \in 1 .. Len(queue') : queue'[i] # Head(queue)
          /\ \A i, j \in 1 .. Len(queue') : queue'[i] = queue'[j] => i = j
      <4>1. /\ Head(queue) \in Requests
            /\ \A y : (\E i \in 1 .. Len(queue) : queue[i] = y)
                 <=> y = Head(queue) \/ \E i \in 1 .. Len(Tail(queue)) : Tail(queue)[i] = y
            /\ \A i \in 1 .. Len(Tail(queue)) : Tail(queue)[i] # Head(queue)
            /\ \A i, j \in 1 .. Len(Tail(queue)) : Tail(queue)[i] = Tail(queue)[j] => i = j
        <5>1. \A i, j \in 1 .. Len(queue) : queue[i] = queue[j] => i = j
          BY DEF RequestConservation
        <5>. QED
          BY <3>1, <5>1, LeaveLine
      <4>. QED
        BY <3>1, <4>1 DEF InQueue
    <3>4. \A v \in Workers : cur'[v] = IF v = w THEN Head(queue) ELSE cur[v]
      BY <3>1
    <3>5. Head(queue) # NoRequest /\ \A v \in Workers : cur[v] # Head(queue)
      BY <3>3, PoolAssumption DEF RequestConservation, Requests
    <3>6. \A v \in Workers, i \in 1 .. Len(queue') : queue'[i] # cur'[v]
      <4>1. ASSUME NEW v \in Workers, NEW i \in 1 .. Len(queue'), queue'[i] = cur[v]
            PROVE  FALSE
        BY <3>3, <4>1 DEF RequestConservation, InQueue
      <4>. QED
        BY <3>3, <3>4, <4>1
    <3>7. \A u, v \in Workers : cur'[u] = cur'[v] /\ cur'[u] # NoRequest => u = v
      BY <3>4, <3>5 DEF RequestConservation
    <3>8. \A q \in Requests : InFlight(q)' <=> InQueue(q)' \/ \E v \in Workers : cur'[v] = q
      <4> SUFFICES ASSUME NEW q \in Requests
                   PROVE  InFlight(q)' <=> InQueue(q)' \/ \E v \in Workers : cur'[v] = q
        OBVIOUS
      <4>1. q # NoRequest
        BY PoolAssumption DEF Requests
      <4>2. (\E v \in Workers : cur'[v] = q)
              <=> q = Head(queue) \/ \E v \in Workers : cur[v] = q
        BY <3>2, <3>4, <4>1
      <4>. QED
        BY <3>1, <3>3, <4>2 DEF InFlight, RequestConservation
    <3>. QED
      BY <3>3, <3>6, <3>7, <3>8 DEF RequestConservation, InQueue
  <2>5. CASE IdleTimeout(w)
    BY <2>5, RequestFrame DEF IdleTimeout, InFlight, initVars
  <2>6. CASE ReceiveClosed(w)
    BY <2>6, RequestFrame DEF ReceiveClosed, InFlight, initVars
  <2>7. CASE ReloadOk(w)
    BY <2>7, RequestFrame DEF ReloadOk, InFlight, initVars
  <2>8. CASE ReloadErr(w)
    <3>1. cur[w] \in Requests
      BY <2>8 DEF ReloadErr, TypeOK, ThreadInv, HeldInv, HoldingPcs
    <3>. QED
      BY <2>8, <3>1, RequestSettled DEF ReloadErr, Settled
  <2>9. CASE SkipAbandoned(w)
    <3>1. cur[w] \in Requests
      BY <2>9 DEF SkipAbandoned, TypeOK, ThreadInv, HeldInv, HoldingPcs
    <3>. QED
      BY <2>9, <3>1, RequestSettled DEF SkipAbandoned, Settled
  <2>10. CASE StartInference(w)
    BY <2>10, RequestFrame DEF StartInference, InFlight, initVars
  <2>11. CASE FinishInference(w)
    <3>1. cur[w] \in Requests
      BY <2>11 DEF FinishInference, TypeOK, ThreadInv, HeldInv, HoldingPcs
    <3>2. PICK result \in Results(cur[w]) :
            call' = [call EXCEPT
                   ![cur[w]] = Settled(cur[w], IF result = "fatal" THEN "err"
                                               ELSE result)]
      BY <2>11 DEF FinishInference
    <3>3. Settled(cur[w], IF result = "fatal" THEN "err" ELSE result)
            \notin {"waiting", "abandoned"}
      BY DEF Settled, Results
    <3>. QED
      BY <2>11, <3>1, <3>2, <3>3, RequestSettled DEF FinishInference
  <2>12. CASE Panic(w)
    <3>1. cur[w] \in Requests
      BY <2>12 DEF Panic, TypeOK, ThreadInv, HeldInv, HoldingPcs
    <3>. QED
      BY <2>12, <3>1, RequestSettled DEF Panic, Settled
  <2>13. CASE ApplyOutcome(w)
    BY <2>13, RequestFrame DEF ApplyOutcome, InFlight, initVars
  <2>14. CASE DropSession(w)
    BY <2>14, RequestFrame DEF DropSession, InFlight, initVars
  <2>15. CASE DropGuard(w)
    BY <2>15, RequestFrame DEF DropGuard, InFlight, initVars
  <2>16. CASE DropReceiver(w)
    <3>1. CASE UNCHANGED <<queue, call>>
      BY <2>16, <3>1, RequestFrame DEF DropReceiver, InFlight
    <3>2. CASE /\ LastOwner(w)
               /\ queue' = <<>>
               /\ call' = [q \in Requests |->
                             IF InQueue(q) THEN Settled(q, "err") ELSE call[q]]
      <4>1. \A v \in Workers : cur'[v] = NoRequest
        BY <2>16, <3>2 DEF DropReceiver, LastOwner, ThreadInv, HeldInv, HoldingPcs
      <4>2. \A q \in Requests : ~InFlight(q)'
        <5> SUFFICES ASSUME NEW q \in Requests
                     PROVE  ~InFlight(q)'
          OBVIOUS
        <5>1. CASE InQueue(q)
          BY <3>2, <5>1 DEF InFlight, Settled
        <5>2. CASE ~InQueue(q)
          <6>1. \A v \in Workers : cur[v] # q
            BY <2>16, <4>1, PoolAssumption DEF DropReceiver, Requests
          <6>. QED
            BY <3>2, <5>2, <6>1 DEF InFlight, RequestConservation
        <5>. QED
          BY <5>1, <5>2
      <4>. QED
        BY <3>2, <4>1, <4>2, PoolAssumption
        DEF RequestConservation, InQueue, Requests
    <3>. QED
      BY <2>16, <3>1, <3>2 DEF DropReceiver
  <2>. QED
    BY <1>3, <2>1, <2>2, <2>3, <2>4, <2>5, <2>6, <2>7, <2>8, <2>9, <2>10,
       <2>11, <2>12, <2>13, <2>14, <2>15, <2>16 DEF WorkerStep
<1>4. ASSUME NEW r \in Requests, CallerStep(r)
      PROVE  RequestConservation'
  <2>1. CASE Call(r)
    <3>1. \A q \in Requests : InFlight(q)' <=> InFlight(q)
      BY <2>1 DEF Call, InFlight, TypeOK, Answers
    <3>. QED
      BY <2>1, <3>1, RequestFrame DEF Call
  <2>2. CASE Send(r)
    <3>1. /\ call[r] = "sending" /\ queue' = Append(queue, r) /\ cur' = cur
          /\ call' = [call EXCEPT ![r] = "waiting"] /\ queue \in Seq(Requests)
      BY <2>2 DEF Send, TypeOK
    <3>2. ~InQueue(r) /\ \A v \in Workers : cur[v] # r
      BY <3>1 DEF InFlight, RequestConservation
    <3>3. /\ \A q : InQueue(q)' <=> q = r \/ InQueue(q)
          /\ \A i, j \in 1 .. Len(queue') : queue'[i] = queue'[j] => i = j
      BY <3>1, <3>2, JoinLine DEF InQueue, RequestConservation
    <3>4. \A v \in Workers, i \in 1 .. Len(queue') : queue'[i] # cur'[v]
      BY <3>1, <3>2, <3>3 DEF RequestConservation, InQueue
    <3>5. \A q \in Requests : InFlight(q)' <=> q = r \/ InFlight(q)
      BY <3>1 DEF InFlight, TypeOK
    <3>. QED
      <4>1. \A q \in Requests : InFlight(q)' <=> InQueue(q)' \/ \E v \in Workers : cur'[v] = q
        BY <3>1, <3>2, <3>3, <3>5 DEF RequestConservation
      <4>. QED
        BY <3>1, <3>3, <3>4, <4>1 DEF RequestConservation, InQueue
  <2>3. CASE SendClosed(r)
    <3>1. \A q \in Requests : InFlight(q)' <=> InFlight(q)
      BY <2>3 DEF SendClosed, InFlight, TypeOK, Answers
    <3>. QED
      BY <2>3, <3>1, RequestFrame DEF SendClosed
  <2>4. CASE Abandon(r)
    <3>1. \A q \in Requests : InFlight(q)' <=> InFlight(q)
      <4>1. CASE call[r] = "sending" /\ call' = [call EXCEPT ![r] = "idle"]
        BY <4>1 DEF InFlight, TypeOK
      <4>2. CASE call[r] = "waiting" /\ call' = [call EXCEPT ![r] = "abandoned"]
        BY <4>2 DEF InFlight, TypeOK
      <4>. QED
        BY <2>4, <4>1, <4>2 DEF Abandon
    <3>. QED
      BY <2>4, <3>1, RequestFrame DEF Abandon
  <2>5. CASE Return(r)
    <3>1. \A q \in Requests : InFlight(q)' <=> InFlight(q)
      BY <2>5 DEF Return, InFlight, TypeOK, Answers
    <3>. QED
      BY <2>5, <3>1, RequestFrame DEF Return
  <2>. QED
    BY <1>4, <2>1, <2>2, <2>3, <2>4, <2>5 DEF CallerStep
<1>5. CASE DropPool
  BY <1>5, RequestFrame DEF DropPool, InFlight, initVars
<1>6. CASE UNCHANGED vars
  BY <1>6, RequestFrame DEF vars, InFlight
<1>. QED
  BY <1>1, <1>2, <1>3, <1>4, <1>5, <1>6 DEF Next

-----------------------------------------------------------------------------
(* The two counters *)

\* Cardinalities of sets of workers, and what one element more or less does.
LEMMA WorkerCount ==
  ASSUME NEW S, S \subseteq Workers, NEW w \in Workers
  PROVE  /\ IsFiniteSet(S) /\ Cardinality(S) \in Nat
         /\ w \notin S => Cardinality(S \cup {w}) = Cardinality(S) + 1
         /\ w \in S => Cardinality(S \ {w}) = Cardinality(S) - 1
<1>1. IsFiniteSet(Workers)
  BY PoolAssumption, FS_Interval DEF Workers
<1>2. IsFiniteSet(S) /\ Cardinality(S) \in Nat
  BY <1>1, FS_Subset, FS_CardinalityType
<1>. QED
  BY <1>2, FS_AddElement, FS_RemoveElement

\* Only the drop of a WorkerGuard changes live_workers, and it always does.
LEMMA StepLive ==
  ASSUME TypeOK, ThreadInv, LiveAccounting, [Next]_vars
  PROVE  LiveAccounting'
<1> DEFINE Guarded == {v \in Workers : wpc[v] \notin {"dropRx", "exited"}}
<1> USE DEF LiveAccounting
<1>1. CASE InitCounts
  <2>1. Guarded' = Guarded
    <3>1. \A v \in Workers : \/ wpc'[v] = wpc[v]
                             \/ wpc[v] = "unspawned" /\ wpc'[v] = "starting"
      BY <1>1, PoolAssumption DEF InitCounts, ThreadInv, LoaderInv, TypeOK, Workers
    <3>. QED
      BY <3>1
  <2>. QED
    BY <1>1, <2>1 DEF InitCounts
<1>2. CASE InitFails
  BY <1>2 DEF InitFails
<1>3. ASSUME NEW w \in Workers, WorkerStep(w)
      PROVE  LiveAccounting'
  <2>1. CASE StartupOk(w)
    <3>1. Guarded' = Guarded
      BY <2>1 DEF StartupOk, TypeOK
    <3>. QED
      BY <2>1, <3>1 DEF StartupOk
  <2>2. CASE StartupErr(w)
    <3>1. Guarded' = Guarded
      BY <2>2 DEF StartupErr, TypeOK
    <3>. QED
      BY <2>2, <3>1 DEF StartupErr
  <2>3. CASE LockReceiver(w)
    <3>1. Guarded' = Guarded
      BY <2>3 DEF LockReceiver, TypeOK
    <3>. QED
      BY <2>3, <3>1 DEF LockReceiver
  <2>4. CASE Receive(w)
    <3>1. Guarded' = Guarded
      BY <2>4 DEF Receive, TypeOK
    <3>. QED
      BY <2>4, <3>1 DEF Receive
  <2>5. CASE IdleTimeout(w)
    <3>1. Guarded' = Guarded
      BY <2>5 DEF IdleTimeout, TypeOK
    <3>. QED
      BY <2>5, <3>1 DEF IdleTimeout
  <2>6. CASE ReceiveClosed(w)
    <3>1. Guarded' = Guarded
      BY <2>6 DEF ReceiveClosed, TypeOK
    <3>. QED
      BY <2>6, <3>1 DEF ReceiveClosed
  <2>7. CASE ReloadOk(w)
    <3>1. Guarded' = Guarded
      BY <2>7 DEF ReloadOk, TypeOK
    <3>. QED
      BY <2>7, <3>1 DEF ReloadOk
  <2>8. CASE ReloadErr(w)
    <3>1. Guarded' = Guarded
      BY <2>8 DEF ReloadErr, TypeOK
    <3>. QED
      BY <2>8, <3>1 DEF ReloadErr
  <2>9. CASE SkipAbandoned(w)
    <3>1. Guarded' = Guarded
      BY <2>9 DEF SkipAbandoned, TypeOK
    <3>. QED
      BY <2>9, <3>1 DEF SkipAbandoned
  <2>10. CASE StartInference(w)
    <3>1. Guarded' = Guarded
      BY <2>10 DEF StartInference, TypeOK
    <3>. QED
      BY <2>10, <3>1 DEF StartInference
  <2>11. CASE FinishInference(w)
    <3>1. Guarded' = Guarded
      BY <2>11 DEF FinishInference, TypeOK
    <3>. QED
      BY <2>11, <3>1 DEF FinishInference
  <2>12. CASE Panic(w)
    <3>1. Guarded' = Guarded
      BY <2>12 DEF Panic, TypeOK
    <3>. QED
      BY <2>12, <3>1 DEF Panic
  <2>13. CASE ApplyOutcome(w)
    <3>1. Guarded' = Guarded
      BY <2>13 DEF ApplyOutcome, TypeOK
    <3>. QED
      BY <2>13, <3>1 DEF ApplyOutcome
  <2>14. CASE DropSession(w)
    <3>1. Guarded' = Guarded
      BY <2>14 DEF DropSession, TypeOK
    <3>. QED
      BY <2>14, <3>1 DEF DropSession
  <2>15. CASE DropGuard(w)
    <3>1. Guarded' = Guarded \ {w} /\ w \in Guarded
      BY <2>15 DEF DropGuard, TypeOK
    <3>2. Cardinality(Guarded') = Cardinality(Guarded) - 1
      BY <3>1, WorkerCount
    <3>. QED
      BY <2>15, <3>2 DEF DropGuard
  <2>16. CASE DropReceiver(w)
    <3>1. Guarded' = Guarded
      BY <2>16 DEF DropReceiver, TypeOK
    <3>. QED
      BY <2>16, <3>1 DEF DropReceiver
  <2>. QED
    BY <1>3, <2>1, <2>2, <2>3, <2>4, <2>5, <2>6, <2>7, <2>8, <2>9, <2>10,
       <2>11, <2>12, <2>13, <2>14, <2>15, <2>16 DEF WorkerStep
<1>4. ASSUME NEW r \in Requests, CallerStep(r)
      PROVE  LiveAccounting'
  <2>1. CASE Call(r)
    BY <2>1 DEF Call
  <2>2. CASE Send(r)
    BY <2>2 DEF Send
  <2>3. CASE SendClosed(r)
    BY <2>3 DEF SendClosed
  <2>4. CASE Abandon(r)
    BY <2>4 DEF Abandon
  <2>5. CASE Return(r)
    BY <2>5 DEF Return
  <2>. QED
    BY <1>4, <2>1, <2>2, <2>3, <2>4, <2>5 DEF CallerStep
<1>5. CASE DropPool
  BY <1>5 DEF DropPool
<1>6. CASE UNCHANGED vars
  BY <1>6 DEF vars
<1>. QED
  BY <1>1, <1>2, <1>3, <1>4, <1>5, <1>6 DEF Next

\* Every step that creates or destroys a session moves loaded_workers with it,
\* or leaves the difference to the init task (the signal) or to the two leaks.
LEMMA StepLoaded ==
  ASSUME TypeOK, ThreadInv, LoadedAccounting, [Next]_vars
  PROVE  LoadedAccounting'
<1> DEFINE Counted == {v \in Workers : CountedLoaded(v)}
<1> USE DEF LoadedAccounting, UncountedSignals
<1>0. Cardinality(Counted) \in Nat
  BY WorkerCount, PoolAssumption, 0 \in Workers DEF Workers
<1>1. CASE InitCounts
  <2>1. Counted' = Counted
    <3>1. \A v \in Workers : \/ wpc'[v] = wpc[v]
                             \/ wpc[v] = "unspawned" /\ wpc'[v] = "starting"
      BY <1>1, PoolAssumption DEF InitCounts, ThreadInv, LoaderInv, TypeOK, Workers
    <3>. QED
      BY <1>1, <3>1 DEF InitCounts, CountedLoaded, LoopPcs, ExitPcs
  <2>2. Cardinality(Counted') = Cardinality(Counted)
    BY <2>1
  <2>3. ready = "ok" /\ ready' = "none" /\ loaded' = loaded + 1
    BY <1>1 DEF InitCounts
  <2>. QED
    BY <1>0, <2>2, <2>3
<1>2. CASE InitFails
  BY <1>2 DEF InitFails, CountedLoaded
<1>3. ASSUME NEW w \in Workers, WorkerStep(w)
      PROVE  LoadedAccounting'
  <2>1. CASE StartupOk(w)
    <3>1. Counted' = Counted \cup {w} /\ w \notin Counted
      BY <2>1 DEF StartupOk, CountedLoaded, LoopPcs, ExitPcs,
             TypeOK, ThreadInv, SessionInv, OutcomeInv, LoaderInv, initVars
    <3>2. Cardinality(Counted') = Cardinality(Counted) + 1 /\ Cardinality(Counted) \in Nat
      BY <3>1, WorkerCount
    <3>. QED
      BY <2>1, <3>2 DEF StartupOk, ThreadInv, LoaderInv, initVars
  <2>2. CASE StartupErr(w)
    <3>1. Counted' = Counted
      BY <2>2 DEF StartupErr, CountedLoaded, LoopPcs, ExitPcs,
             TypeOK, ThreadInv, SessionInv, OutcomeInv, LoaderInv, initVars
    <3>. QED
      BY <2>2, <3>1 DEF StartupErr, ThreadInv, LoaderInv, initVars
  <2>3. CASE LockReceiver(w)
    <3>1. Counted' = Counted
      BY <2>3 DEF LockReceiver, CountedLoaded, LoopPcs, ExitPcs,
             TypeOK, ThreadInv, SessionInv, OutcomeInv, LoaderInv, initVars
    <3>. QED
      BY <2>3, <3>1 DEF LockReceiver, ThreadInv, LoaderInv, initVars
  <2>4. CASE Receive(w)
    <3>1. Counted' = Counted
      BY <2>4 DEF Receive, CountedLoaded, LoopPcs, ExitPcs,
             TypeOK, ThreadInv, SessionInv, OutcomeInv, LoaderInv, initVars
    <3>. QED
      BY <2>4, <3>1 DEF Receive, ThreadInv, LoaderInv, initVars
  <2>5. CASE IdleTimeout(w)
    <3>1. Counted' = Counted \ {w} /\ w \in Counted
      BY <2>5 DEF IdleTimeout, CountedLoaded, LoopPcs, ExitPcs,
             TypeOK, ThreadInv, SessionInv, OutcomeInv, LoaderInv, initVars
    <3>2. Cardinality(Counted') = Cardinality(Counted) - 1 /\ Cardinality(Counted) \in Nat
      BY <3>1, WorkerCount
    <3>. QED
      BY <2>5, <3>2 DEF IdleTimeout, initVars
  <2>6. CASE ReceiveClosed(w)
    <3>1. CASE models[w]
      <4>1. Counted' = Counted \ {w} /\ w \in Counted
        BY <2>6, <3>1 DEF ReceiveClosed, CountedLoaded, LoopPcs, ExitPcs,
             TypeOK, ThreadInv, SessionInv, OutcomeInv, LoaderInv, initVars
      <4>2. Cardinality(Counted') = Cardinality(Counted) - 1 /\ Cardinality(Counted) \in Nat
        BY <4>1, WorkerCount
      <4>. QED
        BY <2>6, <3>1, <4>2 DEF ReceiveClosed, initVars
    <3>2. CASE ~(models[w])
      <4>1. Counted' = Counted
        BY <2>6, <3>2 DEF ReceiveClosed, CountedLoaded, LoopPcs, ExitPcs,
             TypeOK, ThreadInv, SessionInv, OutcomeInv, LoaderInv, initVars
      <4>. QED
        BY <2>6, <3>2, <4>1 DEF ReceiveClosed, initVars
    <3>. QED
      BY <3>1, <3>2
  <2>7. CASE ReloadOk(w)
    <3>1. Counted' = Counted \cup {w} /\ w \notin Counted
      BY <2>7 DEF ReloadOk, CountedLoaded, LoopPcs, ExitPcs,
             TypeOK, ThreadInv, SessionInv, OutcomeInv, LoaderInv, initVars
    <3>2. Cardinality(Counted') = Cardinality(Counted) + 1 /\ Cardinality(Counted) \in Nat
      BY <3>1, WorkerCount
    <3>. QED
      BY <2>7, <3>2 DEF ReloadOk, ThreadInv, LoaderInv, initVars
  <2>8. CASE ReloadErr(w)
    <3>1. Counted' = Counted
      BY <2>8 DEF ReloadErr, CountedLoaded, LoopPcs, ExitPcs,
             TypeOK, ThreadInv, SessionInv, OutcomeInv, LoaderInv, initVars
    <3>. QED
      BY <2>8, <3>1 DEF ReloadErr, ThreadInv, LoaderInv, initVars
  <2>9. CASE SkipAbandoned(w)
    <3>1. Counted' = Counted
      BY <2>9 DEF SkipAbandoned, CountedLoaded, LoopPcs, ExitPcs,
             TypeOK, ThreadInv, SessionInv, OutcomeInv, LoaderInv, initVars
    <3>. QED
      BY <2>9, <3>1 DEF SkipAbandoned, ThreadInv, LoaderInv, initVars
  <2>10. CASE StartInference(w)
    <3>1. Counted' = Counted
      BY <2>10 DEF StartInference, CountedLoaded, LoopPcs, ExitPcs,
             TypeOK, ThreadInv, SessionInv, OutcomeInv, LoaderInv, initVars
    <3>. QED
      BY <2>10, <3>1 DEF StartInference, ThreadInv, LoaderInv, initVars
  <2>11. CASE FinishInference(w)
    <3>1. Counted' = Counted
      BY <2>11 DEF FinishInference, CountedLoaded, LoopPcs, ExitPcs,
             TypeOK, ThreadInv, SessionInv, OutcomeInv, LoaderInv, initVars
    <3>. QED
      BY <2>11, <3>1 DEF FinishInference, ThreadInv, LoaderInv, initVars
  <2>12. CASE Panic(w)
    <3>1. Counted' = Counted
      BY <2>12 DEF Panic, CountedLoaded, LoopPcs, ExitPcs,
             TypeOK, ThreadInv, SessionInv, OutcomeInv, LoaderInv, initVars
    <3>. QED
      BY <2>12, <3>1 DEF Panic, ThreadInv, LoaderInv, initVars
  <2>13. CASE ApplyOutcome(w)
    <3>1. CASE outcome[w] = "CircuitBreak"
      <4>1. Counted' = Counted \ {w} /\ w \in Counted
        BY <2>13, <3>1 DEF ApplyOutcome, CountedLoaded, LoopPcs, ExitPcs,
             TypeOK, ThreadInv, SessionInv, OutcomeInv, LoaderInv, initVars
      <4>2. Cardinality(Counted') = Cardinality(Counted) - 1 /\ Cardinality(Counted) \in Nat
        BY <4>1, WorkerCount
      <4>. QED
        BY <2>13, <3>1, <4>2 DEF ApplyOutcome, initVars
    <3>2. CASE ~(outcome[w] = "CircuitBreak")
      <4>1. Counted' = Counted
        BY <2>13, <3>2 DEF ApplyOutcome, CountedLoaded, LoopPcs, ExitPcs,
             TypeOK, ThreadInv, SessionInv, OutcomeInv, LoaderInv, initVars
      <4>. QED
        BY <2>13, <3>2, <4>1 DEF ApplyOutcome, initVars
    <3>. QED
      BY <3>1, <3>2
  <2>14. CASE DropSession(w)
    <3>1. Counted' = Counted
      BY <2>14 DEF DropSession, CountedLoaded, LoopPcs, ExitPcs,
             TypeOK, ThreadInv, SessionInv, OutcomeInv, LoaderInv, initVars
    <3>. QED
      BY <2>14, <3>1 DEF DropSession, ThreadInv, LoaderInv, initVars
  <2>15. CASE DropGuard(w)
    <3>1. Counted' = Counted
      BY <2>15 DEF DropGuard, CountedLoaded, LoopPcs, ExitPcs,
             TypeOK, ThreadInv, SessionInv, OutcomeInv, LoaderInv, initVars
    <3>. QED
      BY <2>15, <3>1 DEF DropGuard, ThreadInv, LoaderInv, initVars
  <2>16. CASE DropReceiver(w)
    <3>1. Counted' = Counted
      BY <2>16 DEF DropReceiver, CountedLoaded, LoopPcs, ExitPcs,
             TypeOK, ThreadInv, SessionInv, OutcomeInv, LoaderInv, initVars
    <3>. QED
      BY <2>16, <3>1 DEF DropReceiver, ThreadInv, LoaderInv, initVars
  <2>. QED
    BY <1>3, <2>1, <2>2, <2>3, <2>4, <2>5, <2>6, <2>7, <2>8, <2>9, <2>10,
       <2>11, <2>12, <2>13, <2>14, <2>15, <2>16 DEF WorkerStep
<1>4. ASSUME NEW r \in Requests, CallerStep(r)
      PROVE  LoadedAccounting'
  <2>1. CASE Call(r)
    BY <2>1 DEF Call, CountedLoaded, initVars
  <2>2. CASE Send(r)
    BY <2>2 DEF Send, CountedLoaded, initVars
  <2>3. CASE SendClosed(r)
    BY <2>3 DEF SendClosed, CountedLoaded, initVars
  <2>4. CASE Abandon(r)
    BY <2>4 DEF Abandon, CountedLoaded, initVars
  <2>5. CASE Return(r)
    BY <2>5 DEF Return, CountedLoaded, initVars
  <2>. QED
    BY <1>4, <2>1, <2>2, <2>3, <2>4, <2>5 DEF CallerStep
<1>5. CASE DropPool
  BY <1>5 DEF DropPool, CountedLoaded, initVars
<1>6. CASE UNCHANGED vars
  BY <1>6 DEF vars, CountedLoaded
<1>. QED
  BY <1>1, <1>2, <1>3, <1>4, <1>5, <1>6 DEF Next

-----------------------------------------------------------------------------
(* The theorems *)

\* The inductive invariant: the types, the places of the threads, where each
\* request is, and the two counters.
PoolInv ==
  TypeOK /\ ThreadInv /\ RequestConservation /\ LiveAccounting /\ LoadedAccounting

\* It holds initially: N guards, no session, no request.
LEMMA InitPoolInv == Init => PoolInv
<1> SUFFICES ASSUME Init
             PROVE  PoolInv
  OBVIOUS
<1>1. TypeOK /\ ThreadInv
  BY InitTyped
<1>2. RequestConservation
  BY PoolAssumption DEF Init, RequestConservation, InQueue, InFlight, Requests
<1>3. LiveAccounting
  <2>1. {w \in Workers : wpc[w] \notin {"dropRx", "exited"}} = 0 .. N - 1
    BY DEF Init, Workers
  <2>2. Cardinality(0 .. N - 1) = N
    BY PoolAssumption, FS_Interval
  <2>. QED
    BY <2>1, <2>2 DEF Init, LiveAccounting
<1>4. LoadedAccounting
  <2>1. {w \in Workers : CountedLoaded(w)} = {}
    BY DEF Init, CountedLoaded, LoopPcs, ExitPcs
  <2>. QED
    <3>1. Cardinality({w \in Workers : CountedLoaded(w)}) = 0
      BY <2>1, FS_EmptySet
    <3>2. UncountedSignals = 0 /\ loaded = 0
      BY DEF Init, UncountedSignals
    <3>. QED
      BY <3>1, <3>2 DEF LoadedAccounting
<1>. QED
  BY <1>1, <1>2, <1>3, <1>4 DEF PoolInv

\* It is preserved by every step.
LEMMA StepPoolInv == PoolInv /\ [Next]_vars => PoolInv'
  BY StepTyped, StepThread, StepRequests, StepLive, StepLoaded DEF PoolInv

\* The pool keeps its inductive invariant, whatever its size and its callers.
THEOREM PoolInvariant == Spec => []PoolInv
  BY InitPoolInv, StepPoolInv, PTL DEF Spec

\* Types, the channel's bound and the circuit breaker's bound on
\* consecutive_failures (run_worker, next_consecutive_failures).
THEOREM TypeCorrect == Spec => []TypeOK
<1>1. PoolInv => TypeOK
  BY DEF PoolInv
<1>. QED
  BY <1>1, PoolInvariant, PTL

\* The place a thread has reached in run_worker tells its request, its session,
\* its outcome and what the init task knows of it.
THEOREM ThreadsConsistent == Spec => []ThreadInv
<1>1. PoolInv => ThreadInv
  BY DEF PoolInv
<1>. QED
  BY <1>1, PoolInvariant, PTL

\* No accepted request is lost or served twice, through reload failures, skipped
\* callers, panics and the death of all workers (run_worker, dispatch_request).
THEOREM RequestsConserved == Spec => []RequestConservation
<1>1. PoolInv => RequestConservation
  BY DEF PoolInv
<1>. QED
  BY <1>1, PoolInvariant, PTL

\* live_workers is the number of threads whose guard lives (WorkerGuard::drop).
THEOREM LiveCounted == Spec => []LiveAccounting
<1>1. PoolInv => LiveAccounting
  BY DEF PoolInv
<1>. QED
  BY <1>1, PoolInvariant, PTL

\* loaded_workers counts the loaded sessions, up to the signals the init task
\* has yet to take and the workers that left by a fatal build or a panic.
THEOREM LoadedCounted == Spec => []LoadedAccounting
<1>1. PoolInv => LoadedAccounting
  BY DEF PoolInv
<1>. QED
  BY <1>1, PoolInvariant, PTL

\* live_workers = 0, which ends wait_for_workers_to_exit, implies that every
\* session has been destroyed.
THEOREM SessionsFlushed == Spec => []SessionsGoneAtZero
<1>1. PoolInv => SessionsGoneAtZero
  <2> SUFFICES ASSUME PoolInv, live = 0, NEW w \in Workers
               PROVE  ~models[w]
    BY DEF SessionsGoneAtZero
  <2> DEFINE Guarded == {v \in Workers : wpc[v] \notin {"dropRx", "exited"}}
  <2>1. IsFiniteSet(Guarded) /\ Cardinality(Guarded) = 0
    BY WorkerCount DEF PoolInv, LiveAccounting
  <2>2. Guarded = {}
    BY <2>1, FS_EmptySet
  <2>3. wpc[w] \in {"dropRx", "exited"}
    BY <2>2
  <2>. QED
    BY <2>3 DEF PoolInv, ThreadInv, SessionInv
<1>. QED
  BY <1>1, PoolInvariant, PTL

-----------------------------------------------------------------------------
(* The invariant *)

\* While the init task loads the workers nobody has called, the ones it has been
\* told of wait for a first request, and the last one is still on its way up or,
\* its load failed, on its way out.
LoadingInv ==
  initPc = "loading" =>
    /\ senders
    /\ queue = <<>>
    /\ \A r \in Requests : call[r] = "idle"
    /\ \A w \in Workers : w < initId => wpc[w] \in {"loop", "recv"}
    /\ wpc[initId] \in IF ready = "ok" THEN {"loop", "recv"}
                       ELSE {"starting", "dropGuard", "dropRx", "exited"}

ServiceInv == PoolInv /\ LoadingInv

\* Every step keeps it: until the init task is done, no thread can meet a request
\* or a closed channel.
LEMMA StepLoading ==
  ASSUME ServiceInv, [Next]_vars
  PROVE  LoadingInv'
<1> USE DEF initVars
<1>1. /\ TypeOK /\ ThreadInv /\ LoadingInv /\ initId \in Workers
      /\ wpc \in [Workers -> {"unspawned", "starting"} \cup LoopPcs \cup ExitPcs]
  BY DEF ServiceInv, PoolInv, TypeOK
<1>2. \A w \in Workers : w \in Int
  BY PoolAssumption DEF Workers
<1>3. CASE initPc # "loading"
  <2>1. initPc' # "loading"
    <3>1. ASSUME NEW w \in Workers, WorkerStep(w)
          PROVE  initPc' = initPc
      BY <3>1 DEF WorkerStep, StartupOk, StartupErr, LockReceiver, Receive, IdleTimeout,
         ReceiveClosed, ReloadOk, ReloadErr, SkipAbandoned, StartInference,
         FinishInference, Panic, ApplyOutcome, DropSession, DropGuard, DropReceiver
    <3>2. ASSUME NEW r \in Requests, CallerStep(r)
          PROVE  initPc' = initPc
      BY <3>2 DEF CallerStep, Call, Send, SendClosed, Abandon, Return
    <3>. QED
      BY <1>3, <3>1, <3>2 DEF Next, InitCounts, InitFails, DropPool, vars
  <2>. QED
    BY <2>1 DEF LoadingInv
<1>4. CASE initPc = "loading"
  <2>1. /\ senders /\ queue = <<>>
        /\ \A r \in Requests : call[r] = "idle"
        /\ \A w \in Workers : w < initId => wpc[w] \in {"loop", "recv"}
        /\ wpc[initId] \in IF ready = "ok" THEN {"loop", "recv"}
                           ELSE {"starting", "dropGuard", "dropRx", "exited"}
        /\ \A w \in Workers : w > initId => wpc[w] = "unspawned"
    BY <1>1, <1>4 DEF LoadingInv, ThreadInv, LoaderInv
  <2>2. CASE InitCounts
    <3>1. CASE initPc' = "done"
      BY <3>1 DEF LoadingInv
    <3>2. ASSUME initId + 1 < N, initId' = initId + 1,
                 wpc' = [wpc EXCEPT ![initId + 1] = "starting"]
          PROVE  LoadingInv'
      <4>1. ready = "ok" /\ ready' = "none" /\ UNCHANGED <<senders, queue, call>>
        BY <2>2 DEF InitCounts
      <4>2. initId' \in Workers
        BY <1>1, <3>2, PoolAssumption DEF Workers
      <4>3. wpc'[initId'] = "starting"
        BY <1>1, <3>2, <4>2
      <4>4. ASSUME NEW w \in Workers, w < initId'
            PROVE  wpc'[w] \in {"loop", "recv"}
        <5>1. w < initId \/ w = initId
          BY <1>1, <1>2, <3>2, <4>4
        <5>2. wpc'[w] = wpc[w]
          BY <1>1, <1>2, <3>2, <5>1
        <5>. QED
          BY <2>1, <4>1, <5>1, <5>2
      <4>. QED
        BY <2>1, <4>1, <4>3, <4>4 DEF LoadingInv
    <3>. QED
      BY <2>2, <3>1, <3>2 DEF InitCounts
  <2>3. CASE InitFails
    BY <2>3 DEF InitFails, LoadingInv
  <2>4. ASSUME NEW w \in Workers, WorkerStep(w)
        PROVE  LoadingInv'
    <3>1. wpc[w] \in {"loop", "recv", "starting", "dropGuard", "dropRx", "exited",
                      "unspawned"}
      <4>1. w < initId \/ w = initId \/ w > initId
        BY <1>1, <1>2
      <4>. QED
        BY <2>1, <4>1
    <3>2. \/ StartupOk(w) \/ StartupErr(w) \/ LockReceiver(w) \/ IdleTimeout(w)
          \/ DropGuard(w) \/ DropReceiver(w)
      BY <2>1, <2>4, <3>1
         DEF WorkerStep, Receive, ReceiveClosed, ReloadOk, ReloadErr, SkipAbandoned,
             StartInference, FinishInference, Panic, ApplyOutcome, DropSession
    <3>3. UNCHANGED <<initPc, initId, senders, queue, call>>
      BY <1>4, <3>2
         DEF StartupOk, StartupErr, LockReceiver, IdleTimeout, DropGuard, DropReceiver,
             LastOwner
    <3>4. /\ \A v \in Workers : v < initId => wpc'[v] \in {"loop", "recv"}
          /\ wpc'[initId] \in IF ready' = "ok" THEN {"loop", "recv"}
                              ELSE {"starting", "dropGuard", "dropRx", "exited"}
      <4>1. CASE StartupOk(w)
        <5>1. w = initId
          BY <1>1, <4>1 DEF StartupOk, ThreadInv, LoaderInv
        <5>. QED
          BY <1>1, <1>2, <2>1, <4>1, <5>1 DEF StartupOk
      <4>2. CASE StartupErr(w)
        <5>1. w = initId
          BY <1>1, <4>2 DEF StartupErr, ThreadInv, LoaderInv
        <5>. QED
          BY <1>1, <1>2, <2>1, <4>2, <5>1 DEF StartupErr
      <4>3. CASE LockReceiver(w) \/ IdleTimeout(w)
        <5>1. /\ wpc[w] \in {"loop", "recv"} /\ ready' = ready
              /\ \/ wpc' = [wpc EXCEPT ![w] = "loop"]
                 \/ wpc' = [wpc EXCEPT ![w] = "recv"]
          BY <4>3 DEF LockReceiver, IdleTimeout
        <5>. QED
          BY <1>1, <2>1, <5>1
      <4>4. CASE DropGuard(w) \/ DropReceiver(w)
        <5>1. /\ wpc[w] \in {"dropGuard", "dropRx"} /\ ready' = ready
              /\ \/ wpc' = [wpc EXCEPT ![w] = "dropRx"]
                 \/ wpc' = [wpc EXCEPT ![w] = "exited"]
          BY <4>4 DEF DropGuard, DropReceiver
        <5>. QED
          BY <1>1, <2>1, <5>1
      <4>. QED
        BY <3>2, <4>1, <4>2, <4>3, <4>4
    <3>. QED
      BY <2>1, <3>3, <3>4 DEF LoadingInv
  <2>5. ASSUME NEW r \in Requests, CallerStep(r)
        PROVE  LoadingInv'
    BY <1>4, <2>1, <2>5
       DEF CallerStep, Call, Send, SendClosed, Abandon, Return, Answers
  <2>6. CASE DropPool
    BY <1>4, <2>6 DEF DropPool
  <2>7. CASE UNCHANGED vars
    BY <1>1, <2>7 DEF vars, LoadingInv
  <2>. QED
    BY <2>2, <2>3, <2>4, <2>5, <2>6, <2>7 DEF Next
<1>. QED
  BY <1>3, <1>4

\* The strengthened invariant holds throughout.
THEOREM ServiceInvariant == Spec => []ServiceInv
<1>1. Init => ServiceInv
  <2>1. Init => LoadingInv
    BY PoolAssumption DEF Init, LoadingInv, Workers
  <2>. QED
    BY <2>1, InitPoolInv DEF ServiceInv
<1>2. ServiceInv /\ [Next]_vars => ServiceInv'
  BY StepPoolInv, StepLoading DEF ServiceInv
<1>. QED
  BY <1>1, <1>2, PTL DEF Spec

-----------------------------------------------------------------------------
(* The refinement mapping *)

\* What the service calls being served.
Serving == {cur[w] : w \in Workers} \ {NoRequest}

\* A worker that holds a request is one of those that serve; there is never a
\* free worker and N requests being served.
LEMMA FreeWorker ==
  ASSUME TypeOK, NEW w \in Workers, cur[w] = NoRequest
  PROVE  Cardinality(Serving) < N
<1>1. IsFiniteSet(Workers) /\ Cardinality(Workers) = N
  BY PoolAssumption, FS_Interval DEF Workers
<1> DEFINE others == Workers \ {w}
           taken  == {cur[v] : v \in others}
<1>2. IsFiniteSet(others) /\ Cardinality(others) = N - 1
  BY <1>1, FS_RemoveElement
<1>3. IsFiniteSet(taken) /\ Cardinality(taken) <= N - 1
  <2>1. IsFiniteSet(taken) /\ Cardinality(taken) <= Cardinality(others)
    <3>1. [v \in others |-> cur[v]] \in Surjection(others, taken)
      BY DEF Surjection
    <3> HIDE DEF others, taken
    <3>. QED
      BY <1>2, <3>1, FS_Surjection
  <2>. QED
    BY <1>2, <2>1
<1>4. Serving \subseteq taken
  BY DEF Serving
<1>5. Cardinality(Serving) <= Cardinality(taken) /\ IsFiniteSet(Serving)
  <2> HIDE DEF taken
  <2>. QED
    BY <1>3, <1>4, FS_Subset
<1>. QED
  <2> HIDE DEF taken
  <2>1. Cardinality(Serving) \in Nat /\ Cardinality(taken) \in Nat
    BY <1>3, <1>5, FS_CardinalityType
  <2>. QED
    BY <1>3, <1>5, <2>1, PoolAssumption

\* The service counts as the pool does.
LEMMA SameCount ==
  ASSUME NEW S
  PROVE  Service!Cardinality(S) = Cardinality(S)
  BY DEF Service!Cardinality, Cardinality

\* Initially the line is empty, nobody is served and the service is open.
LEMMA InitService == Init => Service!ServiceInit
<1>1. SUFFICES ASSUME Init PROVE Service!ServiceInit
  OBVIOUS
<1>2. {cur[w] : w \in Workers} \ {NoRequest} = {}
  BY <1>1 DEF Init
<1>3. ReceiverAlive = TRUE
  BY <1>1 DEF Init, ReceiverAlive
<1>. QED
  BY <1>1, <1>2, <1>3 DEF Init, Service!ServiceInit

\* A step the callers cannot see.
LEMMA Unseen ==
  ASSUME UNCHANGED <<call, queue, cur>>, ReceiverAlive' = ReceiverAlive
  PROVE  UNCHANGED Service!serviceVars
  BY DEF Service!serviceVars

\* A worker that answers and lets its request go makes the service reply.
LEMMA AnswerIsReply ==
  ASSUME TypeOK, RequestConservation, NEW w \in Workers, NEW r \in Requests,
         cur[w] = r, NEW a \in Answers,
         queue' = queue, cur' = [cur EXCEPT ![w] = NoRequest],
         call' = [call EXCEPT ![r] = Settled(r, a)],
         ReceiverAlive' = ReceiverAlive
  PROVE  Service!Reply(r)
<1>1. NoRequest \notin Requests
  BY PoolAssumption DEF Requests
<1>2. r \in Serving
  BY <1>1 DEF Serving
<1>3. Serving' = Serving \ {r}
  <2>1. \A v \in Workers : cur'[v] = IF v = w THEN NoRequest ELSE cur[v]
    BY DEF TypeOK
  <2>2. \A v \in Workers : cur[v] = r => v = w
    BY <1>1 DEF RequestConservation
  <2>. QED
    BY <1>1, <2>1, <2>2 DEF Serving
<1>4. \E b \in Service!Answer : call' = [call EXCEPT ![r] = Service!Answered(r, b)]
  BY DEF Answers, Settled, Service!Answer, Service!Answered
<1>. QED
  BY <1>2, <1>3, <1>4 DEF Service!Reply, Serving

\* A thread that neither starts nor ends in this step keeps the channel open.
LEMMA StaysOpen ==
  ASSUME NEW w \in Workers,
         wpc[w] \notin {"unspawned", "exited"}, wpc'[w] \notin {"unspawned", "exited"}
  PROVE  ReceiverAlive' = ReceiverAlive
<1>1. ReceiverAlive /\ ReceiverAlive'
  BY DEF ReceiverAlive
<1>2. ReceiverAlive \in BOOLEAN /\ ReceiverAlive' \in BOOLEAN
  BY DEF ReceiverAlive
<1>. QED
  BY <1>1, <1>2

\* The init task never closes the channel unless a failed load has left no thread
\* behind, and then nobody is waiting.
LEMMA InitIsService ==
  ASSUME ServiceInv, InitCounts \/ InitFails
  PROVE  Service!Close \/ UNCHANGED Service!serviceVars
<1>1. /\ TypeOK /\ LoadingInv /\ initPc = "loading"
      /\ wpc \in [Workers -> {"unspawned", "starting"} \cup LoopPcs \cup ExitPcs]
      /\ initId \in Workers /\ \A w \in Workers : w \in Int
  BY PoolAssumption DEF ServiceInv, PoolInv, TypeOK, InitCounts, InitFails, Workers
<1>2. UNCHANGED <<call, queue, cur>>
  BY DEF InitCounts, InitFails
<1>3. ReceiverAlive = TRUE
  BY <1>1 DEF ReceiverAlive
<1>4. CASE ReceiverAlive'
  <2>1. ReceiverAlive' = TRUE
    BY <1>4 DEF ReceiverAlive
  <2>. QED
    BY <1>2, <1>3, <2>1, Unseen
<1>5. CASE ~ReceiverAlive'
  <2>1. ReceiverAlive' = FALSE
    BY <1>5 DEF ReceiverAlive
  <2>2. queue = <<>> /\ queue' = <<>>
    BY <1>1, <1>2 DEF LoadingInv
  <2>3. Serving = {} /\ Serving' = Serving
    <3>1. \A w \in Workers : cur[w] = NoRequest
      <4> SUFFICES ASSUME NEW w \in Workers PROVE cur[w] = NoRequest
        OBVIOUS
      <4>1. wpc[w] \notin HoldingPcs
        <5>1. w < initId \/ w = initId \/ w > initId
          BY <1>1
        <5>2. w > initId => wpc[w] = "unspawned"
          BY <1>1 DEF ServiceInv, PoolInv, ThreadInv, LoaderInv
        <5>. QED
          BY <1>1, <5>1, <5>2 DEF LoadingInv, HoldingPcs
      <4>. QED
        BY <4>1 DEF ServiceInv, PoolInv, ThreadInv, HeldInv
    <3>. QED
      BY <1>2, <3>1 DEF Serving
  <2>4. \A r \in Requests : ~Service!Inline(r)
    BY <2>2 DEF Service!Inline
  <2>5. call' = [r \in Requests |-> IF Service!Inline(r) THEN Service!Answered(r, "err")
                                    ELSE call[r]]
    BY <1>1, <1>2, <2>4 DEF TypeOK
  <2>6. Service!Close
    BY <1>3, <2>1, <2>2, <2>3, <2>5 DEF Service!Close, Serving
  <2>. QED
    BY <2>6
<1>. QED
  BY <1>4, <1>5

\* Every step of a thread is a step of the service, or none.
LEMMA WorkerIsService ==
  ASSUME ServiceInv, NEW w \in Workers, WorkerStep(w)
  PROVE  Service!ServiceNext \/ UNCHANGED Service!serviceVars
<1>1. TypeOK /\ ThreadInv /\ RequestConservation
      /\ wpc \in [Workers -> {"unspawned", "starting"} \cup LoopPcs \cup ExitPcs]
  BY DEF ServiceInv, PoolInv, TypeOK
<1>2. NoRequest \notin Requests
  BY PoolAssumption DEF Requests
<1>3. CASE StartupOk(w) \/ StartupErr(w) \/ LockReceiver(w) \/ IdleTimeout(w)
           \/ ReceiveClosed(w) \/ ReloadOk(w) \/ StartInference(w) \/ ApplyOutcome(w)
           \/ DropSession(w) \/ DropGuard(w)
  <2>1. /\ UNCHANGED <<call, queue, cur>>
        /\ wpc[w] \notin {"unspawned", "exited"}
        /\ wpc'[w] \notin {"unspawned", "exited"}
    BY <1>1, <1>3
       DEF StartupOk, StartupErr, LockReceiver, IdleTimeout, ReceiveClosed, ReloadOk,
           StartInference, ApplyOutcome, DropSession, DropGuard
  <2>. QED
    BY <2>1, StaysOpen, Unseen
<1>4. CASE Receive(w)
  <2>1. /\ queue # <<>> /\ queue' = Tail(queue) /\ call' = call
        /\ cur' = [cur EXCEPT ![w] = Head(queue)]
    BY <1>4 DEF Receive
  <2>2. /\ wpc[w] \notin {"unspawned", "exited"}
        /\ wpc'[w] \notin {"unspawned", "exited"}
    BY <1>1, <1>4 DEF Receive
  <2>3. cur[w] = NoRequest
    BY <1>1, <1>4 DEF Receive, ThreadInv, HeldInv, HoldingPcs
  <2>4. Cardinality(Serving) < N
    BY <1>1, <2>3, FreeWorker
  <2>5. Head(queue) \in Requests
    BY <1>1, <2>1 DEF TypeOK
  <2>6. Serving' = Serving \cup {Head(queue)}
    <3>1. \A v \in Workers : cur'[v] = IF v = w THEN Head(queue) ELSE cur[v]
      BY <1>1, <2>1 DEF TypeOK
    <3>2. Head(queue) # NoRequest
      BY <1>2, <2>5
    <3>. QED
      BY <2>3, <3>1, <3>2 DEF Serving
  <2>7. ReceiverAlive' = ReceiverAlive
    BY <2>2, StaysOpen
  <2>8. Service!Serve
    BY <2>1, <2>4, <2>6, <2>7, SameCount DEF Service!Serve, Serving
  <2>. QED
    BY <2>8 DEF Service!ServiceNext
<1>5. CASE ReloadErr(w) \/ SkipAbandoned(w) \/ FinishInference(w) \/ Panic(w)
  <2>1. PICK r \in Requests : cur[w] = r
    BY <1>1, <1>5
       DEF ReloadErr, SkipAbandoned, FinishInference, Panic, TypeOK, ThreadInv, HeldInv,
           HoldingPcs
  <2>2. /\ wpc[w] \notin {"unspawned", "exited"}
        /\ wpc'[w] \notin {"unspawned", "exited"}
        /\ queue' = queue /\ cur' = [cur EXCEPT ![w] = NoRequest]
    BY <1>1, <1>5 DEF ReloadErr, SkipAbandoned, FinishInference, Panic
  <2>3. \E a \in Answers : call' = [call EXCEPT ![r] = Settled(r, a)]
    <3>1. CASE ReloadErr(w) \/ Panic(w)
      BY <2>1, <3>1 DEF ReloadErr, Panic, Answers, Settled
    <3>2. CASE SkipAbandoned(w)
      BY <2>1, <3>2 DEF SkipAbandoned, Settled, Answers
    <3>3. CASE FinishInference(w)
      <4>1. PICK result \in Results(cur[w]) :
              call' = [call EXCEPT
                         ![cur[w]] = Settled(cur[w], IF result = "fatal" THEN "err"
                                                     ELSE result)]
        BY <3>3 DEF FinishInference
      <4>2. (IF result = "fatal" THEN "err" ELSE result) \in Answers
        BY DEF Results, Answers
      <4>. QED
        BY <2>1, <4>1, <4>2 DEF Settled
    <3>. QED
      BY <1>5, <3>1, <3>2, <3>3
  <2>4. ReceiverAlive' = ReceiverAlive
    BY <2>2, StaysOpen
  <2>5. Service!Reply(r)
    BY <1>1, <2>1, <2>2, <2>3, <2>4, AnswerIsReply
  <2>. QED
    BY <2>5 DEF Service!ServiceNext
<1>6. CASE DropReceiver(w) /\ ~LastOwner(w)
  <2>1. /\ UNCHANGED <<call, queue, cur, initPc>>
        /\ wpc[w] = "dropRx" /\ wpc' = [wpc EXCEPT ![w] = "exited"]
    BY <1>6 DEF DropReceiver, initVars
  <2>2. ReceiverAlive /\ ReceiverAlive'
    BY <1>1, <1>6, <2>1 DEF LastOwner, ReceiverAlive
  <2>3. ReceiverAlive \in BOOLEAN /\ ReceiverAlive' \in BOOLEAN
    BY DEF ReceiverAlive
  <2>. QED
    BY <2>1, <2>2, <2>3, Unseen
<1>7. CASE DropReceiver(w) /\ LastOwner(w)
  <2>1. /\ wpc[w] = "dropRx" /\ wpc' = [wpc EXCEPT ![w] = "exited"]
        /\ queue' = <<>> /\ cur' = cur /\ initPc' = initPc
        /\ call' = [r \in Requests |-> IF InQueue(r) THEN Settled(r, "err") ELSE call[r]]
    BY <1>7 DEF DropReceiver, initVars
  <2>2. ReceiverAlive = TRUE
    BY <2>1 DEF ReceiverAlive
  <2>3. ReceiverAlive' = FALSE
    BY <1>1, <1>7, <2>1 DEF LastOwner, ReceiverAlive
  <2>4. Serving = {} /\ Serving' = Serving
    <3>1. \A v \in Workers : wpc[v] \notin HoldingPcs
      BY <1>7, <2>1 DEF LastOwner, HoldingPcs
    <3>2. \A v \in Workers : cur[v] = NoRequest
      BY <1>1, <3>1 DEF ThreadInv, HeldInv
    <3>. QED
      BY <2>1, <3>2 DEF Serving
  <2>5. call' = [r \in Requests |-> IF Service!Inline(r) THEN Service!Answered(r, "err")
                                    ELSE call[r]]
    BY <2>1 DEF InQueue, Settled, Service!Inline, Service!Answered
  <2>6. Service!Close
    BY <2>1, <2>2, <2>3, <2>4, <2>5 DEF Service!Close, Serving
  <2>. QED
    BY <2>6 DEF Service!ServiceNext
<1>. QED
  BY <1>3, <1>4, <1>5, <1>6, <1>7 DEF WorkerStep

\* Every step of a caller is the same step of the service's caller.
LEMMA CallerIsService ==
  ASSUME TypeOK, NEW r \in Requests, CallerStep(r)
  PROVE  Service!ServiceNext
<1>1. UNCHANGED <<cur, initPc, wpc>>
  BY DEF CallerStep, Call, Send, SendClosed, Abandon, Return, initVars
<1>2. ReceiverAlive' = ReceiverAlive /\ Serving' = Serving
  BY <1>1 DEF ReceiverAlive, Serving
<1>3. CASE Call(r)
  <2>1. Service!Ask(r)
    BY <1>2, <1>3 DEF Call, Service!Ask, Serving
  <2>. QED
    BY <2>1 DEF Service!ServiceNext
<1>4. CASE Send(r)
  <2>1. Service!Enter(r)
    BY <1>2, <1>4 DEF Send, Service!Enter, Serving
  <2>. QED
    BY <2>1 DEF Service!ServiceNext
<1>5. CASE SendClosed(r)
  <2>1. Service!Refuse(r)
    BY <1>2, <1>5 DEF SendClosed, Service!Refuse, Serving
  <2>. QED
    BY <2>1 DEF Service!ServiceNext
<1>6. CASE Abandon(r)
  <2>1. Service!Leave(r)
    BY <1>2, <1>6 DEF Abandon, Service!Leave, Serving
  <2>. QED
    BY <2>1 DEF Service!ServiceNext
<1>7. CASE Return(r)
  <2>1. Service!Collect(r)
    BY <1>2, <1>7 DEF Return, Answers, Service!Collect, Service!Answer, Serving
  <2>. QED
    BY <2>1 DEF Service!ServiceNext
<1>. QED
  BY <1>3, <1>4, <1>5, <1>6, <1>7 DEF CallerStep

-----------------------------------------------------------------------------
(* The theorem *)

\* The pool implements the service its callers see, whatever its size: first come
\* first served, at most N at a time, one answer for each accepted call, and
\* nobody left in line when the last worker goes (pool.rs, worker/run.rs).
THEOREM PoolImplementsService == Spec => PoolIsAService
<1>1. ASSUME ServiceInv, [Next]_vars
      PROVE  [Service!ServiceNext]_(Service!serviceVars)
  <2>1. CASE InitCounts \/ InitFails
    BY <1>1, <2>1, InitIsService DEF Service!ServiceNext
  <2>2. ASSUME NEW w \in Workers, WorkerStep(w)
        PROVE  [Service!ServiceNext]_(Service!serviceVars)
    BY <1>1, <2>2, WorkerIsService
  <2>3. ASSUME NEW r \in Requests, CallerStep(r)
        PROVE  [Service!ServiceNext]_(Service!serviceVars)
    BY <1>1, <2>3, CallerIsService DEF ServiceInv, PoolInv
  <2>4. CASE DropPool \/ UNCHANGED vars
    <3>1. UNCHANGED <<call, queue, cur, initPc, wpc>>
      BY <2>4 DEF DropPool, vars, initVars
    <3>2. ReceiverAlive' = ReceiverAlive
      BY <3>1 DEF ReceiverAlive
    <3>. QED
      BY <3>1, <3>2, Unseen
  <2>. QED
    BY <1>1, <2>1, <2>2, <2>3, <2>4 DEF Next
<1>. QED
  BY <1>1, InitService, ServiceInvariant, PTL
     DEF Spec, PoolIsAService, Service!ServiceSpec

-----------------------------------------------------------------------------
(* Health: the inductive invariant *)

\* Once the pool is loaded, and as long as it has a handle, a worker leaves its
\* loop only through a fatal build or a panic.
LeaversInv ==
  initPc = "done" /\ senders =>
    \A w \in Workers :
      /\ wpc[w] \notin {"unspawned", "starting"}
      /\ wpc[w] \in ExitPcs => outcome[w] \in {"TrtFatal", "Panicked"}

\* The server is ready only with its pool loaded and in use, and only a ready
\* server's handler goes past its first load.
ServesInv ==
  /\ isReady \in BOOLEAN
  /\ hpc \in {"ready", "live", "loaded"}
  /\ isReady => initPc = "done" /\ senders
  /\ hpc # "ready" => isReady

\* What the history holds between the loads.  live_workers only falls, so what
\* the handler loaded from it may be out of date; the step that made it so was
\* seen, with the status the handler may still answer.
SeenInv ==
  /\ hpc # "ready" => Status \in seen
  /\ hpc = "loaded" =>
       /\ hLive \in 0 .. N
       /\ live <= hLive
       /\ hLive = 0 => "fail" \in seen
       /\ live < hLive /\ hLive >= Total => "ok" \in seen
       /\ live = 0 /\ 0 < hLive /\ hLive < Total => "warn" \in seen

HealthInv == ServiceInv /\ LeaversInv /\ ServesInv /\ SeenInv

-----------------------------------------------------------------------------
(* The pool under a ready server *)

\* A loaded pool stays loaded.
LEMMA StaysDone ==
  ASSUME [Next]_vars, initPc = "done"
  PROVE  initPc' = "done"
<1>1. ASSUME NEW w \in Workers, WorkerStep(w)
      PROVE  initPc' = initPc
  BY <1>1 DEF WorkerStep, StartupOk, StartupErr, LockReceiver, Receive, IdleTimeout,
     ReceiveClosed, ReloadOk, ReloadErr, SkipAbandoned, StartInference,
     FinishInference, Panic, ApplyOutcome, DropSession, DropGuard, DropReceiver, initVars
<1>2. ASSUME NEW r \in Requests, CallerStep(r)
      PROVE  initPc' = initPc
  BY <1>2 DEF CallerStep, Call, Send, SendClosed, Abandon, Return, initVars
<1>. QED
  BY <1>1, <1>2 DEF Next, InitCounts, InitFails, DropPool, vars, initVars

\* Only a drop of the handle ends its life.
LEMMA SendersGoOnce ==
  ASSUME [Next]_vars, senders'
  PROVE  senders
<1>1. ASSUME NEW w \in Workers, WorkerStep(w)
      PROVE  senders' = senders
  BY <1>1 DEF WorkerStep, StartupOk, StartupErr, LockReceiver, Receive, IdleTimeout,
     ReceiveClosed, ReloadOk, ReloadErr, SkipAbandoned, StartInference,
     FinishInference, Panic, ApplyOutcome, DropSession, DropGuard, DropReceiver
<1>2. ASSUME NEW r \in Requests, CallerStep(r)
      PROVE  senders' = senders
  BY <1>2 DEF CallerStep, Call, Send, SendClosed, Abandon, Return
<1>. QED
  BY <1>1, <1>2 DEF Next, InitCounts, InitFails, DropPool, vars

\* live_workers falls by one with each guard dropped, and never changes otherwise.
LEMMA LiveFalls ==
  ASSUME [Next]_vars
  PROVE  \/ live' = live
         \/ live' = live - 1 /\ loaded' = loaded
            /\ \E w \in Workers : wpc[w] = "dropGuard"
<1>1. ASSUME NEW w \in Workers, WorkerStep(w), ~DropGuard(w)
      PROVE  live' = live
  BY <1>1 DEF WorkerStep, StartupOk, StartupErr, LockReceiver, Receive, IdleTimeout,
     ReceiveClosed, ReloadOk, ReloadErr, SkipAbandoned, StartInference,
     FinishInference, Panic, ApplyOutcome, DropSession, DropReceiver
<1>2. ASSUME NEW r \in Requests, CallerStep(r)
      PROVE  live' = live
  BY <1>2 DEF CallerStep, Call, Send, SendClosed, Abandon, Return
<1>3. ASSUME NEW w \in Workers, DropGuard(w)
      PROVE  live' = live - 1 /\ loaded' = loaded /\ wpc[w] = "dropGuard"
  BY <1>3 DEF DropGuard
<1>. QED
  BY <1>1, <1>2, <1>3 DEF Next, InitCounts, InitFails, DropPool, vars

\* Every step keeps the leavers fatal.
LEMMA StepLeavers ==
  ASSUME ServiceInv, LeaversInv, [Next]_vars
  PROVE  LeaversInv'
<1>1. /\ TypeOK /\ ThreadInv /\ LoadingInv
      /\ wpc \in [Workers -> {"unspawned", "starting"} \cup LoopPcs \cup ExitPcs]
      /\ outcome \in [Workers -> Outcomes]
      /\ initId \in Workers /\ \A w \in Workers : w \in Int /\ w <= N - 1
  BY PoolAssumption DEF ServiceInv, PoolInv, TypeOK, Workers
<1>2. SUFFICES ASSUME initPc' = "done", senders'
               PROVE  \A v \in Workers :
                        /\ wpc'[v] \notin {"unspawned", "starting"}
                        /\ wpc'[v] \in ExitPcs => outcome'[v] \in {"TrtFatal", "Panicked"}
  BY DEF LeaversInv
<1>3. senders
  BY <1>2, SendersGoOnce
<1>4. CASE InitCounts
  <2>1. /\ initPc = "loading" /\ ready = "ok" /\ wpc' = wpc /\ initId + 1 = N
        /\ outcome' = outcome
    BY <1>2, <1>4 DEF InitCounts
  <2>2. \A w \in Workers : w < initId \/ w = initId
    BY <1>1, <2>1
  <2>3. \A w \in Workers : wpc[w] \in {"loop", "recv"}
    BY <1>1, <2>1, <2>2 DEF LoadingInv
  <2>. QED
    BY <2>1, <2>3 DEF ExitPcs
<1>5. CASE InitFails
  BY <1>2, <1>5 DEF InitFails
<1>6. ASSUME NEW w \in Workers, WorkerStep(w)
      PROVE  \A v \in Workers :
               /\ wpc'[v] \notin {"unspawned", "starting"}
               /\ wpc'[v] \in ExitPcs => outcome'[v] \in {"TrtFatal", "Panicked"}
  <2>1. initPc = "done"
    BY <1>2, <1>6 DEF WorkerStep, StartupOk, StartupErr, LockReceiver, Receive,
       IdleTimeout, ReceiveClosed, ReloadOk, ReloadErr, SkipAbandoned, StartInference,
       FinishInference, Panic, ApplyOutcome, DropSession, DropGuard, DropReceiver,
       initVars
  <2>2. \A v \in Workers :
          /\ wpc[v] \notin {"unspawned", "starting"}
          /\ wpc[v] \in ExitPcs => outcome[v] \in {"TrtFatal", "Panicked"}
    BY <1>3, <2>1 DEF LeaversInv
  <2>3. \/ LockReceiver(w) \/ Receive(w) \/ IdleTimeout(w) \/ ReloadOk(w)
        \/ ReloadErr(w) \/ SkipAbandoned(w) \/ StartInference(w) \/ FinishInference(w)
        \/ Panic(w) \/ ApplyOutcome(w) \/ DropSession(w) \/ DropGuard(w)
        \/ DropReceiver(w)
    BY <1>3, <1>6, <2>2 DEF WorkerStep, StartupOk, StartupErr, ReceiveClosed
  <2>4. CASE \/ LockReceiver(w) \/ Receive(w) \/ IdleTimeout(w) \/ ReloadOk(w)
             \/ ReloadErr(w) \/ SkipAbandoned(w) \/ StartInference(w)
    <3>1. /\ wpc'[w] \in LoopPcs /\ outcome' = outcome
          /\ \A v \in Workers \ {w} : wpc'[v] = wpc[v]
      BY <1>1, <2>4 DEF LockReceiver, Receive, IdleTimeout, ReloadOk, ReloadErr,
         SkipAbandoned, StartInference, LoopPcs
    <3>. QED
      BY <2>2, <3>1 DEF LoopPcs, ExitPcs
  <2>5. CASE FinishInference(w)
    <3>1. /\ wpc'[w] = "finished"
          /\ \A v \in Workers \ {w} : wpc'[v] = wpc[v] /\ outcome'[v] = outcome[v]
      BY <1>1, <2>5 DEF FinishInference
    <3>. QED
      BY <2>2, <3>1 DEF ExitPcs
  <2>6. CASE Panic(w)
    <3>1. /\ wpc'[w] = "dropSession" /\ outcome'[w] = "Panicked"
          /\ \A v \in Workers \ {w} : wpc'[v] = wpc[v] /\ outcome'[v] = outcome[v]
      BY <1>1, <2>6 DEF Panic
    <3>. QED
      BY <2>2, <3>1
  <2>7. CASE ApplyOutcome(w)
    <3>1. /\ outcome[w] = "TrtFatal" => wpc'[w] = "dropSession" /\ outcome'[w] = "TrtFatal"
          /\ outcome[w] # "TrtFatal" => wpc'[w] = "loop"
          /\ \A v \in Workers \ {w} : wpc'[v] = wpc[v] /\ outcome'[v] = outcome[v]
      BY <1>1, <2>7 DEF ApplyOutcome
    <3>. QED
      BY <2>2, <3>1 DEF ExitPcs
  <2>8. CASE DropSession(w) \/ DropGuard(w) \/ DropReceiver(w)
    <3>1. /\ wpc[w] \in ExitPcs /\ wpc'[w] \in ExitPcs /\ outcome' = outcome
          /\ \A v \in Workers \ {w} : wpc'[v] = wpc[v]
      BY <1>1, <2>8 DEF DropSession, DropGuard, DropReceiver, ExitPcs
    <3>. QED
      BY <2>2, <3>1 DEF ExitPcs
  <2>. QED
    BY <2>3, <2>4, <2>5, <2>6, <2>7, <2>8
<1>7. ASSUME UNCHANGED <<initPc, wpc, outcome>>
      PROVE  \A v \in Workers :
               /\ wpc'[v] \notin {"unspawned", "starting"}
               /\ wpc'[v] \in ExitPcs => outcome'[v] \in {"TrtFatal", "Panicked"}
  BY <1>2, <1>3, <1>7 DEF LeaversInv
<1>8. ASSUME NEW r \in Requests, CallerStep(r)
      PROVE  UNCHANGED <<initPc, wpc, outcome>>
  BY <1>8 DEF CallerStep, Call, Send, SendClosed, Abandon, Return, initVars
<1>9. DropPool \/ UNCHANGED vars => UNCHANGED <<initPc, wpc, outcome>>
  BY DEF DropPool, vars, initVars
<1>. QED
  BY <1>4, <1>5, <1>6, <1>7, <1>8, <1>9 DEF Next

\* A pool that is loaded and in use.
InUse == ServiceInv /\ LeaversInv /\ initPc = "done" /\ senders

\* A worker that has gone, or is going, stays in loaded_workers, so that it is
\* never zero once live_workers has fallen.
CountersAgree ==
  /\ live \in 0 .. N /\ loaded \in Nat
  /\ live < N => loaded > 0
  /\ (\E w \in Workers : wpc[w] = "dropGuard") => live > 0 /\ loaded > 0

\* The counters of a pool in use agree.
LEMMA Counters == InUse => CountersAgree
<1> SUFFICES ASSUME InUse
             PROVE  CountersAgree
  OBVIOUS
<1> USE DEF InUse
<1> DEFINE Guarded == {w \in Workers : wpc[w] \notin {"dropRx", "exited"}}
           Counted == {w \in Workers : CountedLoaded(w)}
<1>1. /\ live = Cardinality(Guarded) /\ loaded = Cardinality(Counted)
      /\ 0 \in Workers /\ N \in Nat
  <2>1. UncountedSignals = 0
    BY DEF ServiceInv, PoolInv, ThreadInv, LoaderInv, UncountedSignals
  <2>2. 0 \in Workers /\ N \in Nat
    BY PoolAssumption DEF Workers
  <2>3. Counted \subseteq Workers
    OBVIOUS
  <2>4. Cardinality(Counted) \in Nat
    <3> HIDE DEF Counted
    <3>. QED
      BY <2>2, <2>3, WorkerCount
  <2>. QED
    BY <2>1, <2>2, <2>4
       DEF ServiceInv, PoolInv, LiveAccounting, LoadedAccounting
<1>2. \A w \in Workers : wpc[w] \in ExitPcs => w \in Counted
  BY DEF LeaversInv, CountedLoaded
<1>3. /\ Guarded \subseteq Workers /\ Counted \subseteq Workers
      /\ \A w \in Workers : w \notin Guarded <=> wpc[w] \in {"dropRx", "exited"}
  OBVIOUS
<1> HIDE DEF Guarded, Counted
<1>4. IsFiniteSet(Workers) /\ Cardinality(Workers) = N
  BY PoolAssumption, FS_Interval DEF Workers
<1>5. /\ IsFiniteSet(Guarded) /\ Cardinality(Guarded) \in Nat
      /\ IsFiniteSet(Counted) /\ Cardinality(Counted) \in Nat
  BY <1>1, <1>3, WorkerCount
<1>6. Cardinality(Guarded) <= N /\ (Cardinality(Guarded) = N => Guarded = Workers)
  BY <1>3, <1>4, FS_Subset
<1>7. /\ \A w \in Counted : Cardinality(Counted) > 0
      /\ \A w \in Guarded : Cardinality(Guarded) > 0
  <2>1. Cardinality(Counted) = 0 => Counted = {}
    BY <1>5, FS_EmptySet
  <2>2. Cardinality(Guarded) = 0 => Guarded = {}
    BY <1>5, FS_EmptySet
  <2>. QED
    BY <1>5, <2>1, <2>2
<1>8. live < N => loaded > 0
  <2>1. SUFFICES ASSUME live < N PROVE loaded > 0
    OBVIOUS
  <2>2. Guarded # Workers
    BY <1>1, <1>4, <2>1
  <2>3. PICK w \in Workers : w \notin Guarded
    BY <1>3, <2>2
  <2>4. w \in Counted
    BY <1>2, <1>3, <2>3 DEF ExitPcs
  <2>. QED
    BY <1>1, <1>7, <2>4
<1>9. ASSUME NEW w \in Workers, wpc[w] = "dropGuard"
      PROVE  live > 0 /\ loaded > 0
  <2>1. w \in Guarded /\ w \in Counted
    BY <1>2, <1>3, <1>9 DEF ExitPcs
  <2>. QED
    BY <1>1, <1>7, <2>1
<1>. QED
  BY <1>1, <1>5, <1>6, <1>8, <1>9 DEF CountersAgree

\* And they do after a step that keeps it in use.
LEMMA CountersNext == InUse' => CountersAgree'
  BY Counters, PTL

-----------------------------------------------------------------------------
(* The handler *)

\* What a step of the pool, or the server's becoming ready, leaves as it was
\* while the handler is past its first load.
LEMMA PoolUnderHandler ==
  ASSUME HealthInv, PoolStep, isReady
  PROVE  /\ initPc = "done" /\ senders /\ initPc' = "done" /\ senders' /\ isReady'
         /\ live \in 0 .. N /\ loaded \in Nat
         /\ live' \in 0 .. N /\ loaded' \in Nat
         /\ live < N => loaded > 0
         /\ live' < N => loaded' > 0
         /\ live' = live \/ (live' = live - 1 /\ loaded' = loaded /\ loaded > 0)
<1>1. initPc = "done" /\ senders
  BY DEF HealthInv, ServesInv
<1>2. Next /\ senders' /\ isReady'
  BY <1>1 DEF PoolStep
<1>3. initPc' = "done"
  BY <1>1, <1>2, StaysDone
<1>4. ServiceInv' /\ LeaversInv'
  BY <1>2, StepPoolInv, StepLoading, StepLeavers DEF HealthInv, ServiceInv
<1>5. /\ live \in 0 .. N /\ loaded \in Nat
      /\ live < N => loaded > 0
      /\ (\E w \in Workers : wpc[w] = "dropGuard") => live > 0 /\ loaded > 0
  BY <1>1, Counters DEF HealthInv, InUse, CountersAgree
<1>6. /\ live' \in 0 .. N /\ loaded' \in Nat
      /\ live' < N => loaded' > 0
  BY <1>2, <1>3, <1>4, CountersNext DEF InUse, CountersAgree
<1>. QED
  BY <1>1, <1>2, <1>3, <1>5, <1>6, LiveFalls

\* Every step keeps the whole invariant.
LEMMA StepHealth ==
  ASSUME HealthInv, [HealthNext]_healthVars
  PROVE  HealthInv'
<1>1. [Next]_vars
  BY DEF HealthNext, PoolStep, BecomeReady, LoadReady, LoadLive, LoadLoaded, healthVars
<1>2. ServiceInv' /\ LeaversInv'
  BY <1>1, StepPoolInv, StepLoading, StepLeavers DEF HealthInv, ServiceInv
<1> SUFFICES ServesInv' /\ SeenInv'
  BY <1>2 DEF HealthInv
<1>3. N \in Nat /\ Total \in Nat /\ N <= Total
  BY PoolAssumption, HealthAssumption
<1>4. ServesInv /\ SeenInv
  BY DEF HealthInv
<1>5. ASSUME PoolStep \/ BecomeReady, Observe, UNCHANGED <<hpc, hLive>>
      PROVE  ServesInv' /\ SeenInv'
  <2>1. CASE BecomeReady
    <3>1. /\ ~isReady /\ hpc = "ready" /\ hpc' = hpc /\ isReady' = TRUE
          /\ initPc = "done" /\ senders /\ UNCHANGED <<initPc, senders>>
      BY <1>4, <1>5, <2>1 DEF BecomeReady, ServesInv, vars, initVars
    <3>. QED
      BY <3>1 DEF ServesInv, SeenInv
  <2>2. CASE PoolStep /\ ~isReady
    <3>1. ~isReady /\ isReady' = isReady /\ hpc = "ready" /\ hpc' = hpc
      BY <1>4, <1>5, <2>2 DEF PoolStep, ServesInv
    <3>. QED
      BY <1>4, <3>1 DEF ServesInv, SeenInv
  <2>3. CASE PoolStep /\ isReady
    <3>1. /\ initPc' = "done" /\ senders' /\ isReady'
          /\ live \in 0 .. N /\ loaded \in Nat
          /\ live' \in 0 .. N /\ loaded' \in Nat
          /\ live' = live \/ (live' = live - 1 /\ loaded > 0)
      BY <2>3, PoolUnderHandler
    <3>2. isReady' = isReady /\ hpc' = hpc /\ hLive' = hLive
      BY <1>5, <2>3 DEF PoolStep
    <3>3. ServesInv'
      BY <1>4, <2>3, <3>1, <3>2 DEF ServesInv
    <3>4. CASE hpc = "ready"
      BY <3>2, <3>3, <3>4 DEF SeenInv
    <3>5. CASE hpc # "ready"
      <4>1. seen' = seen \cup {Status'} /\ Status \in seen
        BY <1>4, <1>5, <3>5 DEF Observe, SeenInv
      <4>2. CASE hpc # "loaded"
        BY <3>2, <3>3, <4>1, <4>2 DEF SeenInv
      <4>3. CASE hpc = "loaded"
        <5>1. /\ hLive \in 0 .. N
              /\ live <= hLive
              /\ hLive = 0 => "fail" \in seen
              /\ live < hLive /\ hLive >= Total => "ok" \in seen
              /\ live = 0 /\ 0 < hLive /\ hLive < Total => "warn" \in seen
          BY <1>4, <4>3 DEF SeenInv
        <5>2. ASSUME live' = live - 1, loaded > 0
              PROVE  /\ live = hLive /\ hLive >= Total => "ok" \in seen
                     /\ live < Total => "warn" \in seen
          BY <1>3, <2>3, <3>1, <4>1, <5>1, <5>2 DEF Status, StatusOf
        <5>3. live' <= hLive
          BY <1>3, <3>1, <5>1
        <5>4. live' < hLive /\ hLive >= Total => "ok" \in seen
          BY <1>3, <3>1, <5>1, <5>2
        <5>5. live' = 0 /\ 0 < hLive /\ hLive < Total => "warn" \in seen
          BY <1>3, <3>1, <5>1, <5>2
        <5>. QED
          BY <3>2, <3>3, <4>1, <5>1, <5>3, <5>4, <5>5 DEF SeenInv
      <4>. QED
        BY <4>2, <4>3
    <3>. QED
      BY <3>4, <3>5, <3>3
  <2>. QED
    BY <1>5, <2>1, <2>2, <2>3
<1>6. ASSUME UNCHANGED <<vars, isReady>>
      PROVE  Status' = Status /\ UNCHANGED <<initPc, senders, live, loaded>>
  BY <1>6 DEF Status, vars, initVars
<1>7. CASE LoadReady
  <2>1. /\ isReady /\ hpc' = "live" /\ seen' = {Status} /\ isReady' = isReady
        /\ Status' = Status /\ UNCHANGED <<initPc, senders>>
    BY <1>6, <1>7 DEF LoadReady
  <2>. QED
    BY <1>4, <2>1 DEF ServesInv, SeenInv
<1>8. CASE LoadLive
  <2>1. /\ hpc = "live" /\ hLive' = live /\ hpc' = "loaded" /\ isReady' = isReady
        /\ seen' = seen /\ Status' = Status
        /\ UNCHANGED <<initPc, senders, live, loaded>>
    BY <1>6, <1>8 DEF LoadLive
  <2>2. isReady /\ initPc = "done" /\ senders /\ Status \in seen
    BY <1>4, <2>1 DEF ServesInv, SeenInv
  <2>3. live \in 0 .. N
    BY <2>2, Counters DEF HealthInv, InUse, CountersAgree
  <2>4. live = 0 => "fail" \in seen
    BY <2>2 DEF Status, StatusOf
  <2>5. ServesInv'
    BY <1>4, <2>1 DEF ServesInv
  <2>. QED
    BY <1>3, <2>1, <2>2, <2>3, <2>4, <2>5 DEF SeenInv
<1>9. CASE LoadLoaded
  <2>1. /\ hpc' = "ready" /\ isReady' = isReady
        /\ UNCHANGED <<initPc, senders>>
    BY <1>6, <1>9 DEF LoadLoaded
  <2>. QED
    BY <1>4, <2>1 DEF ServesInv, SeenInv
<1>10. CASE UNCHANGED healthVars
  <2>1. /\ hpc' = hpc /\ hLive' = hLive /\ seen' = seen /\ isReady' = isReady
        /\ Status' = Status /\ UNCHANGED <<initPc, senders, live, loaded>>
    BY <1>6, <1>10 DEF healthVars, handlerVars
  <2>. QED
    BY <1>4, <2>1 DEF ServesInv, SeenInv
<1>. QED
  BY <1>5, <1>7, <1>8, <1>9, <1>10 DEF HealthNext

\* Nothing is ready, or asked, before the pool starts to load.
LEMMA InitHealth == HealthInit => HealthInv
<1> SUFFICES ASSUME HealthInit
             PROVE  HealthInv
  OBVIOUS
<1>1. Init /\ ~isReady /\ isReady \in BOOLEAN /\ hpc = "ready"
  BY DEF HealthInit
<1>2. LoadingInv /\ initPc # "done"
  BY <1>1, PoolAssumption DEF Init, LoadingInv, Workers
<1>3. ServiceInv
  BY <1>1, <1>2, InitPoolInv DEF ServiceInv
<1>. QED
  BY <1>1, <1>2, <1>3 DEF HealthInv, LeaversInv, ServesInv, SeenInv

\* The answer the handler would give is in its history.
LEMMA AnswerSeen == HealthInv => HealthTruthful
<1> SUFFICES ASSUME HealthInv, hpc = "loaded"
             PROVE  Answer \in seen
  BY DEF HealthTruthful
<1>1. N \in Nat /\ Total \in Nat /\ N <= Total
  BY PoolAssumption, HealthAssumption
<1>2. isReady /\ initPc = "done" /\ senders
  BY DEF HealthInv, ServesInv
<1>3. live \in 0 .. N /\ loaded \in Nat /\ (live < N => loaded > 0)
  BY <1>2, Counters DEF HealthInv, InUse, CountersAgree
<1>4. /\ Status \in seen
      /\ hLive \in 0 .. N
      /\ live <= hLive
      /\ hLive = 0 => "fail" \in seen
      /\ live < hLive /\ hLive >= Total => "ok" \in seen
      /\ live = 0 /\ 0 < hLive /\ hLive < Total => "warn" \in seen
  BY DEF HealthInv, SeenInv
<1>5. CASE live = hLive
  BY <1>2, <1>4, <1>5 DEF Status, Answer, StatusOf
<1>6. CASE live < hLive
  <2>1. hLive # 0 /\ loaded # 0
    BY <1>1, <1>3, <1>4, <1>6
  <2>2. CASE hLive < Total
    <3>1. Answer = "warn"
      BY <2>1, <2>2 DEF Answer, StatusOf
    <3>2. live # 0 => Status = "warn"
      BY <1>1, <1>2, <1>3, <1>4, <2>1, <2>2 DEF Status, StatusOf
    <3>. QED
      BY <1>1, <1>3, <1>4, <2>1, <2>2, <3>1, <3>2
  <2>3. CASE ~(hLive < Total)
    BY <1>1, <1>4, <1>6, <2>1, <2>3 DEF Answer, StatusOf
  <2>. QED
    BY <2>2, <2>3
<1>. QED
  BY <1>1, <1>3, <1>4, <1>5, <1>6

-----------------------------------------------------------------------------
(* The theorems *)

\* The inductive invariant of the handler over its pool.
THEOREM HealthInvariant == HealthSpec => []HealthInv
<1>1. HealthInit => HealthInv
  BY InitHealth
<1>2. HealthInv /\ [HealthNext]_healthVars => HealthInv'
  BY StepHealth
<1>. QED
  BY <1>1, <1>2, PTL DEF HealthSpec

\* handler/health.rs, for every number of workers: the three loads of the handler
\* are not one, yet its answer is a status the server had between them.
THEOREM HealthIsTruthful == HealthSpec => []HealthTruthful
<1>. QED
  BY HealthInvariant, AnswerSeen, PTL

\* docs/health-state-machine.md, for every number of workers without a clamp: the
\* status of a ready server changes only along the arrows of the diagram.
THEOREM StatusFollowsDiagram == HealthSpec => FollowsDiagram
<1>1. ASSUME HealthInv, [HealthNext]_healthVars
      PROVE  [Total = N /\ Status # "loading" /\ Status' # Status
                => <<Status, Status'>> \in Diagram]_healthVars
  <2>1. SUFFICES ASSUME Total = N, Status # "loading", Status' # Status
                 PROVE  <<Status, Status'>> \in Diagram
    OBVIOUS
  <2>2. isReady
    BY <2>1 DEF Status, StatusOf
  <2>3. UNCHANGED <<vars, isReady>> => FALSE
    BY <2>1 DEF Status, vars
  <2>4. PoolStep
    BY <1>1, <2>2, <2>3
       DEF HealthNext, BecomeReady, LoadReady, LoadLive, LoadLoaded, healthVars
  <2>5. /\ isReady' /\ N \in Nat
        /\ live \in 0 .. N /\ loaded \in Nat
        /\ live' \in 0 .. N /\ loaded' \in Nat
        /\ live < N => loaded > 0
        /\ live' < N => loaded' > 0
        /\ live' = live \/ (live' = live - 1 /\ loaded' = loaded /\ loaded > 0)
    BY <1>1, <2>2, <2>4, PoolUnderHandler, PoolAssumption
  <2>6. /\ Status = StatusOf(TRUE, live, loaded)
        /\ Status' = StatusOf(TRUE, live', loaded')
    BY <2>2, <2>5 DEF Status, StatusOf
  <2>7. CASE live' = live
    BY <2>1, <2>5, <2>6, <2>7 DEF StatusOf, Diagram
  <2>8. CASE live' = live - 1 /\ loaded' = loaded /\ loaded > 0
    <3>1. live' < N /\ loaded # 0 /\ live # 0
      BY <2>5, <2>8
    <3>. QED
      BY <2>1, <2>5, <2>6, <2>8, <3>1 DEF StatusOf, Diagram
  <2>. QED
    BY <2>5, <2>7, <2>8
<1>. QED
  BY <1>1, HealthInvariant, PTL DEF HealthSpec, FollowsDiagram

=============================================================================
