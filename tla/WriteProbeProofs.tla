--------------------------- MODULE WriteProbeProofs ---------------------------
(***************************************************************************)
(* Proofs about WriteProbe, for every number of containers and of workers: *)
(* when the write probe may report a failure of a writable volume.         *)
(***************************************************************************)
EXTENDS WriteProbe, TLAPS

-----------------------------------------------------------------------------
(* The inductive invariant *)

\* Two threads inside the probe know of each other.
MetInv ==
  \A t, u \in Threads :
    t # u /\ pc[t] \in ProbePcs /\ pc[u] \in ProbePcs => u[1] \in met[t]

\* The sentinel of a thread that probes alone is what that thread made of it.
SentinelInv ==
  \A t \in Threads :
    /\ pc[t] \in {"write", "read", "unlink"} => writable
    /\ met[t] = {} =>
         /\ pc[t] = "create" /\ writable => sentinel = NoFile
         /\ pc[t] = "write" => sentinel = [by |-> t, data |-> FALSE]
         /\ pc[t] \in {"read", "unlink"} => sentinel = [by |-> t, data |-> TRUE]

\* Before a container serves, one of its threads probes at a time: the worker
\* that loads last, or in the end the main thread.
SoloInv ==
  \A t \in Threads : pc[t] \in ProbePcs =>
    /\ stage[t[1]] # "down"
    /\ stage[t[1]] = "loading" => t[2] = loads[t[1]]
    /\ stage[t[1]] = "ending" => t[2] = 0

\* So that it has not met itself.
BootInv == \A t \in Threads : stage[t[1]] # "serving" => t[1] \notin met[t]

ProbeInv ==
  /\ TypeOK
  /\ MetInv
  /\ SentinelInv
  /\ ProbeTruthful
  /\ SoloInv
  /\ BootInv

-----------------------------------------------------------------------------
(* Threads and types *)

Pcs   == ProbePcs \cup {"off", "loaded", "unloaded"}
Files == [by : Threads \cup {NoThread}, data : BOOLEAN]
Lines == SUBSET {"succeeded", "failed"}

\* A thread is a container and a number.
LEMMA ThreadParts ==
  /\ \A t \in Threads : t[1] \in Containers /\ t[2] \in 0 .. Workers /\ t = <<t[1], t[2]>>
  /\ \A c \in Containers, w \in 0 .. Workers :
       <<c, w>> \in Threads /\ <<c, w>>[1] = c /\ <<c, w>>[2] = w
BY DEF Threads

\* What entering the probe assigns is of its type.
LEMMA EnterTyped ==
  ASSUME TypeOK, NEW t \in Threads, EnterProbe(t)
  PROVE  /\ pc' \in [Threads -> Pcs] /\ logged' \in [Threads -> Lines]
         /\ met' \in [Threads -> SUBSET Containers]
<1>1. /\ pc \in [Threads -> Pcs] /\ logged \in [Threads -> Lines]
      /\ met \in [Threads -> SUBSET Containers]
  BY DEF TypeOK, Pcs, Lines
<1>2. pc' \in [Threads -> Pcs] /\ logged' \in [Threads -> Lines]
  BY <1>1 DEF EnterProbe, Moves, Pcs, ProbePcs, Lines
<1>3. {v[1] : v \in {w \in Threads \ {t} : pc[w] \in ProbePcs}} \in SUBSET Containers
  BY ThreadParts
<1>4. t[1] \in Containers
  BY ThreadParts
<1>. QED
  BY <1>1, <1>2, <1>3, <1>4 DEF EnterProbe

\* A step of the probe: it is its thread's own, and moves nothing but that thread,
\* the file and what the thread has logged.
LEMMA ProbeFrame ==
  ASSUME TypeOK, NEW t \in Threads, ProbeStep(t)
  PROVE  /\ UNCHANGED <<config, stage, loads, met>>
         /\ pc[t] \in ProbePcs
         /\ \E to \in Pcs \ {"rm", "off"} : pc' = [pc EXCEPT ![t] = to]
         /\ \E ls \in Lines : logged' \in {logged, [logged EXCEPT ![t] = ls]}
         /\ \/ sentinel' = sentinel \/ sentinel' = NoFile
            \/ sentinel' = [by |-> t, data |-> FALSE]
            \/ sentinel' = [sentinel EXCEPT !.data = TRUE]
<1> USE DEF Pcs, ProbePcs, Moves
<1>1. CASE RemoveStale(t)
  BY <1>1 DEF RemoveStale, LeaveProbe, Lines
<1>2. CASE CreateSentinel(t)
  BY <1>2 DEF CreateSentinel, LeaveProbe, Lines
<1>3. CASE WriteSentinel(t)
  BY <1>3 DEF WriteSentinel, LeaveProbe, Lines
<1>4. CASE ReadSentinel(t)
  BY <1>4 DEF ReadSentinel, LeaveProbe, Lines
<1>5. CASE UnlinkSentinel(t)
  BY <1>5 DEF UnlinkSentinel, LeaveProbe, Lines
<1>. QED
  BY <1>1, <1>2, <1>3, <1>4, <1>5 DEF ProbeStep

\* The values of the variables stay of their types, and no container loads more
\* workers than it has.
LEMMA StepTyped ==
  ASSUME TypeOK, [Next]_vars
  PROVE  TypeOK'
<1>1. /\ pc \in [Threads -> Pcs] /\ logged \in [Threads -> Lines]
      /\ met \in [Threads -> SUBSET Containers] /\ sentinel \in Files
      /\ stage \in [Containers -> {"down", "loading", "serving", "ending"}]
      /\ loads \in [Containers -> 0 .. Workers]
      /\ writable \in BOOLEAN /\ warmupOnly \subseteq Containers
  BY DEF TypeOK, Pcs, Lines, Files
<1>2. Workers \in Nat /\ 1 \in 0 .. Workers /\ 0 \in 0 .. Workers
  BY WriteProbeAssumption
<1> DEFINE Typed ==
      /\ pc \in [Threads -> Pcs] /\ logged \in [Threads -> Lines]
      /\ met \in [Threads -> SUBSET Containers] /\ sentinel \in Files
      /\ stage \in [Containers -> {"down", "loading", "serving", "ending"}]
      /\ loads \in [Containers -> 0 .. Workers]
<1>3. UNCHANGED config /\ Typed' => TypeOK'
  BY <1>1 DEF TypeOK, Pcs, Lines, Files, config
<1>4. ASSUME UNCHANGED vars
      PROVE  UNCHANGED config /\ Typed'
  BY <1>1, <1>4 DEF vars, config
<1>5. ASSUME NEW c \in Containers, Start(c)
      PROVE  /\ EnterProbe(<<c, 1>>) /\ <<c, 1>> \in Threads
             /\ stage' \in [Containers -> {"down", "loading", "serving", "ending"}]
             /\ loads' \in [Containers -> 0 .. Workers] /\ UNCHANGED <<config, sentinel>>
  BY <1>1, <1>2, <1>5, ThreadParts DEF Start
<1>6. ASSUME NEW c \in Containers, LoadNext(c)
      PROVE  /\ EnterProbe(<<c, loads[c] + 1>>) /\ <<c, loads[c] + 1>> \in Threads
             /\ stage' \in [Containers -> {"down", "loading", "serving", "ending"}]
             /\ loads' \in [Containers -> 0 .. Workers] /\ UNCHANGED <<config, sentinel>>
  <2>1. loads[c] + 1 \in 0 .. Workers
    BY <1>1, <1>2, <1>6 DEF LoadNext
  <2>. QED
    BY <1>1, <1>6, <2>1, ThreadParts DEF LoadNext
<1>7. ASSUME NEW c \in Containers, Teardown(c)
      PROVE  /\ EnterProbe(<<c, 0>>) /\ <<c, 0>> \in Threads
             /\ stage' \in [Containers -> {"down", "loading", "serving", "ending"}]
             /\ loads' \in [Containers -> 0 .. Workers] /\ UNCHANGED <<config, sentinel>>
  BY <1>1, <1>2, <1>7, ThreadParts DEF Teardown
<1>8. ASSUME NEW c \in Containers, Serve(c)
      PROVE  UNCHANGED config /\ Typed'
  BY <1>1, <1>8 DEF Serve
<1>9. ASSUME NEW c \in Containers, Gone(c)
      PROVE  UNCHANGED config /\ Typed'
  <2>1. /\ pc' \in [Threads -> Pcs] /\ logged' \in [Threads -> Lines]
        /\ met' \in [Threads -> SUBSET Containers]
    BY <1>1, <1>9 DEF Gone, Pcs, Lines
  <2>2. /\ stage' \in [Containers -> {"down", "loading", "serving", "ending"}]
        /\ loads' \in [Containers -> 0 .. Workers] /\ UNCHANGED <<config, sentinel>>
    BY <1>1, <1>2, <1>9 DEF Gone
  <2>. QED
    BY <1>1, <2>1, <2>2
<1>10. ASSUME NEW t \in Threads, Unload(t)
       PROVE  UNCHANGED config /\ Typed'
  BY <1>1, <1>10 DEF Unload, Moves, Pcs
<1>11. ASSUME NEW t \in Threads, Reload(t)
       PROVE  UNCHANGED config /\ Typed'
  BY <1>1, <1>11, EnterTyped DEF Reload
<1>12. ASSUME NEW t \in Threads, ProbeStep(t)
       PROVE  UNCHANGED config /\ Typed'
  <2>1. pc' \in [Threads -> Pcs] /\ logged' \in [Threads -> Lines]
    BY <1>1, <1>12, ProbeFrame
  <2>2. /\ NoFile \in Files /\ [by |-> t, data |-> FALSE] \in Files
        /\ [sentinel EXCEPT !.data = TRUE] \in Files
    BY <1>1 DEF Files, NoFile
  <2>3. sentinel' \in Files
    BY <1>1, <1>12, <2>2, ProbeFrame
  <2>. QED
    BY <1>1, <1>12, <2>1, <2>3, ProbeFrame
<1>13. ASSUME NEW c \in Containers, Start(c) \/ LoadNext(c) \/ Teardown(c)
       PROVE  UNCHANGED config /\ Typed'
  BY <1>1, <1>5, <1>6, <1>7, <1>13, EnterTyped
<1>. QED
  BY <1>3, <1>4, <1>8, <1>9, <1>10, <1>11, <1>12, <1>13 DEF Next

-----------------------------------------------------------------------------
(* What a step may do *)

\* A thread enters the probe; or no thread enters, leaves or meets.
Enters(t) == EnterProbe(t) /\ UNCHANGED sentinel

Quiet ==
  /\ UNCHANGED <<sentinel, logged, met>>
  /\ \A t \in Threads :
       \/ pc'[t] = pc[t]
       \/ pc[t] \notin ProbePcs /\ pc'[t] \notin ProbePcs

\* Every step enters the probe, takes a step in it, ends a container or is quiet.
LEMMA Kinds ==
  ASSUME TypeOK, [Next]_vars
  PROVE  /\ UNCHANGED config
         /\ \/ \E t \in Threads : Enters(t)
            \/ \E t \in Threads : ProbeStep(t)
            \/ \E c \in Containers : Gone(c)
            \/ Quiet
<1>1. Workers \in Nat /\ 1 \in 0 .. Workers /\ 0 \in 0 .. Workers
  BY WriteProbeAssumption
<1>2. ASSUME NEW c \in Containers, Start(c)
      PROVE  UNCHANGED config /\ \E t \in Threads : Enters(t)
  BY <1>1, <1>2, ThreadParts DEF Start, Enters
<1>3. ASSUME NEW c \in Containers, LoadNext(c)
      PROVE  UNCHANGED config /\ \E t \in Threads : Enters(t)
  <2>1. loads[c] + 1 \in 0 .. Workers
    BY <1>1, <1>3 DEF LoadNext, TypeOK
  <2>. QED
    BY <1>3, <2>1, ThreadParts DEF LoadNext, Enters
<1>4. ASSUME NEW c \in Containers, Teardown(c)
      PROVE  UNCHANGED config /\ \E t \in Threads : Enters(t)
  BY <1>1, <1>4, ThreadParts DEF Teardown, Enters
<1>5. ASSUME NEW t \in Threads, Reload(t)
      PROVE  UNCHANGED config /\ Enters(t)
  BY <1>5 DEF Reload, Enters
<1>6. ASSUME NEW t \in Threads, Unload(t)
      PROVE  UNCHANGED config /\ Quiet
  BY <1>6 DEF Unload, Moves, Quiet, ProbePcs, TypeOK
<1>7. CASE UNCHANGED vars \/ \E c \in Containers : Serve(c)
  BY <1>7 DEF vars, Serve, Quiet
<1>8. ASSUME NEW c \in Containers, Gone(c)
      PROVE  UNCHANGED config
  BY <1>8 DEF Gone
<1>9. ASSUME NEW t \in Threads, ProbeStep(t)
      PROVE  UNCHANGED config
  BY <1>9, ProbeFrame
<1>. QED
  BY <1>2, <1>3, <1>4, <1>5, <1>6, <1>7, <1>8, <1>9 DEF Next, config, vars

\* What entering the probe does to each thread.
LEMMA EnterFrame ==
  ASSUME TypeOK, NEW t \in Threads, EnterProbe(t)
  PROVE  /\ pc'[t] = "rm" /\ logged'[t] = {}
         /\ \A u \in Threads : u # t =>
              /\ pc'[u] = pc[u] /\ logged'[u] = logged[u]
              /\ met'[u] = IF pc[u] \in ProbePcs THEN met[u] \cup {t[1]} ELSE met[u]
BY DEF TypeOK, EnterProbe, Moves

\* Whom it meets.
LEMMA EnterMeets ==
  ASSUME TypeOK, NEW t \in Threads, EnterProbe(t)
  PROVE  /\ \A v \in Threads : v # t /\ pc[v] \in ProbePcs => v[1] \in met'[t]
         /\ \A c \in met'[t] : \E v \in Threads : v # t /\ pc[v] \in ProbePcs /\ c = v[1]
<1>1. met'[t] = {v[1] : v \in {w \in Threads \ {t} : pc[w] \in ProbePcs}}
  BY DEF TypeOK, EnterProbe
<1>. QED
  BY <1>1

\* What the end of a container does to each thread.
LEMMA GoneFrame ==
  ASSUME NEW c \in Containers, Gone(c), NEW t \in Threads
  PROVE  /\ sentinel' = sentinel
         /\ \/ pc'[t] = "off" /\ logged'[t] = {} /\ met'[t] = {}
            \/ t[1] # c /\ pc'[t] = pc[t] /\ logged'[t] = logged[t] /\ met'[t] = met[t]
BY DEF Gone

-----------------------------------------------------------------------------
(* The probe *)

\* Whoever enters the probe makes itself known, and a step inside it forgets nobody.
LEMMA StepMet ==
  ASSUME TypeOK, MetInv, [Next]_vars
  PROVE  MetInv'
<1>1. ASSUME NEW t \in Threads, Enters(t)
      PROVE  MetInv'
  <2>1. ASSUME NEW u \in Threads, NEW v \in Threads, u # v,
               pc'[u] \in ProbePcs, pc'[v] \in ProbePcs
        PROVE  v[1] \in met'[u]
    <3>1. EnterProbe(t)
      BY <1>1 DEF Enters
    <3>2. CASE u = t
      BY <2>1, <3>1, <3>2, EnterFrame, EnterMeets
    <3>3. CASE u # t /\ v = t
      BY <2>1, <3>1, <3>3, EnterFrame
    <3>4. CASE u # t /\ v # t
      BY <2>1, <3>1, <3>4, EnterFrame DEF MetInv
    <3>. QED
      BY <3>2, <3>3, <3>4
  <2>. QED
    BY <2>1 DEF MetInv
<1>2. ASSUME NEW t \in Threads, ProbeStep(t)
      PROVE  MetInv'
  <2>1. /\ met' = met /\ pc[t] \in ProbePcs
        /\ \A u \in Threads \ {t} : pc'[u] = pc[u]
    BY <1>2, ProbeFrame DEF TypeOK
  <2>. QED
    BY <2>1 DEF MetInv
<1>3. ASSUME NEW c \in Containers, Gone(c)
      PROVE  MetInv'
  <2>1. \A t \in Threads : pc'[t] = "off" \/ (pc'[t] = pc[t] /\ met'[t] = met[t])
    BY <1>3, GoneFrame
  <2>. QED
    BY <2>1 DEF MetInv, ProbePcs
<1>4. CASE Quiet
  BY <1>4 DEF Quiet, MetInv
<1>. QED
  BY <1>1, <1>2, <1>3, <1>4, Kinds

\* A thread that probes alone finds the sentinel as it left it.
LEMMA StepSentinel ==
  ASSUME TypeOK, MetInv, SentinelInv, [Next]_vars
  PROVE  SentinelInv'
<1> DEFINE Holds(t) ==
      /\ pc[t] \in {"write", "read", "unlink"} => writable
      /\ met[t] = {} =>
           /\ pc[t] = "create" /\ writable => sentinel = NoFile
           /\ pc[t] = "write" => sentinel = [by |-> t, data |-> FALSE]
           /\ pc[t] \in {"read", "unlink"} => sentinel = [by |-> t, data |-> TRUE]
<1>1. writable' = writable /\ \A t \in Threads : Holds(t)
  BY Kinds DEF config, SentinelInv
<1>2. SUFFICES ASSUME NEW u \in Threads
               PROVE  Holds(u)'
  BY DEF SentinelInv
<1>3. ASSUME NEW t \in Threads, Enters(t)
      PROVE  Holds(u)'
  <2>1. EnterProbe(t) /\ sentinel' = sentinel
    BY <1>3 DEF Enters
  <2>2. CASE u = t
    BY <2>1, <2>2, EnterFrame
  <2>3. CASE u # t
    <3>1. pc'[u] = pc[u] /\ (met'[u] = {} => met[u] = {})
      BY <2>1, <2>3, EnterFrame
    <3>. QED
      BY <1>1, <2>1, <3>1
  <2>. QED
    BY <2>2, <2>3
<1>4. ASSUME NEW t \in Threads, ProbeStep(t)
      PROVE  Holds(u)'
  <2>1. /\ met' = met /\ pc[t] \in ProbePcs
        /\ \A v \in Threads \ {t} : pc'[v] = pc[v]
    BY <1>4, ProbeFrame DEF TypeOK
  <2>2. CASE u # t
    <3>1. pc[u] \in ProbePcs => met[u] # {}
      BY <2>1, <2>2 DEF MetInv
    <3>. QED
      BY <1>1, <2>1, <2>2, <3>1 DEF ProbePcs
  <2>3. CASE u = t
    <3>1. /\ pc \in [Threads -> Pcs] /\ writable \in BOOLEAN
          /\ sentinel \in [by : Threads \cup {NoThread}, data : BOOLEAN]
      BY DEF TypeOK, Pcs
    <3>2. CASE RemoveStale(t)
      BY <1>1, <2>3, <3>1, <3>2 DEF RemoveStale, LeaveProbe, Moves
    <3>3. CASE CreateSentinel(t)
      BY <1>1, <2>3, <3>1, <3>3 DEF CreateSentinel, LeaveProbe, Moves
    <3>4. CASE WriteSentinel(t)
      <4>1. writable /\ (met[t] = {} => sentinel = [by |-> t, data |-> FALSE])
        BY <1>1, <3>4 DEF WriteSentinel
      <4>2. /\ pc'[t] \notin {"create", "write", "unlink"}
            /\ pc'[t] = "read" /\ sentinel.by = t =>
                 sentinel' = [sentinel EXCEPT !.data = TRUE]
        BY <3>1, <3>4 DEF WriteSentinel, LeaveProbe, Moves
      <4>. QED
        BY <1>1, <2>1, <2>3, <4>1, <4>2
    <3>5. CASE ReadSentinel(t)
      <4>1. writable /\ (met[t] = {} => sentinel = [by |-> t, data |-> TRUE])
        BY <1>1, <3>5 DEF ReadSentinel
      <4>2. /\ pc'[t] \notin {"create", "write", "read"}
            /\ pc'[t] = "unlink" => sentinel' = sentinel
        BY <3>1, <3>5 DEF ReadSentinel, LeaveProbe, Moves
      <4>. QED
        BY <1>1, <2>1, <2>3, <4>1, <4>2
    <3>6. CASE UnlinkSentinel(t)
      BY <2>3, <3>1, <3>6 DEF UnlinkSentinel, LeaveProbe, Moves
    <3>. QED
      BY <1>4, <3>2, <3>3, <3>4, <3>5, <3>6 DEF ProbeStep
  <2>. QED
    BY <2>2, <2>3
<1>5. ASSUME NEW c \in Containers, Gone(c)
      PROVE  Holds(u)'
  <2>1. /\ sentinel' = sentinel
        /\ pc'[u] = "off" \/ (pc'[u] = pc[u] /\ met'[u] = met[u])
    BY <1>5, GoneFrame
  <2>. QED
    BY <1>1, <2>1
<1>6. CASE Quiet
  <2>1. /\ UNCHANGED <<sentinel, met>>
        /\ pc'[u] = pc[u] \/ pc'[u] \notin ProbePcs
    BY <1>6 DEF Quiet
  <2>. QED
    BY <1>1, <2>1 DEF ProbePcs
<1>. QED
  BY <1>3, <1>4, <1>5, <1>6, Kinds

\* What a step of the probe reports is true.
LEMMA StepTruthful ==
  ASSUME TypeOK, SentinelInv, ProbeTruthful, [Next]_vars
  PROVE  ProbeTruthful'
<1> DEFINE Holds(t) == /\ "failed" \in logged[t] => ~writable \/ met[t] # {}
                       /\ "succeeded" \in logged[t] => writable
<1>1. writable' = writable /\ \A t \in Threads : Holds(t)
  BY Kinds DEF config, ProbeTruthful
<1>2. SUFFICES ASSUME NEW u \in Threads
               PROVE  Holds(u)'
  BY DEF ProbeTruthful
<1>3. ASSUME NEW t \in Threads, Enters(t)
      PROVE  Holds(u)'
  <2>1. EnterProbe(t)
    BY <1>3 DEF Enters
  <2>2. CASE u = t
    BY <2>1, <2>2, EnterFrame
  <2>3. CASE u # t
    <3>1. logged'[u] = logged[u] /\ (met'[u] = {} => met[u] = {})
      BY <2>1, <2>3, EnterFrame
    <3>. QED
      BY <1>1, <3>1
  <2>. QED
    BY <2>2, <2>3
<1>4. ASSUME NEW t \in Threads, ProbeStep(t)
      PROVE  Holds(u)'
  <2>1. met' = met /\ logged \in [Threads -> Lines] /\ writable \in BOOLEAN
    BY <1>4, ProbeFrame DEF TypeOK, Lines
  <2>2. CASE u # t
    <3>1. logged'[u] = logged[u]
      BY <1>4, <2>1, <2>2, ProbeFrame
    <3>. QED
      BY <1>1, <2>1, <3>1
  <2>3. CASE u = t
    <3>2. CASE RemoveStale(t)
      BY <1>1, <2>1, <2>3, <3>2 DEF RemoveStale, LeaveProbe
    <3>3. CASE CreateSentinel(t)
      <4>1. \/ logged' = logged
            \/ /\ ~writable \/ sentinel # NoFile
               /\ logged' = [logged EXCEPT ![t] = {"failed"}]
        BY <3>3 DEF CreateSentinel, LeaveProbe
      <4>2. met[t] = {} /\ writable => sentinel = NoFile
        BY <3>3 DEF CreateSentinel, SentinelInv
      <4>. QED
        BY <1>1, <2>1, <2>3, <4>1, <4>2
    <3>4. CASE WriteSentinel(t)
      <4>1. \/ logged' = logged
            \/ sentinel.by # t /\ logged' = [logged EXCEPT ![t] = {"failed"}]
        BY <3>4 DEF WriteSentinel, LeaveProbe
      <4>2. met[t] = {} => sentinel.by = t
        BY <3>4 DEF WriteSentinel, SentinelInv
      <4>. QED
        BY <1>1, <2>1, <2>3, <4>1, <4>2
    <3>5. CASE ReadSentinel(t)
      <4>1. \/ logged' = logged
            \/ ~sentinel.data /\ logged' = [logged EXCEPT ![t] = {"failed"}]
        BY <3>5 DEF ReadSentinel, LeaveProbe
      <4>2. met[t] = {} => sentinel.data
        BY <3>5 DEF ReadSentinel, SentinelInv
      <4>. QED
        BY <1>1, <2>1, <2>3, <4>1, <4>2
    <3>6. CASE UnlinkSentinel(t)
      <4>1. logged' = [logged EXCEPT ![t] = IF sentinel = NoFile THEN {"succeeded", "failed"}
                                            ELSE {"succeeded"}]
        BY <3>6 DEF UnlinkSentinel, LeaveProbe
      <4>2. /\ writable
            /\ met[t] = {} => sentinel = [by |-> t, data |-> TRUE]
        BY <3>6 DEF UnlinkSentinel, SentinelInv
      <4>3. sentinel = [by |-> t, data |-> TRUE] => sentinel # NoFile
        BY WriteProbeAssumption DEF NoFile
      <4>. QED
        BY <1>1, <2>1, <2>3, <4>1, <4>2, <4>3
    <3>. QED
      BY <1>4, <3>2, <3>3, <3>4, <3>5, <3>6 DEF ProbeStep
  <2>. QED
    BY <2>2, <2>3
<1>5. ASSUME NEW c \in Containers, Gone(c)
      PROVE  Holds(u)'
  <2>1. logged'[u] = {} \/ (logged'[u] = logged[u] /\ met'[u] = met[u])
    BY <1>5, GoneFrame
  <2>. QED
    BY <1>1, <2>1
<1>6. CASE Quiet
  BY <1>1, <1>6 DEF Quiet
<1>. QED
  BY <1>3, <1>4, <1>5, <1>6, Kinds

-----------------------------------------------------------------------------
(* The container before it serves *)

\* A container begins an inspection before it serves only once the one before has
\* ended: none of its threads is in the probe then.
LEMMA BeginsAlone ==
  ASSUME TypeOK, SoloInv, NEW c \in Containers, Start(c) \/ LoadNext(c) \/ Teardown(c)
  PROVE  \A u \in Threads : u[1] = c => pc[u] \notin ProbePcs
<1>1. SUFFICES ASSUME NEW u \in Threads, u[1] = c, pc[u] \in ProbePcs
               PROVE  FALSE
  OBVIOUS
<1>2. /\ stage[c] # "down"
      /\ stage[c] = "loading" => u[2] = loads[c]
  BY <1>1 DEF SoloInv
<1>3. stage[c] = "loading" /\ pc[<<c, loads[c]>>] \in {"loaded", "unloaded"}
  BY <1>2 DEF Start, LoadNext, Teardown
<1>4. u = <<c, loads[c]>>
  BY <1>1, <1>2, <1>3, ThreadParts
<1>. QED
  BY <1>1, <1>3, <1>4 DEF ProbePcs

\* Where the stage and the count of loads go.
LEMMA StepSolo ==
  ASSUME TypeOK, SoloInv, [Next]_vars
  PROVE  SoloInv'
<1>1. /\ stage \in [Containers -> {"down", "loading", "serving", "ending"}]
      /\ loads \in [Containers -> 0 .. Workers] /\ Workers \in Nat
      /\ 1 \in 0 .. Workers /\ 0 \in 0 .. Workers
  BY WriteProbeAssumption DEF TypeOK
<1>2. SUFFICES ASSUME NEW u \in Threads, pc'[u] \in ProbePcs
               PROVE  /\ stage'[u[1]] # "down"
                      /\ stage'[u[1]] = "loading" => u[2] = loads'[u[1]]
                      /\ stage'[u[1]] = "ending" => u[2] = 0
  BY DEF SoloInv
<1>3. u[1] \in Containers
  BY ThreadParts
<1>4. pc[u] \in ProbePcs =>
        /\ stage[u[1]] # "down"
        /\ stage[u[1]] = "loading" => u[2] = loads[u[1]]
        /\ stage[u[1]] = "ending" => u[2] = 0
  BY DEF SoloInv
<1>5. ASSUME NEW c \in Containers, NEW n \in 0 .. Workers, NEW s \in {"loading", "ending"},
             EnterProbe(<<c, n>>), Start(c) \/ LoadNext(c) \/ Teardown(c),
             stage' = [stage EXCEPT ![c] = s], s = "ending" => n = 0,
             s = "loading" => loads' = [loads EXCEPT ![c] = n],
             s = "ending" => loads' = loads
      PROVE  /\ stage'[u[1]] # "down"
             /\ stage'[u[1]] = "loading" => u[2] = loads'[u[1]]
             /\ stage'[u[1]] = "ending" => u[2] = 0
  <2>1. <<c, n>> \in Threads /\ <<c, n>>[1] = c /\ <<c, n>>[2] = n
    BY <1>5, ThreadParts
  <2>2. CASE u = <<c, n>>
    BY <1>1, <1>5, <2>1, <2>2
  <2>3. CASE u # <<c, n>>
    <3>1. pc[u] \in ProbePcs
      BY <1>2, <1>5, <2>1, <2>3, EnterFrame
    <3>2. u[1] # c
      BY <1>5, <3>1, BeginsAlone
    <3>. QED
      BY <1>1, <1>3, <1>4, <1>5, <3>1, <3>2
  <2>. QED
    BY <2>2, <2>3
<1>6. ASSUME NEW c \in Containers, Start(c)
      PROVE  /\ stage'[u[1]] # "down"
             /\ stage'[u[1]] = "loading" => u[2] = loads'[u[1]]
             /\ stage'[u[1]] = "ending" => u[2] = 0
  BY <1>1, <1>5, <1>6 DEF Start
<1>7. ASSUME NEW c \in Containers, LoadNext(c)
      PROVE  /\ stage'[u[1]] # "down"
             /\ stage'[u[1]] = "loading" => u[2] = loads'[u[1]]
             /\ stage'[u[1]] = "ending" => u[2] = 0
  <2>1. loads[c] + 1 \in 0 .. Workers
    BY <1>1, <1>7 DEF LoadNext
  <2>2. stage' = [stage EXCEPT ![c] = "loading"]
    BY <1>1, <1>7 DEF LoadNext
  <2>. QED
    BY <1>1, <1>5, <1>7, <2>1, <2>2 DEF LoadNext
<1>8. ASSUME NEW c \in Containers, Teardown(c)
      PROVE  /\ stage'[u[1]] # "down"
             /\ stage'[u[1]] = "loading" => u[2] = loads'[u[1]]
             /\ stage'[u[1]] = "ending" => u[2] = 0
  BY <1>1, <1>5, <1>8 DEF Teardown
<1>9. ASSUME NEW c \in Containers, Serve(c)
      PROVE  /\ stage'[u[1]] # "down"
             /\ stage'[u[1]] = "loading" => u[2] = loads'[u[1]]
             /\ stage'[u[1]] = "ending" => u[2] = 0
  BY <1>1, <1>2, <1>3, <1>4, <1>9 DEF Serve
<1>10. ASSUME NEW c \in Containers, Gone(c)
       PROVE  /\ stage'[u[1]] # "down"
              /\ stage'[u[1]] = "loading" => u[2] = loads'[u[1]]
              /\ stage'[u[1]] = "ending" => u[2] = 0
  <2>1. u[1] # c /\ pc'[u] = pc[u]
    BY <1>2, <1>10, GoneFrame DEF ProbePcs
  <2>. QED
    BY <1>1, <1>2, <1>3, <1>4, <1>10, <2>1 DEF Gone
<1>11. ASSUME NEW t \in Threads, Reload(t)
       PROVE  /\ stage'[u[1]] # "down"
              /\ stage'[u[1]] = "loading" => u[2] = loads'[u[1]]
              /\ stage'[u[1]] = "ending" => u[2] = 0
  <2>1. EnterProbe(t)
    BY <1>11 DEF Reload
  <2>2. u # t => pc'[u] = pc[u]
    BY <2>1, EnterFrame
  <2>3. stage[t[1]] = "serving" /\ stage' = stage /\ loads' = loads
    BY <1>11 DEF Reload
  <2>. QED
    BY <1>2, <1>4, <2>2, <2>3
<1>12. CASE \/ UNCHANGED vars
            \/ \E t \in Threads : Unload(t) \/ ProbeStep(t)
  <2>1. UNCHANGED <<stage, loads>> /\ pc[u] \in ProbePcs
    BY <1>2, <1>12, ProbeFrame DEF vars, Unload, Moves, TypeOK, ProbePcs
  <2>. QED
    BY <1>4, <2>1
<1>. QED
  BY <1>6, <1>7, <1>8, <1>9, <1>10, <1>11, <1>12 DEF Next

\* No thread of a container that does not serve has met another of it.
LEMMA StepBoot ==
  ASSUME TypeOK, SoloInv, BootInv, [Next]_vars
  PROVE  BootInv'
<1>1. stage \in [Containers -> {"down", "loading", "serving", "ending"}]
      /\ loads \in [Containers -> 0 .. Workers] /\ Workers \in Nat
      /\ 1 \in 0 .. Workers /\ 0 \in 0 .. Workers
  BY WriteProbeAssumption DEF TypeOK
<1>2. SUFFICES ASSUME NEW u \in Threads, stage'[u[1]] # "serving", u[1] \in met'[u]
               PROVE  FALSE
  BY DEF BootInv
<1>3. u[1] \in Containers /\ (stage[u[1]] # "serving" => u[1] \notin met[u])
  BY ThreadParts DEF BootInv
<1>4. ASSUME NEW c \in Containers, NEW n \in 0 .. Workers, EnterProbe(<<c, n>>),
             Start(c) \/ LoadNext(c) \/ Teardown(c), stage[c] # "serving",
             \A d \in Containers \ {c} : stage'[d] = stage[d]
      PROVE  FALSE
  <2>1. <<c, n>> \in Threads /\ <<c, n>>[1] = c
    BY <1>4, ThreadParts
  <2>2. \A v \in Threads : v[1] = c => pc[v] \notin ProbePcs
    BY <1>4, BeginsAlone
  <2>3. CASE u = <<c, n>>
    <3>1. PICK v \in Threads : pc[v] \in ProbePcs /\ u[1] = v[1]
      BY <1>2, <1>4, <2>1, <2>3, EnterMeets
    <3>. QED
      BY <2>1, <2>2, <2>3, <3>1
  <2>4. CASE u # <<c, n>>
    <3>1. met'[u] = IF pc[u] \in ProbePcs THEN met[u] \cup {c} ELSE met[u]
      BY <1>4, <2>1, <2>4, EnterFrame
    <3>2. u[1] # c => u[1] \in met[u]
      BY <1>2, <3>1
    <3>3. u[1] = c => u[1] \in met[u]
      BY <1>2, <2>2, <3>1
    <3>. QED
      BY <1>2, <1>3, <1>4, <3>2, <3>3
  <2>. QED
    BY <2>3, <2>4
<1>5. ASSUME NEW c \in Containers, Start(c)
      PROVE  FALSE
  BY <1>1, <1>4, <1>5 DEF Start
<1>6. ASSUME NEW c \in Containers, LoadNext(c)
      PROVE  FALSE
  <2>1. loads[c] + 1 \in 0 .. Workers
    BY <1>1, <1>6 DEF LoadNext
  <2>. QED
    BY <1>1, <1>4, <1>6, <2>1 DEF LoadNext
<1>7. ASSUME NEW c \in Containers, Teardown(c)
      PROVE  FALSE
  BY <1>1, <1>4, <1>7 DEF Teardown
<1>8. ASSUME NEW c \in Containers, Gone(c)
      PROVE  FALSE
  <2>1. u[1] # c /\ met'[u] = met[u]
    BY <1>2, <1>8, GoneFrame
  <2>. QED
    BY <1>1, <1>2, <1>3, <1>8, <2>1 DEF Gone
<1>9. ASSUME NEW c \in Containers, Serve(c)
      PROVE  FALSE
  BY <1>1, <1>2, <1>3, <1>9 DEF Serve
<1>10. ASSUME NEW t \in Threads, Reload(t)
       PROVE  FALSE
  <2>1. stage[t[1]] = "serving" /\ EnterProbe(t) /\ stage' = stage
    BY <1>10 DEF Reload
  <2>2. u # t /\ u[1] # t[1]
    BY <1>2, <2>1
  <2>3. met'[u] = IF pc[u] \in ProbePcs THEN met[u] \cup {t[1]} ELSE met[u]
    BY <2>1, <2>2, EnterFrame
  <2>4. u[1] \in met[u]
    BY <1>2, <2>2, <2>3
  <2>. QED
    BY <1>2, <1>3, <2>1, <2>4
<1>11. CASE \/ UNCHANGED vars
            \/ \E t \in Threads : Unload(t) \/ ProbeStep(t)
  <2>1. UNCHANGED <<stage, met>>
    BY <1>11, ProbeFrame DEF vars, Unload
  <2>. QED
    BY <1>2, <1>3, <2>1
<1>. QED
  BY <1>5, <1>6, <1>7, <1>8, <1>9, <1>10, <1>11 DEF Next

-----------------------------------------------------------------------------
(* The theorems *)

\* No container is up and no file is there.
LEMMA InitProbe == Init => ProbeInv
<1> SUFFICES ASSUME Init
             PROVE  ProbeInv
  OBVIOUS
<1>1. TypeOK
  BY WriteProbeAssumption DEF Init, TypeOK, NoFile
<1>2. \A t \in Threads : pc[t] = "off" /\ met[t] = {} /\ logged[t] = {}
  BY DEF Init
<1>. QED
  BY <1>1, <1>2 DEF ProbeInv, MetInv, SentinelInv, ProbeTruthful, SoloInv, BootInv, ProbePcs

\* The inductive invariant, for every fleet.
THEOREM ProbeInvariant == Spec => []ProbeInv
<1>1. ProbeInv /\ [Next]_vars => ProbeInv'
  BY StepTyped, StepMet, StepSentinel, StepTruthful, StepSolo, StepBoot DEF ProbeInv
<1>. QED
  BY <1>1, InitProbe, PTL DEF Spec

\* Types, and that no container begins more first loads than it has workers (pool.rs).
THEOREM ProbeTypeCorrect == Spec => []TypeOK
<1>1. ProbeInv => TypeOK
  BY DEF ProbeInv
<1>. QED
  BY <1>1, ProbeInvariant, PTL

\* run_write_probe, for any number of containers and workers that load, reload,
\* probe and are killed in any order: a failure on a writable volume is reported
\* only when another thread was probing meanwhile.
THEOREM ProbeIsTruthful == Spec => []ProbeTruthful
<1>1. ProbeInv => ProbeTruthful
  BY DEF ProbeInv
<1>. QED
  BY <1>1, ProbeInvariant, PTL

\* The sequential first loads of pool.rs and the teardown of lib.rs, for any number
\* of workers: before it serves, a container's own threads do not disturb its probes.
THEOREM BootProbeIsTruthful == Spec => []BootProbeTruthful
<1>1. ProbeInv => BootProbeTruthful
  BY DEF ProbeInv, ProbeTruthful, BootInv, BootProbeTruthful
<1>. QED
  BY <1>1, ProbeInvariant, PTL

=============================================================================
