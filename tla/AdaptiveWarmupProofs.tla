------------------------- MODULE AdaptiveWarmupProofs -------------------------
(***************************************************************************)
(* Proofs about AdaptiveWarmup, for every set of shapes, every channel,    *)
(* every budget, every quiet window and every length of an hour.           *)
(***************************************************************************)
EXTENDS AdaptiveWarmup, FiniteSetTheorems, TLAPS

-----------------------------------------------------------------------------
(* The inductive invariant *)

\* A task that is about to compile has budget left, and one that waits has not
\* waited long enough.
ReadyInv ==
  /\ pc \in {"quiet", "fire", "ack"} => shapesThisHour < MaxShapesPerHour
  /\ pc = "quiet" => idle < QuietSecs

\* The recent compiles are those of the running hour, which are counted, after at
\* most a budget of older ones, which will be an hour old before the next reset.
HourInv ==
  \E before \in 0 .. Len(recent) :
    /\ before <= MaxShapesPerHour
    /\ Len(recent) - before <= shapesThisHour
    /\ \A i \in 1 .. before : recent[i] >= hourAge

WarmupInv ==
  /\ TypeOK
  /\ ReadyInv
  /\ PendingFresh
  /\ HourInv

-----------------------------------------------------------------------------
(* The pending shapes *)

\* No shape twice and none that is warmed.
Fresh(p, w) == IsInjective(p) /\ Range(p) \cap w = {}

\* A list of new shapes may follow.
LEMMA FreshConcat ==
  ASSUME NEW p \in Seq(Shapes), NEW q \in Seq(Shapes), NEW w,
         Fresh(p, w), Fresh(q, w), Range(p) \cap Range(q) = {}
  PROVE  /\ p \o q \in Seq(Shapes) /\ Fresh(p \o q, w)
         /\ p # <<>> => p \o q # <<>>
<1>1. /\ p \o q \in Seq(Shapes) /\ Len(p) \in Nat /\ Len(q) \in Nat
      /\ DOMAIN p = 1 .. Len(p) /\ DOMAIN q = 1 .. Len(q)
      /\ DOMAIN (p \o q) = 1 .. Len(p) + Len(q)
      /\ \A i \in 1 .. Len(p) + Len(q) : (p \o q)[i] = IF i <= Len(p) THEN p[i] ELSE q[i - Len(p)]
      /\ p # <<>> => p \o q # <<>>
  OBVIOUS
<1>2. ASSUME NEW i \in 1 .. Len(p) + Len(q)
      PROVE  \/ i \in 1 .. Len(p) /\ (p \o q)[i] = p[i]
             \/ i - Len(p) \in 1 .. Len(q) /\ (p \o q)[i] = q[i - Len(p)]
  BY <1>1
<1>3. \A i \in 1 .. Len(p), j \in 1 .. Len(q) : p[i] # q[j]
  BY <1>1 DEF Range
<1>4. /\ \A i, j \in 1 .. Len(p) : p[i] = p[j] => i = j
      /\ \A i, j \in 1 .. Len(q) : q[i] = q[j] => i = j
      /\ \A i \in 1 .. Len(p) : p[i] \notin w
      /\ \A i \in 1 .. Len(q) : q[i] \notin w
  BY <1>1 DEF Fresh, IsInjective, Range
<1>5. ASSUME NEW i \in 1 .. Len(p) + Len(q), NEW j \in 1 .. Len(p) + Len(q),
             (p \o q)[i] = (p \o q)[j]
      PROVE  i = j
  <2>1. CASE i \in 1 .. Len(p) /\ (p \o q)[i] = p[i]
    <3>1. j \in 1 .. Len(p) /\ (p \o q)[j] = p[j]
      BY <1>2, <1>3, <1>5, <2>1
    <3>. QED
      BY <1>4, <1>5, <2>1, <3>1
  <2>2. CASE i - Len(p) \in 1 .. Len(q) /\ (p \o q)[i] = q[i - Len(p)]
    <3>1. j - Len(p) \in 1 .. Len(q) /\ (p \o q)[j] = q[j - Len(p)]
      BY <1>2, <1>3, <1>5, <2>2
    <3>2. i - Len(p) = j - Len(p)
      BY <1>4, <1>5, <2>2, <3>1
    <3>. QED
      BY <1>1, <3>2
  <2>. QED
    BY <1>2, <2>1, <2>2
<1>6. \A i \in 1 .. Len(p) + Len(q) : (p \o q)[i] \notin w
  BY <1>2, <1>4
<1>. QED
  BY <1>1, <1>5, <1>6 DEF Fresh, IsInjective, Range

\* A new shape may follow.
LEMMA FreshAppend ==
  ASSUME NEW p \in Seq(Shapes), NEW s \in Shapes, NEW w, Fresh(p, w), s \notin w \cup Range(p)
  PROVE  Append(p, s) \in Seq(Shapes) /\ Fresh(Append(p, s), w) /\ Append(p, s) # <<>>
<1>1. /\ Append(p, s) \in Seq(Shapes) /\ Len(p) \in Nat /\ Append(p, s) # <<>>
      /\ DOMAIN p = 1 .. Len(p) /\ DOMAIN Append(p, s) = 1 .. Len(p) + 1
      /\ \A i \in 1 .. Len(p) : Append(p, s)[i] = p[i]
      /\ Append(p, s)[Len(p) + 1] = s
  OBVIOUS
<1>2. \A i \in 1 .. Len(p) + 1 : i \in 1 .. Len(p) \/ i = Len(p) + 1
  BY <1>1
<1>3. \A i \in 1 .. Len(p) : p[i] # s /\ p[i] \notin w
  BY <1>1 DEF Range, Fresh
<1>4. \A i, j \in 1 .. Len(p) : p[i] = p[j] => i = j
  BY <1>1 DEF Fresh, IsInjective
<1>5. \A i, j \in 1 .. Len(p) + 1 : Append(p, s)[i] = Append(p, s)[j] => i = j
  BY <1>1, <1>2, <1>3, <1>4
<1>6. \A i \in 1 .. Len(p) + 1 : Append(p, s)[i] \notin w
  BY <1>1, <1>2, <1>3
<1>. QED
  BY <1>1, <1>5, <1>6 DEF Fresh, IsInjective, Range

\* The first of the pending shapes may go, and be warmed.
LEMMA FreshTail ==
  ASSUME NEW p \in Seq(Shapes), p # <<>>, NEW w, Fresh(p, w)
  PROVE  /\ Head(p) \in Shapes /\ Tail(p) \in Seq(Shapes)
         /\ Fresh(Tail(p), w) /\ Fresh(Tail(p), w \cup {Head(p)})
<1>1. /\ Head(p) \in Shapes /\ Tail(p) \in Seq(Shapes) /\ Len(p) \in Nat \ {0}
      /\ Head(p) = p[1] /\ DOMAIN p = 1 .. Len(p) /\ DOMAIN Tail(p) = 1 .. Len(p) - 1
      /\ \A i \in 1 .. Len(p) - 1 : Tail(p)[i] = p[i + 1]
  OBVIOUS
<1>2. \A i \in 1 .. Len(p) - 1 : i + 1 \in 1 .. Len(p) /\ i + 1 # 1
  BY <1>1
<1>3. \A i, j \in 1 .. Len(p) : p[i] = p[j] => i = j
  BY <1>1 DEF Fresh, IsInjective
<1>4. \A i \in 1 .. Len(p) : p[i] \notin w
  BY <1>1 DEF Fresh, Range
<1>5. \A i, j \in 1 .. Len(p) - 1 : Tail(p)[i] = Tail(p)[j] => i = j
  BY <1>1, <1>2, <1>3
<1>6. 1 \in 1 .. Len(p)
  BY <1>1
<1>7. \A i \in 1 .. Len(p) - 1 : Tail(p)[i] \notin w /\ Tail(p)[i] # Head(p)
  BY <1>1, <1>2, <1>3, <1>4, <1>6
<1>. QED
  BY <1>1, <1>5, <1>7 DEF Fresh, IsInjective, Range

\* What drain_rx adds is new.
LEMMA DrainFresh ==
  ASSUME TypeOK, Fresh(pending, warmed), Drain
  PROVE  /\ rx' = <<>> /\ pending' \in Seq(Shapes) /\ Fresh(pending', warmed)
         /\ pending # <<>> => pending' # <<>>
<1>1. PICK added \in Bijection(1 .. Cardinality(NewShapes), NewShapes) :
        pending' = pending \o added
  BY DEF Drain
<1>2. pending \in Seq(Shapes) /\ rx \in Seq(Shapes) /\ IsFiniteSet(Shapes)
  BY WarmupAssumption DEF TypeOK
<1>3. NewShapes \subseteq Shapes
  BY <1>2 DEF NewShapes, Range
<1>4. Cardinality(NewShapes) \in Nat
  BY <1>2, <1>3, FS_Subset, FS_CardinalityType
<1>5. /\ added \in [1 .. Cardinality(NewShapes) -> NewShapes] /\ IsInjective(added)
  BY DEF Bijection, Injection
<1>6. added \in Seq(NewShapes) /\ added \in Seq(Shapes)
  BY <1>3, <1>4, <1>5
<1>7. Range(added) \subseteq NewShapes
  BY <1>5 DEF Range
<1>8. Fresh(added, warmed) /\ Range(pending) \cap Range(added) = {}
  BY <1>5, <1>7 DEF Fresh, NewShapes
<1>. QED
  BY <1>1, <1>2, <1>6, <1>8, FreshConcat DEF Drain

-----------------------------------------------------------------------------
(* The hour *)

\* The counts of an hour survive the reset: at that moment every older compile is
\* no longer recent.
LEMMA TopHour ==
  ASSUME WarmupInv, Top
  PROVE  /\ HourInv' /\ shapesThisHour' \in 0 .. MaxShapesPerHour /\ hourAge' \in 0 .. Hour
         /\ pc' \in {"quiet", "fire"} => shapesThisHour' < MaxShapesPerHour
<1>1. /\ recent \in Seq(0 .. Hour - 1) /\ shapesThisHour \in 0 .. MaxShapesPerHour
      /\ hourAge \in 0 .. Hour /\ Len(recent) \in Nat
      /\ \A i \in 1 .. Len(recent) : recent[i] \in 0 .. Hour - 1
      /\ MaxShapesPerHour \in Nat /\ Hour \in Nat \ {0}
  BY WarmupAssumption DEF WarmupInv, TypeOK
<1>2. PICK before \in 0 .. Len(recent) :
        /\ before <= MaxShapesPerHour
        /\ Len(recent) - before <= shapesThisHour
        /\ \A i \in 1 .. before : recent[i] >= hourAge
  BY DEF WarmupInv, HourInv
<1>3. recent' = recent
  BY DEF Top
<1>4. CASE hourAge >= Hour
  <2>1. shapesThisHour' = 0 /\ hourAge' = 0
    BY <1>4 DEF Top, Budget
  <2>2. before = 0
    <3>1. SUFFICES ASSUME before # 0 PROVE FALSE
      OBVIOUS
    <3>2. 1 \in 1 .. before /\ 1 \in 1 .. Len(recent)
      BY <1>1, <3>1
    <3>3. recent[1] >= hourAge /\ recent[1] \in 0 .. Hour - 1
      BY <1>1, <1>2, <3>2
    <3>. QED
      BY <1>1, <1>4, <3>3
  <2>3. Len(recent) <= MaxShapesPerHour
    BY <1>1, <1>2, <2>2
  <2>4. HourInv'
    <3>1. \A i \in 1 .. Len(recent) : recent[i] >= 0
      BY <1>1
    <3>2. Len(recent) \in 0 .. Len(recent) /\ Len(recent) - Len(recent) <= 0
      BY <1>1
    <3>. QED
      BY <1>3, <2>1, <2>3, <3>1, <3>2 DEF HourInv
  <2>5. pc' \in {"quiet", "fire"} => 0 < MaxShapesPerHour
    BY <1>1, <1>4 DEF Top, Budget
  <2>. QED
    BY <1>1, <2>1, <2>4, <2>5
<1>5. CASE ~(hourAge >= Hour)
  <2>1. shapesThisHour' = shapesThisHour /\ hourAge' = hourAge
    BY <1>5 DEF Top, Budget
  <2>2. HourInv'
    BY <1>2, <1>3, <2>1 DEF HourInv
  <2>3. pc' \in {"quiet", "fire"} => shapesThisHour < MaxShapesPerHour
    BY <1>1, <1>5 DEF Top, Budget
  <2>. QED
    BY <1>1, <2>1, <2>2, <2>3
<1>. QED
  BY <1>4, <1>5

\* A compile is counted when it is recent.
LEMMA AckHour ==
  ASSUME WarmupInv, AckOk
  PROVE  HourInv' /\ recent' \in Seq(0 .. Hour - 1) /\ shapesThisHour' \in 0 .. MaxShapesPerHour
<1>1. /\ recent \in Seq(0 .. Hour - 1) /\ shapesThisHour \in 0 .. MaxShapesPerHour
      /\ hourAge \in 0 .. Hour /\ Len(recent) \in Nat
      /\ MaxShapesPerHour \in Nat /\ 0 \in 0 .. Hour - 1
  BY WarmupAssumption DEF WarmupInv, TypeOK
<1>2. PICK before \in 0 .. Len(recent) :
        /\ before <= MaxShapesPerHour
        /\ Len(recent) - before <= shapesThisHour
        /\ \A i \in 1 .. before : recent[i] >= hourAge
  BY DEF WarmupInv, HourInv
<1>3. /\ recent' = Append(recent, 0) /\ shapesThisHour' = shapesThisHour + 1
      /\ hourAge' = hourAge
  BY DEF AckOk
<1>4. shapesThisHour < MaxShapesPerHour
  BY DEF WarmupInv, ReadyInv, AckOk
<1>5. /\ recent' \in Seq(0 .. Hour - 1) /\ Len(recent') = Len(recent) + 1
      /\ \A i \in 1 .. Len(recent) : recent'[i] = recent[i]
  BY <1>1, <1>3
<1>6. before \in 0 .. Len(recent') /\ Len(recent') - before <= shapesThisHour'
  BY <1>1, <1>2, <1>3, <1>5
<1>7. \A i \in 1 .. before : i \in 1 .. Len(recent)
  BY <1>1, <1>2
<1>8. \A i \in 1 .. before : recent'[i] >= hourAge'
  BY <1>2, <1>3, <1>5, <1>7
<1>9. HourInv'
  BY <1>2, <1>6, <1>8 DEF HourInv
<1>. QED
  BY <1>1, <1>3, <1>4, <1>5, <1>9

\* The compiles and the hour age together.
LEMMA TickHour ==
  ASSUME WarmupInv, Tick
  PROVE  HourInv' /\ recent' \in Seq(0 .. Hour - 1) /\ hourAge' \in 0 .. Hour
<1>1. /\ recent \in Seq(0 .. Hour - 1) /\ shapesThisHour \in 0 .. MaxShapesPerHour
      /\ hourAge \in 0 .. Hour /\ Len(recent) \in Nat
      /\ \A i \in 1 .. Len(recent) : recent[i] \in 0 .. Hour - 1
      /\ MaxShapesPerHour \in Nat /\ Hour \in Nat \ {0}
  BY WarmupAssumption DEF WarmupInv, TypeOK
<1>2. PICK before \in 0 .. Len(recent) :
        /\ before <= MaxShapesPerHour
        /\ Len(recent) - before <= shapesThisHour
        /\ \A i \in 1 .. before : recent[i] >= hourAge
  BY DEF WarmupInv, HourInv
<1>3. PICK old \in 0 .. Len(recent) :
        /\ \A i \in 1 .. Len(recent) : recent[i] + 1 >= Hour <=> i <= old
        /\ recent' = [i \in 1 .. Len(recent) - old |-> recent[i + old] + 1]
  BY DEF Tick
<1>4. /\ shapesThisHour' = shapesThisHour /\ hourAge' \in 0 .. Hour
      /\ hourAge' <= hourAge + 1
  BY <1>1 DEF Tick
<1>5. Len(recent) - old \in Nat /\ \A i \in 1 .. Len(recent) - old : i + old \in 1 .. Len(recent)
  BY <1>1
<1>6. \A i \in 1 .. Len(recent) - old : recent[i + old] + 1 \in 0 .. Hour - 1
  <2>1. TAKE i \in 1 .. Len(recent) - old
  <2>2. i + old \in 1 .. Len(recent) /\ ~(i + old <= old)
    BY <1>1, <1>5
  <2>3. recent[i + old] \in 0 .. Hour - 1 /\ ~(recent[i + old] + 1 >= Hour)
    BY <1>1, <1>3, <2>2
  <2>. QED
    BY <1>1, <2>3
<1>7. recent' \in [1 .. Len(recent) - old -> 0 .. Hour - 1]
  BY <1>3, <1>6
<1>8. recent' \in Seq(0 .. Hour - 1) /\ Len(recent') = Len(recent) - old
  <2> DEFINE n == Len(recent) - old
             A == 0 .. Hour - 1
  <2>1. n \in Nat /\ recent' \in [1 .. n -> A]
    BY <1>5, <1>7
  <2>2. SUFFICES recent' \in Seq(A) /\ Len(recent') = n
    OBVIOUS
  <2> HIDE DEF n, A
  <2>. QED
    BY <2>1
<1> DEFINE rest == IF before > old THEN before - old ELSE 0
<1>9. /\ rest \in 0 .. Len(recent') /\ rest <= MaxShapesPerHour
      /\ Len(recent') - rest <= shapesThisHour'
      /\ \A i \in 1 .. rest : i + old \in 1 .. before /\ i \in 1 .. Len(recent) - old
  BY <1>1, <1>2, <1>4, <1>8
<1> HIDE DEF rest
<1>10. \A i \in 1 .. rest : recent'[i] >= hourAge'
  <2>1. TAKE i \in 1 .. rest
  <2>2. i + old \in 1 .. before /\ i \in 1 .. Len(recent) - old
    BY <1>9
  <2>3. recent'[i] = recent[i + old] + 1
    BY <1>3, <2>2
  <2>4. recent[i + old] >= hourAge /\ recent[i + old] \in 0 .. Hour - 1
    BY <1>1, <1>2, <1>5, <2>2
  <2>. QED
    BY <1>1, <1>4, <2>3, <2>4
<1>11. HourInv'
  BY <1>9, <1>10 DEF HourInv
<1>. QED
  BY <1>4, <1>8, <1>11

\* Other steps touch neither.
LEMMA SameHour ==
  ASSUME HourInv, UNCHANGED <<recent, shapesThisHour, hourAge>>
  PROVE  HourInv'
BY DEF HourInv

-----------------------------------------------------------------------------
(* The steps *)

\* Every step keeps the invariant.
LEMMA StepWarmup ==
  ASSUME WarmupInv, [Next]_vars
  PROVE  WarmupInv'
<1>1. /\ TypeOK /\ ReadyInv /\ PendingFresh /\ HourInv /\ Fresh(pending, warmed)
      /\ pc \in {"quiet", "fire", "ack"} => pending # <<>>
  BY DEF WarmupInv, PendingFresh, Fresh
<1>2. /\ rx \in Seq(Shapes) /\ Len(rx) <= ChannelCapacity /\ pending \in Seq(Shapes)
      /\ idle \in 0 .. QuietSecs /\ Len(rx) \in Nat
      /\ ChannelCapacity \in Nat \ {0} /\ QuietSecs \in Nat
      /\ <<>> \in Seq(Shapes) /\ Len(<<>>) <= ChannelCapacity
  BY <1>1, WarmupAssumption DEF TypeOK
<1>3. CASE Top
  <2>1. /\ rx' = <<>> /\ pending' \in Seq(Shapes) /\ Fresh(pending', warmed)
    BY <1>1, <1>3, DrainFresh DEF Top
  <2>2. /\ HourInv' /\ shapesThisHour' \in 0 .. MaxShapesPerHour /\ hourAge' \in 0 .. Hour
        /\ pc' \in {"quiet", "fire"} => shapesThisHour' < MaxShapesPerHour
    BY <1>3, TopHour
  <2>3. /\ pc' \in {"select", "sleep", "quiet", "fire"} /\ idle' = 0
        /\ pc' \in {"quiet", "fire"} => pending' # <<>>
        /\ pc' = "quiet" => QuietSecs # 0
        /\ UNCHANGED <<warmed, busy, workers, recent>>
    BY <1>3 DEF Top
  <2>4. TypeOK'
    BY <1>1, <1>2, <2>1, <2>2, <2>3 DEF TypeOK
  <2>5. ReadyInv'
    BY <1>2, <2>2, <2>3 DEF ReadyInv
  <2>6. PendingFresh'
    BY <2>1, <2>3 DEF PendingFresh, Fresh
  <2>. QED
    BY <2>2, <2>4, <2>5, <2>6 DEF WarmupInv
<1>4. CASE QuietSecond
  <2>1. /\ rx' = <<>> /\ pending' \in Seq(Shapes) /\ Fresh(pending', warmed)
        /\ pending' # <<>> /\ pc = "quiet" /\ idle < QuietSecs
        /\ shapesThisHour < MaxShapesPerHour
    BY <1>1, <1>4, DrainFresh DEF QuietSecond, ReadyInv
  <2>2. /\ UNCHANGED <<warmed, shapesThisHour, hourAge, busy, workers, recent>>
        /\ \/ pc' = "top" /\ idle' = idle
           \/ /\ idle' = idle + 1
              /\ pc' = IF idle + 1 >= QuietSecs THEN "fire" ELSE "quiet"
    BY <1>4 DEF QuietSecond
  <2>3. TypeOK'
    BY <1>1, <1>2, <2>1, <2>2 DEF TypeOK
  <2>4. ReadyInv'
    BY <1>2, <2>1, <2>2 DEF ReadyInv
  <2>5. PendingFresh'
    BY <2>1, <2>2 DEF PendingFresh, Fresh
  <2>6. HourInv'
    BY <1>1, <2>2, SameHour
  <2>. QED
    BY <2>3, <2>4, <2>5, <2>6 DEF WarmupInv
<1>5. CASE SelectSuspect
  <2>1. /\ rx # <<>> /\ pending' = Insert(pending, Head(rx)) /\ rx' = Tail(rx) /\ pc' = "top"
        /\ UNCHANGED <<warmed, shapesThisHour, hourAge, idle, busy, workers, recent>>
    BY <1>5 DEF SelectSuspect
  <2>2. Head(rx) \in Shapes /\ Tail(rx) \in Seq(Shapes) /\ Len(Tail(rx)) <= ChannelCapacity
    BY <1>2, <2>1
  <2>3. pending' \in Seq(Shapes) /\ Fresh(pending', warmed)
    <3>1. CASE Head(rx) \in warmed \cup Range(pending)
      BY <1>1, <1>2, <2>1, <3>1 DEF Insert
    <3>2. CASE Head(rx) \notin warmed \cup Range(pending)
      BY <1>1, <1>2, <2>1, <2>2, <3>2, FreshAppend DEF Insert
    <3>. QED
      BY <3>1, <3>2
  <2>4. TypeOK'
    BY <1>1, <2>1, <2>2, <2>3 DEF TypeOK
  <2>5. ReadyInv' /\ PendingFresh'
    BY <2>1, <2>3 DEF ReadyInv, PendingFresh, Fresh
  <2>6. HourInv'
    BY <1>1, <2>1, SameHour
  <2>. QED
    BY <2>4, <2>5, <2>6 DEF WarmupInv
<1>6. CASE AckOk
  <2>1. /\ pending # <<>> /\ warmed' = warmed \cup {Head(pending)} /\ pending' = Tail(pending)
        /\ pc' = "top" /\ UNCHANGED <<rx, hourAge, idle, busy, workers>>
    BY <1>1, <1>6 DEF AckOk
  <2>2. /\ Head(pending) \in Shapes /\ pending' \in Seq(Shapes) /\ Fresh(pending', warmed')
    BY <1>1, <1>2, <2>1, FreshTail
  <2>3. /\ HourInv' /\ recent' \in Seq(0 .. Hour - 1)
        /\ shapesThisHour' \in 0 .. MaxShapesPerHour
    BY <1>6, AckHour
  <2>4. TypeOK'
    BY <1>1, <2>1, <2>2, <2>3 DEF TypeOK
  <2>5. ReadyInv' /\ PendingFresh'
    BY <2>1, <2>2 DEF ReadyInv, PendingFresh, Fresh
  <2>. QED
    BY <2>3, <2>4, <2>5 DEF WarmupInv
<1>7. CASE AckErr
  <2>1. /\ pending # <<>> /\ pending' = Tail(pending) /\ pc' = "top"
        /\ UNCHANGED <<rx, warmed, shapesThisHour, hourAge, idle, busy, workers, recent>>
    BY <1>1, <1>7 DEF AckErr
  <2>2. pending' \in Seq(Shapes) /\ Fresh(pending', warmed)
    BY <1>1, <1>2, <2>1, FreshTail
  <2>3. TypeOK'
    BY <1>1, <2>1, <2>2 DEF TypeOK
  <2>4. ReadyInv' /\ PendingFresh'
    BY <2>1, <2>2 DEF ReadyInv, PendingFresh, Fresh
  <2>5. HourInv'
    BY <1>1, <2>1, SameHour
  <2>. QED
    BY <2>3, <2>4, <2>5 DEF WarmupInv
<1>8. CASE Tick
  <2>1. HourInv' /\ recent' \in Seq(0 .. Hour - 1) /\ hourAge' \in 0 .. Hour
    BY <1>8, TickHour
  <2>2. UNCHANGED <<pc, rx, pending, warmed, shapesThisHour, idle, busy, workers>>
    BY <1>8 DEF Tick
  <2>3. TypeOK'
    BY <1>1, <2>1, <2>2 DEF TypeOK
  <2>4. ReadyInv' /\ PendingFresh'
    BY <1>1, <2>2 DEF ReadyInv, PendingFresh
  <2>. QED
    BY <2>1, <2>3, <2>4 DEF WarmupInv
<1>9. ASSUME NEW s \in Shapes, Suspect(s)
      PROVE  WarmupInv'
  <2>1. /\ Len(rx) < ChannelCapacity /\ rx' = Append(rx, s)
        /\ UNCHANGED <<pc, pending, warmed, shapesThisHour, hourAge, idle, busy, workers, recent>>
    BY <1>9 DEF Suspect
  <2>2. rx' \in Seq(Shapes) /\ Len(rx') <= ChannelCapacity
    BY <1>2, <2>1
  <2>3. TypeOK'
    BY <1>1, <2>1, <2>2 DEF TypeOK
  <2>4. ReadyInv' /\ PendingFresh'
    BY <1>1, <2>1 DEF ReadyInv, PendingFresh
  <2>5. HourInv'
    BY <1>1, <2>1, SameHour
  <2>. QED
    BY <2>3, <2>4, <2>5 DEF WarmupInv
<1>10. ASSUME UNCHANGED <<rx, pending, warmed, shapesThisHour, hourAge, idle, recent>>,
              busy' \in BOOLEAN, workers' \in BOOLEAN,
              \/ pc' = pc
              \/ pc' \in {"top", "exited"}
              \/ pc = "fire" /\ pc' = "ack"
       PROVE  WarmupInv'
  <2>1. TypeOK'
    BY <1>1, <1>10 DEF TypeOK
  <2>2. ReadyInv' /\ PendingFresh'
    BY <1>1, <1>10 DEF ReadyInv, PendingFresh
  <2>3. HourInv'
    BY <1>1, <1>10, SameHour
  <2>. QED
    BY <2>1, <2>2, <2>3 DEF WarmupInv
<1>11. CASE SelectClosed \/ Wake \/ Fire
  BY <1>1, <1>10, <1>11 DEF SelectClosed, Wake, Fire, TypeOK
<1>12. CASE Traffic \/ WorkersGone \/ UNCHANGED vars
  BY <1>1, <1>10, <1>12 DEF Traffic, WorkersGone, vars, TypeOK
<1>. QED
  BY <1>3, <1>4, <1>5, <1>6, <1>7, <1>8, <1>9, <1>11, <1>12 DEF Next, TaskStep

-----------------------------------------------------------------------------
(* The theorems *)

\* The inductive invariant of the task.
THEOREM WarmupInvariant == Spec => []WarmupInv
<1>1. Init => WarmupInv
  <2> SUFFICES ASSUME Init
               PROVE  WarmupInv
    OBVIOUS
  <2>1. TypeOK
    <3>1. rx = << >> /\ pending = << >> /\ recent = << >>
      BY DEF Init
    <3>2. rx \in Seq(Shapes) /\ pending \in Seq(Shapes) /\ Len(rx) = 0
      BY <3>1
    <3>3. recent \in Seq(0 .. Hour - 1)
      BY <3>1
    <3>4. /\ Len(rx) <= ChannelCapacity /\ shapesThisHour \in 0 .. MaxShapesPerHour
          /\ hourAge \in 0 .. Hour /\ idle \in 0 .. QuietSecs
      BY <3>2, WarmupAssumption DEF Init
    <3>. QED
      BY <3>2, <3>3, <3>4 DEF Init, TypeOK
  <2>2. ReadyInv /\ PendingFresh
    BY DEF Init, ReadyInv, PendingFresh, IsInjective, Range
  <2>3. HourInv
    BY WarmupAssumption DEF Init, HourInv
  <2>. QED
    BY <2>1, <2>2, <2>3 DEF WarmupInv
<1>2. WarmupInv /\ [Next]_vars => WarmupInv'
  BY StepWarmup
<1>. QED
  BY <1>1, <1>2, PTL DEF Spec

\* Types, the channel's bound (try_send) and the budget's (adaptive_warmup.rs).
THEOREM WarmupTypeCorrect == Spec => []TypeOK
<1>1. WarmupInv => TypeOK
  BY DEF WarmupInv
<1>. QED
  BY <1>1, WarmupInvariant, PTL

\* For every number of shapes and workers that report them: no shape is pending
\* twice or once it is warmed, and the task never fires without one.
THEOREM PendingIsFresh == Spec => []PendingFresh
<1>1. WarmupInv => PendingFresh
  BY DEF WarmupInv
<1>. QED
  BY <1>1, WarmupInvariant, PTL

\* For every max_shapes_per_hour: the compiles of any hour, wherever it begins, are
\* at most two budgets.
THEOREM TwoBudgetsAnHour == Spec => []HourlyBudget
<1>1. ASSUME WarmupInv
      PROVE  HourlyBudget
  <2>1. PICK before \in 0 .. Len(recent) :
          before <= MaxShapesPerHour /\ Len(recent) - before <= shapesThisHour
    BY <1>1 DEF WarmupInv, HourInv
  <2>2. /\ Len(recent) \in Nat /\ shapesThisHour \in 0 .. MaxShapesPerHour
        /\ MaxShapesPerHour \in Nat
    BY <1>1, WarmupAssumption DEF WarmupInv, TypeOK
  <2>. QED
    BY <2>1, <2>2 DEF HourlyBudget
<1>. QED
  BY <1>1, WarmupInvariant, PTL

=============================================================================
