----------------------------- MODULE StartupProofs -----------------------------
(***************************************************************************)
(* What is proved about a start, for every environment and every machine.  *)
(***************************************************************************)
EXTENDS Startup, FiniteSetTheorems, NaturalsInduction, WellFoundedInduction, TLAPS

-----------------------------------------------------------------------------
(* Numbers *)

\* Division by a positive number.
LEMMA DivMod ==
  ASSUME NEW a \in Nat, NEW b \in Nat \ {0}
  PROVE  /\ a \div b \in Nat /\ a % b \in 0 .. b - 1
         /\ a = b * (a \div b) + (a % b)
  OBVIOUS

\* The quotient and the remainder are the only ones.
LEMMA DivModUnique ==
  ASSUME NEW q \in Nat, NEW b \in Nat \ {0}, NEW r \in 0 .. b - 1
  PROVE  (b * q + r) \div b = q /\ (b * q + r) % b = r
  OBVIOUS

\* A product grows with its factors.
LEMMA ProductGrows ==
  ASSUME NEW a \in Nat, NEW b \in Nat, NEW c \in Nat, a <= b
  PROVE  c * a <= c * b /\ a * c <= b * c /\ c * a \in Nat /\ c * b \in Nat
  OBVIOUS

\* A function on an initial segment is a sequence.
LEMMA SegmentIsSeq ==
  ASSUME NEW S, NEW m \in Nat, NEW f \in [1 .. m -> S]
  PROVE  f \in Seq(S) /\ Len(f) = m /\ (m # 0 => f # <<>>)
  OBVIOUS

\* A set of naturals that is not empty has a least element.
LEMMA LeastNumber ==
  ASSUME NEW T \in SUBSET Nat, T # {}
  PROVE  Min(T) \in T /\ \A j \in T : Min(T) <= j
<1>1. PICK m \in T : \A j \in T : ~(<<j, m>> \in OpToRel(<, Nat))
  BY NatLessThanWellFounded, WFMin
<1>2. ASSUME NEW j \in T
      PROVE  m <= j
  <2>1. <<j, m>> \in OpToRel(<, Nat) <=> j < m
    BY DEF OpToRel
  <2>2. ~(<<j, m>> \in OpToRel(<, Nat))
    BY <1>1
  <2>3. ~(j < m)
    BY <2>1, <2>2, Zenon
  <2>. QED
    BY <2>3
<1>. QED
  BY <1>2 DEF Min

\* One that is bounded has a greatest.
LEMMA GreatestNumber ==
  ASSUME NEW T \in SUBSET Nat, T # {}, NEW bound \in Nat, \A j \in T : j <= bound
  PROVE  Max(T) \in T /\ \A j \in T : j <= Max(T)
<1> DEFINE D == {bound - j : j \in T}
<1>1. \A j \in T : bound - j \in Nat
  OBVIOUS
<1>2. D \in SUBSET Nat /\ D # {}
  BY <1>1
<1>3. Min(D) \in D /\ \A d \in D : Min(D) <= d
  BY <1>2, LeastNumber
<1>4. PICK m \in T : Min(D) = bound - m
  BY <1>3
<1>5. ASSUME NEW j \in T
      PROVE  m >= j
  <2>1. bound - m <= bound - j
    BY <1>3, <1>4
  <2>. QED
    BY <2>1
<1>. QED
  BY <1>5 DEF Max

-----------------------------------------------------------------------------
(* The configuration *)

\* A setting, with and without the floor of one.
LEMMA SettingTyped ==
  ASSUME NEW x \in Numbers, NEW d \in Nat
  PROVE  /\ x # Unset => x \in Nat
         /\ Setting(x, d) \in Nat
         /\ AtLeastOne(Setting(x, d)) \in Nat \ {0}
<1>1. x # Unset => x \in Nat
  BY DEF Numbers
<1>2. Setting(x, d) \in Nat
  BY <1>1 DEF Setting
<1>. QED
  BY <1>1, <1>2 DEF AtLeastOne

\* The settings that have bounds of their own.
LEMMA BoundsTyped ==
  ASSUME NEW e \in Environments, NEW h \in Hosts
  PROVE  /\ MaxSeqLength(e) \in 1 .. ModelMaxSeq
         /\ SafetyTenths(e) \in 1 .. 10
         /\ DetectGpuCount(e.gpuCount, h) \in Nat \ {0}
<1>1. /\ e.maxSeq \in Numbers /\ e.gpuCount \in Numbers /\ h.gpus \in Numbers
      /\ e.safety \in Int \cup {Unset}
  BY DEF Environments, Hosts
<1>2. MaxSeqLength(e) \in 1 .. ModelMaxSeq
  <2>1. Setting(e.maxSeq, ModelMaxSeq) \in Nat
    BY <1>1, SettingTyped DEF ModelMaxSeq
  <2>. QED
    BY <2>1 DEF MaxSeqLength, ModelMaxSeq
<1>3. SafetyTenths(e) \in 1 .. 10
  <2>1. Setting(e.safety, 7) \in Int
    BY <1>1 DEF Setting
  <2>. QED
    BY <2>1 DEF SafetyTenths
<1>4. DetectGpuCount(e.gpuCount, h) \in Nat \ {0}
  <2>1. (e.gpuCount # Unset => e.gpuCount \in Nat) /\ (h.gpus # Unset => h.gpus \in Nat)
    BY <1>1, SettingTyped
  <2>. QED
    BY <2>1 DEF DetectGpuCount, AtLeastOne
<1>. QED
  BY <1>2, <1>3, <1>4

\* The conservative cost model of a budget.
LEMMA ConservativeTyped ==
  ASSUME NEW max \in Nat
  PROVE  Conservative(max) \in CostModels
  BY DEF Conservative, CostModels, ConservativeA, ConservativeB

\* An override is a cost model.
LEMMA OverrideTyped ==
  ASSUME NEW e \in Environments
  PROVE  CostModelOverride(e) \in CostModels \cup {Unset}
<1>1. /\ e.memory \in Numbers /\ e.tokenBudget \in Numbers /\ e.vram \in Numbers
      /\ e.coefficients \in [a : Int, b : Int] \cup {Unset} /\ e.disableAuto \in BOOLEAN
      /\ MaxSeqLength(e) \in Nat
  <2>1. e.maxSeq \in Numbers
    BY DEF Environments
  <2>2. Setting(e.maxSeq, ModelMaxSeq) \in Nat
    BY <2>1, SettingTyped DEF ModelMaxSeq
  <2>3. MaxSeqLength(e) \in Nat
    BY <2>2 DEF MaxSeqLength, ModelMaxSeq
  <2>. QED
    BY <2>3 DEF Environments
<1>2. Setting(e.memory, DefaultMaxWorkspace) \in Nat /\ Setting(e.vram, DefaultVramBudget) \in Nat
  BY <1>1, SettingTyped DEF DefaultMaxWorkspace, DefaultVramBudget
<1>3. ASSUME e.tokenBudget # Unset
      PROVE  e.tokenBudget * (ConservativeA + ConservativeB * MaxSeqLength(e)) \in Nat
  <2>1. e.tokenBudget \in Nat
    BY <1>1, <1>3, SettingTyped
  <2>2. ConservativeA + ConservativeB * MaxSeqLength(e) \in Nat
    BY <1>1 DEF ConservativeA, ConservativeB
  <2>. QED
    BY <2>1, <2>2
<1>4. e.coefficients # Unset =>
        [a |-> e.coefficients.a, b |-> e.coefficients.b,
         max |-> Setting(e.memory, DefaultMaxWorkspace)] \in CostModels
  BY <1>1, <1>2 DEF CostModels
<1>5. ResolveCostModelOverride(e) \in CostModels \cup {Unset}
  BY <1>1, <1>2, <1>3, <1>4, ConservativeTyped DEF ResolveCostModelOverride
<1>. QED
  BY <1>2, <1>5, ConservativeTyped DEF CostModelOverride

-----------------------------------------------------------------------------
(* The warm-up shapes *)

\* The tokens that are shapes are counted one by one.
LEMMA ParsedCounts ==
  ASSUME NEW raw \in Seq(Shapes \cup {Unset}), NEW i \in 1 .. Len(raw)
  PROVE  /\ IsFiniteSet(Parsed(raw, i)) /\ Cardinality(Parsed(raw, i)) \in Nat
         /\ raw[i] # Unset =>
              Cardinality(Parsed(raw, i)) = Cardinality(Parsed(raw, i - 1)) + 1
         /\ raw[i] = Unset => Parsed(raw, i) = Parsed(raw, i - 1)
<1>1. i \in Nat /\ i - 1 \in Nat
  OBVIOUS
<1>2. IsFiniteSet(1 .. i) /\ IsFiniteSet(1 .. i - 1)
  BY <1>1, FS_Interval
<1>3. IsFiniteSet(Parsed(raw, i)) /\ IsFiniteSet(Parsed(raw, i - 1))
  BY <1>2, FS_Subset DEF Parsed
<1>4. Cardinality(Parsed(raw, i)) \in Nat
  BY <1>3, FS_CardinalityType
<1>5. i \notin Parsed(raw, i - 1)
  BY <1>1 DEF Parsed
<1>6. raw[i] # Unset => Parsed(raw, i) = Parsed(raw, i - 1) \cup {i}
  BY <1>1 DEF Parsed
<1>7. raw[i] = Unset => Parsed(raw, i) = Parsed(raw, i - 1)
  BY <1>1 DEF Parsed
<1>. QED
  BY <1>3, <1>4, <1>5, <1>6, <1>7, FS_AddElement

\* So for each number up to their count one of them is that many-th.
LEMMA ParsedReached ==
  ASSUME NEW raw \in Seq(Shapes \cup {Unset}),
         NEW k \in 1 .. Cardinality(Parsed(raw, Len(raw)))
  PROVE  \E i \in Parsed(raw, Len(raw)) : Cardinality(Parsed(raw, i)) = k
<1> DEFINE count(i) == Cardinality(Parsed(raw, i))
           T == {i \in 1 .. Len(raw) : k <= count(i)}
<1>1. Parsed(raw, 0) = {}
  BY DEF Parsed
<1>2. count(0) = 0
  BY <1>1, FS_EmptySet
<1>3. Len(raw) \in Nat
  OBVIOUS
<1>4. Len(raw) # 0
  BY <1>2
<1>5. k \in Int /\ k >= 1 /\ k <= count(Len(raw))
  <2>1. Len(raw) \in 1 .. Len(raw)
    BY <1>3, <1>4
  <2>2. count(Len(raw)) \in Nat
    BY <2>1, ParsedCounts
  <2>. QED
    BY <2>2
<1>6. T \in SUBSET Nat /\ T # {}
  BY <1>3, <1>4, <1>5
<1>7. Min(T) \in T /\ \A j \in T : Min(T) <= j
  BY <1>6, LeastNumber
<1>8. PICK i \in 1 .. Len(raw) : k <= count(i) /\ \A j \in T : i <= j
  BY <1>7
<1>9. i - 1 \in 0 .. Len(raw) /\ i - 1 \notin T
  BY <1>3, <1>8
<1>10. count(i - 1) \in Nat /\ count(i - 1) < k
  <2>1. CASE i - 1 = 0
    BY <1>2, <1>5, <2>1
  <2>2. CASE i - 1 # 0
    <3>1. i - 1 \in 1 .. Len(raw)
      BY <1>9, <2>2
    <3>2. count(i - 1) \in Nat
      BY <3>1, ParsedCounts
    <3>3. ~(k <= count(i - 1))
      BY <1>9, <3>1
    <3>. QED
      BY <1>5, <3>2, <3>3
  <2>. QED
    BY <2>1, <2>2
<1>11. raw[i] # Unset
  <2>1. raw[i] = Unset => count(i) = count(i - 1)
    BY <1>8, ParsedCounts
  <2>. QED
    BY <1>5, <1>8, <1>10, <2>1
<1>12. count(i) = k
  <2>1. count(i) = count(i - 1) + 1
    BY <1>8, <1>11, ParsedCounts
  <2>. QED
    BY <1>5, <1>8, <1>10, <2>1
<1>13. i \in Parsed(raw, Len(raw))
  BY <1>3, <1>8, <1>11 DEF Parsed
<1>. QED
  BY <1>12, <1>13

\* The list that is parsed holds shapes, and is never empty.
LEMMA ShapesParsed ==
  ASSUME NEW raw \in Seq(Shapes \cup {Unset})
  PROVE  ParseTrtWarmupShapes(raw) \in Seq(Shapes) /\ ParseTrtWarmupShapes(raw) # <<>>
<1> DEFINE kept == Parsed(raw, Len(raw))
<1>1. CASE kept = {}
  <2> DEFINE batches == <<1, 2, 4, 8, 16, 32>>
             seqs == <<2, 8, 32, 128>>
  <2>1. (\A b \in 1 .. 6 : batches[b] \in Nat) /\ (\A q \in 1 .. 4 : seqs[q] \in Nat)
    OBVIOUS
  <2>2. \A i \in 1 .. 24 : 1 + (i - 1) \div 4 \in 1 .. 6 /\ 1 + ((i - 1) % 4) \in 1 .. 4
    OBVIOUS
  <2>3. DefaultTrtWarmupShapes =
          [i \in 1 .. 24 |-> << batches[1 + (i - 1) \div 4], seqs[1 + ((i - 1) % 4)] >>]
    BY DEF DefaultTrtWarmupShapes
  <2> HIDE DEF batches, seqs
  <2>4. DefaultTrtWarmupShapes \in [1 .. 24 -> Shapes]
    BY <2>1, <2>2, <2>3 DEF Shapes
  <2>5. DefaultTrtWarmupShapes \in Seq(Shapes) /\ DefaultTrtWarmupShapes # <<>>
    <3> DEFINE m == 24
    <3>1. m \in Nat /\ m # 0 /\ DefaultTrtWarmupShapes \in [1 .. m -> Shapes]
      BY <2>4
    <3> HIDE DEF m
    <3>. QED
      BY <3>1, SegmentIsSeq
  <2>6. ParseTrtWarmupShapes(raw) = DefaultTrtWarmupShapes
    BY <1>1 DEF ParseTrtWarmupShapes
  <2>. QED
    BY <2>5, <2>6
<1>2. CASE kept # {}
  <2> DEFINE m == Cardinality(kept)
             parsed == [k \in 1 .. m |-> raw[CHOOSE i \in kept : Cardinality(Parsed(raw, i)) = k]]
  <2>1. IsFiniteSet(kept)
    <3>1. IsFiniteSet(1 .. Len(raw))
      BY FS_Interval
    <3>. QED
      BY <3>1, FS_Subset DEF Parsed
  <2>2. m \in Nat /\ m # 0
    BY <1>2, <2>1, FS_CardinalityType, FS_EmptySet
  <2>3. ASSUME NEW k \in 1 .. m
        PROVE  raw[CHOOSE i \in kept : Cardinality(Parsed(raw, i)) = k] \in Shapes
    <3>1. (CHOOSE i \in kept : Cardinality(Parsed(raw, i)) = k) \in kept
      BY ParsedReached
    <3>2. \A i \in kept : raw[i] \in Shapes
      BY DEF Parsed
    <3>. QED
      BY <3>1, <3>2
  <2>4. parsed \in [1 .. m -> Shapes]
    BY <2>3
  <2>5. ParseTrtWarmupShapes(raw) = parsed
    BY <1>2 DEF ParseTrtWarmupShapes
  <2> HIDE DEF m, parsed
  <2>6. parsed \in Seq(Shapes) /\ parsed # <<>>
    BY <2>2, <2>4, SegmentIsSeq
  <2>. QED
    BY <2>5, <2>6
<1>. QED
  BY <1>1, <1>2

-----------------------------------------------------------------------------
(* The resolved configuration *)

Configs ==
  [workers : Nat \ {0}, maxBatch : Nat \ {0}, maxSeq : 1 .. ModelMaxSeq, safety : 1 .. 10,
   override : CostModels \cup {Unset}, ep : {"cpu", "cuda", "tensorrt"},
   gpuCount : Nat \ {0}, shapes : Seq(Shapes) \ {<<>>}, guard : BOOLEAN,
   guardSeq : Nat \ {0}, warmupOnly : BOOLEAN, strict : BOOLEAN, probeCache : BOOLEAN]

LEMMA ConfigTyped ==
  ASSUME NEW e \in Environments, NEW h \in Hosts
  PROVE  FromLookup(e, h) \in Configs
<1>1. e.workers \in Numbers /\ e.maxBatch \in Numbers /\ e.guardSeq \in Numbers
  BY DEF Environments
<1>2. /\ e.ep \in {"cpu", "cuda", "tensorrt"} /\ e.shapes \in Seq(Shapes \cup {Unset})
      /\ e.guard \in BOOLEAN /\ e.warmupOnly \in BOOLEAN /\ e.strict \in BOOLEAN
      /\ e.probeCache \in BOOLEAN
  BY DEF Environments
<1>3. /\ AtLeastOne(Setting(e.workers, 2)) \in Nat \ {0}
      /\ AtLeastOne(Setting(e.maxBatch, 256)) \in Nat \ {0}
      /\ AtLeastOne(Setting(e.guardSeq, 64)) \in Nat \ {0}
  <2>1. /\ Setting(e.workers, 2) \in Nat /\ Setting(e.maxBatch, 256) \in Nat
        /\ Setting(e.guardSeq, 64) \in Nat
    BY <1>1, SettingTyped
  <2>. QED
    BY <2>1 DEF AtLeastOne
<1>4. ParseTrtWarmupShapes(e.shapes) \in Seq(Shapes) \ {<<>>}
  BY <1>2, ShapesParsed
<1>. QED
  BY <1>2, <1>3, <1>4, BoundsTyped, OverrideTyped DEF FromLookup, Configs

\* The clamp keeps at least one worker and, on GPUs, one for each at most.
LEMMA Clamped ==
  ASSUME NEW c \in Configs
  PROVE  /\ ClampWorkers(c) \in Nat \ {0}
         /\ ClampWorkers(c) <= c.workers
         /\ c.ep # "cpu" => ClampWorkers(c) <= c.gpuCount
<1>1. c.workers \in Nat \ {0} /\ c.gpuCount \in Nat \ {0}
  BY DEF Configs
<1>. QED
  BY <1>1 DEF ClampWorkers

-----------------------------------------------------------------------------
(* Memory and the budget *)

\* What cgroup_v2_walk finds is the first numeric limit from the process's group up.
LEMMA WalkFinds ==
  ASSUME NEW levels \in Seq(Numbers)
  PROVE  \/ /\ CgroupV2Walk(levels) = Unset
            /\ \A i \in 1 .. Len(levels) : ~Numeric(levels[i])
         \/ \E i \in 1 .. Len(levels) :
              /\ CgroupV2Walk(levels) = levels[i] /\ Numeric(levels[i])
              /\ \A j \in 1 .. Len(levels) : Numeric(levels[j]) => i <= j
<1> DEFINE I == {i \in 1 .. Len(levels) : Numeric(levels[i])}
<1>1. SelectInSeq(levels, Numeric) = IF I # {} THEN Min(I) ELSE 0
  BY DEF SelectInSeq
<1>2. CASE I = {}
  <2>1. SelectInSeq(levels, Numeric) = 0
    BY <1>1, <1>2
  <2>2. CgroupV2Walk(levels) = Unset
    BY <2>1 DEF CgroupV2Walk
  <2>. QED
    BY <1>2, <2>2
<1>3. CASE I # {}
  <2>1. I \in SUBSET Nat
    OBVIOUS
  <2>2. Min(I) \in I /\ \A j \in I : Min(I) <= j
    BY <1>3, <2>1, LeastNumber
  <2>3. PICK m \in I : m = Min(I) /\ \A j \in I : m <= j
    BY <2>2
  <2>4. SelectInSeq(levels, Numeric) = m /\ m # 0
    BY <1>1, <1>3, <2>3
  <2>5. CgroupV2Walk(levels) = levels[m]
    BY <2>4 DEF CgroupV2Walk
  <2>. QED
    BY <2>3, <2>5
<1>. QED
  BY <1>2, <1>3

\* A numeric limit is a number.
LEMMA NumericNumber ==
  ASSUME NEW x \in Numbers, Numeric(x)
  PROVE  x \in Nat /\ x # Unset
  BY StartupAssumption DEF Numbers, Numeric

\* The detected memory is a number: the operator's, a limit of the groups, the
\* machine's, or the fallback.
LEMMA MemoryTyped ==
  ASSUME NEW e \in Environments, NEW h \in Hosts
  PROVE  DetectAvailableMemory(e, h) \in Nat
<1>1. /\ e.memory \in Numbers /\ h.v2 \in Seq(Numbers) /\ h.v1 \in Numbers
      /\ h.ram \in Numbers
  BY DEF Environments, Hosts
<1>2. CgroupV2Walk(h.v2) \in Numbers
  <2>1. Unset \in Numbers /\ \A i \in 1 .. Len(h.v2) : h.v2[i] \in Numbers
    BY <1>1 DEF Numbers
  <2>. QED
    BY <1>1, <2>1, WalkFinds
<1>3. CgroupMemory(h) \in Numbers
  BY <1>1, <1>2 DEF CgroupMemory, Numbers
<1>4. Setting(h.ram, FallbackMemory) \in Nat
  <2>1. FallbackMemory \in Nat /\ h.ram \in Numbers
    BY <1>1 DEF FallbackMemory
  <2>. QED
    BY <2>1, SettingTyped
<1>5. Setting(CgroupMemory(h), Setting(h.ram, FallbackMemory)) \in Nat
  BY <1>3, <1>4, SettingTyped
<1>. QED
  BY <1>1, <1>5, SettingTyped DEF DetectAvailableMemory

\* Where the limits are nested it is no more than any of them.
LEMMA MemoryIsLeast ==
  ASSUME NEW h \in Hosts, Nested(h), NEW e \in Environments, e.memory = Unset
  PROVE  /\ h.ram \in Nat /\ DetectAvailableMemory(e, h) <= h.ram
         /\ \A l \in ToSet(h.v2) \cup {h.v1} :
              Numeric(l) => l \in Nat /\ DetectAvailableMemory(e, h) <= l
<1> DEFINE found == DetectAvailableMemory(e, h)
<1>1. /\ h.v2 \in Seq(Numbers) /\ h.v1 \in Numbers /\ h.ram \in Numbers
      /\ DOMAIN h.v2 = 1 .. Len(h.v2) /\ \A i \in 1 .. Len(h.v2) : h.v2[i] \in Numbers
  BY DEF Hosts
<1>2. /\ Numeric(h.v1) => \A i \in 1 .. Len(h.v2) : ~Numeric(h.v2[i])
      /\ \A i, j \in 1 .. Len(h.v2) :
           i < j /\ Numeric(h.v2[i]) /\ Numeric(h.v2[j]) => h.v2[i] <= h.v2[j]
      /\ h.ram # Unset
      /\ \A i \in 1 .. Len(h.v2) : Numeric(h.v2[i]) => h.v2[i] <= h.ram
      /\ Numeric(h.v1) => h.v1 <= h.ram
  BY <1>1 DEF Nested, ToSet
<1>3. h.ram \in Nat
  BY <1>1, <1>2 DEF Numbers
<1>4. found = IF CgroupMemory(h) = Unset THEN h.ram ELSE CgroupMemory(h)
  BY <1>2 DEF DetectAvailableMemory, Setting
<1>5. ASSUME NEW i \in 1 .. Len(h.v2), CgroupV2Walk(h.v2) = h.v2[i], Numeric(h.v2[i]),
             \A j \in 1 .. Len(h.v2) : Numeric(h.v2[j]) => i <= j
      PROVE  /\ found <= h.ram
             /\ \A l \in ToSet(h.v2) \cup {h.v1} : Numeric(l) => l \in Nat /\ found <= l
  <2>1. h.v2[i] \in Nat /\ h.v2[i] # Unset
    BY <1>1, <1>5, NumericNumber
  <2>2. found = h.v2[i]
    BY <1>4, <1>5, <2>1 DEF CgroupMemory
  <2>3. ~Numeric(h.v1)
    BY <1>2, <1>5
  <2>4. ASSUME NEW j \in 1 .. Len(h.v2), Numeric(h.v2[j])
        PROVE  h.v2[j] \in Nat /\ found <= h.v2[j]
    <3>1. h.v2[j] \in Nat
      BY <1>1, <2>4, NumericNumber
    <3>2. i <= j
      BY <1>5, <2>4
    <3>. QED
      BY <1>2, <1>5, <2>1, <2>2, <2>4, <3>1, <3>2
  <2>. QED
    BY <1>1, <1>2, <1>5, <2>2, <2>3, <2>4 DEF ToSet
<1>6. ASSUME CgroupV2Walk(h.v2) = Unset, \A i \in 1 .. Len(h.v2) : ~Numeric(h.v2[i])
      PROVE  /\ found <= h.ram
             /\ \A l \in ToSet(h.v2) \cup {h.v1} : Numeric(l) => l \in Nat /\ found <= l
  <2>1. \A l \in ToSet(h.v2) \cup {h.v1} : Numeric(l) => l = h.v1
    BY <1>1, <1>6 DEF ToSet
  <2>2. CASE Numeric(h.v1)
    <3>1. h.v1 \in Nat /\ h.v1 # Unset
      BY <1>1, <2>2, NumericNumber
    <3>2. found = h.v1
      BY <1>4, <1>6, <2>2, <3>1 DEF CgroupMemory
    <3>. QED
      BY <1>2, <2>1, <2>2, <3>1, <3>2
  <2>3. CASE ~Numeric(h.v1)
    <3>1. found = h.ram
      BY <1>4, <1>6, <2>3 DEF CgroupMemory
    <3>. QED
      BY <1>3, <2>1, <2>3, <3>1
  <2>. QED
    BY <2>2, <2>3
<1>. QED
  BY <1>1, <1>3, <1>5, <1>6, WalkFinds

\* The workspaces of all workers, their models and the headroom fit what there is,
\* unless there is no workspace at all; and one workspace is no more than that.
LEMMA BudgetDivides ==
  ASSUME NEW available \in Nat, NEW workers \in Nat \ {0}, NEW modelRss \in Nat,
         NEW tenths \in 1 .. 10
  PROVE  /\ WorkspaceBudget(available, workers, modelRss, tenths) \in Nat
         /\ WorkspaceBudget(available, workers, modelRss, tenths) <= available
         /\ WorkspaceBudget(available, workers, modelRss, tenths) > 0 =>
              workers * WorkspaceBudget(available, workers, modelRss, tenths)
                + workers * modelRss + OsHeadroom <= available
<1> DEFINE models == workers * modelRss
           total == SaturatingSub(SaturatingSub(available, models), OsHeadroom)
           share == (total * tenths) \div (10 * workers)
<1>1. models \in Nat
  OBVIOUS
<1>2. /\ total \in Nat /\ total <= available
      /\ total > 0 => total + models + OsHeadroom <= available
  <2> HIDE DEF models
  <2>. QED
    BY <1>1 DEF SaturatingSub, OsHeadroom
<1>3. share = WorkspaceBudget(available, workers, modelRss, tenths)
  BY DEF WorkspaceBudget
<1> HIDE DEF total
<1>4. total * tenths \in Nat /\ 10 * workers \in Nat \ {0} /\ total * tenths <= total * 10
  BY <1>2
<1>5. share \in Nat /\ (10 * workers) * share <= total * tenths
  <2> DEFINE x == total * tenths
             y == 10 * workers
  <2>1. x \in Nat /\ y \in Nat \ {0} /\ share = x \div y
    BY <1>4
  <2>2. SUFFICES share \in Nat /\ y * share <= x
    OBVIOUS
  <2> HIDE DEF share, x, y
  <2>3. x \div y \in Nat /\ x % y \in 0 .. y - 1 /\ x = y * (x \div y) + (x % y)
    BY <2>1, DivMod
  <2>4. y * share \in Nat
    BY <2>1, <2>3
  <2>. QED
    BY <2>1, <2>3, <2>4
<1> HIDE DEF share
<1>6. (10 * workers) * share = 10 * (workers * share) /\ workers * share \in Nat
  BY <1>5
<1>7. workers * share <= total
  BY <1>2, <1>4, <1>5, <1>6
<1>8. share <= workers * share
  <2>1. 1 <= workers
    OBVIOUS
  <2>2. share = 1 * share
    BY <1>5
  <2>. QED
    BY <1>5, <2>1, <2>2, ProductGrows
<1>9. share > 0 => total > 0
  BY <1>2, <1>5, <1>6, <1>7, <1>8
<1>10. share <= available
  BY <1>2, <1>5, <1>6, <1>7, <1>8
<1>11. share > 0 => workers * share + models + OsHeadroom <= available
  <2> HIDE DEF models
  <2>. QED
    BY <1>1, <1>2, <1>5, <1>6, <1>7, <1>9 DEF OsHeadroom
<1>. QED
  BY <1>3, <1>5, <1>10, <1>11

-----------------------------------------------------------------------------
(* The shards *)

\* The shape a shard holds at k, and how far it goes.
LEMMA ShardPositions ==
  ASSUME NEW shapes \in Seq(Shapes), NEW count \in Nat \ {0}, NEW id \in 0 .. count - 1
  PROVE  /\ ShardShapes(shapes, id, count) \in Seq(Shapes)
         /\ \A k \in Nat \ {0} :
              k <= Len(ShardShapes(shapes, id, count)) <=> id + 1 + count * (k - 1) <= Len(shapes)
         /\ \A k \in 1 .. Len(ShardShapes(shapes, id, count)) :
              ShardShapes(shapes, id, count)[k] = shapes[id + 1 + count * (k - 1)]
<1> DEFINE mine == ShardShapes(shapes, id, count)
<1>1. CASE count = 1
  <2>1. mine = shapes /\ id = 0
    BY <1>1 DEF ShardShapes
  <2>2. \A k \in Nat \ {0} : id + 1 + count * (k - 1) = k
    BY <1>1, <2>1
  <2>. QED
    BY <2>1, <2>2
<1>2. CASE count # 1
  <2> DEFINE x == Len(shapes) + count - 1 - id
             q == x \div count
             at(k) == id + 1 + count * (k - 1)
  <2>1. x \in Nat /\ Len(shapes) \in Nat
    OBVIOUS
  <2>2. q \in Nat /\ count * q \in Nat /\ count * q <= x /\ x < count * q + count
    <3> HIDE DEF x
    <3>1. q \in Nat /\ x % count \in 0 .. count - 1 /\ x = count * q + (x % count)
      BY <2>1, DivMod
    <3> HIDE DEF q
    <3>2. count * q \in Nat
      BY <3>1
    <3>. QED
      BY <3>1, <3>2
  <2>3. mine = [k \in 1 .. q |-> shapes[at(k)]]
    BY <1>2 DEF ShardShapes
  <2> HIDE DEF q
  <2>4. ASSUME NEW k \in Nat \ {0}
        PROVE  /\ k <= q <=> at(k) <= Len(shapes)
               /\ at(k) \in Nat \ {0}
    <3>1. count * (k - 1) \in Nat /\ count * k = count * (k - 1) + count
      OBVIOUS
    <3>2. k <= q => count * k <= count * q
      BY <2>2, ProductGrows
    <3>3. q + 1 <= k => count * (q + 1) <= count * k
      BY <2>2, ProductGrows
    <3>4. count * (q + 1) = count * q + count
      BY <2>2
    <3>5. k <= q <=> count * k <= x
      <4> HIDE DEF x
      <4>1. k <= q \/ q + 1 <= k
        BY <2>2
      <4>. QED
        BY <2>1, <2>2, <3>1, <3>2, <3>3, <3>4, <4>1
    <3>. QED
      BY <2>1, <3>1, <3>5
  <2>5. mine \in [1 .. q -> Shapes]
    <3>1. \A k \in 1 .. q : at(k) \in 1 .. Len(shapes)
      BY <2>1, <2>2, <2>4
    <3>2. \A j \in 1 .. Len(shapes) : shapes[j] \in Shapes
      OBVIOUS
    <3>. QED
      BY <2>3, <3>1, <3>2
  <2>6. mine \in Seq(Shapes) /\ Len(mine) = q
    BY <2>2, <2>5, SegmentIsSeq
  <2>7. \A k \in 1 .. q : mine[k] = shapes[at(k)]
    BY <2>3
  <2> HIDE DEF mine
  <2>8. \A k \in Nat \ {0} : k <= Len(mine) <=> at(k) <= Len(shapes)
    BY <2>4, <2>6
  <2>9. \A k \in 1 .. Len(mine) : mine[k] = shapes[at(k)]
    BY <2>6, <2>7
  <2>. QED
    BY <2>6, <2>8, <2>9 DEF mine
<1>. QED
  BY <1>1, <1>2

\* Each position of the configured list belongs to one worker, at one place.
LEMMA PositionShard ==
  ASSUME NEW count \in Nat \ {0}, NEW j \in Nat \ {0}
  PROVE  /\ (j - 1) % count \in 0 .. count - 1
         /\ (j - 1) \div count \in Nat
         /\ j = ((j - 1) % count) + 1 + count * ((j - 1) \div count)
<1> DEFINE i == j - 1
<1>1. i \in Nat /\ j = i + 1
  OBVIOUS
<1> HIDE DEF i
<1>2. i % count \in 0 .. count - 1 /\ i \div count \in Nat /\ i = count * (i \div count) + (i % count)
  BY <1>1, DivMod
<1>3. count * (i \div count) \in Nat
  BY <1>2
<1>4. j = (i % count) + 1 + count * (i \div count)
  BY <1>1, <1>2, <1>3
<1>. QED
  BY <1>2, <1>4 DEF i

\* On TensorRT a worker's shapes are its shard of the configured ones.
LEMMA WorkerShard ==
  ASSUME cfg \in Configs, cfg.ep = "tensorrt", n \in Nat \ {0}, NEW id \in 0 .. n - 1
  PROVE  WorkerShapes(id) = ShardShapes(cfg.shapes, id, n)
  BY DEF WorkerShapes, ShardShapes

\* Whatever the provider, they are shapes.
LEMMA WorkerShapesTyped ==
  ASSUME cfg \in Configs, n \in Nat \ {0}, NEW id \in 0 .. n - 1
  PROVE  WorkerShapes(id) \in Seq(Shapes)
<1>1. cfg.shapes \in Seq(Shapes)
  BY DEF Configs
<1>2. ShardShapes(cfg.shapes, id, n) \in Seq(Shapes)
  BY <1>1, ShardPositions
<1>. QED
  BY <1>1, <1>2 DEF WorkerShapes

-----------------------------------------------------------------------------
(* Plans *)

\* A plan that grows keeps what it covers.
LEMMA CoverGrows ==
  ASSUME NEW p, NEW q, p \subseteq q, NEW s, Covers(p, s)
  PROVE  Covers(q, s)
  BY DEF Covers

\* A plan covers the shapes it was built from.
LEMMA CoverBuilt ==
  ASSUME NEW p, NEW s \in Shapes, s \in p
  PROVE  Covers(p, s)
  BY DEF Covers, Shapes

\* The dimensions of a shape are numbers.
LEMMA DimensionTyped ==
  ASSUME NEW s \in Shapes, NEW dim \in 1 .. 2
  PROVE  s[dim] \in Nat
<1>1. s[1] \in Nat /\ s[2] \in Nat
  BY DEF Shapes
<1>2. dim = 1 \/ dim = 2
  OBVIOUS
<1>. QED
  BY <1>1, <1>2

\* The members of a list of numbers are bounded.
LEMMA ListBounded ==
  ASSUME NEW m \in Nat, NEW f \in [1 .. m -> Nat]
  PROVE  \E bound \in Nat : \A i \in 1 .. m : f[i] <= bound
<1> DEFINE Bounded(k) == \E bound \in Nat : \A i \in 1 .. k : f[i] <= bound
           T == {k \in 0 .. m : ~Bounded(k)}
<1>1. ASSUME T # {}
      PROVE  FALSE
  <2>1. T \in SUBSET Nat
    OBVIOUS
  <2>2. Min(T) \in T /\ \A j \in T : Min(T) <= j
    BY <1>1, <2>1, LeastNumber
  <2>3. PICK k \in 0 .. m : ~Bounded(k) /\ \A j \in T : k <= j
    BY <2>2
  <2>4. Bounded(0)
    OBVIOUS
  <2>5. k \in 1 .. m /\ k - 1 \in 0 .. m
    BY <2>3, <2>4
  <2>6. k - 1 \notin T
    <3> HIDE DEF T
    <3>. QED
      BY <2>3, <2>5
  <2>7. Bounded(k - 1)
    BY <2>5, <2>6
  <2>8. PICK bound \in Nat : \A i \in 1 .. k - 1 : f[i] <= bound
    BY <2>7
  <2>9. f[k] \in Nat /\ bound + f[k] \in Nat
    BY <2>5
  <2>10. ASSUME NEW i \in 1 .. k
         PROVE  f[i] <= bound + f[k]
    <3>1. f[i] \in Nat
      BY <2>5
    <3>2. CASE i = k
      BY <2>9, <3>2
    <3>3. CASE i # k
      <4>1. i \in 1 .. k - 1
        BY <2>5, <3>3
      <4>. QED
        BY <2>8, <2>9, <3>1, <4>1
    <3>. QED
      BY <3>2, <3>3
  <2>11. Bounded(k)
    BY <2>9, <2>10
  <2>. QED
    BY <2>3, <2>11
<1>2. Bounded(m)
  <2>1. m \in 0 .. m
    OBVIOUS
  <2>2. m \notin T
    <3> HIDE DEF T
    <3>. QED
      BY <1>1
  <2>. QED
    BY <2>1, <2>2
<1>. QED
  BY <1>2

\* The least and the greatest of the lengths, or of the batches, of a list.
LEMMA DimensionExtremes ==
  ASSUME NEW shapes \in Seq(Shapes), shapes # <<>>, NEW dim \in 1 .. 2
  PROVE  LET values == {shapes[i][dim] : i \in DOMAIN shapes}
         IN  \E a, b \in 1 .. Len(shapes) :
               /\ Min(values) = shapes[a][dim] /\ Max(values) = shapes[b][dim]
               /\ \A k \in 1 .. Len(shapes) :
                    shapes[a][dim] <= shapes[k][dim] /\ shapes[k][dim] <= shapes[b][dim]
<1> DEFINE values == {shapes[i][dim] : i \in DOMAIN shapes}
           f == [i \in 1 .. Len(shapes) |-> shapes[i][dim]]
<1>1. DOMAIN shapes = 1 .. Len(shapes) /\ Len(shapes) \in Nat /\ Len(shapes) # 0
  OBVIOUS
<1>2. \A i \in 1 .. Len(shapes) : shapes[i] \in Shapes
  OBVIOUS
<1>3. \A i \in 1 .. Len(shapes) : shapes[i][dim] \in Nat
  BY <1>2, DimensionTyped
<1>4. f \in [1 .. Len(shapes) -> Nat]
  BY <1>3
<1>5. PICK bound \in Nat : \A i \in 1 .. Len(shapes) : f[i] <= bound
  BY <1>1, <1>4, ListBounded
<1>6. \A v \in values : \E i \in 1 .. Len(shapes) : v = shapes[i][dim]
  BY <1>1
<1>7. \A i \in 1 .. Len(shapes) : shapes[i][dim] \in values
  BY <1>1
<1>8. values \in SUBSET Nat /\ \A v \in values : v <= bound
  BY <1>3, <1>5, <1>6
<1>9. values # {}
  <2>1. 1 \in 1 .. Len(shapes)
    BY <1>1
  <2> HIDE DEF values
  <2>. QED
    BY <1>7, <2>1
<1> HIDE DEF values
<1>10. Min(values) \in values /\ \A v \in values : Min(values) <= v
  BY <1>8, <1>9, LeastNumber
<1>11. Max(values) \in values /\ \A v \in values : v <= Max(values)
  BY <1>8, <1>9, GreatestNumber
<1>12. PICK a \in 1 .. Len(shapes) : Min(values) = shapes[a][dim]
  BY <1>6, <1>10
<1>13. PICK b \in 1 .. Len(shapes) : Max(values) = shapes[b][dim]
  BY <1>6, <1>11
<1>14. \A k \in 1 .. Len(shapes) :
         shapes[a][dim] <= shapes[k][dim] /\ shapes[k][dim] <= shapes[b][dim]
  BY <1>7, <1>10, <1>11, <1>12, <1>13
<1>. QED
  BY <1>12, <1>13, <1>14 DEF values

\* A value that occurs is represented.
LEMMA Represented ==
  ASSUME NEW shapes \in Seq(Shapes), NEW dim \in 1 .. 2, NEW k \in 1 .. Len(shapes)
  PROVE  /\ Representative(shapes, dim, shapes[k][dim]) \in Shapes
         /\ Representative(shapes, dim, shapes[k][dim])[dim] = shapes[k][dim]
<1> DEFINE v == shapes[k][dim]
           I == {i \in 1 .. Len(shapes) : shapes[i][dim] = v}
<1>1. SelectInSeq(shapes, LAMBDA s : s[dim] = v) = IF I # {} THEN Min(I) ELSE 0
  BY DEF SelectInSeq
<1>2. I \in SUBSET Nat /\ I # {}
  OBVIOUS
<1>3. Min(I) \in I
  BY <1>2, LeastNumber
<1>4. Representative(shapes, dim, v) = shapes[Min(I)]
  BY <1>1, <1>2 DEF Representative
<1>. QED
  BY <1>3, <1>4

\* So each dimension has two checks.
LEMMA ExtremesAre ==
  ASSUME NEW shapes \in Seq(Shapes), shapes # <<>>, NEW dim \in 1 .. 2
  PROVE  \E least, most \in Shapes :
           /\ Extremes(shapes, dim) = <<least, most>>
           /\ \A k \in 1 .. Len(shapes) :
                least[dim] <= shapes[k][dim] /\ shapes[k][dim] <= most[dim]
<1> DEFINE values == {shapes[i][dim] : i \in DOMAIN shapes}
<1>1. PICK a, b \in 1 .. Len(shapes) :
        /\ Min(values) = shapes[a][dim] /\ Max(values) = shapes[b][dim]
        /\ \A k \in 1 .. Len(shapes) :
             shapes[a][dim] <= shapes[k][dim] /\ shapes[k][dim] <= shapes[b][dim]
  BY DimensionExtremes
<1> DEFINE least == Representative(shapes, dim, shapes[a][dim])
           most == Representative(shapes, dim, shapes[b][dim])
<1>2. Extremes(shapes, dim) = <<least, most>>
  BY <1>1 DEF Extremes
<1>3. /\ least \in Shapes /\ least[dim] = shapes[a][dim]
      /\ most \in Shapes /\ most[dim] = shapes[b][dim]
  BY Represented
<1> HIDE DEF least, most, values
<1>. QED
  BY <1>1, <1>2, <1>3

\* The checks are shapes, the two of each dimension among them.
LEMMA ChecksAre ==
  ASSUME NEW shapes \in Seq(Shapes)
  PROVE  /\ CoverageCheckShapes(shapes) \in Seq(Shapes)
         /\ shapes # <<>> =>
              \A dim \in 1 .. 2 : \E least, most \in ToSet(CoverageCheckShapes(shapes)) :
                \A k \in 1 .. Len(shapes) :
                  least[dim] <= shapes[k][dim] /\ shapes[k][dim] <= most[dim]
<1>1. CASE shapes = <<>>
  BY <1>1 DEF CoverageCheckShapes
<1>2. CASE shapes # <<>>
  <2>1. 1 \in 1 .. 2 /\ 2 \in 1 .. 2
    OBVIOUS
  <2>2. PICK a, b \in Shapes :
          /\ Extremes(shapes, 1) = <<a, b>>
          /\ \A k \in 1 .. Len(shapes) : a[1] <= shapes[k][1] /\ shapes[k][1] <= b[1]
    BY <1>2, <2>1, ExtremesAre
  <2>3. PICK c, d \in Shapes :
          /\ Extremes(shapes, 2) = <<c, d>>
          /\ \A k \in 1 .. Len(shapes) : c[2] <= shapes[k][2] /\ shapes[k][2] <= d[2]
    BY <1>2, <2>1, ExtremesAre
  <2>4. CoverageCheckShapes(shapes) = <<a, b>> \o <<c, d>>
    BY <1>2, <2>2, <2>3 DEF CoverageCheckShapes
  <2> DEFINE checks == <<a, b>> \o <<c, d>>
  <2>5. checks \in Seq(Shapes) /\ Len(checks) = 4
    OBVIOUS
  <2>6. checks[1] = a /\ checks[2] = b /\ checks[3] = c /\ checks[4] = d
    OBVIOUS
  <2> HIDE DEF checks
  <2>7. {1, 2, 3, 4} \subseteq DOMAIN checks
    BY <2>5
  <2>8. {a, b, c, d} \subseteq ToSet(checks)
    BY <2>6, <2>7 DEF ToSet
  <2>9. \A dim \in 1 .. 2 : \E least, most \in {a, b, c, d} :
          \A k \in 1 .. Len(shapes) :
            least[dim] <= shapes[k][dim] /\ shapes[k][dim] <= most[dim]
    <3>1. TAKE dim \in 1 .. 2
    <3>2. CASE dim = 1
      BY <2>2, <3>2
    <3>3. CASE dim = 2
      BY <2>3, <3>3
    <3>. QED
      BY <3>2, <3>3
  <2>10. CoverageCheckShapes(shapes) = checks
    BY <2>4 DEF checks
  <2>. QED
    BY <2>5, <2>8, <2>9, <2>10
<1>. QED
  BY <1>1, <1>2

\* "Together these four facts guarantee that every shard shape is a cache hit": a
\* plan that covers the checks covers the list.
LEMMA ExtremesCover ==
  ASSUME NEW shapes \in Seq(Shapes), shapes # <<>>, NEW p \in SUBSET Shapes,
         \A s \in ToSet(CoverageCheckShapes(shapes)) : Covers(p, s),
         NEW k \in 1 .. Len(shapes)
  PROVE  Covers(p, shapes[k])
<1>1. CoverageCheckShapes(shapes) \in Seq(Shapes)
  BY ChecksAre
<1>2. ToSet(CoverageCheckShapes(shapes)) \subseteq Shapes
  BY <1>1 DEF ToSet
<1>3. ASSUME NEW dim \in 1 .. 2
      PROVE  \E lo, hi \in p : lo[dim] <= shapes[k][dim] /\ shapes[k][dim] <= hi[dim]
  <2>1. PICK least, most \in ToSet(CoverageCheckShapes(shapes)) :
          least[dim] <= shapes[k][dim] /\ shapes[k][dim] <= most[dim]
    BY ChecksAre
  <2>2. PICK lo \in p : lo[dim] <= least[dim]
    BY DEF Covers
  <2>3. PICK hi \in p : most[dim] <= hi[dim]
    BY DEF Covers
  <2>4. shapes[k] \in Shapes /\ least \in Shapes /\ most \in Shapes
    BY <1>2
  <2>5. /\ lo[dim] \in Nat /\ hi[dim] \in Nat /\ shapes[k][dim] \in Nat
        /\ least[dim] \in Nat /\ most[dim] \in Nat
    BY <2>4, DimensionTyped
  <2>6. lo[dim] <= shapes[k][dim] /\ shapes[k][dim] <= hi[dim]
    BY <2>1, <2>2, <2>3, <2>5
  <2>. QED
    BY <2>6
<1>. QED
  BY <1>3 DEF Covers

-----------------------------------------------------------------------------
(* The invariant *)

Stages == {"config", "loading", "checking", "compiling", "measured", "refused", "failed",
           "warmed", "open"}
Prewarming == {"checking", "compiling"}
Up == {"measured", "warmed", "open"}

\* The types, and that the configuration is what the environment resolves to.
TypeInv ==
  /\ env \in Environments /\ host \in Hosts /\ stage \in Stages
  /\ stage \in {"config", "refused"} => cfg = Unset /\ n = 0
  /\ stage \notin {"config", "refused"} => cfg = FromLookup(env, host) /\ n = ClampWorkers(cfg)
  /\ shard \in Seq(Seq(Shapes)) /\ device \in Seq(Nat) /\ deltas \in Seq(Nat)
  /\ plan \in SUBSET Shapes /\ built \in SUBSET Shapes /\ check \in SUBSET Shapes
  /\ failed \in SUBSET Shapes /\ todo \in Seq(Shapes)
  /\ fast \in BOOLEAN /\ fresh \in BOOLEAN
  /\ warmed \in Nat /\ ceiling \in Nat /\ rss \in Nat /\ avail \in Nat
  /\ model \in CostModels

\* How many workers have been spawned and have signalled, and what each was given.
SpawnInv ==
  /\ Len(device) = Len(shard) /\ Len(shard) <= n
  /\ Len(shard) = Len(deltas) \/ Len(shard) = Len(deltas) + 1
  /\ stage \in Prewarming => cfg.ep = "tensorrt" /\ Len(shard) = Len(deltas) + 1
  /\ stage \notin Prewarming \cup {"failed"} => Len(shard) = Len(deltas)
  /\ stage \in Up => Len(deltas) = n
  /\ \A i \in 1 .. Len(device) : device[i] = (i - 1) % cfg.gpuCount
  /\ \A i \in 1 .. Len(shard) : shard[i] = WorkerShapes(i - 1)

\* A shape the plan p covers, or one of the failed f.
Warm(p, f, s) == Covers(p, s) \/ s \in f

\* Where the provider writes its plans: the session that prewarms covers what the
\* plan does; the shards of those that have signalled are warm; the checks that
\* have been run are warm, and covered as long as all were hits; and each shape
\* that is not warm is still to come.
WarmInv ==
  host.persists =>
    /\ stage \in Prewarming => built = plan /\ \A s \in check : Warm(plan, failed, s)
    /\ stage \notin {"config", "refused"} /\ cfg.ep = "tensorrt" =>
         \A i \in 1 .. Len(deltas) : \A k \in 1 .. Len(shard[i]) :
           Warm(plan, failed, shard[i][k])
    /\ stage = "checking" /\ fast =>
         /\ shard[Len(shard)] # <<>>
         /\ \A s \in check : Covers(plan, s)
         /\ \A s \in ToSet(CoverageCheckShapes(shard[Len(shard)])) : s \in check \cup ToSet(todo)
    /\ stage = "compiling" =>
         \A s \in ToSet(shard[Len(shard)]) : Warm(plan, failed, s) \/ s \in ToSet(todo)

\* An open server has been through the floor, and has the model of its source.
OpenInv ==
  stage = "open" =>
    /\ Workspace >= PhysicsFloor(cfg)
    /\ source = "override" => model = cfg.override
    /\ source # "override" => model.max = Workspace /\ cfg.override = Unset
    /\ source = "conservative" => model = Conservative(Workspace)

StartInv == TypeInv /\ SpawnInv /\ WarmInv /\ OneOutlierIgnored /\ OpenInv

\* A resolved configuration and its workers.
LEMMA Resolved ==
  TypeInv /\ stage \notin {"config", "refused"} =>
    /\ cfg \in Configs /\ n \in Nat \ {0} /\ n <= cfg.workers
    /\ cfg.workers \in Nat \ {0} /\ cfg.gpuCount \in Nat \ {0}
    /\ cfg.ep # "cpu" => n <= cfg.gpuCount
<1> SUFFICES ASSUME TypeInv, stage \notin {"config", "refused"}
             PROVE  /\ cfg \in Configs /\ n \in Nat \ {0} /\ n <= cfg.workers
                    /\ cfg.workers \in Nat \ {0} /\ cfg.gpuCount \in Nat \ {0}
                    /\ cfg.ep # "cpu" => n <= cfg.gpuCount
  OBVIOUS
<1>1. /\ env \in Environments /\ host \in Hosts /\ cfg = FromLookup(env, host)
      /\ n = ClampWorkers(cfg)
  BY DEF TypeInv
<1>2. cfg \in Configs
  BY <1>1, ConfigTyped
<1>3. cfg.workers \in Nat \ {0} /\ cfg.gpuCount \in Nat \ {0}
  BY <1>2 DEF Configs
<1>. QED
  BY <1>1, <1>2, <1>3, Clamped

-----------------------------------------------------------------------------
(* The median *)

\* Two members make two.
LEMMA TwoMembers ==
  ASSUME NEW S, IsFiniteSet(S), NEW x \in S, NEW y \in S, x # y
  PROVE  Cardinality(S) >= 2
<1>1. IsFiniteSet({x}) /\ Cardinality({x}) = 1
  BY FS_Singleton
<1>2. IsFiniteSet({x} \cup {y}) /\ Cardinality({x} \cup {y}) = 2
  BY <1>1, FS_AddElement
<1>3. {x} \cup {y} \in SUBSET S
  OBVIOUS
<1>4. Cardinality({x} \cup {y}) <= Cardinality(S) /\ Cardinality(S) \in Nat
  BY <1>3, FS_Subset, FS_CardinalityType
<1>. QED
  BY <1>2, <1>4

\* The middle of a sorted list of three or more has a neighbour on either side.
LEMMA MedianIsMiddle ==
  ASSUME NEW values \in Seq(Nat), values # <<>>, NEW order \in SortedOrders(values),
         NEW median, median = MedianUsize([i \in 1 .. Len(values) |-> values[order[i]]])
  PROVE  /\ median \in Nat
         /\ Len(values) >= 3 =>
              /\ Cardinality({i \in DOMAIN values : values[i] >= median}) >= 2
              /\ Cardinality({i \in DOMAIN values : values[i] <= median}) >= 2
<1> DEFINE m == Len(values)
           mid == m \div 2 + 1
           sorted == [i \in 1 .. m |-> values[order[i]]]
<1>1. /\ m \in Nat \ {0} /\ DOMAIN values = 1 .. m
      /\ \A i \in 1 .. m : values[i] \in Nat
  OBVIOUS
<1>2. mid \in 1 .. m /\ (m >= 3 => mid - 1 \in 1 .. m /\ mid + 1 \in 1 .. m)
  <2> HIDE DEF m
  <2>. QED
    BY <1>1
<1>3. /\ order \in [1 .. m -> 1 .. m]
      /\ \A i, j \in 1 .. m : order[i] = order[j] => i = j
      /\ \A i, j \in 1 .. m : i < j => values[order[i]] <= values[order[j]]
  BY <1>1 DEF SortedOrders, Bijection, Injection, IsInjective
<1>4. median = values[order[mid]]
  <2>1. \A i \in 1 .. m : sorted[i] \in Nat
    BY <1>1, <1>3
  <2>2. sorted \in [1 .. m -> Nat]
    BY <2>1
  <2>3. sorted \in Seq(Nat) /\ Len(sorted) = m /\ sorted # <<>>
    BY <1>1, <2>2, SegmentIsSeq
  <2>4. sorted[mid] = values[order[mid]]
    BY <1>2
  <2>5. median = MedianUsize(sorted)
    OBVIOUS
  <2> HIDE DEF sorted
  <2>6. median = sorted[Len(sorted) \div 2 + 1]
    BY <2>3, <2>5 DEF MedianUsize
  <2>. QED
    BY <2>3, <2>4, <2>6
<1> HIDE DEF mid, m
<1>5. order[mid] \in 1 .. m /\ median \in Nat
  <2>1. order[mid] \in 1 .. m
    BY <1>2, <1>3
  <2>. QED
    BY <1>1, <1>4, <2>1
<1> DEFINE above == {i \in 1 .. m : values[i] >= median}
           below == {i \in 1 .. m : values[i] <= median}
<1>6. IsFiniteSet(above) /\ IsFiniteSet(below)
  <2>1. IsFiniteSet(1 .. m)
    BY <1>1, FS_Interval
  <2>. QED
    BY <2>1, FS_Subset
<1>7. order[mid] \in above /\ order[mid] \in below
  BY <1>1, <1>4, <1>5
<1>8. ASSUME m >= 3
      PROVE  Cardinality(above) >= 2 /\ Cardinality(below) >= 2
  <2>1. mid - 1 \in 1 .. m /\ mid + 1 \in 1 .. m /\ mid \in Int
    BY <1>2, <1>8
  <2>2. order[mid - 1] \in 1 .. m /\ order[mid + 1] \in 1 .. m
    BY <1>3, <2>1
  <2>3. values[order[mid - 1]] \in Nat /\ values[order[mid + 1]] \in Nat
    BY <1>1, <2>2
  <2>4. values[order[mid - 1]] <= median /\ median <= values[order[mid + 1]]
    BY <1>2, <1>3, <1>4, <2>1
  <2>5. order[mid + 1] \in above /\ order[mid - 1] \in below
    BY <1>5, <2>2, <2>3, <2>4
  <2>6. order[mid + 1] # order[mid] /\ order[mid - 1] # order[mid]
    BY <1>2, <1>3, <2>1
  <2> HIDE DEF above, below
  <2>. QED
    BY <1>6, <1>7, <2>5, <2>6, TwoMembers
<1>. QED
  BY <1>1, <1>5, <1>8 DEF m

-----------------------------------------------------------------------------
(* The steps *)

\* The next worker has an index of its own.
LEMMA NextWorker ==
  ASSUME TypeInv, SpawnInv, stage = "loading", Len(deltas) < n
  PROVE  /\ Len(deltas) \in 0 .. n - 1 /\ Len(deltas) \in Nat
         /\ WorkerShapes(Len(deltas)) \in Seq(Shapes)
         /\ Len(deltas) % cfg.gpuCount \in Nat
         /\ Len(shard) = Len(deltas) /\ Len(device) = Len(deltas)
<1>1. cfg \in Configs /\ n \in Nat \ {0} /\ cfg.gpuCount \in Nat \ {0}
  BY Resolved
<1>2. Len(deltas) \in Nat
  BY DEF TypeInv
<1>3. Len(deltas) \in 0 .. n - 1
  BY <1>1, <1>2
<1>4. WorkerShapes(Len(deltas)) \in Seq(Shapes)
  BY <1>1, <1>3, WorkerShapesTyped
<1>5. Len(deltas) % cfg.gpuCount \in Nat
  <2> DEFINE d == Len(deltas)
             g == cfg.gpuCount
  <2>1. d \in Nat /\ g \in Nat \ {0}
    BY <1>1, <1>2
  <2> HIDE DEF d, g
  <2>2. d % g \in Nat
    BY <2>1, DivMod
  <2>. QED
    BY <2>2 DEF d, g
<1>. QED
  BY <1>2, <1>3, <1>4, <1>5 DEF SpawnInv, Prewarming

\* The types.
LEMMA StepTyped ==
  ASSUME TypeInv, SpawnInv, [Next]_vars
  PROVE  TypeInv'
<1> USE DEF prewarmVars, workerVars, budgetVars
<1>1. CASE Configure
  <2>1. /\ env' = env /\ host' = host /\ stage' = "loading" /\ cfg' = FromLookup(env, host)
        /\ n' = ClampWorkers(FromLookup(env, host))
        /\ model' = Setting(FromLookup(env, host).override, model)
        /\ UNCHANGED <<shard, device, deltas, ceiling, built, check, todo, fast, fresh, warmed,
                       plan, failed, rss, avail>>
    BY <1>1 DEF Configure
  <2>2. FromLookup(env, host) \in Configs
    BY ConfigTyped DEF TypeInv
  <2>3. FromLookup(env, host).override \in CostModels \cup {Unset}
    BY <2>2 DEF Configs
  <2>4. model' \in CostModels
    BY <2>1, <2>3 DEF Setting, TypeInv
  <2>. QED
    BY <2>1, <2>4 DEF TypeInv, Stages
<1>2. CASE RefuseConfig
  BY <1>2 DEF RefuseConfig, TypeInv, Stages
<1>3. CASE LoadWorker
  <2>1. PICK delta \in RssDeltas : deltas' = Append(deltas, delta)
    BY <1>3 DEF LoadWorker
  <2>2. /\ stage = "loading" /\ Len(deltas) < n
        /\ device' = Append(device, Len(deltas) % cfg.gpuCount)
        /\ shard' = Append(shard, WorkerShapes(Len(deltas)))
        /\ UNCHANGED <<env, host, stage, cfg, n, ceiling, built, check, todo, fast, fresh, warmed,
                       plan, failed, rss, avail, model>>
    BY <1>3 DEF LoadWorker, SpawnWorker
  <2>3. WorkerShapes(Len(deltas)) \in Seq(Shapes) /\ Len(deltas) % cfg.gpuCount \in Nat
    BY <2>2, NextWorker
  <2>4. delta \in Nat
    BY StartupAssumption
  <2>5. shard \in Seq(Seq(Shapes)) /\ device \in Seq(Nat) /\ deltas \in Seq(Nat)
    BY DEF TypeInv
  <2>6. shard' \in Seq(Seq(Shapes)) /\ device' \in Seq(Nat) /\ deltas' \in Seq(Nat)
    BY <2>1, <2>2, <2>3, <2>4, <2>5
  <2>. QED
    BY <2>2, <2>6 DEF TypeInv
<1>4. CASE StartPrewarm
  <2>1. /\ stage = "loading" /\ Len(deltas) < n /\ stage' = "checking"
        /\ device' = Append(device, Len(deltas) % cfg.gpuCount)
        /\ shard' = Append(shard, WorkerShapes(Len(deltas)))
        /\ built' = plan /\ check' = {} /\ fresh' = FALSE /\ warmed' = 0
        /\ todo' = (IF plan = {} THEN <<>> ELSE CoverageCheckShapes(WorkerShapes(Len(deltas))))
        /\ fast' = (plan # {} /\ WorkerShapes(Len(deltas)) # <<>>)
        /\ UNCHANGED <<env, host, cfg, n, deltas, ceiling, plan, failed, rss, avail, model>>
    BY <1>4 DEF StartPrewarm, SpawnWorker
  <2>2. WorkerShapes(Len(deltas)) \in Seq(Shapes) /\ Len(deltas) % cfg.gpuCount \in Nat
    BY <2>1, NextWorker
  <2>3. shard \in Seq(Seq(Shapes)) /\ device \in Seq(Nat)
    BY DEF TypeInv
  <2>4. shard' \in Seq(Seq(Shapes)) /\ device' \in Seq(Nat)
    BY <2>1, <2>2, <2>3
  <2>5. todo' \in Seq(Shapes)
    <3>1. CoverageCheckShapes(WorkerShapes(Len(deltas))) \in Seq(Shapes)
      BY <2>2, ChecksAre
    <3>2. <<>> \in Seq(Shapes)
      OBVIOUS
    <3>. QED
      BY <2>1, <3>1, <3>2
  <2>6. fast' \in BOOLEAN
    BY <2>1
  <2>. QED
    BY <2>1, <2>4, <2>5, <2>6 DEF TypeInv, Stages
<1>5. ASSUME todo # <<>>
      PROVE  Head(todo) \in Shapes /\ Tail(todo) \in Seq(Shapes) /\ Head(todo)[2] \in Nat
  <2>1. todo \in Seq(Shapes)
    BY DEF TypeInv
  <2>2. Head(todo) \in Shapes /\ Tail(todo) \in Seq(Shapes)
    BY <1>5, <2>1
  <2>3. 2 \in 1 .. 2
    OBVIOUS
  <2>. QED
    BY <2>2, <2>3, DimensionTyped
<1>6. CASE SkipShape
  BY <1>5, <1>6 DEF SkipShape, TypeInv
<1>7. CASE RunShape
  <2>1. /\ todo # <<>> /\ todo' = Tail(todo)
        /\ built' = built \/ built' = built \cup {Head(todo)}
        /\ plan' = plan \/ plan' = built'
        /\ warmed' = warmed \/ warmed' = Head(todo)[2]
        /\ check' = check \/ check' = check \cup {Head(todo)}
        /\ UNCHANGED <<env, host, stage, cfg, n, shard, device, deltas, ceiling, failed, rss,
                       avail, model>>
    BY <1>7 DEF RunShape
  <2>2. fast' \in BOOLEAN /\ fresh' \in BOOLEAN
    BY <1>7 DEF RunShape
  <2>3. built' \in SUBSET Shapes /\ check' \in SUBSET Shapes /\ warmed' \in Nat
    BY <1>5, <2>1 DEF TypeInv
  <2>4. plan' \in SUBSET Shapes
    BY <2>1, <2>3 DEF TypeInv
  <2>. QED
    BY <1>5, <2>1, <2>2, <2>3, <2>4 DEF TypeInv
<1>8. CASE ShapeFails
  <2>1. /\ todo # <<>> /\ todo' = Tail(todo) /\ fast' = FALSE
        /\ failed' = failed \cup {Head(todo)}
        /\ check' = check \/ check' = check \cup {Head(todo)}
        /\ UNCHANGED <<env, host, stage, cfg, n, shard, device, deltas, ceiling, built, fresh,
                       warmed, plan, rss, avail, model>>
    BY <1>8 DEF ShapeFails
  <2>2. failed' \in SUBSET Shapes /\ check' \in SUBSET Shapes
    BY <1>5, <2>1 DEF TypeInv
  <2>. QED
    BY <1>5, <2>1, <2>2 DEF TypeInv
<1>9. CASE CompileRest
  <2>1. /\ stage = "checking" /\ stage' = "compiling" /\ todo' = Last(shard)
        /\ UNCHANGED <<env, host, cfg, n, shard, device, deltas, ceiling, built, check, fast,
                       fresh, warmed, plan, failed, rss, avail, model>>
    BY <1>9 DEF CompileRest
  <2>2. Len(shard) \in 1 .. Len(shard)
    BY <2>1 DEF SpawnInv, Prewarming, TypeInv
  <2>3. todo' \in Seq(Shapes)
    <3>1. shard \in Seq(Seq(Shapes))
      BY DEF TypeInv
    <3> DEFINE S == Seq(Shapes)
    <3>2. shard \in Seq(S)
      BY <3>1
    <3> HIDE DEF S
    <3>3. shard[Len(shard)] \in S
      BY <2>2, <3>2
    <3>. QED
      BY <2>1, <3>3 DEF S, Last
  <2>. QED
    BY <2>1, <2>3 DEF TypeInv, Stages
<1>10. CASE EndPrewarm
  <2>1. /\ stage \in Prewarming /\ stage' \in {"failed", "loading"}
        /\ ceiling' = warmed \/ ceiling' = ceiling
        /\ deltas' = deltas \/ \E delta \in RssDeltas : deltas' = Append(deltas, delta)
        /\ UNCHANGED <<env, host, cfg, n, shard, device, built, check, todo, fast, fresh, warmed,
                       plan, failed, rss, avail, model>>
    BY <1>10 DEF EndPrewarm, Prewarming
  <2>2. deltas' \in Seq(Nat)
    <3>1. (\A delta \in RssDeltas : delta \in Nat) /\ deltas \in Seq(Nat)
      BY StartupAssumption DEF TypeInv
    <3>. QED
      BY <2>1, <3>1
  <2>. QED
    BY <2>1, <2>2 DEF TypeInv, Stages, Prewarming
<1>11. CASE LoadFails
  BY <1>11 DEF LoadFails, TypeInv, Stages
<1>12. CASE Measure
  <2>1. PICK order \in SortedOrders(deltas) :
          rss' = MedianUsize([i \in 1 .. Len(deltas) |-> deltas[order[i]]])
    BY <1>12 DEF Measure
  <2>2. /\ stage = "loading" /\ stage' \in {"warmed", "measured"} /\ Len(deltas) = n
        /\ UNCHANGED <<env, host, cfg, n, shard, device, deltas, ceiling, built, check, todo,
                       fast, fresh, warmed, plan, failed, avail, model>>
    BY <1>12 DEF Measure
  <2>3. deltas \in Seq(Nat) /\ deltas # <<>>
    BY <2>2, Resolved DEF TypeInv
  <2>4. rss' \in Nat
    BY <2>1, <2>3, MedianIsMiddle
  <2>. QED
    BY <2>2, <2>4 DEF TypeInv, Stages
<1>13. ASSUME NEW m \in CostModels, NEW from, Resolve(m, from), stage = "measured"
       PROVE  TypeInv'
  <2>1. DetectAvailableMemory(env, host) \in Nat
    BY MemoryTyped DEF TypeInv
  <2>2. avail' \in Nat /\ model' \in CostModels /\ stage' = "open"
    BY <1>13, <2>1 DEF Resolve
  <2>. QED
    BY <1>13, <2>2 DEF Resolve, TypeInv, Stages
<1>14. ASSUME stage = "measured"
       PROVE  Workspace \in Nat
  <2>1. cfg.safety \in 1 .. 10 /\ cfg.workers \in Nat \ {0} /\ rss \in Nat
    BY <1>14, Resolved DEF Configs, TypeInv
  <2>2. DetectAvailableMemory(env, host) \in Nat
    BY MemoryTyped DEF TypeInv
  <2>. QED
    BY <2>1, <2>2, BudgetDivides DEF Workspace
<1>15. ASSUME stage = "measured", NEW c \in Coefficients
       PROVE  [a |-> c.a, b |-> c.b, max |-> Workspace] \in CostModels
  <2>1. c.a \in Int /\ c.b \in Int
    BY StartupAssumption
  <2>. QED
    BY <1>14, <1>15, <2>1 DEF CostModels
<1>16. CASE UseOverride
  <2>1. cfg.override \in CostModels
    BY <1>16, Resolved DEF UseOverride, Configs
  <2>. QED
    BY <1>13, <1>16, <2>1 DEF UseOverride
<1>17. CASE UseProbeCache
  BY <1>13, <1>15, <1>17 DEF UseProbeCache
<1>18. CASE UseProbe
  <2>1. stage = "measured" /\ Conservative(Workspace) \in CostModels
    BY <1>14, <1>18, ConservativeTyped DEF UseProbe
  <2>. QED
    BY <1>13, <1>15, <1>18, <2>1 DEF UseProbe
<1>19. CASE BelowFloor
  <2>1. DetectAvailableMemory(env, host) \in Nat
    BY MemoryTyped DEF TypeInv
  <2>. QED
    BY <1>19, <2>1 DEF BelowFloor, TypeInv, Stages
<1>20. CASE Ended \/ UNCHANGED vars
  BY <1>20 DEF Ended, vars, TypeInv
<1>. QED
  BY <1>1, <1>2, <1>3, <1>4, <1>6, <1>7, <1>8, <1>9, <1>10, <1>11, <1>12, <1>16, <1>17,
     <1>18, <1>19, <1>20 DEF Next

\* What the workers were given.
LEMMA StepSpawn ==
  ASSUME TypeInv, SpawnInv, [Next]_vars
  PROVE  SpawnInv'
<1> USE DEF prewarmVars, workerVars, budgetVars
<1>1. /\ shard \in Seq(Seq(Shapes)) /\ device \in Seq(Nat) /\ deltas \in Seq(Nat)
      /\ Len(shard) \in Nat /\ Len(device) \in Nat /\ Len(deltas) \in Nat
  BY DEF TypeInv
<1>2. CASE Configure
  <2>1. /\ Len(shard) = 0 /\ Len(device) = 0 /\ Len(deltas) = 0
    BY <1>1, <1>2 DEF Configure, TypeInv, SpawnInv, Prewarming
  <2>2. stage' = "loading" /\ UNCHANGED <<shard, device, deltas>>
    BY <1>2 DEF Configure
  <2>3. n' \in Nat
    <3>1. FromLookup(env, host) \in Configs
      BY ConfigTyped DEF TypeInv
    <3>2. n' = ClampWorkers(FromLookup(env, host))
      BY <1>2 DEF Configure
    <3>. QED
      BY <3>1, <3>2, Clamped
  <2>4. Len(shard') = 0 /\ Len(device') = 0 /\ Len(deltas') = 0
    BY <2>1, <2>2
  <2>5. (\A i \in 1 .. Len(device') : FALSE) /\ \A i \in 1 .. Len(shard') : FALSE
    BY <2>4
  <2>. QED
    BY <2>2, <2>3, <2>4, <2>5 DEF SpawnInv, Prewarming, Up
<1>3. ASSUME UNCHANGED <<cfg, n, shard, device, deltas>>,
             stage' \in Prewarming => cfg.ep = "tensorrt" /\ Len(shard) = Len(deltas) + 1,
             stage' \notin Prewarming \cup {"failed"} => Len(shard) = Len(deltas),
             stage' \in Up => Len(deltas) = n
      PROVE  SpawnInv'
  <2>1. \A id : WorkerShapes(id)' = WorkerShapes(id)
    BY <1>3 DEF WorkerShapes
  <2>2. \A i \in 1 .. Len(shard)' : shard'[i] = WorkerShapes(i - 1)'
    BY <1>3, <2>1 DEF SpawnInv
  <2>. QED
    BY <1>3, <2>2 DEF SpawnInv
<1>4. ASSUME stage = "loading", SpawnWorker(Len(deltas)),
             \/ stage' = "loading" /\ \E delta \in RssDeltas : deltas' = Append(deltas, delta)
             \/ stage' = "checking" /\ deltas' = deltas /\ cfg.ep = "tensorrt"
      PROVE  SpawnInv'
  <2>1. /\ Len(deltas) < n /\ n \in Nat /\ Len(shard) = Len(deltas) /\ Len(device) = Len(deltas)
        /\ cfg' = cfg /\ n' = n
        /\ device' = Append(device, Len(deltas) % cfg.gpuCount)
        /\ shard' = Append(shard, WorkerShapes(Len(deltas)))
    BY <1>4, NextWorker, Resolved DEF SpawnWorker
  <2>2. \A id : WorkerShapes(id)' = WorkerShapes(id)
    BY <2>1 DEF WorkerShapes
  <2>3. Len(device') = Len(device) + 1 /\ Len(shard') = Len(shard) + 1
    BY <1>1, <2>1
  <2>4. \A i \in 1 .. Len(device') : device'[i] = (i - 1) % cfg.gpuCount
    <3>1. TAKE i \in 1 .. Len(device')
    <3>2. CASE i = Len(device) + 1
      <4>1. device'[i] = Len(deltas) % cfg.gpuCount /\ i - 1 = Len(deltas)
        BY <1>1, <2>1, <3>2
      <4>. QED
        BY <4>1
    <3>3. CASE i # Len(device) + 1
      <4>1. i \in 1 .. Len(device) /\ device'[i] = device[i]
        BY <1>1, <2>1, <2>3, <3>3
      <4>. QED
        BY <4>1 DEF SpawnInv
    <3>. QED
      BY <3>2, <3>3
  <2>5. \A i \in 1 .. Len(shard') : shard'[i] = WorkerShapes(i - 1)
    <3>1. TAKE i \in 1 .. Len(shard')
    <3>2. CASE i = Len(shard) + 1
      <4>1. shard'[i] = WorkerShapes(Len(deltas)) /\ i - 1 = Len(deltas)
        BY <1>1, <2>1, <3>2
      <4>. QED
        BY <4>1
    <3>3. CASE i # Len(shard) + 1
      <4>1. i \in 1 .. Len(shard) /\ shard'[i] = shard[i]
        BY <1>1, <2>1, <2>3, <3>3
      <4>. QED
        BY <4>1 DEF SpawnInv
    <3>. QED
      BY <3>2, <3>3
  <2>6. \/ stage' = "loading" /\ Len(deltas') = Len(deltas) + 1
        \/ stage' = "checking" /\ Len(deltas') = Len(deltas) /\ cfg.ep = "tensorrt"
    <3>1. \A delta \in RssDeltas : Len(Append(deltas, delta)) = Len(deltas) + 1
      BY <1>1
    <3>. QED
      BY <1>4, <3>1
  <2>7. /\ Len(device') = Len(shard') /\ Len(shard') <= n'
        /\ Len(shard') = Len(deltas') \/ Len(shard') = Len(deltas') + 1
        /\ stage' \in Prewarming => cfg'.ep = "tensorrt" /\ Len(shard') = Len(deltas') + 1
        /\ stage' \notin Prewarming \cup {"failed"} => Len(shard') = Len(deltas')
        /\ stage' \notin Up
    BY <1>1, <2>1, <2>3, <2>6 DEF Prewarming, Up
  <2>8. \A i \in 1 .. Len(shard') : shard'[i] = WorkerShapes(i - 1)'
    BY <2>2, <2>5
  <2>. QED
    BY <2>1, <2>4, <2>7, <2>8 DEF SpawnInv
<1>5. CASE RefuseConfig
  BY <1>3, <1>5 DEF RefuseConfig, SpawnInv, Prewarming, Up
<1>6. CASE LoadWorker
  BY <1>4, <1>6 DEF LoadWorker
<1>7. CASE StartPrewarm
  BY <1>4, <1>7 DEF StartPrewarm
<1>8. CASE SkipShape \/ RunShape \/ ShapeFails
  <2>1. UNCHANGED <<stage, cfg, n, shard, device, deltas>>
    BY <1>8 DEF SkipShape, RunShape, ShapeFails
  <2>. QED
    BY <1>3, <2>1 DEF SpawnInv
<1>9. CASE CompileRest
  BY <1>3, <1>9 DEF CompileRest, SpawnInv, Prewarming, Up
<1>10. CASE EndPrewarm
  <2>1. /\ stage \in Prewarming /\ Len(shard) = Len(deltas) + 1 /\ UNCHANGED <<cfg, n, shard, device>>
        /\ \/ stage' = "failed" /\ deltas' = deltas
           \/ stage' = "loading" /\ \E delta \in RssDeltas : deltas' = Append(deltas, delta)
    BY <1>10 DEF EndPrewarm, Prewarming, SpawnInv
  <2>2. CASE stage' = "failed" /\ deltas' = deltas
    BY <1>3, <2>1, <2>2 DEF Prewarming, Up
  <2>3. CASE stage' = "loading" /\ \E delta \in RssDeltas : deltas' = Append(deltas, delta)
    <3>1. \A delta \in RssDeltas : Len(Append(deltas, delta)) = Len(deltas) + 1
      BY <1>1
    <3>2. Len(deltas') = Len(shard)
      BY <2>1, <2>3, <3>1
    <3>3. \A id : WorkerShapes(id)' = WorkerShapes(id)
      BY <2>1 DEF WorkerShapes
    <3>4. \A i \in 1 .. Len(shard)' : shard'[i] = WorkerShapes(i - 1)'
      BY <2>1, <3>3 DEF SpawnInv
    <3>. QED
      BY <2>1, <2>3, <3>2, <3>4 DEF SpawnInv, Prewarming, Up
  <2>. QED
    BY <2>1, <2>2, <2>3
<1>11. CASE LoadFails
  BY <1>3, <1>11 DEF LoadFails, SpawnInv, Prewarming, Up
<1>12. CASE Measure
  BY <1>3, <1>12 DEF Measure, SpawnInv, Prewarming, Up
<1>13. CASE UseOverride \/ UseProbeCache \/ UseProbe \/ BelowFloor
  <2>1. stage = "measured" /\ stage' \in {"open", "failed"} /\ UNCHANGED <<cfg, n, shard, device, deltas>>
    BY <1>13 DEF UseOverride, UseProbeCache, UseProbe, BelowFloor, Resolve
  <2>. QED
    BY <1>3, <2>1 DEF SpawnInv, Prewarming, Up
<1>14. CASE Ended \/ UNCHANGED vars
  <2>1. UNCHANGED <<stage, cfg, n, shard, device, deltas>>
    BY <1>14 DEF Ended, vars
  <2>. QED
    BY <1>3, <2>1 DEF SpawnInv
<1>. QED
  BY <1>2, <1>5, <1>6, <1>7, <1>8, <1>9, <1>10, <1>11, <1>12, <1>13, <1>14 DEF Next

\* The first of a list and the rest.
LEMMA HeadOrTail ==
  ASSUME NEW list \in Seq(Shapes), list # <<>>
  PROVE  ToSet(list) \subseteq {Head(list)} \cup ToSet(Tail(list))
<1>1. Len(Tail(list)) = Len(list) - 1 /\ Len(list) \in Nat \ {0}
  OBVIOUS
<1>2. ASSUME NEW i \in 1 .. Len(list)
      PROVE  list[i] \in {Head(list)} \cup ToSet(Tail(list))
  <2>1. CASE i = 1
    BY <2>1
  <2>2. CASE i # 1
    <3>1. i - 1 \in 1 .. Len(Tail(list))
      BY <1>1, <2>2
    <3>2. Tail(list)[i - 1] = list[i]
      BY <1>1, <2>2
    <3>3. i - 1 \in DOMAIN Tail(list)
      BY <1>1, <3>1
    <3>. QED
      BY <3>2, <3>3 DEF ToSet
  <2>. QED
    BY <2>1, <2>2
<1>. QED
  BY <1>2 DEF ToSet

\* What is warm stays warm.
LEMMA WarmGrows ==
  ASSUME NEW p, NEW q, p \subseteq q, NEW f, NEW g, f \subseteq g, NEW s, Warm(p, f, s)
  PROVE  Warm(q, g, s)
  BY CoverGrows DEF Warm

\* The shard of the worker that prewarms, and those before it.
LEMMA ShardTyped ==
  ASSUME TypeInv, NEW i \in 1 .. Len(shard)
  PROVE  shard[i] \in Seq(Shapes) /\ ToSet(shard[i]) = {shard[i][k] : k \in 1 .. Len(shard[i])}
<1> DEFINE S == Seq(Shapes)
<1>1. shard \in Seq(S)
  BY DEF TypeInv
<1> HIDE DEF S
<1>2. shard[i] \in S
  BY <1>1
<1>. QED
  BY <1>2 DEF S, ToSet

\* Warmth.
LEMMA StepWarm ==
  ASSUME TypeInv, SpawnInv, WarmInv, [Next]_vars
  PROVE  WarmInv'
<1> USE DEF prewarmVars, workerVars, budgetVars
<1>1. host' = host
  BY DEF Next, vars, Configure, RefuseConfig, LoadWorker, StartPrewarm, SpawnWorker, SkipShape,
         RunShape, ShapeFails, CompileRest, EndPrewarm, LoadFails, Measure, UseOverride,
         UseProbeCache, UseProbe, BelowFloor, Resolve, Ended
<1>2. SUFFICES ASSUME host.persists
               PROVE  WarmInv'
  BY <1>1 DEF WarmInv
<1>3. /\ shard \in Seq(Seq(Shapes)) /\ deltas \in Seq(Nat) /\ Len(deltas) \in Nat
      /\ Len(shard) \in Nat /\ todo \in Seq(Shapes) /\ plan \in SUBSET Shapes
  BY DEF TypeInv
<1>4. /\ stage \in Prewarming => built = plan /\ \A s \in check : Warm(plan, failed, s)
      /\ stage \notin {"config", "refused"} /\ cfg.ep = "tensorrt" =>
           \A i \in 1 .. Len(deltas) : \A k \in 1 .. Len(shard[i]) :
             Warm(plan, failed, shard[i][k])
      /\ stage = "checking" /\ fast =>
           /\ shard[Len(shard)] # <<>>
           /\ \A s \in check : Covers(plan, s)
           /\ \A s \in ToSet(CoverageCheckShapes(shard[Len(shard)])) : s \in check \cup ToSet(todo)
      /\ stage = "compiling" =>
           \A s \in ToSet(shard[Len(shard)]) : Warm(plan, failed, s) \/ s \in ToSet(todo)
  BY <1>2 DEF WarmInv
<1>5. CASE Configure
  <2>1. Len(deltas') = 0 /\ stage' = "loading"
    BY <1>3, <1>5 DEF Configure, TypeInv, SpawnInv, Prewarming
  <2>2. \A i \in 1 .. Len(deltas') : FALSE
    BY <2>1
  <2>. QED
    BY <2>1, <2>2 DEF WarmInv, Prewarming
<1>6. CASE RefuseConfig
  BY <1>6 DEF RefuseConfig, WarmInv, Prewarming
<1>7. CASE LoadWorker
  BY <1>7 DEF LoadWorker, SpawnWorker, WarmInv, Prewarming
<1>8. ASSUME UNCHANGED <<cfg, shard, deltas, plan, failed>>, stage \notin {"config", "refused"},
             stage' \notin Prewarming
      PROVE  WarmInv'
  BY <1>4, <1>8 DEF WarmInv, Prewarming
<1>9. CASE StartPrewarm
  <2>1. /\ stage = "loading" /\ Len(deltas) < n /\ stage' = "checking" /\ cfg.ep = "tensorrt"
        /\ shard' = Append(shard, WorkerShapes(Len(deltas)))
        /\ built' = plan /\ check' = {} /\ cfg' = cfg
        /\ todo' = (IF plan = {} THEN <<>> ELSE CoverageCheckShapes(WorkerShapes(Len(deltas))))
        /\ fast' = (plan # {} /\ WorkerShapes(Len(deltas)) # <<>>)
        /\ UNCHANGED <<deltas, plan, failed>>
    BY <1>9 DEF StartPrewarm, SpawnWorker
  <2>2. Len(shard) = Len(deltas)
    BY <2>1, NextWorker
  <2>3. Len(shard') = Len(shard) + 1 /\ shard'[Len(shard')] = WorkerShapes(Len(deltas))
    BY <1>3, <2>1
  <2>4. \A i \in 1 .. Len(deltas) : shard'[i] = shard[i]
    BY <1>3, <2>1, <2>2
  <2>5. \A i \in 1 .. Len(deltas') : \A k \in 1 .. Len(shard'[i]) :
          Warm(plan', failed', shard'[i][k])
    BY <1>4, <2>1, <2>4
  <2>6. fast' => shard'[Len(shard')] # <<>> /\ todo' = CoverageCheckShapes(shard'[Len(shard')])
    BY <2>1, <2>3
  <2>. QED
    BY <2>1, <2>5, <2>6 DEF WarmInv, Prewarming
<1>10. ASSUME stage \in Prewarming
       PROVE  /\ Len(shard) \in 1 .. Len(shard) /\ Len(shard) = Len(deltas) + 1
              /\ cfg.ep = "tensorrt" /\ built = plan /\ shard[Len(shard)] \in Seq(Shapes)
  <2>1. Len(shard) = Len(deltas) + 1 /\ cfg.ep = "tensorrt"
    BY <1>10 DEF SpawnInv
  <2>2. Len(shard) \in 1 .. Len(shard)
    BY <1>3, <2>1
  <2>. QED
    BY <1>4, <1>10, <2>1, <2>2, ShardTyped
<1>11. CASE SkipShape
  <2>1. /\ stage \in Prewarming /\ todo # <<>> /\ Head(todo) \in check /\ todo' = Tail(todo)
        /\ UNCHANGED <<stage, cfg, shard, deltas, built, check, fast, plan, failed>>
    BY <1>11 DEF SkipShape, Prewarming
  <2>2. ToSet(todo) \subseteq {Head(todo)} \cup ToSet(todo')
    BY <1>3, <2>1, HeadOrTail
  <2>3. \A s \in ToSet(todo) : s \in check \cup ToSet(todo')
    BY <2>1, <2>2
  <2>4. stage = "checking" /\ fast =>
          \A s \in ToSet(CoverageCheckShapes(shard[Len(shard)])) : s \in check \cup ToSet(todo')
    BY <1>4, <2>3
  <2>5. stage = "compiling" =>
          \A s \in ToSet(shard[Len(shard)]) : Warm(plan, failed, s) \/ s \in ToSet(todo')
    BY <1>4, <2>1, <2>3
  <2>. QED
    BY <1>4, <2>1, <2>4, <2>5 DEF WarmInv
<1>12. ASSUME stage \in Prewarming, todo # <<>>, todo' = Tail(todo),
              UNCHANGED <<stage, cfg, shard, deltas>>,
              built' = plan', plan \subseteq plan', failed \subseteq failed',
              Warm(plan', failed', Head(todo)),
              check' = IF stage = "checking" THEN check \cup {Head(todo)} ELSE check,
              fast' => fast /\ Covers(plan', Head(todo))
       PROVE  WarmInv'
  <2>1. \A s : Warm(plan, failed, s) => Warm(plan', failed', s)
    BY <1>12, WarmGrows
  <2>2. \A s : Covers(plan, s) => Covers(plan', s)
    BY <1>12, CoverGrows
  <2>3. ToSet(todo) \subseteq {Head(todo)} \cup ToSet(todo')
    BY <1>3, <1>12, HeadOrTail
  <2>4. \A s \in check' : Warm(plan', failed', s)
    BY <1>4, <1>12, <2>1
  <2>5. \A i \in 1 .. Len(deltas) : \A k \in 1 .. Len(shard[i]) :
          Warm(plan', failed', shard[i][k])
    BY <1>4, <1>10, <1>12, <2>1 DEF Prewarming
  <2>6. stage = "checking" /\ fast' =>
          /\ shard[Len(shard)] # <<>>
          /\ \A s \in check' : Covers(plan', s)
          /\ \A s \in ToSet(CoverageCheckShapes(shard[Len(shard)])) : s \in check' \cup ToSet(todo')
    <3>1. SUFFICES ASSUME stage = "checking", fast'
                   PROVE  /\ shard[Len(shard)] # <<>>
                          /\ \A s \in check' : Covers(plan', s)
                          /\ \A s \in ToSet(CoverageCheckShapes(shard[Len(shard)])) :
                               s \in check' \cup ToSet(todo')
      OBVIOUS
    <3>2. fast /\ check' = check \cup {Head(todo)} /\ Covers(plan', Head(todo))
      BY <1>12, <3>1
    <3>. QED
      BY <1>4, <2>2, <2>3, <3>1, <3>2
  <2>7. stage = "compiling" =>
          \A s \in ToSet(shard[Len(shard)]) : Warm(plan', failed', s) \/ s \in ToSet(todo')
    BY <1>4, <1>12, <2>1, <2>3
  <2>. QED
    BY <1>12, <2>4, <2>5, <2>6, <2>7 DEF WarmInv
<1>13. CASE RunShape
  <2>1. /\ stage \in Prewarming /\ todo # <<>> /\ todo' = Tail(todo)
        /\ built' = (IF Covers(built, Head(todo)) THEN built ELSE built \cup {Head(todo)})
        /\ plan' = built'
        /\ check' = (IF stage = "checking" THEN check \cup {Head(todo)} ELSE check)
        /\ fast' => fast
        /\ UNCHANGED <<stage, cfg, shard, deltas, failed>>
    BY <1>2, <1>13 DEF RunShape, Prewarming
  <2>2. Head(todo) \in Shapes /\ built = plan
    BY <1>3, <1>10, <2>1
  <2>3. Covers(plan', Head(todo)) /\ plan \subseteq plan'
    BY <2>1, <2>2, CoverBuilt
  <2>4. Warm(plan', failed', Head(todo))
    BY <2>3 DEF Warm
  <2>. QED
    BY <1>12, <2>1, <2>3, <2>4
<1>14. CASE ShapeFails
  <2>1. /\ stage \in Prewarming /\ todo # <<>> /\ todo' = Tail(todo) /\ fast' = FALSE
        /\ failed' = failed \cup {Head(todo)}
        /\ check' = (IF stage = "checking" THEN check \cup {Head(todo)} ELSE check)
        /\ UNCHANGED <<stage, cfg, shard, deltas, built, plan>>
    BY <1>14 DEF ShapeFails, Prewarming
  <2>2. Warm(plan', failed', Head(todo)) /\ built' = plan'
    BY <1>10, <2>1 DEF Warm
  <2>. QED
    BY <1>12, <2>1, <2>2
<1>15. CASE CompileRest
  <2>1. /\ stage = "checking" /\ stage' = "compiling" /\ todo' = shard[Len(shard)]
        /\ UNCHANGED <<cfg, shard, deltas, built, check, plan, failed>>
    BY <1>15 DEF CompileRest, Last
  <2>. QED
    BY <1>4, <1>10, <2>1 DEF WarmInv, Prewarming
<1>16. CASE EndPrewarm
  <2>1. /\ stage = "compiling" \/ (stage = "checking" /\ fast)
        /\ todo = <<>> /\ UNCHANGED <<cfg, shard, plan, failed>>
        /\ \/ stage' = "failed" /\ deltas' = deltas
           \/ stage' = "loading" /\ \E delta \in RssDeltas : deltas' = Append(deltas, delta)
    BY <1>16 DEF EndPrewarm
  <2>2. CASE stage' = "failed" /\ deltas' = deltas
    BY <1>8, <2>1, <2>2 DEF Prewarming
  <2>3. CASE stage' = "loading" /\ \E delta \in RssDeltas : deltas' = Append(deltas, delta)
    <3>1. stage \in Prewarming
      BY <2>1 DEF Prewarming
    <3>2. Len(deltas') = Len(deltas) + 1
      BY <1>3, <2>3
    <3>3. ToSet(todo) = {}
      BY <2>1 DEF ToSet
    <3>4. ASSUME NEW k \in 1 .. Len(shard[Len(shard)])
          PROVE  Warm(plan, failed, shard[Len(shard)][k])
      <4>1. shard[Len(shard)][k] \in ToSet(shard[Len(shard)])
        BY <1>10, <3>1, ShardTyped
      <4>2. CASE stage = "compiling"
        BY <1>4, <3>3, <4>1, <4>2
      <4>3. CASE stage = "checking" /\ fast
        <5>1. /\ shard[Len(shard)] # <<>>
              /\ \A s \in ToSet(CoverageCheckShapes(shard[Len(shard)])) : Covers(plan, s)
          BY <1>4, <3>3, <4>3
        <5>2. Covers(plan, shard[Len(shard)][k])
          BY <1>3, <1>10, <3>1, <5>1, ExtremesCover
        <5>. QED
          BY <5>2 DEF Warm
      <4>. QED
        BY <2>1, <4>2, <4>3
    <3>5. \A i \in 1 .. Len(deltas') : \A k \in 1 .. Len(shard[i]) : Warm(plan, failed, shard[i][k])
      <4>1. TAKE i \in 1 .. Len(deltas')
      <4>2. i \in 1 .. Len(deltas) \/ i = Len(shard)
        BY <1>3, <1>10, <3>1, <3>2
      <4>. QED
        BY <1>4, <1>10, <3>1, <3>4, <4>2 DEF Prewarming
    <3>. QED
      BY <2>1, <2>3, <3>5 DEF WarmInv, Prewarming
  <2>. QED
    BY <2>1, <2>2, <2>3
<1>17. CASE LoadFails
  BY <1>8, <1>17 DEF LoadFails, Prewarming
<1>18. CASE Measure
  BY <1>8, <1>18 DEF Measure, Prewarming
<1>19. CASE UseOverride \/ UseProbeCache \/ UseProbe \/ BelowFloor
  <2>1. /\ stage = "measured" /\ stage' \in {"open", "failed"}
        /\ UNCHANGED <<cfg, shard, deltas, plan, failed>>
    BY <1>19 DEF UseOverride, UseProbeCache, UseProbe, BelowFloor, Resolve
  <2>. QED
    BY <1>8, <2>1 DEF Prewarming
<1>20. CASE Ended \/ UNCHANGED vars
  BY <1>4, <1>20 DEF Ended, vars, WarmInv
<1>. QED
  BY <1>5, <1>6, <1>7, <1>9, <1>11, <1>13, <1>14, <1>15, <1>16, <1>17, <1>18, <1>19, <1>20 DEF Next

\* The median.
LEMMA StepMedian ==
  ASSUME TypeInv, OneOutlierIgnored, [Next]_vars
  PROVE  OneOutlierIgnored'
<1> USE DEF prewarmVars, workerVars, budgetVars
<1>1. CASE Measure
  <2>1. PICK order \in SortedOrders(deltas) :
          rss' = MedianUsize([i \in 1 .. Len(deltas) |-> deltas[order[i]]])
    BY <1>1 DEF Measure
  <2>2. stage = "loading" /\ Len(deltas) = n /\ UNCHANGED <<n, deltas>>
    BY <1>1 DEF Measure
  <2>3. deltas \in Seq(Nat) /\ deltas # <<>>
    BY <2>2, Resolved DEF TypeInv
  <2>4. Len(deltas) >= 3 =>
          /\ Cardinality({i \in DOMAIN deltas : deltas[i] >= rss'}) >= 2
          /\ Cardinality({i \in DOMAIN deltas : deltas[i] <= rss'}) >= 2
    BY <2>1, <2>3, MedianIsMiddle
  <2>. QED
    BY <2>2, <2>4 DEF OneOutlierIgnored
<1>2. CASE UseOverride \/ UseProbeCache \/ UseProbe
  <2>1. stage = "measured" /\ UNCHANGED <<n, deltas, rss>>
    BY <1>2 DEF UseOverride, UseProbeCache, UseProbe, Resolve
  <2>. QED
    BY <2>1 DEF OneOutlierIgnored
<1>3. CASE Ended \/ UNCHANGED vars
  BY <1>3 DEF Ended, vars, OneOutlierIgnored
<1>4. ASSUME Next, ~Measure, ~(UseOverride \/ UseProbeCache \/ UseProbe), ~Ended
      PROVE  stage' \notin {"measured", "open"}
  BY <1>4 DEF Next, Configure, RefuseConfig, LoadWorker, StartPrewarm, SkipShape, RunShape,
              ShapeFails, CompileRest, EndPrewarm, LoadFails, BelowFloor
<1>. QED
  BY <1>1, <1>2, <1>3, <1>4 DEF OneOutlierIgnored

\* The floor.
LEMMA StepOpen ==
  ASSUME TypeInv, OpenInv, [Next]_vars
  PROVE  OpenInv'
<1> USE DEF prewarmVars, workerVars, budgetVars
<1>1. ASSUME NEW m, NEW from, Resolve(m, from),
             from = "override" => m = cfg.override,
             from # "override" => m.max = Workspace /\ cfg.override = Unset,
             from = "conservative" => m = Conservative(Workspace)
      PROVE  OpenInv'
  <2>1. /\ Workspace >= PhysicsFloor(cfg) /\ model' = m /\ source' = from
        /\ UNCHANGED <<env, host, cfg, rss>>
    BY <1>1 DEF Resolve
  <2>2. Workspace' = Workspace /\ PhysicsFloor(cfg)' = PhysicsFloor(cfg)
    BY <2>1 DEF Workspace
  <2>. QED
    BY <1>1, <2>1, <2>2 DEF OpenInv
<1>2. CASE UseOverride
  BY <1>1, <1>2 DEF UseOverride
<1>3. CASE UseProbeCache
  BY <1>1, <1>3 DEF UseProbeCache
<1>4. CASE UseProbe
  <2>1. cfg.override = Unset /\ Conservative(Workspace).max = Workspace
    BY <1>4 DEF UseProbe, Conservative
  <2>2. CASE Resolve(Conservative(Workspace), "conservative")
    BY <1>1, <2>1, <2>2
  <2>3. CASE \E c \in Coefficients :
               Resolve([a |-> c.a, b |-> c.b, max |-> Workspace], "fitted")
    BY <1>1, <2>1, <2>3
  <2>. QED
    BY <1>4, <2>2, <2>3 DEF UseProbe
<1>5. CASE Ended \/ UNCHANGED vars
  <2>1. UNCHANGED <<stage, env, host, cfg, rss, model, source>>
    BY <1>5 DEF Ended, vars
  <2>2. Workspace' = Workspace /\ PhysicsFloor(cfg)' = PhysicsFloor(cfg)
    BY <2>1 DEF Workspace
  <2>. QED
    BY <2>1, <2>2 DEF OpenInv
<1>6. ASSUME Next, ~(UseOverride \/ UseProbeCache \/ UseProbe), ~Ended
      PROVE  stage' # "open"
  BY <1>6 DEF Next, Configure, RefuseConfig, LoadWorker, StartPrewarm, SkipShape, RunShape,
              ShapeFails, CompileRest, EndPrewarm, LoadFails, Measure, BelowFloor
<1>. QED
  BY <1>2, <1>3, <1>4, <1>5, <1>6 DEF OpenInv

-----------------------------------------------------------------------------
(* The theorems *)

\* The invariant is inductive, so it holds throughout every start: whatever the
\* environment, the machine, and what the workers measure.
THEOREM StartInvariant == Spec => []StartInv
<1>1. Init => StartInv
  <2> SUFFICES ASSUME Init PROVE StartInv
    OBVIOUS
  <2>1. PICK d \in Deployments : env = d.env /\ host = d.host
    BY DEF Init
  <2>2. env \in Environments /\ host \in Hosts
    BY <2>1, StartupAssumption
  <2>3. host.plan \in SUBSET Shapes
    BY <2>2 DEF Hosts
  <2>4. model \in CostModels
    BY ConservativeTyped DEF Init, DefaultMaxWorkspace
  <2>5. /\ shard = <<>> /\ device = <<>> /\ deltas = <<>> /\ todo = <<>>
        /\ Len(shard) = 0 /\ Len(device) = 0 /\ Len(deltas) = 0
    BY DEF Init
  <2>6. shard \in Seq(Seq(Shapes)) /\ device \in Seq(Nat) /\ deltas \in Seq(Nat) /\ todo \in Seq(Shapes)
    BY <2>5
  <2>7. TypeInv
    BY <2>2, <2>3, <2>4, <2>6 DEF Init, TypeInv, Stages
  <2>8. (\A i \in 1 .. Len(device) : FALSE) /\ \A i \in 1 .. Len(shard) : FALSE
    BY <2>5
  <2>9. SpawnInv
    BY <2>5, <2>8 DEF Init, SpawnInv, Prewarming, Up
  <2>. QED
    BY <2>7, <2>9 DEF Init, StartInv, WarmInv, Prewarming, OneOutlierIgnored, OpenInv
<1>2. StartInv /\ [Next]_vars => StartInv'
  BY StepTyped, StepSpawn, StepWarm, StepMedian, StepOpen DEF StartInv
<1>. QED
  BY <1>1, <1>2, PTL DEF Spec

\* Type correctness, with the bounds of the resolved settings (config.rs).
THEOREM StartTypeCorrect == Spec => []TypeOK
<1>1. StartInv => TypeOK
  <2> SUFFICES ASSUME TypeInv, SpawnInv PROVE TypeOK
    BY DEF StartInv
  <2>1. ASSUME cfg # Unset
        PROVE  /\ {cfg.workers, cfg.maxBatch, cfg.gpuCount, cfg.guardSeq, n} \subseteq Nat \ {0}
               /\ cfg.maxSeq \in 1 .. ModelMaxSeq
               /\ cfg.safety \in 1 .. 10
               /\ cfg.shapes # <<>>
    <3>1. stage \notin {"config", "refused"}
      BY <2>1 DEF TypeInv
    <3>2. cfg \in Configs /\ n \in Nat \ {0}
      BY <3>1, Resolved
    <3>. QED
      BY <3>2 DEF Configs
  <2>2. model.max \in Nat
    BY DEF TypeInv, CostModels
  <2>3. Len(deltas) <= n
    <3>1. Len(deltas) \in Nat /\ Len(shard) \in Nat
      BY DEF TypeInv
    <3>2. n \in Nat
      BY Resolved DEF TypeInv
    <3>. QED
      BY <3>1, <3>2 DEF SpawnInv
  <2>. QED
    BY <2>1, <2>2, <2>3 DEF TypeInv, TypeOK, Stages
<1>. QED
  BY <1>1, StartInvariant, PTL

\* With more workers asked for than there are devices, the pool is clamped, and the
\* round robin over the devices gives no device twice (pool.rs).
THEOREM DevicesDistinct == Spec => []OwnDevice
<1>1. StartInv => OwnDevice
  <2> SUFFICES ASSUME TypeInv, SpawnInv, cfg # Unset, cfg.ep # "cpu",
                      NEW i \in DOMAIN device, NEW j \in DOMAIN device, i # j
               PROVE  device[i] # device[j]
    BY DEF StartInv, OwnDevice
  <2>1. stage \notin {"config", "refused"}
    BY DEF TypeInv
  <2>2. cfg.gpuCount \in Nat \ {0} /\ n \in Nat /\ n <= cfg.gpuCount
    BY <2>1, Resolved
  <2>3. DOMAIN device = 1 .. Len(device) /\ Len(device) \in Nat
    BY DEF TypeInv
  <2>4. Len(device) <= n
    BY DEF SpawnInv
  <2>5. ASSUME NEW k \in 1 .. Len(device)
        PROVE  device[k] = k - 1
    <3> DEFINE g == cfg.gpuCount
    <3>1. device[k] = (k - 1) % g
      BY DEF SpawnInv
    <3>2. g \in Nat \ {0} /\ k - 1 \in 0 .. g - 1
      BY <2>2, <2>3, <2>4
    <3> HIDE DEF g
    <3>3. (g * 0 + (k - 1)) % g = k - 1
      BY <3>2, DivModUnique
    <3>4. g * 0 + (k - 1) = k - 1
      BY <3>2
    <3>. QED
      BY <3>1, <3>3, <3>4
  <2>. QED
    BY <2>3, <2>5
<1>. QED
  BY <1>1, StartInvariant, PTL

\* The cost of one text under the conservative coefficients.
LEMMA ConservativeCost ==
  ASSUME NEW seq \in 1 .. ModelMaxSeq
  PROVE  \E cost \in Nat :
           /\ 1 <= cost /\ cost <= 20480
           /\ \A max \in Nat : ChunkCost(Conservative(max), 1, seq) = cost
<1> DEFINE cost == 32 * seq + seq * seq
<1>1. seq \in Nat /\ 1 <= seq /\ seq <= 128
  BY DEF ModelMaxSeq
<1>2. seq * seq \in Nat /\ seq * seq <= 128 * seq
  BY <1>1, ProductGrows
<1>3. ASSUME NEW max \in Nat
      PROVE  ChunkCost(Conservative(max), 1, seq) = cost
  <2>1. Conservative(max).a = 32 /\ Conservative(max).b = 1
    BY DEF Conservative, ConservativeA, ConservativeB
  <2>2. 32 * 1 * seq = 32 * seq /\ 1 * 1 * seq * seq = seq * seq
    BY <1>1
  <2>3. ChunkCost(Conservative(max), 1, seq)
          = SaturatingSub(32 * seq, 0) + SaturatingSub(seq * seq, 0)
    BY <2>1, <2>2 DEF ChunkCost
  <2>. QED
    BY <1>1, <1>2, <2>3 DEF SaturatingSub
<1>4. cost \in Nat /\ 1 <= cost /\ cost <= 20480
  BY <1>1, <1>2
<1> HIDE DEF cost
<1>. QED
  BY <1>3, <1>4

\* What is known of an open server's workspace.
LEMMA OpenWorkspace ==
  ASSUME StartInv, stage = "open"
  PROVE  /\ cfg \in Configs /\ cfg.maxSeq \in 1 .. ModelMaxSeq
         /\ cfg.workers \in Nat \ {0} /\ n \in Nat \ {0} /\ n <= cfg.workers
         /\ rss \in Nat /\ cfg.safety \in 1 .. 10
         /\ DetectAvailableMemory(env, host) \in Nat
         /\ Workspace \in Nat /\ Workspace <= DetectAvailableMemory(env, host)
         /\ \E cost \in Nat :
              /\ 1 <= cost /\ cost <= 20480 /\ Workspace >= cost
              /\ \A max \in Nat : ChunkCost(Conservative(max), 1, cfg.maxSeq) = cost
<1>1. TypeInv /\ OpenInv
  BY DEF StartInv
<1>2. cfg \in Configs /\ n \in Nat \ {0} /\ n <= cfg.workers /\ cfg.workers \in Nat \ {0}
  BY <1>1, Resolved
<1>3. cfg.maxSeq \in 1 .. ModelMaxSeq /\ cfg.safety \in 1 .. 10
  BY <1>2 DEF Configs
<1>4. DetectAvailableMemory(env, host) \in Nat /\ rss \in Nat
  BY <1>1, MemoryTyped DEF TypeInv
<1>5. Workspace \in Nat /\ Workspace <= DetectAvailableMemory(env, host)
  BY <1>2, <1>3, <1>4, BudgetDivides DEF Workspace
<1>6. PICK cost \in Nat :
        /\ 1 <= cost /\ cost <= 20480
        /\ \A max \in Nat : ChunkCost(Conservative(max), 1, cfg.maxSeq) = cost
  BY <1>3, ConservativeCost
<1>7. Workspace >= cost
  <2>1. Workspace >= ChunkCost(Conservative(0), 1, cfg.maxSeq) /\ 0 \in Nat
    BY <1>1 DEF OpenInv, PhysicsFloor
  <2>. QED
    BY <1>6, <2>1
<1>. QED
  BY <1>2, <1>3, <1>4, <1>5, <1>6, <1>7

\* The floor does what it is there for: one text of the greatest length fits the
\* workspace of a server opened with the conservative coefficients (readiness.rs).
THEOREM LongestFits == Spec => []LongestTextFits
<1>1. StartInv => LongestTextFits
  <2> SUFFICES ASSUME StartInv, stage = "open",
                      source = "conservative" \/ (cfg.ep = "cpu" /\ env.disableAuto)
               PROVE  Fits(model, 1, cfg.maxSeq)
    BY DEF LongestTextFits
  <2>1. PICK cost \in Nat :
          /\ cost <= 20480 /\ Workspace >= cost
          /\ \A max \in Nat : ChunkCost(Conservative(max), 1, cfg.maxSeq) = cost
    BY OpenWorkspace
  <2>2. Workspace \in Nat /\ Workspace >= cost
    BY <2>1, OpenWorkspace
  <2>3. CASE source = "conservative"
    <3>1. model = Conservative(Workspace) /\ Conservative(Workspace).max = Workspace
      BY <2>3 DEF StartInv, OpenInv, Conservative
    <3>. QED
      BY <2>1, <2>2, <3>1 DEF Fits
  <2>4. CASE cfg.ep = "cpu" /\ env.disableAuto
    <3> DEFINE given == Setting(env.memory, DefaultMaxWorkspace)
    <3>1. TypeInv
      BY DEF StartInv
    <3>2. cfg = FromLookup(env, host) /\ env \in Environments
      BY <3>1 DEF TypeInv
    <3>3. env.ep = "cpu" /\ cfg.override = CostModelOverride(env)
      BY <2>4, <3>2 DEF FromLookup
    <3>4. cfg.override = Conservative(given)
      BY <2>4, <3>3 DEF CostModelOverride, ResolveCostModelOverride
    <3>5. env.memory \in Numbers
      BY <3>2 DEF Environments
    <3>6. given \in Nat /\ (env.memory # Unset => env.memory \in Nat)
      BY <3>5, SettingTyped DEF DefaultMaxWorkspace
    <3>7. Conservative(given) # Unset
      BY <3>6, ConservativeTyped, StartupAssumption
    <3>8. model = Conservative(given)
      BY <3>4, <3>7 DEF StartInv, OpenInv
    <3>9. cost <= given
      <4>1. CASE env.memory = Unset
        BY <2>1, <4>1 DEF Setting, DefaultMaxWorkspace
      <4>2. CASE env.memory # Unset
        <5>1. given = env.memory /\ DetectAvailableMemory(env, host) = env.memory
          BY <4>2 DEF Setting, DetectAvailableMemory
        <5>2. Workspace <= env.memory
          BY <5>1, OpenWorkspace
        <5>. QED
          BY <2>1, <2>2, <3>6, <4>2, <5>1, <5>2
      <4>. QED
        BY <4>1, <4>2
    <3> HIDE DEF given
    <3>10. model.max = given
      BY <3>8 DEF Conservative
    <3>. QED
      BY <2>1, <3>6, <3>8, <3>9, <3>10 DEF Fits
  <2>. QED
    BY <2>3, <2>4
<1>. QED
  BY <1>1, StartInvariant, PTL

\* The workers together never plan for more memory than the process may have
\* (bootstrap/budget.rs, sysinfo.rs).
THEOREM BudgetIsSafe == Spec => []BudgetFits
<1>1. StartInv => BudgetFits
  <2> SUFFICES ASSUME StartInv, stage = "open", source # "override",
                      env.memory # Unset \/ Nested(host)
               PROVE  n * model.max + n * rss + OsHeadroom <= Limit
    BY DEF BudgetFits
  <2> DEFINE available == DetectAvailableMemory(env, host)
             workers == cfg.workers
             share == Workspace
  <2>1. /\ workers \in Nat \ {0} /\ n \in Nat \ {0} /\ n <= workers /\ rss \in Nat
        /\ available \in Nat /\ share \in Nat
    BY OpenWorkspace
  <2>2. share > 0
    <3>1. PICK cost \in Nat : 1 <= cost /\ share >= cost
      BY OpenWorkspace
    <3>. QED
      BY <2>1, <3>1
  <2>3. model.max = share
    BY DEF StartInv, OpenInv
  <2>4. workers * share + workers * rss + OsHeadroom <= available
    <3>1. cfg.safety \in 1 .. 10
      BY OpenWorkspace
    <3>2. share = WorkspaceBudget(available, workers, rss, cfg.safety)
      BY DEF Workspace
    <3> HIDE DEF share, available, workers
    <3>. QED
      BY <2>1, <2>2, <3>1, <3>2, BudgetDivides
  <2>5. available <= Limit /\ Limit \in Nat
    <3>1. env \in Environments /\ host \in Hosts
      BY DEF StartInv, TypeInv
    <3>2. CASE env.memory # Unset
      BY <2>1, <3>2 DEF Limit, DetectAvailableMemory, Setting
    <3>3. CASE env.memory = Unset
      <4> DEFINE T == {host.ram} \cup {l \in ToSet(host.v2) \cup {host.v1} : Numeric(l)}
      <4>1. Nested(host)
        BY <3>3
      <4>2. /\ host.ram \in Nat /\ available <= host.ram
            /\ \A l \in ToSet(host.v2) \cup {host.v1} : Numeric(l) => l \in Nat /\ available <= l
        BY <3>1, <3>3, <4>1, MemoryIsLeast
      <4>3. T \in SUBSET Nat /\ T # {} /\ \A l \in T : available <= l
        BY <4>2
      <4>4. Limit = Min(T)
        BY <3>3 DEF Limit
      <4> HIDE DEF T
      <4>5. Min(T) \in T
        BY <4>3, LeastNumber
      <4>. QED
        BY <4>3, <4>4, <4>5
    <3>. QED
      BY <3>2, <3>3
  <2> HIDE DEF available, workers, share
  <2>6. n * share <= workers * share /\ n * rss <= workers * rss
    BY <2>1, ProductGrows
  <2>7. n * share \in Nat /\ workers * share \in Nat /\ n * rss \in Nat /\ workers * rss \in Nat
    BY <2>1
  <2>8. n * share + n * rss + OsHeadroom <= Limit
    BY <2>1, <2>4, <2>5, <2>6, <2>7 DEF OsHeadroom
  <2>. QED
    BY <2>3, <2>8
<1>. QED
  BY <1>1, StartInvariant, PTL

\* One worker's odd measurement does not decide the footprint of all (pool.rs).
THEOREM OutlierIgnored == Spec => []OneOutlierIgnored
  BY StartInvariant, PTL DEF StartInv

\* What an up TensorRT pool's shards are.
LEMMA UpShards ==
  ASSUME StartInv, stage \in Up, cfg.ep = "tensorrt"
  PROVE  /\ cfg.shapes \in Seq(Shapes) /\ n \in Nat \ {0}
         /\ DOMAIN shard = 1 .. n /\ Len(deltas) = n
         /\ \A i \in 1 .. n : shard[i] = ShardShapes(cfg.shapes, i - 1, n)
         /\ \A i \in 1 .. n : shard[i] \in Seq(Shapes) /\ DOMAIN shard[i] = 1 .. Len(shard[i])
<1>1. TypeInv /\ SpawnInv
  BY DEF StartInv
<1>2. stage \notin {"config", "refused"}
  BY DEF Up
<1>3. cfg \in Configs /\ n \in Nat \ {0}
  BY <1>1, <1>2, Resolved
<1>4. cfg.shapes \in Seq(Shapes)
  BY <1>3 DEF Configs
<1>5. Len(shard) = n /\ Len(deltas) = n
  BY <1>1 DEF SpawnInv, Up, Prewarming
<1>6. DOMAIN shard = 1 .. n
  BY <1>1, <1>5 DEF TypeInv
<1>7. ASSUME NEW i \in 1 .. n
      PROVE  shard[i] = ShardShapes(cfg.shapes, i - 1, n) /\ shard[i] \in Seq(Shapes)
  <2>1. i - 1 \in 0 .. n - 1
    BY <1>3
  <2>2. shard[i] = WorkerShapes(i - 1)
    BY <1>1, <1>5 DEF SpawnInv
  <2>3. WorkerShapes(i - 1) = ShardShapes(cfg.shapes, i - 1, n)
    BY <1>3, <2>1, WorkerShard
  <2>4. ShardShapes(cfg.shapes, i - 1, n) \in Seq(Shapes)
    BY <1>3, <1>4, <2>1, ShardPositions
  <2>. QED
    BY <2>2, <2>3, <2>4
<1>. QED
  BY <1>3, <1>4, <1>5, <1>6, <1>7

\* The position j of the configured list is in the shard of worker j - 1 modulo n.
LEMMA InShard ==
  ASSUME StartInv, stage \in Up, cfg.ep = "tensorrt", NEW j \in 1 .. Len(cfg.shapes)
  PROVE  /\ ((j - 1) % n) + 1 \in 1 .. n
         /\ ((j - 1) \div n) + 1 \in 1 .. Len(shard[((j - 1) % n) + 1])
         /\ shard[((j - 1) % n) + 1][((j - 1) \div n) + 1] = cfg.shapes[j]
<1> DEFINE r == (j - 1) % n
           q == (j - 1) \div n
<1>1. cfg.shapes \in Seq(Shapes) /\ n \in Nat \ {0} /\ j \in Nat \ {0}
  BY UpShards
<1>2. r \in 0 .. n - 1 /\ q \in Nat /\ j = r + 1 + n * q
  BY <1>1, PositionShard
<1> HIDE DEF r, q
<1>3. r + 1 \in 1 .. n /\ q + 1 \in Nat \ {0} /\ (q + 1) - 1 = q /\ (r + 1) - 1 = r
  BY <1>1, <1>2
<1>4. shard[r + 1] = ShardShapes(cfg.shapes, r, n)
  BY <1>3, UpShards
<1>5. r + 1 + n * ((q + 1) - 1) = j
  BY <1>2, <1>3
<1> DEFINE k == q + 1
<1>6. /\ k <= Len(shard[r + 1]) <=> r + 1 + n * (k - 1) <= Len(cfg.shapes)
      /\ k \in 1 .. Len(shard[r + 1]) => shard[r + 1][k] = cfg.shapes[r + 1 + n * (k - 1)]
  <2>1. k \in Nat \ {0}
    BY <1>3
  <2> HIDE DEF k
  <2>. QED
    BY <1>1, <1>2, <1>4, <2>1, ShardPositions
<1>7. q + 1 \in 1 .. Len(shard[r + 1])
  <2>1. Len(shard[r + 1]) \in Nat
    BY <1>3, UpShards
  <2>2. q + 1 <= Len(shard[r + 1])
    BY <1>5, <1>6
  <2>. QED
    BY <1>3, <2>1, <2>2
<1>8. shard[r + 1][q + 1] = cfg.shapes[j]
  BY <1>5, <1>6, <1>7
<1>. QED
  BY <1>3, <1>7, <1>8 DEF r, q

\* Sharding loses no shape and duplicates none: j stands at one place of one shard
\* and every place is that of one j (embedder/pool.rs, shard_shapes).
THEOREM ShardsPartitionGrid == Spec => []ShardsPartition
<1>1. StartInv => ShardsPartition
  <2> SUFFICES ASSUME StartInv, stage \in Up, cfg.ep = "tensorrt", NEW shape
               PROVE  Cardinality(Given(shape))
                        = Cardinality({j \in DOMAIN cfg.shapes : cfg.shapes[j] = shape})
    BY DEF ShardsPartition, Up
  <2> DEFINE J == {j \in DOMAIN cfg.shapes : cfg.shapes[j] = shape}
             G == Given(shape)
             place(j) == << ((j - 1) % n) + 1, ((j - 1) \div n) + 1 >>
             f == [j \in J |-> place(j)]
  <2>1. /\ cfg.shapes \in Seq(Shapes) /\ n \in Nat \ {0} /\ DOMAIN shard = 1 .. n
        /\ \A i \in 1 .. n : shard[i] = ShardShapes(cfg.shapes, i - 1, n)
        /\ \A i \in 1 .. n : DOMAIN shard[i] = 1 .. Len(shard[i]) /\ Len(shard[i]) \in Nat
    BY UpShards
  <2>2. DOMAIN cfg.shapes = 1 .. Len(cfg.shapes) /\ Len(cfg.shapes) \in Nat
    BY <2>1
  <2>3. IsFiniteSet(J)
    <3>1. IsFiniteSet(1 .. Len(cfg.shapes))
      BY <2>2, FS_Interval
    <3>. QED
      BY <2>2, <3>1, FS_Subset
  <2>4. \A p : p \in G <=> \E i \in 1 .. n : \E k \in 1 .. Len(shard[i]) :
                             p = <<i, k>> /\ shard[i][k] = shape
    <3>1. \A p : p \in UNION {{i} \X (DOMAIN shard[i]) : i \in DOMAIN shard}
                   <=> \E i \in 1 .. n : \E k \in 1 .. Len(shard[i]) : p = <<i, k>>
      BY <2>1
    <3>. QED
      BY <3>1 DEF Given
  <2>5. ASSUME NEW j \in J
        PROVE  place(j) \in G
    <3>1. j \in 1 .. Len(cfg.shapes) /\ cfg.shapes[j] = shape
      BY <2>2
    <3>2. /\ ((j - 1) % n) + 1 \in 1 .. n
          /\ ((j - 1) \div n) + 1 \in 1 .. Len(shard[((j - 1) % n) + 1])
          /\ shard[((j - 1) % n) + 1][((j - 1) \div n) + 1] = shape
      BY <3>1, InShard
    <3> DEFINE i == ((j - 1) % n) + 1
               k == ((j - 1) \div n) + 1
    <3>3. i \in 1 .. n /\ k \in 1 .. Len(shard[i]) /\ shard[i][k] = shape /\ place(j) = <<i, k>>
      BY <3>2
    <3> HIDE DEF i, k, G, place
    <3>. QED
      BY <2>4, <3>3
  <2>6. ASSUME NEW j \in J, NEW h \in J, place(j) = place(h)
        PROVE  j = h
    <3>1. j \in Nat \ {0} /\ h \in Nat \ {0}
      BY <2>2
    <3>2. ((j - 1) % n) + 1 = ((h - 1) % n) + 1 /\ ((j - 1) \div n) + 1 = ((h - 1) \div n) + 1
      BY <2>6
    <3> DEFINE rj == (j - 1) % n
               rh == (h - 1) % n
               qj == (j - 1) \div n
               qh == (h - 1) \div n
    <3>3. /\ rj \in 0 .. n - 1 /\ qj \in Nat /\ j = rj + 1 + n * qj
          /\ rh \in 0 .. n - 1 /\ qh \in Nat /\ h = rh + 1 + n * qh
      BY <2>1, <3>1, PositionShard
    <3>4. rj + 1 = rh + 1 /\ qj + 1 = qh + 1
      BY <3>2
    <3> HIDE DEF rj, rh, qj, qh
    <3>5. rj = rh /\ qj = qh
      BY <2>1, <3>3, <3>4
    <3>. QED
      BY <3>3, <3>5
  <2>7. ASSUME NEW p \in G
        PROVE  \E j \in J : place(j) = p
    <3>1. PICK i \in 1 .. n : \E k \in 1 .. Len(shard[i]) : p = <<i, k>> /\ shard[i][k] = shape
      BY <2>4, <2>7
    <3>2. PICK k \in 1 .. Len(shard[i]) : p = <<i, k>> /\ shard[i][k] = shape
      BY <3>1
    <3> DEFINE id == i - 1
               q == k - 1
    <3>3. id \in 0 .. n - 1 /\ q \in Nat /\ i = id + 1 /\ k = q + 1 /\ k \in Nat \ {0}
      BY <2>1
    <3>4. shard[i] = ShardShapes(cfg.shapes, id, n)
      BY <2>1
    <3>5. k <= Len(shard[i]) <=> id + 1 + n * (k - 1) <= Len(cfg.shapes)
      BY <2>1, <3>3, <3>4, ShardPositions
    <3>6. shard[i][k] = cfg.shapes[id + 1 + n * (k - 1)]
      <4>1. k \in 1 .. Len(ShardShapes(cfg.shapes, id, n))
        BY <3>4
      <4>2. cfg.shapes \in Seq(Shapes) /\ n \in Nat \ {0} /\ id \in 0 .. n - 1
        BY <2>1, <3>3
      <4> HIDE DEF id
      <4>3. ShardShapes(cfg.shapes, id, n)[k] = cfg.shapes[id + 1 + n * (k - 1)]
        BY <4>1, <4>2, ShardPositions
      <4>. QED
        BY <3>4, <4>3
    <3> DEFINE j == id + 1 + n * (k - 1)
    <3>7. n * (k - 1) \in Nat /\ k <= Len(shard[i])
      BY <2>1, <3>3
    <3>8. j \in 1 .. Len(cfg.shapes) /\ cfg.shapes[j] = shape
      <4> HIDE DEF id
      <4>. QED
        BY <2>2, <3>2, <3>3, <3>5, <3>6, <3>7
    <3>9. j \in J
      BY <2>2, <3>8
    <3>10. j - 1 = n * q + id
      BY <2>1, <3>3
    <3>11. (n * q + id) \div n = q /\ (n * q + id) % n = id
      <4> HIDE DEF q, id
      <4>. QED
        BY <2>1, <3>3, DivModUnique
    <3>12. (j - 1) \div n = q /\ (j - 1) % n = id
      <4> HIDE DEF q, id, j
      <4>. QED
        BY <3>10, <3>11
    <3>13. place(j) = <<i, k>>
      <4> HIDE DEF q, id, j
      <4>. QED
        BY <3>3, <3>12
    <3>. QED
      BY <3>2, <3>9, <3>13
  <2> HIDE DEF J, G, place
  <2>8. f \in [J -> G]
    BY <2>5
  <2>9. f \in Bijection(J, G)
    BY <2>6, <2>7, <2>8 DEF Bijection, Injection, Surjection, IsInjective
  <2>10. ExistsBijection(J, G)
    BY <2>9 DEF ExistsBijection
  <2>. QED
    BY <2>3, <2>10, FS_Bijection DEF J, G
<1>. QED
  BY <1>1, StartInvariant, PTL

\* When the workers are up, the plan covers the whole grid but for the builds that
\* failed, also where the fast path ran the extremes only (trt_warmup.rs).
THEOREM GridIsCovered == Spec => []GridCovered
<1>1. StartInv => GridCovered
  <2> SUFFICES ASSUME StartInv, stage \in Up, cfg.ep = "tensorrt", host.persists,
                      NEW shape \in ToSet(cfg.shapes)
               PROVE  Covers(plan, shape) \/ shape \in failed
    BY DEF GridCovered, Up
  <2>1. cfg.shapes \in Seq(Shapes) /\ Len(deltas) = n
    BY UpShards
  <2>2. PICK j \in 1 .. Len(cfg.shapes) : shape = cfg.shapes[j]
    BY <2>1 DEF ToSet
  <2>3. PICK i \in 1 .. n : \E k \in 1 .. Len(shard[i]) : shard[i][k] = shape
    BY <2>2, InShard
  <2>4. PICK k \in 1 .. Len(shard[i]) : shard[i][k] = shape
    BY <2>3
  <2>5. Warm(plan, failed, shard[i][k])
    BY <2>1 DEF StartInv, WarmInv, Up
  <2>. QED
    BY <2>4, <2>5 DEF Warm
<1>. QED
  BY <1>1, StartInvariant, PTL
=============================================================================
