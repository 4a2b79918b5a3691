--------------------------- MODULE EmbedBatchProofs ---------------------------
(***************************************************************************)
(* Proofs about EmbedBatch, for requests of every size, every length of    *)
(* their texts, every cost model and every guard.                          *)
(***************************************************************************)
EXTENDS EmbedBatch, TLAPS

-----------------------------------------------------------------------------
(* The inductive invariant *)

\* The greatest length of a chunk.
IsMax(l, chunk, m) ==
  /\ \E i \in Range(chunk) : m = l[i]
  /\ \A i \in Range(chunk) : l[i] <= m

\* A chunk with its greatest length, that fits the budget or cannot be split.
SoundWith(l, b, chunk, m) ==
  /\ IsMax(l, chunk, m)
  /\ Len(chunk) > 1 => ChunkCost(Len(chunk), m) <= b

Sound(l, b, chunk) == \E m \in 0 .. MaxLen : SoundWith(l, b, chunk, m)

AllSound(l, b, cs) == \A k \in 1 .. Len(cs) : Sound(l, b, cs[k])

\* The texts of a list of chunks.
Listed(cs) == UNION {Range(cs[k]) : k \in 1 .. Len(cs)}

AllAdmitted == \A i \in Texts : Admit(lens[i])

\* While bin_pack scans no text is lost, and current_max_seq is what it says.
ScanInv ==
  pc = "pack" =>
    /\ Texts \subseteq Range(sorted) \cup Range(current) \cup Listed(chunks)
    /\ current # <<>> => SoundWith(lens, budget, current, currentMax)
    /\ current = <<>> => currentMax = 0
    /\ AllSound(lens, budget, chunks)

\* While the chunks run every text has its embedding or is in a chunk still to
\* run, and the guard has admitted all of them.
RunInv ==
  pc = "run" =>
    /\ chunks # <<>>
    /\ \A i \in Texts \ Listed(chunks) : embeddings[i] = i
    /\ AllSound(lens, budget, chunks)
    /\ AllAdmitted

\* What the runs so far say of the request.
RunsInv ==
  /\ runs # <<>> => AllAdmitted
  /\ \A k \in 1 .. Len(runs) : Sound(lens, runs[k].budget, runs[k].chunk)

BatchInv ==
  /\ TypeOK
  /\ ScanInv
  /\ RunInv
  /\ RunsInv
  /\ EveryTextEmbedded
  /\ RefusedUnrun

-----------------------------------------------------------------------------
(* Sequences of texts and of chunks *)

\* What a chunk holds after a push.
LEMMA Pushed ==
  ASSUME NEW T, NEW s \in Seq(T), NEW e \in T
  PROVE  /\ Append(s, e) \in Seq(T) /\ Append(s, e) # <<>>
         /\ Len(Append(s, e)) = Len(s) + 1 /\ Len(s) \in Nat
         /\ Range(Append(s, e)) = Range(s) \cup {e}
<1>1. /\ Append(s, e) \in Seq(T) /\ Len(Append(s, e)) = Len(s) + 1 /\ Len(s) \in Nat
      /\ DOMAIN s = 1 .. Len(s) /\ DOMAIN Append(s, e) = 1 .. Len(s) + 1
      /\ \A i \in 1 .. Len(s) : Append(s, e)[i] = s[i]
      /\ Append(s, e)[Len(s) + 1] = e
      /\ Append(s, e) # <<>>
  OBVIOUS
<1>2. \A x \in Range(Append(s, e)) : x \in Range(s) \cup {e}
  BY <1>1 DEF Range
<1>3. \A x \in Range(s) \cup {e} : x \in Range(Append(s, e))
  BY <1>1 DEF Range
<1>. QED
  BY <1>1, <1>2, <1>3

\* What is left after the first element.
LEMMA Popped ==
  ASSUME NEW T, NEW s \in Seq(T), s # <<>>
  PROVE  /\ Head(s) \in T /\ Tail(s) \in Seq(T)
         /\ Range(s) = {Head(s)} \cup Range(Tail(s))
<1>1. /\ Tail(s) \in Seq(T) /\ Len(s) \in Nat \ {0} /\ Len(Tail(s)) = Len(s) - 1
      /\ Head(s) = s[1] /\ Head(s) \in T
      /\ DOMAIN s = 1 .. Len(s) /\ DOMAIN Tail(s) = 1 .. Len(s) - 1
      /\ \A i \in 1 .. Len(s) - 1 : Tail(s)[i] = s[i + 1]
  OBVIOUS
<1>2. \A x \in Range(s) : x \in {Head(s)} \cup Range(Tail(s))
  <2>1. TAKE x \in Range(s)
  <2>2. PICK i \in 1 .. Len(s) : x = s[i]
    BY <1>1, <2>1 DEF Range
  <2>3. CASE i = 1
    BY <1>1, <2>2, <2>3
  <2>4. CASE i # 1
    <3>1. i - 1 \in 1 .. Len(s) - 1 /\ Tail(s)[i - 1] = x
      BY <1>1, <2>2, <2>4
    <3>. QED
      BY <1>1, <3>1 DEF Range
  <2>. QED
    BY <2>3, <2>4
<1>3. \A x \in {Head(s)} \cup Range(Tail(s)) : x \in Range(s)
  BY <1>1 DEF Range
<1>. QED
  BY <1>1, <1>2, <1>3

\* A chunk is added to a list.
LEMMA ListPushed ==
  ASSUME NEW T, NEW cs \in Seq(T), NEW c \in T, NEW l, NEW b
  PROVE  /\ Append(cs, c) \in Seq(T)
         /\ Listed(Append(cs, c)) = Listed(cs) \cup Range(c)
         /\ AllSound(l, b, cs) /\ Sound(l, b, c) => AllSound(l, b, Append(cs, c))
<1>1. /\ Append(cs, c) \in Seq(T) /\ Len(Append(cs, c)) = Len(cs) + 1 /\ Len(cs) \in Nat
      /\ \A i \in 1 .. Len(cs) : Append(cs, c)[i] = cs[i]
      /\ Append(cs, c)[Len(cs) + 1] = c
  OBVIOUS
<1>2. \A i \in 1 .. Len(cs) + 1 : i \in 1 .. Len(cs) \/ i = Len(cs) + 1
  BY <1>1
<1>3. Len(cs) + 1 \in 1 .. Len(cs) + 1 /\ 1 .. Len(cs) \subseteq 1 .. Len(cs) + 1
  BY <1>1
<1>4. \A x \in Listed(Append(cs, c)) : x \in Listed(cs) \cup Range(c)
  BY <1>1, <1>2 DEF Listed
<1>5. \A x \in Listed(cs) \cup Range(c) : x \in Listed(Append(cs, c))
  BY <1>1, <1>3 DEF Listed
<1>6. AllSound(l, b, cs) /\ Sound(l, b, c) => AllSound(l, b, Append(cs, c))
  BY <1>1, <1>2 DEF AllSound
<1>. QED
  BY <1>1, <1>4, <1>5, <1>6

\* And the first one is taken from it.
LEMMA ListPopped ==
  ASSUME NEW T, NEW cs \in Seq(T), cs # <<>>, NEW l, NEW b
  PROVE  /\ Head(cs) \in T /\ Tail(cs) \in Seq(T)
         /\ Listed(cs) = Range(Head(cs)) \cup Listed(Tail(cs))
         /\ AllSound(l, b, cs) => Sound(l, b, Head(cs)) /\ AllSound(l, b, Tail(cs))
<1>1. /\ Tail(cs) \in Seq(T) /\ Len(cs) \in Nat \ {0} /\ Len(Tail(cs)) = Len(cs) - 1
      /\ Head(cs) = cs[1] /\ Head(cs) \in T
      /\ \A i \in 1 .. Len(cs) - 1 : Tail(cs)[i] = cs[i + 1]
  OBVIOUS
<1>2. 1 \in 1 .. Len(cs) /\ \A i \in 1 .. Len(cs) - 1 : i + 1 \in 1 .. Len(cs)
  BY <1>1
<1>3. \A i \in 1 .. Len(cs) : i = 1 \/ (i - 1 \in 1 .. Len(cs) - 1 /\ Tail(cs)[i - 1] = cs[i])
  BY <1>1
<1>4. \A x \in Listed(cs) : x \in Range(Head(cs)) \cup Listed(Tail(cs))
  BY <1>1, <1>3 DEF Listed
<1>5. \A x \in Range(Head(cs)) \cup Listed(Tail(cs)) : x \in Listed(cs)
  BY <1>1, <1>2 DEF Listed
<1>6. AllSound(l, b, cs) => Sound(l, b, Head(cs)) /\ AllSound(l, b, Tail(cs))
  BY <1>1, <1>2 DEF AllSound
<1>. QED
  BY <1>1, <1>4, <1>5, <1>6

\* No chunks, no texts.
LEMMA ListEmpty ==
  ASSUME NEW l, NEW b
  PROVE  Listed(<<>>) = {} /\ AllSound(l, b, <<>>) /\ Range(<<>>) = {}
BY DEF Listed, AllSound, Range

\* The greatest length is the one the code computes.
LEMMA MaxIsChunkMax ==
  ASSUME NEW chunk, NEW m \in Int, IsMax(lens, chunk, m),
         \A i \in Range(chunk) : lens[i] \in Int
  PROVE  ChunkMax(chunk) = m
<1> DEFINE S == {lens[i] : i \in Range(chunk)}
<1>1. m \in S /\ \A i \in Range(chunk) : lens[i] <= m
  BY DEF IsMax
<1>2. ChunkMax(chunk) \in S /\ \A i \in Range(chunk) : lens[i] <= ChunkMax(chunk)
  BY <1>1 DEF ChunkMax
<1>3. m <= ChunkMax(chunk) /\ ChunkMax(chunk) <= m /\ ChunkMax(chunk) \in Int
  BY <1>1, <1>2
<1>. QED
  BY <1>3

-----------------------------------------------------------------------------
(* The steps *)

\* What is known of the request: a sequence of at least one length.
LEMMA Request ==
  ASSUME TypeOK
  PROVE  /\ lens \in [Texts -> 1 .. MaxLen] /\ lens \in Seq(1 .. MaxLen)
         /\ Len(lens) \in Nat \ {0} /\ 1 \in Texts
         /\ \A i \in Texts : lens[i] \in Nat /\ lens[i] > 0
<1>1. PICK k \in 1 .. MaxTexts : lens \in [1 .. k -> 1 .. MaxLen]
  BY DEF TypeOK
<1>2. k \in Nat \ {0} /\ MaxLen \in Nat
  BY BatchAssumption
<1>3. lens \in Seq(1 .. MaxLen) /\ DOMAIN lens = 1 .. k /\ Len(lens) = k
  BY <1>1, <1>2
<1>. QED
  BY <1>1, <1>2, <1>3 DEF Texts

\* The steps of one request leave its texts as they are.
LEMMA TextsKept ==
  ASSUME [Next]_vars
  PROVE  lens' = lens /\ ceiling' = ceiling /\ Texts' = Texts /\ Empty' = Empty
BY DEF Next, Sort, TokenizeFails, Pack, Guard, RunChunk, RunFails, vars, Texts, Empty

\* A text of the scan: it is in the current chunk afterwards, whose longest text
\* current_max_seq still tells, and a chunk that is flushed fits.
LEMMA StepPack ==
  ASSUME BatchInv, Pack
  PROVE  BatchInv'
<1>1. /\ pc = "pack" /\ pc' = "pack" /\ sorted # <<>> /\ sorted' = Tail(sorted)
      /\ UNCHANGED <<lens, ceiling, budget, attempt, runs, embeddings>>
  BY DEF Pack
<1>2. /\ TypeOK /\ ScanInv /\ RunsInv
      /\ sorted \in Seq(Texts) /\ current \in Seq(Texts) /\ chunks \in Seq(Seq(Texts))
      /\ currentMax \in 0 .. MaxLen /\ budget \in Nat
  BY DEF BatchInv, TypeOK
<1>3. /\ lens \in [Texts -> 1 .. MaxLen] /\ MaxLen \in Nat
      /\ \A i \in Texts : lens[i] \in Nat /\ lens[i] > 0
  BY <1>2, Request, BatchAssumption
<1>4. /\ Texts \subseteq Range(sorted) \cup Range(current) \cup Listed(chunks)
      /\ current # <<>> => SoundWith(lens, budget, current, currentMax)
      /\ current = <<>> => currentMax = 0
      /\ AllSound(lens, budget, chunks)
  BY <1>1, <1>2 DEF ScanInv
<1> DEFINE idx == Head(sorted)
<1>5. /\ idx \in Texts /\ Tail(sorted) \in Seq(Texts)
      /\ Range(sorted) = {idx} \cup Range(Tail(sorted))
  BY <1>1, <1>2, Popped
<1>6. Texts' = Texts
  BY <1>1 DEF Texts
<1>7. lens[idx] \in 1 .. MaxLen
  BY <1>3, <1>5
<1> HIDE DEF idx
<1>8. /\ current' \in Seq(Texts) /\ currentMax' \in 0 .. MaxLen /\ current' # <<>>
      /\ chunks' \in Seq(Seq(Texts))
      /\ Range(current) \cup Listed(chunks) \cup {idx} = Range(current') \cup Listed(chunks')
      /\ SoundWith(lens, budget, current', currentMax')
      /\ AllSound(lens, budget, chunks')
  <2>1. CASE Joins
    <3>1. current' = Append(current, idx) /\ currentMax' = NewMax /\ chunks' = chunks
      BY <2>1 DEF Pack, idx
    <3>2. /\ current' \in Seq(Texts) /\ current' # <<>>
          /\ Len(current') = Len(current) + 1 /\ Len(current) \in Nat
          /\ Range(current') = Range(current) \cup {idx}
      BY <1>2, <1>5, <3>1, Pushed
    <3>3. /\ currentMax' \in 0 .. MaxLen /\ currentMax' >= currentMax
          /\ currentMax' >= lens[idx]
          /\ currentMax' = lens[idx] \/ (currentMax' = currentMax /\ currentMax > 0)
      BY <1>2, <1>3, <1>7, <3>1 DEF NewMax, idx
    <3>4. \A i \in Range(current) : i \in Texts
      BY <1>2 DEF Range
    <3>5. IsMax(lens, current', currentMax')
      <4>1. CASE current = <<>>
        <5>1. Range(current') = {idx} /\ currentMax' = lens[idx]
          BY <1>2, <1>4, <3>2, <3>3, <4>1, ListEmpty
        <5>. QED
          BY <1>7, <5>1 DEF IsMax
      <4>2. CASE current # <<>>
        <5>1. /\ \E i \in Range(current) : currentMax = lens[i]
              /\ \A i \in Range(current) : lens[i] <= currentMax
          BY <1>4, <4>2 DEF SoundWith, IsMax
        <5>2. \E i \in Range(current') : currentMax' = lens[i]
          BY <3>2, <3>3, <5>1
        <5>3. \A i \in Range(current') : lens[i] <= currentMax'
          BY <1>2, <1>3, <1>7, <3>2, <3>3, <3>4, <5>1
        <5>. QED
          BY <5>2, <5>3 DEF IsMax
      <4>. QED
        BY <4>1, <4>2
    <3>6. Len(current') > 1 => ChunkCost(Len(current'), currentMax') <= budget
      <4>1. Len(current') > 1 => current # <<>>
        BY <1>2, <3>2
      <4>. QED
        BY <2>1, <3>1, <3>2, <4>1 DEF Joins, Fits
    <3>. QED
      BY <1>2, <1>4, <3>1, <3>2, <3>3, <3>5, <3>6 DEF SoundWith
  <2>2. CASE ~Joins
    <3>1. /\ current' = <<idx>> /\ currentMax' = lens[idx]
          /\ chunks' = Append(chunks, current) /\ current # <<>>
      BY <2>2 DEF Pack, Joins, idx
    <3>2. Sound(lens, budget, current)
      BY <1>2, <1>4, <3>1 DEF Sound
    <3>3. /\ chunks' \in Seq(Seq(Texts))
          /\ Listed(chunks') = Listed(chunks) \cup Range(current)
          /\ AllSound(lens, budget, chunks')
      BY <1>2, <1>4, <3>1, <3>2, ListPushed
    <3>4. /\ current' \in Seq(Texts) /\ current' # <<>> /\ Len(current') = 1
          /\ Range(current') = {idx}
      BY <1>5, <3>1 DEF Range
    <3>5. SoundWith(lens, budget, current', currentMax')
      BY <1>7, <3>1, <3>4 DEF SoundWith, IsMax
    <3>. QED
      BY <1>2, <1>7, <3>1, <3>3, <3>4, <3>5
  <2>. QED
    BY <2>1, <2>2
<1>9. Range(sorted') = Range(Tail(sorted))
  BY <1>1
<1>10. Texts \subseteq Range(sorted') \cup Range(current') \cup Listed(chunks')
  BY <1>4, <1>5, <1>8, <1>9
<1>11. ScanInv'
  BY <1>1, <1>6, <1>8, <1>10 DEF ScanInv
<1>12. TypeOK'
  BY <1>1, <1>2, <1>5, <1>6, <1>8 DEF TypeOK
<1>13. RunsInv'
  BY <1>1, <1>2, <1>6 DEF RunsInv, AllAdmitted, Admit
<1>14. RunInv' /\ EveryTextEmbedded' /\ RefusedUnrun'
  BY <1>1 DEF RunInv, EveryTextEmbedded, RefusedUnrun
<1>. QED
  BY <1>11, <1>12, <1>13, <1>14 DEF BatchInv

\* The sort loses no text.
LEMMA StepSort ==
  ASSUME BatchInv, Sort
  PROVE  BatchInv'
<1>1. /\ pc' = "pack" /\ current' = <<>> /\ currentMax' = 0 /\ chunks' = <<>>
      /\ UNCHANGED <<lens, ceiling, budget, attempt, runs, embeddings>>
      /\ sorted' \in SortedOrders
  BY DEF Sort
<1>2. TypeOK /\ RunsInv /\ Texts' = Texts
  BY <1>1 DEF BatchInv, Texts
<1>3. Len(lens) \in Nat /\ Texts = 1 .. Len(lens) /\ MaxLen \in Nat
  BY <1>2, Request, BatchAssumption DEF Texts
<1>4. /\ sorted' \in [Texts -> Texts]
      /\ \A t \in Texts : \E i \in Texts : sorted'[i] = t
  BY <1>1 DEF SortedOrders, Surjection
<1>5. sorted' \in Seq(Texts) /\ Texts \subseteq Range(sorted')
  <2>1. Texts \subseteq Range(sorted')
    BY <1>4 DEF Range
  <2>2. sorted' \in [1 .. Len(lens) -> Texts]
    BY <1>3, <1>4
  <2>3. sorted' \in Seq(Texts)
    BY <1>3, <2>2
  <2>. QED
    BY <2>1, <2>3
<1>6. ScanInv'
  BY <1>1, <1>2, <1>5, ListEmpty DEF ScanInv
<1>7. TypeOK'
  BY <1>1, <1>2, <1>3, <1>5 DEF TypeOK
<1>8. RunsInv'
  BY <1>1, <1>2 DEF RunsInv, AllAdmitted, Admit
<1>9. RunInv' /\ EveryTextEmbedded' /\ RefusedUnrun'
  BY <1>1 DEF RunInv, EveryTextEmbedded, RefusedUnrun
<1>. QED
  BY <1>6, <1>7, <1>8, <1>9 DEF BatchInv

\* A text no longer than one the guard admits is admitted.
LEMMA AdmitShorter ==
  ASSUME TypeOK, NEW x \in Nat, NEW y \in Nat, x <= y, Admit(y)
  PROVE  Admit(x)
BY BatchAssumption DEF TypeOK, Admit

\* The guard sees every text, and decides by the longest one of a chunk.
LEMMA StepGuard ==
  ASSUME BatchInv, Guard
  PROVE  BatchInv'
<1>1. /\ pc = "pack" /\ sorted = <<>> /\ current' = <<>> /\ currentMax' = 0
      /\ UNCHANGED <<lens, ceiling, budget, attempt, sorted, runs>>
  BY DEF Guard
<1>2. /\ TypeOK /\ ScanInv /\ RunsInv
      /\ current \in Seq(Texts) /\ chunks \in Seq(Seq(Texts))
      /\ currentMax \in 0 .. MaxLen /\ MaxLen \in Nat
  BY BatchAssumption DEF BatchInv, TypeOK
<1>3. /\ 1 \in Texts /\ \A i \in Texts : lens[i] \in Nat
      /\ Texts = 1 .. Len(lens) /\ Len(lens) \in Nat
  BY <1>2, Request DEF Texts
<1>4. /\ Texts \subseteq Range(current) \cup Listed(chunks)
      /\ current # <<>> => SoundWith(lens, budget, current, currentMax)
      /\ AllSound(lens, budget, chunks)
  BY <1>1, <1>2, ListEmpty DEF ScanInv
<1> DEFINE cs == Packed
<1>5. /\ cs \in Seq(Seq(Texts)) /\ Texts \subseteq Listed(cs)
      /\ AllSound(lens, budget, cs) /\ cs # <<>>
  <2>1. CASE current = <<>>
    <3>1. cs = chunks /\ Texts \subseteq Listed(cs)
      BY <1>4, <2>1, ListEmpty DEF Packed
    <3>2. cs # <<>>
      BY <1>3, <3>1, ListEmpty
    <3>. QED
      BY <1>2, <1>4, <3>1, <3>2
  <2>2. CASE current # <<>>
    <3>1. Sound(lens, budget, current)
      BY <1>2, <1>4, <2>2 DEF Sound
    <3>2. cs = Append(chunks, current)
      BY <2>2 DEF Packed
    <3>3. cs # <<>>
      BY <1>2, <3>2
    <3>. QED
      BY <1>2, <1>4, <3>1, <3>2, <3>3, ListPushed
  <2>. QED
    BY <2>1, <2>2
<1> HIDE DEF cs
<1>6. ASSUME NEW k \in 1 .. Len(cs)
      PROVE  /\ IsMax(lens, cs[k], ChunkMax(cs[k])) /\ ChunkMax(cs[k]) \in Nat
             /\ Range(cs[k]) \subseteq Texts
  <2>1. cs[k] \in Seq(Texts)
    BY <1>5
  <2>2. Range(cs[k]) \subseteq Texts
    BY <2>1 DEF Range
  <2>3. PICK m \in 0 .. MaxLen : IsMax(lens, cs[k], m)
    BY <1>5 DEF AllSound, Sound, SoundWith
  <2>4. ChunkMax(cs[k]) = m
    BY <1>2, <1>3, <2>2, <2>3, MaxIsChunkMax
  <2>. QED
    BY <1>2, <2>2, <2>3, <2>4
<1>7. UNCHANGED <<Texts, Empty>>
  BY <1>1 DEF Texts, Empty
<1>8. CASE GuardChunks(cs)
  <2>1. chunks' = cs /\ embeddings' = Empty /\ pc' = "run"
    BY <1>8 DEF Guard, cs
  <2>2. ASSUME NEW i \in Texts
        PROVE  Admit(lens[i])
    <3>1. PICK k \in 1 .. Len(cs) : i \in Range(cs[k])
      BY <1>5 DEF Listed
    <3>2. Admit(ChunkMax(cs[k])) /\ lens[i] <= ChunkMax(cs[k])
      BY <1>6, <1>8, <3>1 DEF GuardChunks, IsMax
    <3>. QED
      BY <1>2, <1>3, <1>6, <3>2, AdmitShorter
  <2>3. AllAdmitted'
    BY <1>1, <1>7, <2>2 DEF AllAdmitted, Admit
  <2>4. RunInv'
    BY <1>1, <1>5, <1>7, <2>1, <2>3 DEF RunInv
  <2>5. TypeOK'
    <3>1. embeddings' \in [Texts -> 0 .. Len(lens)]
      BY <1>3, <2>1 DEF Empty
    <3>. QED
      BY <1>1, <1>2, <1>5, <1>7, <2>1, <3>1 DEF TypeOK
  <2>6. RunsInv'
    BY <1>1, <1>2, <2>3 DEF RunsInv
  <2>7. ScanInv' /\ EveryTextEmbedded' /\ RefusedUnrun'
    BY <2>1 DEF ScanInv, EveryTextEmbedded, RefusedUnrun
  <2>. QED
    BY <2>4, <2>5, <2>6, <2>7 DEF BatchInv
<1>9. CASE ~GuardChunks(cs)
  <2>1. pc' = "rejected" /\ chunks' = chunks /\ embeddings' = embeddings
    BY <1>9 DEF Guard, cs
  <2>2. PICK k \in 1 .. Len(cs) : ~Admit(ChunkMax(cs[k]))
    BY <1>9 DEF GuardChunks
  <2>3. PICK i \in Range(cs[k]) : ChunkMax(cs[k]) = lens[i]
    BY <1>6 DEF IsMax
  <2>4. ~AllAdmitted
    BY <1>6, <2>2, <2>3 DEF AllAdmitted
  <2>5. runs = <<>>
    BY <1>2, <2>4 DEF RunsInv
  <2>6. TypeOK'
    BY <1>1, <1>2, <1>7, <2>1 DEF TypeOK
  <2>7. RunsInv'
    BY <1>1, <1>2, <2>5 DEF RunsInv
  <2>8. ScanInv' /\ RunInv' /\ EveryTextEmbedded' /\ RefusedUnrun'
    BY <1>1, <2>1, <2>5 DEF ScanInv, RunInv, EveryTextEmbedded, RefusedUnrun
  <2>. QED
    BY <2>6, <2>7, <2>8 DEF BatchInv
<1>. QED
  BY <1>8, <1>9

\* A run is of a sound chunk, and is added to the runs as such.
LEMMA StepRuns ==
  ASSUME BatchInv, pc = "run", UNCHANGED <<lens, ceiling>>,
         runs' = Append(runs, [chunk |-> Head(chunks), budget |-> budget])
  PROVE  RunsInv' /\ runs' \in Seq([chunk : Seq(Texts), budget : Nat])
<1>1. /\ TypeOK /\ RunsInv /\ AllAdmitted /\ AllSound(lens, budget, chunks)
      /\ chunks # <<>> /\ chunks \in Seq(Seq(Texts)) /\ budget \in Nat
      /\ runs \in Seq([chunk : Seq(Texts), budget : Nat])
  BY DEF BatchInv, RunInv, TypeOK
<1>2. Sound(lens, budget, Head(chunks)) /\ Head(chunks) \in Seq(Texts)
  BY <1>1, ListPopped
<1> DEFINE run == [chunk |-> Head(chunks), budget |-> budget]
<1>3. run \in [chunk : Seq(Texts), budget : Nat] /\ run.chunk = Head(chunks) /\ run.budget = budget
  BY <1>1, <1>2
<1>4. runs' = Append(runs, run)
  OBVIOUS
<1> HIDE DEF run
<1>5. /\ runs' \in Seq([chunk : Seq(Texts), budget : Nat]) /\ Len(runs') = Len(runs) + 1
      /\ Len(runs) \in Nat /\ runs'[Len(runs) + 1] = run
      /\ \A k \in 1 .. Len(runs) : runs'[k] = runs[k]
  BY <1>1, <1>3, <1>4
<1>6. ASSUME NEW k \in 1 .. Len(runs')
      PROVE  Sound(lens', runs'[k].budget, runs'[k].chunk)
  <2>1. CASE k \in 1 .. Len(runs)
    <3>1. runs'[k] = runs[k]
      BY <1>5, <2>1
    <3>2. Sound(lens, runs[k].budget, runs[k].chunk)
      BY <1>1, <2>1 DEF RunsInv
    <3>. QED
      BY <3>1, <3>2
  <2>2. CASE k = Len(runs) + 1
    BY <1>2, <1>3, <1>5, <2>2
  <2>. QED
    BY <1>5, <1>6, <2>1, <2>2
<1>7. AllAdmitted'
  BY <1>1 DEF AllAdmitted, Admit, Texts
<1>. QED
  BY <1>5, <1>6, <1>7 DEF RunsInv

\* A run fills the slots of its chunk's texts, each with its own.
LEMMA StepRunChunk ==
  ASSUME BatchInv, RunChunk
  PROVE  BatchInv'
<1>1. /\ pc = "run" /\ embeddings' = Scatter(Head(chunks), Rows(Head(chunks)))
      /\ chunks' = Tail(chunks)
      /\ runs' = Append(runs, [chunk |-> Head(chunks), budget |-> budget])
      /\ pc' = IF Tail(chunks) = <<>> THEN "ok" ELSE "run"
      /\ UNCHANGED <<lens, ceiling, budget, attempt, packVars>>
  BY DEF RunChunk
<1>2. /\ TypeOK /\ AllAdmitted /\ AllSound(lens, budget, chunks)
      /\ chunks # <<>> /\ chunks \in Seq(Seq(Texts))
      /\ embeddings \in [Texts -> 0 .. Len(lens)]
      /\ \A i \in Texts \ Listed(chunks) : embeddings[i] = i
  BY <1>1 DEF BatchInv, RunInv, TypeOK
<1>3. Texts = 1 .. Len(lens) /\ Len(lens) \in Nat
  BY <1>2, Request DEF Texts
<1> DEFINE chunk == Head(chunks)
<1>4. /\ chunk \in Seq(Texts) /\ Tail(chunks) \in Seq(Seq(Texts))
      /\ Listed(chunks) = Range(chunk) \cup Listed(Tail(chunks))
      /\ AllSound(lens, budget, Tail(chunks))
  BY <1>2, ListPopped
<1>5. Texts' = Texts
  BY <1>1 DEF Texts
<1> HIDE DEF chunk
<1>6. ASSUME NEW i \in Texts
      PROVE  /\ embeddings'[i] \in 0 .. Len(lens)
             /\ i \in Range(chunk) => embeddings'[i] = i
             /\ i \notin Range(chunk) => embeddings'[i] = embeddings[i]
  <2>1. embeddings'[i] = IF i \in Range(chunk)
                         THEN Rows(chunk)[CHOOSE j \in 1 .. Len(chunk) : chunk[j] = i]
                         ELSE embeddings[i]
    BY <1>1 DEF Scatter, chunk
  <2>2. CASE i \in Range(chunk)
    <3> DEFINE j == CHOOSE j \in 1 .. Len(chunk) : chunk[j] = i
    <3>1. \E j0 \in 1 .. Len(chunk) : chunk[j0] = i
      BY <1>4, <2>2 DEF Range
    <3>2. j \in 1 .. Len(chunk) /\ chunk[j] = i
      BY <3>1
    <3>3. embeddings'[i] = Rows(chunk)[j]
      BY <2>1, <2>2
    <3> HIDE DEF j
    <3>4. Rows(chunk)[j] = chunk[j]
      BY <3>2 DEF Rows
    <3>. QED
      BY <1>3, <2>2, <3>2, <3>3, <3>4
  <2>3. CASE i \notin Range(chunk)
    BY <1>2, <2>1, <2>3
  <2>. QED
    BY <2>2, <2>3
<1>7. embeddings' \in [Texts -> 0 .. Len(lens)]
  <2>1. embeddings' = [i \in Texts |-> embeddings'[i]]
    BY <1>1 DEF Scatter
  <2>. QED
    BY <1>6, <2>1
<1>8. \A i \in Texts \ Listed(Tail(chunks)) : embeddings'[i] = i
  BY <1>2, <1>4, <1>6
<1>9. RunsInv' /\ runs' \in Seq([chunk : Seq(Texts), budget : Nat])
  BY <1>1, StepRuns
<1>10. TypeOK'
  BY <1>1, <1>2, <1>4, <1>5, <1>7, <1>9 DEF TypeOK, packVars
<1>11. AllAdmitted'
  BY <1>1, <1>2, <1>5 DEF AllAdmitted, Admit
<1>12. RunInv'
  BY <1>1, <1>4, <1>5, <1>8, <1>11 DEF RunInv
<1>13. EveryTextEmbedded'
  BY <1>1, <1>5, <1>8, ListEmpty DEF EveryTextEmbedded
<1>14. ScanInv' /\ RefusedUnrun'
  BY <1>1 DEF ScanInv, RefusedUnrun
<1>. QED
  BY <1>9, <1>10, <1>12, <1>13, <1>14 DEF BatchInv

\* A run that fails ends the request, or sends it back with a budget of half.
LEMMA StepRunFails ==
  ASSUME BatchInv, RunFails
  PROVE  BatchInv'
<1>1. /\ pc = "run" /\ UNCHANGED <<lens, ceiling, packVars, chunks, embeddings>>
      /\ runs' = Append(runs, [chunk |-> Head(chunks), budget |-> budget])
      /\ pc' \in {"sort", "err"}
      /\ \/ attempt' = 2 /\ budget' = Halved
         \/ UNCHANGED <<attempt, budget>>
  BY DEF RunFails
<1>2. RunsInv' /\ runs' \in Seq([chunk : Seq(Texts), budget : Nat])
  BY <1>1, StepRuns
<1>3. TypeOK /\ Texts' = Texts /\ budget \in Nat
  BY <1>1 DEF BatchInv, TypeOK, Texts
<1>4. Halved \in Nat /\ Halved >= MinBudget
  BY <1>3, BatchAssumption DEF Halved
<1>5. TypeOK'
  BY <1>1, <1>2, <1>3, <1>4 DEF TypeOK, packVars
<1>6. ScanInv' /\ RunInv' /\ EveryTextEmbedded' /\ RefusedUnrun'
  BY <1>1 DEF ScanInv, RunInv, EveryTextEmbedded, RefusedUnrun
<1>. QED
  BY <1>2, <1>5, <1>6 DEF BatchInv

-----------------------------------------------------------------------------
(* The theorems *)

\* A request before its first attempt.
LEMMA InitBatch == Init => BatchInv
<1> SUFFICES ASSUME Init
             PROVE  BatchInv
  OBVIOUS
<1>1. PICK k \in 1 .. MaxTexts : lens \in [1 .. k -> 1 .. MaxLen]
  BY DEF Init
<1>2. k \in Nat /\ MaxLen \in Nat
  BY BatchAssumption
<1>3. Len(lens) \in Nat
  BY <1>1, <1>2
<1>4. embeddings \in [Texts -> 0 .. Len(lens)]
  BY <1>3 DEF Init, Empty
<1>5. TypeOK
  BY <1>2, <1>4, BatchAssumption DEF Init, TypeOK
<1>6. ScanInv /\ RunInv /\ RunsInv /\ EveryTextEmbedded /\ RefusedUnrun
  BY DEF Init, ScanInv, RunInv, RunsInv, EveryTextEmbedded, RefusedUnrun
<1>. QED
  BY <1>5, <1>6 DEF BatchInv

\* The inductive invariant of a request, through its packing, its runs and its retry.
THEOREM BatchInvariant == Spec => []BatchInv
<1>1. ASSUME BatchInv, [Next]_vars
      PROVE  BatchInv'
  <2>1. CASE TokenizeFails
    <3>1. pc' = "err" /\ UNCHANGED <<lens, ceiling, budget, attempt, packVars, chunks, runs, embeddings>>
      BY <2>1 DEF TokenizeFails
    <3>2. TypeOK'
      BY <1>1, <3>1 DEF BatchInv, TypeOK, packVars, Texts
    <3>3. RunsInv'
      BY <1>1, <3>1 DEF BatchInv, RunsInv, AllAdmitted, Admit, Texts
    <3>. QED
      BY <3>1, <3>2, <3>3 DEF BatchInv, ScanInv, RunInv, EveryTextEmbedded, RefusedUnrun
  <2>2. CASE UNCHANGED vars
    <3>1. TypeOK' /\ Texts' = Texts
      BY <1>1, <2>2 DEF BatchInv, TypeOK, vars, packVars, Texts
    <3>2. AllAdmitted' <=> AllAdmitted
      BY <2>2, <3>1 DEF AllAdmitted, Admit, vars
    <3>3. ScanInv'
      BY <1>1, <2>2, <3>1 DEF BatchInv, ScanInv, vars, packVars
    <3>4. RunInv' /\ RunsInv'
      BY <1>1, <2>2, <3>1, <3>2 DEF BatchInv, RunInv, RunsInv, vars
    <3>5. EveryTextEmbedded' /\ RefusedUnrun'
      BY <1>1, <2>2, <3>1 DEF BatchInv, EveryTextEmbedded, RefusedUnrun, vars
    <3>. QED
      BY <3>1, <3>3, <3>4, <3>5 DEF BatchInv
  <2>. QED
    BY <1>1, <2>1, <2>2, StepSort, StepPack, StepGuard, StepRunChunk, StepRunFails
       DEF Next
<1>. QED
  BY <1>1, InitBatch, PTL DEF Spec

\* Types, and the floor of a halved budget (trt_retry.rs).
THEOREM BatchTypeCorrect == Spec => []TypeOK
<1>1. BatchInv => TypeOK
  BY DEF BatchInv
<1>. QED
  BY <1>1, BatchInvariant, PTL

\* bin_pack, for requests of every size, every cost model and every order of ties:
\* a chunk of several texts, padded to its longest, fits the budget it was packed for.
THEOREM ChunksFit == Spec => []RunsFit
<1>1. ASSUME BatchInv
      PROVE  RunsFit
  <2>1. SUFFICES ASSUME NEW k \in 1 .. Len(runs), Len(runs[k].chunk) > 1
                 PROVE  ChunkCost(Len(runs[k].chunk), ChunkMax(runs[k].chunk)) <= runs[k].budget
    BY DEF RunsFit
  <2>2. PICK m \in 0 .. MaxLen : SoundWith(lens, runs[k].budget, runs[k].chunk, m)
    BY <1>1 DEF BatchInv, RunsInv, Sound
  <2>3. runs[k].chunk \in Seq(Texts)
    <3> DEFINE Run == [chunk : Seq(Texts), budget : Nat]
    <3>1. runs \in Seq(Run)
      BY <1>1 DEF BatchInv, TypeOK
    <3>2. k \in 1 .. Len(runs)
      BY <2>1
    <3> HIDE DEF Run
    <3>3. runs[k] \in Run
      BY <3>1, <3>2
    <3>. QED
      BY <3>3 DEF Run
  <2>4. Range(runs[k].chunk) \subseteq Texts
    BY <2>3 DEF Range
  <2>5. \A i \in Range(runs[k].chunk) : lens[i] \in Int
    BY <1>1, <2>4, Request DEF BatchInv
  <2>6. ChunkMax(runs[k].chunk) = m
    BY <2>2, <2>5, BatchAssumption, MaxIsChunkMax DEF SoundWith
  <2>. QED
    BY <2>1, <2>2, <2>6 DEF SoundWith
<1>. QED
  BY <1>1, BatchInvariant, PTL

\* embed_dense, embed_sparse, embed_both, for requests of every size: the answer has
\* every text's own embedding in its own slot, after a retry too.
THEOREM EmbeddingsInOrder == Spec => []EveryTextEmbedded
<1>1. BatchInv => EveryTextEmbedded
  BY DEF BatchInv
<1>. QED
  BY <1>1, BatchInvariant, PTL

\* guard_chunks, for every guard: a refused request has run nothing, in neither of
\* its attempts.
THEOREM RefusalIsAtomic == Spec => []RefusedUnrun
<1>1. BatchInv => RefusedUnrun
  BY DEF BatchInv
<1>. QED
  BY <1>1, BatchInvariant, PTL

=============================================================================
