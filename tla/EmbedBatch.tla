------------------------------ MODULE EmbedBatch ------------------------------
(***************************************************************************)
(* One embedding request inside a worker: embed_dense, embed_sparse and    *)
(* embed_both (embedder/dense.rs, sparse.rs, dual.rs) with the length-     *)
(* sorted bin packer (binpack.rs), the in-band guard over its chunks       *)
(* (jit_guard.rs) and the retry with a halved budget (worker/trt_retry.rs).*)
(*                                                                         *)
(* A text is its index and its number of tokens, an embedding the index of *)
(* the text it was computed from.  The cost coefficients are integers.     *)
(***************************************************************************)
EXTENDS Integers, Sequences, Functions

CONSTANTS
  MaxTexts,     \* texts of a request, at least one (validate_input)
  MaxLen,       \* tokens of a text, at least one
  Budgets,      \* workspace budgets of the cost model
  MinBudget,    \* the floor of the halved budget (1 MiB in the code)
  LinearCost,   \* CostModel::a
  QuadCost,     \* CostModel::b
  GuardSeq,     \* guard_seq of the in-band guard
  Ceilings      \* readings of warmed_seq_ceiling

ASSUME BatchAssumption ==
  /\ MaxTexts \in Nat \ {0}
  /\ MaxLen \in Nat \ {0}
  /\ Budgets \subseteq Nat
  /\ MinBudget \in Nat \ {0}
  /\ LinearCost \in Nat
  /\ QuadCost \in Nat
  /\ GuardSeq \in Nat
  /\ Ceilings \subseteq Nat

VARIABLES
  pc,          \* "sort", "pack", "run", or the result: "ok", "err", "rejected"
  lens,        \* seq_lens
  ceiling,     \* the ceiling in the request's guard
  budget,      \* max_workspace_bytes of the attempt
  attempt,     \* the attempt of embed_with_trt_retry
  sorted,      \* the texts bin_pack has yet to scan, by their length
  current,     \* the chunk it is filling
  currentMax,  \* current_max_seq
  chunks,      \* the chunks it has filled, then those left to run
  runs,        \* the calls of session.run() made so far, all attempts
  embeddings   \* all_embeddings: the text each slot was computed from, 0 if empty

packVars == <<sorted, current, currentMax>>
vars     == <<pc, lens, ceiling, budget, attempt, packVars, chunks, runs, embeddings>>

Texts == 1 .. Len(lens)
Empty == [i \in Texts |-> 0]

-----------------------------------------------------------------------------
(* binpack.rs *)

\* CostModel::chunk_cost and fits.
ChunkCost(count, maxSeq) ==
  LinearCost * (count * maxSeq) + QuadCost * (count * maxSeq * maxSeq)

FitsWithoutNew(count, maxSeq) == ChunkCost(count - 1, maxSeq) <= budget

Fits(count, maxSeq) == ChunkCost(count, maxSeq) <= budget

\* sort_unstable_by_key: all texts, those of equal length in any order.
SortedOrders ==
  {f \in Surjection(Texts, Texts) : \A i, j \in Texts : i < j => lens[f[i]] <= lens[f[j]]}

\* The padded length of a chunk.
ChunkMax(chunk) == CHOOSE m \in {lens[i] : i \in Range(chunk)} :
                     \A i \in Range(chunk) : lens[i] <= m

-----------------------------------------------------------------------------
(* jit_guard.rs *)

Admit(seq) == ~(seq >= GuardSeq /\ seq > ceiling)

GuardFirstTexts(cs) == \A k \in 1 .. Len(cs) : Admit(lens[cs[k][1]])

\* guard_chunks: the request goes through when all of its chunks do.
GuardChunks(cs) == \A k \in 1 .. Len(cs) : Admit(ChunkMax(cs[k]))

-----------------------------------------------------------------------------
Init ==
  /\ pc = "sort"
  /\ lens \in UNION {[1 .. n -> 1 .. MaxLen] : n \in 1 .. MaxTexts}
  /\ ceiling \in Ceilings
  /\ budget \in Budgets
  /\ attempt = 1
  /\ sorted = <<>>
  /\ current = <<>>
  /\ currentMax = 0
  /\ chunks = <<>>
  /\ runs = <<>>
  /\ embeddings = Empty

\* An attempt begins: bin_pack sorts the texts.
Sort ==
  /\ pc = "sort"
  /\ sorted' \in SortedOrders
  /\ current' = <<>>
  /\ currentMax' = 0
  /\ chunks' = <<>>
  /\ pc' = "pack"
  /\ UNCHANGED <<lens, ceiling, budget, attempt, runs, embeddings>>

\* new_max, with the next text.
NewMax == IF lens[Head(sorted)] > currentMax THEN lens[Head(sorted)] ELSE currentMax

Joins == current = <<>> \/ Fits(Len(current) + 1, NewMax)

PackForgetsFlushed ==
  /\ pc = "pack"
  /\ sorted # <<>>
  /\ sorted' = Tail(sorted)
  /\ \/ /\ Joins
        /\ current' = Append(current, Head(sorted))
        /\ currentMax' = NewMax
        /\ UNCHANGED chunks
     \/ /\ ~Joins
        /\ chunks' = Append(chunks, current)
        /\ current' = <<>>
        /\ currentMax' = 0
  /\ UNCHANGED <<pc, lens, ceiling, budget, attempt, runs, embeddings>>

\* One text of the scan: it joins the current chunk, or flushes it and starts
\* the next.
Pack ==
  /\ pc = "pack"
  /\ sorted # <<>>
  /\ sorted' = Tail(sorted)
  /\ \/ /\ Joins
        /\ current' = Append(current, Head(sorted))
        /\ currentMax' = NewMax
        /\ UNCHANGED chunks
     \/ /\ ~Joins
        /\ chunks' = Append(chunks, current)
        /\ current' = <<Head(sorted)>>
        /\ currentMax' = lens[Head(sorted)]
  /\ UNCHANGED <<pc, lens, ceiling, budget, attempt, runs, embeddings>>

\* What bin_pack returns once every text is scanned.
Packed == IF current = <<>> THEN chunks ELSE Append(chunks, current)

\* guard_chunks, before anything is run.
Guard ==
  /\ pc = "pack"
  /\ sorted = <<>>
  /\ \/ /\ GuardChunks(Packed)
        /\ chunks' = Packed
        /\ embeddings' = Empty
        /\ pc' = "run"
     \/ /\ ~GuardChunks(Packed)
        /\ pc' = "rejected"
        /\ UNCHANGED <<chunks, embeddings>>
  /\ current' = <<>>
  /\ currentMax' = 0
  /\ UNCHANGED <<lens, ceiling, budget, attempt, sorted, runs>>

\* The tokenizer fails before anything is packed.
TokenizeFails ==
  /\ pc = "sort"
  /\ pc' = "err"
  /\ UNCHANGED <<lens, ceiling, budget, attempt, packVars, chunks, runs, embeddings>>

\* build_chunk_arrays: row j of the batch, hence of its output, is the text at
\* position j of the chunk.
Rows(chunk) == [j \in 1 .. Len(chunk) |-> chunk[j]]

\* The rows of the output go back to the slots of the texts they came from.
Scatter(chunk, rows) ==
  [i \in Texts |-> IF i \in Range(chunk) THEN rows[CHOOSE j \in 1 .. Len(chunk) : chunk[j] = i]
                   ELSE embeddings[i]]

\* session.run() of the next chunk; with the last one the request is answered.
RunChunk ==
  /\ pc = "run"
  /\ embeddings' = Scatter(Head(chunks), Rows(Head(chunks)))
  /\ chunks' = Tail(chunks)
  /\ runs' = Append(runs, [chunk |-> Head(chunks), budget |-> budget])
  /\ pc' = IF Tail(chunks) = <<>> THEN "ok" ELSE "run"
  /\ UNCHANGED <<lens, ceiling, budget, attempt, packVars>>

HalvedWithoutFloor == budget \div 2

Halved == IF budget \div 2 > MinBudget THEN budget \div 2 ELSE MinBudget

\* The run, or the extraction of its output, fails.  An allocation failure of
\* the first attempt (is_trt_jit_oom) is retried once, from the start.
RunFails ==
  /\ pc = "run"
  /\ runs' = Append(runs, [chunk |-> Head(chunks), budget |-> budget])
  /\ \/ /\ attempt = 1
        /\ attempt' = 2
        /\ budget' = Halved
        /\ pc' = "sort"
     \/ /\ pc' = "err"
        /\ UNCHANGED <<attempt, budget>>
  /\ UNCHANGED <<lens, ceiling, packVars, chunks, embeddings>>

Next == Sort \/ TokenizeFails \/ Pack \/ Guard \/ RunChunk \/ RunFails

Spec == Init /\ [][Next]_vars

-----------------------------------------------------------------------------
(* Properties *)

\* Type correctness; a retry, moreover, has the floor as its least budget.
TypeOK ==
  /\ pc \in {"sort", "pack", "run", "ok", "err", "rejected"}
  /\ lens \in UNION {[1 .. n -> 1 .. MaxLen] : n \in 1 .. MaxTexts}
  /\ ceiling \in Nat
  /\ budget \in Nat
  /\ attempt \in {1, 2}
  /\ attempt = 2 => budget >= MinBudget
  /\ sorted \in Seq(Texts)
  /\ current \in Seq(Texts)
  /\ currentMax \in 0 .. MaxLen
  /\ chunks \in Seq(Seq(Texts))
  /\ runs \in Seq([chunk : Seq(Texts), budget : Nat])
  /\ embeddings \in [Texts -> 0 .. Len(lens)]

\* No run asks for more workspace than the budget of its attempt allows, however
\* ties are sorted and also after the halving, unless it is of a single text,
\* which no packing can make smaller.
RunsFit ==
  \A k \in 1 .. Len(runs) :
    LET chunk == runs[k].chunk IN
    Len(chunk) > 1 => ChunkCost(Len(chunk), ChunkMax(chunk)) <= runs[k].budget

\* A request that is answered has an embedding in every slot, and in each slot
\* the one of its own text, although the texts were run in another order.
EveryTextEmbedded == pc = "ok" => \A i \in Texts : embeddings[i] = i

\* A refusal is atomic: nothing has been run, in this attempt or, since the
\* longest text decides in both, in one before it.
RefusedUnrun == pc = "rejected" => runs = <<>>

=============================================================================
