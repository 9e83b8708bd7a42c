---------------------------- MODULE TokenWeights ----------------------------
(***************************************************************************)
(* The PriFT token weights: _reference_weights of fsdp_dft_trainer.py,     *)
(* which runs the frozen reference on slices of the batch, and the         *)
(* functions of prift_weights.py, which stream over slices of the          *)
(* vocabulary.  A row stands for a token position.  exp(logit - max) is a  *)
(* number of 0..MaxE: what the weights depend on is the order of the       *)
(* values, their sums, ties, and underflow to 0.                           *)
(***************************************************************************)
EXTENDS Integers, Sequences, SequencesExt, FiniteSetsExt, Functions

CONSTANTS
    NRows,        \* bsz: rows of the batch
    V,            \* size of the vocabulary
    MaxE,         \* bound: exp(0), the largest value
    Dists,        \* bound: the distributions a row may have
    RefChunks,    \* loss.reference_micro_batch_size: 0 for null
    VocabChunks,  \* loss.mass_vocab_chunk: 0 for null
    Threshold,    \* loss.mass_threshold as <<numerator, denominator>>
    Methods

ASSUME SizeAssumption == NRows \in Nat \ {0} /\ V \in Nat \ {0} /\ MaxE \in Nat \ {0}
ASSUME DistAssumption ==
    \A f \in Dists : f \in [0..(V - 1) -> 0..MaxE] /\ \E v \in 0..(V - 1) : f[v] = MaxE
ASSUME ChunkAssumption == RefChunks \subseteq Int /\ VocabChunks \subseteq Int
ASSUME ThresholdAssumption == Threshold \in Int \X (Nat \ {0})

Row == 0..(NRows - 1)
Token == 0..(V - 1)

VARIABLES
    e,            \* e[r][v]: exp(logit - max) of the reference
    target,       \* target[r]: the label
    method, refChunk, vocabChunk,
    pc,           \* "rows" and "vocab", the two loops, and "done"
    s, c,         \* the loop counters: first row, first token of the slice
    denom, masked,\* sums over the tokens seen, per row of the slice
    weights       \* what has been appended, a number <<n, d>> per row

vars == <<e, target, method, refChunk, vocabChunk, pc, s, c, denom, masked,
          weights>>
input == <<e, target, method, refChunk, vocabChunk>>

ChunkOf(chunk, full) == Max({1, IF chunk = 0 THEN full ELSE chunk})

Slice(first, size, n) == first..(Min({first + size, n}) - 1)
Rows == Slice(s, ChunkOf(refChunk, NRows), NRows)
Tokens == Slice(c, ChunkOf(vocabChunk, V), V)

Init ==
    /\ e \in [Row -> Dists]
    /\ target \in [Row -> Token]
    /\ method \in Methods
    /\ refChunk \in RefChunks
    /\ vocabChunk \in VocabChunks
    /\ pc = "rows" /\ s = 0 /\ c = 0
    /\ denom = [r \in Row |-> 0]
    /\ masked = [r \in Row |-> 0]
    /\ weights = <<>>

Yield(w) == weights' = weights \o [i \in 1..Cardinality(Rows) |-> w[s + i - 1]]

\* One forward pass of the reference; prift_prob needs nothing but the
\* target's probability.
TargetProb(r) == <<e[r][target[r]], SumFunction(e[r])>>
Prob ==
    /\ pc = "rows" /\ s < NRows /\ method = "prift_prob"
    /\ Yield([r \in Rows |-> TargetProb(r)])
    /\ s' = s + ChunkOf(refChunk, NRows)
    /\ UNCHANGED <<input, pc, c, denom, masked>>

StartMass ==
    /\ pc = "rows" /\ s < NRows /\ method = "prift_mass"
    /\ pc' = "vocab" /\ c' = 0
    /\ denom' = [r \in Row |-> 0]
    /\ masked' = [r \in Row |-> 0]
    /\ UNCHANGED <<input, s, weights>>

\* Mutant: "<=", which counts the target itself, and every tie.
BelowOrEqual(r, v) == e[r][v] <= e[r][target[r]]
\* Mutant: the mass above the target.
Above(r, v) == e[r][v] > e[r][target[r]]
\* Whether a token adds to the lower mass.
Below(r, v) == e[r][v] < e[r][target[r]]

StreamChunk ==
    /\ pc = "vocab" /\ c < V
    /\ denom' = [r \in Row |-> IF r \in Rows
          THEN denom[r] + SumFunctionOnSet(e[r], Tokens) ELSE denom[r]]
    /\ masked' = [r \in Row |-> IF r \in Rows
          THEN masked[r] + SumFunctionOnSet(e[r], {v \in Tokens : Below(r, v)})
          ELSE masked[r]]
    /\ c' = c + ChunkOf(vocabChunk, V)
    /\ UNCHANGED <<input, pc, s, weights>>

\* masked / denom + q(y) >= threshold.
Selected(r) == (masked[r] + e[r][target[r]]) * Threshold[2] >= Threshold[1] * denom[r]
Mass ==
    /\ pc = "vocab" /\ c >= V
    /\ Yield([r \in Rows |-> IF Selected(r) THEN <<1, 1>> ELSE <<0, 1>>])
    /\ s' = s + ChunkOf(refChunk, NRows)
    /\ pc' = "rows"
    /\ UNCHANGED <<input, c, denom, masked>>

Return ==
    /\ pc = "rows" /\ s >= NRows
    /\ pc' = "done"
    /\ UNCHANGED <<input, s, c, denom, masked, weights>>

Done == pc = "done" /\ UNCHANGED vars

Next == Prob \/ StartMass \/ StreamChunk \/ Mass \/ Return \/ Done

Spec == Init /\ [][Next]_vars

-----------------------------------------------------------------------------
(* Properties                                                              *)

Total(r) == SumFunction(e[r])
LowerMass(r) == SumFunctionOnSet(e[r], {v \in Token : e[r][v] < e[r][target[r]]})

\* The weights as the doc of prift_weights.py defines them, over the whole
\* vocabulary and one row at a time.
Reference(r) ==
    IF method = "prift_prob" THEN <<e[r][target[r]], Total(r)>>
    ELSE IF (LowerMass(r) + e[r][target[r]]) * Threshold[2] >= Threshold[1] * Total(r)
         THEN <<1, 1>> ELSE <<0, 1>>

\* Slicing the batch and the vocabulary changes nothing: what has been
\* appended is, row by row and in order, what the definition says, and in
\* the end there is a weight for every row.
ChunksDoNotMatter ==
    /\ \A i \in 1..Len(weights) : weights[i] = Reference(i - 1)
    /\ pc = "done" => Len(weights) = NRows

\* In one distribution a target is never dropped when one that is less
\* probable is kept.
MassIsMonotone ==
    method = "prift_mass" =>
        \A i, j \in 1..Len(weights) :
            /\ e[i-1] = e[j-1]
            /\ e[i-1][target[i-1]] >= e[j-1][target[j-1]]
            => weights[i][1] >= weights[j][1]
=============================================================================
