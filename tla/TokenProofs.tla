---------------------------- MODULE TokenProofs -----------------------------
(***************************************************************************)
(* Theorems about TokenWeights, for any batch, vocabulary, chunk sizes and *)
(* distributions, and about TokenLoss, where the weights go, for any ranks *)
(* and micro batches.                                                      *)
(***************************************************************************)
EXTENDS TokenWeights, TokenLoss, SumTheorems

-----------------------------------------------------------------------------
(* The weights.                                                            *)

\* Where a loop over n that is at a is, its last slice being cut off.
End(a, n) == IF a < n THEN a ELSE n

Weight == Nat \X Nat

Types ==
    /\ e \in [Row -> Dists] /\ target \in [Row -> Token]
    /\ refChunk \in RefChunks /\ vocabChunk \in VocabChunks
    /\ pc \in {"rows", "vocab", "done"}
    /\ s \in Nat /\ c \in Nat /\ weights \in Seq(Weight)

\* The rows seen so far have their weights, and each row of the slice has the
\* sums over the tokens seen so far.
Seen(r) == 0 .. End(c, V) - 1
StreamInv ==
    /\ Len(weights) = End(s, NRows)
    /\ \A i \in 1 .. Len(weights) : weights[i] = Reference(i - 1)
    /\ pc = "vocab" =>
          /\ s < NRows /\ method = "prift_mass"
          /\ \A r \in Rows :
                /\ denom[r] = SumFunctionOnSet(e[r], Seen(r))
                /\ masked[r] = SumFunctionOnSet(e[r], {v \in Seen(r) : Below(r, v)})
    /\ pc = "done" => s >= NRows

WeightInv == Types /\ StreamInv

LEMMA ChunksHold == ASSUME NEW n \in Nat \ {0}, NEW x \in Int PROVE ChunkOf(x, n) \in Nat \ {0}
<1> DEFINE y == IF x = 0 THEN n ELSE x
           S == {1, y}
<1>1. \E m \in S : \A k \in S : m >= k
  <2>1. y \in Int
    OBVIOUS
  <2> HIDE DEF y
  <2> QED
    BY <2>1
<1>2. Max(S) \in S /\ \A k \in S : Max(S) >= k
  BY <1>1 DEF Max
<1>3. ChunkOf(x, n) = Max(S)
  BY DEF ChunkOf
<1> HIDE DEF y
<1> QED
  BY <1>2, <1>3 DEF y

LEMMA SlicesHold ==
    ASSUME NEW a \in Nat, NEW size \in Nat \ {0}, NEW n \in Nat \ {0}, a < n
    PROVE  /\ Slice(a, size, n) = a .. End(a + size, n) - 1
           /\ End(a + size, n) \in a + 1 .. n /\ a + size \in Nat
           /\ End(a, n) = a
<1> DEFINE S == {a + size, n}
<1>1. \E m \in S : \A k \in S : m <= k
  OBVIOUS
<1>2. Min(S) \in S /\ \A k \in S : Min(S) <= k
  BY <1>1 DEF Min
<1>3. Min(S) = End(a + size, n)
  BY <1>2 DEF End
<1> QED
  BY <1>3 DEF Slice, End

LEMMA RowsHold ==
    ASSUME WeightInv, s < NRows
    PROVE  /\ Rows = s .. End(s + ChunkOf(refChunk, NRows), NRows) - 1
           /\ End(s + ChunkOf(refChunk, NRows), NRows) \in s + 1 .. NRows
           /\ s + ChunkOf(refChunk, NRows) \in Nat /\ End(s, NRows) = s
           /\ Rows \subseteq Row
<1>1. ChunkOf(refChunk, NRows) \in Nat \ {0} /\ NRows \in Nat \ {0} /\ s \in Nat
  BY SizeAssumption, ChunkAssumption, ChunksHold DEF WeightInv, Types
<1> DEFINE size == ChunkOf(refChunk, NRows)
<1> HIDE DEF size
<1>2. /\ Slice(s, size, NRows) = s .. End(s + size, NRows) - 1
      /\ End(s + size, NRows) \in s + 1 .. NRows
      /\ s + size \in Nat /\ End(s, NRows) = s
  <2>1. \A a, n \in Nat, z \in Nat \ {0} : n # 0 /\ a < n =>
            /\ Slice(a, z, n) = a .. End(a + z, n) - 1
            /\ End(a + z, n) \in a + 1 .. n /\ a + z \in Nat /\ End(a, n) = a
    BY SlicesHold
  <2>2. size \in Nat \ {0}
    BY <1>1 DEF size
  <2> QED
    BY <1>1, <2>1, <2>2
<1> QED
  BY <1>1, <1>2 DEF Rows, Row, size

\* The values of a distribution over a set of tokens.
LEMMA Values ==
    ASSUME WeightInv, NEW r \in Row, NEW S, S \subseteq Token
    PROVE  /\ e[r] \in [Token -> Nat] /\ target[r] \in Token
           /\ IsFiniteSet(S) /\ \A v \in S : e[r][v] \in Nat
           /\ SumFunctionOnSet(e[r], S) \in Nat
<1>1. e[r] \in [Token -> 0..MaxE] /\ target[r] \in Token
  BY DistAssumption DEF WeightInv, Types, Token
<1>2. IsFiniteSet(Token)
  BY SizeAssumption, FS_Interval DEF Token
<1>3. IsFiniteSet(S)
  BY <1>2, FS_Subset
<1>4. \A v \in S : e[r][v] \in Nat
  BY <1>1, SizeAssumption
<1>5. SumFunctionOnSet(e[r], S) \in Nat
  BY <1>3, <1>4, SumType
<1> QED
  BY <1>1, <1>3, <1>4, <1>5, SizeAssumption

LEMMA Totals ==
    ASSUME WeightInv, NEW r \in Row
    PROVE  Total(r) = SumFunctionOnSet(e[r], Token) /\ Total(r) \in Nat /\ LowerMass(r) \in Nat
<1>1. DOMAIN e[r] = Token /\ SumFunctionOnSet(e[r], Token) \in Nat
  BY Values
<1>2. {v \in Token : e[r][v] < e[r][target[r]]} \subseteq Token
  OBVIOUS
<1>3. LowerMass(r) \in Nat
  BY <1>2, Values DEF LowerMass
<1> QED
  BY <1>1, <1>3 DEF Total, SumFunction

LEMMA ReferenceType ==
    ASSUME WeightInv, NEW r \in Row PROVE Reference(r) \in Weight
<1>1. e[r][target[r]] \in Nat /\ Total(r) \in Nat
  <2>1. e[r] \in [Token -> Nat] /\ target[r] \in Token
    BY Values
  <2> QED
    BY <2>1, Totals
<1> QED
  BY <1>1 DEF Reference, Weight

LEMMA InitWeightInv == Init => WeightInv
<1> SUFFICES ASSUME Init PROVE WeightInv
  OBVIOUS
<1>1. Types
  BY DEF Init, Types
<1>2. StreamInv
  BY SizeAssumption DEF Init, StreamInv, End
<1> QED
  BY <1>1, <1>2 DEF WeightInv

\* The weights of a slice of rows are appended.
LEMMA RowsYield ==
    ASSUME WeightInv, s < NRows, UNCHANGED input, pc' = "rows",
           NEW w, Yield(w), \A r \in Rows : w[r] = Reference(r),
           s' = s + ChunkOf(refChunk, NRows), c' = c
    PROVE  WeightInv'
<1> DEFINE to == End(s + ChunkOf(refChunk, NRows), NRows)
<1>1. /\ Rows = s .. to - 1 /\ to \in s + 1 .. NRows /\ s' \in Nat
      /\ End(s, NRows) = s /\ Rows \subseteq Row /\ s \in Nat /\ NRows \in Nat
  BY RowsHold, SizeAssumption DEF WeightInv, Types
<1>2. End(s', NRows) = to
  OBVIOUS
<1> HIDE DEF to
<1>3. Cardinality(Rows) = to - s
  BY <1>1, FS_Interval
<1> DEFINE more == [i \in 1 .. to - s |-> w[s + i - 1]]
<1>4. weights' = weights \o more
  BY <1>3 DEF Yield
<1>5. ASSUME NEW i \in 1 .. to - s
      PROVE  more[i] = Reference(s + i - 1) /\ more[i] \in Weight
  <2>1. s + i - 1 \in Rows
    BY <1>1
  <2> QED
    BY <1>1, <2>1, ReferenceType
<1>6. more \in Seq(Weight) /\ Len(more) = to - s
  <2>1. to - s \in Nat
    BY <1>1
  <2> QED
    BY <1>5, <2>1
<1> HIDE DEF more
<1>7. weights \in Seq(Weight) /\ Len(weights) = s
  BY <1>1 DEF WeightInv, Types, StreamInv
<1>8. weights' \in Seq(Weight) /\ Len(weights') = to
  <2>1. /\ weights \o more \in Seq(Weight)
        /\ Len(weights \o more) = Len(weights) + Len(more)
    BY <1>6, <1>7
  <2>2. s + (to - s) = to
    BY <1>1
  <2> QED
    BY <1>4, <1>6, <1>7, <2>1, <2>2
<1>9. ASSUME NEW i \in 1 .. to PROVE weights'[i] = Reference(i - 1)
  <2>1. CASE i <= s
    BY <1>1, <1>4, <1>6, <1>7, <2>1 DEF WeightInv, StreamInv
  <2>2. CASE i > s
    <3>1. i - s \in 1 .. to - s /\ weights'[i] = more[i - s]
      BY <1>1, <1>4, <1>6, <1>7, <2>2
    <3>2. more[i - s] = Reference(s + (i - s) - 1)
      BY <1>5, <3>1
    <3>3. s + (i - s) - 1 = i - 1
      BY <1>1
    <3> QED
      BY <3>1, <3>2, <3>3
  <2> QED
    BY <1>1, <2>1, <2>2
<1>10. \A r : Reference(r)' = Reference(r)
  BY DEF input, Reference, Total, LowerMass
<1>11. Types'
  BY <1>1, <1>8 DEF WeightInv, Types, input
<1>12. StreamInv'
  <2>1. Len(weights') = End(s', NRows)
    BY <1>2, <1>8
  <2>2. \A i \in 1 .. Len(weights') : weights'[i] = Reference(i - 1)'
    BY <1>8, <1>9, <1>10
  <2> QED
    BY <2>1, <2>2 DEF StreamInv
<1> QED
  BY <1>11, <1>12 DEF WeightInv

LEMMA ProbKeeps == ASSUME WeightInv, Prob PROVE WeightInv'
<1> DEFINE w == [r \in Rows |-> TargetProb(r)]
<1>1. \A r \in Rows : w[r] = Reference(r)
  BY DEF Prob, TargetProb, Reference, Total
<1>2. /\ s < NRows /\ UNCHANGED input /\ pc' = "rows" /\ c' = c
      /\ Yield(w) /\ s' = s + ChunkOf(refChunk, NRows)
  BY DEF Prob
<1> HIDE DEF w
<1> QED
  BY <1>1, <1>2, RowsYield

LEMMA StartMassKeeps == ASSUME WeightInv, StartMass PROVE WeightInv'
<1>1. Types'
  BY DEF StartMass, WeightInv, Types, input
<1>2. \A r : Reference(r)' = Reference(r)
  BY DEF StartMass, input, Reference, Total, LowerMass
<1>3. ASSUME NEW r \in Rows
      PROVE  /\ denom'[r] = 0 /\ masked'[r] = 0 /\ Seen(r)' = {}
             /\ {v \in Seen(r)' : Below(r, v)'} = {}
  <2>1. r \in Row
    BY RowsHold DEF StartMass
  <2>2. Seen(r)' = {}
    BY SizeAssumption DEF StartMass, Seen, End
  <2> QED
    BY <2>1, <2>2 DEF StartMass
<1>4. \A f : SumFunctionOnSet(f, {}) = 0
  BY FS_EmptySet, SumRecursion
<1>5. Rows' = Rows /\ UNCHANGED <<s, method, weights>> /\ s < NRows /\ method = "prift_mass"
      /\ pc' = "vocab"
  BY DEF StartMass, Rows, input
<1>6. StreamInv'
  BY <1>2, <1>3, <1>4, <1>5 DEF WeightInv, StreamInv
<1> QED
  BY <1>1, <1>6 DEF WeightInv

\* A chunk of the vocabulary more.
LEMMA StreamKeeps == ASSUME WeightInv, StreamChunk PROVE WeightInv'
<1> DEFINE size == ChunkOf(vocabChunk, V)
           to == End(c + size, V)
<1>1. /\ c \in Nat /\ V \in Nat \ {0} /\ c < V /\ s < NRows /\ method = "prift_mass"
      /\ pc' = "vocab" /\ UNCHANGED <<input, s, weights>> /\ c' = c + size
  BY SizeAssumption DEF StreamChunk, WeightInv, Types, StreamInv
<1>2. size \in Nat \ {0}
  BY SizeAssumption, ChunkAssumption, ChunksHold DEF WeightInv, Types
<1> HIDE DEF size
<1>3. /\ Tokens = c .. to - 1 /\ to \in c + 1 .. V /\ c + size \in Nat
      /\ End(c, V) = c
  <2>1. /\ Slice(c, size, V) = c .. to - 1 /\ to \in c + 1 .. V /\ c + size \in Nat
        /\ End(c, V) = c
    <3>1. \A a, n \in Nat, z \in Nat \ {0} : n # 0 /\ a < n =>
              /\ Slice(a, z, n) = a .. End(a + z, n) - 1
              /\ End(a + z, n) \in a + 1 .. n /\ a + z \in Nat /\ End(a, n) = a
      BY SlicesHold
    <3> QED
      BY <1>1, <1>2, <3>1
  <2> QED
    BY <2>1 DEF Tokens, size
<1> HIDE DEF to
<1>4. \A r : Reference(r)' = Reference(r) /\ \A v : Below(r, v)' = Below(r, v)
  BY <1>1 DEF input, Reference, Total, LowerMass, Below
<1>5. Rows' = Rows /\ Rows \subseteq Row
  BY <1>1, RowsHold DEF Rows, input
<1>6. ASSUME NEW r \in Rows
      PROVE  /\ denom'[r] = SumFunctionOnSet(e[r], Seen(r)')
             /\ masked'[r] = SumFunctionOnSet(e[r], {v \in Seen(r)' : Below(r, v)})
  <2>1. r \in Row
    BY <1>5
  <2>2. Seen(r) = 0 .. c - 1 /\ Seen(r)' = 0 .. to - 1
    BY <1>1, <1>3 DEF Seen, to
  <2>3. /\ Seen(r) \cup Tokens = Seen(r)' /\ Seen(r) \cap Tokens = {}
        /\ Seen(r)' \subseteq Token
    BY <1>1, <1>3, <2>2 DEF Token
  <2> DEFINE A == {v \in Seen(r) : Below(r, v)}
             B == {v \in Tokens : Below(r, v)}
  <2>4. A \cup B = {v \in Seen(r)' : Below(r, v)} /\ A \cap B = {}
        /\ A \subseteq Token /\ B \subseteq Token
    BY <2>3
  <2> HIDE DEF A, B
  <2>5. SumFunctionOnSet(e[r], Seen(r)') =
            SumFunctionOnSet(e[r], Seen(r)) + SumFunctionOnSet(e[r], Tokens)
    <3>1. /\ IsFiniteSet(Seen(r)) /\ IsFiniteSet(Tokens)
          /\ \A v \in Seen(r) \cup Tokens : e[r][v] \in Nat
      BY <2>1, <2>3, Values
    <3> QED
      BY <2>3, <3>1, SumUnion
  <2>6. SumFunctionOnSet(e[r], A \cup B) =
            SumFunctionOnSet(e[r], A) + SumFunctionOnSet(e[r], B)
    <3>1. /\ IsFiniteSet(A) /\ IsFiniteSet(B) /\ \A v \in A \cup B : e[r][v] \in Nat
      BY <2>1, <2>4, Values
    <3> QED
      BY <2>4, <3>1, SumUnion
  <2>7. /\ denom[r] = SumFunctionOnSet(e[r], Seen(r))
        /\ masked[r] = SumFunctionOnSet(e[r], A)
    BY DEF StreamChunk, WeightInv, StreamInv, A
  <2>8. /\ denom'[r] = denom[r] + SumFunctionOnSet(e[r], Tokens)
        /\ masked'[r] = masked[r] + SumFunctionOnSet(e[r], B)
    BY <2>1 DEF StreamChunk, B
  <2> QED
    BY <2>4, <2>5, <2>6, <2>7, <2>8
<1>7. Types'
  BY <1>1, <1>3 DEF WeightInv, Types, input
<1>8. StreamInv'
  <2>1. \A i \in 1 .. Len(weights') : weights'[i] = Reference(i - 1)'
    BY <1>1, <1>4 DEF WeightInv, StreamInv
  <2>2. e' = e
    BY <1>1 DEF input
  <2>3. \A r \in Rows' :
           /\ denom'[r] = SumFunctionOnSet(e'[r], Seen(r)')
           /\ masked'[r] = SumFunctionOnSet(e'[r], {v \in Seen(r)' : Below(r, v)'})
    BY <1>4, <1>5, <1>6, <2>2
  <2>4. Len(weights') = End(s', NRows) /\ s' < NRows /\ method' = "prift_mass"
    BY <1>1 DEF WeightInv, StreamInv, input
  <2> QED
    BY <1>1, <2>1, <2>3, <2>4 DEF StreamInv
<1> QED
  BY <1>7, <1>8 DEF WeightInv

LEMMA MassKeeps == ASSUME WeightInv, Mass PROVE WeightInv'
<1> DEFINE w == [r \in Rows |-> IF Selected(r) THEN <<1, 1>> ELSE <<0, 1>>]
<1>1. /\ s < NRows /\ method = "prift_mass" /\ c \in Nat /\ V \in Nat /\ c >= V
  BY SizeAssumption DEF Mass, WeightInv, StreamInv, Types
<1>2. ASSUME NEW r \in Rows PROVE w[r] = Reference(r)
  <2>1. Seen(r) = Token
    BY <1>1 DEF Seen, End, Token
  <2>2. r \in Row
    BY <1>1, RowsHold
  <2>3. denom[r] = Total(r) /\ masked[r] = LowerMass(r)
    BY <2>1, <2>2, Totals DEF Mass, WeightInv, StreamInv, LowerMass, Below
  <2>4. Selected(r) <=> (LowerMass(r) + e[r][target[r]]) * Threshold[2] >= Threshold[1] * Total(r)
    BY <2>3 DEF Selected
  <2> QED
    BY <1>1, <2>4 DEF Reference
<1>3. /\ UNCHANGED input /\ pc' = "rows" /\ c' = c
      /\ Yield(w) /\ s' = s + ChunkOf(refChunk, NRows)
  BY DEF Mass
<1>4. \A r \in Rows : w[r] = Reference(r)
  BY <1>2
<1> HIDE DEF w
<1> QED
  BY <1>1, <1>3, <1>4, RowsYield

LEMMA RestKeeps == ASSUME WeightInv, Return \/ Done \/ UNCHANGED vars PROVE WeightInv'
<1>1. /\ UNCHANGED <<input, s, c, denom, masked, weights>>
      /\ pc' = pc \/ (pc' = "done" /\ s >= NRows)
  BY DEF Return, Done, vars, input
<1>2. Types'
  BY <1>1 DEF WeightInv, Types, input
<1>3. \A r : /\ Reference(r)' = Reference(r) /\ Seen(r)' = Seen(r)
             /\ \A v : Below(r, v)' = Below(r, v)
  BY <1>1 DEF input, Reference, Total, LowerMass, Below, Seen
<1>4. Rows' = Rows /\ e' = e
  BY <1>1 DEF Rows, input
<1>5. StreamInv'
  BY <1>1, <1>3, <1>4 DEF WeightInv, StreamInv, input
<1> QED
  BY <1>2, <1>5 DEF WeightInv

LEMMA WeightInvariant == Spec => []WeightInv
<1>1. WeightInv /\ [Next]_vars => WeightInv'
  BY ProbKeeps, StartMassKeeps, StreamKeeps, MassKeeps, RestKeeps DEF Next
<1> QED
  BY <1>1, InitWeightInv, PTL DEF Spec

\* ChunksDoNotMatter of TokenWeights: whatever reference_micro_batch_size and
\* mass_vocab_chunk are, _reference_weights and _stream_mass_weights give the
\* weights that prift_weights.py defines over the whole vocabulary, row by row.
THEOREM WeightsAreAsDefined == Spec => []ChunksDoNotMatter
<1>1. WeightInv => ChunksDoNotMatter
  BY SizeAssumption DEF WeightInv, Types, StreamInv, ChunksDoNotMatter, End
<1> QED
  BY <1>1, WeightInvariant, PTL

LEMMA Products ==
    ASSUME NEW a \in Nat, NEW b \in Nat, a <= b, NEW k \in Nat
    PROVE  a * k \in Nat /\ b * k \in Nat /\ a * k <= b * k
  OBVIOUS

\* MassIsMonotone of TokenWeights: for any threshold and any distribution, ties
\* included, a target that is at least as probable as one that is kept is kept.
THEOREM MoreProbableIsKept == Spec => []MassIsMonotone
<1>1. ASSUME WeightInv PROVE MassIsMonotone
  <2> SUFFICES ASSUME method = "prift_mass", NEW i \in 1 .. Len(weights), NEW j \in 1 .. Len(weights),
                      e[i-1] = e[j-1], e[i-1][target[i-1]] >= e[j-1][target[j-1]]
               PROVE  weights[i][1] >= weights[j][1]
    BY DEF MassIsMonotone
  <2> DEFINE p == i - 1
             q == j - 1
  <2>1. /\ p \in Row /\ q \in Row
        /\ weights[i] = Reference(p) /\ weights[j] = Reference(q)
    <3>1. s \in Nat /\ Len(weights) = End(s, NRows)
      BY <1>1 DEF WeightInv, Types, StreamInv
    <3>2. p \in Row /\ q \in Row
      BY <3>1, SizeAssumption DEF End, Row
    <3> QED
      BY <1>1, <3>2 DEF WeightInv, StreamInv
  <2>2. e[p] = e[q] /\ e[p][target[p]] >= e[q][target[q]]
    OBVIOUS
  <2> HIDE DEF p, q
  <2>3. LowerMass(q) <= LowerMass(p)
    <3> DEFINE A == {v \in Token : e[p][v] < e[p][target[p]]}
               B == {v \in Token : e[q][v] < e[q][target[q]]}
    <3>1. /\ e[p] \in [Token -> Nat] /\ target[p] \in Token /\ target[q] \in Token
          /\ e[q] \in [Token -> Nat]
      BY <1>1, <2>1, Values
    <3>2. B \subseteq A
      BY <2>2, <3>1
    <3>3. A \subseteq Token
      OBVIOUS
    <3> HIDE DEF A, B
    <3>4. IsFiniteSet(A) /\ \A v \in A : e[p][v] \in Nat
      BY <1>1, <2>1, <3>3, Values
    <3>5. SumFunctionOnSet(e[p], B) <= SumFunctionOnSet(e[p], A)
      BY <3>2, <3>4, SumGrows
    <3> QED
      BY <2>2, <3>5 DEF LowerMass, A, B
  <2> DEFINE a == LowerMass(q) + e[q][target[q]]
             b == LowerMass(p) + e[p][target[p]]
  <2>4. a \in Nat /\ b \in Nat /\ a <= b /\ Total(p) = Total(q) /\ Total(p) \in Nat
    <3>1. /\ e[p] \in [Token -> Nat] /\ target[p] \in Token
          /\ e[q] \in [Token -> Nat] /\ target[q] \in Token
      BY <1>1, <2>1, Values
    <3>2. LowerMass(p) \in Nat /\ LowerMass(q) \in Nat /\ Total(p) \in Nat
      BY <1>1, <2>1, Totals
    <3>3. e[p][target[p]] \in Nat /\ e[q][target[q]] \in Nat
      BY <3>1
    <3>4. Total(p) = Total(q)
      BY <2>2 DEF Total
    <3>5. \A k, l, m, n \in Nat : k <= l /\ m <= n => k + m <= l + n
      OBVIOUS
    <3>6. e[q][target[q]] <= e[p][target[p]]
      BY <2>2, <3>3
    <3>7. a <= b
      BY <2>3, <3>2, <3>3, <3>5, <3>6
    <3>8. a \in Nat /\ b \in Nat
      <4>1. \A k, l \in Nat : k + l \in Nat
        OBVIOUS
      <4> QED
        BY <3>2, <3>3, <4>1
    <3> HIDE DEF a, b
    <3> QED
      BY <3>2, <3>4, <3>7, <3>8
  <2>5. Reference(p) = (IF b * Threshold[2] >= Threshold[1] * Total(p) THEN <<1, 1>> ELSE <<0, 1>>)
    BY DEF Reference
  <2>6. Reference(q) = (IF a * Threshold[2] >= Threshold[1] * Total(p) THEN <<1, 1>> ELSE <<0, 1>>)
    BY <2>4 DEF Reference
  <2> HIDE DEF a, b
  <2>7. Threshold[2] \in Nat /\ Threshold[1] \in Int
    BY ThresholdAssumption
  <2>8. /\ a * Threshold[2] \in Nat /\ b * Threshold[2] \in Nat
        /\ a * Threshold[2] <= b * Threshold[2]
    BY <2>4, <2>7, Products
  <2>9. Threshold[1] * Total(p) \in Int
    BY <2>4, <2>7
  <2>10. a * Threshold[2] >= Threshold[1] * Total(p) => b * Threshold[2] >= Threshold[1] * Total(p)
    BY <2>8, <2>9
  <2> QED
    BY <2>1, <2>5, <2>6, <2>10
<1> QED
  BY <1>1, WeightInvariant, PTL

-----------------------------------------------------------------------------
(* The loss the weights go into, on all ranks.                             *)

\* The sums of a rank, and of all ranks.
LossOf(r) == Weighted(batch[Group(r)])
TokensOf(r) == Valid(batch[Group(r)])
AllLosses == SumFunctionOnSet([r \in Rank |-> LossOf(r)], Rank)
AllTokens == SumFunctionOnSet([r \in Rank |-> TokensOf(r)], Rank)

\* After the all-reduce every rank knows the tokens of all, and it comes
\* before any rank divides.
LossInv ==
    /\ groups \in Layouts /\ batch \in [groups -> [Positions -> LossTokens]]
    /\ balance \in BOOLEAN /\ (usesp <=> \E g \in groups : Cardinality(g) > 1)
    /\ lossSum = [r \in Rank |-> lossSum[r]] /\ tokens = [r \in Rank |-> tokens[r]]
    /\ loss = [r \in Rank |-> loss[r]] /\ stage = [r \in Rank |-> stage[r]]
    /\ ~usesp => \A r \in Rank :
          /\ stage[r] \in {"forward", "reduce", "scale", "done"}
          /\ stage[r] # "forward" => lossSum[r] = LossOf(r)
          /\ stage[r] = "reduce" => tokens[r] = TokensOf(r)
          /\ stage[r] \in {"scale", "done"} =>
                /\ \A q \in Rank : stage[q] \in {"scale", "done"}
                /\ balance => tokens[r] = AllTokens
          /\ stage[r] = "done" =>
                loss[r] = IF tokens[r] = 0 THEN <<0, 1>>
                          ELSE <<lossSum[r] * DpSize, tokens[r]>>

LEMMA LossInputStays ==
    ASSUME UNCHANGED job
    PROVE  /\ UNCHANGED <<groups, batch, lossMethod, usesp, balance>>
           /\ \A r : LossOf(r)' = LossOf(r) /\ TokensOf(r)' = TokensOf(r)
           /\ AllTokens' = AllTokens /\ DpSize' = DpSize
<1>1. UNCHANGED <<groups, batch, lossMethod, usesp, balance>>
  BY DEF job
<1>2. \A r : LossOf(r)' = LossOf(r) /\ TokensOf(r)' = TokensOf(r)
  BY <1>1 DEF LossOf, TokensOf, Weighted, Valid, WeightOf, Group
<1>3. AllTokens' = AllTokens
  BY <1>2 DEF AllTokens
<1>4. DpSize' = DpSize
  BY <1>1 DEF DpSize
<1> QED
  BY <1>1, <1>2, <1>3, <1>4

LEMMA InitLossInv == LossInit => LossInv
  BY DEF LossInit, LossInv

LEMMA ForwardKeeps == ASSUME LossInv, NEW r \in Rank, Forward(r) PROVE LossInv'
<1>1. UNCHANGED job /\ loss' = loss /\ stage[r] = "forward"
  BY DEF Forward
<1>2. /\ UNCHANGED <<groups, batch, lossMethod, usesp, balance>>
      /\ \A q : LossOf(q)' = LossOf(q) /\ TokensOf(q)' = TokensOf(q)
      /\ AllTokens' = AllTokens /\ DpSize' = DpSize
  BY <1>1, LossInputStays
<1>3. /\ stage' = [q \in Rank |-> stage'[q]] /\ tokens' = [q \in Rank |-> tokens'[q]]
      /\ lossSum' = [q \in Rank |-> lossSum'[q]]
      /\ \A q \in Rank \ {r} :
            stage'[q] = stage[q] /\ tokens'[q] = tokens[q] /\ lossSum'[q] = lossSum[q]
  BY DEF Forward, LossInv
<1>4. ~usesp => stage'[r] = "reduce" /\ lossSum'[r] = LossOf(r) /\ tokens'[r] = TokensOf(r)
  BY DEF Forward, LossInv, LossOf, TokensOf
<1>5. ~usesp => \A q \in Rank : stage[q] \notin {"scale", "done"}
  BY <1>1 DEF LossInv
<1> QED
  BY <1>1, <1>2, <1>3, <1>4, <1>5 DEF LossInv

LEMMA ReduceKeeps == ASSUME LossInv, Reduce PROVE LossInv'
<1>1. /\ UNCHANGED job /\ loss' = loss /\ lossSum' = lossSum
      /\ \A r \in Rank : stage[r] = "reduce" /\ stage' = [q \in Rank |-> "scale"]
  BY DEF Reduce
<1>2. /\ UNCHANGED <<groups, batch, lossMethod, usesp, balance>>
      /\ \A q : LossOf(q)' = LossOf(q) /\ TokensOf(q)' = TokensOf(q)
      /\ AllTokens' = AllTokens /\ DpSize' = DpSize
  BY <1>1, LossInputStays
<1>3. ASSUME ~usesp PROVE SumFunctionOnSet(tokens, Rank) = AllTokens
  <2>1. tokens = [r \in Rank |-> TokensOf(r)]
    BY <1>1, <1>3 DEF LossInv
  <2> QED
    BY <2>1 DEF AllTokens
<1>4. SumFunction(tokens) = SumFunctionOnSet(tokens, Rank)
  BY DEF LossInv, SumFunction
<1>5. /\ tokens' = [r \in Rank |-> tokens'[r]]
      /\ ~usesp /\ balance => \A r \in Rank : tokens'[r] = AllTokens
  BY <1>3, <1>4 DEF Reduce, LossInv
<1> QED
  BY <1>1, <1>2, <1>5 DEF Reduce, LossInv

LEMMA ScaleKeeps == ASSUME LossInv, NEW r \in Rank, Scale(r) PROVE LossInv'
<1>1. /\ UNCHANGED job /\ tokens' = tokens /\ lossSum' = lossSum
      /\ stage[r] = "scale" /\ stage' = [stage EXCEPT ![r] = "done"]
  BY DEF Scale
<1>2. /\ UNCHANGED <<groups, batch, lossMethod, usesp, balance>>
      /\ \A q : LossOf(q)' = LossOf(q) /\ TokensOf(q)' = TokensOf(q)
      /\ AllTokens' = AllTokens /\ DpSize' = DpSize
  BY <1>1, LossInputStays
<1>3. /\ loss' = [q \in Rank |-> loss'[q]] /\ stage' = [q \in Rank |-> stage'[q]]
      /\ loss'[r] = IF tokens[r] = 0 THEN <<0, 1>> ELSE <<lossSum[r] * DpSize, tokens[r]>>
      /\ stage'[r] = "done"
      /\ \A q \in Rank \ {r} : loss'[q] = loss[q] /\ stage'[q] = stage[q]
  BY DEF Scale, LossInv
<1> QED
  BY <1>1, <1>2, <1>3 DEF LossInv

LEMMA LossInvariant == LossSpec => []LossInv
<1>1. ASSUME LossInv, UNCHANGED lossVars PROVE LossInv'
  <2>1. /\ UNCHANGED <<groups, batch, lossMethod, usesp, balance, stage, lossSum, tokens, loss>>
        /\ UNCHANGED job
    BY <1>1 DEF lossVars, job
  <2>2. /\ \A q : LossOf(q)' = LossOf(q) /\ TokensOf(q)' = TokensOf(q)
        /\ AllTokens' = AllTokens /\ DpSize' = DpSize
    BY <2>1, LossInputStays
  <2> QED
    BY <1>1, <2>1, <2>2 DEF LossInv
<1>2. LossInv /\ [LossNext]_lossVars => LossInv'
  BY <1>1, ForwardKeeps, ReduceKeeps, ScaleKeeps DEF LossNext, Over
<1> QED
  BY <1>2, InitLossInv, PTL DEF LossSpec

\* Without sequence parallelism every rank is a group of its own.
LEMMA GroupsAreRanks ==
    ASSUME LossInv, ~usesp
    PROVE  /\ IsFiniteSet(Rank) /\ groups = {Group(r) : r \in Rank}
           /\ \A r \in Rank : Group(r) = {r} /\ Group(r) \in groups
<1>1. IsFiniteSet(Rank)
  BY JobAssumption
<1>2. UNION groups = Rank /\ {} \notin groups
  BY JobAssumption DEF LossInv
<1>3. ASSUME NEW g \in groups PROVE \E r \in Rank : g = {r}
  <2>1. IsFiniteSet(g) /\ g # {}
    <3>1. g \subseteq Rank /\ g # {}
      BY <1>2
    <3> QED
      BY <1>1, <3>1, FS_Subset
  <2>2. Cardinality(g) \in Nat /\ ~(Cardinality(g) > 1) /\ Cardinality(g) # 0
    BY <2>1, FS_CardinalityType, FS_EmptySet DEF LossInv
  <2>3. Cardinality(g) = 1
    BY <2>2
  <2>4. \E r : g = {r}
    BY <2>1, <2>3, FS_Singleton
  <2> QED
    BY <1>2, <2>4
<1>4. ASSUME NEW r \in Rank PROVE Group(r) = {r} /\ Group(r) \in groups
  <2>1. \E g \in groups : r \in g
    BY <1>2
  <2>2. Group(r) \in groups /\ r \in Group(r)
    BY <2>1 DEF Group
  <2> QED
    BY <1>3, <2>2
<1>5. ASSUME NEW g \in groups PROVE \E r \in Rank : g = Group(r)
  <2>1. PICK r \in Rank : g = {r}
    BY <1>3
  <2>2. Group(r) = {r}
    BY <1>4
  <2> QED
    BY <2>1, <2>2
<1> QED
  BY <1>1, <1>4, <1>5

\* What a rank adds up is a number.
LEMMA LossTypes ==
    ASSUME LossInv, NEW g \in groups
    PROVE  Weighted(batch[g]) \in Nat /\ Valid(batch[g]) \in Nat
<1> DEFINE b == batch[g]
           x == [i \in Positions |-> b[i].ce * WeightOf(b[i]) * b[i].mask]
           y == [i \in Positions |-> b[i].mask]
<1>1. IsFiniteSet(Positions) /\ One \in Nat /\ LossTokens \subseteq
         [ce : Nat, online : 0..One, ref : 0..One, high : BOOLEAN, mask : {0, 1}]
  BY JobAssumption
<1>2. b \in [Positions -> LossTokens]
  BY DEF LossInv
<1> HIDE DEF b
<1>3. ASSUME NEW i \in Positions
      PROVE  b[i].ce * WeightOf(b[i]) * b[i].mask \in Nat /\ b[i].mask \in Nat
  <2>1. b[i].ce \in Nat /\ b[i].mask \in Nat /\ WeightOf(b[i]) \in Nat
    BY <1>1, <1>2 DEF WeightOf
  <2>2. \A k, l, m \in Nat : k * l * m \in Nat
    OBVIOUS
  <2> QED
    BY <2>1, <2>2
<1>4. SumFunctionOnSet(x, Positions) \in Nat /\ SumFunctionOnSet(y, Positions) \in Nat
  <2>1. \A i \in Positions : x[i] \in Nat /\ y[i] \in Nat
    BY <1>3
  <2> HIDE DEF x, y
  <2> QED
    BY <1>1, <2>1, SumType
<1>5. Weighted(b) = SumFunctionOnSet(x, Positions)
  BY DEF Weighted, SumFunction
<1>6. Valid(b) = SumFunctionOnSet(y, Positions)
  BY DEF Valid, SumFunction
<1> QED
  BY <1>4, <1>5, <1>6 DEF b

LEMMA GlobalSums ==
    ASSUME LossInv, ~usesp
    PROVE  /\ GlobalSum = AllLosses /\ GlobalTokens = AllTokens
           /\ AllLosses \in Nat /\ AllTokens \in Nat
           /\ \A r \in Rank : LossOf(r) \in Nat
<1> DEFINE name == [r \in Rank |-> Group(r)]
           fw == [g \in groups |-> Weighted(batch[g])]
           fv == [g \in groups |-> Valid(batch[g])]
           gw == [r \in Rank |-> LossOf(r)]
           gv == [r \in Rank |-> TokensOf(r)]
<1>1. /\ IsFiniteSet(Rank) /\ groups = {Group(r) : r \in Rank}
      /\ \A r \in Rank : Group(r) = {r} /\ Group(r) \in groups
  BY GroupsAreRanks
<1>2. groups = {name[r] : r \in Rank} /\ \A q, r \in Rank : name[q] = name[r] => q = r
  BY <1>1
<1>3. ASSUME NEW r \in Rank
      PROVE  /\ gw[r] = fw[name[r]] /\ gw[r] \in Nat
             /\ gv[r] = fv[name[r]] /\ gv[r] \in Nat
  <2>1. Group(r) \in groups
    BY <1>1
  <2>2. LossOf(r) \in Nat /\ TokensOf(r) \in Nat
    BY <2>1, LossTypes DEF LossOf, TokensOf
  <2> QED
    BY <2>1, <2>2 DEF LossOf, TokensOf
<1>4. GlobalSum = SumFunctionOnSet(fw, groups)
  BY DEF GlobalSum, SumFunction
<1>5. GlobalTokens = SumFunctionOnSet(fv, groups)
  BY DEF GlobalTokens, SumFunction
<1>6. AllLosses = SumFunctionOnSet(gw, Rank) /\ AllTokens = SumFunctionOnSet(gv, Rank)
  BY DEF AllLosses, AllTokens
<1>7. \A r \in Rank : LossOf(r) \in Nat
  BY <1>3
<1> HIDE DEF name, fw, fv, gw, gv
<1>8. \A r \in Rank : gw[r] = fw[name[r]] /\ gw[r] \in Nat
  BY <1>3
<1>9. \A r \in Rank : gv[r] = fv[name[r]] /\ gv[r] \in Nat
  BY <1>3
<1>10. SumFunctionOnSet(fw, groups) = SumFunctionOnSet(gw, Rank)
  <2>1. SumFunctionOnSet(fw, {name[r] : r \in Rank}) = SumFunctionOnSet(gw, Rank)
    BY <1>1, <1>2, <1>8, SumRenamed
  <2> QED
    BY <1>2, <2>1
<1>11. SumFunctionOnSet(fv, groups) = SumFunctionOnSet(gv, Rank)
  <2>1. SumFunctionOnSet(fv, {name[r] : r \in Rank}) = SumFunctionOnSet(gv, Rank)
    BY <1>1, <1>2, <1>9, SumRenamed
  <2> QED
    BY <1>2, <2>1
<1>12. SumFunctionOnSet(gw, Rank) \in Nat /\ SumFunctionOnSet(gv, Rank) \in Nat
  BY <1>1, <1>8, <1>9, SumType
<1> QED
  BY <1>4, <1>5, <1>6, <1>7, <1>10, <1>11, <1>12

\* BalancedIsGlobalMean of TokenLoss: with balance_dp_token, for any number of
\* ranks, any probabilities of the tokens, fractional weights included, and
\* however unevenly the tokens are spread, the average of the losses
\* that _compute_loss_and_backward divides by the tokens of all ranks is the
\* mean over all tokens.
THEOREM AverageIsGlobalMean == LossSpec => []BalancedIsGlobalMean
<1>1. ASSUME LossInv PROVE BalancedIsGlobalMean
  <2> SUFFICES ASSUME AllDone, balance, ~usesp, GlobalTokens > 0
               PROVE  Equal(<<SumFunction([r \in Rank |-> loss[r][1]]),
                          loss[CHOOSE r \in Rank : TRUE][2] * Cardinality(Rank)>>,
                        <<GlobalSum, GlobalTokens>>)
    BY DEF BalancedIsGlobalMean
  <2> DEFINE size == Cardinality(Rank)
             parts == [r \in Rank |-> loss[r][1]]
             each == [r \in Rank |-> LossOf(r)]
             one == CHOOSE r \in Rank : TRUE
  <2>1. /\ GlobalSum = AllLosses /\ GlobalTokens = AllTokens
        /\ AllLosses \in Nat /\ AllTokens \in Nat /\ \A r \in Rank : LossOf(r) \in Nat
    BY <1>1, GlobalSums
  <2>2. IsFiniteSet(Rank) /\ Cardinality(Rank) = size /\ size \in Nat /\ one \in Rank
    BY JobAssumption, FS_CardinalityType
  <2>3. DpSize = size
    BY <2>2 DEF DpSize
  <2>4. ASSUME NEW r \in Rank PROVE loss[r] = <<LossOf(r) * size, AllTokens>>
    <3>1. stage[r] = "done"
      BY DEF AllDone
    <3>2. /\ tokens[r] = AllTokens /\ lossSum[r] = LossOf(r)
          /\ loss[r] = IF tokens[r] = 0 THEN <<0, 1>>
                       ELSE <<lossSum[r] * DpSize, tokens[r]>>
      BY <1>1, <3>1 DEF LossInv
    <3>3. AllTokens # 0
      BY <2>1
    <3> QED
      BY <2>3, <3>2, <3>3
  <2>5. \A r \in Rank : each[r] \in Nat /\ parts[r] = each[r] * size
    BY <2>1, <2>4
  <2>6. SumFunction(parts) = SumFunctionOnSet(parts, Rank)
    BY DEF SumFunction
  <2>7. AllLosses = SumFunctionOnSet(each, Rank)
    BY DEF AllLosses
  <2>8. loss[one][2] = AllTokens
    BY <2>2, <2>4
  <2> HIDE DEF size, parts, each, one
  <2>9. SumFunctionOnSet(parts, Rank) = SumFunctionOnSet(each, Rank) * size
    BY <2>2, <2>5, SumScaled
  <2>10. \A k, l, m \in Nat : (k * l) * m = k * (m * l)
    OBVIOUS
  <2>11. (AllLosses * size) * AllTokens = AllLosses * (AllTokens * size)
    BY <2>1, <2>2, <2>10
  <2> QED
    BY <2>1, <2>2, <2>6, <2>7, <2>8, <2>9, <2>11 DEF Equal, parts, one
<1> QED
  BY <1>1, LossInvariant, PTL

=============================================================================
