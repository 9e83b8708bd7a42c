------------------------- MODULE EvalPipelineProofs -------------------------
(***************************************************************************)
(* Theorems about EvalPipeline, for any number of data sets, examples,     *)
(* answers and devices, and however often it is killed and called again.   *)
(***************************************************************************)
EXTENDS EvalPipeline, FiniteSetTheorems, TLAPS

-----------------------------------------------------------------------------
(***************************************************************************)
(* The inductive invariant.                                                *)
(***************************************************************************)

Files == [run : Nat, examples : SUBSET Example, whole : BOOLEAN]

\* The run ended without its summary.
Broken == {"failed", "AssertionError", "killed"}

TypeInv ==
    /\ run \in Nat \ {0} /\ world \in Worlds /\ blank \in SUBSET Example
    /\ pc \in {"start", "join", "merge", "score"} \cup Ended
    /\ data \in Data /\ died \in SUBSET Data /\ next \in Nat
    /\ worker \in [Rank -> {"off", "running", "writing", "exited", "died"}]
    /\ file \in [Data -> [Rank -> Files \cup {None}]]
    /\ DOMAIN metrics = Data

\* What a worker that survives leaves.
Result(r) == [run |-> run, examples |-> Chunk(r) \ blank, whole |-> TRUE]

\* Workers work while they are waited for; the file of one that came to its
\* end holds its answers until it is merged.
WorkerInv ==
    /\ \A r \in Rank : worker[r] \in {"running", "writing"} => pc = "join" /\ r < world
    /\ pc \in {"join", "merge"} => \A r \in 0 .. world - 1 :
          /\ worker[r] # "off"
          /\ worker[r] = "died" => data \in died
          /\ worker[r] = "exited" /\ (pc = "merge" => next <= r)
                => file[data][r] = Result(r)

\* The last example of the ranks below n.
Upto(n) == IF n = world THEN N ELSE n * (N \div world)

\* The answers of this run to the first n examples.
Own(n) == [i \in (1 .. n) \ blank |-> run]

MergeInv ==
    /\ pc \in {"merge", "score"} => DOMAIN merged \subseteq Example
    /\ pc = "merge" => next <= world /\ (data \notin died => merged = Own(Upto(next)))
    /\ pc = "score" /\ data \notin died => merged = Own(N)

Scored == Seq(Example \X (1 .. K))

\* The verdicts so far, on the answers in their order.
ScoreInv ==
    pc = "score" =>
        /\ next \in world .. world + NAnswers
        /\ scores \in Scored /\ Len(scores) = next - world
        /\ \A n \in 1 .. Len(scores) : scores[n] = Answer(n)

\* A file of the running evaluation is one that it has yet to merge.
FileInv ==
    \A d \in Data, r \in Rank : file[d][r] # None =>
        /\ file[d][r].run <= run
        /\ file[d][r].run = run /\ pc \notin Broken =>
              /\ d = data /\ pc \in {"join", "merge"} /\ r < world
              /\ pc = "merge" => next <= r

\* The data sets before this one are reported on.
MetricsInv ==
    /\ \A d \in Data : metrics[d] # None => metrics[d].run \in Nat /\ metrics[d].run <= run
    /\ pc \notin Broken => \A d \in 1 .. data - 1 : metrics[d].run = run
    /\ pc = "done" => data = NData /\ metrics[data].run = run

IInv ==
    /\ TypeInv /\ WorkerInv /\ MergeInv /\ ScoreInv /\ FileInv /\ MetricsInv
    /\ EveryExampleOnce /\ ScoresBelongToSamples

-----------------------------------------------------------------------------
(***************************************************************************)
(* Numbers.                                                                *)
(***************************************************************************)

LEMMA Sizes ==
    /\ NData \in Nat \ {0} /\ N \in Nat \ {0} /\ K \in Nat \ {0}
    /\ Worlds \subseteq Nat \ {0}
  BY SizeAssumption

LEMMA Ordered ==
    ASSUME NEW a \in Nat, NEW b \in Nat, NEW c \in Nat, a <= b
    PROVE  a * c \in Nat /\ a * c <= b * c
  OBVIOUS

LEMMA Division ==
    ASSUME NEW a \in Nat, NEW b \in Nat \ {0}
    PROVE  a % b \in 0 .. b - 1 /\ a \div b \in Nat /\ a = (a \div b) * b + (a % b)
  OBVIOUS

LEMMA Quotient ==
    ASSUME NEW k \in Nat, NEW b \in Nat \ {0}, NEW x \in 0 .. b - 1
    PROVE  (k * b + x) % b = x /\ (k * b + x) \div b = k
  OBVIOUS

\* The chunks follow one another, and the last one ends with the examples.
LEMMA ChunksFollow ==
    ASSUME world \in Worlds, NEW r \in 0 .. world - 1
    PROVE  /\ Upto(r) \in 0 .. N /\ Upto(r + 1) \in Upto(r) .. N
           /\ Chunk(r) = Upto(r) + 1 .. Upto(r + 1)
           /\ Upto(0) = 0 /\ Upto(world) = N
<1> DEFINE size == N \div world
<1>1. /\ world \in Nat \ {0} /\ N \in Nat \ {0} /\ r \in Nat /\ r + 1 \in Nat
      /\ r + 1 <= world /\ r <= world
  BY Sizes
<1> DEFINE rest == N % world
<1>2. size \in Nat /\ rest \in Nat /\ N = size * world + rest
  <2>1. N \in Nat /\ world \in Nat \ {0}
    BY <1>1
  <2>2. rest \in 0 .. world - 1 /\ size \in Nat /\ N = size * world + rest
    BY <2>1, Division
  <2> QED
    BY <1>1, <2>2
<1> HIDE DEF size, rest
<1>3. r * size \in Nat /\ r * size <= (r + 1) * size /\ (r + 1) * size \in Nat
  BY <1>1, <1>2, Ordered
<1>4. r * size <= world * size /\ (r + 1) * size <= world * size /\ world * size \in Nat
  BY <1>1, <1>2, Ordered
<1>5. world * size = size * world /\ size * world <= N
  <2>1. world * size = size * world
    BY <1>1, <1>2
  <2> QED
    BY <1>1, <1>2, <1>4, <2>1
<1>6. Upto(r) = r * size /\ Upto(r + 1) = (IF r = world - 1 THEN N ELSE (r + 1) * size)
  BY <1>1 DEF Upto, size
<1>7. Chunk(r) = (r * size) + 1 .. (IF r = world - 1 THEN N ELSE (r + 1) * size)
  BY DEF Chunk, size
<1>8. Upto(world) = N /\ Upto(0) = 0
  BY <1>1, <1>2 DEF Upto, size
<1>9. /\ r * size <= N /\ (r + 1) * size <= N
  BY <1>1, <1>2, <1>3, <1>4, <1>5
<1>10. Upto(r) \in 0 .. N /\ Upto(r + 1) \in Upto(r) .. N
  BY <1>1, <1>3, <1>6, <1>9
<1> QED
  BY <1>6, <1>7, <1>8, <1>10

-----------------------------------------------------------------------------
(***************************************************************************)
(* The samples are in order.                                               *)
(***************************************************************************)

Below(D, x) == {y \in D : y <= x}

\* Counting those below them numbers the elements of a set.
LEMMA ElementsAreNumbered ==
    ASSUME NEW D \in SUBSET Nat, IsFiniteSet(D)
    PROVE  /\ Cardinality(D) \in Nat
           /\ \A x \in D : Cardinality(Below(D, x)) \in 1 .. Cardinality(D)
           /\ \A i \in 1 .. Cardinality(D) : \E x \in D : Cardinality(Below(D, x)) = i
           /\ \A x, y \in D : Cardinality(Below(D, x)) = Cardinality(Below(D, y)) => x = y
<1> DEFINE n == Cardinality(D)
           f == [x \in D |-> Cardinality(Below(D, x))]
<1>1. n \in Nat
  BY FS_CardinalityType
<1>2. \A x \in D : /\ IsFiniteSet(Below(D, x)) /\ x \in Below(D, x)
                   /\ Below(D, x) \in SUBSET D
  BY FS_Subset DEF Below
<1>3. ASSUME NEW x \in D PROVE Cardinality(Below(D, x)) \in 1 .. n
  <2>1. Cardinality(Below(D, x)) \in Nat /\ Cardinality(Below(D, x)) <= n
    BY <1>2, FS_CardinalityType, FS_Subset
  <2>2. Cardinality(Below(D, x)) # 0
    BY <1>2, FS_EmptySet
  <2> QED
    BY <1>1, <2>1, <2>2
<1>4. ASSUME NEW x \in D, NEW y \in D, x < y
      PROVE  Cardinality(Below(D, x)) # Cardinality(Below(D, y))
  <2>1. Below(D, x) \in SUBSET Below(D, y) /\ y \notin Below(D, x)
    <3>1. x \in Nat /\ y \in Nat /\ \A z \in D : z \in Nat
      OBVIOUS
    <3>2. \A z \in D : z <= x => z <= y
      BY <1>4, <3>1
    <3>3. ~(y <= x)
      BY <1>4, <3>1
    <3> QED
      BY <3>2, <3>3, Zenon DEF Below
  <2>2. Below(D, x) # Below(D, y)
    BY <1>2, <2>1
  <2> QED
    BY <1>2, <2>1, <2>2, FS_Subset
<1>5. ASSUME NEW x \in D, NEW y \in D, Cardinality(Below(D, x)) = Cardinality(Below(D, y))
      PROVE  x = y
  <2>1. x < y \/ y < x \/ x = y
    OBVIOUS
  <2> QED
    BY <1>4, <1>5, <2>1
<1>6. f \in Injection(D, 1 .. n)
  <2>1. f \in [D -> 1 .. n] /\ \A x \in D : f[x] = Cardinality(Below(D, x))
    BY <1>3
  <2> HIDE DEF f
  <2> QED
    BY <1>5, <2>1 DEF Injection, IsInjective
<1>7. IsFiniteSet(1 .. n) /\ Cardinality(1 .. n) = n
  BY <1>1, FS_Interval
<1>8. f \in Surjection(D, 1 .. n)
  <2> HIDE DEF f
  <2> QED
    BY <1>6, <1>7, FS_Injection
<1>9. \A i \in 1 .. n : \E x \in D : f[x] = i
  <2> HIDE DEF f
  <2> QED
    BY <1>8 DEF Surjection
<1> QED
  BY <1>1, <1>3, <1>5, <1>9

\* Samples lists exactly what was merged.
LEMMA SamplesAreMerged ==
    ASSUME DOMAIN merged \subseteq Example
    PROVE  /\ Len(Samples) \in Nat /\ DOMAIN Samples = 1 .. Len(Samples)
           /\ \A i \in DOMAIN Samples : Samples[i] \in DOMAIN merged
           /\ \A x \in DOMAIN merged : \E i \in DOMAIN Samples : Samples[i] = x
<1> DEFINE D == DOMAIN merged
           n == Cardinality(D)
<1>1. D \in SUBSET Nat /\ IsFiniteSet(D)
  <2>1. IsFiniteSet(Example)
    BY Sizes, FS_Interval DEF Example
  <2>2. D \in SUBSET Example
    OBVIOUS
  <2>3. IsFiniteSet(D)
    BY <2>1, <2>2, FS_Subset
  <2> QED
    BY <2>2, <2>3 DEF Example
<1>2. Samples = [i \in 1 .. n |-> CHOOSE x \in D : Cardinality(Below(D, x)) = i]
  BY DEF Samples, Below
<1> HIDE DEF D
<1>3. /\ n \in Nat
      /\ \A x \in D : Cardinality(Below(D, x)) \in 1 .. n
      /\ \A i \in 1 .. n : \E x \in D : Cardinality(Below(D, x)) = i
      /\ \A x, y \in D : Cardinality(Below(D, x)) = Cardinality(Below(D, y)) => x = y
  BY <1>1, ElementsAreNumbered
<1> HIDE DEF n
<1>4. \A i \in 1 .. n : Samples[i] \in D /\ Cardinality(Below(D, Samples[i])) = i
  BY <1>2, <1>3
<1>5. \A x \in D : \E i \in 1 .. n : Samples[i] = x
  BY <1>3, <1>4
<1>6. DOMAIN Samples = 1 .. n /\ Samples \in Seq(D)
  BY <1>2, <1>3, <1>4
<1>7. Len(Samples) = n
  BY <1>3, <1>6
<1> QED
  BY <1>3, <1>4, <1>5, <1>6, <1>7 DEF D
-----------------------------------------------------------------------------
(***************************************************************************)
(* The verdicts.                                                           *)
(***************************************************************************)

\* The answers are numbered sample by sample.
LEMMA AnswerOfSample ==
    ASSUME NEW s \in Nat \ {0}, NEW j \in 1 .. K
    PROVE  Answer((s - 1) * K + j) = <<Samples[s], j>>
<1> DEFINE k == s - 1
           x == j - 1
           m == k * K + x
<1>1. k \in Nat /\ K \in Nat \ {0} /\ x \in 0 .. K - 1 /\ k + 1 = s /\ x + 1 = j
  BY Sizes
<1> HIDE DEF k, x
<1>2. m % K = x /\ m \div K = k
  BY <1>1, Quotient
<1>3. (k * K + j) - 1 = m
  <2>1. k * K \in Nat
    BY <1>1
  <2> QED
    BY <1>1, <2>1
<1> HIDE DEF m
<1>4. Answer(k * K + j) = <<Samples[(m \div K) + 1], (m % K) + 1>>
  BY <1>3 DEF Answer
<1> QED
  BY <1>1, <1>2, <1>4 DEF k

LEMMA AnswersAreTyped ==
    ASSUME DOMAIN merged \subseteq Example, NEW n \in 1 .. NAnswers
    PROVE  Answer(n) \in Example \X (1 .. K)
<1> DEFINE L == Len(Samples)
           q == (n - 1) \div K
           x == (n - 1) % K
<1>1. /\ L \in Nat /\ DOMAIN Samples = 1 .. L
      /\ \A i \in 1 .. L : Samples[i] \in Example
  BY SamplesAreMerged
<1>2. K \in Nat \ {0} /\ NAnswers = L * K
  BY Sizes DEF NAnswers
<1> HIDE DEF L
<1>3. n - 1 \in Nat /\ n - 1 < L * K
  <2>1. L * K \in Nat
    BY <1>1, <1>2
  <2> QED
    BY <1>2, <2>1
<1>4. x \in 0 .. K - 1 /\ q \in Nat /\ n - 1 = q * K + x
  BY <1>2, <1>3, Division
<1>5. Answer(n) = <<Samples[q + 1], x + 1>>
  BY DEF Answer
<1> HIDE DEF q, x
<1>6. q < L
  <2>1. SUFFICES ASSUME L <= q PROVE FALSE
    BY <1>1, <1>4
  <2>2. L * K \in Nat /\ L * K <= q * K
    BY <1>1, <1>2, <1>4, <2>1, Ordered
  <2>3. q * K \in Nat
    BY <1>2, <1>4
  <2> QED
    BY <1>2, <1>3, <1>4, <2>2, <2>3
<1>7. q + 1 \in 1 .. L /\ x + 1 \in 1 .. K
  BY <1>1, <1>2, <1>4, <1>6
<1> QED
  BY <1>1, <1>5, <1>7

\* A sample is dealt the verdicts on its own answers.
LEMMA SlicesAreOwn ==
    ASSUME DOMAIN merged \subseteq Example, scores \in Scored, Len(scores) = NAnswers,
           \A n \in 1 .. Len(scores) : scores[n] = Answer(n),
           NEW s \in DOMAIN Samples
    PROVE  SliceOf(s) = [j \in 1 .. K |-> <<Samples[s], j>>] /\ Len(SliceOf(s)) = K
<1> DEFINE L == Len(Samples)
           a == (s - 1) * K
           b == s * K
           S == Example \X (1 .. K)
<1>1. L \in Nat /\ s \in 1 .. L /\ K \in Nat \ {0} /\ NAnswers = L * K
  BY SamplesAreMerged, Sizes DEF NAnswers
<1> HIDE DEF L
<1>2. a \in Nat /\ b = a + K /\ b \in Nat
  BY <1>1
<1>3. b <= L * K /\ L * K \in Nat
  BY <1>1, Ordered
<1>4. (IF b < Len(scores) THEN b ELSE Len(scores)) = b /\ b <= Len(scores)
  <2>1. Len(scores) = L * K
    BY <1>1
  <2> QED
    BY <1>2, <1>3, <2>1
<1>5. SliceOf(s) = SubSeq(scores, a + 1, b)
  BY <1>4 DEF SliceOf
<1> HIDE DEF a, b, S
<1>6. scores \in Seq(S) /\ a + 1 \in Nat \ {0}
  BY <1>2 DEF Scored, S
<1>7. /\ SliceOf(s) \in Seq(S) /\ Len(SliceOf(s)) = K
      /\ \A j \in 1 .. K : SliceOf(s)[j] = scores[a + j]
  BY <1>1, <1>2, <1>4, <1>5, <1>6
<1>8. ASSUME NEW j \in 1 .. K PROVE SliceOf(s)[j] = <<Samples[s], j>>
  <2>1. a + j \in 1 .. Len(scores)
    <3>1. a + j <= b /\ a + j \in Nat \ {0} /\ Len(scores) \in Nat
      BY <1>1, <1>2, <1>3
    <3> QED
      BY <1>2, <1>4, <3>1
  <2>2. scores[a + j] = Answer(a + j)
    BY <2>1
  <2>3. s \in Nat \ {0}
    BY <1>1
  <2>4. Answer(a + j) = <<Samples[s], j>>
    BY <2>3, AnswerOfSample DEF a
  <2> QED
    BY <1>7, <2>2, <2>4
<1>9. SliceOf(s) = [j \in 1 .. K |-> SliceOf(s)[j]]
  BY <1>1, <1>7
<1> QED
  BY <1>7, <1>8, <1>9
-----------------------------------------------------------------------------
(***************************************************************************)
(* The actions.                                                            *)
(***************************************************************************)

LEMMA RanksAreRanks == ASSUME world \in Worlds PROVE 0 .. world - 1 \subseteq Rank
  BY DEF Rank

LEMMA InitHolds == Init => IInv
<1> SUFFICES ASSUME Init PROVE IInv
  OBVIOUS
<1> USE DEF Init
<1>1. TypeInv
  <2>1. 1 \in Data
    BY Sizes DEF Data
  <2> QED
    BY <2>1 DEF TypeInv, Idle
<1>2. WorkerInv
  BY DEF WorkerInv, Idle, Ended
<1>3. MergeInv /\ ScoreInv /\ FileInv
  BY DEF MergeInv, ScoreInv, FileInv
<1>4. MetricsInv /\ EveryExampleOnce /\ ScoresBelongToSamples
  BY DEF MetricsInv, EveryExampleOnce, ScoresBelongToSamples
<1> QED
  BY <1>1, <1>2, <1>3, <1>4 DEF IInv

\* What is reported is not touched; at most another worker has died.
LEMMA ReportsStay ==
    ASSUME IInv, UNCHANGED <<run, blank, metrics>>, died \subseteq died',
           pc' = "AssertionError" => data' \in died' \/ blank = Example
    PROVE  EveryExampleOnce' /\ ScoresBelongToSamples'
<1>1. EveryExampleOnce'
  BY DEF IInv, EveryExampleOnce
<1>2. ScoresBelongToSamples'
  BY DEF IInv, ScoresBelongToSamples
<1> QED
  BY <1>1, <1>2

LEMMA SpawnKeeps == ASSUME IInv, Spawn PROVE IInv'
<1> USE DEF Spawn, job
<1>1. TypeInv'
  BY DEF IInv, TypeInv
<1>2. WorkerInv'
  <2>1. 0 .. world - 1 \subseteq Rank
    BY RanksAreRanks DEF IInv, TypeInv
  <2>2. \A r \in Rank : worker'[r] = (IF r < world THEN "running" ELSE "off")
    OBVIOUS
  <2>3. \A r \in 0 .. world - 1 : r < world
    BY Sizes DEF IInv, TypeInv
  <2> QED
    BY <2>1, <2>2, <2>3 DEF WorkerInv
<1>3. MergeInv' /\ ScoreInv'
  BY DEF MergeInv, ScoreInv
<1>4. FileInv' /\ MetricsInv'
  BY DEF IInv, FileInv, MetricsInv, Broken
<1>5. EveryExampleOnce' /\ ScoresBelongToSamples'
  BY ReportsStay
<1> QED
  BY <1>1, <1>2, <1>3, <1>4, <1>5 DEF IInv

LEMMA OpenFileKeeps == ASSUME IInv, NEW r \in Rank, OpenFile(r) PROVE IInv'
<1> USE DEF OpenFile, job
<1>1. /\ pc = "join" /\ r < world
      /\ \A q \in Rank : worker'[q] = (IF q = r THEN "writing" ELSE worker[q])
      /\ \A d \in Data, q \in Rank :
            file'[d][q] = (IF d = data /\ q = r THEN Opened ELSE file[d][q])
  BY DEF IInv, TypeInv, WorkerInv
<1>2. Opened \in Files /\ Opened.run = run
  BY DEF IInv, TypeInv, Opened, Files
<1>3. TypeInv'
  BY <1>2 DEF IInv, TypeInv
<1>4. WorkerInv'
  BY <1>1, RanksAreRanks DEF IInv, TypeInv, WorkerInv, Result, Chunk
<1>5. MergeInv' /\ ScoreInv'
  BY <1>1 DEF MergeInv, ScoreInv
<1>6. FileInv'
  BY <1>1, <1>2 DEF IInv, TypeInv, FileInv, Broken
<1>7. MetricsInv'
  BY <1>1 DEF IInv, MetricsInv, Broken
<1>8. EveryExampleOnce' /\ ScoresBelongToSamples'
  BY <1>1, ReportsStay
<1> QED
  BY <1>3, <1>4, <1>5, <1>6, <1>7, <1>8 DEF IInv

LEMMA ResultIsFile ==
    ASSUME TypeInv, NEW r \in 0 .. world - 1
    PROVE  Result(r) \in Files /\ Result(r).run = run
<1>1. Chunk(r) \subseteq Example
  <2>1. world \in Worlds
    BY DEF TypeInv
  <2>2. Chunk(r) = Upto(r) + 1 .. Upto(r + 1) /\ Upto(r) \in 0 .. N /\ Upto(r + 1) \in Upto(r) .. N
    BY <2>1, ChunksFollow
  <2> QED
    BY <2>2, Sizes DEF Example
<1> QED
  BY <1>1 DEF TypeInv, Result, Files

LEMMA WriteFileKeeps == ASSUME IInv, NEW r \in Rank, WriteFile(r) PROVE IInv'
<1> USE DEF WriteFile, job
<1>1. /\ pc = "join" /\ r < world
      /\ \A q \in Rank : worker'[q] = (IF q = r THEN "exited" ELSE worker[q])
      /\ \A d \in Data, q \in Rank :
            file'[d][q] = (IF d = data /\ q = r THEN Result(r) ELSE file[d][q])
      /\ file' = [file EXCEPT ![data][r] = Result(r)]
  BY DEF IInv, TypeInv, WorkerInv, Result
<1>2. r \in 0 .. world - 1
  BY <1>1, Sizes DEF IInv, TypeInv, Rank
<1>3. Result(r) \in Files /\ Result(r).run = run
  BY <1>2, ResultIsFile DEF IInv
<1>4. \A q : Result(q)' = Result(q)
  BY DEF Result, Chunk
<1> HIDE DEF WriteFile
<1>5. TypeInv'
  <2>1. file' \in [Data -> [Rank -> Files \cup {None}]]
    BY <1>1, <1>3 DEF IInv, TypeInv
  <2> QED
    BY <1>1, <2>1 DEF IInv, TypeInv, WriteFile
<1>6. WorkerInv'
  BY <1>1, <1>4, RanksAreRanks DEF IInv, TypeInv, WorkerInv, WriteFile
<1>7. MergeInv' /\ ScoreInv'
  BY <1>1 DEF MergeInv, ScoreInv, WriteFile
<1>8. FileInv'
  BY <1>1, <1>3 DEF IInv, TypeInv, FileInv, Broken, WriteFile
<1>9. MetricsInv'
  BY <1>1 DEF IInv, MetricsInv, Broken, WriteFile
<1>10. EveryExampleOnce' /\ ScoresBelongToSamples'
  BY <1>1, ReportsStay DEF WriteFile
<1> QED
  BY <1>5, <1>6, <1>7, <1>8, <1>9, <1>10 DEF IInv

LEMMA WorkerDiesKeeps == ASSUME IInv, NEW r \in Rank, WorkerDies(r) PROVE IInv'
<1> USE DEF WorkerDies, job
<1>1. /\ pc = "join" /\ r < world
      /\ \A q \in Rank : worker'[q] = (IF q = r THEN "died" ELSE worker[q])
  BY DEF IInv, TypeInv, WorkerInv
<1>2. TypeInv'
  BY DEF IInv, TypeInv
<1>3. WorkerInv'
  BY <1>1, RanksAreRanks DEF IInv, TypeInv, WorkerInv, Result, Chunk
<1>4. MergeInv' /\ ScoreInv'
  BY <1>1 DEF MergeInv, ScoreInv
<1>5. FileInv' /\ MetricsInv'
  BY <1>1 DEF IInv, FileInv, MetricsInv, Broken
<1>6. EveryExampleOnce' /\ ScoresBelongToSamples'
  BY <1>1, ReportsStay
<1> QED
  BY <1>2, <1>3, <1>4, <1>5, <1>6 DEF IInv
LEMMA JoinKeeps == ASSUME IInv, Join PROVE IInv'
<1> USE DEF Join, job, work
<1>1. TypeInv'
  BY DEF IInv, TypeInv
<1>2. WorkerInv'
  BY RanksAreRanks DEF IInv, TypeInv, WorkerInv, Result, Chunk
<1>3. MergeInv'
  <2>1. world \in Nat \ {0} /\ world \in Worlds
    BY Sizes DEF IInv, TypeInv
  <2>2. Upto(0) = 0
    BY <2>1, ChunksFollow
  <2>3. Own(Upto(0)) = <<>>
    BY <2>2 DEF Own
  <2>4. Own(Upto(next))' = merged'
    BY <2>3 DEF Own, Upto
  <2>5. DOMAIN merged' \subseteq Example
    OBVIOUS
  <2> QED
    BY <2>1, <2>4, <2>5 DEF MergeInv
<1>4. ScoreInv'
  BY DEF ScoreInv
<1>5. FileInv'
  <2>1. \A r \in Rank : 0 <= r
    BY Sizes DEF Rank
  <2> QED
    BY <2>1 DEF IInv, FileInv, Broken
<1>6. MetricsInv'
  BY DEF IInv, MetricsInv, Broken
<1>7. EveryExampleOnce' /\ ScoresBelongToSamples'
  BY ReportsStay
<1> QED
  BY <1>1, <1>2, <1>3, <1>4, <1>5, <1>6, <1>7 DEF IInv

LEMMA MergeFileKeeps == ASSUME IInv, MergeFile PROVE IInv'
<1> DEFINE f == file[data][next]
<1>1. /\ pc = "merge" /\ next < world /\ f # None /\ f.whole /\ merged' = MergedWith(f)
      /\ file' = [file EXCEPT ![data][next] = None] /\ next' = next + 1
      /\ UNCHANGED <<run, world, blank, pc, data, worker, died, scores, metrics>>
  BY DEF MergeFile, job
<1>2. /\ world \in Worlds /\ world \in Nat \ {0} /\ next \in 0 .. world - 1
      /\ next \in Rank /\ f \in Files
  <2>1. world \in Worlds /\ world \in Nat \ {0} /\ next \in Nat
    BY Sizes DEF IInv, TypeInv
  <2>2. next \in 0 .. world - 1
    BY <1>1, <2>1
  <2>3. next \in Rank
    BY <2>1, <2>2, RanksAreRanks
  <2> QED
    BY <1>1, <2>1, <2>2, <2>3 DEF IInv, TypeInv
<1>3. \A d \in Data, r \in Rank :
        file'[d][r] = (IF d = data /\ r = next THEN None ELSE file[d][r])
  BY <1>1, <1>2 DEF IInv, TypeInv
<1>4. TypeInv'
  BY <1>1, <1>2 DEF IInv, TypeInv
<1>5. WorkerInv'
  <2>1. \A q : Result(q)' = Result(q)
    BY <1>1 DEF Result, Chunk
  <2>2. \A r \in 0 .. world - 1 : next + 1 <= r => next <= r /\ r # next /\ r \in Rank
    BY <1>2, RanksAreRanks
  <2>3. data \in Data
    BY DEF IInv, TypeInv
  <2> QED
    BY <1>1, <1>3, <2>1, <2>2, <2>3 DEF IInv, WorkerInv
<1>6. /\ DOMAIN merged' = f.examples \cup DOMAIN merged
      /\ merged' = [i \in f.examples \cup DOMAIN merged |->
                       IF i \in f.examples THEN f.run ELSE merged[i]]
  BY <1>1 DEF MergedWith
<1>7. DOMAIN merged' \subseteq Example
  BY <1>1, <1>2, <1>6 DEF IInv, MergeInv, Files
<1>8. ASSUME data \notin died PROVE merged' = Own(Upto(next + 1))
  <2>1. merged = Own(Upto(next)) /\ f = Result(next)
    <3>1. worker[next] \in {"off", "running", "writing", "exited", "died"}
      BY <1>2 DEF IInv, TypeInv
    <3>2. worker[next] = "exited"
      BY <1>1, <1>2, <1>8, <3>1 DEF IInv, WorkerInv
    <3>3. f = Result(next)
      BY <1>1, <1>2, <3>2 DEF IInv, WorkerInv
    <3> QED
      BY <1>1, <1>8, <3>3 DEF IInv, MergeInv
  <2> DEFINE a == Upto(next)
             b == Upto(next + 1)
  <2>2. /\ Chunk(next) = a + 1 .. b /\ a \in 0 .. N /\ b \in a .. N
    BY <1>2, ChunksFollow
  <2>3. f.examples = (a + 1 .. b) \ blank /\ f.run = run
    BY <2>1, <2>2 DEF Result
  <2>4. DOMAIN merged = (1 .. a) \ blank /\ \A i \in DOMAIN merged : merged[i] = run
    BY <2>1 DEF Own
  <2> HIDE DEF a, b, f
  <2>5. (1 .. a) \cup (a + 1 .. b) = 1 .. b
    BY <2>2, Sizes
  <2>6. f.examples \cup DOMAIN merged = (1 .. b) \ blank
    BY <2>3, <2>4, <2>5
  <2>7. merged' = [i \in (1 .. b) \ blank |-> run]
    BY <1>6, <2>3, <2>4, <2>6
  <2> QED
    BY <2>7 DEF Own, b
<1>9. MergeInv'
  <2>1. next + 1 <= world
    BY <1>2
  <2>2. Own(Upto(next))' = Own(Upto(next + 1))
    BY <1>1 DEF Own, Upto
  <2> QED
    BY <1>1, <1>7, <1>8, <2>1, <2>2 DEF MergeInv
<1>10. ScoreInv'
  BY <1>1 DEF ScoreInv
<1>11. FileInv'
  <2>1. \A r \in Rank : next <= r /\ r # next => next + 1 <= r
    BY <1>2, Sizes DEF Rank
  <2> QED
    BY <1>1, <1>3, <2>1 DEF IInv, FileInv, Broken
<1>12. MetricsInv'
  BY <1>1 DEF IInv, MetricsInv, Broken
<1>13. EveryExampleOnce' /\ ScoresBelongToSamples'
  BY <1>1, ReportsStay
<1> QED
  BY <1>4, <1>5, <1>9, <1>10, <1>11, <1>12, <1>13 DEF IInv

LEMMA FailureKeeps ==
    ASSUME IInv, pc \notin Ended, pc # "join", pc' \in {"failed"},
           UNCHANGED <<job, data, work, next, merged, scores, metrics>>
    PROVE  IInv'
<1> USE DEF job, work
<1>1. TypeInv'
  BY DEF IInv, TypeInv, Ended
<1>2. WorkerInv' /\ MergeInv' /\ ScoreInv'
  BY DEF IInv, WorkerInv, MergeInv, ScoreInv
<1>3. FileInv' /\ MetricsInv'
  BY DEF IInv, FileInv, MetricsInv, Broken
<1>4. EveryExampleOnce' /\ ScoresBelongToSamples'
  BY ReportsStay
<1> QED
  BY <1>1, <1>2, <1>3, <1>4 DEF IInv

LEMMA MergeFailsKeeps == ASSUME IInv, MergeFails PROVE IInv'
  BY FailureKeeps DEF MergeFails, Ended

LEMMA VerdictFailsKeeps == ASSUME IInv, VerdictFails PROVE IInv'
  BY FailureKeeps DEF VerdictFails, Ended

LEMMA KillKeeps == ASSUME IInv, Kill PROVE IInv'
<1> USE DEF Kill, job
<1>1. TypeInv'
  BY DEF IInv, TypeInv, Ended, Idle
<1>2. WorkerInv' /\ MergeInv' /\ ScoreInv'
  BY DEF IInv, WorkerInv, MergeInv, ScoreInv, Idle
<1>3. FileInv' /\ MetricsInv'
  BY DEF IInv, FileInv, MetricsInv, Broken
<1>4. EveryExampleOnce' /\ ScoresBelongToSamples'
  BY ReportsStay
<1> QED
  BY <1>1, <1>2, <1>3, <1>4 DEF IInv

\* What the files and the metrics hold is now of an earlier run.
LEMMA RestartKeeps == ASSUME IInv, Restart PROVE IInv'
<1> USE DEF Restart
<1>1. run \in Nat /\ run' = run + 1 /\ pc' = "start" /\ data' = 1
  BY DEF IInv, TypeInv
<1>2. TypeInv'
  <2>1. 1 \in Data
    BY Sizes DEF Data
  <2> QED
    BY <2>1 DEF IInv, TypeInv, Idle
<1>3. WorkerInv' /\ MergeInv' /\ ScoreInv'
  BY DEF WorkerInv, MergeInv, ScoreInv, Idle
<1>4. FileInv'
  <2> SUFFICES ASSUME NEW d \in Data, NEW r \in Rank, file[d][r] # None
               PROVE  file[d][r].run <= run' /\ file[d][r].run # run'
    BY DEF FileInv
  <2>1. file[d][r].run \in Nat /\ file[d][r].run <= run
    BY DEF IInv, TypeInv, FileInv, Files
  <2> QED
    BY <1>1, <2>1
<1>5. \A d \in Data : metrics[d] # None => metrics[d].run \in Nat /\ metrics[d].run <= run
  BY DEF IInv, MetricsInv
<1>6. \A d \in Data : metrics[d] # None => metrics[d].run <= run' /\ metrics[d].run # run'
  BY <1>1, <1>5
<1>7. MetricsInv'
  BY <1>1, <1>5, <1>6 DEF MetricsInv, Broken
<1>8. EveryExampleOnce'
  BY <1>6 DEF EveryExampleOnce
<1>9. ScoresBelongToSamples'
  BY DEF IInv, ScoresBelongToSamples
<1> QED
  BY <1>2, <1>3, <1>4, <1>7, <1>8, <1>9 DEF IInv

LEMMA SamplesStay ==
    ASSUME UNCHANGED merged
    PROVE  Samples' = Samples /\ NAnswers' = NAnswers /\ \A n : Answer(n)' = Answer(n)
<1>1. Samples' = Samples
  BY DEF Samples
<1> QED
  BY <1>1 DEF NAnswers, Answer

LEMMA StartScoringKeeps == ASSUME IInv, StartScoring PROVE IInv'
<1> USE DEF StartScoring, job, work
<1>1. /\ pc = "merge" /\ next = world /\ world \in Worlds /\ world \in Nat
      /\ DOMAIN merged \subseteq Example
      /\ data \notin died => merged = Own(N)
  <2>1. world \in Worlds /\ world \in Nat
    BY Sizes DEF IInv, TypeInv
  <2>2. Upto(world) = N
    BY DEF Upto
  <2> QED
    BY <2>1, <2>2 DEF IInv, MergeInv
<1>2. TypeInv'
  BY DEF IInv, TypeInv, Ended
<1>3. WorkerInv'
  BY <1>1 DEF IInv, WorkerInv
<1>4. MergeInv'
  BY <1>1 DEF MergeInv, Own
<1>5. ScoreInv'
  <2>1. NAnswers' = NAnswers /\ NAnswers \in Nat
    <3>1. Len(Samples) \in Nat
      BY <1>1, SamplesAreMerged
    <3> QED
      BY <3>1, Sizes, SamplesStay DEF NAnswers
  <2>2. scores' \in Scored' /\ Len(scores') = 0
    BY DEF Scored
  <2> QED
    BY <1>1, <2>1, <2>2 DEF ScoreInv
<1>6. FileInv' /\ MetricsInv'
  <2>1. \A r \in Rank : ~(r < world /\ next <= r)
    BY <1>1, Sizes DEF Rank
  <2>2. FileInv'
    BY <1>1, <2>1 DEF IInv, FileInv, Broken
  <2> QED
    BY <1>1, <2>2 DEF IInv, MetricsInv, Broken
<1>7. pc' = "AssertionError" => data' \in died' \/ blank = Example
  <2>1. SUFFICES ASSUME DOMAIN merged = {}, data \notin died PROVE blank = Example
    OBVIOUS
  <2>2. (1 .. N) \ blank = {}
    BY <1>1, <2>1 DEF Own
  <2> QED
    BY <2>2 DEF IInv, TypeInv, Example
<1>8. EveryExampleOnce' /\ ScoresBelongToSamples'
  BY <1>7, ReportsStay
<1> QED
  BY <1>2, <1>3, <1>4, <1>5, <1>6, <1>8 DEF IInv

LEMMA AppendOne ==
    ASSUME NEW S, NEW q \in Seq(S), NEW x \in S
    PROVE  /\ Append(q, x) \in Seq(S) /\ Len(Append(q, x)) = Len(q) + 1 /\ Len(q) \in Nat
           /\ \A i \in 1 .. Len(q) : Append(q, x)[i] = q[i]
           /\ Append(q, x)[Len(q) + 1] = x
  OBVIOUS

LEMMA VerdictKeeps == ASSUME IInv, Verdict PROVE IInv'
<1> DEFINE S == Example \X (1 .. K)
           n == next - world + 1
<1>1. /\ pc = "score" /\ pc' = "score" /\ next < world + NAnswers /\ next' = next + 1
      /\ scores' = Append(scores, Answer(n))
      /\ UNCHANGED <<run, world, blank, data, worker, died, file, merged, metrics>>
  BY DEF Verdict, job, work
<1>2. /\ world \in Nat /\ next \in world .. world + NAnswers /\ Len(scores) = next - world
      /\ scores \in Seq(S) /\ DOMAIN merged \subseteq Example
      /\ \A m \in 1 .. Len(scores) : scores[m] = Answer(m)
  BY <1>1, Sizes DEF IInv, TypeInv, ScoreInv, MergeInv, Scored
<1>3. NAnswers \in Nat
  <2>1. Len(Samples) \in Nat
    BY <1>2, SamplesAreMerged
  <2> QED
    BY <2>1, Sizes DEF NAnswers
<1>4. n \in 1 .. NAnswers /\ n = Len(scores) + 1
  BY <1>1, <1>2, <1>3
<1>5. scores \in Seq(S) /\ Answer(n) \in S
  BY <1>2, <1>4, AnswersAreTyped
<1> HIDE DEF S, n
<1>6. /\ scores' \in Seq(S) /\ Len(scores') = Len(scores) + 1 /\ Len(scores) \in Nat
      /\ \A i \in 1 .. Len(scores) : scores'[i] = scores[i]
      /\ scores'[Len(scores) + 1] = Answer(n)
  BY <1>1, <1>5, AppendOne
<1>7. ScoreInv'
  <2>1. NAnswers' = NAnswers /\ \A m : Answer(m)' = Answer(m)
    BY <1>1, SamplesStay
  <2>2. \A m \in 1 .. Len(scores') : scores'[m] = Answer(m)
    BY <1>2, <1>4, <1>6
  <2>3. next' \in world .. world + NAnswers /\ Len(scores') = next' - world
    BY <1>1, <1>2, <1>3, <1>6
  <2>4. scores' \in Scored'
    BY <1>6 DEF Scored, S
  <2> QED
    BY <1>1, <2>1, <2>2, <2>3, <2>4 DEF ScoreInv
<1>8. TypeInv'
  BY <1>1 DEF IInv, TypeInv
<1>9. WorkerInv' /\ MergeInv' /\ FileInv' /\ MetricsInv'
  BY <1>1 DEF IInv, WorkerInv, MergeInv, FileInv, MetricsInv, Broken, Own
<1>10. EveryExampleOnce' /\ ScoresBelongToSamples'
  BY <1>1, ReportsStay
<1> QED
  BY <1>7, <1>8, <1>9, <1>10 DEF IInv

\* The assertion on the number of verdicts holds, and what is reported is what
\* was merged, each sample with the verdicts on its own answers.
LEMMA ReportKeeps == ASSUME IInv, Report PROVE IInv'
<1> DEFINE own == {<<Samples[s], SliceOf(s)>> : s \in DOMAIN Samples}
           report == [run |-> run, samples |-> merged, scores |-> own]
           Verdicts(D) == {<<i, [j \in 1 .. K |-> <<i, j>>]>> : i \in D}
<1>1. /\ pc = "score" /\ next = world + NAnswers /\ DOMAIN merged \subseteq Example
      /\ scores \in Scored /\ Len(scores) = next - world
      /\ \A n \in 1 .. Len(scores) : scores[n] = Answer(n)
      /\ data \notin died => merged = Own(N)
  BY DEF Report, IInv, MergeInv, ScoreInv
<1>2. Len(scores) = NAnswers
  <2>1. NAnswers \in Nat /\ world \in Nat
    <3>1. Len(Samples) \in Nat /\ world \in Nat
      BY <1>1, SamplesAreMerged, Sizes DEF IInv, TypeInv
    <3> QED
      BY <3>1, Sizes DEF NAnswers
  <2> QED
    BY <1>1, <2>1
<1>3. \A s \in DOMAIN Samples :
        SliceOf(s) = [j \in 1 .. K |-> <<Samples[s], j>>] /\ Len(SliceOf(s)) = K
  BY <1>1, <1>2, SlicesAreOwn
<1>4. /\ metrics' = [metrics EXCEPT ![data] = report]
      /\ pc' = (IF data < NData THEN "start" ELSE "done")
      /\ data' = (IF data < NData THEN data + 1 ELSE data) /\ next' = 0 /\ worker' = Idle
      /\ UNCHANGED <<run, world, blank, died, file, merged, scores>>
  BY <1>3 DEF Report, job
<1>5. own = Verdicts(DOMAIN merged)
  <2>1. /\ \A i \in DOMAIN Samples : Samples[i] \in DOMAIN merged
        /\ \A x \in DOMAIN merged : \E i \in DOMAIN Samples : Samples[i] = x
    BY <1>1, SamplesAreMerged
  <2>2. own = {<<Samples[s], [j \in 1 .. K |-> <<Samples[s], j>>]>> : s \in DOMAIN Samples}
    BY <1>3
  <2> DEFINE V(i) == <<i, [j \in 1 .. K |-> <<i, j>>]>>
  <2>3. own = {V(Samples[s]) : s \in DOMAIN Samples} /\ Verdicts(DOMAIN merged) = {V(i) : i \in DOMAIN merged}
    BY <2>2
  <2> HIDE DEF V, own, Verdicts
  <2> QED
    BY <2>1, <2>3
<1>6. report.run = run /\ report.samples = merged /\ report.scores = Verdicts(DOMAIN report.samples)
  BY <1>5
<1> HIDE DEF report, own
<1>7. /\ data \in Data /\ NData \in Nat \ {0} /\ data \in 1 .. NData /\ DOMAIN metrics = Data
      /\ run \in Nat
  BY Sizes DEF IInv, TypeInv, Data
<1>8. \A d \in Data : metrics'[d] = (IF d = data THEN report ELSE metrics[d])
  BY <1>4, <1>7
<1>9. TypeInv'
  <2>1. data' \in Data
    BY <1>4, <1>7 DEF Data
  <2> QED
    BY <1>4, <1>7, <2>1 DEF IInv, TypeInv, Idle, Ended
<1>10. WorkerInv' /\ MergeInv' /\ ScoreInv'
  BY <1>4 DEF WorkerInv, MergeInv, ScoreInv, Idle
<1>11. FileInv'
  BY <1>1, <1>4 DEF IInv, FileInv, Broken
<1>12. MetricsInv'
  <2>1. \A d \in Data : metrics'[d] # None => metrics'[d].run \in Nat /\ metrics'[d].run <= run
    <3>1. report.run \in Nat /\ report.run <= run
      BY <1>6, <1>7
    <3>2. \A d \in Data : metrics[d] # None => metrics[d].run \in Nat /\ metrics[d].run <= run
      BY DEF IInv, MetricsInv
    <3> QED
      BY <1>8, <3>1, <3>2
  <2>2. \A d \in 1 .. data : metrics'[d].run = run
    <3>1. \A d \in 1 .. data - 1 : metrics[d].run = run /\ d \in Data /\ d # data
      BY <1>1, <1>7 DEF IInv, MetricsInv, Broken, Data
    <3>2. \A d \in 1 .. data : d = data \/ d \in 1 .. data - 1
      BY <1>7
    <3> QED
      BY <1>6, <1>7, <1>8, <3>1, <3>2
  <2>3. \A d \in 1 .. data' - 1 : d \in 1 .. data
    BY <1>4, <1>7
  <2>4. pc' = "done" => data' = NData /\ data' = data /\ data \in 1 .. data
    BY <1>4, <1>7
  <2> QED
    BY <1>4, <2>1, <2>2, <2>3, <2>4 DEF MetricsInv
<1>13. EveryExampleOnce'
  <2> SUFFICES ASSUME NEW d \in Data, metrics'[d] # None, metrics'[d].run = run, d \notin died
               PROVE  metrics'[d].samples = [i \in Example \ blank |-> run]
    BY <1>4 DEF EveryExampleOnce
  <2>1. CASE d = data
    BY <1>1, <1>6, <1>8, <2>1 DEF Own, Example
  <2>2. CASE d # data
    BY <1>8, <2>2 DEF IInv, EveryExampleOnce
  <2> QED
    BY <2>1, <2>2
<1>14. ScoresBelongToSamples'
  <2>1. ASSUME NEW d \in Data, metrics'[d] # None
        PROVE  metrics'[d].scores = Verdicts(DOMAIN metrics'[d].samples)
    <3>1. CASE d = data
      BY <1>6, <1>8, <3>1
    <3>2. CASE d # data
      BY <1>8, <2>1, <3>2 DEF IInv, ScoresBelongToSamples
    <3> QED
      BY <3>1, <3>2
  <2>2. pc' # "AssertionError"
    BY <1>4
  <2> QED
    BY <2>1, <2>2 DEF ScoresBelongToSamples
<1> QED
  BY <1>9, <1>10, <1>11, <1>12, <1>13, <1>14 DEF IInv

LEMMA InvariantKept == IInv /\ [Next]_vars => IInv'
<1> SUFFICES ASSUME IInv, [Next]_vars PROVE IInv'
  OBVIOUS
<1>1. CASE Spawn \/ Join \/ MergeFile \/ MergeFails \/ StartScoring
  BY <1>1, SpawnKeeps, JoinKeeps, MergeFileKeeps, MergeFailsKeeps, StartScoringKeeps
<1>2. CASE Verdict \/ VerdictFails \/ Report
  BY <1>2, VerdictKeeps, VerdictFailsKeeps, ReportKeeps
<1>3. ASSUME NEW r \in Rank, OpenFile(r) \/ WriteFile(r) \/ WorkerDies(r) PROVE IInv'
  BY <1>3, OpenFileKeeps, WriteFileKeeps, WorkerDiesKeeps
<1>4. CASE Kill \/ Restart
  BY <1>4, KillKeeps, RestartKeeps
<1>5. CASE UNCHANGED vars
  <2>1. TypeInv' /\ WorkerInv' /\ MergeInv' /\ FileInv' /\ MetricsInv'
    BY <1>5 DEF IInv, vars, TypeInv, WorkerInv, MergeInv, FileInv, MetricsInv,
                Result, Chunk, Own, Upto
  <2>2. ScoreInv'
    <3>1. NAnswers' = NAnswers /\ \A n : Answer(n)' = Answer(n)
      BY <1>5, SamplesStay DEF vars
    <3> QED
      BY <1>5, <3>1 DEF IInv, vars, ScoreInv, Scored
  <2>3. EveryExampleOnce' /\ ScoresBelongToSamples'
    BY <1>5 DEF IInv, vars, EveryExampleOnce, ScoresBelongToSamples
  <2> QED
    BY <2>1, <2>2, <2>3 DEF IInv
<1> QED
  BY <1>1, <1>2, <1>3, <1>4, <1>5 DEF Next, Work, Over

LEMMA InvariantHolds == Spec => []IInv
  BY InitHolds, InvariantKept, PTL DEF Spec

-----------------------------------------------------------------------------
(***************************************************************************)
(* The theorems.                                                           *)
(***************************************************************************)

\* What a run whose workers all survived reports is about every question once
\* and about its own answers, however the examples divide among the devices.
THEOREM EveryExampleIsReported == Spec => []EveryExampleOnce
<1>1. IInv => EveryExampleOnce
  BY DEF IInv
<1> QED
  BY <1>1, InvariantHolds, PTL

\* Every sample is scored by the verdicts on its own answers, in their order,
\* and the assertion on their number never fails while the workers survive
\* and there is a question.
THEOREM VerdictsStayWithSamples == Spec => []ScoresBelongToSamples
<1>1. IInv => ScoresBelongToSamples
  BY DEF IInv
<1> QED
  BY <1>1, InvariantHolds, PTL

\* A run that ends with its summary has reported on every data set and leaves
\* no file of its own.
THEOREM RunsCleanUp == Spec => []NothingLeftBehind
<1>1. IInv => NothingLeftBehind
  <2> SUFFICES ASSUME IInv, pc = "done", NEW d \in Data
               PROVE  /\ metrics[d].run = run
                      /\ \A r \in Rank : file[d][r] # None => file[d][r].run # run
    BY DEF NothingLeftBehind
  <2>1. data = NData /\ metrics[data].run = run /\ \A e \in 1 .. data - 1 : metrics[e].run = run
    BY DEF IInv, MetricsInv, Broken
  <2>2. d = data \/ d \in 1 .. data - 1
    BY <2>1, Sizes DEF Data
  <2> QED
    BY <2>1, <2>2 DEF IInv, FileInv, Broken
<1> QED
  BY <1>1, InvariantHolds, PTL

=============================================================================
