------------------------ MODULE TrainingBatchProofs -------------------------
(***************************************************************************)
(* Theorems about TrainingBatch for any number of ranks, groups, prompts,  *)
(* responses, mini and micro batches.                                      *)
(***************************************************************************)
EXTENDS TrainingBatch, SumTheorems, SequenceTheorems, TLAPS

-----------------------------------------------------------------------------
(* Sequences in an order.                                                  *)

LEMMA EagerIs ==
    ASSUME NEW n \in Nat, NEW s, s = [i \in 1..n |-> s[i]]
    PROVE  Eager(s) = s /\ s \in Seq({s[i] : i \in 1..n}) /\ Len(s) = n
<1> DEFINE X == {s[i] : i \in 1..n}
<1>1. s \in [1..n -> X]
  OBVIOUS
<1> HIDE DEF X
<1>2. s \in Seq(X) /\ Len(s) = n
  BY <1>1, IsASeq, LenProperties
<1>3. <<>> \o s = s
  BY <1>2, ConcatEmptySeq
<1> QED
  BY <1>2, <1>3 DEF Eager, X

\* R puts the elements of S one before the other.
Orders(R, S) ==
    /\ \A x \in S : <<x, x>> \notin R
    /\ \A x, y \in S : x = y \/ <<x, y>> \in R \/ <<y, x>> \in R
    /\ \A x, y, z \in S : <<x, y>> \in R /\ <<y, z>> \in R => <<x, z>> \in R

\* o goes through S once.
Through(o, S) ==
    /\ o \in [1..Cardinality(S) -> S] /\ o \in Seq(S) /\ Len(o) = Cardinality(S)
    /\ \A x \in S : \E i \in 1..Cardinality(S) : o[i] = x
    /\ \A i, j \in 1..Cardinality(S) : o[i] = o[j] => i = j

LEMMA InOrderIs ==
    ASSUME NEW S, IsFiniteSet(S), NEW R, Orders(R, S)
    PROVE  /\ Through(InOrder(S, R), S)
           /\ \A i, j \in 1..Cardinality(S) :
                  i < j => <<InOrder(S, R)[i], InOrder(S, R)[j]>> \in R
<1> DEFINE n == Cardinality(S)
           Before(x) == {y \in S : <<y, x>> \in R}
           place == [x \in S |-> Cardinality(Before(x)) + 1]
           o == [i \in 1..n |-> CHOOSE x \in S : Cardinality(Before(x)) = i - 1]
<1>1. n \in Nat /\ \A x \in S : /\ IsFiniteSet(Before(x)) /\ Before(x) \subseteq S
                                /\ Cardinality(Before(x)) \in Nat
  <2>1. \A T \in SUBSET S : IsFiniteSet(T) /\ Cardinality(T) \in Nat
    BY FS_Subset, FS_CardinalityType
  <2> QED
    BY <2>1
<1>2. \A x, y \in S : <<x, y>> \in R => place[x] < place[y]
  <2> SUFFICES ASSUME NEW x \in S, NEW y \in S, <<x, y>> \in R
               PROVE  Cardinality(Before(x)) < Cardinality(Before(y))
    BY <1>1, SMTT(30)
  <2>1. Before(x) \cup {x} \subseteq Before(y) /\ x \notin Before(x)
    BY DEF Orders
  <2>2. Cardinality(Before(x) \cup {x}) = Cardinality(Before(x)) + 1
    BY <1>1, <2>1, FS_AddElement
  <2>3. Cardinality(Before(x) \cup {x}) <= Cardinality(Before(y))
    BY <1>1, <2>1, FS_Subset
  <2> QED
    BY <1>1, <2>2, <2>3
<1>3. place \in [S -> 1..n]
  <2>1. ASSUME NEW x \in S PROVE Cardinality(Before(x)) + 1 <= n
    <3>1. x \notin Before(x) /\ Before(x) \cup {x} \subseteq S
      BY DEF Orders
    <3>2. Cardinality(Before(x) \cup {x}) = Cardinality(Before(x)) + 1
      BY <1>1, <3>1, FS_AddElement
    <3>3. Cardinality(Before(x) \cup {x}) <= n
      BY <3>1, FS_Subset
    <3> QED
      BY <3>2, <3>3
  <2>2. \A x \in S : Cardinality(Before(x)) + 1 \in 1..n
    <3> HIDE DEF Before, n
    <3> QED
      BY <1>1, <2>1
  <2> QED
    BY <2>2
<1> HIDE DEF Before
<1>4. \A x, y \in S : place[x] = place[y] => x = y
  <2>1. \A x \in S : place[x] \in Nat
    BY <1>1, <1>3
  <2> HIDE DEF place
  <2>2. \A x, y \in S : <<x, y>> \in R => place[x] # place[y]
    BY <1>2, <2>1
  <2> QED
    BY <2>2, Zenon DEF Orders
<1>5. \A i \in 1..n : \E x \in S : place[x] = i
  <2> HIDE DEF place
  <2>1. place \in Injection(S, 1..n)
    BY <1>3, <1>4 DEF Injection, IsInjective
  <2>2. IsFiniteSet(1..n) /\ Cardinality(1..n) = n
    BY <1>1, FS_Interval
  <2>3. place \in Surjection(S, 1..n)
    BY <2>1, <2>2, FS_Injection
  <2> QED
    BY <2>3 DEF Surjection
<1>6. \A i \in 1..n : o[i] \in S /\ place[o[i]] = i
  <2> SUFFICES ASSUME NEW i \in 1..n PROVE o[i] \in S /\ place[o[i]] = i
    OBVIOUS
  <2>1. \E x \in S : Cardinality(Before(x)) = i - 1
    BY <1>1, <1>5
  <2>2. o[i] \in S /\ Cardinality(Before(o[i])) = i - 1
    BY <2>1
  <2> QED
    BY <1>1, <2>2
<1>7. InOrder(S, R) = Eager(o)
  BY Zenon DEF InOrder, Before
<1> HIDE DEF o
<1>8. o = [i \in 1..n |-> o[i]]
  BY DEF o
<1>9. Eager(o) = o
  BY <1>1, <1>8, EagerIs
<1>10. \A x \in S : o[place[x]] = x /\ place[x] \in 1..n
  BY <1>3, <1>4, <1>6
<1>11. ASSUME NEW i \in 1..n, NEW j \in 1..n, i < j PROVE <<o[i], o[j]>> \in R
  <2>1. place[o[i]] = i /\ place[o[j]] = j /\ o[i] \in S /\ o[j] \in S
    BY <1>6
  <2> HIDE DEF place
  <2>2. o[i] = o[j] \/ <<o[i], o[j]>> \in R \/ <<o[j], o[i]>> \in R
    BY <2>1 DEF Orders
  <2>3. <<o[j], o[i]>> \in R => j < i
    BY <1>2, <2>1
  <2>4. o[i] = o[j] => i = j
    BY <2>1
  <2> QED
    BY <1>1, <1>11, <2>2, <2>3, <2>4
<1>12. o \in [1..n -> S]
  BY <1>6, <1>8
<1>13. o \in Seq(S) /\ Len(o) = n
  BY <1>1, <1>12, IsASeq, LenProperties
<1>14. \A i, j \in 1..n : o[i] = o[j] => i = j
  BY <1>6
<1> HIDE DEF place
<1> QED
  BY <1>7, <1>9, <1>10, <1>11, <1>12, <1>13, <1>14 DEF Through

\* The numbers of a set in their order.
LEMMA AscendingIs ==
    ASSUME NEW S \in SUBSET Nat, IsFiniteSet(S)
    PROVE  Through(Ascending[S], S)
<1> DEFINE R == {p \in S \X S : p[1] < p[2]}
<1>1. Ascending[S] = InOrder(S, R)
  BY Zenon DEF Ascending
<1>2. \A i, j : <<i, j>> \in R <=> i \in S /\ j \in S /\ i < j
  OBVIOUS
<1> HIDE DEF R
<1>3. Orders(R, S)
  BY <1>2 DEF Orders
<1> QED
  BY <1>1, <1>3, InOrderIs

-----------------------------------------------------------------------------
(* Sets and states of sequences.                                           *)

TokenSet == [sum : Nat, items : SUBSET Nat, first : Nat]
FiniteTokenSet == {a \in TokenSet : IsFiniteSet(a.items)}

\* The order of SetLess, on numbers.
NumbersLess(x1, x2, x3, y1, y2, y3) ==
    x1 < y1 \/ (x1 = y1 /\ (x2 < y2 \/ (x2 = y2 /\ x3 < y3)))

LEMMA SetLessIs ==
    ASSUME NEW a \in FiniteTokenSet, NEW b \in FiniteTokenSet
    PROVE  /\ a.sum \in Nat /\ Cardinality(a.items) \in Nat /\ a.first \in Nat
           /\ SetLess(a, b) <=> NumbersLess(a.sum, Cardinality(a.items), a.first,
                                            b.sum, Cardinality(b.items), b.first)
<1>1. a \in TokenSet /\ b \in TokenSet /\ IsFiniteSet(a.items)
  BY DEF FiniteTokenSet
<1>2. Cardinality(a.items) \in Nat
  BY <1>1, FS_CardinalityType
<1> QED
  BY <1>1, <1>2 DEF SetLess, NumbersLess, TokenSet

LEMMA SetLessOrders ==
    ASSUME NEW a \in FiniteTokenSet, NEW b \in FiniteTokenSet, NEW c \in FiniteTokenSet
    PROVE  /\ ~SetLess(a, a)
           /\ SetLess(a, b) /\ SetLess(b, c) => SetLess(a, c)
           /\ SetLess(a, c) => SetLess(a, b) \/ SetLess(b, c)
           /\ SetLess(a, b) => ~SetLess(b, a)
           /\ ~SetLess(a, b) => b.sum <= a.sum
<1> DEFINE N(x, y) == NumbersLess(x.sum, Cardinality(x.items), x.first,
                                  y.sum, Cardinality(y.items), y.first)
<1>2. \A x, y \in FiniteTokenSet :
         /\ x.sum \in Nat /\ Cardinality(x.items) \in Nat /\ x.first \in Nat
         /\ SetLess(x, y) <=> N(x, y)
  BY SetLessIs
<1>3. ~N(a, a) /\ (N(a, b) => ~N(b, a)) /\ (~N(a, b) => b.sum <= a.sum)
  BY <1>2 DEF NumbersLess
<1>4. N(a, b) /\ N(b, c) => N(a, c)
  BY <1>2 DEF NumbersLess
<1>5. N(a, c) => N(a, b) \/ N(b, c)
  BY <1>2 DEF NumbersLess
<1> HIDE DEF N
<1> QED
  BY <1>2, <1>3, <1>4, <1>5

LEMMA LargerFirstOrders ==
    ASSUME NEW k \in Nat, NEW sets \in [1..k -> FiniteTokenSet]
    PROVE  Orders(LargerFirst(sets), 1..k)
<1> DEFINE L(i, j) == SetLess(sets[i], sets[j])
           R == LargerFirst(sets)
<1>1. \A i, j \in 1..k : <<i, j>> \in R <=> L(j, i) \/ (~L(i, j) /\ i < j)
  BY DEF LargerFirst
<1>2. \A i, j, l \in 1..k :
         /\ ~L(i, i) /\ (L(i, j) /\ L(j, l) => L(i, l))
         /\ (L(i, l) => L(i, j) \/ L(j, l)) /\ (L(i, j) => ~L(j, i))
  BY SetLessOrders
<1> HIDE DEF L, R
<1>3. ASSUME NEW i \in 1..k, NEW j \in 1..k, NEW l \in 1..k,
             <<i, j>> \in R, <<j, l>> \in R
      PROVE  <<i, l>> \in R
  <2>1. (L(j, i) \/ (~L(i, j) /\ i < j)) /\ (L(l, j) \/ (~L(j, l) /\ j < l))
    BY <1>1, <1>3
  <2>2. i < j /\ j < l => i < l
    OBVIOUS
  <2>3. L(l, i) \/ (~L(i, l) /\ i < l)
    BY <1>2, <2>1, <2>2
  <2> QED
    BY <1>1, <2>3
<1>4. \A i, j \in 1..k : i = j \/ <<i, j>> \in R \/ <<j, i>> \in R
  <2>1. \A i, j \in 1..k : i = j \/ i < j \/ j < i
    OBVIOUS
  <2> QED
    BY <1>1, <1>2, <2>1
<1>5. \A i \in 1..k : <<i, i>> \notin R
  BY <1>1, <1>2
<1> QED
  BY <1>3, <1>4, <1>5 DEF Orders, R

LEMMA StatesAre ==
    ASSUME NEW k \in Nat, NEW sets \in [1..k -> TokenSet]
    PROVE  /\ sets \in State /\ Len(sets) = k /\ DOMAIN sets = 1..k
           /\ sets = [i \in 1..k |-> sets[i]]
<1>1. sets \in Seq(TokenSet)
  BY IsASeq
<1>2. DOMAIN sets = 1..k
  OBVIOUS
<1>3. Len(sets) = k
  BY <1>1, <1>2, LenProperties
<1> QED
  BY <1>1, <1>2, <1>3 DEF State, TokenSet

\* The sets of a state, sorted: the same, in an order of falling sums.
LEMMA DecreasingIs ==
    ASSUME NEW k \in Nat, NEW sets \in [1..k -> FiniteTokenSet]
    PROVE  /\ Decreasing[sets] \in [1..k -> FiniteTokenSet]
           /\ \E o \in [1..k -> 1..k] :
                 /\ \A i \in 1..k : Decreasing[sets][i] = sets[o[i]]
                 /\ \A i \in 1..k : \E j \in 1..k : o[j] = i
                 /\ \A i, j \in 1..k : o[i] = o[j] => i = j
           /\ \A i, j \in 1..k : i < j => Decreasing[sets][j].sum <= Decreasing[sets][i].sum
<1>1. sets \in [1..k -> TokenSet]
  BY DEF FiniteTokenSet
<1>2. sets \in State /\ DOMAIN sets = 1..k
  BY <1>1, StatesAre
<1> DEFINE o == InOrder(1..k, LargerFirst(sets))
           d == [i \in 1..k |-> sets[o[i]]]
<1>3. Decreasing[sets] = Eager(d)
  BY <1>2, Zenon DEF Decreasing
<1>4. IsFiniteSet(1..k) /\ Cardinality(1..k) = k
  BY FS_Interval
<1>5. /\ Through(o, 1..k)
      /\ \A i, j \in 1..k : i < j => <<o[i], o[j]>> \in LargerFirst(sets)
  BY <1>4, LargerFirstOrders, InOrderIs
<1> HIDE DEF o
<1>6. o \in [1..k -> 1..k]
  BY <1>4, <1>5 DEF Through
<1>7. d = [i \in 1..k |-> d[i]] /\ d \in [1..k -> FiniteTokenSet]
  BY <1>6
<1>8. Eager(d) = d
  <2> HIDE DEF d
  <2> QED
    BY <1>7, EagerIs
<1>9. ASSUME NEW i \in 1..k, NEW j \in 1..k, i < j PROVE d[j].sum <= d[i].sum
  <2>1. SetLess(sets[o[j]], sets[o[i]]) \/ ~SetLess(sets[o[i]], sets[o[j]])
    BY <1>5, <1>9 DEF LargerFirst
  <2>2. o[i] \in 1..k /\ o[j] \in 1..k
    BY <1>6
  <2>3. ~SetLess(sets[o[i]], sets[o[j]])
    BY <2>1, <2>2, SetLessOrders
  <2>4. sets[o[j]].sum <= sets[o[i]].sum
    BY <2>2, <2>3, SetLessOrders
  <2> QED
    BY <2>4
<1>10. \A i \in 1..k : d[i] = sets[o[i]]
  OBVIOUS
<1> HIDE DEF d
<1>11. /\ \A i \in 1..k : \E j \in 1..k : o[j] = i
       /\ \A i, j \in 1..k : o[i] = o[j] => i = j
  BY <1>4, <1>5 DEF Through
<1>12. Decreasing[sets] = d
  BY <1>3, <1>8
<1> QED
  BY <1>6, <1>7, <1>9, <1>10, <1>11, <1>12

-----------------------------------------------------------------------------
(* The sets that largest differencing works with.  len is the lengths of   *)
(* the sequences, k the number of sets in a state, far how much the sums   *)
(* of two sets of a state may differ.                                      *)

Job(len, k, far) == len \in Seq(Nat \ {0}) /\ k \in Nat \ {0} /\ far \in Nat

\* s is a set of sequences with their lengths summed up.
SetOf(s, len) ==
    /\ s \in FiniteTokenSet
    /\ s.items \subseteq DOMAIN len
    /\ s.sum = SumFunctionOnSet(len, s.items)
    /\ s.items # {} => s.first \in s.items

LEMMA SetsAre ==
    ASSUME NEW len \in Seq(Nat \ {0}), NEW s, SetOf(s, len)
    PROVE  /\ s.sum \in Nat /\ s.first \in Nat
           /\ IsFiniteSet(s.items) /\ Cardinality(s.items) \in Nat
           /\ s.sum = 0 <=> s.items = {}
           /\ s.items = {} <=> Cardinality(s.items) = 0
<1>1. s \in FiniteTokenSet /\ IsFiniteSet(s.items) /\ s.items \subseteq DOMAIN len
  BY DEF SetOf, FiniteTokenSet
<1>2. s.sum \in Nat /\ s.first \in Nat /\ Cardinality(s.items) \in Nat
  BY <1>1, SetLessIs
<1>3. \A x \in s.items : len[x] \in Nat \ {0}
  BY <1>1
<1>4. s.items = {} <=> Cardinality(s.items) = 0
  BY <1>1, FS_EmptySet
<1>5. s.items = {} => s.sum = 0
  BY <1>1, SumRecursion DEF SetOf
<1>6. ASSUME NEW x \in s.items PROVE s.sum # 0
  <2>1. s.sum = len[x] + SumFunctionOnSet(len, s.items \ {x})
    BY <1>1, <1>3, SumTakes DEF SetOf
  <2>2. IsFiniteSet(s.items \ {x})
    BY <1>1, FS_Subset
  <2>3. SumFunctionOnSet(len, s.items \ {x}) \in Nat
    BY <1>3, <2>2, SumType
  <2> QED
    BY <1>3, <2>1, <2>3
<1> QED
  BY <1>1, <1>2, <1>4, <1>5, <1>6

LEMMA UnionIs ==
    ASSUME NEW len \in Seq(Nat \ {0}), NEW a, NEW b, SetOf(a, len), SetOf(b, len),
           a.items \cap b.items = {}
    PROVE  /\ SetOf(Union(a, b), len)
           /\ Union(a, b).items = a.items \cup b.items
           /\ Union(a, b).sum = a.sum + b.sum
           /\ Cardinality(Union(a, b).items) = Cardinality(a.items) + Cardinality(b.items)
<1> DEFINE u == Union(a, b)
<1>1. /\ a \in FiniteTokenSet /\ b \in FiniteTokenSet
      /\ IsFiniteSet(a.items) /\ IsFiniteSet(b.items)
      /\ a.items \subseteq DOMAIN len /\ b.items \subseteq DOMAIN len
  BY DEF SetOf, FiniteTokenSet
<1>2. /\ a.sum \in Nat /\ b.sum \in Nat /\ a.first \in Nat /\ b.first \in Nat
      /\ a.items \in SUBSET Nat /\ b.items \in SUBSET Nat
  BY <1>1 DEF FiniteTokenSet, TokenSet
<1>3. /\ u.sum = a.sum + b.sum /\ u.items = a.items \cup b.items
      /\ u.first = (IF a.items = {} THEN b.first ELSE a.first)
      /\ u = [sum |-> u.sum, items |-> u.items, first |-> u.first]
  BY DEF Union
<1> HIDE DEF u
<1>4. IsFiniteSet(u.items)
  BY <1>1, <1>3, FS_Union
<1>5. u \in FiniteTokenSet
  <2>1. u.sum \in Nat /\ u.items \in SUBSET Nat /\ u.first \in Nat
    BY <1>2, <1>3
  <2>2. u \in TokenSet
    BY <1>3, <2>1 DEF TokenSet
  <2> QED
    BY <1>4, <2>2 DEF FiniteTokenSet
<1>6. \A x \in a.items \cup b.items : len[x] \in Nat
  BY <1>1
<1>7. u.sum = SumFunctionOnSet(len, u.items)
  <2>1. SumFunctionOnSet(len, a.items \cup b.items) =
          SumFunctionOnSet(len, a.items) + SumFunctionOnSet(len, b.items)
    BY <1>1, <1>6, SumUnion
  <2> QED
    BY <1>3, <2>1 DEF SetOf
<1>8. Cardinality(u.items) = Cardinality(a.items) + Cardinality(b.items)
  <2>1. Cardinality(a.items) \in Nat /\ Cardinality(b.items) \in Nat
    BY <1>1, FS_CardinalityType
  <2>2. Cardinality(a.items \cup b.items) = Cardinality(a.items) + Cardinality(b.items)
         - Cardinality(a.items \cap b.items)
    BY <1>1, FS_Union
  <2>3. Cardinality(a.items \cap b.items) = 0
    BY FS_EmptySet
  <2> QED
    BY <1>3, <2>1, <2>2, <2>3
<1>9. u.items # {} => u.first \in u.items
  BY <1>3 DEF SetOf
<1> QED
  BY <1>1, <1>3, <1>5, <1>7, <1>8, <1>9 DEF SetOf, u

\* m has k sets that share no sequence and do not differ by more than far.
PartsOf(m, len, k, equal, far) ==
    /\ m \in [1..k -> FiniteTokenSet]
    /\ \A i \in 1..k : SetOf(m[i], len)
    /\ \A i, j \in 1..k : i # j => m[i].items \cap m[j].items = {}
    /\ \E i \in 1..k : m[i].items # {}
    /\ equal => \A i, j \in 1..k : Cardinality(m[i].items) = Cardinality(m[j].items)
    /\ \A i, j \in 1..k : m[i].sum <= m[j].sum + far
    /\ \A i, j \in 1..k : m[i].items = {} => Cardinality(m[j].items) <= 1

\* A state is sorted.
StateOf(a, len, k, equal, far) ==
    /\ PartsOf(a, len, k, equal, far)
    /\ \A i, j \in 1..k : i < j => a[j].sum <= a[i].sum

\* x is in one of the sets of a.
Has(a, x) == \E i \in DOMAIN a : x \in a[i].items

LEMMA SortedKeeps ==
    ASSUME NEW len, NEW k, NEW equal, NEW far, Job(len, k, far),
           NEW m, PartsOf(m, len, k, equal, far)
    PROVE  /\ StateOf(Decreasing[m], len, k, equal, far)
           /\ \A x : Has(Decreasing[m], x) <=> Has(m, x)
<1> DEFINE d == Decreasing[m]
<1>1. m \in [1..k -> FiniteTokenSet] /\ k \in Nat \ {0}
  BY DEF PartsOf, Job
<1>2. /\ d \in [1..k -> FiniteTokenSet]
      /\ \A i, j \in 1..k : i < j => d[j].sum <= d[i].sum
  BY <1>1, DecreasingIs
<1>3. PICK o \in [1..k -> 1..k] :
         /\ \A i \in 1..k : d[i] = m[o[i]]
         /\ \A i \in 1..k : \E j \in 1..k : o[j] = i
         /\ \A i, j \in 1..k : o[i] = o[j] => i = j
  <2>1. k \in Nat
    BY <1>1
  <2> QED
    BY <1>1, <2>1, DecreasingIs, Zenon
<1> HIDE DEF d
<1>4. \A i \in 1..k : o[i] \in 1..k /\ d[i] = m[o[i]]
  BY <1>3
<1>5. \A i \in 1..k : SetOf(d[i], len)
  BY <1>4 DEF PartsOf
<1>6. \A i, j \in 1..k : i # j => d[i].items \cap d[j].items = {}
  <2>1. \A i, j \in 1..k : i # j => o[i] # o[j]
    BY <1>3
  <2> QED
    BY <1>4, <2>1 DEF PartsOf
<1>7. \E i \in 1..k : d[i].items # {}
  BY <1>3, <1>4 DEF PartsOf
<1>8. equal => \A i, j \in 1..k : Cardinality(d[i].items) = Cardinality(d[j].items)
  BY <1>4 DEF PartsOf
<1>9. \A i, j \in 1..k : d[i].sum <= d[j].sum + far
  BY <1>4 DEF PartsOf
<1>10. \A i, j \in 1..k : d[i].items = {} => Cardinality(d[j].items) <= 1
  BY <1>4 DEF PartsOf
<1>11. \A x : Has(d, x) <=> Has(m, x)
  <2>1. DOMAIN d = 1..k /\ DOMAIN m = 1..k
    BY <1>1, <1>2
  <2>2. \A i \in 1..k : \E j \in 1..k : d[j] = m[i]
    BY <1>3, <1>4
  <2> QED
    BY <1>4, <2>1, <2>2, Zenon DEF Has
<1> QED
  BY <1>2, <1>5, <1>6, <1>7, <1>8, <1>9, <1>10, <1>11 DEF StateOf, PartsOf, d

LEMMA MergedKeeps ==
    ASSUME NEW len, NEW k, NEW equal, NEW far, Job(len, k, far),
           NEW a, NEW b, StateOf(a, len, k, equal, far), StateOf(b, len, k, equal, far),
           \A i, j \in 1..k : a[i].items \cap b[j].items = {}
    PROVE  /\ PartsOf(Merged(a, b), len, k, equal, far)
           /\ \A x : Has(Merged(a, b), x) <=> Has(a, x) \/ Has(b, x)
<1> DEFINE q(i) == k + 1 - i
           m == [i \in 1..k |-> Union(a[i], b[q(i)])]
<1>1. /\ k \in Nat \ {0} /\ len \in Seq(Nat \ {0}) /\ far \in Nat
      /\ a \in [1..k -> FiniteTokenSet] /\ b \in [1..k -> FiniteTokenSet]
  BY DEF StateOf, PartsOf, Job
<1>2. DOMAIN a = 1..k /\ Len(a) = k /\ DOMAIN b = 1..k
  <2>1. a \in [1..k -> TokenSet]
    BY <1>1 DEF FiniteTokenSet
  <2> QED
    BY <1>1, <2>1, StatesAre
<1>3. \A i, j \in 1..k : /\ q(i) \in 1..k /\ q(q(i)) = i
                         /\ (i < j => q(j) < q(i)) /\ (q(i) = q(j) => i = j)
  BY <1>1
<1> HIDE DEF q
<1>4. Merged(a, b) = m
  <2>1. Merged(a, b) = Eager(m)
    BY <1>2, Zenon DEF Merged, q
  <2>2. m = [i \in 1..k |-> m[i]]
    OBVIOUS
  <2> HIDE DEF m
  <2> QED
    BY <1>1, <2>1, <2>2, EagerIs
<1>5. \A i \in 1..k : SetOf(a[i], len) /\ SetOf(b[i], len)
  BY DEF StateOf, PartsOf
<1>6. \A i \in 1..k : m[i] = Union(a[i], b[q(i)])
  OBVIOUS
<1>7. m = [i \in 1..k |-> m[i]] /\ DOMAIN m = 1..k
  OBVIOUS
<1> HIDE DEF m
<1>8. ASSUME NEW i \in 1..k
      PROVE  /\ SetOf(m[i], len)
             /\ m[i].items = a[i].items \cup b[q(i)].items
             /\ m[i].sum = a[i].sum + b[q(i)].sum
             /\ Cardinality(m[i].items) = Cardinality(a[i].items) + Cardinality(b[q(i)].items)
  <2>1. q(i) \in 1..k
    BY <1>3
  <2>2. /\ SetOf(a[i], len) /\ SetOf(b[q(i)], len)
        /\ a[i].items \cap b[q(i)].items = {}
    BY <1>5, <2>1
  <2> QED
    BY <1>1, <1>6, <2>2, UnionIs
<1>9. \A i \in 1..k : /\ a[i].sum \in Nat /\ b[i].sum \in Nat
                      /\ Cardinality(a[i].items) \in Nat /\ Cardinality(b[i].items) \in Nat
                      /\ (a[i].sum = 0 <=> a[i].items = {})
                      /\ (b[i].sum = 0 <=> b[i].items = {})
                      /\ (a[i].items = {} <=> Cardinality(a[i].items) = 0)
                      /\ (b[i].items = {} <=> Cardinality(b[i].items) = 0)
  BY <1>1, <1>5, SetsAre
<1>10. m \in [1..k -> FiniteTokenSet]
  BY <1>7, <1>8 DEF SetOf
<1>11. \A i, j \in 1..k : i # j => m[i].items \cap m[j].items = {}
  <2> SUFFICES ASSUME NEW i \in 1..k, NEW j \in 1..k, i # j
               PROVE  m[i].items \cap m[j].items = {}
    OBVIOUS
  <2>1. a[i].items \cap a[j].items = {} /\ b[q(i)].items \cap b[q(j)].items = {}
    BY <1>3 DEF StateOf, PartsOf
  <2>2. a[i].items \cap b[q(j)].items = {} /\ a[j].items \cap b[q(i)].items = {}
    BY <1>3
  <2> QED
    BY <1>8, <2>1, <2>2
<1>12. \E i \in 1..k : m[i].items # {}
  <2>1. PICK i \in 1..k : a[i].items # {}
    BY DEF StateOf, PartsOf
  <2> QED
    BY <1>8, <2>1
<1>13. equal => \A i, j \in 1..k : Cardinality(m[i].items) = Cardinality(m[j].items)
  BY <1>3, <1>8 DEF StateOf, PartsOf
<1>14. ASSUME NEW i \in 1..k, NEW j \in 1..k PROVE m[i].sum <= m[j].sum + far
  <2>1. /\ a[i].sum <= a[j].sum + far /\ b[q(i)].sum <= b[q(j)].sum + far
        /\ (i < j => a[j].sum <= a[i].sum) /\ (j < i => a[i].sum <= a[j].sum)
        /\ (i < j => b[q(i)].sum <= b[q(j)].sum) /\ (j < i => b[q(j)].sum <= b[q(i)].sum)
    BY <1>3 DEF StateOf, PartsOf
  <2>2. i < j \/ j < i \/ i = j
    BY <1>1
  <2>3. /\ a[i].sum \in Nat /\ a[j].sum \in Nat /\ b[q(i)].sum \in Nat /\ b[q(j)].sum \in Nat
        /\ m[i].sum = a[i].sum + b[q(i)].sum /\ m[j].sum = a[j].sum + b[q(j)].sum
    BY <1>3, <1>8, <1>9
  <2>4. CASE i < j
    BY <1>1, <2>1, <2>3, <2>4, SMTT(30)
  <2>5. CASE j < i
    BY <1>1, <2>1, <2>3, <2>5, SMTT(30)
  <2>6. CASE i = j
    BY <1>1, <2>1, <2>3, <2>6
  <2> QED
    BY <2>2, <2>4, <2>5, <2>6
<1>15. ASSUME NEW i \in 1..k, NEW j \in 1..k, m[i].items = {}
       PROVE  Cardinality(m[j].items) <= 1
  <2>1. /\ a[i].items = {} /\ b[q(i)].items = {}
        /\ a[i].sum = 0 /\ b[q(i)].sum = 0
    BY <1>3, <1>8, <1>9, <1>15
  <2>2. Cardinality(a[j].items) <= 1 /\ Cardinality(b[q(j)].items) <= 1
    BY <1>3, <2>1 DEF StateOf, PartsOf
  <2>3. a[j].items # {} => ~(i < j)
    <3>1. i < j => a[j].sum <= a[i].sum
      BY DEF StateOf
    <3> QED
      BY <1>9, <2>1, <3>1
  <2>4. b[q(j)].items # {} => ~(j < i)
    <3>1. j < i => b[q(j)].sum <= b[q(i)].sum
      BY <1>3 DEF StateOf
    <3> QED
      BY <1>3, <1>9, <2>1, <3>1
  <2>5. a[j].items = {} \/ b[q(j)].items = {}
    <3>1. i < j \/ j < i \/ i = j
      BY <1>1
    <3> QED
      BY <2>1, <2>3, <2>4, <3>1
  <2> QED
    BY <1>3, <1>8, <1>9, <2>2, <2>5
<1>16. \A x : Has(m, x) <=> Has(a, x) \/ Has(b, x)
  BY <1>2, <1>3, <1>7, <1>8 DEF Has
<1>17. PartsOf(m, len, k, equal, far)
  BY <1>8, <1>10, <1>11, <1>12, <1>13, <1>14, <1>15 DEF PartsOf
<1> QED
  BY <1>4, <1>16, <1>17

-----------------------------------------------------------------------------
(* The heap of states.                                                     *)

\* The states share no sequence.
Apart(states, len, k, equal, far) ==
    /\ IsFiniteSet(states)
    /\ \A a \in states : StateOf(a, len, k, equal, far)
    /\ \A a, b \in states : a # b =>
           \A i, j \in 1..k : a[i].items \cap b[j].items = {}

LEMMA StateHasFirst ==
    ASSUME NEW len, NEW k, NEW equal, NEW far, Job(len, k, far),
           NEW a, StateOf(a, len, k, equal, far)
    PROVE  /\ a[1] \in FiniteTokenSet /\ a[1].first \in a[1].items
           /\ Spread(a) \in Int
           /\ a \in State /\ DOMAIN a = 1..k
<1>1. /\ k \in Nat \ {0} /\ len \in Seq(Nat \ {0}) /\ a \in [1..k -> FiniteTokenSet]
      /\ 1 \in 1..k
  BY DEF StateOf, PartsOf, Job
<1>2. a \in State /\ Len(a) = k /\ DOMAIN a = 1..k
  <2>1. a \in [1..k -> TokenSet]
    BY <1>1 DEF FiniteTokenSet
  <2> QED
    BY <1>1, <2>1, StatesAre
<1>3. \A i \in 1..k : a[i].sum \in Nat /\ (a[i].sum = 0 <=> a[i].items = {})
  <2>1. \A i \in 1..k : SetOf(a[i], len)
    BY DEF StateOf, PartsOf
  <2> QED
    BY <1>1, <2>1, SetsAre
<1>4. PICK i \in 1..k : a[i].items # {}
  BY DEF StateOf, PartsOf
<1>5. a[1].items # {}
  <2>1. i = 1 \/ 1 < i
    BY <1>1
  <2>2. 1 < i => a[i].sum <= a[1].sum
    BY <1>1 DEF StateOf
  <2> QED
    BY <1>1, <1>3, <1>4, <2>1, <2>2
<1>6. a[1].first \in a[1].items
  BY <1>1, <1>5 DEF StateOf, PartsOf, SetOf
<1>7. Spread(a) \in Int
  <2>1. k \in 1..k
    BY <1>1
  <2> QED
    BY <1>1, <1>2, <1>3, <2>1 DEF Spread
<1> QED
  BY <1>1, <1>2, <1>6, <1>7

LEMMA FirstIs ==
    ASSUME NEW len, NEW k, NEW equal, NEW far, Job(len, k, far),
           NEW states, states # {}, Apart(states, len, k, equal, far)
    PROVE  First(states) \in states
<1> DEFINE R == {p \in states \X states : StateLess(p[1], p[2])}
           Before(a, b) == StateLess(a, b)
<1>1. \A a, b : <<a, b>> \in R <=> a \in states /\ b \in states /\ Before(a, b)
  OBVIOUS
<1>2. \A a \in states : /\ a[1] \in FiniteTokenSet /\ a[1].first \in a[1].items
                        /\ Spread(a) \in Int
  <2>1. \A a \in states : StateOf(a, len, k, equal, far)
    BY DEF Apart
  <2> QED
    BY <2>1, StateHasFirst
<1>3. \A a, b \in states : Before(a, b) <=>
         \/ Spread(a) > Spread(b)
         \/ Spread(a) = Spread(b) /\ SetLess(b[1], a[1])
  BY DEF StateLess
<1> HIDE DEF R, Before
<1>4. \A a \in states : ~Before(a, a)
  BY <1>2, <1>3, SetLessOrders
<1>5. ASSUME NEW a \in states, NEW b \in states PROVE a = b \/ Before(a, b) \/ Before(b, a)
  <2> SUFFICES ASSUME a # b, Spread(a) = Spread(b)
               PROVE  SetLess(b[1], a[1]) \/ SetLess(a[1], b[1])
    BY <1>2, <1>3
  <2>1. a[1].items \cap b[1].items = {}
    <3>1. 1 \in 1..k
      BY DEF Job
    <3> QED
      BY <3>1 DEF Apart
  <2>2. a[1].first # b[1].first
    BY <1>2, <2>1
  <2> DEFINE x == a[1]
             y == b[1]
  <2>3. x \in FiniteTokenSet /\ y \in FiniteTokenSet /\ x.first # y.first
    BY <1>2, <2>2
  <2> HIDE DEF x, y
  <2>4. /\ x.sum \in Nat /\ Cardinality(x.items) \in Nat /\ x.first \in Nat
        /\ y.sum \in Nat /\ Cardinality(y.items) \in Nat /\ y.first \in Nat
        /\ SetLess(x, y) <=> NumbersLess(x.sum, Cardinality(x.items), x.first,
                                         y.sum, Cardinality(y.items), y.first)
        /\ SetLess(y, x) <=> NumbersLess(y.sum, Cardinality(y.items), y.first,
                                         x.sum, Cardinality(x.items), x.first)
    BY <2>3, SetLessIs
  <2>5. SetLess(y, x) \/ SetLess(x, y)
    BY <2>3, <2>4 DEF NumbersLess
  <2> QED
    BY <2>5 DEF x, y
<1>6. ASSUME NEW a \in states, NEW b \in states, NEW c \in states, Before(a, b), Before(b, c)
      PROVE  Before(a, c)
  <2>1. SetLess(c[1], b[1]) /\ SetLess(b[1], a[1]) => SetLess(c[1], a[1])
    BY <1>2, SetLessOrders
  <2> QED
    BY <1>2, <1>3, <1>6, <2>1
<1>7. Orders(R, states)
  BY <1>1, <1>4, <1>5, <1>6 DEF Orders
<1>8. IsFiniteSet(states)
  BY DEF Apart
<1> DEFINE o == InOrder(states, R)
           n == Cardinality(states)
<1>9. Through(o, states) /\ \A i, j \in 1..n : i < j => <<o[i], o[j]>> \in R
  BY <1>7, <1>8, InOrderIs
<1>10. n \in Nat /\ n # 0
  BY <1>8, FS_CardinalityType, FS_EmptySet
<1> HIDE DEF o, n
<1>11. o[1] \in states /\ \A b \in states \ {o[1]} : Before(o[1], b)
  <2>1. 1 \in 1..n
    BY <1>10
  <2>2. o[1] \in states
    BY <1>9, <2>1 DEF Through, n
  <2>3. ASSUME NEW b \in states \ {o[1]} PROVE Before(o[1], b)
    <3>1. PICK j \in 1..n : o[j] = b
      BY <1>9 DEF Through, n
    <3>2. 1 < j
      BY <1>10, <3>1
    <3> QED
      BY <1>1, <1>9, <2>1, <3>1, <3>2
  <2> QED
    BY <2>2, <2>3
<1>12. \E a \in states : \A b \in states \ {a} : StateLess(a, b)
  BY <1>11 DEF Before
<1> QED
  BY <1>12, Zenon DEF First

\* The states together have all sequences.
HeapOf(states, len, k, equal, far) ==
    /\ Apart(states, len, k, equal, far)
    /\ \A x \in DOMAIN len : \E a \in states : Has(a, x)

LEMMA WorkedKeeps ==
    ASSUME NEW len, NEW k, NEW equal, NEW far, Job(len, k, far),
           NEW states, HeapOf(states, len, k, equal, far), Cardinality(states) > 1
    PROVE  /\ HeapOf(Worked[states], len, k, equal, far)
           /\ Cardinality(Worked[states]) = Cardinality(states) - 1
<1> DEFINE a == First(states)
           rest == states \ {a}
           b == First(rest)
           c == Decreasing[Merged(a, b)]
           kept == states \ {a, b}
<1>1. Apart(states, len, k, equal, far) /\ IsFiniteSet(states) /\ Cardinality(states) \in Nat
  BY FS_CardinalityType DEF HeapOf, Apart
<1>2. states # {} /\ a \in states
  <2>1. states # {}
    BY <1>1, FS_EmptySet
  <2> QED
    BY <1>1, <2>1, FirstIs
<1>3. IsFiniteSet(rest) /\ Cardinality(rest) = Cardinality(states) - 1
  BY <1>1, <1>2, FS_RemoveElement
<1>4. b \in rest
  <2>1. rest # {}
    <3>1. Cardinality(rest) # 0
      BY <1>1, <1>3
    <3> QED
      BY <1>3, <3>1, FS_EmptySet
  <2>2. Apart(rest, len, k, equal, far)
    BY <1>1, <1>3 DEF Apart
  <2> HIDE DEF rest
  <2> QED
    BY <2>1, <2>2, FirstIs
<1>5. states \in SUBSET State
  <2>1. \A s \in states : StateOf(s, len, k, equal, far)
    BY <1>1 DEF Apart
  <2>2. \A s \in states : s \in State
    BY <2>1, StateHasFirst
  <2> QED
    BY <2>2
<1>6. Worked[states] = kept \cup {c}
  BY <1>5, Zenon DEF Worked
<1> HIDE DEF a, b
<1>7. kept = rest \ {b} /\ IsFiniteSet(kept) /\ Cardinality(kept) = Cardinality(rest) - 1
  <2>1. kept = rest \ {b}
    OBVIOUS
  <2> QED
    BY <1>3, <1>4, <2>1, FS_RemoveElement
<1>8. /\ StateOf(a, len, k, equal, far) /\ StateOf(b, len, k, equal, far)
      /\ \A i, j \in 1..k : a[i].items \cap b[j].items = {}
  BY <1>1, <1>2, <1>4 DEF Apart
<1>9. /\ PartsOf(Merged(a, b), len, k, equal, far)
      /\ \A x : Has(Merged(a, b), x) <=> Has(a, x) \/ Has(b, x)
  BY <1>8, MergedKeeps
<1>10. /\ StateOf(c, len, k, equal, far)
       /\ \A x : Has(c, x) <=> Has(Merged(a, b), x)
  BY <1>9, SortedKeeps
<1>11. \A x : Has(c, x) <=> Has(a, x) \/ Has(b, x)
  BY <1>9, <1>10
<1> HIDE DEF c, rest
<1>12. DOMAIN c = 1..k /\ \A s \in states : DOMAIN s = 1..k
  <2>1. \A s \in states : StateOf(s, len, k, equal, far)
    BY <1>1 DEF Apart
  <2> QED
    BY <1>10, <2>1, StateHasFirst
<1>13. ASSUME NEW s \in kept, NEW i \in 1..k, NEW j \in 1..k, NEW x \in s[i].items
       PROVE  x \notin c[j].items
  <2> SUFFICES ASSUME x \in c[j].items PROVE FALSE
    OBVIOUS
  <2>1. Has(a, x) \/ Has(b, x)
    BY <1>11, <1>12 DEF Has
  <2>2. PICK d \in {a, b} : Has(d, x)
    BY <2>1
  <2>3. d \in states /\ s \in states /\ s # d
    BY <1>2, <1>4, <1>7, <2>2 DEF rest
  <2>4. PICK l \in 1..k : x \in d[l].items
    BY <1>12, <2>2, <2>3 DEF Has
  <2> QED
    BY <1>1, <2>3, <2>4 DEF Apart
<1>14. c \notin kept
  <2>1. c[1].first \in c[1].items /\ 1 \in 1..k
    BY <1>10, StateHasFirst DEF Job
  <2> QED
    BY <1>13, <2>1
<1>15. IsFiniteSet(kept \cup {c}) /\ Cardinality(kept \cup {c}) = Cardinality(states) - 1
  <2>1. IsFiniteSet(kept \cup {c}) /\ Cardinality(kept \cup {c}) = Cardinality(kept) + 1
    BY <1>7, <1>14, FS_AddElement
  <2> QED
    BY <1>1, <1>3, <1>7, <2>1
<1>16. \A s \in kept \cup {c} : StateOf(s, len, k, equal, far)
  BY <1>1, <1>10 DEF Apart
<1>17. ASSUME NEW s \in kept \cup {c}, NEW t \in kept \cup {c}, s # t,
              NEW i \in 1..k, NEW j \in 1..k
       PROVE  s[i].items \cap t[j].items = {}
  <2>1. CASE s \in kept /\ t \in kept
    BY <1>1, <1>17, <2>1 DEF Apart
  <2>2. CASE s \in kept /\ t = c
    BY <1>13, <2>2
  <2>3. CASE s = c /\ t \in kept
    BY <1>13, <2>3
  <2> QED
    BY <1>17, <2>1, <2>2, <2>3
<1>18. ASSUME NEW x \in DOMAIN len PROVE \E s \in kept \cup {c} : Has(s, x)
  <2>1. PICK s \in states : Has(s, x)
    BY DEF HeapOf
  <2>2. s \in {a, b} => Has(c, x)
    BY <1>11, <2>1
  <2> QED
    BY <2>1, <2>2
<1>19. HeapOf(kept \cup {c}, len, k, equal, far)
  BY <1>15, <1>16, <1>17, <1>18 DEF HeapOf, Apart
<1> QED
  BY <1>6, <1>15, <1>19

\* f goes on with W from base, N times.
Repeats(f, base, W, N) ==
    f = [n \in 0..N |-> IF n = 0 THEN base ELSE W[f[n - 1]]]

\* The function that WorkedOff is defined with exists.
LEMMA RecursionExists ==
    ASSUME NEW base, NEW W, NEW N \in Nat
    PROVE  \E f : Repeats(f, base, W, N)
<1> DEFINE Upto(f, m) == Repeats(f, base, W, m)
           K == {m \in Nat : \E f : Upto(f, m)}
<1>1. 0 \in K
  <2>1. Upto([n \in 0..0 |-> base], 0)
    BY DEF Repeats
  <2> QED
    BY <2>1
<1>2. ASSUME NEW m \in Nat, m \in K PROVE m + 1 \in K
  <2>1. PICK f : Upto(f, m)
    BY <1>2
  <2> DEFINE g == [n \in 0..(m + 1) |-> IF n = 0 THEN base ELSE W[f[n - 1]]]
  <2>2. \A n \in 0..m : g[n] = f[n]
    BY <2>1 DEF Repeats
  <2>3. \A n \in 0..(m + 1) : n # 0 => n - 1 \in 0..m
    OBVIOUS
  <2>4. \A n \in 0..(m + 1) : n # 0 => g[n - 1] = f[n - 1]
    BY <2>2, <2>3
  <2>5. Upto(g, m + 1)
    BY <2>4 DEF Repeats
  <2> HIDE DEF g, Upto
  <2> QED
    BY <2>5
<1> HIDE DEF K
<1>3. Nat \subseteq K
  BY <1>1, <1>2, NumberInduction
<1> QED
  BY <1>3 DEF K

LEMMA WorkedOffIs ==
    ASSUME NEW len, NEW k, NEW equal, NEW far, Job(len, k, far),
           NEW states, states # {}, HeapOf(states, len, k, equal, far)
    PROVE  /\ StateOf(WorkedOff(states), len, k, equal, far)
           /\ \A x \in DOMAIN len : Has(WorkedOff(states), x)
<1> DEFINE N == Cardinality(states)
           Heap(f) == Repeats(f, states, Worked, N)
           heap == CHOOSE f : Heap(f)
           last == heap[N - 1]
<1>1. N \in Nat /\ N # 0
  BY FS_CardinalityType, FS_EmptySet DEF HeapOf, Apart
<1>2. WorkedOff(states) = CHOOSE a \in last : TRUE
  BY Zenon DEF WorkedOff, Repeats
<1>3. Heap(heap)
  <2> HIDE DEF N
  <2>1. N \in Nat
    BY <1>1
  <2>2. \E f : Heap(f)
    BY <2>1, RecursionExists
  <2> QED
    BY <2>2
<1> HIDE DEF heap
<1> DEFINE Kept(n) == /\ HeapOf(heap[n], len, k, equal, far)
                      /\ Cardinality(heap[n]) = N - n
           K == {n \in Nat : n < N => Kept(n)}
<1>4. 0 \in K
  BY <1>1, <1>3 DEF Repeats
<1>5. ASSUME NEW n \in Nat, n \in K PROVE n + 1 \in K
  <2> SUFFICES ASSUME n + 1 < N PROVE Kept(n + 1)
    OBVIOUS
  <2> HIDE DEF N
  <2>1. HeapOf(heap[n], len, k, equal, far) /\ Cardinality(heap[n]) = N - n
    BY <1>1, <1>5
  <2>2. heap[n + 1] = Worked[heap[n]]
    <3>1. n + 1 \in 0..N /\ n + 1 # 0 /\ (n + 1) - 1 = n
      BY <1>1
    <3> QED
      BY <1>3, <3>1 DEF Repeats
  <2>3. Cardinality(heap[n]) > 1
    BY <1>1, <2>1
  <2>4. /\ HeapOf(Worked[heap[n]], len, k, equal, far)
        /\ Cardinality(Worked[heap[n]]) = Cardinality(heap[n]) - 1
    BY <2>1, <2>3, WorkedKeeps
  <2> QED
    BY <1>1, <2>1, <2>2, <2>4
<1> HIDE DEF K
<1>6. Nat \subseteq K
  BY <1>4, <1>5, NumberInduction
<1>7. Kept(N - 1)
  <2>1. N - 1 \in Nat /\ N - 1 < N
    BY <1>1
  <2>2. N - 1 \in K
    BY <1>6, <2>1
  <2> QED
    BY <2>1, <2>2 DEF K
<1> HIDE DEF N
<1>8. Cardinality(last) = 1 /\ HeapOf(last, len, k, equal, far)
  BY <1>1, <1>7
<1> HIDE DEF last
<1>9. PICK a : last = {a}
  BY <1>8, FS_Singleton DEF HeapOf, Apart
<1>10. WorkedOff(states) = a
  BY <1>2, <1>9
<1> QED
  BY <1>8, <1>9, <1>10 DEF HeapOf, Apart

-----------------------------------------------------------------------------
(* The states that largest differencing starts with.                       *)

LEMMA ImageIsFinite ==
    ASSUME NEW S, IsFiniteSet(S), NEW f
    PROVE  IsFiniteSet({f[x] : x \in S})
<1> DEFINE T == {f[x] : x \in S}
           g == [x \in S |-> f[x]]
<1>1. g \in Surjection(S, T)
  BY DEF Surjection
<1> HIDE DEF g, T
<1>2. IsFiniteSet(T)
  BY <1>1, FS_Surjection
<1> QED
  BY <1>2 DEF T

LEMMA OneIs ==
    ASSUME NEW len \in Seq(Nat \ {0}), NEW j \in DOMAIN len
    PROVE  /\ SetOf(One(len, j), len) /\ One(len, j).items = {j}
           /\ One(len, j).sum = len[j] /\ Cardinality(One(len, j).items) = 1
<1>1. len[j] \in Nat /\ j \in Nat
  OBVIOUS
<1>2. /\ One(len, j).items = {j} /\ One(len, j).first = j
      /\ One(len, j).sum = len[j]
      /\ One(len, j) \in TokenSet
  BY <1>1 DEF One, TokenSet
<1>3. IsFiniteSet({j}) /\ Cardinality({j}) = 1
  BY FS_Singleton
<1>4. SumFunctionOnSet(len, {j}) = len[j]
  <2> DEFINE rest == {j} \ {j}
  <2>1. SumFunctionOnSet(len, {j}) = len[j] + SumFunctionOnSet(len, rest)
    BY <1>1, <1>3, SumTakes
  <2>2. rest = {}
    OBVIOUS
  <2> HIDE DEF rest
  <2>3. SumFunctionOnSet(len, rest) = 0
    BY <2>2, FS_EmptySet, SumRecursion
  <2> QED
    BY <1>1, <2>1, <2>3
<1> QED
  BY <1>2, <1>3, <1>4 DEF SetOf, FiniteTokenSet

LEMMA EmptyIs ==
    ASSUME NEW len \in Seq(Nat \ {0})
    PROVE  /\ SetOf(Empty, len) /\ Empty.items = {} /\ Empty.sum = 0
           /\ Cardinality(Empty.items) = 0
<1>1. Empty \in TokenSet /\ Empty.items = {} /\ Empty.sum = 0
  BY DEF Empty, TokenSet
<1>2. SumFunctionOnSet(len, {}) = 0 /\ IsFiniteSet({}) /\ Cardinality({}) = 0
  BY FS_EmptySet, SumRecursion
<1> QED
  BY <1>1, <1>2 DEF SetOf, FiniteTokenSet

\* Every sequence alone, next to empty sets.
LEMMA SingleStart ==
    ASSUME NEW len, NEW k, NEW hi, Job(len, k, hi), Len(len) # 0,
           \A i \in DOMAIN len : len[i] <= hi
    PROVE  /\ StartStates(len, k, FALSE) # {}
           /\ HeapOf(StartStates(len, k, FALSE), len, k, FALSE, hi)
<1> DEFINE n == Len(len)
           sets(j) == [i \in 1..k |-> IF i = 1 THEN One(len, j) ELSE Empty]
           f == [j \in 1..n |-> sets(j)]
           S == {f[j] : j \in 1..n}
<1>1. /\ len \in Seq(Nat \ {0}) /\ k \in Nat \ {0} /\ hi \in Nat /\ n \in Nat \ {0}
      /\ DOMAIN len = 1..n /\ 1 \in 1..k
  BY DEF Job
<1>2. StartStates(len, k, FALSE) = S
  <2>1. \A j : sets(j) = [i \in 1..k |-> sets(j)[i]]
    OBVIOUS
  <2>2. StartStates(len, k, FALSE) = {Eager(sets(j)) : j \in DOMAIN len}
    BY DEF StartStates
  <2> HIDE DEF sets
  <2>3. \A j : Eager(sets(j)) = sets(j)
    BY <1>1, <2>1, EagerIs
  <2> QED
    BY <1>1, <2>2, <2>3
<1>3. ASSUME NEW j \in 1..n
      PROVE  /\ StateOf(f[j], len, k, FALSE, hi)
             /\ \A i \in 1..k : f[j][i].items \subseteq {j}
             /\ Has(f[j], j)
  <2> DEFINE one == One(len, j)
             a == f[j]
  <2>1. /\ SetOf(one, len) /\ one.items = {j} /\ one.sum = len[j]
        /\ Cardinality(one.items) = 1 /\ one.sum \in Nat /\ one.sum <= hi
    BY <1>1, OneIs
  <2>2. /\ SetOf(Empty, len) /\ Empty.items = {} /\ Empty.sum = 0
        /\ Cardinality(Empty.items) = 0
    BY <1>1, EmptyIs
  <2>3. /\ a = [i \in 1..k |-> a[i]] /\ a[1] = one
        /\ \A i \in 1..k : a[i] = IF i = 1 THEN one ELSE Empty
    BY <1>1
  <2> HIDE DEF one, a
  <2>4. a \in [1..k -> FiniteTokenSet] /\ \A i \in 1..k : SetOf(a[i], len)
    <3>1. one \in FiniteTokenSet /\ Empty \in FiniteTokenSet
      BY <2>1, <2>2 DEF SetOf
    <3> QED
      BY <2>1, <2>2, <2>3, <3>1
  <2>5. \A i, l \in 1..k : i # l => a[i].items \cap a[l].items = {}
    BY <2>2, <2>3
  <2>6. \A i, l \in 1..k : a[i].sum <= a[l].sum + hi
    <3>1. \A i \in 1..k : a[i].sum \in Nat /\ a[i].sum <= hi
      BY <1>1, <2>1, <2>2, <2>3
    <3> QED
      BY <1>1, <3>1
  <2>7. \A i \in 1..k : Cardinality(a[i].items) <= 1
    <3>1. Cardinality(one.items) <= 1 /\ Cardinality(Empty.items) <= 1
      BY <2>1, <2>2
    <3> QED
      BY <2>3, <3>1
  <2>8. \A i, l \in 1..k : i < l => a[l].sum <= a[i].sum
    <3>1. \A i, l \in 1..k : i < l => l # 1
      BY <1>1
    <3> QED
      BY <2>1, <2>2, <2>3, <3>1
  <2>9. a[1].items # {} /\ Has(a, j) /\ \A i \in 1..k : a[i].items \subseteq {j}
    BY <1>1, <2>1, <2>2, <2>3 DEF Has
  <2>10. PartsOf(a, len, k, FALSE, hi)
    BY <1>1, <2>4, <2>5, <2>6, <2>7, <2>9 DEF PartsOf
  <2> QED
    BY <2>8, <2>9, <2>10 DEF StateOf, a
<1> HIDE DEF f
<1>4. S # {} /\ IsFiniteSet(S)
  <2>1. IsFiniteSet(1..n)
    BY <1>1, FS_Interval
  <2> QED
    BY <1>1, <2>1, ImageIsFinite
<1>5. \A a \in S : StateOf(a, len, k, FALSE, hi)
  BY <1>3
<1>6. \A a, b \in S : a # b => \A i, l \in 1..k : a[i].items \cap b[l].items = {}
  <2>1. ASSUME NEW j \in 1..n, NEW h \in 1..n, j # h, NEW i \in 1..k, NEW l \in 1..k
        PROVE  f[j][i].items \cap f[h][l].items = {}
    <3>1. f[j][i].items \subseteq {j} /\ f[h][l].items \subseteq {h}
      BY <1>3
    <3> QED
      BY <2>1, <3>1
  <2> QED
    BY <2>1
<1>7. \A x \in DOMAIN len : \E a \in S : Has(a, x)
  BY <1>1, <1>3
<1> QED
  BY <1>2, <1>4, <1>5, <1>6, <1>7 DEF HeapOf, Apart

LEMMA Products ==
    ASSUME NEW a \in Nat, NEW b \in Nat, NEW k \in Nat
    PROVE  /\ a * k \in Nat /\ (a + 1) * k = a * k + k
           /\ a <= b => a * k <= b * k
<1>1. \A m, l \in Nat : m * l \in Nat
  OBVIOUS
<1>2. \A l, m, j \in Nat : (l + m) * j = l * j + m * j
  OBVIOUS
<1>3. (a + 1) * k = a * k + 1 * k
  BY <1>2
<1>4. a <= b => a * k <= b * k
  <2> SUFFICES ASSUME a <= b PROVE a * k <= b * k
    OBVIOUS
  <2>1. b - a \in Nat /\ a + (b - a) = b
    OBVIOUS
  <2>2. b * k = a * k + (b - a) * k
    BY <1>2, <2>1
  <2>3. (b - a) * k \in Nat /\ a * k \in Nat /\ b * k \in Nat
    BY <1>1, <2>1
  <2> QED
    BY <2>2, <2>3
<1> QED
  BY <1>1, <1>3, <1>4

\* Every number of 1..(q * k) has one place among q rows of k.
LEMMA Grid ==
    ASSUME NEW q \in Nat, NEW k \in Nat \ {0}
    PROVE  /\ \A s \in 0..(q - 1), i \in 1..k : (s * k) + i \in 1..(q * k)
           /\ \A s, t \in 0..(q - 1), i, j \in 1..k :
                  (s * k) + i = (t * k) + j => s = t /\ i = j
           /\ \A x \in 1..(q * k) :
                  /\ (x - 1) \div k \in 0..(q - 1) /\ ((x - 1) % k) + 1 \in 1..k
                  /\ x = (((x - 1) \div k) * k) + (((x - 1) % k) + 1)
           /\ \A s \in 0..(q - 1), i \in 1..k :
                  /\ (((s * k) + i) - 1) \div k = s
                  /\ ((((s * k) + i) - 1) % k) + 1 = i
<1>1. ASSUME NEW s \in Nat, NEW t \in Nat, NEW i \in 1..k, s < t
      PROVE  s * k \in Nat /\ t * k \in Nat /\ (s * k) + i <= t * k
  <2>1. s * k \in Nat /\ t * k \in Nat /\ (s + 1) * k = s * k + k /\ (s + 1) * k <= t * k
    BY <1>1, Products
  <2> QED
    BY <2>1
<1>2. \A s \in Nat : s * k \in Nat
  BY Products
<1>3. ASSUME NEW s \in 0..(q - 1), NEW i \in 1..k PROVE (s * k) + i \in 1..(q * k)
  <2>1. s \in Nat /\ s < q
    OBVIOUS
  <2>2. s * k \in Nat /\ q * k \in Nat /\ (s * k) + i <= q * k
    BY <1>1, <2>1
  <2> QED
    BY <2>2
<1>4. ASSUME NEW s \in Nat, NEW t \in Nat, NEW i \in 1..k, NEW j \in 1..k,
             (s * k) + i = (t * k) + j
      PROVE  s = t /\ i = j
  <2>1. ~(s < t)
    <3> SUFFICES ASSUME s < t PROVE FALSE
      OBVIOUS
    <3>1. s * k \in Nat /\ t * k \in Nat /\ (s * k) + i <= t * k
      BY <1>1
    <3> QED
      BY <1>4, <3>1
  <2>2. ~(t < s)
    <3> SUFFICES ASSUME t < s PROVE FALSE
      OBVIOUS
    <3>1. s * k \in Nat /\ t * k \in Nat /\ (t * k) + j <= s * k
      BY <1>1
    <3> QED
      BY <1>4, <3>1
  <2>3. s = t
    BY <2>1, <2>2
  <2>4. s * k \in Nat
    BY <1>2
  <2> QED
    BY <1>4, <2>3, <2>4
<1>5. ASSUME NEW y \in Nat
      PROVE  /\ y \div k \in Nat /\ (y % k) + 1 \in 1..k
             /\ y + 1 = ((y \div k) * k) + ((y % k) + 1)
  <2>1. y % k \in 0..(k - 1) /\ y \div k \in Nat /\ y = (y \div k) * k + (y % k)
    OBVIOUS
  <2>2. (y \div k) * k \in Nat
    BY <1>2, <2>1
  <2> QED
    BY <2>1, <2>2
<1>6. ASSUME NEW x \in 1..(q * k)
      PROVE  /\ (x - 1) \div k \in 0..(q - 1) /\ ((x - 1) % k) + 1 \in 1..k
             /\ x = (((x - 1) \div k) * k) + (((x - 1) % k) + 1)
  <2> DEFINE s == (x - 1) \div k
             i == ((x - 1) % k) + 1
  <2>1. x - 1 \in Nat /\ q * k \in Nat /\ x <= q * k /\ x \in Nat
    BY <1>2
  <2>2. s \in Nat /\ i \in 1..k /\ x = (s * k) + i
    BY <1>5, <2>1
  <2> HIDE DEF s, i
  <2>3. s < q
    <3> SUFFICES ASSUME ~(s < q) PROVE FALSE
      OBVIOUS
    <3>1. q * k <= s * k /\ s * k \in Nat
      BY <2>2, Products
    <3> QED
      BY <2>1, <2>2, <3>1
  <2>4. s \in 0..(q - 1)
    BY <2>2, <2>3
  <2> QED
    BY <2>2, <2>4 DEF s, i
<1>7. ASSUME NEW s \in 0..(q - 1), NEW i \in 1..k
      PROVE  /\ (((s * k) + i) - 1) \div k = s
             /\ ((((s * k) + i) - 1) % k) + 1 = i
  <2> DEFINE x == (s * k) + i
             t == (x - 1) \div k
             j == ((x - 1) % k) + 1
  <2>1. t \in 0..(q - 1) /\ j \in 1..k /\ x = (t * k) + j
    BY <1>3, <1>6
  <2> HIDE DEF t, j
  <2>2. t \in Nat /\ s \in Nat
    BY <2>1
  <2>3. s = t /\ i = j
    BY <1>4, <2>1, <2>2
  <2> QED
    BY <2>3 DEF t, j
<1> QED
  BY <1>3, <1>4, <1>6, <1>7

LEMMA SortedIs ==
    ASSUME NEW len \in Seq(Nat \ {0})
    PROVE  /\ Cardinality(1..Len(len)) = Len(len) /\ DOMAIN len = 1..Len(len)
           /\ Through(Sorted[len], 1..Len(len))
<1> DEFINE n == Len(len)
           R == ShorterFirst(len)
<1>1. n \in Nat /\ DOMAIN len = 1..n /\ len \in Seq(Nat) /\ \A i \in 1..n : len[i] \in Nat
  OBVIOUS
<1>2. IsFiniteSet(1..n) /\ Cardinality(1..n) = n
  BY <1>1, FS_Interval, SMTT(30)
<1>3. \A i, j \in 1..n : <<i, j>> \in R <=> len[i] < len[j] \/ (len[i] = len[j] /\ i < j)
  BY <1>1 DEF ShorterFirst
<1> HIDE DEF R
<1>4. \A i \in 1..n : <<i, i>> \notin R
  BY <1>1, <1>3
<1>5. ASSUME NEW i \in 1..n, NEW j \in 1..n
      PROVE  i = j \/ <<i, j>> \in R \/ <<j, i>> \in R
  <2>1. len[i] \in Nat /\ len[j] \in Nat /\ i \in Nat /\ j \in Nat
    BY <1>1
  <2>2. len[i] < len[j] \/ len[j] < len[i] \/ len[i] = len[j]
    BY <2>1
  <2>3. i < j \/ j < i \/ i = j
    BY <2>1
  <2> QED
    BY <1>3, <2>2, <2>3
<1>6. \A i, j, h \in 1..n : <<i, j>> \in R /\ <<j, h>> \in R => <<i, h>> \in R
  BY <1>1, <1>3
<1>7. Orders(R, 1..n)
  BY <1>4, <1>5, <1>6 DEF Orders
<1>8. Sorted[len] = InOrder(1..n, R)
  BY <1>1, Zenon DEF Sorted, R
<1> QED
  BY <1>1, <1>2, <1>7, <1>8, InOrderIs

\* Neighbours in the order of length, k in each state.
LEMMA EqualStart ==
    ASSUME NEW len, NEW k, NEW lo \in Nat, NEW hi \in Nat, lo <= hi,
           Job(len, k, hi - lo), Len(len) # 0, Len(len) % k = 0,
           \A i \in DOMAIN len : lo <= len[i] /\ len[i] <= hi
    PROVE  /\ StartStates(len, k, TRUE) # {}
           /\ HeapOf(StartStates(len, k, TRUE), len, k, TRUE, hi - lo)
<1> DEFINE n == Len(len)
           q == n \div k
           sorted == Sorted[len]
           sets(s) == [i \in 1..k |-> One(len, sorted[(s * k) + i])]
           f == [s \in 0..(q - 1) |-> Decreasing[sets(s)]]
           S == {f[s] : s \in 0..(q - 1)}
           far == hi - lo
<1>1. /\ len \in Seq(Nat \ {0}) /\ k \in Nat \ {0} /\ far \in Nat /\ n \in Nat \ {0}
      /\ DOMAIN len = 1..n
  BY DEF Job
<1>2. q \in Nat \ {0} /\ n = q * k
  <2>1. \A m \in Nat : m % k = 0 => m \div k \in Nat /\ m = (m \div k) * k
    BY <1>1
  <2>2. q \in Nat /\ n = q * k
    BY <1>1, <2>1
  <2>3. q # 0
    <3> SUFFICES ASSUME q = 0 PROVE FALSE
      OBVIOUS
    <3>1. 0 * k = 0
      BY <1>1
    <3> QED
      BY <1>1, <2>2, <3>1
  <2> QED
    BY <2>2, <2>3
<1>3. StartStates(len, k, TRUE) = S
  <2>1. StartStates(len, k, TRUE) = {Decreasing[Eager(sets(s))] : s \in 0..(q - 1)}
    <3> DEFINE started(s, order) ==
                  Decreasing[Eager([i \in 1..k |-> One(len, order[(s * k) + i])])]
               all == {started(s, order) : s \in 0..(q - 1), order \in {sorted}}
    <3>1. StartStates(len, k, TRUE) = all
      BY DEF StartStates
    <3>2. \A s : Decreasing[Eager(sets(s))] = started(s, sorted)
      OBVIOUS
    <3> DEFINE ends(s) == Decreasing[Eager(sets(s))]
    <3> HIDE DEF q, sorted, started, sets
    <3>3. \A s : ends(s) = started(s, sorted)
      BY <3>2
    <3> HIDE DEF ends
    <3>4. all = {started(s, sorted) : s \in 0..(q - 1)}
      OBVIOUS
    <3> HIDE DEF all
    <3>5. {started(s, sorted) : s \in 0..(q - 1)} = {ends(s) : s \in 0..(q - 1)}
      BY <3>3
    <3>6. StartStates(len, k, TRUE) = {ends(s) : s \in 0..(q - 1)}
      BY <3>1, <3>4, <3>5, Zenon
    <3> QED
      BY <3>6 DEF ends
  <2>2. \A s : sets(s) = [i \in 1..k |-> sets(s)[i]]
    OBVIOUS
  <2> HIDE DEF sets, q
  <2>3. \A s : Eager(sets(s)) = sets(s)
    BY <1>1, <2>2, EagerIs
  <2> QED
    BY <2>1, <2>3
<1> HIDE DEF q
<1>4. /\ \A x \in 1..n : sorted[x] \in 1..n
      /\ \A x \in 1..n : \E i \in 1..n : sorted[i] = x
      /\ \A i, j \in 1..n : sorted[i] = sorted[j] => i = j
  <2>1. Through(sorted, 1..n) /\ Cardinality(1..n) = n
    BY <1>1, SortedIs
  <2> HIDE DEF sorted
  <2> QED
    BY <2>1 DEF Through
<1> HIDE DEF sorted
<1>5. /\ \A s \in 0..(q - 1), i \in 1..k : (s * k) + i \in 1..n
      /\ \A s, t \in 0..(q - 1), i, j \in 1..k :
             (s * k) + i = (t * k) + j => s = t /\ i = j
      /\ \A x \in 1..n : \E s \in 0..(q - 1), i \in 1..k : x = (s * k) + i
  <2>1. q \in Nat
    BY <1>2
  <2>2. /\ \A s \in 0..(q - 1), i \in 1..k : (s * k) + i \in 1..(q * k)
        /\ \A s, t \in 0..(q - 1), i, j \in 1..k :
               (s * k) + i = (t * k) + j => s = t /\ i = j
    BY <1>1, <2>1, Grid
  <2>22. k \in Nat \ {0}
    BY <1>1
  <2>23. \A x \in 1..(q * k) :
               /\ (x - 1) \div k \in 0..(q - 1) /\ ((x - 1) % k) + 1 \in 1..k
               /\ x = (((x - 1) \div k) * k) + (((x - 1) % k) + 1)
    BY <2>1, <2>22, Grid, Zenon
  <2>3. ASSUME NEW x \in 1..(q * k)
        PROVE  \E s \in 0..(q - 1), i \in 1..k : x = (s * k) + i
    <3> DEFINE s == (x - 1) \div k
               i == ((x - 1) % k) + 1
    <3>1. s \in 0..(q - 1) /\ i \in 1..k /\ x = (s * k) + i
      BY <2>23, Zenon
    <3> HIDE DEF s, i
    <3> QED
      BY <3>1
  <2> QED
    BY <1>2, <2>2, <2>3
<1> DEFINE at(s, i) == sorted[(s * k) + i]
<1>6. /\ \A s \in 0..(q - 1), i \in 1..k : at(s, i) \in 1..n
      /\ \A s, t \in 0..(q - 1), i, j \in 1..k : at(s, i) = at(t, j) => s = t /\ i = j
      /\ \A x \in 1..n : \E s \in 0..(q - 1), i \in 1..k : x = at(s, i)
  <2>1. ASSUME NEW x \in 1..n PROVE \E s \in 0..(q - 1), i \in 1..k : x = at(s, i)
    <3>1. PICK y \in 1..n : sorted[y] = x
      BY <1>4
    <3>2. PICK s \in 0..(q - 1), i \in 1..k : y = (s * k) + i
      BY <1>5
    <3> QED
      BY <3>1, <3>2
  <2>2. \A s \in 0..(q - 1), i \in 1..k : at(s, i) \in 1..n
    BY <1>4, <1>5
  <2>3. ASSUME NEW s \in 0..(q - 1), NEW t \in 0..(q - 1), NEW i \in 1..k, NEW j \in 1..k,
               at(s, i) = at(t, j)
        PROVE  s = t /\ i = j
    <3>1. (s * k) + i = (t * k) + j
      BY <1>4, <1>5, <2>3
    <3> QED
      BY <1>5, <3>1
  <2> QED
    BY <2>1, <2>2, <2>3
<1>7. \A s : sets(s) = [i \in 1..k |-> One(len, at(s, i))]
  OBVIOUS
<1> HIDE DEF at, sets
<1>8. ASSUME NEW s \in 0..(q - 1)
      PROVE  /\ PartsOf(sets(s), len, k, TRUE, far)
             /\ \A x : Has(sets(s), x) <=> \E i \in 1..k : x = at(s, i)
  <2> DEFINE m == sets(s)
  <2>1. m = [i \in 1..k |-> m[i]] /\ DOMAIN m = 1..k
    BY <1>7
  <2>2. ASSUME NEW i \in 1..k
        PROVE  /\ SetOf(m[i], len) /\ m[i].items = {at(s, i)}
               /\ m[i].sum \in Nat /\ lo <= m[i].sum /\ m[i].sum <= hi
               /\ Cardinality(m[i].items) = 1
    <3> DEFINE y == at(s, i)
    <3>1. y \in DOMAIN len /\ m[i] = One(len, y)
      BY <1>1, <1>6, <1>7
    <3> HIDE DEF y, m
    <3>2. /\ SetOf(m[i], len) /\ m[i].items = {y} /\ m[i].sum = len[y]
          /\ Cardinality(m[i].items) = 1
      BY <1>1, <3>1, OneIs
    <3>3. len[y] \in Nat /\ lo <= len[y] /\ len[y] <= hi
      BY <1>1, <3>1
    <3> QED
      BY <3>2, <3>3 DEF y
  <2> HIDE DEF m
  <2>3. m \in [1..k -> FiniteTokenSet]
    BY <2>1, <2>2 DEF SetOf
  <2>4. ASSUME NEW i \in 1..k, NEW j \in 1..k, i # j
        PROVE  m[i].items \cap m[j].items = {}
    <3>1. at(s, i) # at(s, j)
      BY <1>6, <2>4
    <3>2. m[i].items = {at(s, i)} /\ m[j].items = {at(s, j)}
      BY <2>2
    <3> QED
      BY <3>1, <3>2
  <2>5. \E i \in 1..k : m[i].items # {}
    <3>1. 1 \in 1..k
      BY <1>1
    <3> QED
      BY <2>2, <3>1
  <2>6. \A i, j \in 1..k : m[i].sum <= m[j].sum + far
    BY <2>2
  <2>7. \A i, j \in 1..k : /\ Cardinality(m[i].items) = Cardinality(m[j].items)
                           /\ Cardinality(m[j].items) <= 1
    BY <2>2
  <2>8. \A x : Has(m, x) <=> \E i \in 1..k : x = at(s, i)
    BY <2>1, <2>2 DEF Has
  <2>9. PartsOf(m, len, k, TRUE, far)
    BY <2>2, <2>3, <2>4, <2>5, <2>6, <2>7 DEF PartsOf
  <2> QED
    BY <2>8, <2>9 DEF m
<1> HIDE DEF far
<1>9. \A s \in 0..(q - 1) : f[s] = Decreasing[sets(s)]
  OBVIOUS
<1> HIDE DEF f
<1>10. ASSUME NEW s \in 0..(q - 1)
       PROVE  /\ StateOf(f[s], len, k, TRUE, far) /\ DOMAIN f[s] = 1..k
              /\ \A x : Has(f[s], x) <=> \E i \in 1..k : x = at(s, i)
  <2>1. Job(len, k, far)
    BY DEF far
  <2>2. /\ StateOf(f[s], len, k, TRUE, far)
        /\ \A x : Has(f[s], x) <=> Has(sets(s), x)
    BY <1>8, <1>9, <2>1, SortedKeeps
  <2>3. DOMAIN f[s] = 1..k
    BY <2>1, <2>2, StateHasFirst
  <2>4. \A x : Has(sets(s), x) <=> \E i \in 1..k : x = at(s, i)
    BY <1>8
  <2> QED
    BY <2>2, <2>3, <2>4
<1>101. \A z \in 0..(q - 1) : \A x : Has(f[z], x) <=> \E i \in 1..k : x = at(z, i)
  BY <1>10
<1>11. S # {} /\ IsFiniteSet(S)
  <2>1. IsFiniteSet(0..(q - 1)) /\ 0 \in 0..(q - 1)
    BY <1>2, FS_Interval
  <2> QED
    BY <2>1, ImageIsFinite
<1>12. \A a \in S : StateOf(a, len, k, TRUE, far)
  BY <1>10
<1>13. ASSUME NEW s \in 0..(q - 1), NEW t \in 0..(q - 1), s # t, NEW i \in 1..k, NEW l \in 1..k
       PROVE  f[s][i].items \cap f[t][l].items = {}
  <2> SUFFICES ASSUME NEW x, x \in f[s][i].items, x \in f[t][l].items PROVE FALSE
    OBVIOUS
  <2>1. Has(f[s], x) /\ Has(f[t], x)
    BY <1>10 DEF Has
  <2>2. ASSUME NEW z \in 0..(q - 1), Has(f[z], x) PROVE \E y \in 1..k : x = at(z, y)
    <3>1. Has(f[z], x) <=> \E y \in 1..k : x = at(z, y)
      BY <1>101
    <3> QED
      BY <2>2, <3>1
  <2>3. PICK y \in 1..k : x = at(s, y)
    BY <2>1, <2>2
  <2>4. PICK z \in 1..k : x = at(t, z)
    BY <2>1, <2>2
  <2>5. at(s, y) = at(t, z)
    BY <2>3, <2>4
  <2> QED
    BY <1>6, <1>13, <2>5
<1>14. \A a, b \in S : a # b => \A i, l \in 1..k : a[i].items \cap b[l].items = {}
  BY <1>13
<1>15. \A x \in DOMAIN len : \E a \in S : Has(a, x)
  <2> SUFFICES ASSUME NEW x \in 1..n PROVE \E a \in S : Has(a, x)
    BY <1>1
  <2>1. PICK s \in 0..(q - 1), i \in 1..k : x = at(s, i)
    BY <1>6
  <2>2. Has(f[s], x)
    BY <1>10, <2>1
  <2> QED
    BY <2>2
<1> HIDE DEF S
<1>16. HeapOf(S, len, k, TRUE, far)
  BY <1>11, <1>12, <1>14, <1>15 DEF HeapOf, Apart
<1> QED
  BY <1>3, <1>11, <1>16 DEF far

-----------------------------------------------------------------------------
(* The partitions.                                                         *)

\* P deals 1..n out to k hands.
Deals(P, k, n) ==
    /\ P \in [1..k -> Seq(1..n)]
    /\ \A x \in 1..n : \E i \in 1..k : \E j \in 1..Len(P[i]) : P[i][j] = x
    /\ \A i, l \in 1..k : \A j \in 1..Len(P[i]), h \in 1..Len(P[l]) :
           P[i][j] = P[l][h] => i = l /\ j = h

\* part goes through the indices S.
LEMMA PartIs ==
    ASSUME NEW len \in Seq(Nat \ {0}), NEW S \in SUBSET DOMAIN len, IsFiniteSet(S)
    PROVE  /\ Ascending[S] \in Seq(S) /\ Len(Ascending[S]) = Cardinality(S)
           /\ \A x \in S : \E j \in 1..Len(Ascending[S]) : Ascending[S][j] = x
           /\ \A j, h \in 1..Len(Ascending[S]) :
                  Ascending[S][j] = Ascending[S][h] => j = h
           /\ Total(len, Ascending[S]) = SumFunctionOnSet(len, S)
<1> DEFINE o == Ascending[S]
           c == Cardinality(S)
<1>1. S \in SUBSET Nat /\ \A x \in S : len[x] \in Nat
  OBVIOUS
<1>2. Through(o, S)
  BY <1>1, AscendingIs
<1> HIDE DEF o
<1>3. /\ o \in [1..c -> S] /\ o \in Seq(S) /\ Len(o) = c /\ DOMAIN o = 1..c
      /\ \A x \in S : \E j \in 1..c : o[j] = x
      /\ \A j, h \in 1..c : o[j] = o[h] => j = h
  BY <1>2 DEF Through
<1>4. c \in Nat
  BY FS_CardinalityType
<1> HIDE DEF c
<1> DEFINE g == [i \in DOMAIN o |-> len[o[i]]]
<1>5. SumFunctionOnSet(len, {o[j] : j \in 1..c}) = SumFunctionOnSet(g, 1..c)
  <2> DEFINE J == 1..c
  <2>1. IsFiniteSet(J)
    BY <1>4, FS_Interval
  <2>2. \A j \in J : g[j] = len[o[j]] /\ g[j] \in Nat
    BY <1>1, <1>3
  <2>3. \A x, y \in J : o[x] = o[y] => x = y
    BY <1>3
  <2> HIDE DEF g, J
  <2>4. SumFunctionOnSet(len, {o[x] : x \in J}) = SumFunctionOnSet(g, J)
    BY <2>1, <2>2, <2>3, SumRenamed
  <2> QED
    BY <2>4 DEF J
<1>6. {o[j] : j \in 1..c} = S
  BY <1>3
<1>7. Total(len, o) = SumFunctionOnSet(g, 1..c)
  <2>1. Total(len, o) = SumFunction(g)
    BY Zenon DEF Total
  <2>2. DOMAIN g = 1..c
    BY <1>3
  <2> HIDE DEF g
  <2> QED
    BY <2>1, <2>2, Zenon DEF SumFunction
<1> QED
  BY <1>3, <1>5, <1>6, <1>7 DEF o, c

\* The sets of a are the partitions P.
ArePartsOf(P, a, len, k) ==
    /\ Deals(P, k, Len(len))
    /\ \A i \in 1..k : Len(P[i]) = Cardinality(a[i].items) /\ Total(len, P[i]) = a[i].sum

LEMMA PartitionsOfState ==
    ASSUME NEW len, NEW k, NEW equal, NEW far, Job(len, k, far),
           StateOf(KarmarkarKarp(len, k, equal), len, k, equal, far),
           \A x \in DOMAIN len : Has(KarmarkarKarp(len, k, equal), x)
    PROVE  ArePartsOf(Partitions(len, k, equal), KarmarkarKarp(len, k, equal), len, k)
<1> DEFINE a == KarmarkarKarp(len, k, equal)
           P == Partitions(len, k, equal)
           n == Len(len)
<1>1. /\ len \in Seq(Nat \ {0}) /\ k \in Nat \ {0} /\ n \in Nat /\ DOMAIN len = 1..n
  BY DEF Job
<1>2. P = [i \in 1..k |-> Ascending[a[i].items]]
  BY Zenon DEF Partitions
<1> HIDE DEF a, P
<1>3. ASSUME NEW i \in 1..k
      PROVE  /\ a[i].items \in SUBSET (1..n) /\ IsFiniteSet(a[i].items)
             /\ a[i].sum = SumFunctionOnSet(len, a[i].items)
  BY <1>1 DEF StateOf, PartsOf, SetOf, FiniteTokenSet, a
<1>4. \A i, j \in 1..k : i # j => a[i].items \cap a[j].items = {}
  BY DEF StateOf, PartsOf, a
<1>5. \A x \in 1..n : \E i \in 1..k : x \in a[i].items
  <2>1. DOMAIN a = 1..k
    BY DEF StateOf, PartsOf, a
  <2> QED
    BY <1>1, <2>1 DEF Has, a
<1>6. ASSUME NEW i \in 1..k
      PROVE  /\ P[i] \in Seq(a[i].items) /\ Len(P[i]) = Cardinality(a[i].items)
             /\ \A x \in a[i].items : \E j \in 1..Len(P[i]) : P[i][j] = x
             /\ \A j, h \in 1..Len(P[i]) : P[i][j] = P[i][h] => j = h
             /\ Total(len, P[i]) = a[i].sum
  <2> DEFINE S == a[i].items
  <2>1. P[i] = Ascending[S]
    BY <1>2
  <2>2. S \in SUBSET DOMAIN len /\ IsFiniteSet(S) /\ a[i].sum = SumFunctionOnSet(len, S)
    BY <1>1, <1>3
  <2> HIDE DEF S
  <2>3. /\ P[i] \in Seq(S) /\ Len(P[i]) = Cardinality(S)
        /\ \A x \in S : \E j \in 1..Len(P[i]) : P[i][j] = x
        /\ \A j, h \in 1..Len(P[i]) : P[i][j] = P[i][h] => j = h
        /\ Total(len, P[i]) = SumFunctionOnSet(len, S)
    BY <1>1, <2>1, <2>2, PartIs
  <2> QED
    BY <2>2, <2>3 DEF S
<1>7. \A i \in 1..k : P[i] \in Seq(1..n)
  BY <1>3, <1>6
<1>8. P \in [1..k -> Seq(1..n)]
  BY <1>2, <1>7
<1>9. \A x \in 1..n : \E i \in 1..k : \E j \in 1..Len(P[i]) : P[i][j] = x
  BY <1>5, <1>6
<1>10. ASSUME NEW i \in 1..k, NEW l \in 1..k,
              NEW j \in 1..Len(P[i]), NEW h \in 1..Len(P[l]), P[i][j] = P[l][h]
       PROVE  i = l /\ j = h
  <2>1. P[i][j] \in a[i].items /\ P[l][h] \in a[l].items
    <3>1. P[i] \in Seq(a[i].items) /\ P[l] \in Seq(a[l].items)
      BY <1>6
    <3> QED
      BY <3>1, ElementOfSeq
  <2>2. i = l
    BY <1>4, <1>10, <2>1
  <2> QED
    BY <1>6, <1>10, <2>2
<1>11. Deals(P, k, n)
  BY <1>8, <1>9, <1>10 DEF Deals
<1> QED
  BY <1>6, <1>11 DEF P, a, ArePartsOf

LEMMA PartitionsOfHeap ==
    ASSUME NEW len, NEW k, NEW equal, NEW far, Job(len, k, far),
           StartStates(len, k, equal) # {},
           HeapOf(StartStates(len, k, equal), len, k, equal, far)
    PROVE  \E a : /\ StateOf(a, len, k, equal, far)
                  /\ \A x \in DOMAIN len : Has(a, x)
                  /\ ArePartsOf(Partitions(len, k, equal), a, len, k)
<1> DEFINE a == KarmarkarKarp(len, k, equal)
<1>1. a = WorkedOff(StartStates(len, k, equal))
  BY Zenon DEF KarmarkarKarp
<1> HIDE DEF a
<1>2. StateOf(a, len, k, equal, far) /\ \A x \in DOMAIN len : Has(a, x)
  BY <1>1, WorkedOffIs
<1>3. ArePartsOf(Partitions(len, k, equal), a, len, k)
  BY <1>2, PartitionsOfState DEF a
<1> QED
  BY <1>2, <1>3

\* All sequences have a sum that some set does not exceed k times.
LEMMA SomeSmall ==
    ASSUME NEW len, NEW k, NEW equal, NEW far, Job(len, k, far),
           NEW a, StateOf(a, len, k, equal, far),
           \A x \in DOMAIN len : Has(a, x)
    PROVE  \E i \in 1..k : a[i].sum * k <= SumFunctionOnSet(len, DOMAIN len)
<1> DEFINE Upto(i) == {x \in DOMAIN len : \E j \in 1..i : x \in a[j].items}
           Sum(S) == SumFunctionOnSet(len, S)
<1>1. /\ len \in Seq(Nat \ {0}) /\ k \in Nat \ {0} /\ IsFiniteSet(DOMAIN len)
      /\ \A x \in DOMAIN len : len[x] \in Nat
  <2>1. len \in Seq(Nat \ {0}) /\ k \in Nat \ {0}
    BY DEF Job
  <2>2. Len(len) \in Nat /\ DOMAIN len = 1..Len(len)
    BY <2>1
  <2>3. IsFiniteSet(1..Len(len))
    BY <2>2, FS_Interval
  <2>4. \A x \in DOMAIN len : len[x] \in Nat
    BY <2>1
  <2> QED
    BY <2>1, <2>2, <2>3, <2>4
<1>2. ASSUME NEW i \in 1..k
      PROVE  /\ a[i].sum \in Nat /\ a[i].sum = Sum(a[i].items)
             /\ a[i].items \subseteq DOMAIN len /\ IsFiniteSet(a[i].items)
  <2>1. SetOf(a[i], len)
    BY DEF StateOf, PartsOf
  <2> QED
    BY <1>1, <2>1, SetsAre DEF SetOf
<1>3. ASSUME NEW S \in SUBSET DOMAIN len PROVE IsFiniteSet(S) /\ Sum(S) \in Nat
  <2>1. IsFiniteSet(S) /\ \A x \in S : len[x] \in Nat
    BY <1>1, FS_Subset
  <2> QED
    BY <2>1, SumType
<1>4. ASSUME NEW S \in SUBSET DOMAIN len, NEW T \in SUBSET DOMAIN len, S \cap T = {}
      PROVE  Sum(S \cup T) = Sum(S) + Sum(T)
  <2>1. \A x \in S \cup T : len[x] \in Nat
    BY <1>1
  <2> QED
    BY <1>3, <1>4, <2>1, SumUnion
<1> HIDE DEF Sum
<1>5. 1 \in 1..k /\ k \in 1..k
  BY <1>1
<1>6. \A i, j \in 1..k : i < j => a[j].sum <= a[i].sum
  BY DEF StateOf
<1>7. a[k].sum \in Nat /\ \A i \in 1..k : a[k].sum <= a[i].sum
  BY <1>2, <1>5, <1>6
<1> DEFINE K == {i \in Nat : i <= k => a[k].sum * i <= Sum(Upto(i))}
<1>8. 0 \in K
  <2>1. a[k].sum * 0 = 0
    BY <1>7
  <2>2. Sum(Upto(0)) \in Nat
    BY <1>3
  <2> HIDE DEF Upto
  <2> QED
    BY <2>1, <2>2
<1>9. ASSUME NEW i \in Nat, i \in K PROVE i + 1 \in K
  <2> SUFFICES ASSUME i + 1 <= k PROVE a[k].sum * (i + 1) <= Sum(Upto(i + 1))
    <3> HIDE DEF Upto
    <3>1. i + 1 \in Nat
      OBVIOUS
    <3> QED
      BY <3>1
  <2> DEFINE new == a[i + 1].items
             least == a[k].sum
  <2>1. i + 1 \in 1..k /\ i <= k
    BY <1>1
  <2>2. Upto(i + 1) = Upto(i) \cup new
    BY <1>1, <1>2, <2>1
  <2>3. Upto(i) \cap new = {}
    <3>1. \A j \in 1..i : j \in 1..k /\ j # i + 1
      BY <1>1, <2>1
    <3>2. \A j, l \in 1..k : j # l => a[j].items \cap a[l].items = {}
      BY DEF StateOf, PartsOf
    <3> QED
      BY <2>1, <3>1, <3>2
  <2>4. least * i <= Sum(Upto(i)) /\ Sum(new) \in Nat /\ least <= Sum(new) /\ Sum(Upto(i)) \in Nat
    BY <1>2, <1>3, <1>7, <1>9, <2>1
  <2>5. Upto(i) \in SUBSET DOMAIN len /\ new \in SUBSET DOMAIN len
    BY <1>2, <2>1
  <2> HIDE DEF Upto, new
  <2>6. Sum(Upto(i + 1)) = Sum(Upto(i)) + Sum(new)
    BY <1>4, <2>2, <2>3, <2>5
  <2>7. least \in Nat /\ least * (i + 1) = least * i + least /\ least * i \in Nat
    <3>1. \A m, l \in Nat : m * (l + 1) = m * l + m /\ m * l \in Nat
      OBVIOUS
    <3> QED
      BY <1>7, <3>1
  <2> HIDE DEF least
  <2>8. least * (i + 1) <= Sum(Upto(i + 1))
    BY <2>4, <2>6, <2>7
  <2> QED
    BY <2>8 DEF least
<1> HIDE DEF K
<1>10. k \in K
  BY <1>1, <1>8, <1>9, NumberInduction
<1>11. Upto(k) = DOMAIN len
  <2>1. DOMAIN a = 1..k
    BY DEF StateOf, PartsOf
  <2> QED
    BY <2>1 DEF Has
<1>12. a[k].sum * k <= Sum(DOMAIN len)
  <2>1. k \in Nat /\ k <= k
    BY <1>1
  <2>2. a[k].sum * k <= Sum(Upto(k))
    <3> HIDE DEF Upto
    <3> QED
      BY <1>10, <2>1 DEF K
  <2> QED
    BY <1>11, <2>2
<1> QED
  BY <1>5, <1>12 DEF Sum

\* As many sets as sequences, or fewer: none is empty.
LEMMA NoneEmpty ==
    ASSUME NEW len, NEW k, NEW equal, NEW far, Job(len, k, far),
           NEW a, StateOf(a, len, k, equal, far),
           \A x \in DOMAIN len : Has(a, x), k <= Len(len)
    PROVE  /\ \A i \in 1..k : Cardinality(a[i].items) # 0
           /\ k = Len(len) => \A i \in 1..k : Cardinality(a[i].items) = 1
<1> DEFINE n == Len(len)
           home == [x \in 1..n |-> CHOOSE i \in 1..k : x \in a[i].items]
<1>1. len \in Seq(Nat \ {0}) /\ n \in Nat /\ DOMAIN len = 1..n /\ k \in Nat \ {0}
  BY DEF Job
<1>2. \A x \in 1..n : home[x] \in 1..k /\ x \in a[home[x]].items
  <2>1. DOMAIN a = 1..k
    BY DEF StateOf, PartsOf
  <2> QED
    BY <1>1, <2>1 DEF Has
<1>3. /\ IsFiniteSet(1..n) /\ Cardinality(1..n) = n
      /\ IsFiniteSet(1..k) /\ Cardinality(1..k) = k
  BY <1>1, FS_Interval, SMTT(30)
<1>4. \A i \in 1..k : /\ IsFiniteSet(a[i].items) /\ Cardinality(a[i].items) \in Nat
                      /\ (a[i].items = {} <=> Cardinality(a[i].items) = 0)
  <2>1. \A i \in 1..k : SetOf(a[i], len)
    BY DEF StateOf, PartsOf
  <2> QED
    BY <1>1, <2>1, SetsAre
<1> HIDE DEF home
<1>5. home \in [1..n -> 1..k]
  BY <1>2 DEF home
<1>6. ASSUME NEW e \in 1..k, a[e].items = {} PROVE FALSE
  <2>1. \A i \in 1..k : Cardinality(a[i].items) <= 1
    BY <1>6 DEF StateOf, PartsOf
  <2>2. \A i \in 1..k : \A x, y \in a[i].items : x = y
    <3> SUFFICES ASSUME NEW i \in 1..k, NEW x \in a[i].items, NEW y \in a[i].items PROVE x = y
      OBVIOUS
    <3>1. Cardinality(a[i].items) = 1
      BY <1>4, <2>1
    <3> QED
      BY <1>4, <3>1, FS_Singleton
  <2> DEFINE T == (1..k) \ {e}
  <2>3. IsFiniteSet(T) /\ Cardinality(T) = k - 1
    <3>1. IsFiniteSet(T) /\ Cardinality(T) = Cardinality(1..k) - 1
      BY <1>3, FS_RemoveElement
    <3> QED
      BY <1>3, <3>1
  <2>4. home \in [1..n -> T]
    BY <1>2, <1>5, <1>6
  <2>5. Cardinality(T) < Cardinality(1..n)
    BY <1>1, <1>3, <2>3
  <2> HIDE DEF T
  <2>6. PICK x, y \in 1..n : x # y /\ home[x] = home[y]
    BY <1>3, <2>3, <2>4, <2>5, FS_PigeonHole
  <2> QED
    BY <1>2, <2>2, <2>6
<1>7. ASSUME k = n, NEW f \in 1..k, Cardinality(a[f].items) # 1 PROVE FALSE
  <2>1. Cardinality(a[f].items) > 1
    BY <1>4, <1>6, <1>7
  <2>2. home \in Surjection(1..n, 1..k)
    <3>1. \A i \in 1..k : \E x \in 1..n : home[x] = i
      <4> SUFFICES ASSUME NEW i \in 1..k PROVE \E x \in 1..n : home[x] = i
        OBVIOUS
      <4>1. PICK x : x \in a[i].items
        BY <1>6
      <4>2. x \in 1..n
        BY <1>1, <4>1 DEF StateOf, PartsOf, SetOf
      <4>3. home[x] = i
        BY <1>2, <4>1, <4>2 DEF StateOf, PartsOf
      <4> QED
        BY <4>2, <4>3
    <3> QED
      BY <1>5, <3>1 DEF Surjection
  <2>3. home \in Injection(1..n, 1..k)
    BY <1>3, <1>7, <2>2, FS_Surjection
  <2>4. \A x, y \in 1..n : home[x] = home[y] => x = y
    BY <2>3 DEF Injection, IsInjective
  <2>5. \A x, y \in a[f].items : x = y
    <3> SUFFICES ASSUME NEW x \in a[f].items, NEW y \in a[f].items PROVE x = y
      OBVIOUS
    <3>1. x \in 1..n /\ y \in 1..n
      BY <1>1 DEF StateOf, PartsOf, SetOf
    <3>2. home[x] = f /\ home[y] = f
      BY <1>2, <3>1 DEF StateOf, PartsOf
    <3> QED
      BY <2>4, <3>1, <3>2
  <2>6. PICK x : x \in a[f].items
    BY <1>6
  <2>7. a[f].items = {x}
    BY <2>5, <2>6
  <2> QED
    BY <1>7, <2>7, FS_Singleton
<1> QED
  BY <1>4, <1>6, <1>7

\* get_seqlen_balanced_partitions with equal_size: every sequence is in one
\* partition, all partitions have as many, and their tokens differ by no more
\* than those of two sequences may.
THEOREM EqualPartitionsAreLevel ==
    ASSUME NEW len \in Seq(Nat \ {0}), NEW k \in Nat \ {0},
           Len(len) # 0, Len(len) % k = 0,
           NEW lo \in Nat, NEW hi \in Nat,
           \A i \in DOMAIN len : lo <= len[i] /\ len[i] <= hi
    PROVE  /\ Deals(Partitions(len, k, TRUE), k, Len(len))
           /\ \A i, l \in 1..k :
                /\ Len(Partitions(len, k, TRUE)[i]) = Len(Partitions(len, k, TRUE)[l])
                /\ Total(len, Partitions(len, k, TRUE)[i]) <=
                     Total(len, Partitions(len, k, TRUE)[l]) + (hi - lo)
<1> DEFINE far == hi - lo
           P == Partitions(len, k, TRUE)
<1>1. lo <= hi
  <2>1. 1 \in DOMAIN len
    OBVIOUS
  <2>2. lo <= len[1] /\ len[1] <= hi /\ len[1] \in Nat
    BY <2>1
  <2> QED
    BY <2>2
<1>2. Job(len, k, far)
  BY <1>1 DEF Job
<1>3. /\ StartStates(len, k, TRUE) # {}
      /\ HeapOf(StartStates(len, k, TRUE), len, k, TRUE, far)
  BY <1>1, <1>2, EqualStart
<1> HIDE DEF far
<1>4. PICK a : /\ StateOf(a, len, k, TRUE, far)
               /\ \A x \in DOMAIN len : Has(a, x)
               /\ ArePartsOf(P, a, len, k)
  BY <1>2, <1>3, PartitionsOfHeap
<1> HIDE DEF P
<1>5. /\ Deals(P, k, Len(len))
      /\ \A i \in 1..k : Len(P[i]) = Cardinality(a[i].items) /\ Total(len, P[i]) = a[i].sum
  BY <1>4 DEF ArePartsOf
<1>7. \A i, l \in 1..k : /\ Cardinality(a[i].items) = Cardinality(a[l].items)
                         /\ a[i].sum <= a[l].sum + far
  BY <1>4 DEF StateOf, PartsOf
<1>8. \A i, l \in 1..k : Len(P[i]) = Len(P[l]) /\ Total(len, P[i]) <= Total(len, P[l]) + far
  BY <1>5, <1>7
<1> QED
  BY <1>5, <1>8 DEF P, far

LEMMA TotalIs ==
    ASSUME NEW len \in Seq(Nat \ {0})
    PROVE  /\ Total(len, [i \in DOMAIN len |-> i]) = SumFunctionOnSet(len, DOMAIN len)
           /\ Total(len, [i \in DOMAIN len |-> i]) \in Nat
<1> DEFINE id == [i \in DOMAIN len |-> i]
           g == [i \in DOMAIN id |-> len[id[i]]]
<1>1. DOMAIN g = DOMAIN len /\ \A i \in DOMAIN len : g[i] = len[i] /\ len[i] \in Nat
  OBVIOUS
<1>2. Total(len, id) = SumFunction(g)
  BY Zenon DEF Total
<1>3. IsFiniteSet(DOMAIN len)
  <2>1. DOMAIN len = 1..Len(len) /\ Len(len) \in Nat
    OBVIOUS
  <2> QED
    BY <2>1, FS_Interval
<1> HIDE DEF g
<1>4. SumFunction(g) = SumFunctionOnSet(g, DOMAIN len)
  BY <1>1, Zenon DEF SumFunction
<1>5. SumFunctionOnSet(g, DOMAIN len) = SumFunctionOnSet(len, DOMAIN len)
  BY <1>1, <1>3, SumSame
<1>6. SumFunctionOnSet(len, DOMAIN len) \in Nat
  BY <1>1, <1>3, SumType
<1> QED
  BY <1>2, <1>4, <1>5, <1>6

\* get_seqlen_balanced_partitions without: every sequence is in one partition;
\* when there are not more partitions than sequences none is empty, and none has
\* more than one sequence above what would do if all were equal.
THEOREM PartitionsFit ==
    ASSUME NEW len \in Seq(Nat \ {0}), NEW k \in Nat \ {0}, Len(len) # 0,
           NEW hi \in Nat, \A i \in DOMAIN len : len[i] <= hi
    PROVE  /\ Deals(Partitions(len, k, FALSE), k, Len(len))
           /\ k <= Len(len) => \A i \in 1..k :
                /\ Partitions(len, k, FALSE)[i] # <<>>
                /\ \A budget \in Nat :
                      \/ k = Len(len)
                      \/ Total(len, [x \in DOMAIN len |-> x]) <= budget * k
                      => Total(len, Partitions(len, k, FALSE)[i]) <= budget + hi
<1> DEFINE P == Partitions(len, k, FALSE)
           all == Total(len, [x \in DOMAIN len |-> x])
<1>1. Job(len, k, hi)
  BY DEF Job
<1>2. /\ StartStates(len, k, FALSE) # {}
      /\ HeapOf(StartStates(len, k, FALSE), len, k, FALSE, hi)
  BY <1>1, SingleStart
<1>4. PICK a : /\ StateOf(a, len, k, FALSE, hi)
               /\ \A x \in DOMAIN len : Has(a, x)
               /\ ArePartsOf(P, a, len, k)
  BY <1>1, <1>2, PartitionsOfHeap
<1> HIDE DEF P, all
<1>5. /\ Deals(P, k, Len(len))
      /\ \A i \in 1..k : Len(P[i]) = Cardinality(a[i].items) /\ Total(len, P[i]) = a[i].sum
  BY <1>4 DEF ArePartsOf
<1>6. all = SumFunctionOnSet(len, DOMAIN len) /\ all \in Nat
  BY TotalIs DEF all
<1>7. \A i \in 1..k : /\ SetOf(a[i], len) /\ a[i].sum \in Nat
                      /\ (a[i].items = {} <=> Cardinality(a[i].items) = 0)
  <2>1. \A i \in 1..k : SetOf(a[i], len)
    BY <1>4 DEF StateOf, PartsOf
  <2> QED
    BY <2>1, SetsAre
<1>8. ASSUME k <= Len(len), NEW i \in 1..k PROVE P[i] # <<>>
  <2>1. Cardinality(a[i].items) # 0
    BY <1>1, <1>4, <1>8, NoneEmpty, ZenonT(40)
  <2>2. Len(P[i]) # 0
    BY <1>5, <1>7, <2>1
  <2> QED
    BY <2>2
<1>9. ASSUME k = Len(len), NEW i \in 1..k, NEW budget \in Nat
      PROVE  Total(len, P[i]) <= budget + hi
  <2>1. Cardinality(a[i].items) = 1
    <3>1. k <= Len(len)
      BY <1>9
    <3> QED
      BY <1>1, <1>4, <1>9, <3>1, NoneEmpty, Zenon
  <2>2. PICK x : a[i].items = {x}
    BY <1>7, <2>1, FS_Singleton DEF SetOf, FiniteTokenSet
  <2>3. x \in DOMAIN len
    BY <1>7, <2>2 DEF SetOf
  <2>4. a[i].sum = len[x]
    <3>1. SumFunctionOnSet(len, {x}) = len[x]
      <4> DEFINE one == One(len, x)
      <4>1. SetOf(one, len) /\ one.items = {x} /\ one.sum = len[x]
        BY <2>3, OneIs
      <4> HIDE DEF one
      <4> QED
        BY <4>1 DEF SetOf
    <3> QED
      BY <1>7, <2>2, <3>1 DEF SetOf
  <2> QED
    BY <1>5, <1>7, <2>3, <2>4
<1>10. ASSUME NEW budget \in Nat, all <= budget * k, NEW i \in 1..k
       PROVE  Total(len, P[i]) <= budget + hi
  <2>1. PICK l \in 1..k : a[l].sum * k <= all
    BY <1>1, <1>4, <1>6, SomeSmall
  <2>2. a[l].sum <= budget
    <3> SUFFICES ASSUME ~(a[l].sum <= budget) PROVE FALSE
      OBVIOUS
    <3> DEFINE least == a[l].sum
    <3>1. least \in Nat /\ budget + 1 <= least
      BY <1>7
    <3>2. least * k <= all
      BY <2>1
    <3> HIDE DEF least
    <3>3. /\ (budget + 1) * k <= least * k /\ (budget + 1) * k = budget * k + k
          /\ budget * k \in Nat /\ least * k \in Nat
      BY <3>1, Products
    <3> QED
      BY <1>6, <1>10, <3>2, <3>3
  <2>3. a[i].sum <= a[l].sum + hi
    BY <1>4 DEF StateOf, PartsOf
  <2>4. Total(len, P[i]) = a[i].sum /\ a[i].sum \in Nat /\ a[l].sum \in Nat
    BY <1>5, <1>7
  <2> QED
    BY <2>2, <2>3, <2>4
<1>11. k <= Len(len) => \A i \in 1..k :
         /\ P[i] # <<>>
         /\ \A budget \in Nat :
               k = Len(len) \/ all <= budget * k => Total(len, P[i]) <= budget + hi
  BY <1>8, <1>9, <1>10
<1> QED
  BY <1>5, <1>11 DEF P, all

-----------------------------------------------------------------------------
(* The memory of the devices.                                              *)

\* Where a rank is in a call.
Place == {"idle", "start", "sync", "gather", "generate", "plan", "forward",
          "step", "back", "returned"}

\* What the device of a rank holds there, when models and engine are offloaded.
Holds(place) ==
    IF place \in {"idle", "start", "returned"} THEN {}
    ELSE IF place = "sync" THEN {"actor"}
    ELSE IF Generates THEN {"engine"}
    ELSE {Used}

\* A call to generate and one to infer or to update have stages of their own,
\* and between the calls no rank is in any.
PlaceInv ==
    /\ setup \in Setups
    /\ rank = [r \in Rank |-> rank[r]] /\ resident = [r \in Rank |-> resident[r]]
    /\ \A r \in Rank :
          /\ DOMAIN rank[r] = DOMAIN Idle
          /\ rank[r] = [f \in DOMAIN Idle |-> rank[r][f]]
          /\ rank[r].at \in Place
          /\ rank[r].at = "idle" => rank[r] = Idle
          /\ rank[r].at \in {"sync", "generate"} => Generates
          /\ rank[r].at \in {"plan", "forward", "step", "back"} => ~Generates
          /\ phase \in {"advantage", "done", "failed"} => rank[r].at = "idle"

MemoryInv ==
    setup.offload => \A r \in Rank : resident[r] = Holds(rank[r].at)

DeviceInv == PlaceInv /\ MemoryInv

LEMMA Sizes ==
    ASSUME setup \in Setups
    PROVE  /\ setup.world \in Nat \ {0} /\ setup.offload \in BOOLEAN
           /\ GroupSize \in Nat \ {0} /\ Used \in Model
           /\ Rank \subseteq Nat \ {0}
<1>1. Used \in Model
  BY DEF Used, Model
<1>2. setup.world \in Nat \ {0} /\ setup.offload \in BOOLEAN /\ setup.tp \in Nat \ {0}
      /\ setup.sp[Used] \in Nat \ {0}
  BY <1>1, SetupAssumption
<1> QED
  BY <1>1, <1>2 DEF GroupSize, Rank

LEMMA Division ==
    ASSUME NEW a \in Nat, NEW b \in Nat \ {0}
    PROVE  a % b \in 0 .. b - 1 /\ a \div b \in Nat /\ a = (a \div b) * b + (a % b)
  OBVIOUS

\* A rank is one of its group.
LEMMA InGroup ==
    ASSUME setup \in Setups, NEW q \in Rank
    PROVE  \E i \in 1..GroupSize : Group(LeaderOf(q))[i] = q
<1>1. q \in Nat /\ q - 1 \in Nat /\ GroupSize \in Nat \ {0}
  BY Sizes
<1> DEFINE k == (q - 1) \div GroupSize
           x == (q - 1) % GroupSize
<1>2. x \in 0 .. GroupSize - 1 /\ k \in Nat /\ q - 1 = k * GroupSize + x
  BY <1>1, Division
<1>3. LeaderOf(q) = k * GroupSize + 1
  BY DEF LeaderOf
<1> HIDE DEF k, x
<1> DEFINE l == LeaderOf(q)
<1>4. k * GroupSize \in Nat
  BY <1>1, <1>2
<1>5. l + (x + 1) - 1 = q /\ x + 1 \in 1 .. GroupSize /\ l \in Nat
  BY <1>1, <1>2, <1>3, <1>4
<1> HIDE DEF l
<1>6. LeaderOf(l) = l
  <2>1. l - 1 = k * GroupSize
    BY <1>3, <1>4 DEF l
  <2>2. (k * GroupSize) \div GroupSize = k
    BY <1>1, <1>2
  <2> QED
    BY <2>1, <2>2, <1>3, <1>4 DEF LeaderOf, l
<1>7. Group(l)[x + 1] = q
  BY <1>5, <1>6 DEF Group
<1> QED
  BY <1>5, <1>7 DEF l

LEMMA InitDeviceInv == Init => DeviceInv
<1> SUFFICES ASSUME Init PROVE DeviceInv
  OBVIOUS
<1>1. PlaceInv
  BY DEF Init, PlaceInv, Idle, Place
<1> QED
  BY <1>1, Sizes DEF Init, DeviceInv, MemoryInv, PlaceInv, Idle, Holds

\* A rank with its record, its place and its device.
Sound(r) ==
    /\ rank[r] = [f \in DOMAIN Idle |-> rank[r][f]]
    /\ rank[r].at \in Place
    /\ rank[r].at = "idle" => rank[r] = Idle
    /\ rank[r].at \in {"sync", "generate"} => Generates
    /\ rank[r].at \in {"plan", "forward", "step", "back"} => ~Generates
    /\ phase \in {"advantage", "done", "failed"} => rank[r].at = "idle"
    /\ setup.offload => resident[r] = Holds(rank[r].at)

\* During a call the ranks move, some of them or all.
LEMMA RanksMove ==
    ASSUME DeviceInv, setup' = setup, phase' = phase,
           rank' = [r \in Rank |-> rank'[r]],
           resident' = [r \in Rank |-> resident'[r]],
           \A r \in Rank : Sound(r)' \/ (rank'[r] = rank[r] /\ resident'[r] = resident[r])
    PROVE  DeviceInv'
<1>1. Rank' = Rank /\ Generates' = Generates /\ Used' = Used
  BY DEF Rank, Generates, Used
<1>2. \A x : Holds(x)' = Holds(x)
  BY <1>1 DEF Holds
<1>3. ASSUME NEW r \in Rank PROVE Sound(r)'
  <2>1. Sound(r)
    BY DEF DeviceInv, PlaceInv, MemoryInv, Sound
  <2>2. rank'[r] = rank[r] /\ resident'[r] = resident[r] => Sound(r)'
    BY <1>1, <1>2, <2>1 DEF Sound
  <2> QED
    BY <2>2
<1> QED
  BY <1>1, <1>3 DEF DeviceInv, PlaceInv, MemoryInv, Sound

LEMMA LoadKeeps == ASSUME DeviceInv, NEW r \in Rank, Load(r) PROVE DeviceInv'
<1>1. /\ setup' = setup /\ phase' = phase
      /\ rank' = [q \in Rank |-> rank'[q]] /\ resident' = [q \in Rank |-> resident'[q]]
      /\ \A q \in Rank \ {r} : rank'[q] = rank[q] /\ resident'[q] = resident[q]
  BY DEF Load, driver, DeviceInv, PlaceInv
<1>2. ASSUME NEW q \in Rank, q = r PROVE Sound(q)'
  BY <1>2, Sizes DEF Load, driver, DeviceInv, PlaceInv, MemoryInv, Sound, Holds, Idle, Place, Generates, Used
<1>3. \A q \in Rank : Sound(q)' \/ (rank'[q] = rank[q] /\ resident'[q] = resident[q])
  BY <1>1, <1>2
<1> QED
  BY <1>1, <1>3, RanksMove

LEMMA SyncKeeps == ASSUME DeviceInv, Sync PROVE DeviceInv'
<1>1. /\ setup' = setup /\ phase' = phase
      /\ rank' = [q \in Rank |-> rank'[q]] /\ resident' = [q \in Rank |-> resident'[q]]
  BY DEF Sync, driver
<1>2. ASSUME NEW r \in Rank PROVE Sound(r)'
  BY Sizes DEF Sync, driver, DeviceInv, PlaceInv, MemoryInv, Sound, Holds, Offloaded,
     Idle, Place, Generates, Used
<1>3. \A r \in Rank : Sound(r)' \/ (rank'[r] = rank[r] /\ resident'[r] = resident[r])
  BY <1>2
<1> QED
  BY <1>1, <1>3, RanksMove

LEMMA GatherKeeps == ASSUME DeviceInv, NEW r \in Rank, Gather(r) PROVE DeviceInv'
<1>1. /\ setup' = setup /\ phase' = phase /\ resident' = resident
      /\ rank' = [q \in Rank |-> rank'[q]] /\ resident' = [q \in Rank |-> resident'[q]]
      /\ \A q \in Rank : LeaderOf(q) # r => rank'[q] = rank[q]
  BY DEF Gather, driver, device, DeviceInv, PlaceInv
<1>2. ASSUME NEW q \in Rank, LeaderOf(q) = r PROVE Sound(q)'
  <2>1. rank[q].at = "gather"
    <3>1. PICK i \in 1..GroupSize : Group(r)[i] = q
      BY <1>2, InGroup DEF DeviceInv, PlaceInv
    <3>2. rank[Group(r)[i]].at = "gather"
      BY DEF Gather
    <3> QED
      BY <3>1, <3>2
  <2>2. /\ rank'[q].at = (IF Generates THEN "generate" ELSE "plan")
        /\ rank'[q] = [f \in DOMAIN Idle |-> rank'[q][f]]
    BY <1>2 DEF Gather, DeviceInv, PlaceInv, Idle
  <2> QED
    BY <1>1, <2>1, <2>2, Sizes DEF DeviceInv, PlaceInv, MemoryInv, Sound, Holds, Place,
       Generates, Used
<1>3. \A q \in Rank : Sound(q)' \/ (rank'[q] = rank[q] /\ resident'[q] = resident[q])
  BY <1>1, <1>2
<1> QED
  BY <1>1, <1>3, RanksMove

LEMMA GenerateKeeps == ASSUME DeviceInv, NEW r \in Rank, Generate(r) PROVE DeviceInv'
<1>1. /\ setup' = setup /\ phase' = phase
      /\ rank' = [q \in Rank |-> rank'[q]] /\ resident' = [q \in Rank |-> resident'[q]]
      /\ \A q \in Rank \ {r} : rank'[q] = rank[q] /\ resident'[q] = resident[q]
  BY DEF Generate, driver, DeviceInv, PlaceInv
<1>2. ASSUME NEW q \in Rank, q = r PROVE Sound(q)'
  <2>1. /\ rank'[r].at = "returned"
        /\ rank'[r] = [f \in DOMAIN Idle |-> rank'[r][f]]
        /\ rank[r].at = "generate"
    BY DEF Generate, DeviceInv, PlaceInv, Idle
  <2>2. resident'[r] = Offloaded(r, {"engine"})
    BY DEF Generate, DeviceInv, PlaceInv
  <2> QED
    BY <1>1, <1>2, <2>1, <2>2, Sizes DEF DeviceInv, PlaceInv, MemoryInv, Sound, Holds, Offloaded, Place,
       Generates, Used
<1>3. \A q \in Rank : Sound(q)' \/ (rank'[q] = rank[q] /\ resident'[q] = resident[q])
  BY <1>1, <1>2
<1> QED
  BY <1>1, <1>3, RanksMove

LEMMA GiveBackKeeps == ASSUME DeviceInv, NEW r \in Rank, GiveBack(r) PROVE DeviceInv'
<1>1. /\ setup' = setup /\ phase' = phase
      /\ rank' = [q \in Rank |-> rank'[q]] /\ resident' = [q \in Rank |-> resident'[q]]
      /\ \A q \in Rank \ {r} : rank'[q] = rank[q] /\ resident'[q] = resident[q]
  BY DEF GiveBack, driver, DeviceInv, PlaceInv
<1>2. ASSUME NEW q \in Rank, q = r PROVE Sound(q)'
  <2>1. /\ rank'[r].at = "returned"
        /\ rank'[r] = [f \in DOMAIN Idle |-> rank'[r][f]]
        /\ rank[r].at = "back"
    BY DEF GiveBack, DeviceInv, PlaceInv, Idle
  <2>2. resident'[r] = Offloaded(r, {Used})
    BY DEF GiveBack, DeviceInv, PlaceInv
  <2> QED
    BY <1>1, <1>2, <2>1, <2>2, Sizes DEF DeviceInv, PlaceInv, MemoryInv, Sound, Holds, Offloaded, Place,
       Generates, Used
<1>3. \A q \in Rank : Sound(q)' \/ (rank'[q] = rank[q] /\ resident'[q] = resident[q])
  BY <1>1, <1>2
<1> QED
  BY <1>1, <1>3, RanksMove

\* To plan, to run the model and to step changes nothing about the device.
LEMMA ModelKeeps ==
    ASSUME DeviceInv, NEW r \in Rank, PlanDynamic \/ PlanFixed(r) \/ Forward \/ Step
    PROVE  DeviceInv'
<1>1. /\ setup' = setup /\ phase' = phase /\ resident' = resident
      /\ rank' = [q \in Rank |-> rank'[q]] /\ resident' = [q \in Rank |-> resident'[q]]
  BY DEF PlanDynamic, PlanFixed, Forward, Step, driver, device, DeviceInv, PlaceInv
<1> DEFINE Working == {"plan", "forward", "step", "back"}
<1>2. ASSUME NEW q \in Rank, rank'[q] # rank[q]
      PROVE  /\ rank[q].at \in Working /\ rank'[q].at \in Working
             /\ rank'[q] = [f \in DOMAIN Idle |-> rank'[q][f]]
  <2>1. CASE PlanDynamic
    <3> DEFINE Parts(p, num) == Partitions(Lengths(Now(p)), num[p], FALSE)
    <3>1. PICK num : rank' = [p \in Rank |->
              [rank[p] EXCEPT !.plan = Parts(p, num), !.at = "forward"]]
      BY <2>1, Zenon DEF PlanDynamic
    <3> HIDE DEF Parts
    <3>2. rank[q].at = "plan"
      BY <2>1 DEF PlanDynamic
    <3>3. rank'[q] = [rank[q] EXCEPT !.plan = Parts(q, num), !.at = "forward"]
      BY <3>1
    <3>4. DOMAIN rank[q] = {"at", "rows", "todo", "plan", "order", "out"}
      BY DEF DeviceInv, PlaceInv, Idle
    <3> QED
      BY <3>2, <3>3, <3>4 DEF Idle
  <2>2. CASE PlanFixed(r)
    BY <2>2, <1>2 DEF PlanFixed, DeviceInv, PlaceInv, Idle
  <2>3. CASE Forward
    <3> DEFINE Outs(p) == rank[p].out \o [i \in DOMAIN Part(p) |-> Result(Part(p)[i])]
               Indices(p) == rank[p].order \o Head(rank[p].plan)
               Goes(p, to) == IF Len(rank[p].plan) > 1 THEN "forward" ELSE to
    <3>1. \/ rank' = [p \in Rank |-> [rank[p] EXCEPT
                 !.out = Outs(p), !.order = Indices(p), !.plan = Tail(@), !.at = Goes(p, "back")]]
          \/ rank' = [p \in Rank |-> [rank[p] EXCEPT
                 !.plan = Tail(@), !.at = Goes(p, "step")]]
      BY <2>3, Zenon DEF Forward
    <3>2. Goes(q, "back") \in Working /\ Goes(q, "step") \in Working
      OBVIOUS
    <3> HIDE DEF Outs, Indices, Goes
    <3>3. rank[q].at = "forward"
      BY <2>3 DEF Forward
    <3>4. DOMAIN rank[q] = {"at", "rows", "todo", "plan", "order", "out"}
      BY DEF DeviceInv, PlaceInv, Idle
    <3>5. \/ rank'[q] = [rank[q] EXCEPT
                 !.out = Outs(q), !.order = Indices(q), !.plan = Tail(@), !.at = Goes(q, "back")]
          \/ rank'[q] = [rank[q] EXCEPT !.plan = Tail(@), !.at = Goes(q, "step")]
      BY <3>1
    <3>6. rank'[q].at \in Working
      BY <3>2, <3>4, <3>5
    <3>7. rank'[q] = [f \in DOMAIN Idle |-> rank'[q][f]]
      BY <3>4, <3>5 DEF Idle
    <3> QED
      BY <3>3, <3>6, <3>7
  <2>4. CASE Step
    BY <2>4, <1>2 DEF Step, DeviceInv, PlaceInv, Idle
  <2> QED
    BY <2>1, <2>2, <2>3, <2>4
<1>3. ASSUME NEW q \in Rank, rank'[q] # rank[q] PROVE Sound(q)'
  BY <1>1, <1>2, <1>3, Sizes DEF DeviceInv, PlaceInv, MemoryInv, Sound, Holds, Place,
     Generates, Used
<1>4. \A q \in Rank : Sound(q)' \/ (rank'[q] = rank[q] /\ resident'[q] = resident[q])
  BY <1>1, <1>3
<1> QED
  BY <1>1, <1>4, RanksMove

\* Between two calls the driver may do anything: no rank has something on its
\* device.
LEMMA DriverKeeps ==
    ASSUME DeviceInv, setup' = setup, resident' = resident,
           \A r \in Rank : rank[r].at \in {"idle", "returned"},
           rank' = [r \in Rank |-> Idle]
    PROVE  DeviceInv'
<1>1. Rank' = Rank
  BY DEF Rank
<1>2. ASSUME NEW r \in Rank PROVE rank'[r] = Idle /\ Idle.at = "idle"
  BY DEF Idle
<1>3. setup.offload => \A r \in Rank : resident'[r] = {}
  BY DEF DeviceInv, MemoryInv, Holds
<1>4. MemoryInv'
  BY <1>1, <1>2, <1>3 DEF MemoryInv, Holds
<1> QED
  BY <1>1, <1>2, <1>4 DEF DeviceInv, PlaceInv, Place, Idle

LEMMA CallKeeps == ASSUME DeviceInv, Call PROVE DeviceInv'
<1>0. rank = [r \in Rank |-> rank[r]] /\ \A r \in Rank : rank[r] = Idle
  BY DEF Call, DeviceInv, PlaceInv
<1>1. /\ setup' = setup /\ resident' = resident
      /\ rank = [r \in Rank |-> Idle] /\ \A r \in Rank : rank[r].at = "idle"
  <2>1. setup' = setup /\ resident' = resident
    BY DEF Call, Fail, device
  <2>2. Idle.at = "idle"
    BY DEF Idle
  <2> QED
    BY <1>0, <2>1, <2>2
<1>2. CASE UNCHANGED rank
  BY <1>1, <1>2, DriverKeeps
<1>3. CASE ~ UNCHANGED rank
  <2>1. phase' = phase /\ phase \notin {"advantage", "done", "failed"}
    BY <1>3 DEF Call
  <2> DEFINE Piece(r) == Chunk(Sent, setup.world)[r]
  <2>2. rank' = [r \in Rank |-> [Idle EXCEPT !.at = "start", !.rows = Piece(r)]]
    BY <1>3, Zenon DEF Call
  <2> HIDE DEF Piece
  <2>3. ASSUME NEW r \in Rank PROVE Sound(r)'
    <3>1. rank'[r].at = "start" /\ rank'[r] = [f \in DOMAIN Idle |-> rank'[r][f]]
      BY <2>2 DEF Idle
    <3>2. resident'[r] = resident[r] /\ rank[r].at = "idle"
      BY <1>1
    <3> QED
      BY <1>1, <2>1, <3>1, <3>2 DEF DeviceInv, MemoryInv, Sound, Holds, Place
  <2>4. /\ rank' = [q \in Rank |-> rank'[q]] /\ resident' = [q \in Rank |-> resident'[q]]
        /\ \A r \in Rank : Sound(r)' \/ (rank'[r] = rank[r] /\ resident'[r] = resident[r])
    BY <1>1, <2>2, <2>3 DEF DeviceInv, PlaceInv
  <2> QED
    BY <1>1, <2>1, <2>4, RanksMove
<1> QED
  BY <1>2, <1>3

LEMMA ReturnKeeps ==
    ASSUME DeviceInv,
           EndValidate \/ EndGenerate \/ EndInfer \/ EndUpdateCritic \/ EndUpdateActor
    PROVE  DeviceInv'
<1>1. /\ setup' = setup /\ resident' = resident /\ rank' = [r \in Rank |-> Idle]
      /\ Returned
  BY DEF EndValidate, EndGenerate, EndInfer, EndUpdateCritic, EndUpdateActor, Fail,
     Free, device
<1> QED
  BY <1>1, DriverKeeps DEF Returned

LEMMA RestKeeps == ASSUME DeviceInv, Score \/ Advantage \/ UNCHANGED vars PROVE DeviceInv'
<1>1. setup' = setup /\ resident' = resident /\ rank' = rank
  BY DEF Score, Advantage, vars, device
<1>2. CASE Advantage
  <2>1. \A r \in Rank : rank[r].at = "idle" /\ rank[r] = Idle
    BY <1>2 DEF Advantage, DeviceInv, PlaceInv
  <2>2. rank' = [r \in Rank |-> Idle]
    BY <1>1, <2>1 DEF DeviceInv, PlaceInv
  <2> QED
    BY <1>1, <2>1, <2>2, DriverKeeps
<1>3. CASE ~Advantage
  <2>1. phase' = phase
    BY <1>3 DEF Score, vars
  <2>2. \A r \in Rank : Sound(r)' \/ (rank'[r] = rank[r] /\ resident'[r] = resident[r])
    BY <1>1
  <2>3. /\ rank' = [q \in Rank |-> rank'[q]] /\ resident' = [q \in Rank |-> resident'[q]]
    BY <1>1 DEF DeviceInv, PlaceInv
  <2> QED
    BY <1>1, <2>1, <2>2, <2>3, RanksMove
<1> QED
  BY <1>2, <1>3

LEMMA NextKeepsDevice == ASSUME DeviceInv, [Next]_vars PROVE DeviceInv'
<1>1. CASE Drive
  BY <1>1, CallKeeps, ReturnKeeps, RestKeeps DEF Drive
<1>2. CASE Sync
  BY <1>2, SyncKeeps
<1>3. CASE PlanDynamic \/ Forward \/ Step
  <2>1. \E r \in Rank : TRUE
    BY Sizes DEF Rank, DeviceInv, PlaceInv
  <2> QED
    BY <1>3, <2>1, ModelKeeps
<1>4. ASSUME NEW r \in Rank, Run(r) PROVE DeviceInv'
  BY <1>4, LoadKeeps, GatherKeeps, GenerateKeeps, ModelKeeps, GiveBackKeeps DEF Run
<1>5. CASE Score \/ Over \/ UNCHANGED vars
  BY <1>5, RestKeeps DEF Over
<1> QED
  BY <1>1, <1>2, <1>3, <1>4, <1>5 DEF Next, Meet

\* OneModelOnDevice of TrainingBatch: whatever the number of ranks and however
\* their steps are interleaved, the loads and offloads of load_fsdp_model_to_gpu,
\* of the sharding manager and of the inference engine leave a rank with the one
\* model it uses, and with nothing between the calls.
THEOREM MemoryIsGivenBack == Spec => []OneModelOnDevice
<1>1. Init => DeviceInv
  BY InitDeviceInv
<1>2. DeviceInv /\ [Next]_vars => DeviceInv'
  BY NextKeepsDevice
<1>3. DeviceInv => OneModelOnDevice
  BY DEF DeviceInv, PlaceInv, MemoryInv, OneModelOnDevice, Holds
<1> QED
  BY <1>1, <1>2, <1>3, PTL DEF Spec

-----------------------------------------------------------------------------
(* Sequences of rows.                                                      *)

\* s is a sequence of n elements.
Long(s, n) == s = [i \in 1..n |-> s[i]]

LEMMA LongIs ==
    ASSUME NEW n \in Nat, NEW s, Long(s, n)
    PROVE  s \in Seq({s[i] : i \in 1..n}) /\ Len(s) = n /\ DOMAIN s = 1..n
<1>1. s = [i \in 1..n |-> s[i]]
  BY Zenon DEF Long
<1>2. DOMAIN s = 1..n
  BY <1>1
<1> QED
  BY <1>1, <1>2, EagerIs

LEMMA LongSeq ==
    ASSUME NEW X, NEW s \in Seq(X)
    PROVE  Long(s, Len(s)) /\ Len(s) \in Nat /\ DOMAIN s = 1..Len(s)
  BY DEF Long

\* The m elements of s and the n of t.
Both(u, s, m, t, n) ==
    /\ Long(u, m + n)
    /\ \A i \in 1..m : u[i] = s[i]
    /\ \A i \in 1..n : u[m + i] = t[i]

LEMMA LongJoin ==
    ASSUME NEW m \in Nat, NEW n \in Nat, NEW s, NEW t, Long(s, m), Long(t, n)
    PROVE  Both(s \o t, s, m, t, n)
<1> DEFINE X == {s[i] : i \in 1..m} \cup {t[i] : i \in 1..n}
<1>1. s \in Seq(X) /\ Len(s) = m
  <2>1. s \in Seq({s[i] : i \in 1..m}) /\ Len(s) = m
    BY LongIs
  <2> QED
    BY <2>1
<1>2. t \in Seq(X) /\ Len(t) = n
  <2>1. t \in Seq({t[i] : i \in 1..n}) /\ Len(t) = n
    BY LongIs
  <2> QED
    BY <2>1
<1> HIDE DEF X
<1> DEFINE u == s \o t
<1>3. u \in Seq(X) /\ Len(u) = m + n
  BY <1>1, <1>2
<1>4. Long(u, m + n)
  BY <1>3, LongSeq
<1>5. \A i \in 1..(m + n) : u[i] = IF i <= m THEN s[i] ELSE t[i - m]
  BY <1>1, <1>2
<1>6. /\ \A i \in 1..m : i \in 1..(m + n) /\ i <= m
      /\ \A i \in 1..n : m + i \in 1..(m + n) /\ ~(m + i <= m) /\ (m + i) - m = i
  OBVIOUS
<1> HIDE DEF u
<1>7. Both(u, s, m, t, n)
  BY <1>4, <1>5, <1>6 DEF Both
<1> QED
  BY <1>7 DEF u

\* u is the n elements of s after the first a.
Slice(u, s, a, n) == Long(u, n) /\ \A i \in 1..n : u[i] = s[a + i]

LEMMA SliceIs ==
    ASSUME NEW n \in Nat, NEW s, Long(s, n), NEW a \in Nat, NEW b \in Nat, a + b <= n
    PROVE  Slice(SubSeq(s, a + 1, a + b), s, a, b)
<1> DEFINE X == {s[i] : i \in 1..n}
           t == SubSeq(s, a + 1, a + b)
<1>1. s \in Seq(X) /\ Len(s) = n
  BY LongIs
<1> HIDE DEF X
<1>2. t \in Seq(X) /\ Len(t) = b /\ \A i \in 1..b : t[i] = s[a + i]
  BY <1>1
<1> HIDE DEF t
<1>3. Long(t, b)
  BY <1>2, LongSeq
<1>4. Slice(t, s, a, b)
  BY <1>2, <1>3 DEF Slice
<1> QED
  BY <1>4 DEF t

LEMMA SliceOfSlice ==
    ASSUME NEW u, NEW s, NEW a \in Nat, NEW n \in Nat, Slice(u, s, a, n),
           NEW v, NEW b \in Nat, NEW m \in Nat, Slice(v, u, b, m), b + m <= n
    PROVE  Slice(v, s, a + b, m)
<1>1. ASSUME NEW i \in 1..m PROVE v[i] = s[(a + b) + i]
  <2>1. b + i \in 1..n /\ a + (b + i) = (a + b) + i
    OBVIOUS
  <2>2. v[i] = u[b + i] /\ u[b + i] = s[a + (b + i)]
    BY <2>1 DEF Slice
  <2> QED
    BY <2>1, <2>2
<1> QED
  BY <1>1 DEF Slice

LEMMA ChunkIs ==
    ASSUME NEW k \in Nat \ {0}, NEW c \in Nat, NEW rows, Long(rows, k * c), NEW i \in 1..k
    PROVE  Slice(Chunk(rows, k)[i], rows, (i - 1) * c, c)
<1>1. k * c \in Nat /\ (k * c) \div k = c
  OBVIOUS
<1>2. Len(rows) = k * c
  BY <1>1, LongIs
<1> DEFINE a == (i - 1) * c
<1>3. a \in Nat /\ i * c = a + c /\ a + c <= k * c
  <2>1. i - 1 \in Nat /\ (i - 1) + 1 = i /\ i \in Nat /\ i <= k /\ k \in Nat
    OBVIOUS
  <2>2. (i - 1) * c \in Nat /\ ((i - 1) + 1) * c = (i - 1) * c + c /\ i * c <= k * c
    BY <2>1, Products
  <2> QED
    BY <2>1, <2>2
<1>4. Chunk(rows, k)[i] = SubSeq(rows, a + 1, i * c)
  BY <1>1, <1>2 DEF Chunk
<1> HIDE DEF a
<1>5. Slice(SubSeq(rows, a + 1, a + c), rows, a, c)
  <2> DEFINE n == k * c
  <2>1. n \in Nat /\ Long(rows, n) /\ a + c <= n
    BY <1>1, <1>3
  <2> HIDE DEF n
  <2> QED
    BY <1>3, <2>1, SliceIs
<1>6. Slice(Chunk(rows, k)[i], rows, a, c)
  BY <1>3, <1>4, <1>5
<1> QED
  BY <1>6 DEF a

\* The pieces one after the other.
Flattens(f, pieces, k) ==
    f = [i \in 1..k |-> IF i = 1 THEN pieces[i] ELSE f[i - 1] \o pieces[i]]

LEMMA FlatteningExists ==
    ASSUME NEW pieces, NEW N \in Nat
    PROVE  \E f : Flattens(f, pieces, N)
<1> DEFINE K == {m \in Nat : \E f : Flattens(f, pieces, m)}
<1>1. 0 \in K
  <2>1. Flattens([i \in 1..0 |-> 0], pieces, 0)
    BY DEF Flattens
  <2> QED
    BY <2>1
<1>2. ASSUME NEW m \in Nat, m \in K PROVE m + 1 \in K
  <2>1. PICK f : Flattens(f, pieces, m)
    BY <1>2
  <2> DEFINE g == [i \in 1..(m + 1) |-> IF i = 1 THEN pieces[i] ELSE f[i - 1] \o pieces[i]]
  <2>2. ASSUME NEW i \in 1..m PROVE g[i] = f[i]
    <3>1. f[i] = IF i = 1 THEN pieces[i] ELSE f[i - 1] \o pieces[i]
      BY <2>1 DEF Flattens
    <3>2. i \in 1..(m + 1)
      OBVIOUS
    <3> QED
      BY <3>1, <3>2
  <2>3. \A i \in 1..(m + 1) : i # 1 => i - 1 \in 1..m
    OBVIOUS
  <2>4. \A i \in 1..(m + 1) : i # 1 => g[i - 1] = f[i - 1]
    BY <2>2, <2>3
  <2>5. Flattens(g, pieces, m + 1)
    BY <2>4 DEF Flattens
  <2> HIDE DEF g
  <2> QED
    BY <2>5
<1> HIDE DEF K
<1>3. Nat \subseteq K
  BY <1>1, <1>2, NumberInduction
<1> QED
  BY <1>3 DEF K

\* u is the pieces, c long each, one after the other.
Piled(u, pieces, k, c) ==
    /\ Long(u, k * c)
    /\ \A s \in 0..(k - 1), i \in 1..c : u[(s * c) + i] = pieces[s + 1][i]

LEMMA ConcatIs ==
    ASSUME NEW k \in Nat \ {0}, NEW c \in Nat \ {0}, NEW pieces, Long(pieces, k),
           \A i \in 1..k : Long(pieces[i], c)
    PROVE  Piled(Concat(pieces), pieces, k, c)
<1> DEFINE f == CHOOSE f : Flattens(f, pieces, k)
<1>1. Concat(pieces) = f[k]
  <2>1. Len(pieces) = k
    BY LongIs
  <2>2. Concat(pieces) = (CHOOSE g : Flattens(g, pieces, Len(pieces)))[Len(pieces)]
    BY <2>1, Zenon DEF Concat, FlattenSeq, Flattens
  <2> QED
    BY <2>1, <2>2
<1>2. Flattens(f, pieces, k)
  <2>1. k \in Nat
    OBVIOUS
  <2>2. \E g : Flattens(g, pieces, k)
    BY <2>1, FlatteningExists
  <2> QED
    BY <2>2
<1> HIDE DEF f
<1>3. /\ f[1] = pieces[1]
      /\ \A i \in Nat \ {0} : i + 1 <= k => f[i + 1] = f[i] \o pieces[i + 1]
  <2>1. \A i \in 1..k : f[i] = IF i = 1 THEN pieces[i] ELSE f[i - 1] \o pieces[i]
    BY <1>2 DEF Flattens
  <2>2. 1 \in 1..k /\ \A i \in Nat \ {0} : i + 1 <= k => i + 1 \in 1..k /\ i + 1 # 1 /\ (i + 1) - 1 = i
    OBVIOUS
  <2> QED
    BY <2>1, <2>2
<1> DEFINE Done(i) == /\ Long(f[i], i * c)
                      /\ \A s \in 0..(i - 1), j \in 1..c : f[i][(s * c) + j] = pieces[s + 1][j]
           K == {m \in Nat : m + 1 <= k => Done(m + 1)}
<1>4. 0 \in K
  <2>1. Long(pieces[1], c) /\ 1 * c = c /\ 0 * c = 0
    OBVIOUS
  <2>2. \A s \in 0..0, j \in 1..c : s = 0 /\ (0 * c) + j = j
    BY <2>1
  <2> QED
    BY <1>3, <2>1, <2>2
<1>5. ASSUME NEW m \in Nat, m \in K PROVE m + 1 \in K
  <2> SUFFICES ASSUME (m + 1) + 1 <= k PROVE Done((m + 1) + 1)
    OBVIOUS
  <2> DEFINE i == m + 1
             p == pieces[i + 1]
  <2>1. Done(i)
    BY <1>5
  <2>2. f[i + 1] = f[i] \o p /\ i \in Nat \ {0} /\ i + 1 \in 1..k
    <3>1. i \in Nat \ {0} /\ i + 1 <= k
      OBVIOUS
    <3>2. f[i + 1] = f[i] \o pieces[i + 1]
      BY <1>3, <3>1
    <3> QED
      BY <3>1, <3>2
  <2>3. Long(p, c) /\ c \in Nat
    BY <2>2
  <2> HIDE DEF i, p
  <2>4. i * c \in Nat /\ (i + 1) * c = i * c + c
    BY <2>2, <2>3, Products
  <2> DEFINE m1 == i * c
             g == f[i]
             u == f[i + 1]
  <2>8. m1 \in Nat /\ Long(g, m1) /\ u = g \o p
    BY <2>1, <2>2, <2>4
  <2> HIDE DEF m1, g, u
  <2>9. Both(u, g, m1, p, c)
    BY <2>3, <2>8, LongJoin
  <2>5. /\ Long(f[i + 1], i * c + c)
        /\ \A j \in 1..(i * c) : f[i + 1][j] = f[i][j]
        /\ \A j \in 1..c : f[i + 1][(i * c) + j] = p[j]
    BY <2>9 DEF m1, g, u, Both
  <2>6. ASSUME NEW s \in 0..((i + 1) - 1), NEW j \in 1..c
        PROVE  f[i + 1][(s * c) + j] = pieces[s + 1][j]
    <3>1. CASE s = i
      BY <2>2, <2>5, <3>1 DEF p
    <3>2. CASE s # i
      <4>1. s \in 0..(i - 1)
        BY <2>2, <3>2
      <4>2. (s * c) + j \in 1..(i * c)
        BY <2>2, <4>1, Grid
      <4> QED
        BY <2>1, <2>2, <2>5, <4>1, <4>2
    <3> QED
      BY <3>1, <3>2
  <2>7. Done(i + 1)
    BY <2>2, <2>4, <2>5, <2>6
  <2> QED
    BY <2>7 DEF i
<1> HIDE DEF K
<1>6. Nat \subseteq K
  BY <1>4, <1>5, NumberInduction
<1>7. k - 1 \in Nat /\ (k - 1) + 1 = k
  OBVIOUS
<1>8. Done(k)
  <2> HIDE DEF Done
  <2> QED
    BY <1>6, <1>7 DEF K
<1> QED
  BY <1>1, <1>8 DEF Piled

\* Slices that follow one another.
LEMMA SlicesJoin ==
    ASSUME NEW k \in Nat \ {0}, NEW c \in Nat \ {0}, NEW pieces, Long(pieces, k),
           NEW s, NEW a \in Nat,
           \A i \in 1..k : Slice(pieces[i], s, a + ((i - 1) * c), c)
    PROVE  Slice(Concat(pieces), s, a, k * c)
<1> DEFINE u == Concat(pieces)
<1>1. Piled(u, pieces, k, c)
  <2>1. \A i \in 1..k : Long(pieces[i], c)
    BY DEF Slice
  <2> QED
    BY <2>1, ConcatIs
<1> HIDE DEF u
<1>2. ASSUME NEW x \in 1..(k * c) PROVE u[x] = s[a + x]
  <2> DEFINE l == (x - 1) \div c
             i == ((x - 1) % c) + 1
  <2>1. k \in Nat /\ l \in 0..(k - 1) /\ i \in 1..c /\ x = (l * c) + i
    BY Grid
  <2> HIDE DEF l, i
  <2>2. u[(l * c) + i] = pieces[l + 1][i]
    BY <1>1, <2>1 DEF Piled
  <2>3. l + 1 \in 1..k /\ (l + 1) - 1 = l /\ l * c \in Nat
    <3>1. l \in Nat /\ c \in Nat
      BY <2>1
    <3> QED
      BY <2>1, <3>1, Products
  <2>4. Slice(pieces[l + 1], s, a + (l * c), c)
    BY <2>3
  <2>5. pieces[l + 1][i] = s[(a + (l * c)) + i]
    BY <2>1, <2>4 DEF Slice
  <2>6. (a + (l * c)) + i = a + x
    BY <2>1, <2>3
  <2> QED
    BY <2>1, <2>2, <2>5, <2>6
<1>3. Long(u, k * c)
  BY <1>1 DEF Piled
<1>4. Slice(u, s, a, k * c)
  BY <1>2, <1>3 DEF Slice
<1> QED
  BY <1>4 DEF u

-----------------------------------------------------------------------------
(* What is dealt out is worked off.                                        *)

In(s, x) == \E i \in DOMAIN s : s[i] = x

\* The plan is of different indices of 1..n, and the order has the others.
Dealt(plan, order, n) ==
    /\ plan \in Seq(Seq(1..n)) /\ order \in Seq(1..n)
    /\ \A p, q \in DOMAIN plan : \A i \in DOMAIN plan[p], j \in DOMAIN plan[q] :
          plan[p][i] = plan[q][j] => p = q /\ i = j
    /\ \A i, j \in DOMAIN order : order[i] = order[j] => i = j
    /\ \A x \in 1..n : In(order, x) <=> ~ \E p \in DOMAIN plan : In(plan[p], x)

LEMMA DealtBegins ==
    ASSUME NEW P, NEW k \in Nat \ {0}, NEW n \in Nat, Deals(P, k, n)
    PROVE  Dealt(P, <<>>, n) /\ P # <<>> /\ Len(P) = k
<1>1. P \in Seq(Seq(1..n)) /\ DOMAIN P = 1..k /\ Len(P) = k /\ P # <<>>
  <2> DEFINE X == Seq(1..n)
  <2>1. P \in [1..k -> X]
    BY DEF Deals
  <2> HIDE DEF X
  <2>2. P \in Seq(X) /\ Len(P) = k
    BY <2>1, IsASeq, LenProperties
  <2>3. DOMAIN P = 1..k /\ P # <<>>
    BY <2>1, <2>2
  <2> QED
    BY <2>2, <2>3 DEF X
<1>2. \A p \in 1..k : P[p] \in Seq(1..n) /\ DOMAIN P[p] = 1..Len(P[p])
  BY DEF Deals
<1>3. ASSUME NEW x \in 1..n PROVE \E p \in 1..k : In(P[p], x)
  <2>1. PICK p \in 1..k : \E j \in 1..Len(P[p]) : P[p][j] = x
    BY DEF Deals
  <2>2. In(P[p], x)
    BY <1>2, <2>1 DEF In
  <2> QED
    BY <2>2
<1>4. <<>> \in Seq(1..n) /\ DOMAIN <<>> = {} /\ \A x : ~In(<<>>, x)
  BY DEF In
<1>5. ASSUME NEW p \in 1..k, NEW q \in 1..k, NEW i \in DOMAIN P[p], NEW j \in DOMAIN P[q],
             P[p][i] = P[q][j]
      PROVE  p = q /\ i = j
  <2>1. i \in 1..Len(P[p]) /\ j \in 1..Len(P[q])
    BY <1>2
  <2>2. \A e, l \in 1..k : \A f \in 1..Len(P[e]), h \in 1..Len(P[l]) :
           P[e][f] = P[l][h] => e = l /\ f = h
    BY DEF Deals
  <2> QED
    BY <1>5, <2>1, <2>2
<1>6. \A x \in 1..n : In(<<>>, x) <=> ~ \E p \in DOMAIN P : In(P[p], x)
  BY <1>1, <1>3, <1>4
<1>7. \A p, q \in DOMAIN P : \A i \in DOMAIN P[p], j \in DOMAIN P[q] :
          P[p][i] = P[q][j] => p = q /\ i = j
  BY <1>1, <1>5
<1> HIDE DEF Deals
<1>8. Dealt(P, <<>>, n)
  BY <1>1, <1>4, <1>6, <1>7 DEF Dealt
<1> QED
  BY <1>1, <1>8

LEMMA DealtGoesOn ==
    ASSUME NEW plan, NEW order, NEW n \in Nat, Dealt(plan, order, n), plan # <<>>
    PROVE  /\ Dealt(Tail(plan), order \o Head(plan), n)
           /\ Head(plan) \in Seq(1..n)
<1> DEFINE X == 1..n
           h == Head(plan)
           t == Tail(plan)
           o == order \o h
<1>1. plan \in Seq(Seq(X)) /\ order \in Seq(X)
  BY DEF Dealt
<1>2. /\ h = plan[1] /\ h \in Seq(X) /\ t \in Seq(Seq(X)) /\ 1 \in DOMAIN plan
      /\ \A p \in DOMAIN t : p + 1 \in DOMAIN plan /\ t[p] = plan[p + 1] /\ p + 1 # 1 /\ p \in Nat
      /\ \A p \in DOMAIN plan : p = 1 \/ (p - 1 \in DOMAIN t /\ (p - 1) + 1 = p)
  <2> DEFINE Y == Seq(X)
  <2>1. plan \in Seq(Y)
    BY <1>1
  <2> HIDE DEF Y
  <2>2. h = plan[1] /\ h \in Y /\ t \in Seq(Y) /\ 1 \in DOMAIN plan
    BY <2>1
  <2>3. /\ \A p \in DOMAIN t : p + 1 \in DOMAIN plan /\ t[p] = plan[p + 1] /\ p + 1 # 1 /\ p \in Nat
        /\ \A p \in DOMAIN plan : p = 1 \/ (p - 1 \in DOMAIN t /\ (p - 1) + 1 = p)
    BY <2>1
  <2> QED
    BY <2>2, <2>3 DEF Y
<1> DEFINE a == Len(order)
           b == Len(h)
<1>3. Both(o, order, a, h, b) /\ a \in Nat /\ b \in Nat /\ DOMAIN order = 1..a /\ DOMAIN h = 1..b
  <2>1. Long(order, a) /\ Long(h, b) /\ a \in Nat /\ b \in Nat /\ DOMAIN order = 1..a /\ DOMAIN h = 1..b
    BY <1>1, <1>2, LongSeq
  <2> HIDE DEF a, b, h
  <2> QED
    BY <2>1, LongJoin
<1>4. o \in Seq(X) /\ DOMAIN o = 1..(a + b)
  BY <1>1, <1>2
<1> HIDE DEF X, h, t, o, a, b
<1>5. /\ \A i \in 1..a : i \in 1..(a + b) /\ o[i] = order[i]
      /\ \A i \in 1..b : a + i \in 1..(a + b) /\ o[a + i] = h[i]
      /\ \A i \in 1..(a + b) : i \in 1..a \/ (i - a \in 1..b /\ a + (i - a) = i)
  <2>1. /\ \A i \in 1..a : o[i] = order[i]
        /\ \A i \in 1..b : o[a + i] = h[i]
    BY <1>3 DEF Both
  <2>2. /\ \A i \in 1..a : i \in 1..(a + b)
        /\ \A i \in 1..b : a + i \in 1..(a + b)
        /\ \A i \in 1..(a + b) : i \in 1..a \/ (i - a \in 1..b /\ a + (i - a) = i)
    BY <1>3
  <2> QED
    BY <2>1, <2>2
<1>6. ASSUME NEW x PROVE In(o, x) <=> In(order, x) \/ In(h, x)
  <2>1. ASSUME In(o, x) PROVE In(order, x) \/ In(h, x)
    <3>1. PICK i \in 1..(a + b) : o[i] = x
      BY <1>4, <2>1 DEF In
    <3>2. CASE i \in 1..a
      BY <1>3, <1>5, <3>1, <3>2 DEF In
    <3>3. CASE i - a \in 1..b /\ a + (i - a) = i
      BY <1>3, <1>5, <3>1, <3>3 DEF In
    <3> QED
      BY <1>5, <3>2, <3>3
  <2>2. ASSUME In(order, x) PROVE In(o, x)
    BY <1>3, <1>4, <1>5, <2>2 DEF In
  <2>3. ASSUME In(h, x) PROVE In(o, x)
    BY <1>3, <1>4, <1>5, <2>3 DEF In
  <2> QED
    BY <2>1, <2>2, <2>3
<1>7. ASSUME NEW x \in X
      PROVE  In(o, x) <=> ~ \E p \in DOMAIN t : In(t[p], x)
  <2>1. In(order, x) <=> ~ \E p \in DOMAIN plan : In(plan[p], x)
    BY DEF Dealt, X
  <2>2. (\E p \in DOMAIN plan : In(plan[p], x)) <=>
            In(h, x) \/ \E p \in DOMAIN t : In(t[p], x)
    BY <1>2
  <2>3. In(h, x) => ~ \E p \in DOMAIN t : In(t[p], x)
    <3> SUFFICES ASSUME In(h, x), NEW p \in DOMAIN t, In(t[p], x) PROVE FALSE
      OBVIOUS
    <3>1. PICK i \in DOMAIN plan[1] : plan[1][i] = x
      BY <1>2 DEF In
    <3>2. PICK j \in DOMAIN plan[p + 1] : plan[p + 1][j] = x
      BY <1>2 DEF In
    <3>3. 1 \in DOMAIN plan /\ p + 1 \in DOMAIN plan /\ 1 # p + 1
      BY <1>2
    <3> QED
      BY <3>1, <3>2, <3>3 DEF Dealt
  <2> QED
    BY <1>6, <2>1, <2>2, <2>3
<1>8. ASSUME NEW i \in DOMAIN o, NEW j \in DOMAIN o, o[i] = o[j] PROVE i = j
  <2>1. \A k, l \in 1..a : order[k] = order[l] => k = l
    BY <1>3 DEF Dealt
  <2>2. \A k, l \in 1..b : h[k] = h[l] => k = l
    BY <1>2, <1>3 DEF Dealt
  <2>3. \A k \in 1..a, l \in 1..b : order[k] # h[l]
    <3> SUFFICES ASSUME NEW k \in 1..a, NEW l \in 1..b, order[k] = h[l] PROVE FALSE
      OBVIOUS
    <3>1. In(order, order[k]) /\ order[k] \in X
      BY <1>1, <1>3 DEF In
    <3>2. In(plan[1], order[k])
      BY <1>2, <1>3 DEF In
    <3> QED
      BY <1>2, <3>1, <3>2 DEF Dealt, X
  <2>4. a \in Nat /\ b \in Nat /\ i \in 1..(a + b) /\ j \in 1..(a + b)
    BY <1>3, <1>4
  <2>5. CASE i \in 1..a /\ j \in 1..a
    BY <1>5, <1>8, <2>1, <2>5
  <2>6. CASE i \in 1..a /\ j \notin 1..a
    <3>1. j - a \in 1..b /\ a + (j - a) = j
      BY <1>5, <2>4, <2>6
    <3>2. order[i] = h[j - a]
      BY <1>5, <1>8, <2>6, <3>1
    <3> QED
      BY <2>3, <2>6, <3>1, <3>2
  <2>7. CASE i \notin 1..a /\ j \in 1..a
    <3>1. i - a \in 1..b /\ a + (i - a) = i
      BY <1>5, <2>4, <2>7
    <3>2. order[j] = h[i - a]
      BY <1>5, <1>8, <2>7, <3>1
    <3> QED
      BY <2>3, <2>7, <3>1, <3>2
  <2>8. CASE i \notin 1..a /\ j \notin 1..a
    <3>1. i - a \in 1..b /\ j - a \in 1..b /\ a + (i - a) = i /\ a + (j - a) = j
      BY <1>5, <2>4, <2>8
    <3>2. i - a = j - a
      BY <1>5, <1>8, <2>2, <3>1
    <3> QED
      BY <2>4, <3>1, <3>2
  <2> QED
    BY <2>5, <2>6, <2>7, <2>8
<1>9. \A p, q \in DOMAIN t : \A i \in DOMAIN t[p], j \in DOMAIN t[q] :
          t[p][i] = t[q][j] => p = q /\ i = j
  <2> SUFFICES ASSUME NEW p \in DOMAIN t, NEW q \in DOMAIN t,
                      NEW i \in DOMAIN t[p], NEW j \in DOMAIN t[q], t[p][i] = t[q][j]
               PROVE  p = q /\ i = j
    OBVIOUS
  <2>1. p + 1 \in DOMAIN plan /\ q + 1 \in DOMAIN plan /\ t[p] = plan[p + 1] /\ t[q] = plan[q + 1]
        /\ p \in Nat /\ q \in Nat
    BY <1>2
  <2>2. p + 1 = q + 1 /\ i = j
    BY <2>1 DEF Dealt
  <2> QED
    BY <2>1, <2>2
<1>10. Dealt(t, o, n)
  BY <1>2, <1>4, <1>7, <1>8, <1>9 DEF Dealt, X
<1> QED
  BY <1>2, <1>10 DEF t, o, h, X

\* When the plan is worked off the results are put in the order of the rows.
LEMMA DealtEnds ==
    ASSUME NEW order, NEW n \in Nat, Dealt(<<>>, order, n)
    PROVE  /\ Len(order) = n /\ Long(ReverseIdx(order), n)
           /\ \A j \in 1..n : /\ ReverseIdx(order)[j] \in 1..n
                              /\ order[ReverseIdx(order)[j]] = j
<1> DEFINE m == Len(order)
           back == ReverseIdx(order)
<1>1. m \in Nat /\ order \in [1..m -> 1..n] /\ DOMAIN order = 1..m
  BY DEF Dealt
<1>2. \A x \in 1..n : \E i \in 1..m : order[i] = x
  <2>1. \A x \in 1..n : In(order, x)
    BY DEF Dealt
  <2> QED
    BY <1>1, <2>1 DEF In
<1>3. \A i, j \in 1..m : order[i] = order[j] => i = j
  BY <1>1 DEF Dealt
<1> HIDE DEF m
<1>4. m = n
  <2>1. order \in Bijection(1..m, 1..n)
    BY <1>1, <1>2, <1>3 DEF Bijection, Injection, Surjection, IsInjective
  <2>2. Cardinality(1..n) = Cardinality(1..m)
    <3>1. IsFiniteSet(1..m) /\ ExistsBijection(1..m, 1..n)
      BY <1>1, <2>1, FS_Interval DEF ExistsBijection
    <3> QED
      BY <3>1, FS_Bijection
  <2>3. Cardinality(1..n) = n /\ Cardinality(1..m) = m
    <3>1. 1 \in Int /\ m \in Int /\ n \in Int
      BY <1>1
    <3> QED
      BY <1>1, <3>1, FS_Interval
  <2> QED
    BY <2>2, <2>3
<1>5. back = [j \in DOMAIN order |-> CHOOSE i \in DOMAIN order : order[i] = j]
  BY Zenon DEF ReverseIdx
<1> HIDE DEF back
<1>8. DOMAIN order = 1..n
  BY <1>1, <1>4
<1>6. ASSUME NEW j \in 1..n PROVE back[j] \in 1..n /\ order[back[j]] = j
  <2>1. \E i \in DOMAIN order : order[i] = j
    BY <1>2, <1>4, <1>8
  <2>2. back[j] = CHOOSE i \in DOMAIN order : order[i] = j
    BY <1>5, <1>8
  <2> QED
    BY <1>8, <2>1, <2>2
<1>7. Long(back, n)
  BY <1>5, <1>8 DEF Long
<1> QED
  BY <1>4, <1>6, <1>7 DEF m, back

-----------------------------------------------------------------------------
(* What is known of a batch on its way.                                    *)

Phases == {"validate", "generate", "log_prob", "values", "advantage",
           "update_critic", "update_actor", "done", "failed"}

\* The phases in which the rows of the batch have their responses.
Answered == phase \in Phases \ {"validate", "generate", "failed"}

NumTrajectories == setup.prompts * setup.n
Of(row) == <<row.resp[1], row.resp[2]>>

\* Every row has a response to its prompt, every trajectory a row of its own.
AnsweredInv ==
    /\ Long(batch, NumTrajectories)
    /\ \A i \in 1..NumTrajectories :
          /\ DOMAIN batch[i] = DOMAIN Row(1)
          /\ Of(batch[i]) \in Trajectory /\ batch[i].uid = batch[i].resp[1]
          /\ batch[i].resp = <<batch[i].resp[1], batch[i].resp[2], batch[i].resp[3]>>
    /\ \A i, j \in 1..NumTrajectories : Of(batch[i]) = Of(batch[j]) => i = j
    /\ \A t \in Trajectory : \E i \in 1..NumTrajectories : Of(batch[i]) = t

ActorVersions == {version["actor"][q] : q \in Rank}

\* What a row has been given by then.
RowInv(row) ==
    /\ IF phase = "log_prob" THEN row.logp = None /\ row.resp[3] = ActorVersions
       ELSE row.logp = row.resp /\ Cardinality(row.resp[3]) = 1
    /\ IF phase \in {"log_prob", "values"} THEN row.value = None
       ELSE SubSeq(row.value, 1, 2) = SubSeq(row.resp, 1, 2)
    /\ IF phase \in {"log_prob", "values", "advantage"} THEN row.score = None
       ELSE row.score = row.resp

\* The reward function has a copy of the batch.
RewardInv ==
    phase \in {"log_prob", "values", "advantage"} =>
        /\ DOMAIN reward = {"done", "rows"}
        /\ \A i \in 1..NumTrajectories : reward.rows[i].resp = batch[i].resp

\* ResultsBelongToRows of the rows of the batch.
RowsRight ==
    \A i, j \in DOMAIN batch :
        LET row == batch[i] IN
        /\ row.resp # None =>
              /\ row.resp[1] = row.uid
              /\ i # j => row.resp # batch[j].resp
        /\ row.logp # None => row.logp = row.resp /\ Cardinality(row.logp[3]) = 1
        /\ row.value # None => SubSeq(row.value, 1, 2) = SubSeq(row.resp, 1, 2)
        /\ row.score # None => row.score = row.resp

TestedRight ==
    /\ \A i \in DOMAIN tested : tested[i][1] = tested[i][2][1]
    /\ tested # <<>> => Len(tested) = setup.tests

DriverInv ==
    /\ phase \in Phases
    /\ version = [m \in Model |-> [r \in Rank |-> version[m][r]]]
    /\ \A m \in Model : \A q, r \in Rank : version[m][q] = version[m][r]
    /\ phase = "validate" => setup.tests > 0 /\ batch = Rows(setup.tests)
    /\ phase = "generate" => batch = Rows(setup.prompts)
    /\ Answered =>
          /\ AnsweredInv
          /\ length \in [Trajectory -> setup.lengths]
          /\ \A i \in 1..NumTrajectories : RowInv(batch[i])
    /\ RewardInv
    /\ phase = "failed" => RowsRight
    /\ TestedRight

\* The rows of one rank, while a call is under way, and what all ranks together
\* have to give back.
Size == Len(Sent) \div setup.world
PerPrompt == IF phase = "generate" THEN setup.n ELSE 1
Reply ==
    IF Generates
    THEN [x \in 1..(Len(Sent) * PerPrompt) |->
             <<Sent[((x - 1) \div PerPrompt) + 1].uid, ((x - 1) % PerPrompt) + 1,
               ActorVersions>>]
    ELSE [x \in 1..Len(Sent) |-> Result(Sent[x])]
ReplySize == IF Generates THEN Size * PerPrompt ELSE Size

CallInv ==
    (\E r \in Rank : rank[r].at # "idle") =>
        /\ Long(Sent, setup.world * Size) /\ Size \in Nat \ {0}
        /\ cut = Len(Sent) - Len(batch)
        /\ phase = "generate" => length \in [Trajectory -> setup.lengths]

\* What a rank has.
RowsInv(r) ==
    /\ rank[r].at \in {"start", "sync", "gather"} =>
          Slice(rank[r].rows, Sent, (r - 1) * Size, Size)
    /\ rank[r].at \in {"generate", "plan", "forward", "step", "back"} =>
          Slice(rank[r].rows, Sent, (LeaderOf(r) - 1) * Size, GroupSize * Size)

AnswerInv(r) ==
    /\ Generates /\ rank[r].at \in {"gather", "generate"} => engine[r] = ActorVersions
    /\ ~Updates /\ rank[r].at = "returned" =>
          Slice(rank[r].out, Reply, (r - 1) * ReplySize, ReplySize)

ModelInv(r) ==
    /\ rank[r].at = "step" => Updates
    /\ ~Updates /\ rank[r].at \in {"start", "sync", "gather", "plan"} =>
          rank[r].order = <<>> /\ rank[r].out = <<>>
    /\ ~Updates /\ rank[r].at \in {"plan", "forward"} => rank[r].todo = <<rank[r].rows>>
    /\ ~Updates /\ rank[r].at \in {"forward", "back"} =>
          /\ Dealt(rank[r].plan, rank[r].order, GroupSize * Size)
          /\ rank[r].plan = <<>> <=> rank[r].at = "back"
          /\ Long(rank[r].out, Len(rank[r].order))
          /\ \A k \in 1..Len(rank[r].order) :
                rank[r].out[k] = Result(rank[r].rows[rank[r].order[k]])

RankInv(r) == RowsInv(r) /\ AnswerInv(r) /\ ModelInv(r)

BatchInv == DriverInv /\ CallInv /\ \A r \in Rank : RankInv(r)

-----------------------------------------------------------------------------
(* The rows that are sent.                                                 *)

\* The ranks of a group follow one another.
LEMMA GroupIs ==
    ASSUME setup \in Setups, NEW r \in Rank
    PROVE  /\ LeaderOf(r) \in 1..r /\ r - LeaderOf(r) \in 0..(GroupSize - 1)
           /\ LeaderOf(r) + GroupSize - 1 <= setup.world
           /\ \A i \in 1..GroupSize :
                 /\ Group(r)[i] = LeaderOf(r) + i - 1 /\ Group(r)[i] \in Rank
                 /\ LeaderOf(Group(r)[i]) = LeaderOf(r)
<1> DEFINE g == GroupSize
           w == setup.world
           k == (r - 1) \div g
           x == (r - 1) % g
           a == k * g
<1>1. w \in Nat \ {0} /\ g \in Nat \ {0} /\ w % g = 0
  <2>1. w \in Nat \ {0} /\ g \in Nat \ {0} /\ Used \in Model
    BY Sizes
  <2>2. w % setup.tp = 0 /\ \A m \in Model : w % setup.sp[m] = 0
    BY SetupAssumption
  <2> QED
    BY <2>1, <2>2 DEF GroupSize
<1>2. r \in 1..w /\ r - 1 \in Nat
  BY <1>1 DEF Rank
<1>3. x \in 0..(g - 1) /\ k \in Nat /\ r - 1 = a + x
  BY <1>1, <1>2, Division
<1>4. LeaderOf(r) = a + 1
  BY DEF LeaderOf
<1>5. PICK j \in Nat : w = j * g
  <2>1. \A l \in Nat, m \in Nat \ {0} : l % m = 0 => l \div m \in Nat /\ l = (l \div m) * m
    OBVIOUS
  <2> HIDE DEF w, g
  <2> QED
    BY <1>1, <2>1
<1> HIDE DEF g, w, k, x
<1>6. a \in Nat /\ a + g <= w
  <2>1. a \in Nat /\ (k + 1) * g = a + g
    BY <1>1, <1>3, Products
  <2>2. k + 1 <= j
    <3> SUFFICES ASSUME j <= k PROVE FALSE
      BY <1>3, <1>5
    <3>1. j * g <= a
      BY <1>1, <1>3, <1>5, Products
    <3> QED
      BY <1>1, <1>2, <1>3, <1>5, <2>1, <3>1
  <2>3. k + 1 \in Nat /\ g \in Nat
    BY <1>1, <1>3
  <2>4. (k + 1) * g <= j * g
    BY <1>5, <2>2, <2>3, Products
  <2> QED
    BY <1>5, <2>1, <2>4
<1>7. ASSUME NEW i \in 1..g
      PROVE  /\ (a + 1) + i - 1 = a + i /\ a + i \in 1..w
             /\ ((((a + i) - 1) \div g) * g) + 1 = a + 1
  <2>1. (((k * g) + i) - 1) \div g = k
    <3>1. k + 1 \in Nat /\ k \in 0..((k + 1) - 1)
      BY <1>3
    <3> QED
      BY <1>1, <3>1, Grid
  <2> QED
    BY <1>1, <1>6, <2>1
<1> HIDE DEF a
<1>8. ASSUME NEW i \in 1..g
      PROVE  Group(r)[i] = a + i /\ Group(r)[i] \in Rank /\ LeaderOf(a + i) = a + 1
  BY <1>1, <1>4, <1>7 DEF Group, Rank, LeaderOf, g, w
<1>9. /\ a + 1 \in 1..r /\ r - (a + 1) \in 0..(g - 1) /\ (a + 1) + g - 1 <= w
      /\ \A i \in 1..g : (a + 1) + i - 1 = a + i
  BY <1>1, <1>2, <1>3, <1>6
<1> QED
  BY <1>4, <1>8, <1>9 DEF g, w

\* u begins with the n elements of s, and has p more.
Extends(u, s, n, p) == p \in Nat /\ Long(u, n + p) /\ \A i \in 1..n : u[i] = s[i]

LEMMA PaddingIs ==
    ASSUME NEW n \in Nat \ {0}, NEW k \in Nat \ {0}, NEW rows, Long(rows, n)
    PROVE  /\ Extends(PadToDivisor(rows, k), rows, n, PadSize(rows, k))
           /\ Extends(AutoPad(rows, k), rows, n, PadSize(rows, k))
           /\ n % k = 0 => AutoPad(rows, k) = rows
<1> DEFINE p == PadSize(rows, k)
<1>1. Len(rows) = n /\ rows \in Seq({rows[i] : i \in 1..n})
  <2>1. n \in Nat
    OBVIOUS
  <2> QED
    BY <2>1, LongIs
<1>2. p \in Nat /\ (n % k = 0 => p = 0)
  <2>1. n % k \in 0..(k - 1) /\ p = (k - (n % k)) % k
    BY <1>1 DEF PadSize
  <2>2. k - (n % k) \in Nat
    BY <2>1
  <2>3. k % k = 0
    OBVIOUS
  <2> QED
    BY <2>1, <2>2, <2>3
<1> DEFINE again == [i \in 1..p |-> rows[((i - 1) % Len(rows)) + 1]]
           last == [i \in 1..p |-> rows[Len(rows)]]
<1>3. Long(again, p) /\ Long(last, p)
  BY DEF Long
<1>4. PadToDivisor(rows, k) = rows \o again /\ AutoPad(rows, k) = rows \o last
  BY Zenon DEF PadToDivisor, AutoPad
<1>5. p = 0 => last = <<>>
  OBVIOUS
<1> HIDE DEF p, again, last
<1>6. Both(rows \o again, rows, n, again, p) /\ Both(rows \o last, rows, n, last, p)
  BY <1>2, <1>3, LongJoin
<1>7. rows \o <<>> = rows
  BY <1>1
<1>8. Extends(PadToDivisor(rows, k), rows, n, p) /\ Extends(AutoPad(rows, k), rows, n, p)
  BY <1>2, <1>4, <1>6 DEF Extends, Both
<1> QED
  BY <1>2, <1>4, <1>5, <1>7, <1>8 DEF p

LEMMA SentIs ==
    ASSUME setup \in Setups, NEW n \in Nat \ {0}, Long(batch, n)
    PROVE  /\ \E p \in Nat : Extends(Sent, batch, n, p)
           /\ phase # "validate" /\ n % setup.world = 0 => Sent = batch
<1>1. setup.world \in Nat \ {0}
  BY Sizes
<1>2. Extends(batch, batch, n, 0)
  BY DEF Extends
<1>3. /\ Extends(PadToDivisor(batch, setup.world), batch, n, PadSize(batch, setup.world))
      /\ Extends(AutoPad(batch, setup.world), batch, n, PadSize(batch, setup.world))
      /\ n % setup.world = 0 => AutoPad(batch, setup.world) = batch
  BY <1>1, PaddingIs
<1>4. PadSize(batch, setup.world) \in Nat
  BY <1>3 DEF Extends
<1> QED
  BY <1>2, <1>3, <1>4 DEF Sent

-----------------------------------------------------------------------------
(* The steps of a call.                                                    *)

LEMMA FrameOf ==
    ASSUME UNCHANGED <<setup, phase, batch>>
    PROVE  /\ setup' = setup /\ phase' = phase /\ batch' = batch
           /\ Rank' = Rank /\ Generates' = Generates /\ Updates' = Updates /\ Used' = Used
           /\ GroupSize' = GroupSize /\ Sent' = Sent /\ Size' = Size
           /\ PerPrompt' = PerPrompt /\ ReplySize' = ReplySize
           /\ NumTrajectories' = NumTrajectories /\ Trajectory' = Trajectory
           /\ Answered' = Answered
           /\ \A r : LeaderOf(r)' = LeaderOf(r)
<1>1. setup' = setup /\ phase' = phase /\ batch' = batch
  OBVIOUS
<1>2. Rank' = Rank /\ Generates' = Generates /\ Updates' = Updates /\ Used' = Used
      /\ PerPrompt' = PerPrompt /\ NumTrajectories' = NumTrajectories
      /\ Trajectory' = Trajectory /\ Answered' = Answered
  BY <1>1 DEF Rank, Generates, Updates, Used, PerPrompt, NumTrajectories, Trajectory, Answered
<1>3. Sent' = Sent
  BY <1>1 DEF Sent
<1>4. GroupSize' = GroupSize
  BY <1>1, <1>2 DEF GroupSize
<1>5. Size' = Size /\ \A r : LeaderOf(r)' = LeaderOf(r)
  BY <1>1, <1>3, <1>4 DEF Size, LeaderOf
<1>6. ReplySize' = ReplySize
  BY <1>2, <1>5 DEF ReplySize
<1> QED
  BY <1>1, <1>2, <1>3, <1>4, <1>5, <1>6

LEMMA Frame ==
    ASSUME UNCHANGED driver
    PROVE  /\ setup' = setup /\ phase' = phase /\ batch' = batch /\ cut' = cut
           /\ length' = length /\ tested' = tested /\ reward' = reward
           /\ Rank' = Rank /\ Generates' = Generates /\ Updates' = Updates /\ Used' = Used
           /\ GroupSize' = GroupSize /\ Sent' = Sent /\ Size' = Size
           /\ PerPrompt' = PerPrompt /\ ReplySize' = ReplySize
           /\ NumTrajectories' = NumTrajectories /\ Trajectory' = Trajectory
           /\ Answered' = Answered
           /\ \A r : LeaderOf(r)' = LeaderOf(r)
<1>1. /\ UNCHANGED <<setup, phase, batch>>
      /\ cut' = cut /\ length' = length /\ tested' = tested /\ reward' = reward
  BY DEF driver
<1> QED
  BY <1>1, FrameOf

LEMMA FrameVersion ==
    ASSUME UNCHANGED driver, UNCHANGED version
    PROVE  /\ ActorVersions' = ActorVersions /\ Reply' = Reply
           /\ \A row : Result(row)' = Result(row)
<1>1. ActorVersions' = ActorVersions
  BY Frame DEF ActorVersions
<1>2. \A row : Result(row)' = Result(row)
  BY Frame DEF Result
<1>3. Reply' = Reply
  BY <1>1, <1>2, Frame DEF Reply
<1> QED
  BY <1>1, <1>2, <1>3

\* Nothing of the driver's state changes, nor of the versions unless an update
\* is under way.
LEMMA DriverStays ==
    ASSUME DriverInv, UNCHANGED driver,
           UNCHANGED version \/
           (/\ Updates
            /\ version' = [m \in Model |-> [r \in Rank |-> version'[m][r]]]
            /\ \A m \in Model : \A q, r \in Rank : version'[m][q] = version'[m][r])
    PROVE  DriverInv'
<1>1. AnsweredInv' = AnsweredInv
  BY Frame DEF AnsweredInv, Of
<1>2. RewardInv' = RewardInv
  BY Frame DEF RewardInv
<1>3. RowsRight' = RowsRight /\ TestedRight' = TestedRight
  BY Frame DEF RowsRight, TestedRight
<1>4. \A row : RowInv(row) => RowInv(row)'
  <2>1. CASE UNCHANGED version
    BY <2>1, Frame, FrameVersion DEF RowInv
  <2>2. CASE Updates
    BY <2>2, Frame DEF RowInv, Updates
  <2> QED
    BY <2>1, <2>2
<1>5. /\ version' = [m \in Model |-> [r \in Rank |-> version'[m][r]]]
      /\ \A m \in Model : \A q, r \in Rank : version'[m][q] = version'[m][r]
  BY DEF DriverInv
<1> QED
  BY <1>1, <1>2, <1>3, <1>4, <1>5, Frame DEF DriverInv

\* Some ranks move.
LEMMA RanksGoOn ==
    ASSUME BatchInv, UNCHANGED driver, UNCHANGED version,
           \E r \in Rank : rank[r].at # "idle",
           \A r \in Rank : RankInv(r)' \/ (rank'[r] = rank[r] /\ engine'[r] = engine[r])
    PROVE  BatchInv'
<1>1. DriverInv'
  BY DriverStays DEF BatchInv
<1>2. CallInv'
  BY Frame DEF BatchInv, CallInv
<1>3. ASSUME NEW r \in Rank PROVE RankInv(r)'
  <2> SUFFICES ASSUME rank'[r] = rank[r], engine'[r] = engine[r] PROVE RankInv(r)'
    OBVIOUS
  <2>1. RowsInv(r) /\ AnswerInv(r) /\ ModelInv(r)
    BY DEF BatchInv, RankInv
  <2>2. RowsInv(r)'
    BY <2>1, Frame DEF RowsInv
  <2>3. AnswerInv(r)'
    BY <2>1, Frame, FrameVersion DEF AnswerInv
  <2>4. ModelInv(r)'
    BY <2>1, Frame, FrameVersion DEF ModelInv
  <2> QED
    BY <2>2, <2>3, <2>4 DEF RankInv
<1> QED
  BY <1>1, <1>2, <1>3, Frame DEF BatchInv

\* A rank that goes on in its place with what it has, as long as it shares no
\* rows and has no results.
LEMMA EarlyKeeps ==
    ASSUME BatchInv, UNCHANGED driver, UNCHANGED version, NEW r \in Rank,
           rank[r].at \in {"start", "sync"}, rank'[r].at \in {"sync", "gather"},
           \A f \in {"rows", "order", "out"} : rank'[r][f] = rank[r][f],
           rank'[r].at = "gather" /\ Generates => engine'[r] = ActorVersions
    PROVE  RankInv(r)'
<1>1. RowsInv(r) /\ ModelInv(r)
  BY DEF BatchInv, RankInv
<1>2. rank'[r].rows = rank[r].rows /\ rank'[r].order = rank[r].order /\ rank'[r].out = rank[r].out
  OBVIOUS
<1>3. RowsInv(r)'
  BY <1>1, <1>2, Frame DEF RowsInv
<1>4. ModelInv(r)'
  BY <1>1, <1>2, Frame DEF ModelInv
<1>5. AnswerInv(r)'
  BY Frame, FrameVersion DEF AnswerInv
<1> QED
  BY <1>3, <1>4, <1>5 DEF RankInv

LEMMA LoadBatch == ASSUME BatchInv, DeviceInv, NEW r \in Rank, Load(r) PROVE BatchInv'
<1>1. /\ UNCHANGED driver /\ UNCHANGED version /\ engine' = engine /\ rank[r].at = "start"
      /\ \A q \in Rank \ {r} : rank'[q] = rank[q]
      /\ rank'[r] = [rank[r] EXCEPT !.at = IF Generates THEN "sync" ELSE "gather"]
  BY DEF Load, DeviceInv, PlaceInv
<1>2. DOMAIN rank[r] = {"at", "rows", "todo", "plan", "order", "out"}
  BY DEF DeviceInv, PlaceInv, Idle
<1>3. RankInv(r)'
  <2>1. rank'[r].at \in {"sync", "gather"} /\ (rank'[r].at = "gather" => ~Generates)
    BY <1>1, <1>2
  <2>2. \A f \in {"rows", "order", "out"} : rank'[r][f] = rank[r][f]
    BY <1>1, <1>2
  <2> QED
    BY <1>1, <2>1, <2>2, EarlyKeeps
<1> QED
  BY <1>1, <1>3, RanksGoOn

LEMMA SomeRank == ASSUME DeviceInv PROVE 1 \in Rank
  BY Sizes DEF Rank, DeviceInv, PlaceInv

LEMMA SyncBatch == ASSUME BatchInv, DeviceInv, Sync PROVE BatchInv'
<1>1. /\ UNCHANGED driver /\ UNCHANGED version /\ \A r \in Rank : rank[r].at = "sync"
      /\ \A r \in Rank : rank'[r] = [rank[r] EXCEPT !.at = "gather"]
      /\ \A r \in Rank : engine'[r] = ActorVersions
  BY DEF Sync, ActorVersions
<1>2. \A r \in Rank : DOMAIN rank[r] = {"at", "rows", "todo", "plan", "order", "out"}
  BY DEF DeviceInv, PlaceInv, Idle
<1>3. ASSUME NEW r \in Rank PROVE RankInv(r)'
  <2>0. /\ rank'[r] = [rank[r] EXCEPT !.at = "gather"]
        /\ DOMAIN rank[r] = {"at", "rows", "todo", "plan", "order", "out"}
    BY <1>1, <1>2
  <2>1. rank'[r].at = "gather"
    BY <2>0
  <2>2. \A f \in {"rows", "order", "out"} : rank'[r][f] = rank[r][f]
    BY <2>0
  <2> QED
    BY <1>1, <2>1, <2>2, EarlyKeeps
<1>4. \E r \in Rank : rank[r].at # "idle"
  <2>1. 1 \in Rank
    BY SomeRank
  <2> QED
    BY <1>1, <2>1
<1> QED
  BY <1>1, <1>3, <1>4, RanksGoOn

\* The rows of a group.
LEMMA GroupRows ==
    ASSUME BatchInv, DeviceInv, NEW r \in Rank, r = LeaderOf(r),
           \A i \in 1..GroupSize : rank[Group(r)[i]].at = "gather"
    PROVE  Slice(Concat([i \in 1..GroupSize |-> rank[Group(r)[i]].rows]),
                 Sent, (r - 1) * Size, GroupSize * Size)
<1> DEFINE g == GroupSize
           c == Size
           a == (r - 1) * c
           pieces == [i \in 1..g |-> rank[Group(r)[i]].rows]
<1>1. setup \in Setups /\ g \in Nat \ {0} /\ r \in Nat \ {0}
  BY Sizes DEF DeviceInv, PlaceInv
<1>2. \A i \in 1..g : Group(r)[i] = r + i - 1 /\ Group(r)[i] \in Rank
  BY <1>1, GroupIs
<1>3. c \in Nat \ {0}
  <2>1. 1 \in 1..g
    BY <1>1
  <2>2. rank[Group(r)[1]].at # "idle" /\ Group(r)[1] \in Rank
    BY <1>2, <2>1
  <2> QED
    BY <2>2 DEF BatchInv, CallInv
<1>4. a \in Nat
  <2>1. r - 1 \in Nat /\ c \in Nat
    BY <1>1, <1>3
  <2> HIDE DEF c
  <2> QED
    BY <2>1, Products
<1>5. ASSUME NEW i \in 1..g PROVE Slice(pieces[i], Sent, a + ((i - 1) * c), c)
  <2> DEFINE q == Group(r)[i]
  <2>1. q \in Rank /\ q - 1 = (r - 1) + (i - 1) /\ rank[q].at = "gather"
    BY <1>1, <1>2
  <2>2. Slice(rank[q].rows, Sent, (q - 1) * c, c)
    BY <2>1 DEF BatchInv, RankInv, RowsInv
  <2>3. (q - 1) * c = a + ((i - 1) * c)
    <3>1. \A l, m, j \in Nat : (l + m) * j = l * j + m * j
      OBVIOUS
    <3>2. r - 1 \in Nat /\ i - 1 \in Nat /\ c \in Nat
      BY <1>1, <1>3
    <3> HIDE DEF c, q
    <3> QED
      BY <2>1, <3>1, <3>2
  <2>4. pieces[i] = rank[q].rows
    OBVIOUS
  <2> HIDE DEF c, q, a, pieces
  <2> QED
    BY <2>2, <2>3, <2>4
<1>6. Long(pieces, g)
  BY DEF Long
<1> HIDE DEF g, c, a, pieces
<1>7. Slice(Concat(pieces), Sent, a, g * c)
  BY <1>1, <1>3, <1>4, <1>5, <1>6, SlicesJoin
<1> QED
  BY <1>7 DEF pieces, a, c, g

LEMMA GatherBatch == ASSUME BatchInv, DeviceInv, NEW r \in Rank, Gather(r) PROVE BatchInv'
<1> DEFINE rows == Concat([i \in 1..GroupSize |-> rank[Group(r)[i]].rows])
           todo == IF Generates THEN <<>> ELSE Work(rows)
           to == IF Generates THEN "generate" ELSE "plan"
<1>1. /\ UNCHANGED driver /\ UNCHANGED version /\ engine' = engine
      /\ r = LeaderOf(r) /\ \A i \in 1..GroupSize : rank[Group(r)[i]].at = "gather"
  BY DEF Gather, device
<1>2. \A q \in Rank : rank'[q] = IF LeaderOf(q) # r THEN rank[q]
                                 ELSE [rank[q] EXCEPT !.rows = rows, !.todo = todo, !.at = to]
  BY DEF Gather
<1>3. Slice(rows, Sent, (r - 1) * Size, GroupSize * Size)
  BY <1>1, GroupRows
<1>4. \A q \in Rank : DOMAIN rank[q] = {"at", "rows", "todo", "plan", "order", "out"}
  BY DEF DeviceInv, PlaceInv, Idle
<1>5. to = (IF Generates THEN "generate" ELSE "plan")
      /\ (~Generates /\ ~Updates => todo = <<rows>>)
  BY DEF Work
<1> HIDE DEF rows, todo, to
<1>6. ASSUME NEW q \in Rank, LeaderOf(q) = r PROVE RankInv(q)' /\ rank[q].at = "gather"
  <2>1. rank[q].at = "gather"
    <3>1. PICK i \in 1..GroupSize : Group(r)[i] = q
      BY <1>6, InGroup DEF DeviceInv, PlaceInv
    <3> QED
      BY <1>1, <3>1
  <2>2. /\ rank'[q] = [rank[q] EXCEPT !.rows = rows, !.todo = todo, !.at = to]
        /\ DOMAIN rank[q] = {"at", "rows", "todo", "plan", "order", "out"}
    BY <1>2, <1>4, <1>6
  <2>3. rank'[q].rows = rows /\ rank'[q].todo = todo /\ rank'[q].at = to
        /\ rank'[q].order = rank[q].order /\ rank'[q].out = rank[q].out
    BY <2>2
  <2>4. AnswerInv(q) /\ ModelInv(q)
    BY DEF BatchInv, RankInv
  <2>5. RowsInv(q)'
    BY <1>1, <1>3, <1>5, <1>6, <2>3, Frame DEF RowsInv
  <2>6. AnswerInv(q)'
    BY <1>1, <1>5, <2>1, <2>3, <2>4, Frame, FrameVersion DEF AnswerInv
  <2>7. ModelInv(q)'
    BY <1>1, <1>5, <2>1, <2>3, <2>4, Frame DEF ModelInv
  <2> QED
    BY <2>1, <2>5, <2>6, <2>7 DEF RankInv
<1>7. \A q \in Rank : RankInv(q)' \/ (rank'[q] = rank[q] /\ engine'[q] = engine[q])
  BY <1>1, <1>2, <1>6
<1>8. rank[r].at # "idle"
  BY <1>1, <1>6
<1> QED
  BY <1>1, <1>7, <1>8, RanksGoOn

\* What a group has for its rows, cut into the pieces of its ranks.
LEMMA OwnIs ==
    ASSUME setup \in Setups, NEW r \in Rank, NEW d \in Nat, NEW rows, NEW s,
           Slice(rows, s, (LeaderOf(r) - 1) * d, GroupSize * d)
    PROVE  Slice(Own(r, rows), s, (r - 1) * d, d)
<1> DEFINE g == GroupSize
           l == LeaderOf(r)
           i == (r - l) + 1
           a == (l - 1) * d
           b == (i - 1) * d
           n == g * d
<1>1. g \in Nat \ {0} /\ r \in Nat \ {0} /\ l \in 1..r /\ r - l \in 0..(g - 1)
  BY Sizes, GroupIs
<1> HIDE DEF g, l
<1>2. l - 1 \in Nat /\ i - 1 \in Nat /\ i \in 1..g /\ r - 1 = (l - 1) + (i - 1)
  BY <1>1
<1>3. Own(r, rows) = Chunk(rows, g)[i]
  BY DEF Own, g, l
<1>4. a \in Nat /\ b \in Nat /\ n \in Nat /\ b + d <= n /\ (r - 1) * d = a + b
  <2>1. \A j, k, m \in Nat : (j + k) * m = j * m + k * m
    OBVIOUS
  <2>2. (r - 1) * d = a + b
    BY <1>2, <2>1
  <2>3. a \in Nat /\ b \in Nat /\ ((i - 1) + 1) * d = b + d
    BY <1>2, Products
  <2>4. n \in Nat /\ i * d <= n
    <3>1. i \in Nat /\ g \in Nat /\ i <= g
      BY <1>1, <1>2
    <3> HIDE DEF i
    <3> QED
      BY <3>1, Products
  <2>5. (i - 1) + 1 = i
    BY <1>2
  <2> QED
    BY <2>2, <2>3, <2>4, <2>5
<1>5. Slice(rows, s, a, n)
  BY DEF g, l
<1>6. Slice(Chunk(rows, g)[i], rows, b, d)
  <2>1. Long(rows, g * d)
    BY <1>5 DEF Slice
  <2> HIDE DEF i
  <2> QED
    BY <1>1, <1>2, <2>1, ChunkIs
<1> HIDE DEF i, a, b, n
<1>7. Slice(Own(r, rows), s, a + b, d)
  BY <1>3, <1>4, <1>5, <1>6, SliceOfSlice
<1> QED
  BY <1>4, <1>7

\* The answers to some of the rows that were sent.
LEMMA AnswersAre ==
    ASSUME NEW S, NEW N \in Nat, NEW m \in Nat \ {0}, NEW E,
           NEW a \in Nat, NEW n \in Nat, a + n <= N, NEW rows, Slice(rows, S, a, n)
    PROVE  Slice([i \in DOMAIN Repeat(rows, m) |->
                     <<Repeat(rows, m)[i].uid, ((i - 1) % m) + 1, E>>],
                 [x \in 1..(N * m) |-> <<S[((x - 1) \div m) + 1].uid, ((x - 1) % m) + 1, E>>],
                 a * m, n * m)
<1> DEFINE u == [i \in DOMAIN Repeat(rows, m) |->
                     <<Repeat(rows, m)[i].uid, ((i - 1) % m) + 1, E>>]
           v == [x \in 1..(N * m) |-> <<S[((x - 1) \div m) + 1].uid, ((x - 1) % m) + 1, E>>]
<1>1. Long(rows, n) /\ Len(rows) = n
  <2>1. Long(rows, n)
    BY DEF Slice
  <2> QED
    BY <2>1, LongIs
<1>2. Repeat(rows, m) = [i \in 1..(n * m) |-> rows[((i - 1) \div m) + 1]]
  BY <1>1 DEF Repeat
<1>3. DOMAIN u = 1..(n * m) /\ Long(u, n * m)
  BY <1>2 DEF Long
<1>4. ASSUME NEW i \in 1..(n * m) PROVE u[i] = v[(a * m) + i]
  <2> DEFINE l == (i - 1) \div m
             j == ((i - 1) % m) + 1
  <2>1. l \in 0..(n - 1) /\ j \in 1..m /\ i = (l * m) + j
    BY Grid
  <2>2. u[i] = <<rows[l + 1].uid, j, E>>
    BY <1>2
  <2> HIDE DEF l, j, u
  <2>3. rows[l + 1] = S[a + (l + 1)]
    BY <2>1 DEF Slice
  <2>4. l \in Nat /\ a + l \in 0..((a + n) - 1) /\ a + n \in Nat
    BY <2>1
  <2>5. (a * m) + i = ((a + l) * m) + j
    <3>1. \A x, y, z \in Nat : (x + y) * z = x * z + y * z /\ x * z \in Nat
      OBVIOUS
    <3>2. m \in Nat
      OBVIOUS
    <3>3. (a + l) * m = a * m + l * m /\ a * m \in Nat /\ l * m \in Nat
      BY <2>4, <3>1, <3>2
    <3> QED
      BY <2>1, <3>3
  <2> DEFINE x == (a * m) + i
  <2>6. /\ x \in 1..((a + n) * m)
        /\ (x - 1) \div m = a + l /\ ((x - 1) % m) + 1 = j
    BY <2>1, <2>4, <2>5, Grid
  <2>7. x \in 1..(N * m)
    <3>1. m \in Nat
      OBVIOUS
    <3>2. (a + n) * m \in Nat /\ N * m \in Nat /\ (a + n) * m <= N * m
      BY <2>4, <3>1, Products
    <3> HIDE DEF x
    <3> QED
      BY <2>6, <3>2
  <2> HIDE DEF x
  <2>8. v[x] = <<S[(a + l) + 1].uid, j, E>>
    BY <2>6, <2>7
  <2> HIDE DEF v
  <2>9. (a + l) + 1 = a + (l + 1)
    BY <2>4
  <2> QED
    BY <2>2, <2>3, <2>8, <2>9 DEF x
<1> HIDE DEF u, v
<1>5. Slice(u, v, a * m, n * m)
  BY <1>3, <1>4 DEF Slice
<1> QED
  BY <1>5 DEF u, v

\* Where the rows of a group are among the rows that were sent.
LEMMA CallSizes ==
    ASSUME BatchInv, DeviceInv, NEW r \in Rank, rank[r].at # "idle"
    PROVE  /\ setup \in Setups /\ setup.world \in Nat \ {0}
           /\ Size \in Nat \ {0} /\ Long(Sent, setup.world * Size)
           /\ Len(Sent) = setup.world * Size /\ Len(Sent) \in Nat
           /\ GroupSize \in Nat \ {0} /\ GroupSize * Size \in Nat \ {0}
           /\ (LeaderOf(r) - 1) * Size \in Nat
           /\ (LeaderOf(r) - 1) * Size + GroupSize * Size <= Len(Sent)
<1> DEFINE g == GroupSize
           c == Size
           w == setup.world
           l == LeaderOf(r)
<1>1. setup \in Setups /\ g \in Nat \ {0} /\ w \in Nat \ {0} /\ r \in Nat \ {0}
  BY Sizes DEF DeviceInv, PlaceInv
<1>2. c \in Nat \ {0} /\ Long(Sent, w * c)
  BY DEF BatchInv, CallInv
<1>3. l \in 1..r /\ l + g - 1 <= w
  BY <1>1, GroupIs
<1> HIDE DEF g, c, w, l
<1>4. w * c \in Nat /\ g * c \in Nat \ {0}
  <2>1. \A j, k \in Nat \ {0} : j * k \in Nat \ {0}
    OBVIOUS
  <2> QED
    BY <1>1, <1>2, <2>1
<1>5. Len(Sent) = w * c
  <2> DEFINE n == w * c
  <2>1. n \in Nat /\ Long(Sent, n)
    BY <1>2, <1>4
  <2> HIDE DEF n
  <2>2. Len(Sent) = n
    BY <2>1, LongIs
  <2> QED
    BY <2>2 DEF n
<1>6. (l - 1) * c \in Nat /\ (l - 1) * c + g * c <= w * c
  <2>1. l - 1 \in Nat /\ (l - 1) + g \in Nat /\ (l - 1) + g <= w /\ c \in Nat /\ g \in Nat /\ w \in Nat
    BY <1>1, <1>2, <1>3
  <2>2. \A x, y, z \in Nat : (x + y) * z = x * z + y * z
    OBVIOUS
  <2>3. ((l - 1) + g) * c = (l - 1) * c + g * c
    BY <2>1, <2>2
  <2>4. ((l - 1) + g) * c <= w * c /\ (l - 1) * c \in Nat
    BY <2>1, Products
  <2> QED
    BY <2>3, <2>4
<1> QED
  BY <1>1, <1>2, <1>4, <1>5, <1>6 DEF g, c, w, l

LEMMA PerPromptIs ==
    ASSUME setup \in Setups
    PROVE  PerPrompt \in Nat \ {0} /\ setup.n \in Nat \ {0} /\ setup.prompts \in Nat \ {0}
<1>1. setup.n \in Nat \ {0} /\ setup.prompts \in Nat \ {0}
  BY SetupAssumption
<1> QED
  BY <1>1 DEF PerPrompt

LEMMA GenerateBatch == ASSUME BatchInv, DeviceInv, NEW r \in Rank, Generate(r) PROVE BatchInv'
<1> DEFINE m == PerPrompt
           rows == rank[r].rows
           answers == [i \in DOMAIN Repeat(rows, m) |->
                           <<Repeat(rows, m)[i].uid, ((i - 1) % m) + 1, engine[r]>>]
           out == Own(r, answers)
<1>1. UNCHANGED driver /\ UNCHANGED version /\ engine' = engine /\ rank[r].at = "generate"
  BY DEF Generate
<1>2. Generates /\ ~Updates
  BY <1>1 DEF DeviceInv, PlaceInv, Generates, Updates
<1>3. m = (IF phase = "validate" THEN 1 ELSE setup.n)
  BY <1>2 DEF PerPrompt, Generates
<1>4. rank' = [rank EXCEPT ![r].out = out, ![r].at = "returned"]
  BY <1>3, Zenon DEF Generate
<1>5. Slice(answers, Reply, (LeaderOf(r) - 1) * ReplySize, GroupSize * ReplySize)
  <2> DEFINE a == (LeaderOf(r) - 1) * Size
             n == GroupSize * Size
             N == Len(Sent)
             E == ActorVersions
  <2>1. m \in Nat \ {0}
    BY PerPromptIs DEF DeviceInv, PlaceInv
  <2>2. a \in Nat /\ n \in Nat /\ N \in Nat /\ a + n <= N
    BY <1>1, CallSizes
  <2>3. engine[r] = E /\ Slice(rows, Sent, a, n)
    BY <1>1, <1>2 DEF BatchInv, RankInv, AnswerInv, RowsInv
  <2>4. Reply = [x \in 1..(N * m) |->
                    <<Sent[((x - 1) \div m) + 1].uid, ((x - 1) % m) + 1, E>>]
    BY <1>2 DEF Reply
  <2>5. answers = [i \in DOMAIN Repeat(rows, m) |->
                           <<Repeat(rows, m)[i].uid, ((i - 1) % m) + 1, E>>]
    BY <2>3
  <2> HIDE DEF a, n, N, E, m, rows, answers
  <2>6. Slice(answers, Reply, a * m, n * m)
    BY <2>1, <2>2, <2>3, <2>4, <2>5, AnswersAre
  <2>7. a * m = (LeaderOf(r) - 1) * ReplySize /\ n * m = GroupSize * ReplySize
    <3>1. \A x, y, z \in Nat : (x * y) * z = x * (y * z)
      OBVIOUS
    <3>2. ReplySize = Size * m
      BY <1>2 DEF ReplySize, m
    <3>3. LeaderOf(r) - 1 \in Nat /\ Size \in Nat /\ GroupSize \in Nat /\ m \in Nat
      <4>1. LeaderOf(r) \in 1..r /\ r \in Nat
        BY GroupIs, Sizes DEF DeviceInv, PlaceInv
      <4> QED
        BY <1>1, <2>1, <4>1, CallSizes
    <3> QED
      BY <3>1, <3>2, <3>3 DEF a, n
  <2> QED
    BY <2>6, <2>7
<1>6. ReplySize \in Nat
  <2>1. Size \in Nat /\ m \in Nat
    BY <1>1, CallSizes, PerPromptIs
  <2>2. Size * m \in Nat
    BY <2>1
  <2> QED
    BY <2>1, <2>2 DEF ReplySize
<1>7. Slice(out, Reply, (r - 1) * ReplySize, ReplySize)
  <2>1. setup \in Setups
    BY DEF DeviceInv, PlaceInv
  <2> HIDE DEF answers
  <2> QED
    BY <1>5, <1>6, <2>1, OwnIs
<1> HIDE DEF out, answers, rows
<1>8. /\ \A q \in Rank \ {r} : rank'[q] = rank[q]
      /\ rank'[r].out = out /\ rank'[r].at = "returned"
  <2>1. DOMAIN rank[r] = {"at", "rows", "todo", "plan", "order", "out"} /\ DOMAIN rank = Rank
    BY DEF DeviceInv, PlaceInv, Idle
  <2> QED
    BY <1>4, <2>1
<1>9. RankInv(r)'
  <2>1. RowsInv(r)' /\ ModelInv(r)'
    BY <1>8 DEF RowsInv, ModelInv
  <2>2. AnswerInv(r)'
    BY <1>1, <1>7, <1>8, Frame, FrameVersion DEF AnswerInv
  <2> QED
    BY <2>1, <2>2 DEF RankInv
<1> QED
  BY <1>1, <1>8, <1>9, RanksGoOn

-----------------------------------------------------------------------------
(* The micro batches.                                                      *)

LEMMA MaxIs ==
    ASSUME NEW S, IsFiniteSet(S), S # {}, S \subseteq Nat
    PROVE  Max(S) \in S /\ \A y \in S : y <= Max(S)
<1> DEFINE T == {Z \in SUBSET S : Z = {} \/ \E x \in Z : \A y \in Z : x >= y}
<1>1. {} \in T
  OBVIOUS
<1>2. ASSUME NEW Z \in SUBSET S, Z # {}, \A x \in Z : Z \ {x} \in T PROVE Z \in T
  <2>1. PICK x \in Z : TRUE
    BY <1>2
  <2>2. Z \ {x} = {} \/ \E z \in Z \ {x} : \A y \in Z \ {x} : z >= y
    BY <1>2
  <2>3. CASE Z \ {x} = {}
    BY <2>3
  <2>4. CASE \E z \in Z \ {x} : \A y \in Z \ {x} : z >= y
    <3>1. PICK z \in Z \ {x} : \A y \in Z \ {x} : z >= y
      BY <2>4
    <3>2. x \in Nat /\ z \in Nat /\ Z \subseteq Nat
      OBVIOUS
    <3>3. CASE z >= x
      BY <3>1, <3>2, <3>3
    <3>4. CASE x >= z
      BY <3>1, <3>2, <3>4
    <3> QED
      BY <3>2, <3>3, <3>4
  <2> QED
    BY <2>2, <2>3, <2>4
<1> HIDE DEF T
<1>3. SUBSET S \subseteq T
  BY <1>1, <1>2, SubsetInduction
<1>4. \E x \in S : \A y \in S : x >= y
  BY <1>3 DEF T
<1>5. Max(S) \in S /\ \A y \in S : Max(S) >= y
  BY <1>4 DEF Max
<1> QED
  BY <1>5

\* One micro batch at least, and not more than there are sequences; and if fewer
\* they have room for all tokens.
LEMMA NumIs ==
    ASSUME NEW len \in Seq(Nat \ {0}), Len(len) # 0, NEW budget \in Nat \ {0}
    PROVE  /\ NumMicroBatches(len, budget) \in 1..Len(len)
           /\ \/ NumMicroBatches(len, budget) = Len(len)
              \/ Total(len, [i \in DOMAIN len |-> i]) <= budget * NumMicroBatches(len, budget)
<1> DEFINE n == Len(len)
           all == Total(len, [i \in DOMAIN len |-> i])
           q == (-all) \div budget
           c == CeilDiv(all, budget)
<1>1. n \in Nat \ {0} /\ all \in Nat /\ len[1] \in Nat \ {0} /\ 1 \in DOMAIN len
      /\ IsFiniteSet(DOMAIN len) /\ \A x \in DOMAIN len : len[x] \in Nat
  <2>1. all \in Nat
    BY TotalIs
  <2>2. n \in Nat \ {0} /\ DOMAIN len = 1..n
    OBVIOUS
  <2>3. IsFiniteSet(1..n)
    BY <2>2, FS_Interval
  <2> HIDE DEF all, n
  <2> QED
    BY <2>1, <2>2, <2>3
<1>2. all >= 1
  <2>1. all = SumFunctionOnSet(len, DOMAIN len)
    BY TotalIs
  <2>2. SumFunctionOnSet(len, DOMAIN len) = len[1] + SumFunctionOnSet(len, DOMAIN len \ {1})
    BY <1>1, SumTakes
  <2>3. SumFunctionOnSet(len, DOMAIN len \ {1}) \in Nat
    <3>1. IsFiniteSet(DOMAIN len \ {1})
      BY <1>1, FS_Subset
    <3> QED
      BY <1>1, <3>1, SumType
  <2> HIDE DEF all
  <2> QED
    BY <1>1, <2>1, <2>2, <2>3
<1>3. c = -q
  BY DEF CeilDiv
<1> HIDE DEF all, n
<1>4. q \in Int /\ q <= -1 /\ budget * q <= -all
  <2>1. \A x, b \in Nat \ {0} : (-x) \div b \in Int /\ b * ((-x) \div b) <= -x
    OBVIOUS
  <2>2. q \in Int /\ budget * q <= -all
    BY <1>1, <1>2, <2>1
  <2> HIDE DEF q
  <2>3. \A b \in Nat \ {0}, x \in Int : x >= 0 => b * x >= 0
    OBVIOUS
  <2> QED
    BY <1>1, <1>2, <2>2, <2>3
<1> HIDE DEF q, c
<1>5. c \in Nat \ {0} /\ all <= budget * c
  <2>1. \A b, x \in Int : b * (-x) = -(b * x)
    OBVIOUS
  <2>2. budget * c = -(budget * q) /\ budget * q \in Int
    BY <1>3, <1>4, <2>1
  <2> QED
    BY <1>1, <1>3, <1>4, <2>2
<1>6. NumMicroBatches(len, budget) = Min({n, c})
  BY DEF NumMicroBatches, n, c, q, all
<1>7. Min({n, c}) = n \/ Min({n, c}) = c
  <2>1. \E x \in {n, c} : \A y \in {n, c} : x <= y
    BY <1>1, <1>5
  <2> QED
    BY <2>1 DEF Min
<1>8. Min({n, c}) <= n
  <2>1. \E x \in {n, c} : \A y \in {n, c} : x <= y
    BY <1>1, <1>5
  <2> QED
    BY <2>1 DEF Min
<1> QED
  BY <1>1, <1>5, <1>6, <1>7, <1>8 DEF n, all

\* The size of the i-th piece of n elements, m to a piece.
PieceLen(i, n, m) == IF i * m < n THEN m ELSE n - ((i - 1) * m)
NumPieces(n, m) == ((n + m) - 1) \div m

LEMMA PiecesAre ==
    ASSUME NEW n \in Nat \ {0}, NEW m \in Nat \ {0}
    PROVE  /\ NumPieces(n, m) \in Nat \ {0}
           /\ \A i \in 1..NumPieces(n, m) :
                 /\ (i - 1) * m \in Nat /\ PieceLen(i, n, m) \in 1..m
                 /\ ((i - 1) * m) + PieceLen(i, n, m) =
                       IF i * m < n THEN i * m ELSE n
                 /\ ((i - 1) * m) + PieceLen(i, n, m) <= n
           /\ \A x \in 1..n :
                 /\ ((x - 1) \div m) + 1 \in 1..NumPieces(n, m)
                 /\ ((x - 1) % m) + 1 \in 1..PieceLen(((x - 1) \div m) + 1, n, m)
                 /\ x = (((x - 1) \div m) * m) + (((x - 1) % m) + 1)
<1> DEFINE k == NumPieces(n, m)
           l == (n - 1) \div m
<1>1. l \in Nat /\ l * m <= n - 1 /\ n - 1 < (l + 1) * m /\ l * m \in Nat
  <2>1. \A x \in Nat, y \in Nat \ {0} :
            x \div y \in Nat /\ (x \div y) * y <= x /\ x < ((x \div y) + 1) * y
    OBVIOUS
  <2>2. n - 1 \in Nat
    OBVIOUS
  <2>3. l \in Nat /\ l * m <= n - 1 /\ n - 1 < (l + 1) * m
    BY <2>1, <2>2
  <2>4. \A x, y \in Nat : x * y \in Nat
    OBVIOUS
  <2> HIDE DEF l
  <2> QED
    BY <2>3, <2>4
<1>2. k = l + 1
  <2>1. \A x \in Nat, y \in Nat \ {0} : (x + y) \div y = (x \div y) + 1
    OBVIOUS
  <2>2. (n + m) - 1 = (n - 1) + m /\ n - 1 \in Nat
    OBVIOUS
  <2> QED
    BY <2>1, <2>2 DEF NumPieces
<1> HIDE DEF l, k
<1>3. ASSUME NEW i \in 1..k
      PROVE  /\ (i - 1) * m \in Nat /\ PieceLen(i, n, m) \in 1..m
             /\ ((i - 1) * m) + PieceLen(i, n, m) = IF i * m < n THEN i * m ELSE n
             /\ ((i - 1) * m) + PieceLen(i, n, m) <= n
  <2>1. i - 1 \in Nat /\ i - 1 <= l /\ (i - 1) + 1 = i /\ m \in Nat
    BY <1>1, <1>2
  <2>2. (i - 1) * m \in Nat /\ ((i - 1) + 1) * m = (i - 1) * m + m /\ (i - 1) * m <= l * m
    BY <1>1, <2>1, Products
  <2> DEFINE a == (i - 1) * m
  <2>3. a \in Nat /\ i * m = a + m /\ a <= n - 1
    BY <1>1, <2>1, <2>2
  <2> HIDE DEF a
  <2>4. PieceLen(i, n, m) = IF a + m < n THEN m ELSE n - a
    BY <2>3 DEF PieceLen, a
  <2>5. /\ PieceLen(i, n, m) \in 1..m
        /\ a + PieceLen(i, n, m) = IF a + m < n THEN a + m ELSE n
        /\ a + PieceLen(i, n, m) <= n
    BY <2>3, <2>4
  <2> QED
    BY <2>3, <2>5 DEF a
<1>4. ASSUME NEW x \in 1..n
      PROVE  /\ ((x - 1) \div m) + 1 \in 1..k
             /\ ((x - 1) % m) + 1 \in 1..PieceLen(((x - 1) \div m) + 1, n, m)
             /\ x = (((x - 1) \div m) * m) + (((x - 1) % m) + 1)
  <2> DEFINE s == (x - 1) \div m
             j == ((x - 1) % m) + 1
  <2>1. s \in Nat /\ j \in 1..m /\ x - 1 = s * m + (j - 1)
    <3>1. x - 1 \in Nat
      OBVIOUS
    <3>2. (x - 1) % m \in 0 .. m - 1 /\ s \in Nat /\ x - 1 = s * m + ((x - 1) % m)
      BY <3>1, Division
    <3> QED
      BY <3>2
  <2> HIDE DEF s, j
  <2>2. s * m \in Nat /\ (s + 1) * m = s * m + m
    BY <2>1, Products
  <2>3. s <= l
    <3> SUFFICES ASSUME l + 1 <= s PROVE FALSE
      BY <1>1, <2>1
    <3>1. l + 1 \in Nat /\ m \in Nat
      BY <1>1
    <3>2. (l + 1) * m <= s * m
      BY <2>1, <3>1, Products
    <3>3. (l + 1) * m \in Nat
      BY <3>1
    <3> QED
      BY <1>1, <2>1, <2>2, <3>2, <3>3
  <2>4. s + 1 \in 1..k /\ (s + 1) - 1 = s
    BY <1>1, <1>2, <2>1, <2>3
  <2>5. PieceLen(s + 1, n, m) = IF (s + 1) * m < n THEN m ELSE n - (s * m)
    BY <2>4 DEF PieceLen
  <2>6. j \in 1..PieceLen(s + 1, n, m)
    BY <2>1, <2>2, <2>5
  <2>7. x = (s * m) + j
    BY <2>1, <2>2
  <2> QED
    BY <2>4, <2>6, <2>7 DEF s, j
<1> QED
  BY <1>1, <1>2, <1>3, <1>4 DEF k

LEMMA SplitIs ==
    ASSUME NEW n \in Nat \ {0}, NEW m \in Nat \ {0}, NEW rows, Long(rows, n)
    PROVE  /\ Long(Split(rows, m), NumPieces(n, m))
           /\ \A i \in 1..NumPieces(n, m) :
                 Slice(Split(rows, m)[i], rows, (i - 1) * m, PieceLen(i, n, m))
<1>1. Len(rows) = n
  <2>1. n \in Nat
    OBVIOUS
  <2> QED
    BY <2>1, LongIs
<1>2. Split(rows, m) = [i \in 1..NumPieces(n, m) |->
          SubSeq(rows, ((i - 1) * m) + 1, IF i * m < n THEN i * m ELSE n)]
  <2>1. Split(rows, m) = [i \in 1..(((Len(rows) + m) - 1) \div m) |->
            SubSeq(rows, ((i - 1) * m) + 1, IF i * m < Len(rows) THEN i * m ELSE Len(rows))]
    BY DEF Split
  <2> QED
    BY <1>1, <2>1, Zenon DEF NumPieces
<1>3. ASSUME NEW i \in 1..NumPieces(n, m)
      PROVE  Slice(Split(rows, m)[i], rows, (i - 1) * m, PieceLen(i, n, m))
  <2> DEFINE a == (i - 1) * m
             b == PieceLen(i, n, m)
  <2>1. a \in Nat /\ b \in Nat /\ a + b <= n /\ a + b = IF i * m < n THEN i * m ELSE n
    <3>1. /\ a \in Nat /\ b \in 1..m
          /\ a + b = IF i * m < n THEN i * m ELSE n
          /\ a + b <= n
      BY PiecesAre
    <3> QED
      BY <3>1
  <2>2. Split(rows, m)[i] = SubSeq(rows, a + 1, IF i * m < n THEN i * m ELSE n)
    BY <1>2
  <2> HIDE DEF a, b
  <2>3. Split(rows, m)[i] = SubSeq(rows, a + 1, a + b)
    BY <2>1, <2>2
  <2>4. Slice(SubSeq(rows, a + 1, a + b), rows, a, b)
    <3>1. n \in Nat
      OBVIOUS
    <3> QED
      BY <2>1, <3>1, SliceIs
  <2> QED
    BY <2>3, <2>4 DEF a, b
<1>4. Long(Split(rows, m), NumPieces(n, m))
  BY <1>2 DEF Long
<1> QED
  BY <1>3, <1>4

\* Micro batches of a fixed size deal the rows out, too.
LEMMA SplitDeals ==
    ASSUME NEW n \in Nat \ {0}, NEW m \in Nat \ {0}
    PROVE  Deals(Split([i \in 1..n |-> i], m), NumPieces(n, m), n)
<1> DEFINE rows == [i \in 1..n |-> i]
           P == Split(rows, m)
           k == NumPieces(n, m)
<1>1. Long(P, k) /\ \A i \in 1..k : Slice(P[i], rows, (i - 1) * m, PieceLen(i, n, m))
  <2>1. Long(rows, n)
    BY DEF Long
  <2> HIDE DEF rows
  <2> QED
    BY <2>1, SplitIs
<1>2. k \in Nat \ {0}
  BY PiecesAre
<1>3. ASSUME NEW i \in 1..k
      PROVE  /\ (i - 1) * m \in Nat /\ PieceLen(i, n, m) \in 1..m
             /\ Len(P[i]) = PieceLen(i, n, m) /\ P[i] \in Seq(1..n)
             /\ \A j \in 1..PieceLen(i, n, m) : P[i][j] = ((i - 1) * m) + j
  <2> DEFINE a == (i - 1) * m
             b == PieceLen(i, n, m)
  <2>1. a \in Nat /\ b \in 1..m /\ a + b <= n
    BY PiecesAre
  <2>2. Long(P[i], b) /\ \A j \in 1..b : P[i][j] = rows[a + j]
    BY <1>1 DEF Slice
  <2> HIDE DEF a, b, P
  <2>3. \A j \in 1..b : a + j \in 1..n /\ P[i][j] = a + j
    <3>1. \A j \in 1..b : a + j \in 1..n
      BY <2>1
    <3>2. \A x \in 1..n : rows[x] = x
      OBVIOUS
    <3> HIDE DEF rows
    <3> QED
      BY <2>2, <3>1, <3>2
  <2>4. Len(P[i]) = b
    <3>1. b \in Nat
      BY <2>1
    <3> QED
      BY <2>2, <3>1, LongIs
  <2>6. P[i] \in Seq(1..n)
    <3>1. P[i] \in [1..b -> 1..n] /\ b \in Nat
      BY <2>1, <2>2, <2>3 DEF Long
    <3> DEFINE X == 1..n
    <3> HIDE DEF X
    <3>2. P[i] \in [1..b -> X] /\ b \in Nat
      BY <3>1 DEF X
    <3>3. P[i] \in Seq(X)
      BY <3>2, IsASeq
    <3> QED
      BY <3>3 DEF X
  <2> QED
    BY <2>1, <2>3, <2>4, <2>6 DEF a, b
<1> HIDE DEF P, k
<1>4. P \in [1..k -> Seq(1..n)]
  BY <1>1, <1>3 DEF Long
<1>5. ASSUME NEW x \in 1..n PROVE \E i \in 1..k : \E j \in 1..Len(P[i]) : P[i][j] = x
  <2> DEFINE s == (x - 1) \div m
             j == ((x - 1) % m) + 1
  <2>1. s + 1 \in 1..k /\ j \in 1..PieceLen(s + 1, n, m) /\ x = (s * m) + j
    <3>1. \A y \in 1..n :
             /\ ((y - 1) \div m) + 1 \in 1..NumPieces(n, m)
             /\ ((y - 1) % m) + 1 \in 1..PieceLen(((y - 1) \div m) + 1, n, m)
             /\ y = (((y - 1) \div m) * m) + (((y - 1) % m) + 1)
      BY PiecesAre
    <3> QED
      BY <3>1, Zenon DEF k
  <2>4. s \in Nat
    BY Division
  <2> HIDE DEF s, j
  <2>2. (s + 1) - 1 = s
    BY <2>4
  <2>3. j \in 1..Len(P[s + 1]) /\ P[s + 1][j] = x
    BY <1>3, <2>1, <2>2
  <2> QED
    BY <2>1, <2>3
<1>6. ASSUME NEW i \in 1..k, NEW l \in 1..k, NEW j \in 1..Len(P[i]), NEW h \in 1..Len(P[l]),
             P[i][j] = P[l][h]
      PROVE  i = l /\ j = h
  <2>1. j \in 1..m /\ h \in 1..m /\ ((i - 1) * m) + j = ((l - 1) * m) + h
    <3>1. j \in 1..PieceLen(i, n, m) /\ h \in 1..PieceLen(l, n, m)
      BY <1>3
    <3>2. P[i][j] = ((i - 1) * m) + j /\ P[l][h] = ((l - 1) * m) + h
      BY <1>3, <3>1
    <3>3. PieceLen(i, n, m) \in 1..m /\ PieceLen(l, n, m) \in 1..m
      BY <1>3
    <3>4. j \in 1..m /\ h \in 1..m
      BY <3>1, <3>3
    <3> QED
      BY <1>6, <3>2, <3>4
  <2>2. i - 1 \in 0..(k - 1) /\ l - 1 \in 0..(k - 1) /\ k \in Nat
    BY <1>2
  <2>3. i - 1 = l - 1 /\ j = h
    BY <2>1, <2>2, Grid
  <2> QED
    BY <2>3
<1>7. Deals(P, k, n)
  BY <1>4, <1>5, <1>6 DEF Deals
<1> QED
  BY <1>7 DEF P, k

\* The lengths of rows that have their responses.
Known(rows, n) == Long(rows, n) /\ \A i \in 1..n : Of(rows[i]) \in Trajectory

LEMMA LengthsAre ==
    ASSUME setup \in Setups, length \in [Trajectory -> setup.lengths],
           NEW n \in Nat, NEW rows, Known(rows, n)
    PROVE  /\ Lengths(rows) \in Seq(Nat \ {0}) /\ Len(Lengths(rows)) = n
           /\ \A i \in 1..n : /\ Lengths(rows)[i] = length[Of(rows[i])]
                              /\ Lengths(rows)[i] \in setup.lengths
<1> DEFINE l == [i \in 1..n |-> length[Of(rows[i])]]
<1>1. \A i \in 1..n : l[i] \in setup.lengths /\ l[i] \in Nat \ {0}
  <2>1. \A x \in setup.lengths : x \in Nat \ {0}
    BY SetupAssumption
  <2>2. \A i \in 1..n : length[Of(rows[i])] \in setup.lengths
    BY DEF Known
  <2> QED
    BY <2>1, <2>2
<1>2. DOMAIN rows = 1..n
  BY LongIs DEF Known
<1>3. Lengths(rows) = Eager(l)
  BY <1>2, Zenon DEF Lengths, Of
<1>4. Eager(l) = l /\ Len(l) = n
  <2>1. l = [i \in 1..n |-> l[i]]
    OBVIOUS
  <2> HIDE DEF l
  <2> QED
    BY <2>1, EagerIs
<1>5. l \in Seq(Nat \ {0})
  <2>1. l \in [1..n -> Nat \ {0}]
    BY <1>1
  <2> HIDE DEF l
  <2> QED
    BY <2>1, IsASeq
<1> QED
  BY <1>1, <1>3, <1>4, <1>5

\* Between generation and the next batch a call takes the batch as it is.
LEMMA SentIsBatch ==
    ASSUME setup \in Setups, phase # "validate", AnsweredInv
    PROVE  /\ Sent = batch /\ NumTrajectories \in Nat \ {0}
           /\ Len(batch) = NumTrajectories /\ Long(batch, NumTrajectories)
           /\ NumTrajectories % setup.world = 0
<1>1. NumTrajectories \in Nat \ {0} /\ NumTrajectories % setup.world = 0
  <2>1. \A x, y \in Nat \ {0} : x * y \in Nat \ {0}
    OBVIOUS
  <2>2. setup.prompts \in Nat \ {0} /\ setup.n \in Nat \ {0}
        /\ (setup.prompts * setup.n) % setup.world = 0
    BY SetupAssumption
  <2> QED
    BY <2>1, <2>2 DEF NumTrajectories
<1>2. Long(batch, NumTrajectories)
  BY DEF AnsweredInv
<1>3. Len(batch) = NumTrajectories
  <2>1. NumTrajectories \in Nat
    BY <1>1
  <2> QED
    BY <1>2, <2>1, LongIs
<1> QED
  BY <1>1, <1>2, <1>3, SentIs

\* What a rank runs its model on.
LEMMA GroupRowsKnown ==
    ASSUME BatchInv, DeviceInv, NEW r \in Rank,
           rank[r].at \in {"plan", "forward", "step", "back"}
    PROVE  /\ Answered /\ setup \in Setups /\ Sent = batch
           /\ length \in [Trajectory -> setup.lengths]
           /\ GroupSize * Size \in Nat \ {0}
           /\ Known(rank[r].rows, GroupSize * Size)
           /\ (LeaderOf(r) - 1) * Size \in Nat
           /\ (LeaderOf(r) - 1) * Size + GroupSize * Size <= NumTrajectories
           /\ Slice(rank[r].rows, batch, (LeaderOf(r) - 1) * Size, GroupSize * Size)
<1> DEFINE a == (LeaderOf(r) - 1) * Size
           n == GroupSize * Size
           N == NumTrajectories
<1>1. Answered /\ phase # "validate" /\ setup \in Setups
  BY DEF DeviceInv, PlaceInv, Generates, BatchInv, DriverInv, Answered
<1>2. AnsweredInv /\ length \in [Trajectory -> setup.lengths]
  BY <1>1 DEF BatchInv, DriverInv
<1>3. Sent = batch /\ Len(batch) = N /\ N \in Nat
  BY <1>1, <1>2, SentIsBatch
<1>4. n \in Nat \ {0} /\ a \in Nat /\ a + n <= N
  <2>1. rank[r].at # "idle"
    OBVIOUS
  <2>2. n \in Nat \ {0} /\ a \in Nat /\ a + n <= Len(Sent)
    BY <2>1, CallSizes
  <2> QED
    BY <1>3, <2>2
<1>5. Slice(rank[r].rows, batch, a, n)
  BY <1>3 DEF BatchInv, RankInv, RowsInv
<1> HIDE DEF a, n, N
<1>6. \A i \in 1..n : a + i \in 1..N
  BY <1>3, <1>4
<1>7. \A x \in 1..N : Of(batch[x]) \in Trajectory
  BY <1>2 DEF AnsweredInv, N
<1>8. Known(rank[r].rows, n)
  BY <1>5, <1>6, <1>7 DEF Known, Slice
<1> QED
  BY <1>1, <1>2, <1>3, <1>4, <1>5, <1>8 DEF a, n, N

LEMMA PlanKeeps ==
    ASSUME BatchInv, DeviceInv, UNCHANGED driver, UNCHANGED version,
           NEW r \in Rank, rank[r].at = "plan", NEW P,
           rank'[r] = [rank[r] EXCEPT !.plan = P, !.at = "forward"],
           ~Updates => \E k \in Nat \ {0} : Deals(P, k, GroupSize * Size)
    PROVE  RankInv(r)'
<1> DEFINE n == GroupSize * Size
<1>1. RowsInv(r) /\ ModelInv(r)
  BY DEF BatchInv, RankInv
<1>2. /\ rank'[r].at = "forward" /\ rank'[r].plan = P
      /\ rank'[r].rows = rank[r].rows /\ rank'[r].todo = rank[r].todo
      /\ rank'[r].order = rank[r].order /\ rank'[r].out = rank[r].out
  <2>1. DOMAIN rank[r] = {"at", "rows", "todo", "plan", "order", "out"}
    BY DEF DeviceInv, PlaceInv, Idle
  <2> QED
    BY <2>1
<1>3. RowsInv(r)' /\ AnswerInv(r)'
  BY <1>1, <1>2, Frame DEF RowsInv, AnswerInv
<1>4. ModelInv(r)'
  <2>1. CASE Updates
    BY <1>2, <2>1, Frame DEF ModelInv
  <2>2. CASE ~Updates
    <3>1. n \in Nat
      BY GroupRowsKnown
    <3>2. PICK k \in Nat \ {0} : Deals(P, k, n)
      BY <2>2
    <3> HIDE DEF n
    <3>3. Dealt(P, <<>>, n) /\ P # <<>>
      BY <3>1, <3>2, DealtBegins
    <3>4. rank[r].todo = <<rank[r].rows>> /\ rank[r].order = <<>> /\ rank[r].out = <<>>
      BY <1>1, <2>2 DEF ModelInv
    <3>5. Len(<<>>) = 0 /\ Long(<<>>, 0)
      BY DEF Long
    <3>6. n' = n
      BY Frame DEF n
    <3> QED
      BY <1>2, <3>3, <3>4, <3>5, <3>6, Frame DEF ModelInv, n
  <2> QED
    BY <2>1, <2>2
<1> QED
  BY <1>3, <1>4 DEF RankInv

LEMMA PlanFixedBatch == ASSUME BatchInv, DeviceInv, NEW r \in Rank, PlanFixed(r) PROVE BatchInv'
<1> DEFINE n == GroupSize * Size
           size == IF Updates THEN setup.micro ELSE setup.infer
           P == Split([i \in DOMAIN Now(r) |-> i], size)
<1>1. UNCHANGED driver /\ UNCHANGED version /\ engine' = engine /\ rank[r].at = "plan"
      /\ ~setup.dynamic
  BY DEF PlanFixed, device
<1>2. rank' = [rank EXCEPT ![r].plan = P, ![r].at = "forward"]
  BY Zenon DEF PlanFixed
<1>3. /\ \A q \in Rank \ {r} : rank'[q] = rank[q]
      /\ rank'[r] = [rank[r] EXCEPT !.plan = P, !.at = "forward"]
  <2>1. DOMAIN rank = Rank
    BY DEF DeviceInv, PlaceInv
  <2> HIDE DEF P
  <2> QED
    BY <1>2, <2>1
<1>4. ~Updates => \E k \in Nat \ {0} : Deals(P, k, n)
  <2> SUFFICES ASSUME ~Updates PROVE \E k \in Nat \ {0} : Deals(P, k, n)
    OBVIOUS
  <2>1. n \in Nat \ {0} /\ Known(rank[r].rows, n) /\ setup \in Setups
    BY <1>1, GroupRowsKnown
  <2>2. size \in Nat \ {0}
    BY <1>1, <2>1, SetupAssumption
  <2>3. Now(r) = rank[r].rows
    BY <1>1 DEF BatchInv, RankInv, ModelInv, Now
  <2>4. DOMAIN Now(r) = 1..n
    BY <2>1, <2>3, LongIs DEF Known
  <2>5. P = Split([i \in 1..n |-> i], size)
    BY <2>4
  <2> HIDE DEF n, size, P
  <2>6. NumPieces(n, size) \in Nat \ {0} /\ Deals(P, NumPieces(n, size), n)
    BY <2>1, <2>2, <2>5, PiecesAre, SplitDeals
  <2> QED
    BY <2>6
<1> HIDE DEF P
<1>5. RankInv(r)'
  BY <1>1, <1>3, <1>4, PlanKeeps
<1> QED
  BY <1>1, <1>3, <1>5, RanksGoOn

LEMMA BudgetIs == ASSUME setup \in Setups PROVE Budget \in Nat \ {0}
<1>1. Used \in Model /\ MaxTokenLen \in Nat \ {0} /\ setup.sp[Used] \in Nat \ {0}
  BY Sizes, SetupAssumption
<1>2. \A x, y \in Nat \ {0} : x * y \in Nat \ {0}
  OBVIOUS
<1> QED
  BY <1>1, <1>2 DEF Budget

\* The number of micro batches all ranks agree on.
LEMMA TogetherIs ==
    ASSUME setup \in Setups, \A q \in Rank : Needed(q) \in Nat \ {0}, NEW r \in Rank
    PROVE  /\ NumTogether(r) \in Nat \ {0}
           /\ \E q \in Rank : NumTogether(r) = Needed(q)
           /\ \A q \in Rank : Needed(q) <= NumTogether(r)
<1> DEFINE S == {Needed(q) : q \in Rank}
<1>1. S # {} /\ S \subseteq Nat
  OBVIOUS
<1>2. IsFiniteSet(S)
  <2>1. IsFiniteSet(Rank)
    BY Sizes, FS_Interval DEF Rank
  <2> DEFINE f == [q \in Rank |-> Needed(q)]
  <2>2. S = {f[q] : q \in Rank}
    OBVIOUS
  <2> HIDE DEF f, S
  <2> QED
    BY <2>1, <2>2, ImageIsFinite
<1>3. NumTogether(r) = Max(S)
  BY DEF NumTogether
<1> HIDE DEF S
<1>4. Max(S) \in S /\ \A y \in S : y <= Max(S)
  BY <1>1, <1>2, MaxIs
<1> QED
  BY <1>3, <1>4 DEF S

LEMMA PlanDynamicBatch == ASSUME BatchInv, DeviceInv, PlanDynamic PROVE BatchInv'
<1> DEFINE n == GroupSize * Size
           P(r) == Partitions(Lengths(Now(r)), NumTogether(r), FALSE)
<1>1. UNCHANGED driver /\ UNCHANGED version /\ engine' = engine
      /\ \A r \in Rank : rank[r].at = "plan"
  BY DEF PlanDynamic, device
<1>2. \A r \in Rank : rank'[r] = [rank[r] EXCEPT !.plan = P(r), !.at = "forward"]
  <2> DEFINE Parts(r, num) == Partitions(Lengths(Now(r)), num[r], FALSE)
             num == [r \in Rank |-> NumTogether(r)]
  <2>1. rank' = [r \in Rank |-> [rank[r] EXCEPT !.plan = Parts(r, num), !.at = "forward"]]
    BY Zenon DEF PlanDynamic
  <2>2. \A r \in Rank : Parts(r, num) = P(r)
    OBVIOUS
  <2> HIDE DEF Parts, num, P
  <2> QED
    BY <2>1, <2>2
<1>3. ~Updates => \A r \in Rank : \E k \in Nat \ {0} : Deals(P(r), k, n)
  <2> SUFFICES ASSUME ~Updates, NEW r \in Rank PROVE \E k \in Nat \ {0} : Deals(P(r), k, n)
    OBVIOUS
  <2>1. setup \in Setups /\ n \in Nat \ {0}
    BY <1>1, GroupRowsKnown
  <2>2. ASSUME NEW q \in Rank
        PROVE  /\ Lengths(Now(q)) \in Seq(Nat \ {0}) /\ Len(Lengths(Now(q))) = n
    <3>1. rank[q].at = "plan"
      BY <1>1
    <3>2. Now(q) = rank[q].rows
      BY <3>1 DEF BatchInv, RankInv, ModelInv, Now
    <3>3. Known(rank[q].rows, n) /\ length \in [Trajectory -> setup.lengths]
      BY <3>1, GroupRowsKnown
    <3> HIDE DEF n
    <3> QED
      BY <2>1, <3>2, <3>3, LengthsAre
  <2>3. ASSUME NEW q \in Rank PROVE Needed(q) \in Nat \ {0}
    <3> DEFINE len == Lengths(Now(q))
    <3>1. len \in Seq(Nat \ {0}) /\ Len(len) # 0 /\ Len(len) \in Nat
      BY <2>1, <2>2
    <3>2. Budget \in Nat \ {0}
      BY <2>1, BudgetIs
    <3> HIDE DEF len
    <3>3. NumMicroBatches(len, Budget) \in 1..Len(len)
      BY <3>1, <3>2, NumIs
    <3> QED
      BY <3>1, <3>3 DEF Needed, len
  <2>4. NumTogether(r) \in Nat \ {0}
    BY <2>1, <2>3, TogetherIs
  <2> DEFINE len == Lengths(Now(r))
             k == NumTogether(r)
  <2>5. len \in Seq(Nat \ {0}) /\ k \in Nat \ {0} /\ Len(len) # 0 /\ Len(len) = n
        /\ MaxTokenLen \in Nat /\ \A i \in DOMAIN len : len[i] <= MaxTokenLen
    <3>1. len \in Seq(Nat \ {0}) /\ Len(len) = n /\ k \in Nat \ {0}
      BY <2>2, <2>4
    <3>2. MaxTokenLen \in Nat
      BY SetupAssumption
    <3>3. ASSUME NEW i \in DOMAIN len PROVE len[i] <= MaxTokenLen
      <4>1. Known(rank[r].rows, n) /\ length \in [Trajectory -> setup.lengths] /\ i \in 1..n
            /\ Now(r) = rank[r].rows
        <5>1. DOMAIN len = 1..n
          BY <3>1
        <5>2. Now(r) = rank[r].rows
          BY <1>1 DEF BatchInv, RankInv, ModelInv, Now
        <5> QED
          BY <1>1, <5>1, <5>2, GroupRowsKnown
      <4>2. len[i] \in setup.lengths
        BY <2>1, <4>1, LengthsAre
      <4> QED
        BY <2>1, <4>2, SetupAssumption
    <3> QED
      BY <2>1, <3>1, <3>2, <3>3
  <2> HIDE DEF len, k, n
  <2>6. Deals(Partitions(len, k, FALSE), k, Len(len))
    BY <2>5, PartitionsFit
  <2> QED
    BY <2>5, <2>6 DEF len, k
<1> HIDE DEF P
<1>4. ASSUME NEW r \in Rank PROVE RankInv(r)'
  BY <1>1, <1>2, <1>3, PlanKeeps
<1>5. \E r \in Rank : rank[r].at # "idle"
  BY <1>1, SomeRank
<1> QED
  BY <1>1, <1>4, <1>5, RanksGoOn

\* A micro batch more has its results.
LEMMA ForwardKeeps ==
    ASSUME BatchInv, DeviceInv, ~Updates, UNCHANGED driver, UNCHANGED version,
           NEW r \in Rank, rank[r].at = "forward",
           rank'[r].rows = rank[r].rows, rank'[r].todo = rank[r].todo,
           rank'[r].out = rank[r].out \o [i \in DOMAIN Part(r) |-> Result(Part(r)[i])],
           rank'[r].order = rank[r].order \o Head(rank[r].plan),
           rank'[r].plan = Tail(rank[r].plan),
           rank'[r].at = IF Len(rank[r].plan) > 1 THEN "forward" ELSE "back"
    PROVE  RankInv(r)'
<1> DEFINE n == GroupSize * Size
           rows == rank[r].rows
           plan == rank[r].plan
           order == rank[r].order
           out == rank[r].out
           h == Head(plan)
           more == [i \in DOMAIN Part(r) |-> Result(Part(r)[i])]
           a == Len(order)
           b == Len(h)
<1>1. RowsInv(r) /\ ModelInv(r)
  BY DEF BatchInv, RankInv
<1>2. /\ Dealt(plan, order, n) /\ plan # <<>> /\ Long(out, a)
      /\ \A k \in 1..a : out[k] = Result(rows[order[k]])
      /\ rank[r].todo = <<rows>>
  BY <1>1 DEF ModelInv
<1>3. n \in Nat /\ Known(rows, n)
  BY GroupRowsKnown
<1> HIDE DEF n, rows, plan, order, out
<1>4. Dealt(Tail(plan), order \o h, n) /\ h \in Seq(1..n)
  BY <1>2, <1>3, DealtGoesOn
<1>5. a \in Nat /\ Long(order, a) /\ b \in Nat /\ Long(h, b) /\ DOMAIN h = 1..b
  <2>1. order \in Seq(1..n)
    BY <1>2 DEF Dealt
  <2> HIDE DEF h
  <2> QED
    BY <1>4, <2>1, LongSeq
<1>6. Long(more, b) /\ \A i \in 1..b : more[i] = Result(rows[h[i]])
  <2>1. Part(r) = [i \in 1..b |-> rows[h[i]]]
    <3>1. Now(r) = rows /\ Head(rank[r].plan) = h
      BY <1>2 DEF Now, plan
    <3> HIDE DEF h, b
    <3> QED
      BY <1>5, <3>1 DEF Part
  <2> HIDE DEF h, b
  <2>2. more = [i \in 1..b |-> Result(rows[h[i]])]
    BY <2>1
  <2> HIDE DEF more
  <2> QED
    BY <2>2 DEF Long
<1> HIDE DEF more, h, a, b
<1>7. Both(order \o h, order, a, h, b) /\ Both(out \o more, out, a, more, b)
  BY <1>2, <1>5, <1>6, LongJoin
<1> DEFINE o == order \o h
           u == out \o more
<1>8. Len(o) = a + b /\ Long(u, a + b)
  <2>1. a + b \in Nat /\ Long(o, a + b)
    BY <1>5, <1>7 DEF Both
  <2> HIDE DEF o
  <2>2. Len(o) = a + b
    BY <2>1, LongIs
  <2> QED
    BY <1>7, <2>2 DEF Both
<1>9. ASSUME NEW k \in 1..(a + b) PROVE u[k] = Result(rows[o[k]])
  <2>1. CASE k \in 1..a
    <3>1. u[k] = out[k] /\ o[k] = order[k]
      BY <1>7, <2>1 DEF Both
    <3> HIDE DEF u, o
    <3> QED
      BY <1>2, <2>1, <3>1
  <2>2. CASE k \notin 1..a
    <3>1. k - a \in 1..b /\ a + (k - a) = k
      BY <1>5, <2>2
    <3>2. u[a + (k - a)] = more[k - a] /\ o[a + (k - a)] = h[k - a]
      BY <1>7, <3>1 DEF Both
    <3>3. u[k] = more[k - a] /\ o[k] = h[k - a]
      BY <3>1, <3>2
    <3> HIDE DEF u, o
    <3> QED
      BY <1>6, <3>1, <3>3
  <2> QED
    BY <2>1, <2>2
<1>10. Tail(plan) = <<>> <=> ~(Len(plan) > 1)
  <2> DEFINE X == Seq(1..n)
  <2>1. plan \in Seq(X) /\ plan # <<>>
    BY <1>2 DEF Dealt
  <2> HIDE DEF X
  <2>2. Tail(plan) \in Seq(X) /\ Len(Tail(plan)) = Len(plan) - 1 /\ Len(plan) \in Nat \ {0}
    BY <2>1
  <2> DEFINE t == Tail(plan)
  <2>3. t \in Seq(X) /\ Len(t) = Len(plan) - 1
    BY <2>2
  <2> HIDE DEF t
  <2>4. t = <<>> <=> Len(t) = 0
    BY <2>3, EmptySeq
  <2>5. t = <<>> <=> ~(Len(plan) > 1)
    BY <2>2, <2>3, <2>4
  <2> QED
    BY <2>5 DEF t
<1> DEFINE new == rank'[r]
<1>11. /\ new.rows = rows /\ new.todo = <<rows>> /\ new.out = u /\ new.order = o
       /\ new.plan = Tail(plan) /\ new.at = IF Len(plan) > 1 THEN "forward" ELSE "back"
  BY <1>2 DEF rows, out, order, plan, h, more
<1>12. RowsInv(r)'
  <2>1. Slice(rows, Sent, (LeaderOf(r) - 1) * Size, n)
    BY <1>1 DEF RowsInv, rows, n
  <2> HIDE DEF u, o
  <2> QED
    BY <1>11, <2>1, Frame DEF RowsInv, n
<1>13. AnswerInv(r)'
  <2>1. new.at \notin {"gather", "generate", "returned"}
    BY <1>11
  <2> QED
    BY <2>1 DEF AnswerInv
<1>14. ModelInv(r)'
  <2>1. /\ Dealt(new.plan, new.order, n)
        /\ (new.plan = <<>>) <=> (new.at = "back")
        /\ new.at \in {"forward", "back"}
    BY <1>4, <1>10, <1>11
  <2>2. Long(new.out, Len(new.order))
    BY <1>8, <1>11
  <2>3. \A k \in 1..Len(new.order) : new.out[k] = Result(new.rows[new.order[k]])
    <3> HIDE DEF o, u
    <3> QED
      BY <1>8, <1>9, <1>11
  <2>4. new.todo = <<new.rows>>
    BY <1>11
  <2>5. n' = n
    BY Frame DEF n
  <2> HIDE DEF new
  <2> QED
    BY <2>1, <2>2, <2>3, <2>4, <2>5, Frame, FrameVersion DEF ModelInv, n, new
<1> QED
  BY <1>12, <1>13, <1>14 DEF RankInv

\* Nothing but the rows is known of a rank during an update.
LEMMA UpdateKeeps ==
    ASSUME BatchInv, UNCHANGED driver, Updates, NEW r \in Rank,
           rank[r].at \in {"plan", "forward", "step", "back"},
           rank'[r].at \in {"plan", "forward", "step", "back"},
           rank'[r].rows = rank[r].rows
    PROVE  RankInv(r)'
<1>1. RowsInv(r)
  BY DEF BatchInv, RankInv
<1>2. RowsInv(r)'
  BY <1>1, Frame DEF RowsInv
<1>3. AnswerInv(r)' /\ ModelInv(r)'
  BY Frame DEF AnswerInv, ModelInv
<1> QED
  BY <1>2, <1>3 DEF RankInv

LEMMA UpdateGoesOn ==
    ASSUME BatchInv, UNCHANGED driver, Updates,
           version' = [m \in Model |-> [r \in Rank |-> version'[m][r]]],
           \A m \in Model : \A q, r \in Rank : version'[m][q] = version'[m][r],
           \A r \in Rank : RankInv(r)', \E r \in Rank : rank[r].at # "idle"
    PROVE  BatchInv'
<1>1. DriverInv'
  BY DriverStays DEF BatchInv
<1>2. CallInv'
  BY Frame DEF BatchInv, CallInv
<1> QED
  BY <1>1, <1>2, Frame DEF BatchInv

LEMMA ForwardBatch == ASSUME BatchInv, DeviceInv, Forward PROVE BatchInv'
<1> DEFINE Outs(r) == rank[r].out \o [i \in DOMAIN Part(r) |-> Result(Part(r)[i])]
           Indices(r) == rank[r].order \o Head(rank[r].plan)
           Goes(r, to) == IF Len(rank[r].plan) > 1 THEN "forward" ELSE to
<1>1. UNCHANGED driver /\ UNCHANGED version /\ engine' = engine
      /\ \A r \in Rank : rank[r].at = "forward"
  BY DEF Forward
<1>2. \E r \in Rank : rank[r].at # "idle"
  BY <1>1, SomeRank
<1>3. ASSUME NEW r \in Rank PROVE RankInv(r)'
  <2>1. \/ /\ ~Updates
           /\ rank' = [q \in Rank |-> [rank[q] EXCEPT
                 !.out = Outs(q), !.order = Indices(q), !.plan = Tail(@), !.at = Goes(q, "back")]]
        \/ /\ Updates
           /\ rank' = [q \in Rank |-> [rank[q] EXCEPT
                 !.plan = Tail(@), !.at = Goes(q, "step")]]
    BY Zenon DEF Forward
  <2>2. DOMAIN rank[r] = {"at", "rows", "todo", "plan", "order", "out"}
    BY DEF DeviceInv, PlaceInv, Idle
  <2> HIDE DEF Outs, Indices, Goes
  <2>6. \/ /\ ~Updates
           /\ rank'[r] = [rank[r] EXCEPT !.out = Outs(r), !.order = Indices(r),
                                         !.plan = Tail(@), !.at = Goes(r, "back")]
        \/ /\ Updates
           /\ rank'[r] = [rank[r] EXCEPT !.plan = Tail(@), !.at = Goes(r, "step")]
    BY <2>1
  <2>3. \/ /\ ~Updates
           /\ rank'[r].rows = rank[r].rows /\ rank'[r].todo = rank[r].todo
           /\ rank'[r].out = Outs(r) /\ rank'[r].order = Indices(r)
           /\ rank'[r].plan = Tail(rank[r].plan) /\ rank'[r].at = Goes(r, "back")
        \/ /\ Updates
           /\ rank'[r].rows = rank[r].rows /\ rank'[r].at = Goes(r, "step")
    BY <2>2, <2>6
  <2>4. CASE ~Updates
    <3>1. /\ rank'[r].rows = rank[r].rows /\ rank'[r].todo = rank[r].todo
          /\ rank'[r].out = rank[r].out \o [i \in DOMAIN Part(r) |-> Result(Part(r)[i])]
          /\ rank'[r].order = rank[r].order \o Head(rank[r].plan)
          /\ rank'[r].plan = Tail(rank[r].plan)
          /\ rank'[r].at = IF Len(rank[r].plan) > 1 THEN "forward" ELSE "back"
      BY <2>3, <2>4 DEF Outs, Indices, Goes
    <3> QED
      BY <1>1, <2>4, <3>1, ForwardKeeps
  <2>5. CASE Updates
    <3>1. rank'[r].at \in {"forward", "step"}
      BY <2>3, <2>5 DEF Goes
    <3> QED
      BY <1>1, <2>3, <2>5, <3>1, UpdateKeeps
  <2> QED
    BY <2>4, <2>5
<1> QED
  BY <1>1, <1>2, <1>3, RanksGoOn

LEMMA StepBatch == ASSUME BatchInv, DeviceInv, Step PROVE BatchInv'
<1>1. UNCHANGED driver /\ \A r \in Rank : rank[r].at = "step"
  BY DEF Step
<1>2. \E r \in Rank : rank[r].at # "idle"
  BY <1>1, SomeRank
<1>3. ASSUME NEW r \in Rank
      PROVE  /\ rank'[r].at \in {"plan", "back"} /\ rank'[r].rows = rank[r].rows
  <2>1. rank'[r] = [rank[r] EXCEPT !.todo = Tail(@),
                     !.at = IF Len(rank[r].todo) = 1 THEN "back" ELSE "plan"]
    BY DEF Step
  <2>2. DOMAIN rank[r] = {"at", "rows", "todo", "plan", "order", "out"}
    BY DEF DeviceInv, PlaceInv, Idle
  <2> QED
    BY <2>1, <2>2
<1>4. \/ version' = [version EXCEPT ![Used] = [r \in Rank |-> version[Used][r] + 1]]
      \/ version' = version
  BY DEF Step
<1>5. /\ version = [m \in Model |-> [r \in Rank |-> version[m][r]]]
      /\ \A m \in Model : \A q, r \in Rank : version[m][q] = version[m][r]
  BY DEF BatchInv, DriverInv
<1>6. /\ version' = [m \in Model |-> [r \in Rank |-> version'[m][r]]]
      /\ \A m \in Model : \A q, r \in Rank : version'[m][q] = version'[m][r]
  <2>1. CASE version' = version
    BY <1>5, <2>1
  <2>2. CASE version' = [version EXCEPT ![Used] = [r \in Rank |-> version[Used][r] + 1]]
    <3> DEFINE V == [r \in Rank |-> version[Used][r] + 1]
    <3>1. Used \in Model
      BY Sizes DEF DeviceInv, PlaceInv
    <3>2. \A q, r \in Rank : V[q] = V[r]
      BY <1>5, <3>1
    <3>3. V = [r \in Rank |-> V[r]]
      OBVIOUS
    <3> HIDE DEF V
    <3>4. version' = [version EXCEPT ![Used] = V]
      BY <2>2 DEF V
    <3>5. DOMAIN version = Model /\ version = [m \in Model |-> version[m]]
          /\ \A m \in Model : version[m] = [r \in Rank |-> version[m][r]]
      BY <1>5
    <3>6. version' = [m \in Model |-> IF m = Used THEN V ELSE version[m]]
      BY <3>4, <3>5
    <3>7. \A m \in Model : version'[m] = [r \in Rank |-> version'[m][r]]
      BY <3>3, <3>5, <3>6
    <3>8. \A m \in Model : \A q, r \in Rank : version'[m][q] = version'[m][r]
      BY <1>5, <3>2, <3>6
    <3>9. version' = [m \in Model |-> version'[m]]
      BY <3>6
    <3> QED
      BY <3>7, <3>8, <3>9
  <2> QED
    BY <1>4, <2>1, <2>2
<1>7. CASE Updates
  <2>1. \A r \in Rank : RankInv(r)'
    BY <1>1, <1>3, <1>7, UpdateKeeps
  <2> QED
    BY <1>1, <1>2, <1>6, <1>7, <2>1, UpdateGoesOn
<1>8. Updates
  BY <1>1, SomeRank DEF BatchInv, RankInv, ModelInv
<1> QED
  BY <1>7, <1>8

LEMMA GiveBackBatch == ASSUME BatchInv, DeviceInv, NEW r \in Rank, GiveBack(r) PROVE BatchInv'
<1> DEFINE n == GroupSize * Size
           a == (LeaderOf(r) - 1) * Size
           rows == rank[r].rows
           order == rank[r].order
           out == rank[r].out
           back == ReverseIdx(order)
           results == [i \in DOMAIN out |-> out[back[i]]]
           piece == IF Updates THEN <<>> ELSE Own(r, results)
<1>1. UNCHANGED driver /\ UNCHANGED version /\ engine' = engine /\ rank[r].at = "back"
  BY DEF GiveBack
<1>2. DOMAIN rank = Rank /\ DOMAIN rank[r] = {"at", "rows", "todo", "plan", "order", "out"}
  BY DEF DeviceInv, PlaceInv, Idle
<1>3. /\ \A q \in Rank \ {r} : rank'[q] = rank[q]
      /\ rank'[r].at = "returned" /\ rank'[r].out = piece
  <2> DEFINE Piece(b) == IF Updates THEN <<>> ELSE Own(r, [i \in DOMAIN out |-> out[b[i]]])
  <2>1. rank' = [rank EXCEPT ![r] = [rank[r] EXCEPT !.at = "returned", !.out = Piece(back)]]
    BY <1>2 DEF GiveBack
  <2>2. Piece(back) = piece
    OBVIOUS
  <2> HIDE DEF Piece, piece
  <2> QED
    BY <1>2, <2>1, <2>2
<1>4. ~Updates => Slice(piece, Reply, (r - 1) * ReplySize, ReplySize)
  <2> SUFFICES ASSUME ~Updates PROVE Slice(piece, Reply, (r - 1) * ReplySize, ReplySize)
    OBVIOUS
  <2>1. /\ n \in Nat \ {0} /\ a \in Nat /\ a + n <= NumTrajectories
        /\ Slice(rows, batch, a, n) /\ Sent = batch /\ Answered /\ setup \in Setups
    BY <1>1, GroupRowsKnown
  <2>2. Size \in Nat /\ a + n <= Len(Sent) /\ Len(Sent) \in Nat
    BY <1>1, CallSizes
  <2>3. ~Generates
    BY <1>1 DEF DeviceInv, PlaceInv
  <2>4. ReplySize = Size /\ Reply = [x \in 1..Len(Sent) |-> Result(Sent[x])]
    BY <2>3 DEF ReplySize, Reply
  <2>5. /\ Dealt(<<>>, order, n) /\ Long(out, Len(order))
        /\ \A k \in 1..Len(order) : out[k] = Result(rows[order[k]])
    BY <1>1 DEF BatchInv, RankInv, ModelInv
  <2> HIDE DEF n, a, order, out
  <2>6. /\ Len(order) = n
        /\ \A j \in 1..n : back[j] \in 1..n /\ order[back[j]] = j
    <3>1. n \in Nat
      BY <2>1
    <3> QED
      BY <2>5, <3>1, DealtEnds
  <2>7. DOMAIN out = 1..n
    <3>1. n \in Nat /\ Long(out, n)
      BY <2>1, <2>5, <2>6
    <3> QED
      BY <3>1, LongIs
  <2>8. ASSUME NEW i \in 1..n PROVE results[i] = Reply[a + i]
    <3>1. results[i] = out[back[i]]
      BY <2>7
    <3>2. back[i] \in 1..n /\ order[back[i]] = i
      BY <2>6
    <3> HIDE DEF back, results, rows
    <3>3. out[back[i]] = Result(rows[i])
      BY <2>5, <2>6, <3>2
    <3>4. rows[i] = Sent[a + i] /\ a + i \in 1..Len(Sent)
      BY <2>1, <2>2 DEF Slice
    <3> QED
      BY <2>4, <3>1, <3>3, <3>4
  <2>9. Long(results, n)
    BY <2>7 DEF Long
  <2> HIDE DEF results, back
  <2>10. Slice(results, Reply, a, n)
    BY <2>8, <2>9 DEF Slice
  <2>11. Slice(Own(r, results), Reply, (r - 1) * Size, Size)
    BY <2>1, <2>2, <2>10, OwnIs DEF a, n
  <2> QED
    BY <2>4, <2>11
<1> HIDE DEF piece
<1>5. RankInv(r)'
  <2>1. RowsInv(r)' /\ ModelInv(r)'
    BY <1>3 DEF RowsInv, ModelInv
  <2>2. AnswerInv(r)'
    BY <1>1, <1>3, <1>4, Frame, FrameVersion DEF AnswerInv
  <2> QED
    BY <2>1, <2>2 DEF RankInv
<1> QED
  BY <1>1, <1>3, <1>5, RanksGoOn

-----------------------------------------------------------------------------
(* The steps of the driver.                                                *)

LEMMA RanksRest ==
    ASSUME setup' = setup, rank' = [r \in Rank |-> Idle]
    PROVE  CallInv' /\ \A r \in Rank' : RankInv(r)'
<1>1. Rank' = Rank /\ \A r \in Rank : rank'[r].at = "idle"
  BY DEF Rank, Idle
<1>2. CallInv'
  BY <1>1 DEF CallInv
<1>3. \A r \in Rank : RankInv(r)'
  BY <1>1 DEF RankInv, RowsInv, AnswerInv, ModelInv
<1> QED
  BY <1>1, <1>2, <1>3

LEMMA FreshRows ==
    ASSUME NEW n \in Nat
    PROVE  /\ Long(Rows(n), n) /\ Len(Rows(n)) = n
           /\ \A i \in 1..n :
                 /\ Rows(n)[i] = Row(i) /\ Row(i).uid = i
                 /\ Row(i).resp = None /\ Row(i).logp = None
                 /\ Row(i).value = None /\ Row(i).score = None
<1>1. \A i \in 1..n : Rows(n)[i] = Row(i)
  BY DEF Rows
<1>2. Long(Rows(n), n)
  BY DEF Long, Rows
<1>3. Len(Rows(n)) = n
  BY <1>2, LongIs
<1>4. \A i : /\ Row(i).uid = i /\ Row(i).resp = None /\ Row(i).logp = None
             /\ Row(i).value = None /\ Row(i).score = None
  BY DEF Row
<1> QED
  BY <1>1, <1>2, <1>3, <1>4

LEMMA Pair ==
    ASSUME NEW a, NEW b, NEW c
    PROVE  SubSeq(<<a, b, c>>, 1, 2) = <<a, b>>
<1> DEFINE s == <<a, b, c>>
           t == SubSeq(s, 1, 2)
<1>1. s \in Seq({a, b, c}) /\ Len(s) = 3 /\ s[1] = a /\ s[2] = b
  OBVIOUS
<1> HIDE DEF s
<1>2. t \in Seq({a, b, c}) /\ Len(t) = 2 /\ t[1] = s[1] /\ t[2] = s[2]
  BY <1>1
<1> HIDE DEF t
<1>3. t = <<t[1], t[2]>>
  BY <1>2
<1> QED
  BY <1>1, <1>2, <1>3 DEF s, t

\* The part of the property that is about the batch holds whatever the phase.
LEMMA RowsAreRight == ASSUME DriverInv, setup \in Setups PROVE RowsRight
<1>1. CASE phase \in {"validate", "generate"}
  <2>1. PICK n \in Nat : batch = Rows(n)
    BY <1>1, PerPromptIs, SetupAssumption DEF DriverInv
  <2>2. DOMAIN batch = 1..n
    BY <2>1 DEF Rows
  <2>3. \A i \in DOMAIN batch : /\ batch[i].resp = None /\ batch[i].logp = None
                                /\ batch[i].value = None /\ batch[i].score = None
    BY <2>1, <2>2, FreshRows
  <2> QED
    BY <2>3 DEF RowsRight
<1>2. CASE phase = "failed"
  BY <1>2 DEF DriverInv
<1>3. CASE Answered
  <2>1. AnsweredInv /\ \A i \in 1..NumTrajectories : RowInv(batch[i])
    BY <1>3 DEF DriverInv
  <2>2. NumTrajectories \in Nat /\ Long(batch, NumTrajectories)
    BY <1>3, <2>1, SentIsBatch DEF Answered
  <2>3. DOMAIN batch = 1..NumTrajectories
    BY <2>2, LongIs
  <2> SUFFICES ASSUME NEW i \in DOMAIN batch, NEW j \in DOMAIN batch
               PROVE  LET row == batch[i] IN
                      /\ row.resp # None =>
                            /\ row.resp[1] = row.uid
                            /\ i # j => row.resp # batch[j].resp
                      /\ row.logp # None => row.logp = row.resp /\ Cardinality(row.logp[3]) = 1
                      /\ row.value # None => SubSeq(row.value, 1, 2) = SubSeq(row.resp, 1, 2)
                      /\ row.score # None => row.score = row.resp
    BY DEF RowsRight
  <2>4. batch[i].resp[1] = batch[i].uid
    BY <2>1, <2>3 DEF AnsweredInv
  <2>5. i # j => batch[i].resp # batch[j].resp
    BY <2>1, <2>3 DEF AnsweredInv, Of
  <2>6. /\ batch[i].logp # None => batch[i].logp = batch[i].resp /\ Cardinality(batch[i].logp[3]) = 1
        /\ batch[i].value # None => SubSeq(batch[i].value, 1, 2) = SubSeq(batch[i].resp, 1, 2)
        /\ batch[i].score # None => batch[i].score = batch[i].resp
    BY <2>1, <2>3 DEF RowInv
  <2> QED
    BY <2>4, <2>5, <2>6
<1> QED
  BY <1>1, <1>2, <1>3 DEF DriverInv, Answered, Phases

LEMMA InitBatch == Init => BatchInv
<1> SUFFICES ASSUME Init PROVE BatchInv
  OBVIOUS
<1>1. setup \in Setups /\ setup.tests \in Nat
  BY SetupAssumption DEF Init
<1>2. \A r \in Rank : rank[r].at = "idle"
  BY DEF Init, Idle
<1>3. CallInv /\ \A r \in Rank : RankInv(r)
  BY <1>2 DEF CallInv, RankInv, RowsInv, AnswerInv, ModelInv
<1>4. DriverInv
  <2>1. phase \in {"validate", "generate"}
    BY DEF Init
  <2>2. phase \in Phases /\ ~Answered /\ phase # "failed" /\ RewardInv
    BY <2>1 DEF Phases, Answered, RewardInv
  <2>3. /\ phase = "validate" => setup.tests > 0 /\ batch = Rows(setup.tests)
        /\ phase = "generate" => batch = Rows(setup.prompts)
    BY DEF Init
  <2>4. /\ version = [m \in Model |-> [r \in Rank |-> version[m][r]]]
        /\ \A m \in Model : \A q, r \in Rank : version[m][q] = version[m][r]
    BY DEF Init
  <2>5. TestedRight
    BY DEF Init, TestedRight
  <2> QED
    BY <2>2, <2>3, <2>4, <2>5 DEF DriverInv
<1> QED
  BY <1>3, <1>4 DEF BatchInv

\* The rows the driver has before a call.
LEMMA BatchIs ==
    ASSUME DriverInv, setup \in Setups, phase # "failed"
    PROVE  \E n \in Nat \ {0} :
              /\ Long(batch, n) /\ Len(batch) = n
              /\ phase = "validate" => n = setup.tests
              /\ phase = "generate" => n = setup.prompts
              /\ Answered => n = NumTrajectories
<1>1. CASE phase = "validate"
  <2>1. setup.tests \in Nat \ {0} /\ batch = Rows(setup.tests) /\ ~Answered
    BY <1>1, SetupAssumption DEF DriverInv, Answered
  <2> QED
    BY <1>1, <2>1, FreshRows
<1>2. CASE phase = "generate"
  <2>1. setup.prompts \in Nat \ {0} /\ batch = Rows(setup.prompts) /\ ~Answered
    BY <1>2, SetupAssumption DEF DriverInv, Answered
  <2> QED
    BY <1>2, <2>1, FreshRows
<1>3. CASE Answered
  <2>1. NumTrajectories \in Nat \ {0} /\ Long(batch, NumTrajectories) /\ Len(batch) = NumTrajectories
    BY <1>3, SentIsBatch DEF DriverInv, Answered
  <2> QED
    BY <1>3, <2>1 DEF Answered
<1> QED
  BY <1>1, <1>2, <1>3 DEF DriverInv, Answered, Phases

\* The rows that are sent begin with the batch.
LEMMA SentBegins ==
    ASSUME DriverInv, setup \in Setups, phase # "failed"
    PROVE  /\ Len(batch) \in Nat \ {0} /\ Len(Sent) \in Nat /\ Len(batch) <= Len(Sent)
           /\ Long(Sent, Len(Sent))
           /\ \A i \in 1..Len(batch) : Sent[i] = batch[i]
<1>1. PICK n \in Nat \ {0} : Long(batch, n) /\ Len(batch) = n
  BY BatchIs
<1>2. PICK p \in Nat : Extends(Sent, batch, n, p)
  BY <1>1, SentIs
<1>3. Long(Sent, n + p) /\ n + p \in Nat /\ \A i \in 1..n : Sent[i] = batch[i]
  BY <1>2 DEF Extends
<1>4. Len(Sent) = n + p
  BY <1>3, LongIs
<1> QED
  BY <1>1, <1>3, <1>4

\* A call that failed leaves the rows as they are.
LEMMA FailKeeps ==
    ASSUME BatchInv, DeviceInv, Fail, UNCHANGED version, rank' = [r \in Rank |-> Idle]
    PROVE  BatchInv'
<1>1. phase' = "failed" /\ setup' = setup /\ batch' = batch /\ tested' = tested
      /\ version' = version /\ setup \in Setups /\ DriverInv
  BY DEF Fail, DeviceInv, PlaceInv, BatchInv
<1>2. CallInv' /\ \A r \in Rank' : RankInv(r)'
  BY <1>1, RanksRest
<1>3. RowsRight' /\ TestedRight'
  <2>1. RowsRight /\ TestedRight
    BY <1>1, RowsAreRight DEF DriverInv
  <2>2. RowsRight'
    BY <1>1, <2>1 DEF RowsRight
  <2>3. TestedRight'
    BY <1>1, <2>1 DEF TestedRight
  <2> QED
    BY <2>2, <2>3
<1>4. DriverInv'
  <2>1. Rank' = Rank
    BY <1>1 DEF Rank
  <2>2. ~Answered' /\ RewardInv' /\ phase' \in Phases
    BY <1>1 DEF Answered, RewardInv, Phases
  <2> QED
    BY <1>1, <1>3, <2>1, <2>2 DEF DriverInv
<1> QED
  BY <1>2, <1>4 DEF BatchInv

LEMMA CallBatch == ASSUME BatchInv, DeviceInv, Call PROVE BatchInv'
<1>1. /\ phase \in Phases \ {"advantage", "done", "failed"}
      /\ setup \in Setups /\ setup' = setup /\ version' = version /\ engine' = engine
      /\ rank = [r \in Rank |-> Idle] /\ DriverInv
  <2>1. rank = [r \in Rank |-> rank[r]] /\ \A r \in Rank : rank[r] = Idle
    BY DEF Call, DeviceInv, PlaceInv
  <2>2. rank = [r \in Rank |-> Idle]
    BY <2>1
  <2> QED
    BY <2>2 DEF Call, Fail, device, DeviceInv, PlaceInv, BatchInv, DriverInv
<1>2. CASE Fail /\ UNCHANGED rank
  <2>1. rank' = [r \in Rank |-> Idle] /\ UNCHANGED version
    BY <1>1, <1>2
  <2> QED
    BY <1>2, <2>1, FailKeeps
<1>3. CASE ~(Fail /\ UNCHANGED rank)
  <2>1. /\ Len(Sent) % setup.world = 0
        /\ cut' = Len(Sent) - Len(batch)
        /\ batch' = IF Generates THEN batch ELSE Sent
        /\ \/ phase = "generate" /\ length' \in [Trajectory -> setup.lengths]
           \/ phase # "generate" /\ length' = length
        /\ phase' = phase /\ tested' = tested /\ reward' = reward
        /\ rank' = [q \in Rank |-> [Idle EXCEPT !.at = "start",
                                        !.rows = Chunk(Sent, setup.world)[q]]]
    <3> DEFINE Ranks == [q \in Rank |-> [Idle EXCEPT !.at = "start",
                                             !.rows = Chunk(Sent, setup.world)[q]]]
    <3>1. \/ Fail /\ UNCHANGED rank
          \/ /\ Len(Sent) % setup.world = 0
             /\ rank' = Ranks
             /\ cut' = Len(Sent) - Len(batch)
             /\ batch' = IF Generates THEN batch ELSE Sent
             /\ \/ phase = "generate" /\ length' \in [Trajectory -> setup.lengths]
                \/ phase # "generate" /\ UNCHANGED length
             /\ UNCHANGED <<setup, phase, iter, tested, reward>>
      BY Zenon DEF Call
    <3> HIDE DEF Ranks
    <3>2. /\ Len(Sent) % setup.world = 0
          /\ rank' = Ranks
          /\ cut' = Len(Sent) - Len(batch)
          /\ batch' = IF Generates THEN batch ELSE Sent
          /\ \/ phase = "generate" /\ length' \in [Trajectory -> setup.lengths]
             \/ phase # "generate" /\ UNCHANGED length
          /\ UNCHANGED <<setup, phase, iter, tested, reward>>
      BY <1>3, <3>1, Zenon
    <3>3. phase' = phase /\ tested' = tested /\ reward' = reward
      BY <3>2
    <3> QED
      BY <3>2, <3>3 DEF Ranks
  <2>2. batch' = batch
    <3>1. CASE Generates
      BY <2>1, <3>1
    <3>2. CASE ~Generates
      <4>1. Answered /\ phase # "validate"
        BY <1>1, <3>2 DEF Generates, Answered
      <4>2. Sent = batch
        BY <1>1, <4>1, SentIsBatch DEF DriverInv
      <4> QED
        BY <2>1, <3>2, <4>2
    <3> QED
      BY <3>1, <3>2
  <2>3. UNCHANGED <<setup, phase, batch>>
    BY <1>1, <2>1, <2>2
  <2>4. DriverInv'
    <3>1. AnsweredInv' = AnsweredInv
      BY <2>3, FrameOf DEF AnsweredInv, Of
    <3>5. RewardInv' = RewardInv
      BY <2>1, <2>3, FrameOf DEF RewardInv
    <3>6. RowsRight' = RowsRight
      BY <2>3 DEF RowsRight
    <3>7. TestedRight' = TestedRight
      BY <2>1, <2>3 DEF TestedRight
    <3>2. ActorVersions' = ActorVersions
      BY <1>1, <2>3, FrameOf DEF ActorVersions
    <3>3. \A row : RowInv(row)' = RowInv(row)
      BY <2>3, <3>2, FrameOf DEF RowInv
    <3>4. Answered => length' = length
      BY <2>1 DEF Answered
    <3> QED
      BY <1>1, <2>3, <3>1, <3>3, <3>4, <3>5, <3>6, <3>7, FrameOf DEF DriverInv
  <2> DEFINE w == setup.world
             c == Size
  <2>5. /\ w \in Nat \ {0} /\ c \in Nat \ {0} /\ Len(Sent) = w * c
        /\ Long(Sent, w * c)
    <3>1. w \in Nat \ {0} /\ Len(Sent) \in Nat \ {0} /\ Long(Sent, Len(Sent))
      BY <1>1, SentBegins, Sizes
    <3>2. \A x, y \in Nat \ {0} : x % y = 0 => x \div y \in Nat \ {0} /\ x = y * (x \div y)
      OBVIOUS
    <3>3. c \in Nat \ {0} /\ Len(Sent) = w * c
      BY <2>1, <3>1, <3>2 DEF Size
    <3> QED
      BY <3>1, <3>3
  <2>6. CallInv'
    <3>1. phase = "generate" => length' \in [Trajectory -> setup.lengths]
      BY <2>1
    <3> QED
      BY <2>1, <2>3, <2>5, <3>1, FrameOf DEF CallInv
  <2>7. ASSUME NEW r \in Rank PROVE RankInv(r)'
    <3> DEFINE Piece(q) == Chunk(Sent, setup.world)[q]
    <3>1. rank' = [q \in Rank |-> [Idle EXCEPT !.at = "start", !.rows = Piece(q)]]
      BY <2>1
    <3> HIDE DEF Piece
    <3>2. rank'[r] = [Idle EXCEPT !.at = "start", !.rows = Piece(r)]
      BY <3>1
    <3>3. /\ rank'[r].at = "start" /\ rank'[r].rows = Piece(r)
          /\ rank'[r].order = <<>> /\ rank'[r].out = <<>>
      BY <3>2 DEF Idle
    <3>4. Slice(Piece(r), Sent, (r - 1) * c, c)
      <4>1. r \in 1..w /\ c \in Nat
        BY <2>5 DEF Rank
      <4> HIDE DEF c
      <4>2. Slice(Chunk(Sent, w)[r], Sent, (r - 1) * c, c)
        BY <2>5, <4>1, ChunkIs
      <4> QED
        BY <4>2 DEF Piece
    <3>5. RowsInv(r)'
      BY <2>3, <3>3, <3>4, FrameOf DEF RowsInv
    <3>6. AnswerInv(r)' /\ ModelInv(r)'
      BY <3>3 DEF AnswerInv, ModelInv
    <3> QED
      BY <3>5, <3>6 DEF RankInv
  <2> QED
    BY <2>3, <2>4, <2>6, <2>7, FrameOf DEF BatchInv
<1> QED
  BY <1>2, <1>3

-----------------------------------------------------------------------------
(* What is collected.                                                      *)

\* The first n of the T results that the ranks give back together.
FirstOf(T, n) ==
    /\ Long(Collected, n) /\ Len(Collected) = n
    /\ \A i \in 1..n : i \in 1..T /\ Collected[i] = Reply[i]

LEMMA CollectedIs ==
    ASSUME BatchInv, DeviceInv, Returned, ~Updates
    PROVE  \E T, n \in Nat :
              /\ T = (IF Generates THEN Len(Sent) * PerPrompt ELSE Len(Sent))
              /\ n = T - (Len(Sent) - Len(batch))
              /\ FirstOf(T, n)
<1> DEFINE w == setup.world
           d == ReplySize
           outs == [r \in Rank |-> rank[r].out]
           L == Len(Sent)
           b == Len(batch)
<1>1. /\ setup \in Setups /\ w \in Nat \ {0} /\ Rank = 1..w
      /\ 1 \in Rank /\ rank[1].at = "returned"
  BY Sizes, SomeRank DEF DeviceInv, PlaceInv, Returned, Rank
<1>2. phase # "failed"
  BY <1>1 DEF DeviceInv, PlaceInv
<1>3. /\ Size \in Nat \ {0} /\ L = w * Size /\ L \in Nat
      /\ b \in Nat \ {0} /\ b <= L /\ cut = L - b
  <2>1. Size \in Nat \ {0} /\ L = w * Size /\ L \in Nat /\ cut = L - b
    BY <1>1, CallSizes DEF BatchInv, CallInv
  <2>2. b \in Nat \ {0} /\ b <= L
    BY <1>1, <1>2, SentBegins DEF BatchInv
  <2> QED
    BY <2>1, <2>2
<1> DEFINE T == IF Generates THEN L * PerPrompt ELSE L
<1>4. d \in Nat \ {0} /\ w * d = T /\ T \in Nat /\ L <= T
  <2>1. PerPrompt \in Nat \ {0}
    BY <1>1, PerPromptIs
  <2> DEFINE c == Size
             m == PerPrompt
  <2>2. d = (IF Generates THEN c * m ELSE c)
    BY DEF ReplySize
  <2> HIDE DEF c, m, d, w
  <2>3. \A x, y \in Nat \ {0} : x * y \in Nat \ {0} /\ x <= x * y
    OBVIOUS
  <2>4. \A x, y, z \in Nat : x * (y * z) = (x * y) * z
    OBVIOUS
  <2>5. c * m \in Nat \ {0} /\ w * (c * m) = (w * c) * m
    BY <1>1, <1>3, <2>1, <2>3, <2>4 DEF c, m
  <2>6. w * c \in Nat \ {0}
    BY <1>1, <1>3, <2>3 DEF c
  <2>7. (w * c) * m \in Nat \ {0} /\ w * c <= (w * c) * m
    BY <2>1, <2>6, <2>3 DEF m
  <2> HIDE DEF L
  <2>8. L = w * c
    BY <1>3 DEF w, c
  <2>9. T = IF Generates THEN L * m ELSE L
    BY DEF m
  <2> HIDE DEF T
  <2>10. CASE Generates
    <3>1. d = c * m /\ T = (w * c) * m
      BY <2>2, <2>8, <2>9, <2>10
    <3> QED
      BY <2>5, <2>7, <2>8, <3>1
  <2>11. CASE ~Generates
    <3>1. d = c /\ T = w * c /\ d \in Nat \ {0}
      BY <1>3, <2>2, <2>8, <2>9, <2>11 DEF c
    <3> QED
      BY <2>6, <2>8, <3>1
  <2> QED
    BY <2>10, <2>11
<1>5. Slice(Concat(outs), Reply, 0, w * d)
  <2>1. Long(outs, w)
    BY <1>1 DEF Long
  <2>2. ASSUME NEW r \in 1..w PROVE Slice(outs[r], Reply, 0 + ((r - 1) * d), d)
    <3>1. r \in Rank /\ rank[r].at = "returned"
      BY <1>1 DEF Returned
    <3>2. Slice(rank[r].out, Reply, (r - 1) * d, d)
      BY <3>1 DEF BatchInv, RankInv, AnswerInv
    <3>3. outs[r] = rank[r].out
      BY <3>1
    <3>4. 0 + ((r - 1) * d) = (r - 1) * d
      <4>1. r - 1 \in Nat /\ d \in Nat
        BY <1>4
      <4>2. (r - 1) * d \in Nat
        BY <4>1, Products
      <4> QED
        BY <4>2
    <3> QED
      BY <3>2, <3>3, <3>4
  <2> HIDE DEF outs, d, w
  <2>3. 0 \in Nat
    OBVIOUS
  <2> QED
    BY <1>1, <1>4, <2>1, <2>2, <2>3, SlicesJoin DEF d, w
<1> DEFINE n == T - (L - b)
           all == Concat(outs)
<1>6. n \in Nat /\ 0 + n <= T
  BY <1>3, <1>4
<1>7. Long(all, T) /\ Len(all) = T /\ \A i \in 1..T : all[i] = Reply[i]
  <2>1. Slice(all, Reply, 0, T)
    BY <1>4, <1>5
  <2>2. T \in Nat
    BY <1>4
  <2> HIDE DEF T, all
  <2>3. Long(all, T) /\ \A i \in 1..T : all[i] = Reply[0 + i]
    BY <2>1 DEF Slice
  <2>4. \A i \in 1..T : 0 + i = i
    BY <2>2
  <2>5. Len(all) = T
    BY <2>2, <2>3, LongIs
  <2> QED
    BY <2>3, <2>4, <2>5
<1>8. Collected = SubSeq(all, 1, n)
  <2>1. Collected = Unpad(all, cut)
    BY DEF Collected
  <2> HIDE DEF all
  <2> QED
    BY <1>3, <1>7, <2>1 DEF Unpad
<1>9. T \in Nat
  BY <1>4
<1> HIDE DEF n, T, all
<1>10. Slice(SubSeq(all, 0 + 1, 0 + n), all, 0, n)
  <2>1. 0 \in Nat
    OBVIOUS
  <2> QED
    BY <1>6, <1>7, <1>9, <2>1, SliceIs
<1>11. FirstOf(T, n)
  <2>1. 0 + 1 = 1 /\ 0 + n = n /\ \A i \in 1..n : 0 + i = i /\ i \in 1..T
    BY <1>6, <1>9
  <2>2. Long(Collected, n) /\ \A i \in 1..n : Collected[i] = all[i]
    BY <1>8, <1>10, <2>1 DEF Slice
  <2>3. Len(Collected) = n
    BY <1>6, <2>2, LongIs
  <2> QED
    BY <1>7, <2>1, <2>2, <2>3 DEF FirstOf
<1> QED
  BY <1>6, <1>9, <1>11 DEF n, T, L, b

LEMMA EndValidateBatch == ASSUME BatchInv, DeviceInv, EndValidate PROVE BatchInv'
<1>1. /\ setup \in Setups /\ setup' = setup /\ version' = version /\ DriverInv
      /\ phase = "validate" /\ phase' = "generate" /\ Returned
      /\ batch' = Rows(setup.prompts)
      /\ rank' = [r \in Rank |-> Idle]
      /\ tested' = [i \in DOMAIN Collected |-> <<batch[i].uid, Collected[i]>>]
  <2>1. /\ setup' = setup /\ phase = "validate" /\ phase' = "generate" /\ Returned
        /\ batch' = Rows(setup.prompts) /\ rank' = [r \in Rank |-> Idle]
        /\ version' = version
    BY DEF EndValidate, Free, device
  <2>2. tested' = [i \in DOMAIN Collected |-> <<batch[i].uid, Collected[i]>>]
    BY Zenon DEF EndValidate
  <2> QED
    BY <2>1, <2>2 DEF DeviceInv, PlaceInv, BatchInv
<1>2. CallInv' /\ \A r \in Rank' : RankInv(r)'
  BY <1>1, RanksRest
<1> DEFINE N == setup.tests
<1>3. Generates /\ ~Updates /\ PerPrompt = 1 /\ N \in Nat \ {0} /\ batch = Rows(N)
  BY <1>1, SetupAssumption DEF Generates, Updates, PerPrompt, DriverInv
<1>4. Len(batch) = N /\ \A i \in 1..N : batch[i] = Row(i) /\ Row(i).uid = i
  BY <1>3, FreshRows
<1>5. /\ Len(Sent) \in Nat /\ N <= Len(Sent)
      /\ \A i \in 1..N : Sent[i] = batch[i]
  BY <1>1, <1>4, SentBegins
<1>6. FirstOf(Len(Sent), N)
  <2>1. PICK T, n \in Nat :
            /\ T = (IF Generates THEN Len(Sent) * PerPrompt ELSE Len(Sent))
            /\ n = T - (Len(Sent) - Len(batch))
            /\ FirstOf(T, n)
    BY <1>1, <1>3, CollectedIs
  <2>2. T = Len(Sent) /\ n = N
    BY <1>3, <1>4, <1>5, <2>1
  <2> QED
    BY <2>1, <2>2
<1>7. Len(Collected) = N /\ DOMAIN Collected = 1..N
      /\ \A i \in 1..N : i \in 1..Len(Sent) /\ Collected[i] = Reply[i]
  BY <1>3, <1>6, LongIs DEF FirstOf
<1>8. ASSUME NEW i \in 1..N PROVE Collected[i][1] = i
  <2>1. Collected[i] = Reply[i] /\ i \in 1..Len(Sent)
    BY <1>7
  <2>2. i \in 1..(Len(Sent) * PerPrompt) /\ ((i - 1) \div PerPrompt) + 1 = i
    <3>1. i \in Nat /\ (i - 1) \div 1 = i - 1
      BY <1>3
    <3> QED
      BY <1>3, <1>5, <2>1, <3>1
  <2>3. Reply[i] = <<Sent[i].uid, ((i - 1) % PerPrompt) + 1, ActorVersions>>
    BY <1>3, <2>2 DEF Reply
  <2>4. Sent[i].uid = i
    BY <1>4, <1>5
  <2> QED
    BY <2>1, <2>3, <2>4
<1>9. TestedRight'
  <2>1. tested' = [i \in 1..N |-> <<batch[i].uid, Collected[i]>>]
    BY <1>1, <1>7
  <2>2. \A i \in 1..N : tested'[i][1] = i /\ tested'[i][2] = Collected[i]
    BY <1>4, <2>1
  <2>3. DOMAIN tested' = 1..N /\ Len(tested') = N
    BY <1>3, <2>1
  <2> QED
    BY <1>1, <1>8, <2>2, <2>3 DEF TestedRight
<1>10. DriverInv'
  <2>1. Rank' = Rank
    BY <1>1 DEF Rank
  <2>2. ~Answered' /\ RewardInv' /\ phase' \in Phases
    BY <1>1 DEF Answered, RewardInv, Phases
  <2> QED
    BY <1>1, <1>9, <2>1, <2>2 DEF DriverInv
<1> QED
  BY <1>2, <1>10 DEF BatchInv

\* A row with the j-th response to prompt p.
HasResponse(row, p, j) ==
    /\ DOMAIN row = DOMAIN Row(1)
    /\ row.uid = p /\ row.resp = <<p, j, ActorVersions>>
    /\ row.logp = None /\ row.value = None /\ row.score = None

LEMMA JoinedIs ==
    ASSUME BatchInv, DeviceInv, Returned, phase = "generate",
           Len(Collected) = Len(batch) * setup.n
    PROVE  /\ Long(Joined(Collected), NumTrajectories)
           /\ \A s \in 0..(setup.prompts - 1), j \in 1..setup.n :
                 HasResponse(Joined(Collected)[(s * setup.n) + j], s + 1, j)
<1> DEFINE n == setup.n
           P == setup.prompts
           N == NumTrajectories
           again == Repeat(batch, n)
           rows == Joined(Collected)
<1>1. /\ setup \in Setups /\ n \in Nat \ {0} /\ P \in Nat \ {0} /\ N = P * n
      /\ batch = Rows(P) /\ Generates /\ ~Updates /\ PerPrompt = n
      /\ DriverInv
  BY SetupAssumption DEF DeviceInv, PlaceInv, BatchInv, DriverInv, NumTrajectories,
     Generates, Updates, PerPrompt
<1>2. Len(batch) = P /\ DOMAIN batch = 1..P /\ \A i \in 1..P : batch[i] = Row(i)
  BY <1>1, FreshRows DEF Rows
<1>3. Len(Sent) \in Nat /\ P <= Len(Sent) /\ \A i \in 1..P : Sent[i] = batch[i]
  BY <1>1, <1>2, SentBegins
<1>4. PICK T, m \in Nat :
          /\ T = (IF Generates THEN Len(Sent) * PerPrompt ELSE Len(Sent))
          /\ m = T - (Len(Sent) - Len(batch))
          /\ FirstOf(T, m)
  BY <1>1, CollectedIs
<1>5. T = Len(Sent) * n /\ m = N
  BY <1>1, <1>2, <1>4 DEF FirstOf
<1>6. \A i \in 1..N : i \in 1..(Len(Sent) * n) /\ Collected[i] = Reply[i]
  BY <1>4, <1>5 DEF FirstOf
<1>7. /\ again = [i \in 1..N |-> batch[((i - 1) \div n) + 1]]
      /\ DOMAIN again = 1..N
  BY <1>1, <1>2 DEF Repeat
<1>8. rows = [i \in 1..N |-> [again[i] EXCEPT !.resp = Collected[i]]]
  BY <1>7, Zenon DEF Joined
<1>9. Long(rows, N)
  <2> DEFINE f(i) == [again[i] EXCEPT !.resp = Collected[i]]
  <2>1. rows = [i \in 1..N |-> f(i)]
    BY <1>8
  <2> HIDE DEF f, rows
  <2> QED
    BY <2>1 DEF Long
<1>10. ASSUME NEW s \in 0..(P - 1), NEW j \in 1..n
       PROVE  HasResponse(rows[(s * n) + j], s + 1, j)
  <2> DEFINE x == (s * n) + j
  <2>1. /\ x \in 1..N /\ (x - 1) \div n = s /\ ((x - 1) % n) + 1 = j
    <3>1. P \in Nat /\ n \in Nat \ {0}
      BY <1>1
    <3> HIDE DEF P, n
    <3>2. \A t \in 0..(P - 1), i \in 1..n :
             /\ (t * n) + i \in 1..(P * n)
             /\ (((t * n) + i) - 1) \div n = t /\ ((((t * n) + i) - 1) % n) + 1 = i
      BY <3>1, Grid
    <3>3. x \in 1..(P * n) /\ (x - 1) \div n = s /\ ((x - 1) % n) + 1 = j
      BY <3>2
    <3> QED
      BY <1>1, <3>3 DEF P, n
  <2>2. s + 1 \in 1..P
    BY <1>1
  <2> HIDE DEF x, n, P, N, rows, again
  <2>3. again[x] = Row(s + 1)
    BY <1>2, <1>7, <2>1, <2>2
  <2>4. Collected[x] = <<Sent[s + 1].uid, j, ActorVersions>>
    <3>1. x \in 1..(Len(Sent) * PerPrompt) /\ PerPrompt = n
      BY <1>1, <1>6, <2>1 DEF n
    <3>2. Reply[x] = <<Sent[((x - 1) \div PerPrompt) + 1].uid, ((x - 1) % PerPrompt) + 1,
                       ActorVersions>>
      BY <1>1, <3>1 DEF Reply
    <3> QED
      BY <1>6, <2>1, <3>1, <3>2
  <2>5. Sent[s + 1].uid = s + 1
    <3>1. Sent[s + 1] = Row(s + 1)
      BY <1>2, <1>3, <2>2
    <3> QED
      BY <3>1 DEF Row
  <2>6. rows[x] = [Row(s + 1) EXCEPT !.resp = <<s + 1, j, ActorVersions>>]
    BY <1>8, <2>1, <2>3, <2>4, <2>5
  <2>7. HasResponse(rows[x], s + 1, j)
    BY <2>6 DEF HasResponse, Row
  <2> QED
    BY <2>7 DEF x
<1> QED
  BY <1>9, <1>10

\* P deals the sequences out, equally many to each, with totals far apart at most.
Level(P, len, k, far) ==
    /\ Deals(P, k, Len(len))
    /\ \A i, l \in 1..k :
          Len(P[i]) = Len(P[l]) /\ Total(len, P[i]) <= Total(len, P[l]) + far

LEMMA LevelPartitions ==
    ASSUME NEW len \in Seq(Nat \ {0}), NEW k \in Nat \ {0},
           Len(len) # 0, Len(len) % k = 0,
           NEW lo \in Nat, NEW hi \in Nat,
           \A i \in DOMAIN len : lo <= len[i] /\ len[i] <= hi
    PROVE  Level(Partitions(len, k, TRUE), len, k, hi - lo)
<1> DEFINE P == Partitions(len, k, TRUE)
<1>1. /\ Deals(P, k, Len(len))
      /\ \A i, l \in 1..k :
            Len(P[i]) = Len(P[l]) /\ Total(len, P[i]) <= Total(len, P[l]) + (hi - lo)
  BY EqualPartitionsAreLevel
<1> HIDE DEF P
<1> QED
  BY <1>1 DEF Level, P

\* The order of the rows is a permutation.
LEMMA OrderDeals ==
    ASSUME setup \in Setups, length \in [Trajectory -> setup.lengths],
           NEW rows, Known(rows, NumTrajectories)
    PROVE  Dealt(<<>>, Order(rows), NumTrajectories)
<1> DEFINE N == NumTrajectories
           w == setup.world
           len == Lengths(rows)
           P == Partitions(len, w, TRUE)
           u == Concat(P)
<1>1. w \in Nat \ {0} /\ N \in Nat \ {0} /\ N % w = 0
  <2>1. \A x, y \in Nat \ {0} : x * y \in Nat \ {0}
    OBVIOUS
  <2>2. setup.prompts \in Nat \ {0} /\ setup.n \in Nat \ {0} /\ w \in Nat \ {0}
        /\ (setup.prompts * setup.n) % w = 0
    BY SetupAssumption
  <2> QED
    BY <2>1, <2>2 DEF NumTrajectories
<1>2. CASE ~setup.balance
  <2> DEFINE id == [i \in 1..N |-> i]
  <2>1. DOMAIN rows = 1..N
    BY <1>1, LongIs DEF Known
  <2>2. Order(rows) = id
    BY <1>2, <2>1 DEF Order
  <2>3. id \in Seq(1..N) /\ DOMAIN id = 1..N /\ \A i \in 1..N : id[i] = i
    BY <1>1
  <2> HIDE DEF id
  <2>4. Dealt(<<>>, id, N)
    <3>1. \A x \in 1..N : In(id, x)
      BY <2>3 DEF In
    <3>2. <<>> \in Seq(Seq(1..N)) /\ DOMAIN <<>> = {}
      OBVIOUS
    <3> QED
      BY <2>3, <3>1, <3>2 DEF Dealt
  <2> QED
    BY <2>2, <2>4
<1>3. CASE setup.balance
  <2>1. len \in Seq(Nat \ {0}) /\ Len(len) = N
    BY <1>1, LengthsAre
  <2>2. DOMAIN len = 1..N /\ \A i \in DOMAIN len : len[i] \in Nat /\ 0 <= len[i] /\ len[i] <= MaxTokenLen
    <3>1. DOMAIN len = 1..N
      BY <2>1
    <3>2. \A i \in 1..N : len[i] \in setup.lengths
      BY <1>1, LengthsAre
    <3>3. \A l \in setup.lengths : l \in 1..MaxTokenLen /\ MaxTokenLen \in Nat
      BY SetupAssumption
    <3> QED
      BY <3>1, <3>2, <3>3
  <2>3. MaxTokenLen \in Nat /\ 0 \in Nat
    BY SetupAssumption
  <2> HIDE DEF len, w, N
  <2>4. /\ Deals(P, w, N)
        /\ \A i, l \in 1..w : Len(P[i]) = Len(P[l])
    <3>1. Len(len) # 0 /\ Len(len) % w = 0
      BY <1>1, <2>1
    <3>2. /\ Deals(Partitions(len, w, TRUE), w, Len(len))
          /\ \A i, l \in 1..w :
                Len(Partitions(len, w, TRUE)[i]) = Len(Partitions(len, w, TRUE)[l])
      <4>1. Level(Partitions(len, w, TRUE), len, w, MaxTokenLen - 0)
        BY <1>1, <2>1, <2>2, <2>3, <3>1, LevelPartitions
      <4> QED
        BY <4>1 DEF Level
    <3> QED
      BY <2>1, <3>2
  <2> HIDE DEF P
  <2> DEFINE c == Len(P[1])
  <2>5. P = [i \in 1..w |-> P[i]] /\ \A i \in 1..w : P[i] \in Seq(1..N)
    BY <2>4 DEF Deals
  <2>6. \A i \in 1..w : Len(P[i]) = c /\ Long(P[i], c)
    <3>1. 1 \in 1..w
      BY <1>1
    <3> QED
      BY <2>4, <2>5, <3>1, LongSeq
  <2>7. c \in Nat \ {0}
    <3>1. 1 \in 1..w /\ 1 \in 1..N
      BY <1>1
    <3>2. PICK i \in 1..w : \E j \in 1..Len(P[i]) : P[i][j] = 1
      BY <2>4, <3>1 DEF Deals
    <3>3. c \in Nat
      BY <2>5, <3>1
    <3> QED
      BY <2>6, <3>2, <3>3
  <2> HIDE DEF c
  <2>8. Piled(u, P, w, c)
    BY <1>1, <2>5, <2>6, <2>7, ConcatIs DEF Long
  <2> HIDE DEF u
  <2> DEFINE m == w * c
  <2>9. m \in Nat /\ Long(u, m)
    BY <1>1, <2>7, <2>8, Products DEF Piled
  <2>10. ASSUME NEW x \in 1..m
         PROVE  \E s \in 0..(w - 1), i \in 1..c :
                   x = (s * c) + i /\ s + 1 \in 1..w /\ u[x] = P[s + 1][i]
                   /\ u[x] \in 1..N
    <3> DEFINE s == (x - 1) \div c
               i == ((x - 1) % c) + 1
    <3>1. w \in Nat
      BY <1>1
    <3>2. s \in 0..(w - 1) /\ i \in 1..c /\ x = (s * c) + i
      BY <2>7, <3>1, Grid
    <3> HIDE DEF s, i
    <3>3. u[x] = P[s + 1][i] /\ s + 1 \in 1..w
      BY <1>1, <2>8, <3>2 DEF Piled
    <3>4. u[x] \in 1..N
      <4>1. P[s + 1] \in Seq(1..N) /\ Len(P[s + 1]) = c
        BY <2>5, <2>6, <3>3
      <4>2. \A q \in Seq(1..N) : \A j \in 1..Len(q) : q[j] \in 1..N
        <5> DEFINE X == 1..N
        <5> HIDE DEF X
        <5>1. \A q \in Seq(X) : \A j \in 1..Len(q) : q[j] \in X
          OBVIOUS
        <5> QED
          BY <5>1 DEF X
      <4>3. i \in 1..Len(P[s + 1])
        BY <3>2, <4>1
      <4> QED
        BY <3>3, <4>1, <4>2, <4>3
    <3> QED
      BY <3>2, <3>3, <3>4
  <2>11. u \in Seq(1..N) /\ DOMAIN u = 1..m
    <3>1. DOMAIN u = 1..m /\ u \in Seq({u[i] : i \in 1..m})
      BY <2>9, LongIs
    <3>2. {u[i] : i \in 1..m} \subseteq 1..N
      BY <2>10
    <3>3. u = [i \in 1..m |-> u[i]]
      BY <2>9 DEF Long
    <3>4. u \in [1..m -> 1..N]
      BY <2>10, <3>3
    <3> QED
      <4>1. m \in Nat
        BY <2>9
      <4> HIDE DEF m
      <4>2. u \in Seq(1..N)
        <5> DEFINE X == 1..N
        <5>1. u \in [1..m -> X]
          BY <3>4
        <5> HIDE DEF X
        <5>2. u \in Seq(X)
          BY <4>1, <5>1, IsASeq
        <5> QED
          BY <5>2 DEF X
      <4> QED
        BY <3>1, <4>2
  <2>12. ASSUME NEW x \in 1..m, NEW y \in 1..m, u[x] = u[y] PROVE x = y
    <3>1. PICK s \in 0..(w - 1), i \in 1..c :
              x = (s * c) + i /\ s + 1 \in 1..w /\ u[x] = P[s + 1][i]
      BY <2>10
    <3>2. PICK t \in 0..(w - 1), j \in 1..c :
              y = (t * c) + j /\ t + 1 \in 1..w /\ u[y] = P[t + 1][j]
      BY <2>10
    <3>3. s + 1 = t + 1 /\ i = j
      BY <2>4, <2>6, <2>12, <3>1, <3>2 DEF Deals
    <3>4. s = t
      BY <1>1, <3>3
    <3> QED
      BY <3>1, <3>2, <3>3, <3>4
  <2>13. ASSUME NEW x \in 1..N PROVE In(u, x)
    <3>1. PICK i \in 1..w, j \in 1..c : P[i][j] = x
      BY <2>4, <2>6 DEF Deals
    <3>2. i - 1 \in 0..(w - 1) /\ (i - 1) + 1 = i
      BY <1>1
    <3>3. ((i - 1) * c) + j \in 1..m
      <4>1. w \in Nat
        BY <1>1
      <4> QED
        BY <2>7, <3>2, <4>1, Grid
    <3>4. u[((i - 1) * c) + j] = x
      BY <2>8, <3>1, <3>2 DEF Piled
    <3> QED
      BY <2>11, <3>3, <3>4 DEF In
  <2>14. Dealt(<<>>, u, N)
    <3>1. <<>> \in Seq(Seq(1..N)) /\ DOMAIN <<>> = {}
      OBVIOUS
    <3> HIDE DEF m
    <3> QED
      BY <2>11, <2>12, <2>13, <3>1 DEF Dealt
  <2>15. Order(rows) = u
    BY <1>3, Zenon DEF Order, u, P, len, w
  <2> QED
    BY <2>14, <2>15 DEF N
<1> QED
  BY <1>2, <1>3

\* The rows that have their responses, in the order they are put in.
LEMMA OrderedRows ==
    ASSUME BatchInv, DeviceInv, Returned, phase = "generate",
           Len(Collected) = Len(batch) * setup.n
    PROVE  LET rows == Joined(Collected)
               N == NumTrajectories
           IN  /\ DOMAIN rows = 1..N /\ N \in Nat /\ Known(rows, N)
               /\ \A x \in 1..N : \E p \in 1..setup.prompts, j \in 1..setup.n :
                     HasResponse(rows[x], p, j)
               /\ \A x, y \in 1..N : Of(rows[x]) = Of(rows[y]) => x = y
               /\ \A t \in Trajectory : \E x \in 1..N : Of(rows[x]) = t
<1> DEFINE n == setup.n
           P == setup.prompts
           N == NumTrajectories
           rows == Joined(Collected)
           Has1(x, s, j) == x = (s * n) + j /\ HasResponse(rows[x], s + 1, j)
<1>1. n \in Nat \ {0} /\ P \in Nat \ {0} /\ N = P * n /\ N \in Nat
  <2>1. n \in Nat \ {0} /\ P \in Nat \ {0}
    BY PerPromptIs DEF DeviceInv, PlaceInv
  <2>2. \A x, y \in Nat : x * y \in Nat
    OBVIOUS
  <2> QED
    BY <2>1, <2>2 DEF NumTrajectories
<1>2. Trajectory = (1..P) \X (1..n)
  BY DEF Trajectory
<1>3. /\ Long(rows, N)
      /\ \A s \in 0..(P - 1), j \in 1..n : HasResponse(rows[(s * n) + j], s + 1, j)
  BY JoinedIs
<1> HIDE DEF rows, N
<1>4. DOMAIN rows = 1..N
  BY <1>1, <1>3, LongIs
<1>5. ASSUME NEW x \in 1..N PROVE \E s \in 0..(P - 1), j \in 1..n : Has1(x, s, j)
  <2> HIDE DEF P, n
  <2> DEFINE s == (x - 1) \div n
             j == ((x - 1) % n) + 1
  <2>1. P \in Nat /\ x \in 1..(P * n)
    BY <1>1
  <2>2. s \in 0..(P - 1) /\ j \in 1..n /\ x = (s * n) + j
    BY <1>1, <2>1, Grid
  <2> HIDE DEF s, j
  <2>3. HasResponse(rows[x], s + 1, j)
    BY <1>3, <2>2 DEF P, n
  <2> QED
    BY <2>2, <2>3
<1>6. ASSUME NEW x, NEW s, NEW j, Has1(x, s, j) PROVE Of(rows[x]) = <<s + 1, j>>
  BY <1>6 DEF HasResponse, Of
<1>7. \A s \in 0..(P - 1) : s + 1 \in 1..P
  BY <1>1
<1>8. Known(rows, N) /\ \A x \in 1..N : \E p \in 1..P, j \in 1..n : HasResponse(rows[x], p, j)
  <2>1. ASSUME NEW x \in 1..N
        PROVE  Of(rows[x]) \in Trajectory /\ \E p \in 1..P, j \in 1..n : HasResponse(rows[x], p, j)
    <3>1. PICK s \in 0..(P - 1), j \in 1..n : Has1(x, s, j)
      BY <1>5
    <3> HIDE DEF P, n
    <3>2. HasResponse(rows[x], s + 1, j) /\ Of(rows[x]) = <<s + 1, j>> /\ s + 1 \in 1..P
      BY <1>6, <1>7, <3>1
    <3> QED
      BY <1>2, <3>2
  <2> QED
    BY <1>3, <2>1 DEF Known
<1>9. ASSUME NEW x \in 1..N, NEW y \in 1..N, Of(rows[x]) = Of(rows[y]) PROVE x = y
  <2>1. PICK s \in 0..(P - 1), j \in 1..n : Has1(x, s, j)
    BY <1>5
  <2>2. PICK t \in 0..(P - 1), i \in 1..n : Has1(y, t, i)
    BY <1>5
  <2>3. <<s + 1, j>> = <<t + 1, i>>
    BY <1>6, <1>9, <2>1, <2>2
  <2>4. s = t /\ i = j
    BY <1>1, <2>3
  <2> QED
    BY <2>1, <2>2, <2>4
<1>10. ASSUME NEW t \in Trajectory PROVE \E x \in 1..N : Of(rows[x]) = t
  <2>1. PICK p \in 1..P, j \in 1..n : t = <<p, j>>
    BY <1>2
  <2>2. p - 1 \in 0..(P - 1) /\ (p - 1) + 1 = p
    BY <1>1
  <2> DEFINE x == ((p - 1) * n) + j
  <2>3. x \in 1..N
    <3>1. P \in Nat
      BY <1>1
    <3> HIDE DEF P, n
    <3>2. x \in 1..(P * n)
      BY <1>1, <2>2, <3>1, Grid
    <3> QED
      BY <1>1, <3>2 DEF P, n
  <2>4. HasResponse(rows[x], p, j)
    BY <1>3, <2>2
  <2>5. Of(rows[x]) = t
    BY <2>1, <2>4 DEF HasResponse, Of
  <2> QED
    BY <2>3, <2>5
<1> QED
  BY <1>1, <1>4, <1>8, <1>9, <1>10 DEF rows, N

LEMMA EndGenerateBatch == ASSUME BatchInv, DeviceInv, EndGenerate PROVE BatchInv'
<1> DEFINE rows == Joined(Collected)
           order == Order(rows)
           N == NumTrajectories
<1>1. /\ phase = "generate" /\ Returned /\ Free /\ version' = version
      /\ rank' = [r \in Rank |-> Idle] /\ setup \in Setups /\ DriverInv
  BY DEF EndGenerate, Free, device, DeviceInv, PlaceInv, BatchInv
<1>2. \/ Fail
      \/ /\ Len(Collected) = Len(batch) * setup.n
         /\ batch' = [i \in DOMAIN rows |-> rows[order[i]]]
         /\ reward' = [done |-> FALSE, rows |-> batch']
         /\ phase' = "log_prob"
         /\ UNCHANGED <<setup, iter, length, cut, tested>>
  BY ZenonT(40) DEF EndGenerate
<1>3. CASE Fail
  BY <1>1, <1>3, FailKeeps
<1>4. CASE ~Fail
  <2> HIDE DEF rows, order
  <2>1. /\ Len(Collected) = Len(batch) * setup.n
        /\ batch' = [i \in DOMAIN rows |-> rows[order[i]]]
        /\ reward' = [done |-> FALSE, rows |-> batch']
        /\ phase' = "log_prob" /\ setup' = setup /\ length' = length /\ tested' = tested
    BY <1>2, <1>4
  <2>2. /\ DOMAIN rows = 1..N /\ N \in Nat /\ Known(rows, N)
        /\ \A x \in 1..N : \E p \in 1..setup.prompts, j \in 1..setup.n :
              HasResponse(rows[x], p, j)
        /\ \A x, y \in 1..N : Of(rows[x]) = Of(rows[y]) => x = y
        /\ \A t \in Trajectory : \E x \in 1..N : Of(rows[x]) = t
    BY <1>1, <2>1, OrderedRows DEF rows
  <2>3. length \in [Trajectory -> setup.lengths]
    <3>1. 1 \in Rank /\ rank[1].at # "idle"
      BY <1>1, SomeRank DEF Returned
    <3> QED
      BY <1>1, <3>1 DEF BatchInv, CallInv
  <2>4. /\ \A i \in 1..N : order[i] \in 1..N
        /\ \A i, j \in 1..N : order[i] = order[j] => i = j
        /\ \A x \in 1..N : \E i \in 1..N : order[i] = x
    <3>1. Dealt(<<>>, order, N)
      BY <1>1, <2>2, <2>3, OrderDeals DEF order
    <3> HIDE DEF N
    <3>2. Len(order) = N
      BY <2>2, <3>1, DealtEnds
    <3>3. order \in Seq(1..N) /\ DOMAIN order = 1..N
      BY <2>2, <3>1, <3>2 DEF Dealt
    <3>4. \A x \in 1..N : In(order, x)
      <4>1. DOMAIN <<>> = {}
        OBVIOUS
      <4> QED
        BY <3>1, <4>1 DEF Dealt
    <3>5. \A i \in 1..N : order[i] \in 1..N
      <4> DEFINE X == 1..N
      <4>1. order \in Seq(X) /\ Len(order) = N
        BY <3>2, <3>3
      <4> HIDE DEF X
      <4>2. \A i \in 1..N : order[i] \in X
        BY <4>1
      <4> QED
        BY <3>3, <4>2 DEF X
    <3> QED
      BY <3>1, <3>3, <3>4, <3>5 DEF Dealt, In
  <2> HIDE DEF N
  <2>5. /\ Long(batch', N)
        /\ \A i \in 1..N : batch'[i] = rows[order[i]]
    BY <2>1, <2>2 DEF Long
  <2>6. /\ Rank' = Rank /\ Trajectory' = Trajectory /\ NumTrajectories' = N
        /\ ActorVersions' = ActorVersions
    BY <1>1, <2>1 DEF Rank, Trajectory, NumTrajectories, ActorVersions, N
  <2>7. ASSUME NEW i \in 1..N
        PROVE  \E p \in 1..setup.prompts, j \in 1..setup.n : HasResponse(batch'[i], p, j)
    BY <2>2, <2>4, <2>5
  <2>8. ASSUME NEW i \in 1..N
        PROVE  /\ DOMAIN batch'[i] = DOMAIN Row(1)
               /\ Of(batch'[i]) \in Trajectory /\ batch'[i].uid = batch'[i].resp[1]
               /\ batch'[i].resp = <<batch'[i].resp[1], batch'[i].resp[2], batch'[i].resp[3]>>
               /\ batch'[i].resp[3] = ActorVersions
               /\ batch'[i].logp = None /\ batch'[i].value = None /\ batch'[i].score = None
    <3>1. PICK p \in 1..setup.prompts, j \in 1..setup.n : HasResponse(batch'[i], p, j)
      BY <2>7
    <3> DEFINE row == batch'[i]
    <3>2. row.uid = p /\ row.resp = <<p, j, ActorVersions>>
      BY <3>1 DEF HasResponse
    <3> HIDE DEF row
    <3>3. row.resp[1] = p /\ row.resp[2] = j /\ row.resp[3] = ActorVersions
      BY <3>2
    <3>4. Of(row) \in Trajectory
      BY <3>3 DEF Of, Trajectory
    <3> QED
      BY <3>1, <3>2, <3>3, <3>4 DEF HasResponse, row
  <2>9. AnsweredInv'
    <3>1. ASSUME NEW i \in 1..N, NEW j \in 1..N, Of(batch'[i]) = Of(batch'[j]) PROVE i = j
      <4> DEFINE x == order[i]
                 y == order[j]
      <4>1. x \in 1..N /\ y \in 1..N
        BY <2>4
      <4>2. batch'[i] = rows[x] /\ batch'[j] = rows[y]
        BY <2>5
      <4>3. Of(rows[x]) = Of(rows[y])
        BY <3>1, <4>2
      <4> HIDE DEF x, y
      <4>4. x = y
        BY <2>2, <4>1, <4>3
      <4> QED
        BY <2>4, <4>4 DEF x, y
    <3>2. ASSUME NEW t \in Trajectory PROVE \E i \in 1..N : Of(batch'[i]) = t
      <4>1. PICK x \in 1..N : Of(rows[x]) = t
        BY <2>2
      <4>2. PICK i \in 1..N : order[i] = x
        BY <2>4
      <4> QED
        BY <2>5, <4>1, <4>2
    <3>3. DOMAIN Row(1)' = DOMAIN Row(1)
      OBVIOUS
    <3>4. \A row : Of(row)' = Of(row)
      BY DEF Of
    <3> QED
      BY <2>5, <2>6, <2>8, <3>1, <3>2 DEF AnsweredInv, Of
  <2>10. \A i \in 1..N : RowInv(batch[i])'
    BY <2>1, <2>6, <2>8 DEF RowInv
  <2>11. RewardInv'
    <3>1. DOMAIN reward' = {"done", "rows"} /\ reward'.rows = batch'
      BY <2>1
    <3> QED
      BY <3>1 DEF RewardInv
  <2>12. TestedRight'
    BY <1>1, <2>1 DEF DriverInv, TestedRight
  <2>13. DriverInv'
    <3>1. phase' \in Phases /\ setup'.lengths = setup.lengths
      BY <2>1 DEF Phases
    <3>2. length' \in [Trajectory' -> setup'.lengths]
      BY <2>1, <2>3, <2>6
    <3> QED
      BY <1>1, <2>1, <2>6, <2>9, <2>10, <2>11, <2>12, <3>1, <3>2 DEF DriverInv
  <2>14. CallInv' /\ \A r \in Rank' : RankInv(r)'
    BY <1>1, <2>1, RanksRest
  <2> QED
    BY <2>13, <2>14 DEF BatchInv
<1> QED
  BY <1>3, <1>4

\* The weights have one version.
LEMMA OneVersion == ASSUME DriverInv, DeviceInv PROVE Cardinality(ActorVersions) = 1
<1>1. 1 \in Rank /\ "actor" \in Model
  BY SomeRank DEF Model
<1>2. \A q \in Rank : version["actor"][q] = version["actor"][1]
  BY <1>1 DEF DriverInv
<1>3. ActorVersions = {version["actor"][1]}
  BY <1>1, <1>2 DEF ActorVersions
<1> QED
  BY <1>3, FS_Singleton

\* The rows get something more.
LEMMA ResponsesStay ==
    ASSUME AnsweredInv, setup \in Setups, setup' = setup, Long(batch', NumTrajectories),
           \A i \in 1..NumTrajectories :
              \A f \in {"uid", "resp"} : batch'[i][f] = batch[i][f],
           \A i \in 1..NumTrajectories : DOMAIN batch'[i] = DOMAIN batch[i]
    PROVE  AnsweredInv' /\ NumTrajectories' = NumTrajectories
<1> DEFINE N == NumTrajectories
<1>1. N' = N /\ Trajectory' = Trajectory
  BY DEF NumTrajectories, Trajectory
<1>2. \A i \in 1..N : batch'[i].uid = batch[i].uid /\ batch'[i].resp = batch[i].resp
  OBVIOUS
<1>3. \A i \in 1..N : Of(batch'[i]) = Of(batch[i])
  BY <1>2 DEF Of
<1> HIDE DEF N
<1>4. /\ Long(batch', N)
      /\ \A i \in 1..N :
            /\ DOMAIN batch'[i] = DOMAIN Row(1)
            /\ Of(batch'[i]) \in Trajectory /\ batch'[i].uid = batch'[i].resp[1]
            /\ batch'[i].resp = <<batch'[i].resp[1], batch'[i].resp[2], batch'[i].resp[3]>>
      /\ \A i, j \in 1..N : Of(batch'[i]) = Of(batch'[j]) => i = j
      /\ \A t \in Trajectory : \E i \in 1..N : Of(batch'[i]) = t
  BY <1>2, <1>3 DEF AnsweredInv, N
<1> QED
  BY <1>1, <1>4 DEF AnsweredInv, Of, N

\* Fields of a row that is given one more.
LEMMA GivenIs ==
    ASSUME NEW row, DOMAIN row = DOMAIN Row(1), NEW g \in {"logp", "value", "score"}, NEW v
    PROVE  /\ DOMAIN [row EXCEPT ![g] = v] = DOMAIN row
           /\ [row EXCEPT ![g] = v][g] = v
           /\ \A f \in {"uid", "resp", "logp", "value", "score"} \ {g} :
                 [row EXCEPT ![g] = v][f] = row[f]
<1>1. DOMAIN row = {"uid", "resp", "logp", "value", "score"}
  BY DEF Row
<1> QED
  BY <1>1

LEMMA EndInferBatch == ASSUME BatchInv, DeviceInv, EndInfer PROVE BatchInv'
<1> DEFINE N == NumTrajectories
<1>1. /\ phase \in {"log_prob", "values"} /\ Returned /\ version' = version
      /\ rank' = [r \in Rank |-> Idle] /\ setup \in Setups /\ DriverInv
      /\ Answered /\ ~Updates /\ ~Generates
  BY DEF EndInfer, Free, device, DeviceInv, PlaceInv, BatchInv, Answered, Phases, Updates,
     Generates
<1>2. CASE Fail
  BY <1>1, <1>2, FailKeeps
<1>3. CASE ~Fail
  <2> DEFINE g == IF phase = "log_prob" THEN "logp" ELSE "value"
  <2>1. /\ phase' = (IF phase = "log_prob" THEN "values" ELSE "advantage")
        /\ batch' = [i \in DOMAIN batch |-> [batch[i] EXCEPT ![g] = Collected[i]]]
        /\ setup' = setup /\ length' = length /\ tested' = tested /\ reward' = reward
    <3>1. \/ Fail
          \/ /\ \/ /\ phase = "log_prob" /\ phase' = "values"
                   /\ batch' = [i \in DOMAIN batch |-> [batch[i] EXCEPT !.logp = Collected[i]]]
                \/ /\ phase = "values" /\ phase' = "advantage"
                   /\ batch' = [i \in DOMAIN batch |-> [batch[i] EXCEPT !.value = Collected[i]]]
             /\ UNCHANGED <<setup, iter, length, cut, tested, reward>>
      BY Zenon DEF EndInfer
    <3>2. /\ \/ /\ phase = "log_prob" /\ phase' = "values"
                /\ batch' = [i \in DOMAIN batch |-> [batch[i] EXCEPT !.logp = Collected[i]]]
             \/ /\ phase = "values" /\ phase' = "advantage"
                /\ batch' = [i \in DOMAIN batch |-> [batch[i] EXCEPT !.value = Collected[i]]]
          /\ UNCHANGED <<setup, iter, length, cut, tested, reward>>
      BY <1>3, <3>1
    <3> QED
      BY <3>2
  <2>2. /\ AnsweredInv /\ length \in [Trajectory -> setup.lengths]
        /\ \A i \in 1..N : RowInv(batch[i])
    BY <1>1 DEF DriverInv
  <2>3. Sent = batch /\ Len(batch) = N /\ N \in Nat /\ DOMAIN batch = 1..N /\ Long(batch, N)
    <3>1. Sent = batch /\ Len(batch) = N /\ N \in Nat /\ Long(batch, N)
      BY <1>1, <2>2, SentIsBatch
    <3> QED
      BY <3>1, LongIs
  <2>4. \A i \in 1..N : Collected[i] = Result(batch[i])
    <3>1. PICK T, n \in Nat :
              /\ T = (IF Generates THEN Len(Sent) * PerPrompt ELSE Len(Sent))
              /\ n = T - (Len(Sent) - Len(batch))
              /\ FirstOf(T, n)
      BY <1>1, CollectedIs
    <3>2. T = N /\ n = N
      BY <1>1, <2>3, <3>1
    <3>3. \A i \in 1..N : Collected[i] = Reply[i]
      BY <3>1, <3>2 DEF FirstOf
    <3>4. \A i \in 1..N : Reply[i] = Result(batch[i])
      BY <1>1, <2>3 DEF Reply
    <3> QED
      BY <3>3, <3>4
  <2>5. g \in {"logp", "value", "score"}
    OBVIOUS
  <2> HIDE DEF g
  <2>6. ASSUME NEW i \in 1..N
        PROVE  /\ DOMAIN batch'[i] = DOMAIN batch[i]
               /\ batch'[i][g] = Collected[i]
               /\ \A f \in {"uid", "resp", "logp", "value", "score"} \ {g} :
                     batch'[i][f] = batch[i][f]
    <3>1. batch'[i] = [batch[i] EXCEPT ![g] = Collected[i]]
      BY <2>1, <2>3
    <3>2. DOMAIN batch[i] = DOMAIN Row(1)
      BY <2>2 DEF AnsweredInv
    <3> QED
      BY <2>5, <3>1, <3>2, GivenIs
  <2>7. AnsweredInv' /\ NumTrajectories' = N
    <3>1. Long(batch', N)
      <4> DEFINE h(i) == [batch[i] EXCEPT ![g] = Collected[i]]
      <4>1. batch' = [i \in 1..N |-> h(i)]
        BY <2>1, <2>3
      <4> HIDE DEF h
      <4> QED
        BY <4>1 DEF Long
    <3>2. \A i \in 1..N : \A f \in {"uid", "resp"} : batch'[i][f] = batch[i][f]
      BY <2>6 DEF g
    <3> QED
      BY <1>1, <2>1, <2>2, <2>6, <3>1, <3>2, ResponsesStay
  <2>8. ASSUME NEW i \in 1..N PROVE RowInv(batch[i])'
    <3> DEFINE old == batch[i]
               row == batch'[i]
    <3>1. RowInv(old)
      BY <2>2
    <3>2. row.resp = old.resp /\ old.resp = <<old.resp[1], old.resp[2], old.resp[3]>>
      BY <2>2, <2>6 DEF AnsweredInv, g
    <3>3. Collected[i] = Result(old)
      BY <2>4
    <3>4. CASE phase = "log_prob"
      <4>1. row.logp = Result(old) /\ row.value = None /\ row.score = None
            /\ old.resp[3] = ActorVersions /\ phase' = "values"
        BY <2>1, <2>6, <3>1, <3>3, <3>4 DEF RowInv, g
      <4>2. Result(old) = <<old.resp[1], old.resp[2], ActorVersions>>
        BY <3>4 DEF Result, ActorVersions, Used
      <4>3. row.logp = row.resp /\ Cardinality(row.resp[3]) = 1
        BY <1>1, <3>2, <4>1, <4>2, OneVersion
      <4> QED
        BY <4>1, <4>3 DEF RowInv
    <3>5. CASE phase = "values"
      <4>1. row.value = Result(old) /\ row.logp = old.logp /\ row.score = None
            /\ old.logp = old.resp /\ Cardinality(old.resp[3]) = 1 /\ phase' = "advantage"
        BY <2>1, <2>6, <3>1, <3>3, <3>5 DEF RowInv, g
      <4>2. SubSeq(Result(old), 1, 2) = <<old.resp[1], old.resp[2]>>
        BY Pair DEF Result
      <4>3. SubSeq(old.resp, 1, 2) = <<old.resp[1], old.resp[2]>>
        BY <3>2, Pair
      <4> QED
        BY <3>2, <4>1, <4>2, <4>3 DEF RowInv
    <3> QED
      BY <1>1, <3>4, <3>5
  <2>9. RewardInv'
    <3>1. \A i \in 1..N : batch'[i].resp = batch[i].resp
      BY <2>6 DEF g
    <3>2. /\ DOMAIN reward = {"done", "rows"}
          /\ \A i \in 1..N : reward.rows[i].resp = batch[i].resp
      BY <1>1 DEF DriverInv, RewardInv
    <3> QED
      BY <2>1, <2>7, <3>1, <3>2 DEF RewardInv
  <2>10. TestedRight' /\ Rank' = Rank /\ Trajectory' = Trajectory
    BY <1>1, <2>1 DEF DriverInv, TestedRight, Rank, Trajectory
  <2>11. DriverInv'
    <3>1. phase' \in {"values", "advantage"} /\ phase' \in Phases
      BY <2>1 DEF Phases
    <3>2. length' \in [Trajectory' -> setup'.lengths]
      BY <2>1, <2>2, <2>10
    <3>3. \A i \in 1..NumTrajectories' : RowInv(batch[i])'
      BY <2>7, <2>8
    <3> QED
      BY <1>1, <2>1, <2>7, <2>9, <2>10, <3>1, <3>2, <3>3 DEF DriverInv
  <2>12. CallInv' /\ \A r \in Rank' : RankInv(r)'
    BY <1>1, <2>1, RanksRest
  <2> QED
    BY <2>11, <2>12 DEF BatchInv
<1> QED
  BY <1>2, <1>3

LEMMA ScoreBatch == ASSUME BatchInv, DeviceInv, Score PROVE BatchInv'
<1>1. /\ UNCHANGED <<setup, phase, batch>> /\ length' = length /\ tested' = tested
      /\ cut' = cut /\ rank' = rank /\ version' = version /\ engine' = engine
      /\ DriverInv /\ CallInv
      /\ reward' = [reward EXCEPT !.done = TRUE]
  BY DEF Score, device, BatchInv
<1>2. AnsweredInv' = AnsweredInv
  BY <1>1, FrameOf DEF AnsweredInv, Of
<1>3. ActorVersions' = ActorVersions /\ \A row : RowInv(row)' = RowInv(row)
  <2>1. ActorVersions' = ActorVersions
    BY <1>1, FrameOf DEF ActorVersions
  <2> QED
    BY <1>1, <2>1, FrameOf DEF RowInv
<1>4. RowsRight' = RowsRight /\ TestedRight' = TestedRight
  BY <1>1 DEF RowsRight, TestedRight
<1>5. RewardInv'
  <2> SUFFICES ASSUME phase' \in {"log_prob", "values", "advantage"}
               PROVE  /\ DOMAIN reward' = {"done", "rows"}
                      /\ \A i \in 1..NumTrajectories : reward'.rows[i].resp = batch[i].resp
    BY <1>1, FrameOf DEF RewardInv
  <2>1. /\ DOMAIN reward = {"done", "rows"}
        /\ \A i \in 1..NumTrajectories : reward.rows[i].resp = batch[i].resp
    BY <1>1, FrameOf DEF DriverInv, RewardInv
  <2>2. DOMAIN reward' = {"done", "rows"} /\ reward'.rows = reward.rows
    BY <1>1, <2>1
  <2> QED
    BY <2>1, <2>2
<1>6. DriverInv'
  BY <1>1, <1>2, <1>3, <1>4, <1>5, FrameOf DEF DriverInv
<1>7. CallInv'
  BY <1>1, FrameOf DEF CallInv
<1>8. ASSUME NEW r \in Rank PROVE RankInv(r)'
  <2>1. RowsInv(r) /\ AnswerInv(r) /\ ModelInv(r)
    BY DEF BatchInv, RankInv
  <2>2. RowsInv(r)'
    BY <1>1, <2>1, FrameOf DEF RowsInv
  <2>3. \A row : Result(row)' = Result(row)
    BY <1>1, FrameOf DEF Result
  <2>4. Reply' = Reply
    BY <1>1, <1>3, <2>3, FrameOf DEF Reply
  <2>5. AnswerInv(r)'
    BY <1>1, <1>3, <2>1, <2>4, FrameOf DEF AnswerInv
  <2>6. ModelInv(r)'
    BY <1>1, <2>1, <2>3, FrameOf DEF ModelInv
  <2> QED
    BY <2>2, <2>5, <2>6 DEF RankInv
<1> QED
  BY <1>1, <1>6, <1>7, <1>8, FrameOf DEF BatchInv

LEMMA AdvantageBatch == ASSUME BatchInv, DeviceInv, Advantage PROVE BatchInv'
<1> DEFINE N == NumTrajectories
           h(i) == [batch[i] EXCEPT !["score"] = reward.rows[i].resp]
<1>1. /\ phase = "advantage" /\ phase' = "update_critic" /\ version' = version
      /\ setup \in Setups /\ setup' = setup /\ length' = length /\ tested' = tested
      /\ rank' = rank /\ DriverInv
      /\ batch' = [i \in DOMAIN batch |-> h(i)]
      /\ \A r \in Rank : rank[r] = Idle
  <2>1. \A r \in Rank : rank[r] = Idle
    BY DEF Advantage, DeviceInv, PlaceInv
  <2>2. batch' = [i \in DOMAIN batch |-> h(i)]
    BY DEF Advantage
  <2> HIDE DEF h
  <2> QED
    BY <2>1, <2>2 DEF Advantage, device, DeviceInv, PlaceInv, BatchInv
<1>2. /\ AnsweredInv /\ length \in [Trajectory -> setup.lengths]
      /\ \A i \in 1..N : RowInv(batch[i])
      /\ \A i \in 1..N : reward.rows[i].resp = batch[i].resp
  BY <1>1 DEF DriverInv, RewardInv, Answered, Phases
<1>3. DOMAIN batch = 1..N
  <2>1. N \in Nat /\ Long(batch, N)
    BY <1>1, <1>2, SentIsBatch
  <2> QED
    BY <2>1, LongIs
<1>4. ASSUME NEW i \in 1..N
      PROVE  /\ DOMAIN batch'[i] = DOMAIN batch[i]
             /\ batch'[i].score = batch[i].resp
             /\ batch'[i].uid = batch[i].uid /\ batch'[i].resp = batch[i].resp
             /\ batch'[i].logp = batch[i].logp /\ batch'[i].value = batch[i].value
  <2>1. batch'[i] = [batch[i] EXCEPT !["score"] = reward.rows[i].resp]
    BY <1>1, <1>3
  <2>2. DOMAIN batch[i] = DOMAIN Row(1)
    BY <1>2 DEF AnsweredInv
  <2> QED
    BY <1>2, <2>1, <2>2, GivenIs
<1>5. AnsweredInv' /\ NumTrajectories' = N
  <2>1. Long(batch', N)
    <3> HIDE DEF h
    <3> QED
      BY <1>1, <1>3 DEF Long
  <2>2. \A i \in 1..N : \A f \in {"uid", "resp"} : batch'[i][f] = batch[i][f]
    BY <1>4
  <2> QED
    BY <1>1, <1>2, <1>4, <2>1, <2>2, ResponsesStay
<1> HIDE DEF h
<1>6. ASSUME NEW i \in 1..N PROVE RowInv(batch[i])'
  <2>1. /\ batch[i].logp = batch[i].resp /\ Cardinality(batch[i].resp[3]) = 1
        /\ SubSeq(batch[i].value, 1, 2) = SubSeq(batch[i].resp, 1, 2)
    BY <1>1, <1>2 DEF RowInv
  <2> QED
    BY <1>1, <1>4, <2>1 DEF RowInv
<1>7. RewardInv' /\ TestedRight' /\ Rank' = Rank /\ Trajectory' = Trajectory
  <2>1. RewardInv' /\ Rank' = Rank /\ Trajectory' = Trajectory
    BY <1>1 DEF RewardInv, Rank, Trajectory
  <2>2. TestedRight'
    BY <1>1 DEF DriverInv, TestedRight
  <2> QED
    BY <2>1, <2>2
<1>8. DriverInv'
  <2>1. phase' \in Phases /\ length' \in [Trajectory' -> setup'.lengths]
    BY <1>1, <1>2, <1>7 DEF Phases
  <2>2. \A i \in 1..NumTrajectories' : RowInv(batch[i])'
    BY <1>5, <1>6
  <2> QED
    BY <1>1, <1>5, <1>7, <2>1, <2>2 DEF DriverInv
<1>9. CallInv' /\ \A r \in Rank' : RankInv(r)'
  <2>1. rank' = [r \in Rank |-> Idle]
    BY <1>1 DEF DeviceInv, PlaceInv
  <2> QED
    BY <1>1, <2>1, RanksRest
<1> QED
  BY <1>8, <1>9 DEF BatchInv

LEMMA EndUpdateCriticBatch == ASSUME BatchInv, DeviceInv, EndUpdateCritic PROVE BatchInv'
<1>1. /\ phase = "update_critic" /\ phase' = "update_actor" /\ version' = version
      /\ setup' = setup /\ length' = length /\ tested' = tested /\ batch' = batch
      /\ rank' = [r \in Rank |-> Idle] /\ DriverInv
  BY DEF EndUpdateCritic, Free, device, BatchInv
<1>2. Rank' = Rank /\ Trajectory' = Trajectory /\ NumTrajectories' = NumTrajectories
  BY <1>1 DEF Rank, Trajectory, NumTrajectories
<1>3. /\ AnsweredInv /\ length \in [Trajectory -> setup.lengths]
      /\ \A i \in 1..NumTrajectories : RowInv(batch[i])
  BY <1>1 DEF DriverInv, Answered, Phases
<1>4. AnsweredInv'
  BY <1>1, <1>2, <1>3 DEF AnsweredInv, Of
<1>5. ASSUME NEW i \in 1..NumTrajectories PROVE RowInv(batch[i])'
  <2>1. RowInv(batch[i])
    BY <1>3
  <2> QED
    BY <1>1, <2>1 DEF RowInv
<1>6. RewardInv'
  BY <1>1 DEF RewardInv
<1>7. TestedRight'
  BY <1>1 DEF DriverInv, TestedRight
<1>8. DriverInv'
  <2>1. phase' \in Phases /\ length' \in [Trajectory' -> setup'.lengths]
    BY <1>1, <1>2, <1>3 DEF Phases
  <2>2. \A i \in 1..NumTrajectories' : RowInv(batch[i])'
    BY <1>2, <1>5
  <2> QED
    BY <1>1, <1>2, <1>4, <1>6, <1>7, <2>1, <2>2 DEF DriverInv
<1>9. CallInv' /\ \A r \in Rank' : RankInv(r)'
  BY <1>1, RanksRest
<1> QED
  BY <1>8, <1>9 DEF BatchInv

LEMMA EndUpdateActorBatch == ASSUME BatchInv, DeviceInv, EndUpdateActor PROVE BatchInv'
<1>1. /\ phase = "update_actor" /\ version' = version
      /\ setup' = setup /\ length' = length /\ tested' = tested
      /\ \/ phase' = "done" /\ batch' = batch
         \/ phase' = "generate" /\ batch' = Rows(setup.prompts)
      /\ rank' = [r \in Rank |-> Idle] /\ DriverInv
  BY DEF EndUpdateActor, BatchInv
<1>2. Rank' = Rank /\ Trajectory' = Trajectory /\ NumTrajectories' = NumTrajectories
  BY <1>1 DEF Rank, Trajectory, NumTrajectories
<1>3. CallInv' /\ \A r \in Rank' : RankInv(r)'
  BY <1>1, RanksRest
<1>4. RewardInv'
  BY <1>1 DEF RewardInv
<1>5. TestedRight'
  BY <1>1 DEF DriverInv, TestedRight
<1>6. CASE phase' = "generate"
  <2>1. ~Answered' /\ phase' \in Phases
    BY <1>6 DEF Answered, Phases
  <2>2. batch' = Rows(setup'.prompts)
    BY <1>1, <1>6
  <2>3. Rows(setup.prompts)' = Rows(setup'.prompts)
    BY <1>1 DEF Rows, Row
  <2>4. DriverInv'
    BY <1>1, <1>2, <1>4, <1>5, <1>6, <2>1, <2>2 DEF DriverInv
  <2> QED
    BY <1>3, <2>4 DEF BatchInv
<1>7. CASE phase' = "done" /\ batch' = batch
  <2>1. /\ AnsweredInv /\ length \in [Trajectory -> setup.lengths]
        /\ \A i \in 1..NumTrajectories : RowInv(batch[i])
    BY <1>1 DEF DriverInv, Answered, Phases
  <2>2. AnsweredInv'
    BY <1>1, <1>2, <1>7, <2>1 DEF AnsweredInv, Of
  <2>3. ASSUME NEW i \in 1..NumTrajectories PROVE RowInv(batch[i])'
    <3>1. RowInv(batch[i])
      BY <2>1
    <3> QED
      BY <1>1, <1>7, <3>1 DEF RowInv
  <2>4. DriverInv'
    <3>1. phase' \in Phases /\ length' \in [Trajectory' -> setup'.lengths]
      BY <1>1, <1>2, <1>7, <2>1 DEF Phases
    <3>2. \A i \in 1..NumTrajectories' : RowInv(batch[i])'
      BY <1>2, <2>3
    <3> QED
      BY <1>1, <1>2, <1>4, <1>5, <1>7, <2>2, <3>1, <3>2 DEF DriverInv
  <2> QED
    BY <1>3, <2>4 DEF BatchInv
<1> QED
  BY <1>1, <1>6, <1>7

LEMMA StutterBatch == ASSUME BatchInv, UNCHANGED vars PROVE BatchInv'
<1>1. /\ setup' = setup /\ phase' = phase /\ length' = length /\ batch' = batch
      /\ cut' = cut /\ tested' = tested /\ reward' = reward /\ rank' = rank
      /\ version' = version /\ engine' = engine
  BY DEF vars
<1>2. UNCHANGED driver /\ UNCHANGED version
  BY DEF vars, driver
<1>3. DriverInv' /\ CallInv'
  <2>1. DriverInv'
    BY <1>2, DriverStays DEF BatchInv
  <2>2. CallInv'
    BY <1>1, <1>2, Frame DEF BatchInv, CallInv
  <2> QED
    BY <2>1, <2>2
<1>4. ASSUME NEW r \in Rank PROVE RankInv(r)'
  <2>1. RowsInv(r) /\ AnswerInv(r) /\ ModelInv(r)
    BY DEF BatchInv, RankInv
  <2>2. RowsInv(r)'
    BY <1>1, <1>2, <2>1, Frame DEF RowsInv
  <2>3. AnswerInv(r)'
    BY <1>1, <1>2, <2>1, Frame, FrameVersion DEF AnswerInv
  <2>4. ModelInv(r)'
    BY <1>1, <1>2, <2>1, Frame, FrameVersion DEF ModelInv
  <2> QED
    BY <2>2, <2>3, <2>4 DEF RankInv
<1> QED
  BY <1>2, <1>3, <1>4, Frame DEF BatchInv

LEMMA NextKeepsBatch == ASSUME BatchInv, DeviceInv, [Next]_vars PROVE BatchInv'
<1>1. CASE Drive
  BY <1>1, CallBatch, EndValidateBatch, EndGenerateBatch, EndInferBatch, AdvantageBatch,
     EndUpdateCriticBatch, EndUpdateActorBatch DEF Drive
<1>2. CASE Meet
  BY <1>2, SyncBatch, PlanDynamicBatch, ForwardBatch, StepBatch DEF Meet
<1>3. CASE Score
  BY <1>3, ScoreBatch
<1>4. ASSUME NEW r \in Rank, Run(r) PROVE BatchInv'
  BY <1>4, LoadBatch, GatherBatch, GenerateBatch, PlanFixedBatch, GiveBackBatch DEF Run
<1>5. CASE Over \/ UNCHANGED vars
  BY <1>5, StutterBatch DEF Over
<1> QED
  BY <1>1, <1>2, <1>3, <1>4, <1>5 DEF Next

\* Whatever the order the rows were in at the ranks, every result comes back to
\* the row it is of: the property of the runs, for any number of ranks, groups,
\* prompts, responses, and any sizes of mini and micro batches.
THEOREM ResultsStayWithRows == Spec => []ResultsBelongToRows
<1>1. Init => DeviceInv /\ BatchInv
  BY InitDeviceInv, InitBatch
<1>2. DeviceInv /\ BatchInv /\ [Next]_vars => DeviceInv' /\ BatchInv'
  BY NextKeepsDevice, NextKeepsBatch
<1>3. DeviceInv /\ BatchInv => ResultsBelongToRows
  <2> SUFFICES ASSUME DeviceInv, BatchInv PROVE ResultsBelongToRows
    OBVIOUS
  <2>1. RowsRight /\ TestedRight
    BY RowsAreRight DEF DeviceInv, PlaceInv, BatchInv, DriverInv
  <2> QED
    BY <2>1 DEF RowsRight, TestedRight, ResultsBelongToRows
<1> QED
  BY <1>1, <1>2, <1>3, PTL DEF Spec

-----------------------------------------------------------------------------
(* What is known of the work of the ranks.                                 *)

\* The rows of a group, and the mini batches of its ranks in one epoch and in
\* all of them.
GroupLen == GroupSize * Size
Minis == NumPieces(GroupLen, MiniBatch)
AllMinis == setup.epochs * Minis
Mini(r, b) == Split(rank[r].rows, MiniBatch)[b]

\* Mini batches r has behind it, and what it is at: a mini batch of an epoch.
Behind(r) == AllMinis - Len(rank[r].todo)
Epoch(r) == Behind(r) \div Minis
Turn(r) == Behind(r) % Minis

\* The number of the i-th mini batch ahead, within its epoch.
Due(r, i) == ((Behind(r) + i - 1) % Minis) + 1

AtWork == {"plan", "forward", "step"}

\* What is still to do is the rest of the mini batches, epoch after epoch.
TodoInv(r) ==
    Updates /\ rank[r].at \in AtWork =>
        /\ Len(rank[r].todo) \in 1..AllMinis
        /\ Long(rank[r].todo, Len(rank[r].todo))
        /\ \A i \in 1..Len(rank[r].todo) :
              rank[r].todo[i] = Mini(r, Due(r, i))

\* All ranks are at the same mini batch, those that are late at the first.
SameInv ==
    Updates => \A q, r \in Rank : rank[r].at \in AtWork =>
        /\ rank[q].at \in AtWork => Len(rank[q].todo) = Len(rank[r].todo)
        /\ rank[q].at \in {"start", "gather"} => Len(rank[r].todo) = AllMinis

\* The micro batches ahead.
PlanInv(r) ==
    /\ rank[r].at # "forward" => rank[r].plan = <<>>
    /\ rank[r].at = "forward" =>
          /\ rank[r].plan # <<>>
          /\ \E order : Dealt(rank[r].plan, order, Len(Now(r)))
    /\ setup.dynamic => \A i \in DOMAIN rank[r].plan :
          /\ rank[r].plan[i] # <<>>
          /\ Total(Lengths(Now(r)), rank[r].plan[i]) <= Budget + Longest

\* The number of rows r runs its model on.
NowLen(r) == IF Updates THEN PieceLen(Turn(r) + 1, GroupLen, MiniBatch) ELSE GroupLen

\* How often r has trained on the x-th row of its group.
Past(r, x) ==
    \/ rank[r].at = "step"
    \/ /\ rank[r].at = "forward"
       /\ ~ \E p \in DOMAIN rank[r].plan : In(rank[r].plan[p], ((x - 1) % MiniBatch) + 1)
Times(r, x) ==
    IF rank[r].at \in {"back", "returned"} THEN setup.epochs
    ELSE IF \/ (x - 1) \div MiniBatch < Turn(r)
            \/ (x - 1) \div MiniBatch = Turn(r) /\ Past(r, x)
    THEN Epoch(r) + 1
    ELSE Epoch(r)

\* r has trained on the rows of its group as often as that, on no other.
HasTrained(r) ==
    /\ Slice(rank[r].rows, batch, (LeaderOf(r) - 1) * Size, GroupLen)
    /\ \A x \in 1..GroupLen : trained[Used][r][Of(rank[r].rows[x])] = Times(r, x)
    /\ \A t \in Trajectory :
          (\A x \in 1..GroupLen : Of(rank[r].rows[x]) # t) => trained[Used][r][t] = 0

TrainInv(r) ==
    Updates =>
        /\ rank[r].at \in {"idle", "start", "gather"} =>
              \A t \in Trajectory : trained[Used][r][t] = 0
        /\ rank[r].at \in AtWork \cup {"back", "returned"} => HasTrained(r)

\* The counts of a model have their shape.
ShapeInv == trained = [m \in Model |-> [r \in Rank |-> [t \in Trajectory |-> trained[m][r][t]]]]

\* Nothing has been trained on before the updates, by the actor before its own.
FreshInv ==
    /\ ShapeInv
    /\ phase \notin {"update_critic", "update_actor", "failed"} =>
          \A m \in Model : \A r \in Rank : \A t \in Trajectory : trained[m][r][t] = 0
    /\ phase = "update_critic" =>
          \A r \in Rank : \A t \in Trajectory : trained["actor"][r][t] = 0

\* The pieces of the balanced batch are level.
LevelInv ==
    setup.balance /\ phase = "log_prob" =>
        \A q, r \in Rank :
            Tokens(Chunk(batch, setup.world)[q]) <=
                Tokens(Chunk(batch, setup.world)[r]) + Longest - Shortest

WorkInv == SameInv /\ (\A r \in Rank : TodoInv(r) /\ PlanInv(r))
TrainedInv == FreshInv /\ (\A r \in Rank : TrainInv(r))
UpdateInv == LevelInv /\ WorkInv /\ TrainedInv

-----------------------------------------------------------------------------
(* The pieces of a balanced batch.                                         *)

LEMMA MinIs ==
    ASSUME NEW S, S # {}, S \subseteq Nat
    PROVE  Min(S) \in S /\ \A y \in S : Min(S) <= y
<1>1. PICK n \in S : \A m \in S : ~(m < n)
  BY Least
<1>2. \A y \in S : n =< y
  BY <1>1
<1>3. Min(S) \in S /\ \A y \in S : Min(S) =< y
  BY <1>2 DEF Min
<1> QED
  BY <1>3

LEMMA LongestIs ==
    ASSUME setup \in Setups, length \in [Trajectory -> setup.lengths]
    PROVE  /\ Longest \in Nat \ {0} /\ Shortest \in Nat /\ Shortest <= Longest
           /\ \A l \in setup.lengths : l \in Nat /\ Shortest <= l /\ l <= Longest
<1> DEFINE S == setup.lengths
<1>1. MaxTokenLen \in Nat /\ \A l \in S : l \in 1..MaxTokenLen
  BY SetupAssumption
<1>2. S # {}
  <2>1. <<1, 1>> \in Trajectory
    BY PerPromptIs DEF Trajectory
  <2> QED
    BY <2>1
<1> HIDE DEF S
<1>3. IsFiniteSet(S)
  <2>1. IsFiniteSet(1..MaxTokenLen)
    BY <1>1, FS_Interval
  <2>2. S \subseteq 1..MaxTokenLen
    BY <1>1
  <2> QED
    BY <2>1, <2>2, FS_Subset
<1>4. S \subseteq Nat \ {0} /\ S \subseteq Nat
  BY <1>1
<1>5. Max(S) \in S /\ \A y \in S : y <= Max(S)
  BY <1>2, <1>3, <1>4, MaxIs
<1>6. Min(S) \in S /\ \A y \in S : Min(S) <= y
  BY <1>2, <1>4, MinIs
<1>7. Longest = Max(S) /\ Shortest = Min(S)
  BY DEF Longest, Shortest, S
<1> QED
  BY <1>4, <1>5, <1>6, <1>7 DEF S

LEMMA TokensAre ==
    ASSUME setup \in Setups, length \in [Trajectory -> setup.lengths],
           NEW n \in Nat, NEW rows, Known(rows, n)
    PROVE  /\ Tokens(rows) = SumFunction([i \in 1..n |-> length[Of(rows[i])]])
           /\ Tokens(rows) \in Nat
<1> DEFINE len == Lengths(rows)
           f == [i \in 1..n |-> length[Of(rows[i])]]
<1>1. \A i \in 1..n : len[i] = length[Of(rows[i])]
  BY LengthsAre
<1>2. DOMAIN rows = 1..n
  BY LongIs DEF Known
<1> HIDE DEF len
<1>3. Tokens(rows) = Total(len, [i \in 1..n |-> i])
  BY <1>2, Zenon DEF Tokens, len
<1>4. [i \in DOMAIN [x \in 1..n |-> x] |-> len[[x \in 1..n |-> x][i]]] = f
  BY <1>1
<1>5. Total(len, [i \in 1..n |-> i]) = SumFunction(f)
  BY <1>4, Zenon DEF Total
<1>6. len \in Seq(Nat \ {0}) /\ DOMAIN len = 1..n
  <2>1. len \in Seq(Nat \ {0}) /\ Len(len) = n
    BY LengthsAre DEF len
  <2> QED
    BY <2>1
<1>7. Total(len, [i \in 1..n |-> i]) \in Nat
  BY <1>6, TotalIs
<1> QED
  BY <1>3, <1>5, <1>7

LEMMA BalancedPieces ==
    ASSUME setup \in Setups, length \in [Trajectory -> setup.lengths], setup.balance,
           NEW rows, Known(rows, NumTrajectories),
           NEW next, next = [i \in 1..NumTrajectories |-> rows[Order(rows)[i]]],
           NEW q \in Rank, NEW r \in Rank
    PROVE  Tokens(Chunk(next, setup.world)[q]) <=
               Tokens(Chunk(next, setup.world)[r]) + Longest - Shortest
<1> DEFINE N == NumTrajectories
           w == setup.world
           len == Lengths(rows)
           P == Partitions(len, w, TRUE)
           order == Order(rows)
<1>1. w \in Nat \ {0} /\ N \in Nat \ {0} /\ N % w = 0
  <2>1. \A x, y \in Nat \ {0} : x * y \in Nat \ {0}
    OBVIOUS
  <2>2. setup.prompts \in Nat \ {0} /\ setup.n \in Nat \ {0} /\ w \in Nat \ {0}
        /\ (setup.prompts * setup.n) % w = 0
    BY SetupAssumption
  <2> QED
    BY <2>1, <2>2 DEF NumTrajectories
<1>2. /\ len \in Seq(Nat \ {0}) /\ Len(len) = N /\ DOMAIN len = 1..N
      /\ \A i \in 1..N : len[i] = length[Of(rows[i])] /\ len[i] \in setup.lengths
  BY <1>1, LengthsAre
<1>3. /\ Longest \in Nat /\ Shortest \in Nat /\ Shortest <= Longest
      /\ \A i \in DOMAIN len : Shortest <= len[i] /\ len[i] <= Longest
  BY <1>2, LongestIs
<1>4. order = Concat(P)
  BY Zenon DEF Order
<1>5. Dealt(<<>>, order, N)
  BY OrderDeals
<1>6. Len(order) = N
  BY <1>1, <1>5, DealtEnds
<1> HIDE DEF N, w, len, order
<1>7. Level(P, len, w, Longest - Shortest)
  <2>1. Len(len) # 0 /\ Len(len) % w = 0
    BY <1>1, <1>2
  <2> QED
    BY <1>1, <1>2, <1>3, <2>1, LevelPartitions
<1> HIDE DEF P
<1> DEFINE c == Len(P[1])
<1>8. /\ P = [i \in 1..w |-> P[i]] /\ \A i \in 1..w : P[i] \in Seq(1..N)
      /\ \A i \in 1..w : Len(P[i]) = c
  <2>1. 1 \in 1..w
    BY <1>1
  <2> QED
    BY <1>2, <1>7, <2>1 DEF Level, Deals
<1>9. c \in Nat \ {0}
  <2>1. 1 \in 1..w /\ 1 \in 1..N
    BY <1>1
  <2>2. PICK i \in 1..w : \E j \in 1..Len(P[i]) : P[i][j] = 1
    BY <1>2, <1>7, <2>1 DEF Level, Deals
  <2>3. c \in Nat
    BY <1>8, <2>1
  <2> QED
    BY <1>8, <2>2, <2>3
<1>10. \A i \in 1..w : Long(P[i], c)
  BY <1>8, LongSeq
<1> HIDE DEF c
<1>11. Piled(order, P, w, c)
  BY <1>1, <1>4, <1>8, <1>9, <1>10, ConcatIs DEF Long
<1>12. w * c = N
  <2> DEFINE m == w * c
  <2>1. m \in Nat /\ Long(order, m)
    BY <1>1, <1>9, <1>11, Products DEF Piled
  <2> HIDE DEF m
  <2>2. Len(order) = m
    BY <2>1, LongIs
  <2> QED
    BY <1>6, <2>2 DEF m
<1>13. ASSUME NEW p \in Rank
       PROVE  Tokens(Chunk(next, w)[p]) = Total(len, P[p]) /\ Total(len, P[p]) \in Nat
  <2>1. p \in 1..w /\ p - 1 \in 0..(w - 1) /\ (p - 1) + 1 = p
    BY <1>1 DEF Rank, w
  <2> DEFINE piece == Chunk(next, w)[p]
  <2>2. Long(next, N)
    BY DEF Long, N
  <2>3. Slice(piece, next, (p - 1) * c, c)
    <3>1. Long(next, w * c)
      BY <1>12, <2>2
    <3>2. c \in Nat
      BY <1>9
    <3> QED
      BY <1>1, <2>1, <3>1, <3>2, ChunkIs
  <2> HIDE DEF piece
  <2>4. ASSUME NEW i \in 1..c
        PROVE  /\ P[p][i] \in 1..N /\ piece[i] = rows[P[p][i]]
               /\ length[Of(piece[i])] = len[P[p][i]]
    <3>1. ((p - 1) * c) + i \in 1..(w * c)
      <4>1. w \in Nat
        BY <1>1
      <4> QED
        BY <1>9, <2>1, <4>1, Grid
    <3>2. order[((p - 1) * c) + i] = P[p][i]
      BY <1>11, <2>1 DEF Piled
    <3>3. next[((p - 1) * c) + i] = rows[order[((p - 1) * c) + i]]
      BY <1>12, <3>1 DEF N, order
    <3>4. P[p][i] \in 1..N
      <4> DEFINE X == 1..N
      <4>1. P[p] \in Seq(X) /\ i \in 1..Len(P[p])
        BY <1>8, <2>1
      <4> HIDE DEF X
      <4>2. P[p][i] \in X
        BY <4>1
      <4> QED
        BY <4>2 DEF X
    <3>5. piece[i] = rows[P[p][i]]
      BY <2>3, <3>2, <3>3 DEF Slice
    <3> QED
      BY <1>2, <3>4, <3>5
  <2>5. Known(piece, c)
    <3>1. \A x \in 1..N : Of(rows[x]) \in Trajectory
      BY DEF Known, N
    <3>2. \A i \in 1..c : Of(piece[i]) \in Trajectory
      BY <2>4, <3>1
    <3> QED
      BY <2>3, <3>2 DEF Known, Slice
  <2>6. c \in Nat
    BY <1>9
  <2>7. Tokens(piece) = SumFunction([i \in 1..c |-> length[Of(piece[i])]])
    BY <2>5, <2>6, TokensAre
  <2>8. DOMAIN P[p] = 1..c
    BY <1>8, <2>1, LongSeq
  <2>9. [i \in 1..c |-> length[Of(piece[i])]] = [i \in DOMAIN P[p] |-> len[P[p][i]]]
    BY <2>4, <2>8
  <2>10. Tokens(piece) = Total(len, P[p])
    BY <2>7, <2>9 DEF Total
  <2>11. Tokens(piece) \in Nat
    BY <2>5, <2>6, TokensAre
  <2> QED
    BY <2>10, <2>11 DEF piece
<1>14. Total(len, P[q]) <= Total(len, P[r]) + (Longest - Shortest)
  BY <1>7 DEF Level, Rank, w
<1> DEFINE tq == Total(len, P[q])
           tr == Total(len, P[r])
<1>15. tq \in Nat /\ tr \in Nat /\ Tokens(Chunk(next, w)[q]) = tq /\ Tokens(Chunk(next, w)[r]) = tr
  BY <1>13
<1> HIDE DEF tq, tr
<1>16. tq <= tr + Longest - Shortest
  BY <1>3, <1>14, <1>15 DEF tq, tr
<1> QED
  BY <1>15, <1>16 DEF w

\* A call that is made.
LEMMA CallIs ==
    ASSUME BatchInv, DeviceInv, Call, ~(Fail /\ UNCHANGED rank)
    PROVE  /\ UNCHANGED <<setup, phase, batch>>
           /\ tested' = tested /\ reward' = reward /\ UNCHANGED device
           /\ phase # "failed" /\ setup \in Setups /\ DriverInv
           /\ Len(Sent) % setup.world = 0
           /\ cut' = Len(Sent) - Len(batch)
           /\ \/ phase = "generate" /\ length' \in [Trajectory -> setup.lengths]
              \/ phase # "generate" /\ length' = length
           /\ rank' = [q \in Rank |-> [Idle EXCEPT !.at = "start",
                                           !.rows = Chunk(Sent, setup.world)[q]]]
<1> DEFINE Ranks == [q \in Rank |-> [Idle EXCEPT !.at = "start",
                                         !.rows = Chunk(Sent, setup.world)[q]]]
<1>1. /\ phase \in Phases \ {"advantage", "done", "failed"} /\ UNCHANGED device
      /\ setup \in Setups /\ DriverInv
  BY DEF Call, DeviceInv, PlaceInv, BatchInv, DriverInv, Fail
<1>2. \/ Fail /\ UNCHANGED rank
      \/ /\ Len(Sent) % setup.world = 0
         /\ rank' = Ranks
         /\ cut' = Len(Sent) - Len(batch)
         /\ batch' = IF Generates THEN batch ELSE Sent
         /\ \/ phase = "generate" /\ length' \in [Trajectory -> setup.lengths]
            \/ phase # "generate" /\ UNCHANGED length
         /\ UNCHANGED <<setup, phase, iter, tested, reward>>
  BY Zenon DEF Call
<1> HIDE DEF Ranks
<1>3. /\ Len(Sent) % setup.world = 0
      /\ rank' = Ranks
      /\ cut' = Len(Sent) - Len(batch)
      /\ batch' = IF Generates THEN batch ELSE Sent
      /\ \/ phase = "generate" /\ length' \in [Trajectory -> setup.lengths]
         \/ phase # "generate" /\ UNCHANGED length
      /\ UNCHANGED <<setup, phase, iter, tested, reward>>
  BY <1>2, Zenon
<1>4. setup' = setup /\ phase' = phase /\ tested' = tested /\ reward' = reward
  BY <1>3
<1>5. batch' = batch
  <2>1. CASE Generates
    BY <1>3, <2>1
  <2>2. CASE ~Generates
    <3>1. Answered /\ phase # "validate"
      BY <1>1, <2>2 DEF Generates, Answered
    <3>2. Sent = batch
      BY <1>1, <3>1, SentIsBatch DEF DriverInv
    <3> QED
      BY <1>3, <2>2, <3>2
  <2> QED
    BY <2>1, <2>2
<1>6. /\ Len(Sent) % setup.world = 0 /\ rank' = Ranks
      /\ cut' = Len(Sent) - Len(batch)
      /\ \/ phase = "generate" /\ length' \in [Trajectory -> setup.lengths]
         \/ phase # "generate" /\ length' = length
  BY <1>3
<1> QED
  BY <1>1, <1>4, <1>5, <1>6 DEF Ranks

\* When responses have come to the batch.
LEMMA EndGenerateIs ==
    ASSUME BatchInv, DeviceInv, EndGenerate, ~Fail
    PROVE  LET rows == Joined(Collected)
               N == NumTrajectories
           IN  /\ N \in Nat /\ Known(rows, N) /\ setup \in Setups
               /\ length \in [Trajectory -> setup.lengths]
               /\ phase' = "log_prob" /\ setup' = setup /\ length' = length
               /\ batch' = [i \in 1..N |-> rows[Order(rows)[i]]]
<1> DEFINE rows == Joined(Collected)
           order == Order(rows)
           N == NumTrajectories
<1>1. \/ Fail
      \/ /\ Len(Collected) = Len(batch) * setup.n
         /\ batch' = [i \in DOMAIN rows |-> rows[order[i]]]
         /\ phase' = "log_prob"
         /\ UNCHANGED <<setup, iter, length, cut, tested>>
  BY ZenonT(40) DEF EndGenerate
<1>2. phase = "generate" /\ Returned /\ setup \in Setups
  BY DEF EndGenerate, DeviceInv, PlaceInv
<1> HIDE DEF rows, order
<1>3. /\ Len(Collected) = Len(batch) * setup.n
      /\ batch' = [i \in DOMAIN rows |-> rows[order[i]]]
      /\ phase' = "log_prob" /\ setup' = setup /\ length' = length
  BY <1>1
<1>4. DOMAIN rows = 1..N /\ N \in Nat /\ Known(rows, N)
  BY <1>2, <1>3, OrderedRows DEF rows
<1>5. length \in [Trajectory -> setup.lengths]
  <2>1. 1 \in Rank /\ rank[1].at # "idle"
    BY <1>2, SomeRank DEF Returned
  <2> QED
    BY <1>2, <2>1 DEF BatchInv, CallInv
<1>6. batch' = [i \in 1..N |-> rows[order[i]]]
  BY <1>3, <1>4
<1> QED
  BY <1>2, <1>3, <1>4, <1>5, <1>6 DEF rows, order, N

LEMMA NextKeepsLevel == ASSUME BatchInv, DeviceInv, LevelInv, [Next]_vars PROVE LevelInv'
<1>1. ASSUME EndGenerate, ~Fail, setup.balance PROVE LevelInv'
  <2> DEFINE rows == Joined(Collected)
             N == NumTrajectories
             next == [i \in 1..N |-> rows[Order(rows)[i]]]
  <2>1. /\ N \in Nat /\ Known(rows, N) /\ setup \in Setups
        /\ length \in [Trajectory -> setup.lengths]
        /\ setup' = setup /\ length' = length /\ batch' = next
    BY <1>1, EndGenerateIs, Zenon
  <2> HIDE DEF rows
  <2>2. \A q, r \in Rank : Tokens(Chunk(next, setup.world)[q]) <=
                               Tokens(Chunk(next, setup.world)[r]) + Longest - Shortest
    <3> HIDE DEF next
    <3>1. next = [i \in 1..N |-> rows[Order(rows)[i]]]
      BY DEF next
    <3> HIDE DEF N
    <3> QED
      BY <1>1, <2>1, <3>1, BalancedPieces DEF N
  <2> HIDE DEF next
  <2>3. ASSUME NEW q \in Rank
        PROVE  Tokens(Chunk(batch, setup.world)[q])' = Tokens(Chunk(next, setup.world)[q])
    BY <2>1 DEF Tokens, Lengths
  <2>4. Rank' = Rank /\ Longest' = Longest /\ Shortest' = Shortest
    BY <2>1 DEF Rank, Longest, Shortest
  <2> QED
    BY <2>2, <2>3, <2>4 DEF LevelInv
<1>2. ASSUME setup' = setup, phase' = phase, batch' = batch,
             phase = "log_prob" => length' = length
      PROVE  LevelInv'
  <2> SUFFICES ASSUME setup'.balance, phase' = "log_prob", NEW q \in Rank', NEW r \in Rank'
               PROVE  (Tokens(Chunk(batch, setup.world)[q]) <=
                         Tokens(Chunk(batch, setup.world)[r]) + Longest - Shortest)'
    BY DEF LevelInv
  <2>1. q \in Rank /\ r \in Rank /\ setup.balance /\ phase = "log_prob" /\ length' = length
    BY <1>2 DEF Rank
  <2>2. Tokens(Chunk(batch, setup.world)[q]) <=
            Tokens(Chunk(batch, setup.world)[r]) + Longest - Shortest
    BY <2>1 DEF LevelInv
  <2>3. \A p : Tokens(Chunk(batch, setup.world)[p])' = Tokens(Chunk(batch, setup.world)[p])
    BY <1>2, <2>1 DEF Tokens, Lengths
  <2>4. Longest' = Longest /\ Shortest' = Shortest
    BY <1>2 DEF Longest, Shortest
  <2> QED
    BY <2>2, <2>3, <2>4
<1>3. ASSUME phase' # "log_prob" \/ ~setup'.balance PROVE LevelInv'
  BY <1>3 DEF LevelInv
<1>4. CASE Call
  <2>1. CASE Fail
    BY <1>3, <2>1 DEF Fail
  <2>2. CASE ~Fail
    BY <1>2, <1>4, <2>2, CallIs
  <2> QED
    BY <2>1, <2>2
<1>5. CASE EndGenerate
  <2>1. CASE Fail
    BY <1>3, <2>1 DEF Fail
  <2>2. CASE ~Fail
    <3>1. setup' = setup
      BY <1>5 DEF EndGenerate, Fail
    <3> QED
      BY <1>1, <1>3, <1>5, <2>2, <3>1
  <2> QED
    BY <2>1, <2>2
<1>6. CASE EndValidate \/ EndInfer \/ Advantage \/ EndUpdateCritic \/ EndUpdateActor
  <2>1. phase' # "log_prob"
    BY <1>6 DEF EndValidate, EndInfer, Advantage, EndUpdateCritic, EndUpdateActor, Fail
  <2> QED
    BY <1>3, <2>1
<1>7. CASE Score
  BY <1>2, <1>7 DEF Score
<1>8. CASE UNCHANGED driver
  BY <1>2, <1>8, Frame
<1>9. CASE UNCHANGED vars
  BY <1>2, <1>9 DEF vars
<1>10. CASE Meet
  BY <1>8, <1>10 DEF Meet, Sync, PlanDynamic, Forward, Step
<1>11. ASSUME NEW r \in Rank, Run(r) PROVE LevelInv'
  BY <1>8, <1>11 DEF Run, Load, Gather, Generate, PlanFixed, GiveBack
<1> QED
  BY <1>4, <1>5, <1>6, <1>7, <1>9, <1>10, <1>11 DEF Next, Drive, Over

\* The first part of the property.
LEMMA LevelRanks ==
    ASSUME BatchInv, DeviceInv, LevelInv, setup.balance, phase = "log_prob",
           \A p \in Rank : rank[p].at = "start", NEW q \in Rank, NEW r \in Rank
    PROVE  Tokens(rank[q].rows) <= Tokens(rank[r].rows) + Longest - Shortest
<1> DEFINE w == setup.world
           c == Size
<1>1. ASSUME NEW p \in Rank PROVE rank[p].rows = Chunk(batch, w)[p]
  <2>1. w \in Nat \ {0} /\ c \in Nat /\ Long(Sent, w * c) /\ setup \in Setups
    BY CallSizes
  <2>2. Sent = batch
    BY <2>1, SentIsBatch DEF BatchInv, DriverInv, Answered
  <2>3. Slice(rank[p].rows, batch, (p - 1) * c, c)
    BY <2>2 DEF BatchInv, RankInv, RowsInv
  <2> HIDE DEF c, w
  <2>4. p \in 1..w
    BY DEF Rank, w
  <2>5. Slice(Chunk(batch, w)[p], batch, (p - 1) * c, c)
    BY <2>1, <2>2, <2>4, ChunkIs
  <2> DEFINE u == rank[p].rows
             v == Chunk(batch, w)[p]
  <2>6. Slice(u, batch, (p - 1) * c, c) /\ Slice(v, batch, (p - 1) * c, c)
    BY <2>3, <2>5
  <2> HIDE DEF u, v
  <2>7. u = [i \in 1..c |-> u[i]] /\ v = [i \in 1..c |-> v[i]] /\ \A i \in 1..c : u[i] = v[i]
    BY <2>6 DEF Slice, Long
  <2>8. u = v
    BY <2>7
  <2> QED
    BY <2>8 DEF u, v
<1> QED
  BY <1>1 DEF LevelInv

-----------------------------------------------------------------------------
(* The mini batches.                                                       *)

LEMMA MinisAre ==
    ASSUME BatchInv, DeviceInv, NEW r \in Rank, rank[r].at # "idle"
    PROVE  /\ setup \in Setups /\ GroupLen \in Nat \ {0}
           /\ MiniBatch \in Nat \ {0} /\ Minis \in Nat \ {0}
           /\ setup.epochs \in Nat \ {0} /\ AllMinis \in Nat \ {0}
<1>1. setup \in Setups /\ GroupLen \in Nat \ {0}
  BY CallSizes DEF GroupLen
<1>2. Used \in Model
  BY <1>1, Sizes
<1>3. /\ setup.world \in Nat \ {0} /\ setup.sp[Used] \in Nat \ {0}
      /\ setup.mini \in Nat /\ setup.n \in Nat
      /\ setup.epochs \in Nat \ {0} /\ setup.world % setup.sp[Used] = 0
      /\ MiniBatch > 0
  BY <1>1, <1>2, SetupAssumption DEF MiniBatch
<1>4. MiniBatch \in Nat \ {0}
  <2> DEFINE x == setup.world \div setup.sp[Used]
             y == setup.mini * setup.n
  <2>1. \A a \in Nat \ {0}, b \in Nat \ {0} : a % b = 0 => a \div b \in Nat \ {0}
    OBVIOUS
  <2>2. x \in Nat \ {0}
    BY <1>3, <2>1
  <2>3. \A a, b \in Nat : a * b \in Nat
    OBVIOUS
  <2>4. y \in Nat
    BY <1>3, <2>3
  <2>5. MiniBatch = y \div x
    BY DEF MiniBatch
  <2> HIDE DEF x, y
  <2>6. y \div x \in Nat
    BY <2>2, <2>4, Division
  <2> QED
    BY <1>3, <2>5, <2>6
<1>5. Minis \in Nat \ {0}
  BY <1>1, <1>4, PiecesAre DEF Minis
<1>6. \A a, b \in Nat \ {0} : a * b \in Nat \ {0}
  OBVIOUS
<1> QED
  BY <1>1, <1>3, <1>4, <1>5, <1>6 DEF AllMinis

\* What a rank runs the model on.
LEMMA NowIs ==
    ASSUME BatchInv, DeviceInv, NEW r \in Rank, TodoInv(r), rank[r].at \in AtWork
    PROVE  /\ NowLen(r) \in Nat \ {0} /\ Known(Now(r), NowLen(r))
           /\ Updates =>
                 /\ Behind(r) \in Nat /\ Turn(r) \in 0..(Minis - 1)
                 /\ Turn(r) * MiniBatch \in Nat
                 /\ Slice(Now(r), rank[r].rows, Turn(r) * MiniBatch, NowLen(r))
                 /\ Turn(r) * MiniBatch + NowLen(r) <= GroupLen
           /\ ~Updates => Now(r) = rank[r].rows
<1> DEFINE rows == rank[r].rows
           todo == rank[r].todo
           g == GroupLen
           m == MiniBatch
<1>1. /\ g \in Nat \ {0} /\ m \in Nat \ {0} /\ Minis \in Nat \ {0} /\ AllMinis \in Nat \ {0}
  BY MinisAre DEF AtWork
<1>2. Known(rows, g)
  BY GroupRowsKnown DEF AtWork, GroupLen
<1>3. CASE ~Updates
  <2>1. Now(r) = rows
    BY <1>3 DEF BatchInv, RankInv, ModelInv, Now, AtWork
  <2> QED
    BY <1>1, <1>2, <1>3, <2>1 DEF NowLen
<1>4. CASE Updates
  <2> DEFINE k == Turn(r)
             n == PieceLen(k + 1, g, m)
  <2>1. /\ Len(todo) \in 1..AllMinis /\ Long(todo, Len(todo))
        /\ todo[1] = Mini(r, Due(r, 1))
    BY <1>4 DEF TodoInv
  <2>2. Behind(r) \in Nat
    BY <1>1, <2>1 DEF Behind
  <2>3. k \in 0..(Minis - 1)
    BY <1>1, <2>2, Division DEF Turn
  <2>4. (Behind(r) + 1) - 1 = Behind(r)
    BY <2>2
  <2>5. todo[1] = Split(rows, m)[k + 1]
    <3>1. Due(r, 1) = k + 1
      BY <1>1, <2>2, <2>4 DEF Turn, Due
    <3>2. Mini(r, k + 1) = Split(rows, m)[k + 1]
      BY DEF Mini
    <3> HIDE DEF k, todo, rows, m
    <3> QED
      BY <2>1, <3>1, <3>2, Zenon
  <2>6. Now(r) = todo[1]
    BY DEF Now
  <2> HIDE DEF k, rows, todo, g, m
  <2>7. k + 1 \in 1..NumPieces(g, m) /\ (k + 1) - 1 = k
    BY <1>1, <2>3 DEF Minis, g, m
  <2>8. Slice(Split(rows, m)[k + 1], rows, k * m, n)
    BY <1>1, <1>2, <2>7, SplitIs DEF Known
  <2>9. n \in Nat \ {0} /\ k * m \in Nat /\ k * m + n <= g
    <3>1. ((k + 1) - 1) * m \in Nat /\ n \in 1..m /\ ((k + 1) - 1) * m + n <= g
      BY <1>1, <2>7, PiecesAre
    <3> QED
      BY <1>1, <2>7, <3>1
  <2> HIDE DEF n
  <2>10. Slice(Now(r), rows, k * m, n)
    BY <2>5, <2>6, <2>8
  <2>11. ASSUME NEW i \in 1..n PROVE Of(Now(r)[i]) \in Trajectory
    <3>1. Now(r)[i] = rows[k * m + i]
      BY <2>10 DEF Slice
    <3> DEFINE a == k * m
    <3>2. a \in Nat /\ a + n <= g
      BY <2>9
    <3> HIDE DEF a
    <3>3. a + i \in 1..g
      BY <1>1, <2>9, <3>2
    <3> QED
      BY <1>2, <3>1, <3>3 DEF Known, a
  <2>12. Known(Now(r), n)
    BY <2>10, <2>11 DEF Known, Slice
  <2>13. NowLen(r) = n
    BY <1>4 DEF NowLen, n, k, g, m
  <2> QED
    BY <1>4, <2>2, <2>3, <2>9, <2>10, <2>12, <2>13 DEF k, m, rows, g
<1> QED
  BY <1>3, <1>4

\* The same call, the same batch.
LEMMA WorkFrame ==
    ASSUME UNCHANGED <<setup, phase, batch, length>>
    PROVE  /\ GroupLen' = GroupLen /\ MiniBatch' = MiniBatch /\ Minis' = Minis
           /\ AllMinis' = AllMinis /\ Budget' = Budget /\ Longest' = Longest
           /\ setup' = setup /\ batch' = batch /\ Rank' = Rank
           /\ Updates' = Updates /\ Generates' = Generates /\ Used' = Used
           /\ Trajectory' = Trajectory /\ Size' = Size
           /\ \A rows : Lengths(rows)' = Lengths(rows)
           /\ \A r : LeaderOf(r)' = LeaderOf(r)
<1>1. setup' = setup /\ phase' = phase /\ batch' = batch /\ length' = length
  OBVIOUS
<1>2. /\ Rank' = Rank /\ Updates' = Updates /\ Generates' = Generates /\ Used' = Used
      /\ GroupSize' = GroupSize /\ Size' = Size /\ Trajectory' = Trajectory
      /\ \A r : LeaderOf(r)' = LeaderOf(r)
  BY <1>1, FrameOf
<1>3. GroupLen' = GroupLen
  BY <1>2 DEF GroupLen
<1>4. MiniBatch' = MiniBatch
  BY <1>1, <1>2 DEF MiniBatch
<1>5. Minis' = Minis
  BY <1>3, <1>4 DEF Minis
<1>6. AllMinis' = AllMinis
  BY <1>1, <1>5 DEF AllMinis
<1>7. Budget' = Budget /\ Longest' = Longest
  BY <1>1, <1>2 DEF Budget, Longest
<1>8. \A rows : Lengths(rows)' = Lengths(rows)
  BY <1>1 DEF Lengths
<1> QED
  BY <1>1, <1>2, <1>3, <1>4, <1>5, <1>6, <1>7, <1>8

\* The plan has all of 1..n.
Complete(plan, n) == \A x \in 1..n : \E p \in DOMAIN plan : In(plan[p], x)

\* A rank that goes on with the work it has.
LEMMA TodoStays ==
    ASSUME UNCHANGED <<setup, phase, batch, length>>, NEW r, TodoInv(r),
           rank'[r].rows = rank[r].rows, rank'[r].todo = rank[r].todo,
           rank'[r].at \in AtWork => rank[r].at \in AtWork
    PROVE  TodoInv(r)'
<1> DEFINE todo == rank[r].todo
           l == Len(todo)
<1>1. Behind(r)' = Behind(r)
  BY WorkFrame DEF Behind
<1>2. \A i : Mini(r, Due(r, i))' = Mini(r, Due(r, i))
  <2>1. \A i : Due(r, i)' = Due(r, i)
    BY <1>1, WorkFrame DEF Due
  <2>2. MiniBatch' = MiniBatch
    BY WorkFrame
  <2> QED
    BY <2>1, <2>2 DEF Mini
<1>3. Updates' = Updates /\ AllMinis' = AllMinis
  BY WorkFrame
<1>4. Updates /\ rank[r].at \in AtWork =>
          /\ l \in 1..AllMinis /\ Long(todo, l)
          /\ \A i \in 1..l : todo[i] = Mini(r, Due(r, i))
  BY Zenon DEF TodoInv
<1>5. todo' = todo
  OBVIOUS
<1> HIDE DEF todo, l
<1>6. l' = l
  BY <1>5 DEF l
<1>7. Updates' /\ rank'[r].at \in AtWork =>
          /\ l' \in 1..AllMinis' /\ Long(todo', l')
          /\ \A i \in 1..l' : todo'[i] = Mini(r, Due(r, i))'
  BY <1>2, <1>3, <1>4, <1>5, <1>6
<1> QED
  BY <1>7 DEF TodoInv, AtWork, todo, l

LEMMA PlanStays ==
    ASSUME UNCHANGED <<setup, phase, batch, length>>, NEW r, PlanInv(r),
           rank'[r].plan = rank[r].plan, rank'[r].todo = rank[r].todo,
           rank'[r].at = "forward" <=> rank[r].at = "forward"
    PROVE  PlanInv(r)'
<1>1. Now(r)' = Now(r)
  BY DEF Now
<1>2. Lengths(Now(r))' = Lengths(Now(r)) /\ Budget' = Budget /\ Longest' = Longest
      /\ setup' = setup
  BY <1>1, WorkFrame
<1> QED
  BY <1>1, <1>2 DEF PlanInv

\* The micro batches of a mini batch.
LEMMA PlanBegins ==
    ASSUME BatchInv, DeviceInv, UNCHANGED driver, NEW r \in Rank, TodoInv(r),
           rank[r].at = "plan", NEW P, NEW k \in Nat \ {0}, Deals(P, k, NowLen(r)),
           rank'[r] = [rank[r] EXCEPT !.plan = P, !.at = "forward"],
           setup.dynamic => \A i \in 1..k :
              P[i] # <<>> /\ Total(Lengths(Now(r)), P[i]) <= Budget + Longest
    PROVE  /\ TodoInv(r)' /\ PlanInv(r)'
           /\ rank'[r].todo = rank[r].todo /\ rank'[r].rows = rank[r].rows
           /\ rank'[r].at = "forward" /\ Complete(rank'[r].plan, NowLen(r))
           /\ Len(rank'[r].plan) = k
<1> DEFINE n == NowLen(r)
<1>1. /\ rank'[r].at = "forward" /\ rank'[r].plan = P
      /\ rank'[r].rows = rank[r].rows /\ rank'[r].todo = rank[r].todo
  <2>1. DOMAIN rank[r] = {"at", "rows", "todo", "plan", "order", "out"}
    BY DEF DeviceInv, PlaceInv, Idle
  <2> QED
    BY <2>1
<1>2. UNCHANGED <<setup, phase, batch, length>>
  BY DEF driver
<1>3. n \in Nat /\ Known(Now(r), n)
  BY NowIs DEF AtWork
<1> HIDE DEF n
<1>4. Dealt(P, <<>>, n) /\ P # <<>> /\ Len(P) = k
  BY <1>3, DealtBegins DEF n
<1>5. Len(Now(r)) = n
  BY <1>3, LongIs DEF Known
<1>6. DOMAIN P = 1..k
  <2> DEFINE X == Seq(1..n)
  <2>1. P \in [1..k -> X]
    BY DEF Deals, n
  <2> QED
    BY <2>1
<1>7. Now(r)' = Now(r)
  BY <1>1 DEF Now
<1>8. TodoInv(r)'
  BY <1>1, <1>2, TodoStays DEF AtWork
<1>9. PlanInv(r)'
  <2>1. /\ rank'[r].plan # <<>>
        /\ \E order : Dealt(rank'[r].plan, order, Len(Now(r)'))
    BY <1>1, <1>4, <1>5, <1>7
  <2>2. setup.dynamic => \A i \in DOMAIN rank'[r].plan :
           /\ rank'[r].plan[i] # <<>>
           /\ Total(Lengths(Now(r)), rank'[r].plan[i]) <= Budget + Longest
    BY <1>1, <1>6
  <2>3. Lengths(Now(r))' = Lengths(Now(r)) /\ Budget' = Budget /\ Longest' = Longest
        /\ setup' = setup
    BY <1>2, <1>7, WorkFrame
  <2> QED
    BY <1>1, <2>1, <2>2, <2>3 DEF PlanInv
<1>10. Complete(rank'[r].plan, n)
  <2>1. ~ \E i \in DOMAIN <<>> : TRUE
    OBVIOUS
  <2> QED
    BY <1>1, <1>4, <2>1 DEF Dealt, Complete, In
<1> QED
  BY <1>1, <1>4, <1>8, <1>9, <1>10 DEF n

\* With dynamic batch sizes a rank's mini batch goes into as many micro batches
\* as the neediest rank takes, and that is not more than it has rows.
LEMMA DynamicPlans ==
    ASSUME BatchInv, DeviceInv, SameInv, \A q \in Rank : TodoInv(q), PlanDynamic,
           NEW r \in Rank
    PROVE  /\ TodoInv(r)' /\ PlanInv(r)'
           /\ rank'[r].todo = rank[r].todo /\ rank'[r].rows = rank[r].rows
           /\ rank'[r].at = "forward" /\ Complete(rank'[r].plan, NowLen(r))
           /\ Len(rank'[r].plan) = NumTogether(r)
<1> DEFINE P(q) == Partitions(Lengths(Now(q)), NumTogether(q), FALSE)
           n == NowLen(r)
<1>1. UNCHANGED driver /\ \A q \in Rank : rank[q].at = "plan"
  BY DEF PlanDynamic
<1>2. rank'[r] = [rank[r] EXCEPT !.plan = P(r), !.at = "forward"]
  <2> DEFINE Parts(q, num) == Partitions(Lengths(Now(q)), num[q], FALSE)
             num == [q \in Rank |-> NumTogether(q)]
  <2>1. rank' = [q \in Rank |-> [rank[q] EXCEPT !.plan = Parts(q, num), !.at = "forward"]]
    BY Zenon DEF PlanDynamic
  <2>2. \A q \in Rank : Parts(q, num) = P(q)
    OBVIOUS
  <2> HIDE DEF Parts, num, P
  <2> QED
    BY <2>1, <2>2
<1>3. setup \in Setups /\ length \in [Trajectory -> setup.lengths]
  BY <1>1, GroupRowsKnown
<1>4. ASSUME NEW q \in Rank PROVE NowLen(q) = n
  <2>1. CASE Updates
    <3>1. Len(rank[q].todo) = Len(rank[r].todo)
      BY <1>1, <2>1 DEF SameInv, AtWork
    <3> QED
      BY <3>1 DEF NowLen, Turn, Behind
  <2>2. CASE ~Updates
    BY <2>2 DEF NowLen
  <2> QED
    BY <2>1, <2>2
<1>5. ASSUME NEW q \in Rank
      PROVE  n \in Nat \ {0} /\ Known(Now(q), n)
  <2>1. NowLen(q) \in Nat \ {0} /\ Known(Now(q), NowLen(q))
    BY <1>1, NowIs DEF AtWork
  <2> QED
    BY <1>4, <2>1
<1> HIDE DEF n
<1>6. ASSUME NEW q \in Rank
      PROVE  /\ Lengths(Now(q)) \in Seq(Nat \ {0}) /\ Len(Lengths(Now(q))) = n
             /\ \A i \in 1..n : Lengths(Now(q))[i] \in setup.lengths
  <2>1. n \in Nat /\ Known(Now(q), n)
    BY <1>5
  <2> QED
    BY <1>3, <2>1, LengthsAre
<1>7. Budget \in Nat \ {0}
  BY <1>3, BudgetIs
<1>8. ASSUME NEW q \in Rank
      PROVE  /\ Needed(q) \in Nat \ {0} /\ Needed(q) <= n
             /\ \/ Needed(q) = n
                \/ Total(Lengths(Now(q)), [i \in DOMAIN Lengths(Now(q)) |-> i]) <= Budget * Needed(q)
  <2> DEFINE len == Lengths(Now(q))
  <2>1. len \in Seq(Nat \ {0}) /\ Len(len) = n /\ n \in Nat \ {0}
    BY <1>5, <1>6
  <2> HIDE DEF len
  <2>2. Len(len) # 0
    BY <2>1
  <2>3. /\ NumMicroBatches(len, Budget) \in 1..Len(len)
        /\ \/ NumMicroBatches(len, Budget) = Len(len)
           \/ Total(len, [i \in DOMAIN len |-> i]) <= Budget * NumMicroBatches(len, Budget)
    BY <1>7, <2>1, <2>2, NumIs
  <2>4. Needed(q) = NumMicroBatches(len, Budget)
    BY DEF Needed, len
  <2>5. /\ Needed(q) \in 1..n
        /\ Needed(q) = n \/ Total(len, [i \in DOMAIN len |-> i]) <= Budget * Needed(q)
    BY <2>1, <2>3, <2>4
  <2>6. Needed(q) \in Nat \ {0} /\ Needed(q) <= n
    BY <2>1, <2>5
  <2> QED
    BY <2>5, <2>6 DEF len
<1> DEFINE len == Lengths(Now(r))
           k == NumTogether(r)
           all == Total(len, [i \in DOMAIN len |-> i])
<1>9. k \in Nat \ {0} /\ k <= n /\ Needed(r) <= k
  <2>1. \A q \in Rank : Needed(q) \in Nat \ {0}
    BY <1>8
  <2>2. /\ k \in Nat \ {0} /\ \E q \in Rank : k = Needed(q)
        /\ \A q \in Rank : Needed(q) <= k
    BY <1>3, <2>1, TogetherIs
  <2> HIDE DEF k
  <2> QED
    BY <1>8, <2>2
<1>10. /\ len \in Seq(Nat \ {0}) /\ Len(len) = n /\ n \in Nat \ {0}
       /\ Longest \in Nat /\ \A i \in DOMAIN len : len[i] <= Longest
  <2>1. len \in Seq(Nat \ {0}) /\ Len(len) = n /\ n \in Nat \ {0}
        /\ \A i \in 1..n : len[i] \in setup.lengths
    BY <1>5, <1>6
  <2>2. Longest \in Nat /\ \A l \in setup.lengths : l <= Longest
    BY <1>3, LongestIs
  <2> HIDE DEF len
  <2>3. DOMAIN len = 1..n
    BY <2>1
  <2> QED
    BY <2>1, <2>2, <2>3
<1>11. k = n \/ all <= Budget * k
  <2>1. Needed(r) = n \/ all <= Budget * Needed(r)
    BY <1>8
  <2>2. all \in Nat
    BY <1>10, TotalIs
  <2>3. Needed(r) \in Nat \ {0}
    BY <1>8
  <2> HIDE DEF k, all
  <2>4. Needed(r) * Budget <= k * Budget
    BY <1>7, <1>9, <2>3, Products
  <2>5. CASE Needed(r) = n
    BY <1>9, <1>10, <2>3, <2>5
  <2>6. CASE all <= Budget * Needed(r)
    <3> DEFINE x == Budget * Needed(r)
               y == Budget * k
    <3>1. x = Needed(r) * Budget /\ y = k * Budget /\ x \in Nat /\ y \in Nat
      BY <1>7, <1>9, <2>3, Products
    <3>2. all <= x /\ x <= y
      BY <2>4, <2>6, <3>1
    <3> HIDE DEF x, y
    <3>3. all <= y
      BY <2>2, <3>1, <3>2
    <3> QED
      BY <3>3 DEF y
  <2> QED
    BY <2>1, <2>5, <2>6
<1>12. /\ Deals(P(r), k, n)
       /\ \A i \in 1..k : P(r)[i] # <<>> /\ Total(len, P(r)[i]) <= Budget + Longest
  <2> DEFINE Q == Partitions(len, k, FALSE)
  <2>1. Len(len) # 0 /\ k <= Len(len)
    BY <1>9, <1>10
  <2> HIDE DEF len, k
  <2>2. /\ Deals(Q, k, Len(len))
        /\ \A i \in 1..k :
                /\ Q[i] # <<>>
                /\ \A budget \in Nat :
                      \/ k = Len(len)
                      \/ Total(len, [x \in DOMAIN len |-> x]) <= budget * k
                      => Total(len, Q[i]) <= budget + Longest
    BY <1>9, <1>10, <2>1, PartitionsFit
  <2> HIDE DEF Q
  <2>3. k = Len(len) \/ Total(len, [x \in DOMAIN len |-> x]) <= Budget * k
    BY <1>10, <1>11
  <2>4. \A i \in 1..k : Q[i] # <<>> /\ Total(len, Q[i]) <= Budget + Longest
    BY <1>7, <2>2, <2>3
  <2>5. P(r) = Q
    BY DEF Q, len, k
  <2> HIDE DEF P
  <2> QED
    BY <1>10, <2>2, <2>4, <2>5
<1>13. rank[r].at = "plan" /\ TodoInv(r)
  BY <1>1
<1> HIDE DEF P, k
<1>14. Deals(P(r), k, NowLen(r))
  BY <1>12 DEF n
<1>15. \A i \in 1..k : P(r)[i] # <<>> /\ Total(Lengths(Now(r)), P(r)[i]) <= Budget + Longest
  BY <1>12
<1>16. /\ TodoInv(r)' /\ PlanInv(r)'
       /\ rank'[r].todo = rank[r].todo /\ rank'[r].rows = rank[r].rows
       /\ rank'[r].at = "forward" /\ Complete(rank'[r].plan, NowLen(r))
       /\ Len(rank'[r].plan) = k
  BY <1>1, <1>2, <1>9, <1>13, <1>14, <1>15, PlanBegins
<1> QED
  BY <1>16 DEF k

\* The micro batches of a fixed number of rows.
FixedLen(r) == NumPieces(NowLen(r), IF Updates THEN setup.micro ELSE setup.infer)

LEMMA FixedPlan ==
    ASSUME BatchInv, DeviceInv, NEW r \in Rank, TodoInv(r), PlanFixed(r)
    PROVE  /\ TodoInv(r)' /\ PlanInv(r)'
           /\ rank'[r].todo = rank[r].todo /\ rank'[r].rows = rank[r].rows
           /\ rank'[r].at = "forward" /\ Complete(rank'[r].plan, NowLen(r))
           /\ Len(rank'[r].plan) = FixedLen(r)
           /\ \A q \in Rank \ {r} : rank'[q] = rank[q]
<1> DEFINE n == NowLen(r)
           size == IF Updates THEN setup.micro ELSE setup.infer
           P == Split([i \in DOMAIN Now(r) |-> i], size)
           k == NumPieces(n, size)
<1>1. UNCHANGED driver /\ rank[r].at = "plan" /\ ~setup.dynamic
  BY DEF PlanFixed
<1>2. rank' = [rank EXCEPT ![r].plan = P, ![r].at = "forward"]
  BY Zenon DEF PlanFixed
<1>3. /\ \A q \in Rank \ {r} : rank'[q] = rank[q]
      /\ rank'[r] = [rank[r] EXCEPT !.plan = P, !.at = "forward"]
  <2>1. DOMAIN rank = Rank
    BY DEF DeviceInv, PlaceInv
  <2> HIDE DEF P
  <2> QED
    BY <1>2, <2>1
<1>4. k \in Nat \ {0} /\ Deals(P, k, n)
  <2>1. n \in Nat \ {0} /\ Known(Now(r), n)
    BY <1>1, NowIs DEF AtWork
  <2>2. size \in Nat \ {0}
    BY <1>1, GroupRowsKnown, SetupAssumption
  <2> HIDE DEF n, size
  <2>3. DOMAIN Now(r) = 1..n
    BY <2>1, LongIs DEF Known
  <2>4. P = Split([i \in 1..n |-> i], size)
    BY <2>3
  <2> HIDE DEF P
  <2> QED
    BY <2>1, <2>2, <2>4, PiecesAre, SplitDeals
<1> HIDE DEF P, k
<1>5. Deals(P, k, NowLen(r))
  BY <1>4
<1>6. setup.dynamic => \A i \in 1..k :
          P[i] # <<>> /\ Total(Lengths(Now(r)), P[i]) <= Budget + Longest
  BY <1>1
<1>7. /\ TodoInv(r)' /\ PlanInv(r)'
      /\ rank'[r].todo = rank[r].todo /\ rank'[r].rows = rank[r].rows
      /\ rank'[r].at = "forward" /\ Complete(rank'[r].plan, NowLen(r))
      /\ Len(rank'[r].plan) = k
  BY <1>1, <1>3, <1>4, <1>5, <1>6, PlanBegins
<1>8. k = FixedLen(r)
  BY DEF k, FixedLen
<1> QED
  BY <1>3, <1>7, <1>8

\* A micro batch less.
LEMMA ForwardIs ==
    ASSUME DeviceInv, Forward, NEW r \in Rank
    PROVE  /\ UNCHANGED driver /\ rank[r].at = "forward"
           /\ rank'[r].rows = rank[r].rows /\ rank'[r].todo = rank[r].todo
           /\ rank'[r].plan = Tail(rank[r].plan)
           /\ rank'[r].at = IF Len(rank[r].plan) > 1 THEN "forward"
                            ELSE IF Updates THEN "step" ELSE "back"
<1> DEFINE Outs(q) == rank[q].out \o [i \in DOMAIN Part(q) |-> Result(Part(q)[i])]
           Indices(q) == rank[q].order \o Head(rank[q].plan)
           Goes(q, to) == IF Len(rank[q].plan) > 1 THEN "forward" ELSE to
<1>1. \/ /\ ~Updates
         /\ rank' = [q \in Rank |-> [rank[q] EXCEPT
               !.out = Outs(q), !.order = Indices(q), !.plan = Tail(@), !.at = Goes(q, "back")]]
      \/ /\ Updates
         /\ rank' = [q \in Rank |-> [rank[q] EXCEPT
               !.plan = Tail(@), !.at = Goes(q, "step")]]
  BY Zenon DEF Forward
<1>2. DOMAIN rank[r] = {"at", "rows", "todo", "plan", "order", "out"}
  BY DEF DeviceInv, PlaceInv, Idle
<1> HIDE DEF Outs, Indices, Goes
<1>3. \/ /\ ~Updates
         /\ rank'[r] = [rank[r] EXCEPT !.out = Outs(r), !.order = Indices(r),
                                       !.plan = Tail(@), !.at = Goes(r, "back")]
      \/ /\ Updates
         /\ rank'[r] = [rank[r] EXCEPT !.plan = Tail(@), !.at = Goes(r, "step")]
  BY <1>1
<1>4. /\ rank'[r].rows = rank[r].rows /\ rank'[r].todo = rank[r].todo
      /\ rank'[r].plan = Tail(rank[r].plan)
      /\ rank'[r].at = Goes(r, IF Updates THEN "step" ELSE "back")
  BY <1>2, <1>3
<1>5. UNCHANGED driver /\ rank[r].at = "forward"
  BY DEF Forward
<1> QED
  BY <1>4, <1>5 DEF Goes

\* The rest of a plan.
LEMMA TailIs ==
    ASSUME NEW X, NEW s \in Seq(X), s # <<>>
    PROVE  /\ Tail(s) \in Seq(X) /\ Len(Tail(s)) = Len(s) - 1 /\ Len(s) \in Nat \ {0}
           /\ Tail(s) = <<>> <=> ~(Len(s) > 1)
           /\ \A i \in DOMAIN Tail(s) : i + 1 \in DOMAIN s /\ Tail(s)[i] = s[i + 1]
<1> DEFINE u == Tail(s)
<1>1. u \in Seq(X) /\ Len(u) = Len(s) - 1 /\ Len(s) \in Nat \ {0}
  OBVIOUS
<1>2. \A i \in DOMAIN u : i + 1 \in DOMAIN s /\ u[i] = s[i + 1]
  OBVIOUS
<1> HIDE DEF u
<1>3. u = <<>> <=> Len(u) = 0
  BY <1>1, EmptySeq
<1>4. u = <<>> <=> ~(Len(s) > 1)
  BY <1>1, <1>3
<1> QED
  BY <1>1, <1>2, <1>4 DEF u

LEMMA ForwardPlan ==
    ASSUME BatchInv, DeviceInv, NEW r \in Rank, TodoInv(r), PlanInv(r), Forward
    PROVE  TodoInv(r)' /\ PlanInv(r)' /\ Len(rank'[r].todo) = Len(rank[r].todo)
<1> DEFINE plan == rank[r].plan
           n == Len(Now(r))
<1>1. /\ UNCHANGED <<setup, phase, batch, length>> /\ rank[r].at = "forward"
      /\ rank'[r].rows = rank[r].rows /\ rank'[r].todo = rank[r].todo
      /\ rank'[r].plan = Tail(plan)
      /\ rank'[r].at = IF Len(plan) > 1 THEN "forward"
                       ELSE IF Updates THEN "step" ELSE "back"
  BY ForwardIs DEF driver
<1>2. TodoInv(r)'
  BY <1>1, TodoStays DEF AtWork
<1>3. PICK order : Dealt(plan, order, n) /\ plan # <<>>
  BY <1>1 DEF PlanInv
<1>4. n \in Nat
  <2> DEFINE k == NowLen(r)
  <2>1. k \in Nat /\ Known(Now(r), k)
    BY <1>1, NowIs DEF AtWork
  <2> HIDE DEF k
  <2> QED
    BY <2>1, LongIs DEF Known
<1> HIDE DEF plan, n
<1> DEFINE t == Tail(plan)
<1>5. Dealt(t, order \o Head(plan), n)
  BY <1>3, <1>4, DealtGoesOn
<1>6. /\ t = <<>> <=> ~(Len(plan) > 1)
      /\ \A i \in DOMAIN t : i + 1 \in DOMAIN plan /\ t[i] = plan[i + 1]
  <2> DEFINE X == Seq(1..n)
  <2>1. plan \in Seq(X) /\ plan # <<>>
    BY <1>3 DEF Dealt
  <2> HIDE DEF X
  <2> QED
    BY <2>1, TailIs
<1>7. Now(r)' = Now(r)
  BY <1>1 DEF Now
<1>8. Lengths(Now(r))' = Lengths(Now(r)) /\ Budget' = Budget /\ Longest' = Longest
      /\ setup' = setup
  BY <1>1, <1>7, WorkFrame
<1>9. setup.dynamic => \A i \in DOMAIN plan :
          plan[i] # <<>> /\ Total(Lengths(Now(r)), plan[i]) <= Budget + Longest
  BY DEF PlanInv, plan
<1> HIDE DEF t
<1>10. setup.dynamic => \A i \in DOMAIN t :
          t[i] # <<>> /\ Total(Lengths(Now(r)), t[i]) <= Budget + Longest
  BY <1>6, <1>9
<1>11. rank'[r].plan = t /\ (rank'[r].at = "forward" <=> t # <<>>)
  BY <1>1, <1>6 DEF t
<1>12. rank'[r].at = "forward" => \E o : Dealt(t, o, Len(Now(r)'))
  BY <1>5, <1>7 DEF n
<1>13. PlanInv(r)'
  BY <1>8, <1>10, <1>11, <1>12 DEF PlanInv
<1> QED
  BY <1>1, <1>2, <1>13

\* A mini batch less.
LEMMA StepIs ==
    ASSUME DeviceInv, Step, NEW r \in Rank
    PROVE  /\ UNCHANGED <<setup, phase, batch, length>> /\ rank[r].at = "step"
           /\ rank'[r].rows = rank[r].rows /\ rank'[r].todo = Tail(rank[r].todo)
           /\ rank'[r].plan = rank[r].plan
           /\ rank'[r].at = IF Len(rank[r].todo) = 1 THEN "back" ELSE "plan"
<1>1. rank'[r] = [rank[r] EXCEPT !.todo = Tail(@),
                     !.at = IF Len(rank[r].todo) = 1 THEN "back" ELSE "plan"]
  BY DEF Step
<1>2. DOMAIN rank[r] = {"at", "rows", "todo", "plan", "order", "out"}
  BY DEF DeviceInv, PlaceInv, Idle
<1>3. UNCHANGED <<setup, phase, batch, length>> /\ rank[r].at = "step"
  BY DEF Step, driver
<1> QED
  BY <1>1, <1>2, <1>3

LEMMA StepTodo ==
    ASSUME BatchInv, DeviceInv, NEW r \in Rank, TodoInv(r), PlanInv(r), Step
    PROVE  /\ TodoInv(r)' /\ PlanInv(r)'
           /\ rank'[r].at \in AtWork => Len(rank'[r].todo) = Len(rank[r].todo) - 1
<1> DEFINE todo == rank[r].todo
           l == Len(todo)
<1>1. /\ UNCHANGED <<setup, phase, batch, length>> /\ rank[r].at = "step"
      /\ rank'[r].rows = rank[r].rows /\ rank'[r].todo = Tail(todo)
      /\ rank'[r].plan = rank[r].plan
      /\ rank'[r].at = IF l = 1 THEN "back" ELSE "plan"
  BY StepIs
<1>2. Updates
  BY <1>1 DEF BatchInv, RankInv, ModelInv
<1>3. AllMinis \in Nat \ {0} /\ Minis \in Nat \ {0}
  BY <1>1, MinisAre
<1>4. /\ l \in 1..AllMinis /\ Long(todo, l)
      /\ \A i \in 1..l : todo[i] = Mini(r, Due(r, i))
  BY <1>1, <1>2 DEF TodoInv, AtWork
<1> HIDE DEF todo, l
<1> DEFINE u == Tail(todo)
           S == {todo[i] : i \in 1..l}
<1>5. todo \in Seq(S) /\ Len(todo) = l
  BY <1>3, <1>4, LongIs
<1> HIDE DEF S
<1>6. u \in Seq(S) /\ Len(u) = l - 1 /\ \A i \in 1..(l - 1) : u[i] = todo[i + 1]
  <2>1. todo # <<>>
    BY <1>4, <1>5
  <2> QED
    BY <1>4, <1>5, <2>1
<1> HIDE DEF u
<1>7. Long(u, l - 1)
  BY <1>6, LongSeq
<1>8. rank'[r].todo = u
  BY <1>1 DEF u
<1>9. /\ Minis' = Minis /\ AllMinis' = AllMinis /\ MiniBatch' = MiniBatch
      /\ Updates' = Updates
  BY <1>1, WorkFrame
<1>10. Behind(r)' = Behind(r) + 1 /\ Behind(r) \in Int
  <2>1. Behind(r) = AllMinis - l
    BY DEF Behind, l, todo
  <2>2. Behind(r)' = AllMinis - Len(u)
    BY <1>8, <1>9 DEF Behind
  <2> QED
    BY <1>3, <1>4, <1>6, <2>1, <2>2
<1>11. ASSUME NEW i \in 1..(l - 1) PROVE u[i] = Mini(r, Due(r, i))'
  <2>1. u[i] = Mini(r, Due(r, i + 1))
    BY <1>4, <1>6
  <2>2. Due(r, i)' = Due(r, i + 1)
    <3> DEFINE b == Behind(r)
    <3>1. b \in Int /\ Behind(r)' = b + 1 /\ (b + 1) + i - 1 = b + (i + 1) - 1
      BY <1>4, <1>10
    <3>2. Due(r, i)' = ((Behind(r)' + i - 1) % Minis) + 1
      BY <1>9 DEF Due
    <3>3. Due(r, i + 1) = ((b + (i + 1) - 1) % Minis) + 1
      BY DEF Due
    <3> HIDE DEF b
    <3> QED
      BY <3>1, <3>2, <3>3
  <2>3. Mini(r, Due(r, i))' = Split(rank[r].rows, MiniBatch)[Due(r, i)']
    BY <1>1, <1>9 DEF Mini
  <2>4. Mini(r, Due(r, i + 1)) = Split(rank[r].rows, MiniBatch)[Due(r, i + 1)]
    BY DEF Mini
  <2> QED
    BY <2>1, <2>2, <2>3, <2>4
<1>12. TodoInv(r)'
  <2>1. CASE l = 1
    BY <1>1, <2>1 DEF TodoInv, AtWork
  <2>2. CASE l # 1
    <3>1. Len(u) = l - 1 /\ l - 1 \in 1..AllMinis /\ Long(u, l - 1)
      BY <1>3, <1>4, <1>6, <1>7, <2>2
    <3>2. /\ Len(rank'[r].todo) = l - 1 /\ Len(rank'[r].todo) \in 1..AllMinis'
          /\ Long(rank'[r].todo, Len(rank'[r].todo))
      BY <1>8, <1>9, <3>1
    <3>3. \A i \in 1..Len(rank'[r].todo) : rank'[r].todo[i] = Mini(r, Due(r, i))'
      BY <1>8, <1>11, <3>2
    <3> QED
      BY <3>2, <3>3 DEF TodoInv
  <2> QED
    BY <2>1, <2>2
<1>13. PlanInv(r)'
  <2>1. rank'[r].plan = <<>> /\ rank'[r].at # "forward"
    BY <1>1 DEF PlanInv
  <2> QED
    BY <2>1 DEF PlanInv
<1>14. rank'[r].at \in AtWork => Len(rank'[r].todo) = l - 1
  BY <1>6, <1>8
<1> QED
  BY <1>12, <1>13, <1>14 DEF l, todo

LEMMA PlaceInGrid ==
    ASSUME NEW q \in Nat, NEW k \in Nat \ {0}, NEW x \in 1..(q * k)
    PROVE  /\ (x - 1) \div k \in 0..(q - 1) /\ ((x - 1) % k) + 1 \in 1..k
           /\ x = (((x - 1) \div k) * k) + (((x - 1) % k) + 1)
  BY Grid

\* All mini batches of the update.
LEMMA WorkIs ==
    ASSUME Updates, NEW rows, NEW n \in Nat \ {0}, Long(rows, n),
           NEW m, m = MiniBatch, m \in Nat \ {0},
           NEW e, e = setup.epochs, e \in Nat \ {0},
           NEW c, c = NumPieces(n, m)
    PROVE  /\ Long(Work(rows), e * c) /\ Len(Work(rows)) = e * c /\ e * c \in Nat \ {0}
           /\ \A x \in 1..(e * c) : Work(rows)[x] = Split(rows, m)[((x - 1) % c) + 1]
<1> DEFINE pieces == [i \in 1..e |-> Split(rows, m)]
           u == Concat(pieces)
           T == e * c
<1>1. c \in Nat \ {0}
  BY PiecesAre
<1>2. Long(pieces, e) /\ \A i \in 1..e : pieces[i] = Split(rows, m)
  BY DEF Long
<1>3. Work(rows) = u
  BY DEF Work
<1>4. Long(Split(rows, m), c)
  BY SplitIs
<1> HIDE DEF pieces
<1>5. \A i \in 1..e : Long(pieces[i], c)
  BY <1>2, <1>4
<1>6. Piled(u, pieces, e, c)
  BY <1>1, <1>2, <1>5, ConcatIs
<1>7. T \in Nat \ {0}
  <2>1. \A a, b \in Nat \ {0} : a * b \in Nat \ {0}
    OBVIOUS
  <2> QED
    BY <1>1, <2>1
<1> HIDE DEF u
<1>8. Long(u, T)
  BY <1>6 DEF Piled
<1>9. ASSUME NEW x \in 1..T PROVE u[x] = Split(rows, m)[((x - 1) % c) + 1]
  <2> DEFINE s == (x - 1) \div c
             i == ((x - 1) % c) + 1
  <2>1. s \in 0..(e - 1) /\ i \in 1..c /\ x = (s * c) + i
    <3>1. e \in Nat
      OBVIOUS
    <3>2. x \in 1..(e * c)
      OBVIOUS
    <3> DEFINE a == (x - 1) \div c
               b == ((x - 1) % c) + 1
    <3>3. a \in 0..(e - 1) /\ b \in 1..c
      BY <1>1, <3>1, <3>2, PlaceInGrid, ZenonT(30)
    <3>4. x = (a * c) + b
      <4>1. x - 1 \in Nat /\ x \in Int
        BY <1>7
      <4>2. x - 1 = a * c + ((x - 1) % c) /\ (x - 1) % c \in Nat /\ a \in Nat
        <5> DEFINE v == x - 1
        <5>1. v \in Nat
          BY <4>1
        <5> HIDE DEF v
        <5>2. v % c \in 0..c - 1 /\ v \div c \in Nat /\ v = (v \div c) * c + (v % c)
          BY <1>1, <5>1, Division
        <5>3. v % c \in Nat
          BY <1>1, <5>2
        <5> QED
          BY <5>2, <5>3 DEF v
      <4> DEFINE y == (x - 1) % c
                 z == a * c
      <4>3. x - 1 = z + y /\ y \in Nat /\ z \in Nat
        BY <1>1, <4>2, Products
      <4> HIDE DEF y, z
      <4>4. x = z + (y + 1)
        BY <4>1, <4>3
      <4> QED
        BY <4>4 DEF y, z
    <3> QED
      BY <3>3, <3>4
  <2> HIDE DEF s, i
  <2>2. u[(s * c) + i] = pieces[s + 1][i] /\ s + 1 \in 1..e
    BY <1>1, <1>6, <2>1 DEF Piled
  <2>3. u[x] = Split(rows, m)[i]
    BY <1>2, <2>1, <2>2
  <2> QED
    BY <2>3 DEF i
<1> HIDE DEF T
<1>10. Len(u) = T
  BY <1>7, <1>8, LongIs
<1> QED
  BY <1>3, <1>7, <1>8, <1>9, <1>10 DEF T

\* A group that has gathered its rows has all its mini batches ahead.
LEMMA GatherIs ==
    ASSUME DeviceInv, NEW r \in Rank, Gather(r), NEW q \in Rank
    PROVE  LET rows == Concat([i \in 1..GroupSize |-> rank[Group(r)[i]].rows])
           IN  /\ UNCHANGED driver
               /\ r = LeaderOf(r) /\ \A i \in 1..GroupSize : rank[Group(r)[i]].at = "gather"
               /\ LeaderOf(q) # r => rank'[q] = rank[q]
               /\ LeaderOf(q) = r =>
                     /\ rank[q].at = "gather"
                     /\ rank'[q].rows = rows /\ rank'[q].plan = rank[q].plan
                     /\ rank'[q].todo = IF Generates THEN <<>> ELSE Work(rows)
                     /\ rank'[q].at = IF Generates THEN "generate" ELSE "plan"
<1> DEFINE rows == Concat([i \in 1..GroupSize |-> rank[Group(r)[i]].rows])
           todo == IF Generates THEN <<>> ELSE Work(rows)
           to == IF Generates THEN "generate" ELSE "plan"
<1>1. UNCHANGED driver /\ r = LeaderOf(r)
      /\ \A i \in 1..GroupSize : rank[Group(r)[i]].at = "gather"
  BY DEF Gather
<1>2. rank'[q] = IF LeaderOf(q) # r THEN rank[q]
                 ELSE [rank[q] EXCEPT !.rows = rows, !.todo = todo, !.at = to]
  BY DEF Gather
<1>3. DOMAIN rank[q] = {"at", "rows", "todo", "plan", "order", "out"}
  BY DEF DeviceInv, PlaceInv, Idle
<1> HIDE DEF rows, todo, to
<1>4. LeaderOf(q) = r => rank[q].at = "gather"
  <2> SUFFICES ASSUME LeaderOf(q) = r PROVE rank[q].at = "gather"
    OBVIOUS
  <2>1. PICK i \in 1..GroupSize : Group(r)[i] = q
    BY InGroup DEF DeviceInv, PlaceInv
  <2> QED
    BY <1>1, <2>1
<1>5. LeaderOf(q) # r => rank'[q] = rank[q]
  BY <1>2
<1>6. LeaderOf(q) = r => /\ rank'[q].rows = rows /\ rank'[q].plan = rank[q].plan
                         /\ rank'[q].todo = todo /\ rank'[q].at = to
  BY <1>2, <1>3
<1> QED
  BY <1>1, <1>4, <1>5, <1>6 DEF rows, todo, to

LEMMA GatherTodo ==
    ASSUME BatchInv, DeviceInv, NEW r \in Rank, Gather(r), NEW q \in Rank,
           TodoInv(q), PlanInv(q)
    PROVE  /\ TodoInv(q)' /\ PlanInv(q)'
           /\ Updates /\ LeaderOf(q) = r => Len(rank'[q].todo) = AllMinis
<1> DEFINE rows == Concat([i \in 1..GroupSize |-> rank[Group(r)[i]].rows])
           todo == Work(rows)
<1>1. /\ UNCHANGED <<setup, phase, batch, length>>
      /\ r = LeaderOf(r) /\ \A i \in 1..GroupSize : rank[Group(r)[i]].at = "gather"
      /\ LeaderOf(q) # r => rank'[q] = rank[q]
      /\ LeaderOf(q) = r =>
            /\ rank[q].at = "gather"
            /\ rank'[q].rows = rows /\ rank'[q].plan = rank[q].plan
            /\ rank'[q].todo = IF Generates THEN <<>> ELSE todo
            /\ rank'[q].at = IF Generates THEN "generate" ELSE "plan"
  BY GatherIs, Zenon DEF driver
<1> HIDE DEF rows, todo
<1>2. CASE LeaderOf(q) # r
  <2>1. rank'[q] = rank[q]
    BY <1>1, <1>2
  <2>2. TodoInv(q)' /\ PlanInv(q)'
    BY <1>1, <2>1, TodoStays, PlanStays
  <2> QED
    BY <1>2, <2>2
<1>3. CASE LeaderOf(q) = r
  <2>1. PlanInv(q)'
    <3>1. rank'[q].plan = <<>> /\ rank'[q].at # "forward"
      BY <1>1, <1>3 DEF PlanInv
    <3> QED
      BY <3>1 DEF PlanInv
  <2>2. ASSUME Updates PROVE TodoInv(q)' /\ Len(rank'[q].todo) = AllMinis
    <3>1. /\ GroupLen \in Nat \ {0} /\ MiniBatch \in Nat \ {0} /\ Minis \in Nat \ {0}
          /\ setup.epochs \in Nat \ {0} /\ AllMinis \in Nat \ {0}
      <4>1. rank[q].at # "idle"
        BY <1>1, <1>3
      <4> QED
        BY <4>1, MinisAre
    <3>2. Long(rows, GroupLen)
      BY <1>1, GroupRows DEF Slice, rows, GroupLen
    <3>3. /\ Long(todo, AllMinis) /\ Len(todo) = AllMinis
          /\ \A x \in 1..AllMinis :
                todo[x] = Split(rows, MiniBatch)[((x - 1) % Minis) + 1]
      <4> DEFINE n == GroupLen
                 m == MiniBatch
                 e == setup.epochs
                 c == Minis
      <4>1. c = NumPieces(n, m) /\ AllMinis = e * c
        BY DEF Minis, AllMinis
      <4>2. n \in Nat \ {0} /\ Long(rows, n) /\ m \in Nat \ {0} /\ e \in Nat \ {0}
        BY <3>1, <3>2
      <4>3. m = MiniBatch /\ e = setup.epochs
        OBVIOUS
      <4> HIDE DEF n, m, e, c
      <4>4. /\ Long(Work(rows), e * c) /\ Len(Work(rows)) = e * c
            /\ \A x \in 1..(e * c) : Work(rows)[x] = Split(rows, m)[((x - 1) % c) + 1]
        BY <2>2, <4>1, <4>2, <4>3, WorkIs
      <4> QED
        BY <4>1, <4>3, <4>4 DEF todo, c
    <3>4. rank'[q].rows = rows /\ rank'[q].todo = todo
      BY <1>1, <1>3, <2>2 DEF Updates, Generates
    <3>5. /\ Minis' = Minis /\ AllMinis' = AllMinis /\ MiniBatch' = MiniBatch
          /\ Updates' = Updates
      BY <1>1, WorkFrame
    <3>6. Behind(q)' = 0
      <4>1. Behind(q)' = AllMinis - Len(todo)
        BY <3>4, <3>5 DEF Behind
      <4> QED
        BY <3>1, <3>3, <4>1
    <3>7. ASSUME NEW i \in 1..AllMinis PROVE todo[i] = Mini(q, Due(q, i))'
      <4>1. Due(q, i)' = ((0 + i - 1) % Minis) + 1
        BY <3>5, <3>6 DEF Due
      <4>2. 0 + i - 1 = i - 1
        OBVIOUS
      <4>3. Mini(q, Due(q, i))' = Split(rows, MiniBatch)[Due(q, i)']
        BY <3>4, <3>5 DEF Mini
      <4> QED
        BY <3>3, <4>1, <4>2, <4>3
    <3>8. /\ Len(rank'[q].todo) = AllMinis /\ AllMinis \in 1..AllMinis
          /\ Long(rank'[q].todo, Len(rank'[q].todo))
      BY <3>1, <3>3, <3>4
    <3>9. \A i \in 1..Len(rank'[q].todo) : rank'[q].todo[i] = Mini(q, Due(q, i))'
      BY <3>4, <3>7, <3>8
    <3> QED
      BY <3>5, <3>8, <3>9 DEF TodoInv
  <2>3. ~Updates => TodoInv(q)'
    BY <1>1, WorkFrame DEF TodoInv
  <2> QED
    BY <2>1, <2>2, <2>3
<1> QED
  BY <1>2, <1>3

\* No rank comes to its mini batches, or leaves some behind.
LEMMA SameStays ==
    ASSUME SameInv, UNCHANGED <<setup, phase, batch, length>>,
           \A q \in Rank :
              /\ rank'[q].at \in AtWork => rank[q].at \in AtWork
              /\ rank'[q].at \in {"start", "gather"} => rank[q].at \in {"start", "gather"}
              /\ rank'[q].at \in AtWork => Len(rank'[q].todo) = Len(rank[q].todo)
    PROVE  SameInv'
<1>1. Updates' = Updates /\ Rank' = Rank /\ AllMinis' = AllMinis
  BY WorkFrame
<1>2. SUFFICES ASSUME Updates, NEW q \in Rank, NEW r \in Rank, rank'[r].at \in AtWork
      PROVE  /\ rank'[q].at \in AtWork => Len(rank'[q].todo) = Len(rank'[r].todo)
             /\ rank'[q].at \in {"start", "gather"} => Len(rank'[r].todo) = AllMinis
  BY <1>1 DEF SameInv, AtWork
<1>3. rank[r].at \in AtWork /\ Len(rank'[r].todo) = Len(rank[r].todo)
  BY <1>2
<1>4. /\ rank[q].at \in AtWork => Len(rank[q].todo) = Len(rank[r].todo)
      /\ rank[q].at \in {"start", "gather"} => Len(rank[r].todo) = AllMinis
  BY <1>2, <1>3 DEF SameInv
<1> QED
  BY <1>3, <1>4

\* The ranks go on with the work they have, or not.
LEMMA WorkStays ==
    ASSUME WorkInv, UNCHANGED <<setup, phase, batch, length>>,
           \A q \in Rank :
              \/ rank'[q] = rank[q]
              \/ /\ rank[q].at # "forward" /\ rank'[q].at \notin AtWork
                 /\ rank'[q].plan = rank[q].plan
                 /\ rank'[q].at \in {"start", "gather"} => rank[q].at \in {"start", "gather"}
    PROVE  WorkInv'
<1>1. Rank' = Rank
  BY WorkFrame
<1>2. SameInv'
  BY SameStays DEF WorkInv
<1>3. ASSUME NEW q \in Rank PROVE TodoInv(q)' /\ PlanInv(q)'
  <2>1. TodoInv(q) /\ PlanInv(q)
    BY DEF WorkInv
  <2>2. CASE rank'[q] = rank[q]
    BY <2>1, <2>2, TodoStays, PlanStays
  <2>3. CASE rank'[q] # rank[q]
    <3>1. /\ rank[q].at # "forward" /\ rank'[q].at \notin AtWork
          /\ rank'[q].plan = rank[q].plan
      BY <2>3
    <3>2. rank'[q].plan = <<>>
      BY <2>1, <3>1 DEF PlanInv
    <3>3. PlanInv(q)'
      BY <3>1, <3>2 DEF PlanInv, AtWork
    <3> QED
      BY <3>1, <3>3 DEF TodoInv, AtWork
  <2> QED
    BY <2>2, <2>3
<1> QED
  BY <1>1, <1>2, <1>3 DEF WorkInv

\* Before and after a call there is no work.
LEMMA NoWork ==
    ASSUME \A r \in Rank' : rank'[r].at \in {"idle", "start"} /\ rank'[r].plan = <<>>
    PROVE  WorkInv'
<1>1. \A r \in Rank' : rank'[r].at \notin AtWork /\ rank'[r].at # "forward"
  BY DEF AtWork
<1>2. SameInv'
  BY <1>1 DEF SameInv, AtWork
<1>3. \A r \in Rank' : TodoInv(r)'
  BY <1>1 DEF TodoInv, AtWork
<1>4. \A r \in Rank' : PlanInv(r)'
  BY <1>1 DEF PlanInv
<1> QED
  BY <1>2, <1>3, <1>4 DEF WorkInv

LEMMA RunKeepsWork == ASSUME BatchInv, DeviceInv, WorkInv, NEW r \in Rank, Run(r) PROVE WorkInv'
<1>1. UNCHANGED <<setup, phase, batch, length>>
  BY DEF Run, Load, Gather, Generate, PlanFixed, GiveBack, driver
<1>2. Rank' = Rank /\ AllMinis' = AllMinis /\ Updates' = Updates
  BY <1>1, WorkFrame
<1>3. DOMAIN rank = Rank
      /\ \A q \in Rank : DOMAIN rank[q] = {"at", "rows", "todo", "plan", "order", "out"}
  BY DEF DeviceInv, PlaceInv, Idle
<1>4. SameInv /\ \A q \in Rank : TodoInv(q) /\ PlanInv(q)
  BY DEF WorkInv
<1>5. CASE Load(r)
  <2> DEFINE to == IF Generates THEN "sync" ELSE "gather"
  <2>1. rank[r].at = "start" /\ rank' = [rank EXCEPT ![r].at = to]
    BY <1>5 DEF Load
  <2>2. to \in {"sync", "gather"}
    OBVIOUS
  <2> HIDE DEF to
  <2>3. /\ \A q \in Rank \ {r} : rank'[q] = rank[q]
        /\ rank'[r].at = to /\ rank'[r].plan = rank[r].plan
    BY <1>3, <2>1
  <2>4. rank[r].at # "forward" /\ rank'[r].at \notin AtWork
    BY <2>1, <2>2, <2>3 DEF AtWork
  <2> QED
    BY <1>1, <2>1, <2>3, <2>4, WorkStays
<1>6. CASE Generate(r)
  <2> DEFINE out == Own(r, [i \in DOMAIN Repeat(rank[r].rows, IF phase = "validate" THEN 1 ELSE setup.n) |->
                     <<Repeat(rank[r].rows, IF phase = "validate" THEN 1 ELSE setup.n)[i].uid,
                       ((i - 1) % (IF phase = "validate" THEN 1 ELSE setup.n)) + 1, engine[r]>>])
  <2>1. rank[r].at = "generate" /\ rank' = [rank EXCEPT ![r].out = out, ![r].at = "returned"]
    BY <1>6, Zenon DEF Generate
  <2> HIDE DEF out
  <2>2. /\ \A q \in Rank \ {r} : rank'[q] = rank[q]
        /\ rank'[r].at = "returned" /\ rank'[r].plan = rank[r].plan
    BY <1>3, <2>1
  <2>3. rank[r].at # "forward" /\ rank'[r].at \notin AtWork
        /\ rank'[r].at \notin {"start", "gather"}
    BY <2>1, <2>2 DEF AtWork
  <2> QED
    BY <1>1, <2>2, <2>3, WorkStays
<1>7. CASE GiveBack(r)
  <2> DEFINE out(back) == IF Updates THEN <<>>
                          ELSE Own(r, [i \in DOMAIN rank[r].out |-> rank[r].out[back[i]]])
  <2>1. rank[r].at = "back" /\ \E back : rank' = [rank EXCEPT ![r].at = "returned", ![r].out = out(back)]
    BY <1>7 DEF GiveBack
  <2> HIDE DEF out
  <2>2. /\ \A q \in Rank \ {r} : rank'[q] = rank[q]
        /\ rank'[r].at = "returned" /\ rank'[r].plan = rank[r].plan
    BY <1>3, <2>1
  <2>3. rank[r].at # "forward" /\ rank'[r].at \notin AtWork
        /\ rank'[r].at \notin {"start", "gather"}
    BY <2>1, <2>2 DEF AtWork
  <2> QED
    BY <1>1, <2>2, <2>3, WorkStays
<1>8. CASE PlanFixed(r)
  <2>1. rank[r].at = "plan" /\ TodoInv(r)' /\ PlanInv(r)' /\ rank'[r].todo = rank[r].todo
        /\ \A q \in Rank \ {r} : rank'[q] = rank[q]
    BY <1>4, <1>8, FixedPlan DEF PlanFixed
  <2>2. \A q \in Rank : TodoInv(q)' /\ PlanInv(q)'
    BY <1>1, <1>4, <2>1, TodoStays, PlanStays
  <2>3. rank[r].at \in AtWork /\ rank[r].at \notin {"start", "gather"}
    BY <2>1 DEF AtWork
  <2>4. rank'[r].at = "forward"
    BY <1>4, <1>8, FixedPlan
  <2>5. SameInv'
    <3>1. \A q \in Rank :
              /\ rank'[q].at \in AtWork => rank[q].at \in AtWork
              /\ rank'[q].at \in {"start", "gather"} => rank[q].at \in {"start", "gather"}
              /\ rank'[q].at \in AtWork => Len(rank'[q].todo) = Len(rank[q].todo)
      BY <2>1, <2>3, <2>4
    <3> QED
      BY <1>1, <1>4, <3>1, SameStays
  <2> QED
    BY <1>2, <2>2, <2>5 DEF WorkInv
<1>9. CASE Gather(r)
  <2>1. ASSUME NEW q \in Rank PROVE TodoInv(q)' /\ PlanInv(q)'
    BY <1>4, <1>9, GatherTodo
  <2>2. SameInv'
    <3>1. CASE ~Updates
      BY <1>2, <3>1 DEF SameInv
    <3>2. CASE Updates
      <4>1. ~Generates
        BY <3>2 DEF Updates, Generates
      <4>2. ASSUME NEW q \in Rank
            PROVE  \/ LeaderOf(q) # r /\ rank'[q] = rank[q]
                   \/ /\ LeaderOf(q) = r /\ rank[q].at = "gather" /\ rank'[q].at = "plan"
                      /\ Len(rank'[q].todo) = AllMinis
        <5>1. /\ LeaderOf(q) # r => rank'[q] = rank[q]
              /\ LeaderOf(q) = r => rank[q].at = "gather"
                                    /\ rank'[q].at = (IF Generates THEN "generate" ELSE "plan")
          BY <1>9, GatherIs
        <5>2. LeaderOf(q) = r => Len(rank'[q].todo) = AllMinis
          BY <1>4, <1>9, <3>2, GatherTodo
        <5> QED
          BY <4>1, <5>1, <5>2
      <4>3. \E q \in Rank : rank[q].at = "gather"
        <5>1. r = LeaderOf(r)
          BY <1>9 DEF Gather
        <5> QED
          BY <4>2, <5>1
      <4>4. ASSUME NEW q \in Rank, rank'[q].at \in AtWork
            PROVE  Len(rank'[q].todo) = AllMinis
        <5>1. CASE rank'[q] = rank[q]
          BY <1>4, <3>2, <4>3, <4>4, <5>1 DEF SameInv
        <5>2. CASE rank'[q] # rank[q]
          BY <4>2, <5>2
        <5> QED
          BY <5>1, <5>2
      <4> QED
        BY <1>2, <4>4 DEF SameInv, AtWork
    <3> QED
      BY <3>1, <3>2
  <2> QED
    BY <1>2, <2>1, <2>2 DEF WorkInv
<1> QED
  BY <1>5, <1>6, <1>7, <1>8, <1>9 DEF Run

LEMMA MeetKeepsWork == ASSUME BatchInv, DeviceInv, WorkInv, Meet PROVE WorkInv'
<1>1. UNCHANGED <<setup, phase, batch, length>>
  BY DEF Meet, Sync, PlanDynamic, Forward, Step, driver
<1>2. Rank' = Rank /\ AllMinis' = AllMinis /\ Updates' = Updates
  BY <1>1, WorkFrame
<1>3. SameInv /\ \A q \in Rank : TodoInv(q) /\ PlanInv(q)
  BY DEF WorkInv
<1>4. \A q \in Rank : DOMAIN rank[q] = {"at", "rows", "todo", "plan", "order", "out"}
  BY DEF DeviceInv, PlaceInv, Idle
<1>5. CASE Sync
  <2>1. ASSUME NEW q \in Rank
        PROVE  rank[q].at = "sync" /\ rank'[q] = [rank[q] EXCEPT !.at = "gather"] /\ Generates
    BY <1>5 DEF Sync, DeviceInv, PlaceInv
  <2>2. ASSUME NEW q \in Rank
        PROVE  rank'[q].at = "gather" /\ rank'[q].plan = <<>> /\ rank'[q].at \notin AtWork
    <3>1. rank'[q].at = "gather" /\ rank'[q].plan = rank[q].plan
      BY <1>4, <2>1
    <3>2. rank[q].plan = <<>>
      BY <1>3, <2>1 DEF PlanInv
    <3> QED
      BY <3>1, <3>2 DEF AtWork
  <2>3. SameInv' /\ \A q \in Rank : TodoInv(q)'
    BY <1>2, <2>2 DEF SameInv, TodoInv, AtWork
  <2>4. ASSUME NEW q \in Rank PROVE PlanInv(q)'
    BY <2>2 DEF PlanInv
  <2> QED
    BY <1>2, <2>3, <2>4 DEF WorkInv
<1>6. CASE PlanDynamic
  <2>1. ASSUME NEW q \in Rank
        PROVE  /\ TodoInv(q)' /\ PlanInv(q)' /\ Len(rank'[q].todo) = Len(rank[q].todo)
               /\ rank[q].at = "plan"
    BY <1>3, <1>6, DynamicPlans DEF PlanDynamic
  <2>2. \A q \in Rank : rank'[q].at = "forward"
    BY <1>3, <1>6, DynamicPlans
  <2>3. SameInv'
    <3>1. \A q \in Rank : rank[q].at \in AtWork /\ rank'[q].at \notin {"start", "gather"}
      BY <2>1, <2>2 DEF AtWork
    <3> QED
      BY <1>1, <1>3, <2>1, <3>1, SameStays
  <2> QED
    BY <1>2, <2>1, <2>3 DEF WorkInv
<1>7. CASE Forward
  <2>1. ASSUME NEW q \in Rank
        PROVE  /\ TodoInv(q)' /\ PlanInv(q)' /\ Len(rank'[q].todo) = Len(rank[q].todo)
               /\ rank[q].at \in AtWork /\ rank'[q].at \notin {"start", "gather"}
    <3>1. rank[q].at = "forward"
          /\ rank'[q].at = IF Len(rank[q].plan) > 1 THEN "forward"
                           ELSE IF Updates THEN "step" ELSE "back"
      BY <1>7, ForwardIs
    <3>2. TodoInv(q)' /\ PlanInv(q)' /\ Len(rank'[q].todo) = Len(rank[q].todo)
      BY <1>3, <1>7, ForwardPlan
    <3> QED
      BY <3>1, <3>2 DEF AtWork
  <2>2. SameInv'
    BY <1>1, <1>3, <2>1, SameStays
  <2> QED
    BY <1>2, <2>1, <2>2 DEF WorkInv
<1>8. CASE Step
  <2>1. ASSUME NEW q \in Rank
        PROVE  /\ TodoInv(q)' /\ PlanInv(q)'
               /\ rank'[q].at \in AtWork => Len(rank'[q].todo) = Len(rank[q].todo) - 1
               /\ rank[q].at \in AtWork /\ rank'[q].at \notin {"start", "gather"}
    <3>1. rank[q].at = "step" /\ rank'[q].at = IF Len(rank[q].todo) = 1 THEN "back" ELSE "plan"
      BY <1>8, StepIs
    <3>2. /\ TodoInv(q)' /\ PlanInv(q)'
          /\ rank'[q].at \in AtWork => Len(rank'[q].todo) = Len(rank[q].todo) - 1
      BY <1>3, <1>8, StepTodo
    <3> QED
      BY <3>1, <3>2 DEF AtWork
  <2>2. SameInv'
    <3>1. SUFFICES ASSUME Updates, NEW q \in Rank, NEW r \in Rank, rank'[r].at \in AtWork
          PROVE  /\ rank'[q].at \in AtWork => Len(rank'[q].todo) = Len(rank'[r].todo)
                 /\ rank'[q].at \in {"start", "gather"} => Len(rank'[r].todo) = AllMinis
      BY <1>2 DEF SameInv, AtWork
    <3>2. Len(rank[q].todo) = Len(rank[r].todo)
      BY <1>3, <2>1, <3>1 DEF SameInv
    <3> QED
      BY <2>1, <3>1, <3>2
  <2> QED
    BY <1>2, <2>1, <2>2 DEF WorkInv
<1> QED
  BY <1>5, <1>6, <1>7, <1>8 DEF Meet

LEMMA NextKeepsWork == ASSUME BatchInv, DeviceInv, WorkInv, [Next]_vars PROVE WorkInv'
<1>1. Idle.at = "idle" /\ Idle.plan = <<>>
  BY DEF Idle
<1>2. ASSUME rank' = [q \in Rank |-> Idle], setup' = setup PROVE WorkInv'
  <2>1. Rank' = Rank
    BY <1>2 DEF Rank
  <2>2. \A q \in Rank' : rank'[q].at \in {"idle", "start"} /\ rank'[q].plan = <<>>
    BY <1>1, <1>2, <2>1
  <2> QED
    BY <2>2, NoWork
<1>3. ASSUME \A q \in Rank : rank[q] = Idle, rank' = rank, setup' = setup PROVE WorkInv'
  <2>1. Rank' = Rank
    BY <1>3 DEF Rank
  <2>2. \A q \in Rank' : rank'[q].at \in {"idle", "start"} /\ rank'[q].plan = <<>>
    BY <1>1, <1>3, <2>1
  <2> QED
    BY <2>2, NoWork
<1>4. CASE Call
  <2>1. setup' = setup /\ \A q \in Rank : rank[q] = Idle
    BY <1>4 DEF Call, Fail
  <2>2. CASE Fail /\ UNCHANGED rank
    BY <1>3, <2>1, <2>2
  <2>3. CASE ~(Fail /\ UNCHANGED rank)
    <3> DEFINE rows(q) == Chunk(Sent, setup.world)[q]
    <3>1. rank' = [q \in Rank |-> [Idle EXCEPT !.at = "start", !.rows = rows(q)]]
      BY <1>4, <2>3, CallIs
    <3>2. DOMAIN Idle = {"at", "rows", "todo", "plan", "order", "out"}
      BY DEF Idle
    <3> HIDE DEF rows
    <3>3. \A q \in Rank : rank'[q].at = "start" /\ rank'[q].plan = <<>>
      BY <1>1, <3>1, <3>2
    <3>4. Rank' = Rank
      BY <2>1 DEF Rank
    <3> QED
      BY <3>3, <3>4, NoWork
  <2> QED
    BY <2>2, <2>3
<1>5. CASE EndValidate \/ EndGenerate \/ EndInfer \/ EndUpdateCritic \/ EndUpdateActor
  BY <1>2, <1>5 DEF EndValidate, EndGenerate, EndInfer, EndUpdateCritic, EndUpdateActor,
                    Fail, Free
<1>6. CASE Advantage
  <2>1. \A q \in Rank : rank[q] = Idle
    BY <1>6 DEF Advantage, DeviceInv, PlaceInv
  <2> QED
    BY <1>3, <1>6, <2>1 DEF Advantage
<1>7. CASE Score \/ UNCHANGED vars
  <2>1. UNCHANGED <<setup, phase, batch, length>> /\ rank' = rank
    BY <1>7 DEF Score, vars
  <2> QED
    BY <2>1, WorkStays
<1> QED
  BY <1>4, <1>5, <1>6, <1>7, RunKeepsWork, MeetKeepsWork DEF Next, Drive, Over

LEMMA InitWork == Init => LevelInv /\ WorkInv
<1> SUFFICES ASSUME Init PROVE LevelInv /\ WorkInv
  OBVIOUS
<1>1. LevelInv
  BY DEF Init, LevelInv
<1>2. \A r \in Rank : rank[r].at = "idle" /\ rank[r].plan = <<>>
  BY DEF Init, Idle
<1>3. SameInv /\ \A r \in Rank : TodoInv(r)
  BY <1>2 DEF SameInv, TodoInv, AtWork
<1>4. \A r \in Rank : PlanInv(r)
  BY <1>2 DEF PlanInv
<1> QED
  BY <1>1, <1>3, <1>4 DEF WorkInv

\* LevelWork of TrainingBatch: whatever the lengths of the responses, the
\* number of ranks and the sizes of groups, mini and micro batches, balanced
\* ranks differ by no more than two sequences may, and no micro batch of
\* rearrange_micro_batches is empty or holds more than a sequence above the
\* budget, though every rank takes as many as the neediest one.
THEOREM WorkIsLevel == Spec => []LevelWork
<1>1. Init => LevelInv /\ WorkInv
  BY InitWork
<1>2. BatchInv /\ DeviceInv /\ LevelInv /\ WorkInv /\ [Next]_vars => (LevelInv /\ WorkInv)'
  BY NextKeepsLevel, NextKeepsWork
<1>3. BatchInv /\ DeviceInv /\ LevelInv /\ WorkInv => LevelWork
  <2> SUFFICES ASSUME BatchInv, DeviceInv, LevelInv, WorkInv PROVE LevelWork
    OBVIOUS
  <2>1. setup.balance /\ phase = "log_prob" /\ (\A r \in Rank : rank[r].at = "start") =>
          \A q, r \in Rank :
              Tokens(rank[q].rows) <= Tokens(rank[r].rows) + Longest - Shortest
    BY LevelRanks
  <2>2. setup.dynamic => \A r \in Rank : \A i \in DOMAIN rank[r].plan :
          /\ rank[r].plan[i] # <<>>
          /\ Total(Lengths(Now(r)), rank[r].plan[i]) <= Budget + Longest
    BY DEF WorkInv, PlanInv
  <2> QED
    BY <2>1, <2>2 DEF LevelWork
<1>4. Init => BatchInv /\ DeviceInv
  BY InitBatch, InitDeviceInv
<1>5. BatchInv /\ DeviceInv /\ [Next]_vars => (BatchInv /\ DeviceInv)'
  BY NextKeepsBatch, NextKeepsDevice
<1> QED
  BY <1>1, <1>2, <1>3, <1>4, <1>5, PTL DEF Spec

-----------------------------------------------------------------------------
(* What has been trained on.                                               *)

\* The next mini batch, of the same epoch or of the next.
LEMMA NextTurn ==
    ASSUME NEW d \in Nat, NEW c \in Nat \ {0}
    PROVE  /\ (d % c) + 1 # c =>
                 (d + 1) % c = (d % c) + 1 /\ (d + 1) \div c = d \div c
           /\ (d % c) + 1 = c =>
                 (d + 1) % c = 0 /\ (d + 1) \div c = (d \div c) + 1
<1> DEFINE s == d \div c
           i == (d % c) + 1
<1>1. s \in Nat /\ i \in 1..c
  <2>1. d % c \in 0 .. c - 1 /\ s \in Nat
    BY Division
  <2> QED
    BY <2>1
<1>2. d = (s * c) + i - 1
  <2> DEFINE y == d % c
             z == s * c
  <2>1. d = z + y /\ y \in 0 .. c - 1
    BY Division
  <2>2. z \in Nat
    BY <1>1, Products
  <2> HIDE DEF y, z
  <2>3. d = z + (y + 1) - 1
    BY <2>1, <2>2
  <2> QED
    BY <2>3 DEF y, z
<1> HIDE DEF s, i
<1>3. ASSUME NEW u \in Nat, NEW j \in 1..c
      PROVE  (((u * c) + j) - 1) \div c = u /\ ((((u * c) + j) - 1) % c) + 1 = j
  <2>1. u + 1 \in Nat /\ u \in 0..((u + 1) - 1)
    BY <1>3
  <2> QED
    BY <2>1, Grid
<1>4. (s + 1) * c = s * c + c /\ s * c \in Nat
  BY <1>1, Products
<1>5. ASSUME i # c PROVE (d + 1) \div c = s /\ (d + 1) % c = i
  <2> DEFINE z == s * c
             v == (z + (i + 1)) - 1
  <2>1. i + 1 \in 1..c
    BY <1>1, <1>5
  <2>2. v \div c = s /\ (v % c) + 1 = i + 1
    BY <1>1, <1>3, <2>1
  <2>3. z \in Nat /\ d = z + i - 1
    BY <1>2, <1>4
  <2> HIDE DEF z
  <2>4. v = d + 1 /\ v \in Nat
    BY <1>1, <2>3
  <2> HIDE DEF v
  <2>5. v % c \in Nat
    BY <2>4, Division
  <2>6. v % c = i
    BY <1>1, <2>2, <2>5
  <2> QED
    BY <2>2, <2>4, <2>6
<1>6. ASSUME i = c PROVE (d + 1) \div c = s + 1 /\ (d + 1) % c = 0
  <2> DEFINE z == (s + 1) * c
             v == (z + 1) - 1
  <2>1. 1 \in 1..c /\ s + 1 \in Nat
    BY <1>1
  <2>2. v \div c = s + 1 /\ (v % c) + 1 = 1
    BY <1>3, <2>1
  <2>3. z \in Nat /\ d + 1 = z
    <3> DEFINE y == s * c
    <3>1. z = y + c /\ y \in Nat /\ d = y + i - 1
      BY <1>2, <1>4
    <3> HIDE DEF y, z
    <3> QED
      BY <1>6, <3>1
  <2> HIDE DEF z
  <2>4. v = d + 1 /\ v \in Nat
    BY <2>3
  <2> HIDE DEF v
  <2>5. v % c \in Nat
    BY <2>4, Division
  <2>6. v % c = 0
    BY <2>2, <2>5
  <2> QED
    BY <2>2, <2>4, <2>6
<1>7. (d % c) + 1 = i
  BY DEF i
<1> QED
  BY <1>5, <1>6, <1>7 DEF s

\* The rows of a group are in its own mini batches.
LEMMA RowPlaces ==
    ASSUME NEW n \in Nat \ {0}, NEW m \in Nat \ {0}, NEW x \in 1..n
    PROVE  /\ (x - 1) \div m \in 0..(NumPieces(n, m) - 1)
           /\ ((x - 1) % m) + 1 \in 1..PieceLen(((x - 1) \div m) + 1, n, m)
           /\ x = (((x - 1) \div m) * m) + (((x - 1) % m) + 1)
           /\ (x - 1) \div m \in Nat
<1> DEFINE d == (x - 1) \div m
           N == NumPieces(n, m)
<1>1. d + 1 \in 1..N /\ ((x - 1) % m) + 1 \in 1..PieceLen(d + 1, n, m)
      /\ x = (d * m) + (((x - 1) % m) + 1) /\ N \in Nat \ {0}
  <2>1. /\ N \in Nat \ {0}
        /\ \A y \in 1..n :
              /\ ((y - 1) \div m) + 1 \in 1..N
              /\ ((y - 1) % m) + 1 \in 1..PieceLen(((y - 1) \div m) + 1, n, m)
              /\ y = (((y - 1) \div m) * m) + (((y - 1) % m) + 1)
    BY PiecesAre, Zenon
  <2> QED
    BY <2>1, Zenon
<1>2. d \in Nat
  <2>1. x - 1 \in Nat
    OBVIOUS
  <2> QED
    BY <2>1, Division
<1> HIDE DEF d, N
<1>3. d \in 0..(N - 1)
  BY <1>1, <1>2
<1> QED
  BY <1>1, <1>2, <1>3 DEF d, N

\* The rows of a group are different trajectories.
LEMMA RowsDiffer ==
    ASSUME setup \in Setups, phase # "validate", AnsweredInv, NEW rows,
           NEW a \in Nat, NEW n \in Nat, a + n <= NumTrajectories, Slice(rows, batch, a, n)
    PROVE  /\ \A x, y \in 1..n : Of(rows[x]) = Of(rows[y]) => x = y
           /\ \A x \in 1..n : /\ Of(rows[x]) \in Trajectory
                              /\ rows[x].resp = <<rows[x].resp[1], rows[x].resp[2], rows[x].resp[3]>>
<1> DEFINE N == NumTrajectories
<1>1. N \in Nat
  BY SentIsBatch
<1>2. /\ \A i, j \in 1..N : Of(batch[i]) = Of(batch[j]) => i = j
      /\ \A i \in 1..N : Of(batch[i]) \in Trajectory
      /\ \A i \in 1..N : batch[i].resp = <<batch[i].resp[1], batch[i].resp[2], batch[i].resp[3]>>
  BY DEF AnsweredInv, N
<1> HIDE DEF N
<1>3. \A x \in 1..n : rows[x] = batch[a + x] /\ a + x \in 1..N
  <2>1. a + n <= N
    BY DEF N
  <2> QED
    BY <1>1, <2>1 DEF Slice
<1>4. ASSUME NEW x \in 1..n, NEW y \in 1..n, Of(rows[x]) = Of(rows[y]) PROVE x = y
  <2>1. a + x = a + y
    BY <1>2, <1>3, <1>4
  <2> QED
    BY <2>1
<1>5. \A x \in 1..n : /\ Of(rows[x]) \in Trajectory
                      /\ rows[x].resp = <<rows[x].resp[1], rows[x].resp[2], rows[x].resp[3]>>
  BY <1>2, <1>3
<1> QED
  BY <1>4, <1>5

\* h has the rows of a micro batch, counted in the mini batch.
PartOf(r, h) ==
    /\ DOMAIN Part(r) = DOMAIN h
    /\ \A i \in DOMAIN h :
          /\ h[i] \in 1..MiniBatch
          /\ Turn(r) * MiniBatch + h[i] \in 1..GroupLen
          /\ Part(r)[i] = rank[r].rows[Turn(r) * MiniBatch + h[i]]
    /\ \A i, j \in DOMAIN h : h[i] = h[j] => i = j

LEMMA PartRows ==
    ASSUME BatchInv, DeviceInv, Updates, NEW r \in Rank, TodoInv(r), PlanInv(r),
           rank[r].at = "forward", NEW h, h = Head(rank[r].plan)
    PROVE  PartOf(r, h)
<1> DEFINE plan == rank[r].plan
           n == NowLen(r)
           m == MiniBatch
           a == Turn(r) * m
           now == Now(r)
           rows == rank[r].rows
<1>1. /\ n \in Nat \ {0} /\ Known(now, n) /\ Turn(r) \in 0..(Minis - 1) /\ a \in Nat
      /\ Slice(now, rows, a, n) /\ a + n <= GroupLen
  BY NowIs DEF AtWork
<1>2. n \in 1..m /\ m \in Nat \ {0} /\ GroupLen \in Nat \ {0}
  <2> DEFINE g == GroupLen
             k == Turn(r) + 1
  <2>1. g \in Nat \ {0} /\ m \in Nat \ {0} /\ Minis \in Nat \ {0}
    BY MinisAre
  <2>2. k \in 1..NumPieces(g, m)
    BY <1>1, <2>1 DEF Minis
  <2>3. n = PieceLen(k, g, m)
    BY DEF NowLen
  <2> HIDE DEF g, k, m, n
  <2>4. PieceLen(k, g, m) \in 1..m
    BY <2>1, <2>2, PiecesAre
  <2> QED
    BY <2>1, <2>3, <2>4 DEF g
<1>3. Len(now) = n
  BY <1>1, LongIs DEF Known
<1>4. PICK order : Dealt(plan, order, n) /\ plan # <<>>
  BY <1>3 DEF PlanInv
<1> HIDE DEF n, m, a, now, rows, plan
<1>5. h \in Seq(1..n)
  BY <1>1, <1>4, DealtGoesOn DEF plan
<1>6. \A i \in DOMAIN h : h[i] \in 1..n
  <2> DEFINE X == 1..n
  <2>1. h \in Seq(X)
    BY <1>5
  <2> HIDE DEF X
  <2>2. \A i \in DOMAIN h : h[i] \in X
    BY <2>1
  <2> QED
    BY <2>2 DEF X
<1>7. DOMAIN Part(r) = DOMAIN h /\ \A i \in DOMAIN h : Part(r)[i] = now[h[i]]
  BY DEF Part, now
<1>8. ASSUME NEW i \in DOMAIN h
      PROVE  h[i] \in 1..m /\ a + h[i] \in 1..GroupLen /\ Part(r)[i] = rows[a + h[i]]
  <2>1. h[i] \in 1..n
    BY <1>6
  <2>2. h[i] \in 1..m /\ a + h[i] \in 1..GroupLen
    BY <1>1, <1>2, <2>1
  <2>3. now[h[i]] = rows[a + h[i]]
    BY <1>1, <2>1 DEF Slice
  <2> QED
    BY <1>7, <2>2, <2>3
<1>9. \A i, j \in DOMAIN h : h[i] = h[j] => i = j
  <2>1. 1 \in DOMAIN plan /\ plan[1] = h
    <3> DEFINE X == Seq(1..n)
    <3>1. plan \in Seq(X) /\ plan # <<>>
      BY <1>4 DEF Dealt
    <3> HIDE DEF X
    <3>2. 1 \in DOMAIN plan
      BY <3>1
    <3> QED
      BY <3>2 DEF plan
  <2> QED
    BY <1>4, <2>1 DEF Dealt
<1> QED
  BY <1>7, <1>8, <1>9 DEF a, m, rows, PartOf

LEMMA CountIs ==
    ASSUME BatchInv, DeviceInv, Updates, NEW r \in Rank, TodoInv(r), PlanInv(r),
           rank[r].at = "forward"
    PROVE  /\ \A x \in 1..GroupLen :
                 Count(r, Of(rank[r].rows[x])) =
                    IF (x - 1) \div MiniBatch = Turn(r) /\
                          In(Head(rank[r].plan), ((x - 1) % MiniBatch) + 1)
                    THEN 1 ELSE 0
           /\ \A t : (\A x \in 1..GroupLen : Of(rank[r].rows[x]) # t) => Count(r, t) = 0
<1> DEFINE h == Head(rank[r].plan)
           m == MiniBatch
           k == Turn(r)
           rows == rank[r].rows
           g == GroupLen
           Those(t) == {i \in DOMAIN h : Of(rows[k * m + h[i]]) = t}
<1>1. /\ DOMAIN Part(r) = DOMAIN h
      /\ \A i \in DOMAIN h :
            /\ h[i] \in 1..m /\ k * m + h[i] \in 1..g
            /\ Part(r)[i] = rows[k * m + h[i]]
      /\ \A i, j \in DOMAIN h : h[i] = h[j] => i = j
  <2> HIDE DEF h
  <2>1. h = Head(rank[r].plan)
    BY DEF h
  <2>2. PartOf(r, h)
    BY <2>1, PartRows
  <2> QED
    BY <2>2 DEF PartOf
<1>2. /\ m \in Nat \ {0} /\ g \in Nat \ {0} /\ Minis \in Nat \ {0}
  BY MinisAre
<1>3. k \in 0..(Minis - 1)
  BY NowIs DEF AtWork
<1>4. /\ \A x, y \in 1..g : Of(rows[x]) = Of(rows[y]) => x = y
      /\ \A x \in 1..g : rows[x].resp = <<rows[x].resp[1], rows[x].resp[2], rows[x].resp[3]>>
  <2> DEFINE a == (LeaderOf(r) - 1) * Size
  <2>1. /\ Answered /\ setup \in Setups /\ a \in Nat /\ a + g <= NumTrajectories
        /\ Slice(rows, batch, a, g)
    BY GroupRowsKnown DEF GroupLen
  <2>2. AnsweredInv /\ phase # "validate" /\ g \in Nat
    BY <1>2, <2>1 DEF BatchInv, DriverInv, Answered
  <2> HIDE DEF a, g, rows
  <2> QED
    BY <2>1, <2>2, RowsDiffer
<1> HIDE DEF h, m, k, rows, g
<1>5. ASSUME NEW t PROVE Count(r, t) = Cardinality(Those(t))
  <2>1. \A i \in DOMAIN h : SubSeq(Part(r)[i].resp, 1, 2) = Of(rows[k * m + h[i]])
    <3> TAKE i \in DOMAIN h
    <3> DEFINE row == rows[k * m + h[i]]
    <3>1. row.resp = <<row.resp[1], row.resp[2], row.resp[3]>> /\ Part(r)[i] = row
      BY <1>1, <1>4
    <3>2. SubSeq(<<row.resp[1], row.resp[2], row.resp[3]>>, 1, 2) = <<row.resp[1], row.resp[2]>>
      BY Pair
    <3> QED
      BY <3>1, <3>2 DEF Of
  <2>2. {i \in DOMAIN Part(r) : SubSeq(Part(r)[i].resp, 1, 2) = t} = Those(t)
    BY <1>1, <2>1
  <2> QED
    BY <2>2 DEF Count
<1>6. ASSUME NEW x \in 1..g
      PROVE  Count(r, Of(rows[x])) =
                IF (x - 1) \div m = k /\ In(h, ((x - 1) % m) + 1) THEN 1 ELSE 0
  <2> DEFINE d == (x - 1) \div m
             j == ((x - 1) % m) + 1
             t == Of(rows[x])
  <2>1. /\ d \in Nat /\ d \in 0..(Minis - 1) /\ x = d * m + j /\ j \in 1..m
    <3>1. d \in 0..(NumPieces(g, m) - 1) /\ x = (d * m) + j /\ d \in Nat
      BY <1>2, RowPlaces
    <3>2. x - 1 \in Nat
      BY <1>2
    <3>3. (x - 1) % m \in 0 .. m - 1
      BY <1>2, <3>2, Division
    <3>4. j \in 1..m
      BY <1>2, <3>3
    <3> QED
      BY <3>1, <3>4 DEF Minis, g, m
  <2> HIDE DEF d, j
  <2>2. ASSUME NEW i \in DOMAIN h
        PROVE  i \in Those(t) <=> d = k /\ h[i] = j
    <3> DEFINE y == k * m + h[i]
    <3>1. h[i] \in 1..m /\ y \in 1..g
      BY <1>1
    <3>2. i \in Those(t) <=> y = x
      <4>1. i \in Those(t) <=> Of(rows[y]) = Of(rows[x])
        OBVIOUS
      <4> HIDE DEF y
      <4> QED
        BY <1>4, <3>1, <4>1
    <3>3. y = x <=> (k = d /\ h[i] = j)
      <4>1. Minis \in Nat
        BY <1>2
      <4>2. (k * m) + h[i] = (d * m) + j => k = d /\ h[i] = j
        BY <1>2, <1>3, <2>1, <3>1, <4>1, Grid
      <4>3. k = d /\ h[i] = j => y = (d * m) + j
        OBVIOUS
      <4> QED
        BY <2>1, <4>2, <4>3
    <3> HIDE DEF y
    <3> QED
      BY <3>2, <3>3
  <2>3. CASE d = k /\ In(h, j)
    <3>1. PICK i \in DOMAIN h : h[i] = j
      BY <2>3 DEF In
    <3>2. Those(t) = {i}
      <4>1. \A l \in DOMAIN h : l \in Those(t) <=> l = i
        BY <1>1, <2>2, <2>3, <3>1
      <4>2. Those(t) \subseteq DOMAIN h
        OBVIOUS
      <4> HIDE DEF Those
      <4> QED
        BY <3>1, <4>1, <4>2
    <3>3. Cardinality({i}) = 1
      BY FS_Singleton
    <3> QED
      BY <1>5, <2>3, <3>2, <3>3 DEF d, j
  <2>4. CASE ~(d = k /\ In(h, j))
    <3>1. \A l \in DOMAIN h : l \notin Those(t)
      BY <2>2, <2>4 DEF In
    <3>2. Those(t) = {}
      BY <3>1
    <3>3. Cardinality({}) = 0
      BY FS_EmptySet
    <3> QED
      BY <1>5, <2>4, <3>2, <3>3 DEF d, j
  <2> QED
    BY <2>3, <2>4
<1>7. ASSUME NEW t, \A x \in 1..g : Of(rows[x]) # t PROVE Count(r, t) = 0
  <2>1. Those(t) = {}
    BY <1>1, <1>7
  <2>2. Cardinality({}) = 0
    BY FS_EmptySet
  <2> QED
    BY <1>5, <2>1, <2>2
<1> QED
  BY <1>6, <1>7 DEF h, m, k, rows, g

\* A rank whose rows and counts stay.
LEMMA TrainedStays ==
    ASSUME UNCHANGED <<setup, phase, batch, length>>, NEW r, HasTrained(r),
           trained'[Used][r] = trained[Used][r], rank'[r].rows = rank[r].rows,
           \A x \in 1..GroupLen : Times(r, x)' = Times(r, x)
    PROVE  HasTrained(r)'
<1>1. /\ GroupLen' = GroupLen /\ Size' = Size /\ LeaderOf(r)' = LeaderOf(r)
      /\ batch' = batch /\ Used' = Used /\ Trajectory' = Trajectory
  BY WorkFrame
<1> QED
  BY <1>1 DEF HasTrained, Of

LEMMA TrainStays ==
    ASSUME UNCHANGED <<setup, phase, batch, length>>, NEW r, TrainInv(r),
           trained'[Used][r] = trained[Used][r], rank'[r] = rank[r]
    PROVE  TrainInv(r)'
<1>1. Updates' = Updates /\ Used' = Used /\ Trajectory' = Trajectory
  BY WorkFrame
<1>2. ASSUME NEW x PROVE Times(r, x)' = Times(r, x)
  <2>1. Turn(r)' = Turn(r) /\ Epoch(r)' = Epoch(r)
    BY WorkFrame DEF Turn, Epoch, Behind
  <2>2. Past(r, x)' = Past(r, x)
    BY WorkFrame DEF Past
  <2>3. MiniBatch' = MiniBatch /\ setup' = setup
    BY WorkFrame
  <2> QED
    BY <2>1, <2>2, <2>3 DEF Times
<1>3. HasTrained(r) => HasTrained(r)'
  BY <1>2, TrainedStays
<1> QED
  BY <1>1, <1>3 DEF TrainInv, AtWork

\* A group that has just gathered its rows has trained on none of them.
LEMMA GatherTrains ==
    ASSUME BatchInv, DeviceInv, NEW r \in Rank, Gather(r), NEW q \in Rank, TrainInv(q)
    PROVE  TrainInv(q)'
<1> DEFINE rows == Concat([i \in 1..GroupSize |-> rank[Group(r)[i]].rows])
           todo == Work(rows)
<1>1. /\ UNCHANGED <<setup, phase, batch, length>> /\ UNCHANGED trained
      /\ r = LeaderOf(r) /\ \A i \in 1..GroupSize : rank[Group(r)[i]].at = "gather"
      /\ LeaderOf(q) # r => rank'[q] = rank[q]
      /\ LeaderOf(q) = r =>
            /\ rank[q].at = "gather"
            /\ rank'[q].rows = rows
            /\ rank'[q].todo = IF Generates THEN <<>> ELSE todo
            /\ rank'[q].at = IF Generates THEN "generate" ELSE "plan"
  <2>1. UNCHANGED <<setup, phase, batch, length>> /\ UNCHANGED trained
    BY DEF Gather, driver, device
  <2> QED
    BY <2>1, GatherIs, Zenon
<1> HIDE DEF rows, todo
<1>2. CASE LeaderOf(q) # r
  BY <1>1, <1>2, TrainStays
<1>3. CASE ~Updates
  BY <1>1, <1>3, WorkFrame DEF TrainInv
<1>4. CASE LeaderOf(q) = r /\ Updates
  <2>1. /\ GroupLen \in Nat \ {0} /\ MiniBatch \in Nat \ {0} /\ Minis \in Nat \ {0}
        /\ setup.epochs \in Nat \ {0} /\ AllMinis \in Nat \ {0} /\ setup \in Setups
    <3>1. rank[q].at # "idle"
      BY <1>1, <1>4
    <3> QED
      BY <3>1, MinisAre
  <2>2. rank[q].at = "gather" /\ rank'[q].rows = rows /\ rank'[q].todo = todo
        /\ rank'[q].at = "plan"
    BY <1>1, <1>4 DEF Updates, Generates
  <2>3. Slice(rows, Sent, (r - 1) * Size, GroupLen)
    BY <1>1, GroupRows DEF rows, GroupLen
  <2>4. Sent = batch
    BY <1>4, <2>1, SentIsBatch DEF BatchInv, DriverInv, Answered, Updates, Phases
  <2>5. /\ GroupLen' = GroupLen /\ Size' = Size /\ LeaderOf(q)' = LeaderOf(q)
        /\ batch' = batch /\ Used' = Used /\ Trajectory' = Trajectory
        /\ Minis' = Minis /\ AllMinis' = AllMinis /\ MiniBatch' = MiniBatch
    BY <1>1, WorkFrame
  <2>6. Behind(q)' = 0
    <3>1. Len(todo) = AllMinis
      <4> DEFINE n == GroupLen
                 m == MiniBatch
                 e == setup.epochs
                 c == Minis
      <4>1. c = NumPieces(n, m) /\ AllMinis = e * c
        BY DEF Minis, AllMinis
      <4>2. n \in Nat \ {0} /\ Long(rows, n) /\ m \in Nat \ {0} /\ e \in Nat \ {0}
        BY <2>1, <2>3 DEF Slice
      <4>3. m = MiniBatch /\ e = setup.epochs
        OBVIOUS
      <4> HIDE DEF n, m, e, c
      <4>4. Len(Work(rows)) = e * c
        BY <1>4, <4>1, <4>2, <4>3, WorkIs
      <4> QED
        BY <4>1, <4>4 DEF todo
    <3>2. Behind(q)' = AllMinis - Len(todo)
      BY <2>2, <2>5 DEF Behind
    <3> QED
      BY <2>1, <3>1, <3>2
  <2>7. ASSUME NEW x \in 1..GroupLen PROVE Times(q, x)' = 0
    <3>1. Turn(q)' = 0 /\ Epoch(q)' = 0
      <4>1. \A c \in Nat \ {0} : 0 % c = 0 /\ 0 \div c = 0
        OBVIOUS
      <4> QED
        BY <2>1, <2>5, <2>6, <4>1 DEF Turn, Epoch
    <3>2. ~Past(q, x)'
      BY <2>2 DEF Past
    <3>3. (x - 1) \div MiniBatch \in Nat
      BY <2>1, RowPlaces
    <3>4. ~((x - 1) \div MiniBatch < 0)
      BY <3>3
    <3> QED
      BY <2>2, <2>5, <3>1, <3>2, <3>4 DEF Times
  <2>8. \A t \in Trajectory : trained'[Used][q][t] = 0
    BY <1>1, <1>4, <2>2 DEF TrainInv
  <2>9. \A x \in 1..GroupLen : Of(rows[x]) \in Trajectory
    <3> DEFINE a == (LeaderOf(r) - 1) * Size
               g == GroupLen
    <3>1. AnsweredInv /\ phase # "validate"
      BY <1>4 DEF BatchInv, DriverInv, Answered, Updates, Phases
    <3>2. a \in Nat /\ a + g <= NumTrajectories
      <4>1. rank[r].at # "idle"
        <5>1. \E i \in 1..GroupSize : Group(LeaderOf(r))[i] = r
          BY <2>1, InGroup
        <5> QED
          BY <1>1, <5>1
      <4>2. a \in Nat /\ a + g <= Len(Sent)
        BY <4>1, CallSizes DEF GroupLen
      <4>3. Len(Sent) = NumTrajectories
        BY <2>1, <2>4, <3>1, SentIsBatch
      <4> QED
        BY <4>2, <4>3
    <3>3. Slice(rows, batch, a, g) /\ g \in Nat
      BY <1>1, <2>1, <2>3, <2>4
    <3> HIDE DEF a, g
    <3>4. \A x \in 1..g : Of(rows[x]) \in Trajectory
      BY <2>1, <3>1, <3>2, <3>3, RowsDiffer
    <3> QED
      BY <3>4 DEF g
  <2>10. HasTrained(q)'
    <3>1. Slice(rank'[q].rows, batch', (LeaderOf(q)' - 1) * Size', GroupLen')
      BY <1>4, <2>2, <2>3, <2>4, <2>5
    <3>2. \A x \in 1..GroupLen : trained'[Used][q][Of(rows[x])] = Times(q, x)'
      BY <2>7, <2>8, <2>9
    <3> QED
      BY <2>2, <2>5, <2>8, <3>1, <3>2 DEF HasTrained, Of
  <2> QED
    BY <2>2, <2>10 DEF TrainInv
<1> QED
  BY <1>2, <1>3, <1>4

\* A plan that has all rows of the mini batch.
LEMMA PlanTrains ==
    ASSUME BatchInv, DeviceInv, UNCHANGED driver, UNCHANGED trained, NEW r \in Rank,
           TodoInv(r), TrainInv(r), rank[r].at = "plan", rank'[r].at = "forward",
           rank'[r].rows = rank[r].rows, rank'[r].todo = rank[r].todo,
           Complete(rank'[r].plan, NowLen(r))
    PROVE  TrainInv(r)'
<1>1. UNCHANGED <<setup, phase, batch, length>>
  BY DEF driver
<1>2. CASE ~Updates
  BY <1>1, <1>2, WorkFrame DEF TrainInv
<1>3. CASE Updates
  <2>1. /\ GroupLen \in Nat \ {0} /\ MiniBatch \in Nat \ {0}
    BY MinisAre
  <2>2. Turn(r)' = Turn(r) /\ Epoch(r)' = Epoch(r)
    BY <1>1, WorkFrame DEF Turn, Epoch, Behind
  <2>3. MiniBatch' = MiniBatch
    BY <1>1, WorkFrame
  <2>4. ASSUME NEW x \in 1..GroupLen PROVE Times(r, x)' = Times(r, x)
    <3> DEFINE d == (x - 1) \div MiniBatch
               j == ((x - 1) % MiniBatch) + 1
    <3>1. ~Past(r, x)
      BY DEF Past
    <3>2. d = Turn(r) => ~Past(r, x)'
      <4> SUFFICES ASSUME d = Turn(r) PROVE ~Past(r, x)'
        OBVIOUS
      <4>1. j \in 1..PieceLen(d + 1, GroupLen, MiniBatch)
        BY <2>1, RowPlaces
      <4> HIDE DEF j
      <4>2. j \in 1..NowLen(r)
        BY <1>3, <4>1 DEF NowLen
      <4>3. \E p \in DOMAIN rank'[r].plan : In(rank'[r].plan[p], j)
        BY <4>2 DEF Complete
      <4>4. j = ((x - 1) % MiniBatch') + 1
        BY <2>3 DEF j
      <4> QED
        BY <4>3, <4>4 DEF Past
    <3> HIDE DEF j
    <3> QED
      BY <2>2, <2>3, <3>1, <3>2 DEF Times
  <2>5. HasTrained(r)
    BY <1>3 DEF TrainInv, AtWork
  <2>6. HasTrained(r)'
    BY <1>1, <2>4, <2>5, TrainedStays
  <2> QED
    BY <2>6 DEF TrainInv
<1> QED
  BY <1>2, <1>3

\* The rows of a plan are those of the first micro batch and those of the rest.
InPlan(plan, x) == \E p \in DOMAIN plan : In(plan[p], x)

LEMMA PlanParts ==
    ASSUME NEW plan, NEW order, NEW n \in Nat, Dealt(plan, order, n), plan # <<>>, NEW x
    PROVE  /\ InPlan(plan, x) <=> (In(Head(plan), x) \/ InPlan(Tail(plan), x))
           /\ ~(In(Head(plan), x) /\ InPlan(Tail(plan), x))
           /\ Tail(plan) = <<>> <=> ~(Len(plan) > 1)
<1> DEFINE X == Seq(1..n)
           u == Tail(plan)
           h == Head(plan)
<1>1. plan \in Seq(X)
  BY DEF Dealt
<1> HIDE DEF X
<1>2. /\ u \in Seq(X) /\ Len(u) = Len(plan) - 1 /\ Len(plan) \in Nat \ {0}
      /\ u = <<>> <=> ~(Len(plan) > 1)
      /\ \A i \in DOMAIN u : i + 1 \in DOMAIN plan /\ u[i] = plan[i + 1]
  BY <1>1, TailIs
<1>3. DOMAIN plan = 1..Len(plan) /\ h = plan[1]
  BY <1>1
<1> HIDE DEF u, h
<1>4. DOMAIN u = 1..(Len(plan) - 1)
  BY <1>2
<1>5. InPlan(plan, x) => In(h, x) \/ InPlan(u, x)
  <2> SUFFICES ASSUME NEW p \in DOMAIN plan, In(plan[p], x) PROVE In(h, x) \/ InPlan(u, x)
    BY DEF InPlan
  <2>1. CASE p = 1
    BY <1>3, <2>1
  <2>2. CASE p # 1
    <3>1. p - 1 \in DOMAIN u /\ (p - 1) + 1 = p
      BY <1>2, <1>3, <1>4, <2>2
    <3> QED
      BY <1>2, <3>1 DEF InPlan
  <2> QED
    BY <2>1, <2>2
<1>6. In(h, x) \/ InPlan(u, x) => InPlan(plan, x)
  <2>1. 1 \in DOMAIN plan
    BY <1>2, <1>3
  <2> QED
    BY <1>2, <1>3, <2>1 DEF InPlan
<1>7. ~(In(h, x) /\ InPlan(u, x))
  <2> SUFFICES ASSUME In(plan[1], x), NEW p \in DOMAIN u, In(u[p], x) PROVE FALSE
    BY <1>3 DEF InPlan
  <2>1. 1 \in DOMAIN plan /\ p + 1 \in DOMAIN plan /\ In(plan[p + 1], x)
    BY <1>2, <1>3
  <2>2. \A y, z \in DOMAIN plan : In(plan[y], x) /\ In(plan[z], x) => y = z
    BY DEF Dealt, In
  <2>3. p + 1 = 1
    BY <2>1, <2>2
  <2> QED
    BY <1>2, <1>4, <2>3
<1> QED
  BY <1>2, <1>5, <1>6, <1>7 DEF u, h

LEMMA CountsGrow ==
    ASSUME DeviceInv, ShapeInv, Forward
    PROVE  /\ ShapeInv'
           /\ ~Updates => trained' = trained
           /\ \A m \in Model : m # Used => trained'[m] = trained[m]
           /\ Updates => \A r \in Rank : \A t \in Trajectory :
                 trained'[Used][r][t] = trained[Used][r][t] + Count(r, t)
<1> DEFINE C == [r \in Rank |-> [t \in Trajectory |-> trained[Used][r][t] + Count(r, t)]]
<1>1. \/ ~Updates /\ trained' = trained
      \/ Updates /\ trained' = [trained EXCEPT ![Used] = C]
  BY Zenon DEF Forward
<1>2. setup' = setup
  BY DEF Forward, driver
<1>3. Rank' = Rank /\ Trajectory' = Trajectory
  BY <1>2 DEF Rank, Trajectory
<1>4. Used \in Model
  BY Sizes DEF DeviceInv, PlaceInv
<1>5. DOMAIN trained = Model
      /\ \A m \in Model : trained[m] = [r \in Rank |-> [t \in Trajectory |-> trained[m][r][t]]]
  BY DEF ShapeInv
<1>6. CASE trained' = trained /\ ~Updates
  BY <1>3, <1>6 DEF ShapeInv
<1>7. CASE trained' = [trained EXCEPT ![Used] = C] /\ Updates
  <2>1. C = [r \in Rank |-> [t \in Trajectory |-> C[r][t]]]
    OBVIOUS
  <2>2. \A r \in Rank : \A t \in Trajectory :
            C[r][t] = trained[Used][r][t] + Count(r, t)
    OBVIOUS
  <2> HIDE DEF C
  <2>3. trained = [m \in Model |-> trained[m]]
    BY DEF ShapeInv
  <2>4. trained' = [m \in Model |-> IF m = Used THEN C ELSE trained[m]]
    BY <1>7, <2>3
  <2>5. /\ trained'[Used] = C /\ trained' = [m \in Model |-> trained'[m]]
        /\ \A m \in Model : m # Used => trained'[m] = trained[m]
    BY <1>4, <2>4
  <2>6. \A m \in Model : trained'[m] = [r \in Rank |-> [t \in Trajectory |-> trained'[m][r][t]]]
    BY <1>5, <2>1, <2>5
  <2>7. ShapeInv'
    BY <1>3, <2>5, <2>6 DEF ShapeInv
  <2> QED
    BY <1>7, <2>2, <2>5, <2>7
<1> QED
  BY <1>1, <1>6, <1>7

LEMMA ForwardTrains ==
    ASSUME BatchInv, DeviceInv, ShapeInv, NEW r \in Rank, TodoInv(r), PlanInv(r),
           TrainInv(r), Forward
    PROVE  TrainInv(r)'
<1> DEFINE plan == rank[r].plan
           rows == rank[r].rows
           g == GroupLen
           m == MiniBatch
           k == Turn(r)
           e == Epoch(r)
<1>1. /\ UNCHANGED <<setup, phase, batch, length>> /\ rank[r].at = "forward"
      /\ rank'[r].rows = rank[r].rows /\ rank'[r].todo = rank[r].todo
      /\ rank'[r].plan = Tail(plan)
      /\ rank'[r].at = IF Len(plan) > 1 THEN "forward"
                       ELSE IF Updates THEN "step" ELSE "back"
  BY ForwardIs DEF driver
<1>2. CASE ~Updates
  BY <1>1, <1>2, WorkFrame DEF TrainInv
<1>3. CASE Updates
  <2>1. g \in Nat \ {0} /\ m \in Nat \ {0} /\ Minis \in Nat \ {0}
    BY <1>1, MinisAre
  <2>2. k \in Nat /\ e \in Nat
    <3>1. Behind(r) \in Nat /\ k \in 0..(Minis - 1)
      BY <1>1, <1>3, NowIs DEF AtWork
    <3> QED
      BY <2>1, <3>1, Division DEF Epoch
  <2>3. Turn(r)' = k /\ Epoch(r)' = e /\ MiniBatch' = m
    BY <1>1, WorkFrame DEF Turn, Epoch, Behind
  <2>4. /\ \A x \in 1..g :
              Count(r, Of(rows[x])) =
                 IF (x - 1) \div m = k /\ In(Head(plan), ((x - 1) % m) + 1) THEN 1 ELSE 0
        /\ \A t : (\A x \in 1..g : Of(rows[x]) # t) => Count(r, t) = 0
    BY <1>1, <1>3, CountIs
  <2>5. HasTrained(r)
    BY <1>1, <1>3 DEF TrainInv, AtWork
  <2>6. \A t \in Trajectory : trained'[Used][r][t] = trained[Used][r][t] + Count(r, t)
    BY <1>3, CountsGrow
  <2>7. \A x \in 1..g : Of(rows[x]) \in Trajectory
    <3> DEFINE n == GroupSize * Size
    <3>1. Known(rows, n)
      BY <1>1, GroupRowsKnown
    <3> QED
      BY <3>1 DEF Known, GroupLen
  <2>8. PICK order : Dealt(plan, order, Len(Now(r))) /\ plan # <<>>
    BY <1>1 DEF PlanInv
  <2>9. Len(Now(r)) \in Nat
    <3> DEFINE n == NowLen(r)
    <3>1. n \in Nat /\ Known(Now(r), n)
      BY <1>1, NowIs DEF AtWork
    <3> HIDE DEF n
    <3> QED
      BY <3>1, LongIs DEF Known
  <2> HIDE DEF plan, g, m, k, e, rows
  <2>10. ASSUME NEW x \in 1..g
         PROVE  Times(r, x) \in Nat /\ Times(r, x)' = Times(r, x) + Count(r, Of(rows[x]))
    <3> DEFINE d == (x - 1) \div m
               j == ((x - 1) % m) + 1
               h == Head(plan)
               u == Tail(plan)
    <3>1. /\ InPlan(plan, j) <=> (In(h, j) \/ InPlan(u, j))
          /\ ~(In(h, j) /\ InPlan(u, j))
          /\ u = <<>> <=> ~(Len(plan) > 1)
      BY <2>8, <2>9, PlanParts
    <3>2. d \in Nat
      BY <2>1, RowPlaces
    <3> HIDE DEF h, u, d, j
    <3>3. Past(r, x) <=> ~InPlan(plan, j)
      BY <1>1 DEF Past, InPlan, j, plan, m
    <3>4. Past(r, x)' <=> ~InPlan(u, j)
      <4>1. rank'[r].plan = u /\ j = ((x - 1) % MiniBatch') + 1
        BY <1>1, <2>3 DEF u, j
      <4>2. CASE rank'[r].at = "forward"
        BY <4>1, <4>2 DEF Past, InPlan
      <4>3. CASE rank'[r].at # "forward"
        <5>1. u = <<>> /\ rank'[r].at = "step"
          BY <1>1, <1>3, <3>1, <4>3
        <5>2. ~InPlan(u, j)
          BY <5>1 DEF InPlan
        <5> QED
          BY <5>1, <5>2 DEF Past
      <4> QED
        BY <4>2, <4>3
    <3>5. Times(r, x) = IF d < k \/ (d = k /\ Past(r, x)) THEN e + 1 ELSE e
      BY <1>1 DEF Times, d, k, e, m
    <3>6. Times(r, x)' = IF d < k \/ (d = k /\ Past(r, x)') THEN e + 1 ELSE e
      BY <1>1, <1>3, <2>3 DEF Times, d
    <3>7. Count(r, Of(rows[x])) = IF d = k /\ In(h, j) THEN 1 ELSE 0
      BY <2>4 DEF d, j, h
    <3>8. CASE d = k /\ In(h, j)
      <4>1. Times(r, x) = e /\ Times(r, x)' = e + 1
        BY <2>2, <3>1, <3>2, <3>3, <3>4, <3>5, <3>6, <3>8
      <4> QED
        BY <2>2, <3>7, <3>8, <4>1
    <3>9. CASE ~(d = k /\ In(h, j))
      <4>1. Times(r, x)' = Times(r, x) /\ Times(r, x) \in Nat
        BY <2>2, <3>1, <3>2, <3>3, <3>4, <3>5, <3>6, <3>9
      <4> QED
        BY <3>7, <3>9, <4>1
    <3> QED
      BY <3>8, <3>9
  <2>11. /\ GroupLen' = g /\ Size' = Size /\ LeaderOf(r)' = LeaderOf(r)
         /\ batch' = batch /\ Used' = Used /\ Trajectory' = Trajectory
         /\ rank'[r].rows = rows
    BY <1>1, WorkFrame DEF g, rows
  <2>12. /\ Slice(rows, batch, (LeaderOf(r) - 1) * Size, g)
         /\ \A x \in 1..g : trained[Used][r][Of(rows[x])] = Times(r, x)
         /\ \A t \in Trajectory :
                (\A x \in 1..g : Of(rows[x]) # t) => trained[Used][r][t] = 0
    BY <2>5 DEF HasTrained, g, rows
  <2>13. \A x \in 1..g : trained'[Used][r][Of(rows[x])] = Times(r, x)'
    BY <2>6, <2>7, <2>10, <2>12
  <2>14. \A t \in Trajectory :
             (\A x \in 1..g : Of(rows[x]) # t) => trained'[Used][r][t] = 0
    BY <2>4, <2>6, <2>12
  <2>15. HasTrained(r)'
    BY <2>11, <2>12, <2>13, <2>14 DEF HasTrained, Of
  <2> QED
    BY <1>1, <1>3, <2>15 DEF TrainInv
<1> QED
  BY <1>2, <1>3

\* The mini batch is behind, and the epoch with its last one.
LEMMA StepTrains ==
    ASSUME BatchInv, DeviceInv, NEW r \in Rank, TodoInv(r), TrainInv(r), Step
    PROVE  TrainInv(r)'
<1> DEFINE todo == rank[r].todo
           l == Len(todo)
           m == MiniBatch
           k == Turn(r)
           e == Epoch(r)
           c == Minis
           b == Behind(r)
<1>1. /\ UNCHANGED <<setup, phase, batch, length>> /\ rank[r].at = "step"
      /\ rank'[r].rows = rank[r].rows /\ rank'[r].todo = Tail(todo)
      /\ rank'[r].at = IF l = 1 THEN "back" ELSE "plan"
  BY StepIs
<1>2. Updates /\ trained' = trained
  BY <1>1 DEF BatchInv, RankInv, ModelInv, Step
<1>3. /\ AllMinis \in Nat \ {0} /\ c \in Nat \ {0} /\ GroupLen \in Nat \ {0}
      /\ m \in Nat \ {0} /\ setup.epochs \in Nat \ {0}
  BY <1>1, MinisAre
<1>4. l \in 1..AllMinis /\ Long(todo, l) /\ b = AllMinis - l
  BY <1>1, <1>2 DEF TodoInv, AtWork, Behind
<1>5. HasTrained(r)
  BY <1>1, <1>2 DEF TrainInv, AtWork
<1>6. /\ Minis' = c /\ AllMinis' = AllMinis /\ MiniBatch' = m /\ Updates' = Updates
      /\ setup' = setup /\ Used' = Used
  BY <1>1, WorkFrame
<1> HIDE DEF todo, l, c, b
<1>7. b \in Nat /\ (l # 1 => Behind(r)' = b + 1)
  <2>1. Behind(r)' = AllMinis - Len(Tail(todo))
    BY <1>1, <1>6 DEF Behind
  <2> DEFINE S == {todo[i] : i \in 1..l}
  <2>2. l \in Nat
    BY <1>4
  <2>3. todo \in Seq(S) /\ Len(todo) = l
    BY <1>4, <2>2, LongIs
  <2> HIDE DEF S
  <2>4. Len(Tail(todo)) = l - 1
    <3>1. todo # <<>>
      BY <1>4, <2>3
    <3> QED
      BY <2>3, <3>1
  <2> DEFINE w == Len(Tail(todo))
             a == AllMinis
  <2>5. w = l - 1 /\ Behind(r)' = a - w /\ b = a - l /\ a \in Nat /\ l \in 1..a
    BY <1>3, <1>4, <2>1, <2>4
  <2> HIDE DEF w, a
  <2> QED
    BY <2>5
<1>8. k = b % c /\ e = b \div c
  BY DEF Turn, Epoch, b, c
<1> HIDE DEF k, e, m
<1>9. k \in 0..(c - 1) /\ k \in Nat /\ e \in Nat
  <2>1. k \in 0 .. c - 1 /\ e \in Nat
    BY <1>3, <1>7, <1>8, Division
  <2> QED
    BY <1>3, <2>1
<1>10. ASSUME NEW x \in 1..GroupLen
       PROVE  /\ (x - 1) \div m \in 0..(c - 1)
              /\ Times(r, x) = IF (x - 1) \div m <= k THEN e + 1 ELSE e
  <2>1. (x - 1) \div m \in 0..(c - 1)
    <3>1. (x - 1) \div m \in 0..(NumPieces(GroupLen, m) - 1)
      BY <1>3, RowPlaces
    <3> QED
      BY <3>1 DEF Minis, c, m
  <2>2. Past(r, x)
    BY <1>1 DEF Past
  <2>3. Times(r, x) = IF (x - 1) \div m < k \/ (x - 1) \div m = k THEN e + 1 ELSE e
    BY <1>1, <2>2 DEF Times, m, k, e
  <2> DEFINE d == (x - 1) \div m
  <2>4. d < k \/ d = k <=> d <= k
    <3>1. d \in Int
      BY <1>3, <2>1
    <3> HIDE DEF d
    <3> QED
      BY <1>9, <3>1
  <2> QED
    BY <2>1, <2>3, <2>4
<1>11. ASSUME NEW x \in 1..GroupLen PROVE Times(r, x)' = Times(r, x)
  <2> DEFINE d == (x - 1) \div m
  <2>1. d \in 0..(c - 1) /\ Times(r, x) = IF d <= k THEN e + 1 ELSE e
    BY <1>10
  <2> HIDE DEF d
  <2>2. CASE l = 1
    <3>1. b + 1 = setup.epochs * c
      BY <1>3, <1>4, <2>2 DEF AllMinis, c
    <3>2. k = c - 1 /\ e = setup.epochs - 1
      <4> DEFINE v == setup.epochs * c
      <4>1. v % c = 0 /\ v \div c = setup.epochs
        <5> DEFINE f == setup.epochs
        <5>1. f \in Nat /\ f + 1 \in Nat /\ f \in 0..((f + 1) - 1) /\ 1 \in 1..c
          BY <1>3
        <5>2. v \in Nat
          BY <1>3, Products
        <5> HIDE DEF f
        <5>3. /\ (((f * c) + 1) - 1) \div c = f
              /\ ((((f * c) + 1) - 1) % c) + 1 = 1
          BY <1>3, <5>1, Grid
        <5>4. v = f * c
          BY DEF f
        <5> HIDE DEF v
        <5>5. (v + 1) - 1 = v
          BY <5>2
        <5>6. v \div c = f /\ (v % c) + 1 = 1
          BY <5>3, <5>4, <5>5
        <5>7. v % c \in 0 .. c - 1
          BY <1>3, <5>2, Division
        <5>8. v % c \in Nat
          BY <1>3, <5>7
        <5> QED
          BY <5>6, <5>8 DEF f
      <4> HIDE DEF v
      <4>2. b + 1 = v
        BY <3>1 DEF v
      <4>3. /\ k + 1 # c => v % c = k + 1
            /\ k + 1 = c => v \div c = e + 1
        BY <1>3, <1>7, <1>8, <4>2, NextTurn
      <4>4. k + 1 = c
        BY <1>9, <4>1, <4>3
      <4> QED
        BY <1>3, <1>9, <4>1, <4>3, <4>4
    <3>3. Times(r, x) = setup.epochs
      BY <1>3, <1>9, <2>1, <3>2
    <3>4. Times(r, x)' = setup.epochs
      BY <1>1, <1>6, <2>2 DEF Times
    <3> QED
      BY <3>3, <3>4
  <2>3. CASE l # 1
    <3> DEFINE k1 == Turn(r)'
               e1 == Epoch(r)'
    <3>1. k1 = (b + 1) % c /\ e1 = (b + 1) \div c
      BY <1>6, <1>7, <2>3 DEF Turn, Epoch
    <3>2. rank'[r].at = "plan" /\ ~Past(r, x)'
      BY <1>1, <2>3 DEF Past
    <3>3. Times(r, x)' = IF d < k1 THEN e1 + 1 ELSE e1
      BY <1>6, <3>2 DEF Times, d
    <3> HIDE DEF k1, e1
    <3>4. /\ k + 1 # c => k1 = k + 1 /\ e1 = e
          /\ k + 1 = c => k1 = 0 /\ e1 = e + 1
      BY <1>3, <1>7, <1>8, <3>1, NextTurn
    <3>5. CASE k + 1 # c
      BY <1>3, <1>9, <2>1, <3>3, <3>4, <3>5
    <3>6. CASE k + 1 = c
      BY <1>3, <1>9, <2>1, <3>3, <3>4, <3>6
    <3> QED
      BY <3>5, <3>6
  <2> QED
    BY <2>2, <2>3
<1>12. HasTrained(r)'
  BY <1>1, <1>2, <1>5, <1>11, TrainedStays
<1> QED
  BY <1>1, <1>12 DEF TrainInv

\* Calls come and go.
LEMMA RunTrains ==
    ASSUME BatchInv, DeviceInv, WorkInv, TrainedInv, NEW r \in Rank, Run(r)
    PROVE  TrainedInv'
<1>1. UNCHANGED <<setup, phase, batch, length>> /\ UNCHANGED driver /\ UNCHANGED trained
  BY DEF Run, Load, Gather, Generate, PlanFixed, GiveBack, driver, device
<1>2. Rank' = Rank /\ Updates' = Updates /\ Used' = Used /\ Trajectory' = Trajectory
  BY <1>1, WorkFrame
<1>3. DOMAIN rank = Rank
      /\ \A q \in Rank : DOMAIN rank[q] = {"at", "rows", "todo", "plan", "order", "out"}
  BY DEF DeviceInv, PlaceInv, Idle
<1>4. \A q \in Rank : TodoInv(q) /\ PlanInv(q) /\ TrainInv(q)
  BY DEF WorkInv, TrainedInv
<1>5. FreshInv'
  BY <1>1, <1>2 DEF TrainedInv, FreshInv, ShapeInv
<1>6. ASSUME \A q \in Rank \ {r} : rank'[q] = rank[q], TrainInv(r)' PROVE TrainedInv'
  <2>1. \A q \in Rank : TrainInv(q)'
    BY <1>1, <1>4, <1>6, TrainStays
  <2> QED
    BY <1>2, <1>5, <2>1 DEF TrainedInv
<1>7. ASSUME ~Updates, \A q \in Rank \ {r} : rank'[q] = rank[q] PROVE TrainedInv'
  BY <1>2, <1>6, <1>7 DEF TrainInv
<1>8. CASE Load(r)
  <2> DEFINE to == IF Generates THEN "sync" ELSE "gather"
  <2>1. rank[r].at = "start" /\ rank' = [rank EXCEPT ![r].at = to]
    BY <1>8 DEF Load
  <2>2. to \in {"sync", "gather"} /\ (Updates => to = "gather")
    BY DEF Updates, Generates
  <2> HIDE DEF to
  <2>3. (\A q \in Rank \ {r} : rank'[q] = rank[q]) /\ rank'[r].at = to
    BY <1>3, <2>1
  <2>4. TrainInv(r)'
    <3>1. CASE ~Updates
      BY <1>2, <3>1 DEF TrainInv
    <3>2. CASE Updates
      <4>1. \A t \in Trajectory : trained[Used][r][t] = 0
        BY <1>4, <2>1, <3>2 DEF TrainInv
      <4> QED
        BY <1>1, <1>2, <2>2, <2>3, <3>2, <4>1 DEF TrainInv, AtWork
    <3> QED
      BY <3>1, <3>2
  <2> QED
    BY <1>6, <2>3, <2>4
<1>9. CASE Generate(r)
  <2> DEFINE out == Own(r, [i \in DOMAIN Repeat(rank[r].rows, IF phase = "validate" THEN 1 ELSE setup.n) |->
                     <<Repeat(rank[r].rows, IF phase = "validate" THEN 1 ELSE setup.n)[i].uid,
                       ((i - 1) % (IF phase = "validate" THEN 1 ELSE setup.n)) + 1, engine[r]>>])
  <2>1. rank[r].at = "generate" /\ rank' = [rank EXCEPT ![r].out = out, ![r].at = "returned"]
    BY <1>9, Zenon DEF Generate
  <2> HIDE DEF out
  <2>2. \A q \in Rank \ {r} : rank'[q] = rank[q]
    BY <1>3, <2>1
  <2>3. ~Updates
    BY <2>1 DEF DeviceInv, PlaceInv, Generates, Updates
  <2> QED
    BY <1>7, <2>2, <2>3
<1>10. CASE GiveBack(r)
  <2> DEFINE out(back) == IF Updates THEN <<>>
                          ELSE Own(r, [i \in DOMAIN rank[r].out |-> rank[r].out[back[i]]])
  <2>1. rank[r].at = "back" /\ \E back : rank' = [rank EXCEPT ![r].at = "returned", ![r].out = out(back)]
    BY <1>10 DEF GiveBack
  <2> HIDE DEF out
  <2>2. /\ \A q \in Rank \ {r} : rank'[q] = rank[q]
        /\ rank'[r].at = "returned" /\ rank'[r].rows = rank[r].rows
    BY <1>3, <2>1
  <2>3. TrainInv(r)'
    <3>1. CASE ~Updates
      BY <1>2, <3>1 DEF TrainInv
    <3>2. CASE Updates
      <4>1. HasTrained(r)
        BY <1>4, <2>1, <3>2 DEF TrainInv
      <4>2. ASSUME NEW x PROVE Times(r, x)' = Times(r, x)
        BY <1>1, <2>1, <2>2, WorkFrame DEF Times
      <4>3. HasTrained(r)'
        BY <1>1, <2>2, <4>1, <4>2, TrainedStays
      <4> QED
        BY <2>2, <4>3 DEF TrainInv
    <3> QED
      BY <3>1, <3>2
  <2> QED
    BY <1>6, <2>2, <2>3
<1>11. CASE PlanFixed(r)
  <2>1. /\ rank'[r].todo = rank[r].todo /\ rank'[r].rows = rank[r].rows
        /\ rank'[r].at = "forward" /\ Complete(rank'[r].plan, NowLen(r))
        /\ \A q \in Rank \ {r} : rank'[q] = rank[q]
    BY <1>4, <1>11, FixedPlan
  <2>2. rank[r].at = "plan"
    BY <1>11 DEF PlanFixed
  <2>3. TrainInv(r)'
    BY <1>1, <1>4, <2>1, <2>2, PlanTrains
  <2> QED
    BY <1>6, <2>1, <2>3
<1>12. CASE Gather(r)
  <2>1. \A q \in Rank : TrainInv(q)'
    BY <1>4, <1>12, GatherTrains
  <2> QED
    BY <1>2, <1>5, <2>1 DEF TrainedInv
<1> QED
  BY <1>8, <1>9, <1>10, <1>11, <1>12 DEF Run

LEMMA MeetTrains ==
    ASSUME BatchInv, DeviceInv, WorkInv, TrainedInv, Meet
    PROVE  TrainedInv'
<1>1. UNCHANGED <<setup, phase, batch, length>> /\ UNCHANGED driver
  BY DEF Meet, Sync, PlanDynamic, Forward, Step, driver
<1>2. Rank' = Rank /\ Updates' = Updates /\ Used' = Used /\ Trajectory' = Trajectory
  BY <1>1, WorkFrame
<1>3. SameInv /\ ShapeInv /\ \A q \in Rank : TodoInv(q) /\ PlanInv(q) /\ TrainInv(q)
  BY DEF WorkInv, TrainedInv, FreshInv
<1>4. ASSUME trained' = trained PROVE FreshInv'
  BY <1>1, <1>2, <1>4 DEF TrainedInv, FreshInv, ShapeInv
<1>5. CASE Sync
  <2>1. rank[1].at = "sync" /\ 1 \in Rank
    BY <1>5, SomeRank DEF Sync
  <2>2. ~Updates
    BY <2>1 DEF DeviceInv, PlaceInv, Generates, Updates
  <2>3. trained' = trained
    BY <1>5 DEF Sync
  <2> QED
    BY <1>2, <1>4, <2>2, <2>3 DEF TrainedInv, TrainInv
<1>6. CASE PlanDynamic
  <2>1. trained' = trained /\ \A q \in Rank : rank[q].at = "plan"
    BY <1>6 DEF PlanDynamic, device
  <2>2. ASSUME NEW q \in Rank PROVE TrainInv(q)'
    <3>1. /\ rank'[q].todo = rank[q].todo /\ rank'[q].rows = rank[q].rows
          /\ rank'[q].at = "forward" /\ Complete(rank'[q].plan, NowLen(q))
      BY <1>3, <1>6, DynamicPlans
    <3> QED
      BY <1>1, <1>3, <2>1, <3>1, PlanTrains
  <2> QED
    BY <1>2, <1>4, <2>1, <2>2 DEF TrainedInv
<1>7. CASE Forward
  <2>1. /\ ShapeInv'
        /\ ~Updates => trained' = trained
        /\ \A m \in Model : m # Used => trained'[m] = trained[m]
    BY <1>3, <1>7, CountsGrow
  <2>2. FreshInv'
    <3>1. CASE ~Updates
      BY <1>4, <2>1, <3>1
    <3>2. CASE phase = "update_actor"
      BY <1>1, <2>1, <3>2 DEF FreshInv
    <3>3. CASE phase = "update_critic"
      <4>1. Used = "critic"
        BY <3>3 DEF Used
      <4>2. trained'["actor"] = trained["actor"]
        BY <2>1, <4>1 DEF Model
      <4>3. \A r \in Rank : \A t \in Trajectory : trained["actor"][r][t] = 0
        BY <3>3 DEF TrainedInv, FreshInv
      <4> QED
        BY <1>1, <1>2, <2>1, <3>3, <4>2, <4>3 DEF FreshInv
    <3> QED
      BY <3>1, <3>2, <3>3 DEF Updates
  <2>3. \A q \in Rank : TrainInv(q)'
    BY <1>3, <1>7, ForwardTrains
  <2> QED
    BY <1>2, <2>2, <2>3 DEF TrainedInv
<1>8. CASE Step
  <2>1. trained' = trained
    BY <1>8 DEF Step
  <2>2. \A q \in Rank : TrainInv(q)'
    BY <1>3, <1>8, StepTrains
  <2> QED
    BY <1>2, <1>4, <2>1, <2>2 DEF TrainedInv
<1> QED
  BY <1>5, <1>6, <1>7, <1>8 DEF Meet

\* The driver's steps: before the updates and between them nothing has been
\* trained on that the next update would train on again.
LEMMA NextTrains ==
    ASSUME BatchInv, DeviceInv, WorkInv, TrainedInv, [Next]_vars
    PROVE  TrainedInv'
<1> DEFINE Zero(m) == \A r \in Rank : \A t \in Trajectory : trained[m][r][t] = 0
<1>1. ShapeInv /\ FreshInv /\ \A r \in Rank : TrainInv(r)
  BY DEF TrainedInv, FreshInv
<1>2. ASSUME setup' = setup, trained' = trained
      PROVE  Rank' = Rank /\ Trajectory' = Trajectory /\ ShapeInv'
  <2>1. Rank' = Rank /\ Trajectory' = Trajectory
    BY <1>2 DEF Rank, Trajectory
  <2> QED
    BY <1>1, <1>2, <2>1 DEF ShapeInv
<1>3. ASSUME setup' = setup, trained' = trained,
             phase' \notin {"update_critic", "update_actor"},
             phase' = "failed" \/ phase \notin {"update_critic", "update_actor", "failed"}
      PROVE  TrainedInv'
  <2>1. Rank' = Rank /\ Trajectory' = Trajectory /\ ShapeInv'
    BY <1>2, <1>3
  <2>2. FreshInv'
    BY <1>1, <1>3, <2>1 DEF FreshInv
  <2>3. ~Updates'
    BY <1>3 DEF Updates
  <2> QED
    BY <2>2, <2>3 DEF TrainedInv, TrainInv
<1>4. ASSUME setup' = setup, trained' = trained, phase' = phase,
             \A r \in Rank : rank[r].at = "idle" /\ rank'[r].at \in {"idle", "start"}
      PROVE  TrainedInv'
  <2>1. Rank' = Rank /\ Trajectory' = Trajectory /\ ShapeInv'
    BY <1>2, <1>4
  <2>2. Updates' = Updates /\ Used' = Used
    BY <1>4 DEF Updates, Used
  <2>3. FreshInv'
    BY <1>1, <1>4, <2>1 DEF FreshInv
  <2>4. ASSUME NEW r \in Rank PROVE TrainInv(r)'
    <3>1. Updates => \A t \in Trajectory : trained[Used][r][t] = 0
      BY <1>1, <1>4 DEF TrainInv
    <3> QED
      BY <1>4, <2>1, <2>2, <3>1 DEF TrainInv, AtWork
  <2> QED
    BY <2>1, <2>3, <2>4 DEF TrainedInv
<1>5. ASSUME setup' = setup, trained' = trained, \A r \in Rank : rank'[r].at = "idle",
             \/ phase' = "update_critic" /\ Zero("critic") /\ Zero("actor")
             \/ phase' = "update_actor" /\ Zero("actor")
      PROVE  TrainedInv'
  <2>1. Rank' = Rank /\ Trajectory' = Trajectory /\ ShapeInv'
    BY <1>2, <1>5
  <2>2. Zero(Used') /\ phase' \in {"update_critic", "update_actor"}
        /\ (phase' = "update_critic" => Zero("actor"))
    BY <1>5 DEF Used
  <2>3. FreshInv'
    BY <1>5, <2>1, <2>2 DEF FreshInv
  <2>4. ASSUME NEW r \in Rank PROVE TrainInv(r)'
    BY <1>5, <2>1, <2>2 DEF TrainInv, AtWork
  <2> QED
    BY <2>1, <2>3, <2>4 DEF TrainedInv
<1>6. CASE Call
  <2>1. setup' = setup /\ trained' = trained /\ \A r \in Rank : rank[r] = Idle
    BY <1>6 DEF Call, Fail, device
  <2>2. CASE Fail /\ UNCHANGED rank
    BY <1>3, <2>1, <2>2 DEF Fail
  <2>3. CASE ~(Fail /\ UNCHANGED rank)
    <3> DEFINE rows(q) == Chunk(Sent, setup.world)[q]
    <3>1. /\ rank' = [q \in Rank |-> [Idle EXCEPT !.at = "start", !.rows = rows(q)]]
          /\ phase' = phase
      BY <1>6, <2>3, CallIs
    <3>2. DOMAIN Idle = {"at", "rows", "todo", "plan", "order", "out"} /\ Idle.at = "idle"
      BY DEF Idle
    <3> HIDE DEF rows
    <3>3. \A q \in Rank : rank[q].at = "idle" /\ rank'[q].at = "start"
      BY <2>1, <3>1, <3>2
    <3> QED
      BY <1>4, <2>1, <3>1, <3>3
  <2> QED
    BY <2>2, <2>3
<1>7. CASE EndValidate \/ EndGenerate \/ EndInfer
  <2>1. setup' = setup /\ trained' = trained
    BY <1>7 DEF EndValidate, EndGenerate, EndInfer, Fail, Free, device
  <2>2. /\ phase \in {"validate", "generate", "log_prob", "values"}
        /\ phase' \in {"generate", "log_prob", "values", "advantage", "failed"}
    BY <1>7 DEF EndValidate, EndGenerate, EndInfer, Fail
  <2> QED
    BY <1>3, <2>1, <2>2
<1>8. CASE Advantage
  <2>1. \A q \in Rank : rank[q].at = "idle"
    BY <1>8 DEF Advantage, DeviceInv, PlaceInv, Idle
  <2>2. setup' = setup /\ trained' = trained /\ rank' = rank
        /\ phase = "advantage" /\ phase' = "update_critic"
    BY <1>8 DEF Advantage, device
  <2>3. Zero("critic") /\ Zero("actor")
    BY <1>1, <2>2 DEF FreshInv, Model
  <2> QED
    BY <1>5, <2>1, <2>2, <2>3
<1>9. CASE EndUpdateCritic
  <2>1. setup' = setup /\ trained' = trained /\ rank' = [r \in Rank |-> Idle]
        /\ phase = "update_critic" /\ phase' = "update_actor"
    BY <1>9 DEF EndUpdateCritic, Free, device
  <2>2. Zero("actor")
    BY <1>1, <2>1 DEF FreshInv
  <2>3. \A r \in Rank : rank'[r].at = "idle"
    BY <2>1 DEF Idle
  <2> QED
    BY <1>5, <2>1, <2>2, <2>3
<1>10. CASE EndUpdateActor
  <2>1. /\ setup' = setup /\ phase' \in {"done", "generate"}
        /\ trained' = [m \in Model |-> [r \in Rank |-> [t \in Trajectory |-> 0]]]
    BY <1>10 DEF EndUpdateActor
  <2>2. Rank' = Rank /\ Trajectory' = Trajectory
    BY <2>1 DEF Rank, Trajectory
  <2>3. \A m \in Model : \A r \in Rank : \A t \in Trajectory : trained'[m][r][t] = 0
    BY <2>1
  <2>4. \A m \in Model : trained'[m] = [r \in Rank |-> [t \in Trajectory |-> trained'[m][r][t]]]
    BY <2>1
  <2>5. ShapeInv'
    BY <2>1, <2>2, <2>4 DEF ShapeInv
  <2>6. FreshInv'
    BY <2>1, <2>2, <2>3, <2>5 DEF FreshInv
  <2>7. ~Updates'
    BY <2>1 DEF Updates
  <2> QED
    BY <2>6, <2>7 DEF TrainedInv, TrainInv
<1>11. CASE Score \/ UNCHANGED vars
  <2>1. UNCHANGED <<setup, phase, batch, length>> /\ rank' = rank /\ trained' = trained
    BY <1>11 DEF Score, vars, device
  <2>2. Rank' = Rank /\ Trajectory' = Trajectory /\ ShapeInv'
    BY <1>2, <2>1
  <2>3. FreshInv'
    BY <1>1, <2>1, <2>2 DEF FreshInv
  <2>4. \A q \in Rank : TrainInv(q)'
    BY <1>1, <2>1, TrainStays
  <2> QED
    BY <2>2, <2>3, <2>4 DEF TrainedInv
<1> QED
  BY <1>6, <1>7, <1>8, <1>9, <1>10, <1>11, RunTrains, MeetTrains DEF Next, Drive, Over

LEMMA InitTrains == Init => TrainedInv
<1> SUFFICES ASSUME Init PROVE TrainedInv
  OBVIOUS
<1>1. trained = [m \in Model |-> [r \in Rank |-> [t \in Trajectory |-> 0]]]
      /\ phase \in {"validate", "generate"}
  BY DEF Init
<1>2. \A m \in Model : \A r \in Rank : \A t \in Trajectory : trained[m][r][t] = 0
  BY <1>1
<1>3. \A m \in Model : trained[m] = [r \in Rank |-> [t \in Trajectory |-> trained[m][r][t]]]
  BY <1>1
<1>4. ShapeInv
  BY <1>1, <1>3 DEF ShapeInv
<1>5. FreshInv
  BY <1>1, <1>2, <1>4 DEF FreshInv
<1> QED
  BY <1>1, <1>5 DEF TrainedInv, TrainInv, Updates

\* Products over a sum.
LEMMA Distributes == \A a, b, k \in Nat : (a + b) * k = a * k + b * k
  OBVIOUS

\* When the ranks have come back from an update, the row of a trajectory is
\* one of the group of the rank it was sent to, and of no other group.
LEMMA ReturnedTrained ==
    ASSUME BatchInv, DeviceInv, TrainedInv, Updates, Returned, NEW t \in Trajectory
    PROVE  \E p \in Rank : \A r \in Rank :
              trained[Used][r][t] = IF LeaderOf(r) = LeaderOf(p) THEN setup.epochs ELSE 0
<1> DEFINE S == Size
           g == GroupSize
           W == setup.world
           N == NumTrajectories
<1>1. \A r \in Rank : rank[r].at = "returned"
  BY DEF Returned
<1>2. 1 \in Rank /\ setup \in Setups
  BY SomeRank DEF DeviceInv, PlaceInv
<1>3. /\ S \in Nat \ {0} /\ W \in Nat \ {0} /\ g \in Nat \ {0}
      /\ Len(Sent) = W * S /\ Answered /\ phase # "validate"
  <2>1. rank[1].at # "idle"
    BY <1>1, <1>2
  <2>2. Answered /\ phase # "validate"
    BY DEF Updates, Answered, Phases
  <2> QED
    BY <1>2, <2>1, <2>2, CallSizes
<1>4. AnsweredInv
  BY <1>3 DEF BatchInv, DriverInv
<1>5. Sent = batch /\ N \in Nat
  BY <1>2, <1>3, <1>4, SentIsBatch
<1>6. N = W * S
  BY <1>3, <1>4, <1>5 DEF AnsweredInv, Long, N
<1>7. PICK i \in 1..N : Of(batch[i]) = t
  BY <1>4 DEF AnsweredInv, N
<1>8. \A j \in 1..N : Of(batch[j]) = t => j = i
  BY <1>4, <1>7 DEF AnsweredInv, N
<1>9. Rank = 1..W /\ Rank \subseteq Nat
  BY <1>3 DEF Rank
<1> HIDE DEF S, g, W, N
<1> DEFINE v == ((i - 1) % S) + 1
           d == (i - 1) \div S
           p == d + 1
<1>10. d \in 0..(W - 1) /\ v \in 1..S /\ i = (d * S) + v
  BY <1>3, <1>6, <1>7, PlaceInGrid
<1> HIDE DEF v, d
<1>11. p \in Rank
  BY <1>3, <1>9, <1>10
<1> DEFINE l == LeaderOf(p)
<1>12. ASSUME NEW r \in Rank
       PROVE  trained[Used][r][t] = IF LeaderOf(r) = l THEN setup.epochs ELSE 0
  <2> DEFINE h == LeaderOf(r)
             rows == rank[r].rows
  <2>1. HasTrained(r)
    BY <1>1 DEF TrainedInv, TrainInv
  <2>2. /\ h \in 1..r /\ h \in Nat /\ h - 1 \in Nat
        /\ \A u \in 1..g : /\ h + u - 1 \in Rank /\ LeaderOf(h + u - 1) = h
    <3>1. \A u \in 1..GroupSize : /\ Group(r)[u] = LeaderOf(r) + u - 1 /\ Group(r)[u] \in Rank
                                  /\ LeaderOf(Group(r)[u]) = LeaderOf(r)
      BY <1>2, GroupIs
    <3>2. h \in 1..r /\ r \in Nat
      BY <1>2, <1>9, GroupIs
    <3> QED
      BY <3>1, <3>2 DEF g
  <2>3. GroupLen = g * S
    BY DEF GroupLen, g, S
  <2>4. \A x \in 1..(g * S) : Of(rows[x]) = Of(batch[((h - 1) * S) + x])
    BY <2>1, <2>3 DEF HasTrained, Slice, S, Of
  <2>5. \A x \in 1..(g * S) : trained[Used][r][Of(rows[x])] = setup.epochs
    BY <1>1, <2>1, <2>3 DEF HasTrained, Times
  <2>6. ASSUME NEW u \in 0..(g - 1), NEW w \in 1..S
        PROVE  /\ (u * S) + w \in 1..(g * S)
               /\ (h - 1) + u \in 0..(W - 1) /\ LeaderOf(h + u) = h
               /\ ((h - 1) * S) + ((u * S) + w) = (((h - 1) + u) * S) + w
    <3>1. u \in Nat /\ u + 1 \in 1..g /\ w \in Nat
      BY <1>3
    <3>2. h + (u + 1) - 1 = h + u
      BY <2>2, <3>1
    <3>3. h + u \in Rank /\ LeaderOf(h + u) = h
      BY <2>2, <3>1, <3>2
    <3> DEFINE a == h - 1
    <3>4. a \in Nat /\ h + u = a + u + 1
      BY <2>2, <3>1
    <3> HIDE DEF a, h
    <3>5. a + u \in 0..(W - 1)
      BY <1>3, <1>9, <3>1, <3>3, <3>4
    <3>6. (u * S) + w \in 1..(g * S)
      BY <1>3, Grid
    <3>7. (a * S) + ((u * S) + w) = ((a + u) * S) + w
      <4>1. (a + u) * S = a * S + u * S /\ a * S \in Nat /\ u * S \in Nat
        BY <1>3, <3>1, <3>4, Distributes, Products
      <4> QED
        BY <3>1, <4>1
    <3> QED
      BY <3>3, <3>5, <3>6, <3>7 DEF a
  <2>7. CASE h = l
    <3> DEFINE u == p - h
               x == (u * S) + v
    <3>1. u \in 0..(g - 1)
      BY <1>2, <1>11, <2>7, GroupIs DEF g
    <3>2. /\ x \in 1..(g * S)
          /\ ((h - 1) * S) + x = (((h - 1) + u) * S) + v
      BY <1>10, <2>6, <3>1
    <3>3. (h - 1) + u = d
      <4>1. h \in Nat /\ d \in Int
        BY <1>3, <1>10, <2>2
      <4> HIDE DEF h
      <4> QED
        BY <4>1
    <3> HIDE DEF u, x
    <3>4. ((h - 1) * S) + x = i
      BY <1>10, <3>2, <3>3
    <3>5. Of(rows[x]) = t
      BY <1>7, <2>4, <3>2, <3>4
    <3> QED
      BY <2>5, <2>7, <3>2, <3>5
  <2>8. CASE h # l
    <3>1. ASSUME NEW x \in 1..(g * S), Of(rows[x]) = t PROVE FALSE
      <4> DEFINE u == (x - 1) \div S
                 w == ((x - 1) % S) + 1
      <4>1. u \in 0..(g - 1) /\ w \in 1..S /\ x = (u * S) + w
        BY <1>3, PlaceInGrid
      <4> HIDE DEF u, w
      <4> DEFINE e == (h - 1) + u
                 y == ((h - 1) * S) + x
      <4>2. /\ e \in 0..(W - 1) /\ LeaderOf(h + u) = h
            /\ y = (e * S) + w
        BY <2>6, <4>1
      <4>3. Of(batch[y]) = t
        BY <2>4, <3>1
      <4>4. h + u = e + 1
        <5>1. h \in Nat /\ u \in Int
          BY <1>3, <2>2, <4>1
        <5> HIDE DEF h
        <5> QED
          BY <5>1
      <4> HIDE DEF e, y
      <4>5. y \in 1..N
        BY <1>3, <1>6, <4>1, <4>2, Grid
      <4>6. (e * S) + w = (d * S) + v
        BY <1>8, <1>10, <4>2, <4>3, <4>5
      <4>7. e = d
        BY <1>3, <1>10, <4>1, <4>2, <4>6, Grid
      <4> QED
        BY <2>8, <4>2, <4>4, <4>7
    <3>2. trained[Used][r][t] = 0
      BY <2>1, <2>3, <3>1 DEF HasTrained
    <3> QED
      BY <2>8, <3>2
  <2> QED
    BY <2>7, <2>8
<1> QED
  BY <1>11, <1>12

\* TrainedOncePerEpoch of TrainingBatch: whatever the sizes of mini and micro
\* batches, planned by rows or by tokens, and however many epochs are made,
\* an update trains on every trajectory ppo_epochs times and no more, on the
\* ranks of one sequence-parallel group, each alike.
THEOREM EveryEpochTrainsOnAll == Spec => []TrainedOncePerEpoch
<1>1. Init => BatchInv /\ DeviceInv /\ WorkInv /\ TrainedInv
  BY InitBatch, InitDeviceInv, InitWork, InitTrains
<1>2. BatchInv /\ DeviceInv /\ WorkInv /\ TrainedInv /\ [Next]_vars
      => (BatchInv /\ DeviceInv /\ WorkInv /\ TrainedInv)'
  BY NextKeepsBatch, NextKeepsDevice, NextKeepsWork, NextTrains
<1>3. BatchInv /\ DeviceInv /\ TrainedInv => TrainedOncePerEpoch
  <2> SUFFICES ASSUME BatchInv, DeviceInv, TrainedInv, Updates, Returned, NEW t \in Trajectory
               PROVE  /\ \A r \in Rank : trained[Used][r][t] = trained[Used][LeaderOf(r)][t]
                      /\ \E r \in Rank : trained[Used][r][t] = setup.epochs
                      /\ Cardinality({r \in Rank : trained[Used][r][t] > 0}) = GroupSize
    BY DEF TrainedOncePerEpoch
  <2>1. PICK p \in Rank : \A r \in Rank :
            trained[Used][r][t] = IF LeaderOf(r) = LeaderOf(p) THEN setup.epochs ELSE 0
    BY ReturnedTrained
  <2>2. setup \in Setups /\ GroupSize \in Nat \ {0} /\ setup.epochs \in Nat \ {0}
    BY Sizes, SetupAssumption DEF DeviceInv, PlaceInv
  <2> DEFINE g == GroupSize
             l == LeaderOf(p)
  <2>3. ASSUME NEW r \in Rank
        PROVE  /\ r \in Int /\ LeaderOf(r) \in Int /\ r - LeaderOf(r) \in 0..(g - 1)
               /\ \A i \in 1..g : /\ LeaderOf(r) + i - 1 \in Rank
                                    /\ LeaderOf(LeaderOf(r) + i - 1) = LeaderOf(r)
    <3>1. /\ LeaderOf(r) \in 1..r /\ r - LeaderOf(r) \in 0..(GroupSize - 1)
          /\ \A i \in 1..GroupSize :
                /\ Group(r)[i] = LeaderOf(r) + i - 1 /\ Group(r)[i] \in Rank
                /\ LeaderOf(Group(r)[i]) = LeaderOf(r)
      BY <2>2, GroupIs
    <3>2. r \in Nat
      BY <2>2, Sizes
    <3> QED
      BY <3>1, <3>2
  <2>4. ASSUME NEW r \in Rank PROVE LeaderOf(r) \in Rank /\ LeaderOf(LeaderOf(r)) = LeaderOf(r)
    <3> DEFINE h == LeaderOf(r)
    <3>1. h \in Int /\ h + 1 - 1 \in Rank /\ LeaderOf(h + 1 - 1) = h
      BY <2>2, <2>3
    <3>2. h + 1 - 1 = h
      BY <3>1
    <3> QED
      BY <3>1, <3>2
  <2>5. {r \in Rank : trained[Used][r][t] > 0} = l .. (l + g - 1)
    <3>1. {r \in Rank : trained[Used][r][t] > 0} = {r \in Rank : LeaderOf(r) = l}
      BY <2>1, <2>2
    <3>2. l \in Int /\ g \in Nat \ {0}
      BY <2>2, <2>3
    <3>3. ASSUME NEW r \in Rank, LeaderOf(r) = l PROVE r \in l .. (l + g - 1)
      <4>1. r \in Int /\ r - l \in 0..(g - 1)
        BY <2>3, <3>3
      <4> HIDE DEF l, g
      <4> QED
        BY <3>2, <4>1
    <3>4. ASSUME NEW r \in l .. (l + g - 1) PROVE r \in Rank /\ LeaderOf(r) = l
      <4> DEFINE i == r - l + 1
      <4>1. i \in 1..g /\ l + i - 1 = r
        <5> HIDE DEF l, g
        <5> QED
          BY <3>2
      <4>2. l + i - 1 \in Rank /\ LeaderOf(l + i - 1) = l
        BY <2>3, <4>1
      <4> QED
        BY <4>1, <4>2
    <3> QED
      BY <3>1, <3>3, <3>4
  <2>6. Cardinality(l .. (l + g - 1)) = g
    <3>1. l \in Int /\ g \in Nat \ {0}
      BY <2>2, <2>3
    <3> HIDE DEF l, g
    <3>2. l + g - 1 \in Int /\ l <= l + g - 1 /\ (l + g - 1) - l + 1 = g
      BY <3>1
    <3> QED
      BY <3>1, <3>2, FS_Interval
  <2>7. \A r \in Rank : trained[Used][r][t] = trained[Used][LeaderOf(r)][t]
    BY <2>1, <2>4
  <2>8. trained[Used][p][t] = setup.epochs
    BY <2>1
  <2> QED
    BY <2>5, <2>6, <2>7, <2>8
<1> QED
  BY <1>1, <1>2, <1>3, PTL DEF Spec

-----------------------------------------------------------------------------
(* Nobody waits for ever.                                                  *)

\* Places between two collectives of the whole world, in the order in which a
\* call goes through them.
Courses ==
    IF Generates
    THEN {{"idle"}, {"start", "sync"}, {"gather", "generate", "returned"}}
    ELSE {{"idle"}, {"start", "gather", "plan", "forward"}, {"step"}, {"back", "returned"}}

\* Two ranks are between the same collectives, those of a group gather
\* together, and those that run the model have as many micro batches ahead.
Meets(q, r) ==
    /\ \E C \in Courses : rank[q].at \in C /\ rank[r].at \in C
    /\ LeaderOf(q) = LeaderOf(r) /\ rank[q].at \in {"start", "gather"} =>
          rank[r].at \in {"start", "sync", "gather"}
    /\ rank[q].at = "forward" /\ rank[r].at = "forward" =>
          Len(rank[q].plan) = Len(rank[r].plan)
    /\ rank[q].at = "forward" /\ rank[r].at # "forward" =>
          ~setup.dynamic /\ Len(rank[q].plan) = FixedLen(q)

MeetInv == \A q, r \in Rank : Meets(q, r)

\* What the actions wait for: the driver's, those of one rank, and those in
\* which all ranks meet.
DriverReady ==
    \/ /\ phase \notin {"advantage", "done", "failed"}
       /\ Returned \/ \A r \in Rank : rank[r] = Idle
    \/ phase = "advantage" /\ DOMAIN reward = {"done", "rows"}
RankReady(r) ==
    \/ rank[r].at \in {"start", "generate", "back"}
    \/ r = LeaderOf(r) /\ \A i \in 1..GroupSize : rank[Group(r)[i]].at = "gather"
    \/ ~setup.dynamic /\ rank[r].at = "plan"
AllReady ==
    \/ \A r \in Rank : rank[r].at = "sync"
    \/ setup.dynamic /\ \A r \in Rank : rank[r].at = "plan"
    \/ \A r \in Rank : rank[r].at = "forward"
    \/ \A r \in Rank : rank[r].at = "step"

SomebodyGoesOn ==
    phase \in {"done", "failed"} \/ DriverReady \/ (\E r \in Rank : RankReady(r)) \/ AllReady

LEMMA MeetFrame ==
    ASSUME UNCHANGED <<setup, phase, batch, length>>
    PROVE  /\ Courses' = Courses /\ Rank' = Rank /\ setup' = setup
           /\ \A r : LeaderOf(r)' = LeaderOf(r)
           /\ \A r : rank'[r].todo = rank[r].todo => FixedLen(r)' = FixedLen(r)
<1>1. /\ GroupLen' = GroupLen /\ MiniBatch' = MiniBatch /\ Minis' = Minis
      /\ AllMinis' = AllMinis /\ setup' = setup /\ Rank' = Rank
      /\ Updates' = Updates /\ Generates' = Generates
      /\ \A r : LeaderOf(r)' = LeaderOf(r)
  BY WorkFrame
<1>2. Courses' = Courses
  BY <1>1 DEF Courses
<1>3. ASSUME NEW r, rank'[r].todo = rank[r].todo PROVE FixedLen(r)' = FixedLen(r)
  <2>1. Behind(r)' = Behind(r)
    BY <1>1, <1>3 DEF Behind
  <2>2. Turn(r)' = Turn(r)
    BY <1>1, <2>1 DEF Turn
  <2>3. NowLen(r)' = NowLen(r)
    BY <1>1, <2>2 DEF NowLen
  <2> QED
    BY <1>1, <2>3 DEF FixedLen
<1> QED
  BY <1>1, <1>2, <1>3

\* Ranks that are at work have as many rows.
LEMMA SameLen ==
    ASSUME SameInv, NEW q \in Rank, NEW r \in Rank,
           rank[q].at \in AtWork, rank[r].at \in AtWork
    PROVE  FixedLen(q) = FixedLen(r)
<1>1. CASE Updates
  <2>1. Len(rank[q].todo) = Len(rank[r].todo)
    BY <1>1 DEF SameInv
  <2> QED
    BY <2>1 DEF FixedLen, NowLen, Turn, Behind
<1>2. CASE ~Updates
  BY <1>2 DEF FixedLen, NowLen
<1> QED
  BY <1>1, <1>2

\* Where the others can be.
LEMMA CourseIs ==
    ASSUME MeetInv, NEW q \in Rank, NEW r \in Rank
    PROVE  /\ Generates =>
                 /\ rank[r].at \in {"start", "sync"} => rank[q].at \in {"start", "sync"}
                 /\ rank[r].at \in {"gather", "generate", "returned"} =>
                       rank[q].at \in {"gather", "generate", "returned"}
           /\ ~Generates =>
                 /\ rank[r].at \in {"start", "gather", "plan", "forward"} =>
                       rank[q].at \in {"start", "gather", "plan", "forward"}
                 /\ rank[r].at = "step" => rank[q].at = "step"
                 /\ rank[r].at \in {"back", "returned"} => rank[q].at \in {"back", "returned"}
           /\ rank[r].at = "idle" => rank[q].at = "idle"
<1>1. PICK C \in Courses : rank[q].at \in C /\ rank[r].at \in C
  BY DEF MeetInv, Meets
<1> QED
  BY <1>1 DEF Courses

\* One rank goes on.
LEMMA OneMeets ==
    ASSUME MeetInv, UNCHANGED <<setup, phase, batch, length>>, NEW r \in Rank,
           \A q \in Rank \ {r} : rank'[q] = rank[q],
           NEW C \in Courses, rank[r].at \in C, rank'[r].at \in C,
           \A q \in Rank \ {r} : Meets(q, r) /\ Meets(r, q) => Meets(q, r)' /\ Meets(r, q)'
    PROVE  MeetInv'
<1>1. /\ Courses' = Courses /\ Rank' = Rank /\ setup' = setup
      /\ \A q : LeaderOf(q)' = LeaderOf(q)
      /\ \A q : rank'[q].todo = rank[q].todo => FixedLen(q)' = FixedLen(q)
  BY MeetFrame
<1>2. \A p, q \in Rank : Meets(p, q)
  BY DEF MeetInv
<1>3. ASSUME NEW p \in Rank \ {r}, NEW q \in Rank \ {r} PROVE Meets(p, q)'
  BY <1>1, <1>2, <1>3 DEF Meets
<1>4. Meets(r, r)'
  BY <1>1 DEF Meets
<1>5. \A q \in Rank \ {r} : Meets(q, r)' /\ Meets(r, q)'
  BY <1>2
<1>6. ASSUME NEW p \in Rank, NEW q \in Rank PROVE Meets(p, q)'
  BY <1>3, <1>4, <1>5
<1> QED
  BY <1>1, <1>6 DEF MeetInv

LEMMA RunMeets ==
    ASSUME BatchInv, DeviceInv, WorkInv, MeetInv, NEW r \in Rank, Run(r) PROVE MeetInv'
<1>1. UNCHANGED <<setup, phase, batch, length>>
  BY DEF Run, Load, Gather, Generate, PlanFixed, GiveBack, driver
<1>2. /\ Courses' = Courses /\ Rank' = Rank /\ setup' = setup
      /\ \A q : LeaderOf(q)' = LeaderOf(q)
      /\ \A q : rank'[q].todo = rank[q].todo => FixedLen(q)' = FixedLen(q)
  BY <1>1, MeetFrame
<1>3. DOMAIN rank = Rank
      /\ \A q \in Rank : /\ DOMAIN rank[q] = {"at", "rows", "todo", "plan", "order", "out"}
                         /\ rank[q].at \in {"sync", "generate"} => Generates
                         /\ rank[q].at \in {"plan", "forward", "step", "back"} => ~Generates
  BY DEF DeviceInv, PlaceInv, Idle
<1>4. SameInv /\ \A q \in Rank : TodoInv(q) /\ PlanInv(q)
  BY DEF WorkInv
<1>5. CASE Load(r)
  <2> DEFINE to == IF Generates THEN "sync" ELSE "gather"
             C == IF Generates THEN {"start", "sync"} ELSE {"start", "gather", "plan", "forward"}
  <2>1. rank[r].at = "start" /\ rank' = [rank EXCEPT ![r].at = to]
    BY <1>5 DEF Load
  <2>2. to \in {"sync", "gather"} /\ C \in Courses /\ "start" \in C /\ to \in C
    BY DEF Courses
  <2> HIDE DEF to, C
  <2>3. (\A q \in Rank \ {r} : rank'[q] = rank[q]) /\ rank'[r].at = to
    BY <1>3, <2>1
  <2>4. ASSUME NEW q \in Rank \ {r}, Meets(q, r), Meets(r, q)
        PROVE  Meets(q, r)' /\ Meets(r, q)'
    <3>1. \E D \in Courses : rank[q].at \in D /\ to \in D
      <4>1. \E D \in Courses : rank[q].at \in D /\ "start" \in D
        BY <2>1, <2>4 DEF Meets
      <4> QED
        BY <2>2, <4>1 DEF Courses, to, C
    <3>2. Meets(q, r)'
      BY <1>2, <2>1, <2>2, <2>3, <2>4, <3>1 DEF Meets
    <3>3. Meets(r, q)'
      BY <1>2, <2>1, <2>2, <2>3, <2>4, <3>1 DEF Meets
    <3> QED
      BY <3>2, <3>3
  <2> QED
    BY <1>1, <2>1, <2>2, <2>3, <2>4, OneMeets
<1>6. ASSUME NEW C \in Courses, rank[r].at \in C, "returned" \in C, rank[r].at # "returned",
             \A q \in Rank : rank[q].at # "forward",
             rank[r].at \notin {"start", "sync", "gather"},
             \A q \in Rank \ {r} : rank'[q] = rank[q], rank'[r].at = "returned"
      PROVE  MeetInv'
  <2>1. ASSUME NEW q \in Rank \ {r}, Meets(q, r), Meets(r, q)
        PROVE  Meets(q, r)' /\ Meets(r, q)'
    <3>1. rank[q].at \in C
      BY <1>6, <2>1 DEF Meets, Courses
    <3> QED
      BY <1>2, <1>6, <2>1, <3>1 DEF Meets
  <2> QED
    BY <1>1, <1>6, <2>1, OneMeets
<1>7. CASE Generate(r)
  <2> DEFINE out == Own(r, [i \in DOMAIN Repeat(rank[r].rows, IF phase = "validate" THEN 1 ELSE setup.n) |->
                     <<Repeat(rank[r].rows, IF phase = "validate" THEN 1 ELSE setup.n)[i].uid,
                       ((i - 1) % (IF phase = "validate" THEN 1 ELSE setup.n)) + 1, engine[r]>>])
             C == {"gather", "generate", "returned"}
  <2>1. rank[r].at = "generate" /\ rank' = [rank EXCEPT ![r].out = out, ![r].at = "returned"]
    BY <1>7, Zenon DEF Generate
  <2> HIDE DEF out
  <2>2. (\A q \in Rank \ {r} : rank'[q] = rank[q]) /\ rank'[r].at = "returned"
    BY <1>3, <2>1
  <2>3. Generates /\ C \in Courses
    BY <1>3, <2>1 DEF Courses
  <2>4. \A q \in Rank : rank[q].at # "forward"
    BY <1>3, <2>3
  <2> QED
    BY <1>6, <2>1, <2>2, <2>3, <2>4
<1>8. CASE GiveBack(r)
  <2> DEFINE out(back) == IF Updates THEN <<>>
                          ELSE Own(r, [i \in DOMAIN rank[r].out |-> rank[r].out[back[i]]])
             C == {"back", "returned"}
  <2>1. rank[r].at = "back" /\ \E back : rank' = [rank EXCEPT ![r].at = "returned", ![r].out = out(back)]
    BY <1>8 DEF GiveBack
  <2> HIDE DEF out
  <2>2. (\A q \in Rank \ {r} : rank'[q] = rank[q]) /\ rank'[r].at = "returned"
    BY <1>3, <2>1
  <2>3. ~Generates /\ C \in Courses
    BY <1>3, <2>1 DEF Courses
  <2>4. \A q \in Rank : rank[q].at # "forward"
    BY <2>1, <2>3, CourseIs
  <2> QED
    BY <1>6, <2>1, <2>2, <2>3, <2>4
<1>9. CASE PlanFixed(r)
  <2> DEFINE C == {"start", "gather", "plan", "forward"}
  <2>1. /\ rank'[r].todo = rank[r].todo /\ rank'[r].at = "forward"
        /\ Len(rank'[r].plan) = FixedLen(r)
        /\ \A q \in Rank \ {r} : rank'[q] = rank[q]
    BY <1>4, <1>9, FixedPlan
  <2>2. rank[r].at = "plan" /\ ~setup.dynamic
    BY <1>9 DEF PlanFixed
  <2>3. ~Generates /\ C \in Courses /\ rank[r].at \in C /\ rank'[r].at \in C
    BY <1>3, <2>1, <2>2 DEF Courses
  <2>4. ASSUME NEW q \in Rank \ {r}, Meets(q, r), Meets(r, q)
        PROVE  Meets(q, r)' /\ Meets(r, q)'
    <3>1. rank[q].at \in C
      BY <2>2, <2>3, CourseIs
    <3>2. rank[q].at = "forward" => Len(rank[q].plan) = FixedLen(r)
      <4>1. ASSUME rank[q].at = "forward" PROVE FixedLen(q) = FixedLen(r)
        BY <1>4, <2>2, <4>1, SameLen DEF AtWork
      <4> QED
        BY <2>2, <2>4, <4>1 DEF Meets
    <3>3. FixedLen(r)' = FixedLen(r) /\ FixedLen(q)' = FixedLen(q)
      BY <1>2, <2>1
    <3>4. LeaderOf(q) = LeaderOf(r) => rank[q].at \notin {"start", "gather"}
      BY <2>2, <2>4 DEF Meets
    <3>5. Meets(q, r)'
      BY <1>2, <2>1, <2>2, <2>3, <3>1, <3>2, <3>3, <3>4 DEF Meets
    <3>6. Meets(r, q)'
      BY <1>2, <2>1, <2>2, <2>3, <3>1, <3>2, <3>3, <3>4 DEF Meets
    <3> QED
      BY <3>5, <3>6
  <2> QED
    BY <1>1, <2>1, <2>3, <2>4, OneMeets
<1>10. CASE Gather(r)
  <2> DEFINE to == IF Generates THEN "generate" ELSE "plan"
             C == IF Generates THEN {"gather", "generate", "returned"}
                  ELSE {"start", "gather", "plan", "forward"}
  <2>1. C \in Courses /\ "gather" \in C /\ to \in C /\ to \in {"generate", "plan"}
    BY DEF Courses
  <2>2. ASSUME NEW q \in Rank
        PROVE  /\ LeaderOf(q) # r => rank'[q] = rank[q]
               /\ LeaderOf(q) = r => rank[q].at = "gather" /\ rank'[q].at = to
    BY <1>10, GatherIs
  <2>3. \E p \in Rank : rank[p].at = "gather"
    <3>1. LeaderOf(r) = r
      BY <1>10 DEF Gather
    <3> QED
      BY <2>2, <3>1
  <2>4. \A q \in Rank : rank[q].at \in C
    <3>1. Generates => \A q \in Rank : rank[q].at \in {"gather", "generate", "returned"}
      BY <2>3, CourseIs
    <3>2. ~Generates => \A q \in Rank : rank[q].at \in {"start", "gather", "plan", "forward"}
      BY <2>3, CourseIs
    <3> QED
      BY <3>1, <3>2
  <2> HIDE DEF to, C
  <2>5. ASSUME NEW p \in Rank, NEW q \in Rank PROVE Meets(p, q)'
    <3>1. Meets(p, q)
      BY DEF MeetInv
    <3>2. \E D \in Courses : rank'[p].at \in D /\ rank'[q].at \in D
      BY <2>1, <2>2, <2>4
    <3>3. CASE LeaderOf(p) = r
      BY <1>2, <2>1, <2>2, <3>1, <3>2, <3>3 DEF Meets
    <3>4. CASE LeaderOf(p) # r /\ LeaderOf(q) = r
      BY <1>2, <2>1, <2>2, <3>1, <3>2, <3>4 DEF Meets
    <3>5. CASE LeaderOf(p) # r /\ LeaderOf(q) # r
      BY <1>2, <2>2, <3>1, <3>2, <3>5 DEF Meets
    <3> QED
      BY <3>3, <3>4, <3>5
  <2> QED
    BY <1>2, <2>5 DEF MeetInv
<1> QED
  BY <1>5, <1>7, <1>8, <1>9, <1>10 DEF Run

\* All ranks come from the same place and go to the same place.
LEMMA AllMeet ==
    ASSUME NEW at, \E C \in Courses' : at \in C, Rank' = Rank,
           \A r \in Rank : rank'[r].at = at,
           at = "forward" => \A q, r \in Rank : Len(rank'[q].plan) = Len(rank'[r].plan)
    PROVE  MeetInv'
<1>1. ASSUME NEW q \in Rank, NEW r \in Rank PROVE Meets(q, r)'
  BY DEF Meets
<1> QED
  BY <1>1 DEF MeetInv

LEMMA MeetMeets == ASSUME BatchInv, DeviceInv, WorkInv, MeetInv, Meet PROVE MeetInv'
<1>1. UNCHANGED <<setup, phase, batch, length>>
  BY DEF Meet, Sync, PlanDynamic, Forward, Step, driver
<1>2. Courses' = Courses /\ Rank' = Rank
  BY <1>1, MeetFrame
<1>3. SameInv /\ \A q \in Rank : TodoInv(q) /\ PlanInv(q)
  BY DEF WorkInv
<1>4. \A q \in Rank : /\ DOMAIN rank[q] = {"at", "rows", "todo", "plan", "order", "out"}
                      /\ rank[q].at \in {"sync", "generate"} => Generates
                      /\ rank[q].at \in {"plan", "forward", "step", "back"} => ~Generates
  BY DEF DeviceInv, PlaceInv, Idle
<1>5. 1 \in Rank
  BY SomeRank
<1>6. ASSUME NEW at, \A r \in Rank : rank'[r].at = at,
             \/ Generates /\ at = "gather"
             \/ ~Generates /\ at \in {"plan", "step", "back"}
             \/ /\ ~Generates /\ at = "forward"
                /\ \A q, r \in Rank : Len(rank'[q].plan) = Len(rank'[r].plan)
      PROVE  MeetInv'
  <2>1. \E C \in Courses : at \in C
    BY <1>6 DEF Courses
  <2> QED
    BY <1>2, <1>6, <2>1, AllMeet
<1>7. CASE Sync
  <2>1. \A q \in Rank : rank'[q] = [rank[q] EXCEPT !.at = "gather"] /\ rank[q].at = "sync"
    BY <1>7 DEF Sync
  <2>2. \A q \in Rank : rank'[q].at = "gather"
    BY <1>4, <2>1
  <2> QED
    BY <1>4, <1>5, <1>6, <2>1, <2>2
<1>8. CASE PlanDynamic
  <2>1. \A q \in Rank : rank'[q].at = "forward" /\ Len(rank'[q].plan) = NumTogether(q)
    BY <1>3, <1>8, DynamicPlans
  <2>2. \A q, r \in Rank : NumTogether(q) = NumTogether(r)
    BY DEF NumTogether
  <2>3. ~Generates
    BY <1>4, <1>5, <1>8 DEF PlanDynamic
  <2> QED
    BY <1>6, <2>1, <2>2, <2>3
<1>9. CASE Forward
  <2> DEFINE to == IF Len(rank[1].plan) > 1 THEN "forward"
                   ELSE IF Updates THEN "step" ELSE "back"
  <2>1. ASSUME NEW q \in Rank
        PROVE  /\ Len(rank[q].plan) = Len(rank[1].plan) /\ rank'[q].plan = Tail(rank[q].plan)
               /\ rank'[q].at = to /\ rank[q].at = "forward"
    <3>1. /\ rank[q].at = "forward" /\ rank[1].at = "forward"
          /\ rank'[q].plan = Tail(rank[q].plan)
          /\ rank'[q].at = IF Len(rank[q].plan) > 1 THEN "forward"
                           ELSE IF Updates THEN "step" ELSE "back"
      BY <1>5, <1>9, ForwardIs
    <3>2. Len(rank[q].plan) = Len(rank[1].plan)
      BY <1>5, <3>1 DEF MeetInv, Meets
    <3> QED
      BY <3>1, <3>2
  <2>2. ASSUME NEW q \in Rank PROVE Len(rank'[q].plan) = Len(rank[1].plan) - 1
    <3> DEFINE plan == rank[q].plan
    <3>1. PICK order : Dealt(plan, order, Len(Now(q)))
      BY <1>3, <2>1 DEF PlanInv
    <3>2. plan # <<>> /\ Len(Now(q)) \in Nat
      <4>1. NowLen(q) \in Nat /\ Known(Now(q), NowLen(q))
        BY <1>3, <2>1, NowIs DEF AtWork
      <4> QED
        BY <1>3, <2>1, <4>1, LongIs DEF Known, PlanInv
    <3> DEFINE X == Seq(1..Len(Now(q)))
    <3>3. plan \in Seq(X)
      BY <3>1 DEF Dealt
    <3> HIDE DEF plan, X
    <3>4. Len(Tail(plan)) = Len(plan) - 1
      BY <3>2, <3>3
    <3> QED
      BY <2>1, <3>4 DEF plan
  <2>3. ~Generates /\ to \in {"forward", "step", "back"}
    BY <1>4, <1>5, <2>1
  <2> HIDE DEF to
  <2> QED
    BY <1>6, <2>1, <2>2, <2>3
<1>10. CASE Step
  <2> DEFINE to == IF Len(rank[1].todo) = 1 THEN "back" ELSE "plan"
  <2>1. ASSUME NEW q \in Rank PROVE rank'[q].at = to /\ rank[q].at = "step"
    <3>1. /\ rank[q].at = "step" /\ rank[1].at = "step"
          /\ rank'[q].at = IF Len(rank[q].todo) = 1 THEN "back" ELSE "plan"
      BY <1>5, <1>10, StepIs
    <3>2. Updates
      BY <3>1 DEF BatchInv, RankInv, ModelInv
    <3>3. Len(rank[q].todo) = Len(rank[1].todo)
      BY <1>3, <1>5, <3>1, <3>2 DEF SameInv, AtWork
    <3> QED
      BY <3>1, <3>3
  <2>2. ~Generates /\ to \in {"plan", "back"}
    BY <1>4, <1>5, <2>1
  <2> HIDE DEF to
  <2> QED
    BY <1>6, <2>1, <2>2
<1> QED
  BY <1>7, <1>8, <1>9, <1>10 DEF Meet

LEMMA NextMeets == ASSUME BatchInv, DeviceInv, WorkInv, MeetInv, [Next]_vars PROVE MeetInv'
<1>1. ASSUME NEW at, at \in {"idle", "start"}, setup' = setup, \A r \in Rank : rank'[r].at = at
      PROVE  MeetInv'
  <2>1. \E C \in Courses' : at \in C
    BY <1>1 DEF Courses
  <2>2. Rank' = Rank
    BY <1>1 DEF Rank
  <2> QED
    BY <1>1, <2>1, <2>2, AllMeet
<1>2. Idle.at = "idle" /\ DOMAIN Idle = {"at", "rows", "todo", "plan", "order", "out"}
  BY DEF Idle
<1>3. CASE Call
  <2>1. setup' = setup /\ \A q \in Rank : rank[q] = Idle
    BY <1>3 DEF Call, Fail
  <2>2. CASE Fail /\ UNCHANGED rank
    BY <1>1, <1>2, <2>1, <2>2
  <2>3. CASE ~(Fail /\ UNCHANGED rank)
    <3> DEFINE rows(q) == Chunk(Sent, setup.world)[q]
    <3>1. rank' = [q \in Rank |-> [Idle EXCEPT !.at = "start", !.rows = rows(q)]]
      BY <1>3, <2>3, CallIs
    <3> HIDE DEF rows
    <3>2. \A q \in Rank : rank'[q].at = "start"
      BY <1>2, <3>1
    <3> QED
      BY <1>1, <2>1, <3>2
  <2> QED
    BY <2>2, <2>3
<1>4. CASE EndValidate \/ EndGenerate \/ EndInfer \/ EndUpdateCritic \/ EndUpdateActor
  <2>1. setup' = setup /\ rank' = [r \in Rank |-> Idle]
    BY <1>4 DEF EndValidate, EndGenerate, EndInfer, EndUpdateCritic, EndUpdateActor, Fail, Free
  <2> QED
    BY <1>1, <1>2, <2>1
<1>5. CASE Advantage
  <2>1. setup' = setup /\ \A q \in Rank : rank'[q].at = "idle"
    BY <1>5 DEF Advantage, DeviceInv, PlaceInv
  <2> QED
    BY <1>1, <2>1
<1>6. CASE Score \/ UNCHANGED vars
  <2>1. UNCHANGED <<setup, phase, batch, length>> /\ rank' = rank
    BY <1>6 DEF Score, vars
  <2>2. /\ Courses' = Courses /\ Rank' = Rank /\ setup' = setup
        /\ \A q : LeaderOf(q)' = LeaderOf(q)
        /\ \A q : rank'[q].todo = rank[q].todo => FixedLen(q)' = FixedLen(q)
    BY <2>1, MeetFrame
  <2>3. ASSUME NEW p \in Rank, NEW q \in Rank PROVE Meets(p, q)'
    BY <2>1, <2>2 DEF MeetInv, Meets
  <2> QED
    BY <2>2, <2>3 DEF MeetInv
<1> QED
  BY <1>3, <1>4, <1>5, <1>6, RunMeets, MeetMeets DEF Next, Drive, Over

LEMMA InitMeets == Init => MeetInv
<1> SUFFICES ASSUME Init, NEW q \in Rank, NEW r \in Rank PROVE Meets(q, r)
  BY DEF MeetInv
<1>1. rank[q].at = "idle" /\ rank[r].at = "idle"
  BY DEF Init, Idle
<1> QED
  BY <1>1 DEF Meets, Courses

\* As long as the iterations are not over and nothing has failed, the driver
\* can make or end a call, or a rank can go on by itself, or all ranks are at
\* the same collective (in the models' forward passes, in the exchange of
\* weights, in rearrange_micro_batches, in optimizer.step): no rank waits in
\* one that the others do not come to, for any number of ranks, groups, rows and
\* micro batches.
THEOREM NobodyWaitsForEver == Spec => []SomebodyGoesOn
<1>1. Init => BatchInv /\ DeviceInv /\ WorkInv /\ MeetInv
  BY InitBatch, InitDeviceInv, InitWork, InitMeets
<1>2. BatchInv /\ DeviceInv /\ WorkInv /\ MeetInv /\ [Next]_vars
      => (BatchInv /\ DeviceInv /\ WorkInv /\ MeetInv)'
  BY NextKeepsBatch, NextKeepsDevice, NextKeepsWork, NextMeets
<1>3. BatchInv /\ DeviceInv /\ MeetInv => SomebodyGoesOn
  <2> SUFFICES ASSUME BatchInv, DeviceInv, MeetInv, phase \notin {"done", "failed"},
                      \A r \in Rank : ~RankReady(r), ~AllReady
               PROVE  DriverReady
    BY DEF SomebodyGoesOn
  <2>1. /\ setup \in Setups
        /\ \A r \in Rank :
              /\ rank[r].at \in Place
              /\ rank[r].at = "idle" => rank[r] = Idle
              /\ rank[r].at \in {"sync", "generate"} => Generates
              /\ rank[r].at \in {"plan", "forward", "step", "back"} => ~Generates
              /\ phase = "advantage" => rank[r].at = "idle"
    BY DEF DeviceInv, PlaceInv
  <2>2. 1 \in Rank
    BY SomeRank
  <2>3. \A r \in Rank : rank[r].at \notin {"start", "generate", "back"}
    BY DEF RankReady
  <2>4. CASE phase = "advantage"
    BY <2>4 DEF BatchInv, DriverInv, RewardInv, DriverReady
  <2>5. CASE phase # "advantage" /\ \E r \in Rank : rank[r].at = "idle"
    <3>1. \A r \in Rank : rank[r].at = "idle"
      BY <2>5, CourseIs
    <3> QED
      BY <2>1, <2>5, <3>1 DEF DriverReady
  <2>6. ASSUME NEW r \in Rank, rank[r].at = "gather" PROVE FALSE
    <3> DEFINE l == LeaderOf(r)
    <3>1. /\ \A i \in 1..GroupSize : /\ Group(r)[i] = l + i - 1 /\ Group(r)[i] \in Rank
                                     /\ LeaderOf(Group(r)[i]) = l
          /\ l \in 1..r
      BY <2>1, GroupIs
    <3>2. r \in Nat /\ GroupSize \in Nat \ {0}
      BY <2>1, Sizes
    <3>3. l \in Rank /\ LeaderOf(l) = l
      <4>1. 1 \in 1..GroupSize /\ l + 1 - 1 = l
        BY <3>1, <3>2
      <4> QED
        BY <3>1, <4>1
    <3>4. Group(l) = Group(r)
      BY <3>3 DEF Group
    <3>5. ASSUME NEW i \in 1..GroupSize PROVE rank[Group(l)[i]].at = "gather"
      <4> DEFINE q == Group(r)[i]
      <4>1. q \in Rank /\ LeaderOf(q) = LeaderOf(r)
        BY <3>1
      <4> HIDE DEF q
      <4>2. rank[q].at \in {"start", "sync", "gather"}
        BY <2>6, <4>1 DEF MeetInv, Meets
      <4>3. rank[q].at # "sync"
        BY <2>1, <2>6, <4>1, CourseIs
      <4> QED
        BY <2>3, <3>4, <4>1, <4>2, <4>3 DEF q
    <3>6. RankReady(l)
      BY <3>3, <3>5 DEF RankReady
    <3> QED
      BY <3>3, <3>6
  <2>7. CASE phase # "advantage" /\ \A r \in Rank : rank[r].at # "idle"
    <3>1. \A r \in Rank : rank[r].at \in {"sync", "plan", "forward", "step", "returned"}
      BY <2>1, <2>3, <2>6, <2>7 DEF Place
    <3>2. rank[1].at # "sync"
      <4>1. ASSUME rank[1].at = "sync" PROVE \A r \in Rank : rank[r].at = "sync"
        BY <2>1, <2>2, <3>1, <4>1, CourseIs
      <4> QED
        BY <4>1 DEF AllReady
    <3>3. rank[1].at # "step"
      <4>1. ASSUME rank[1].at = "step" PROVE \A r \in Rank : rank[r].at = "step"
        BY <2>1, <2>2, <4>1, CourseIs
      <4> QED
        BY <4>1 DEF AllReady
    <3>4. rank[1].at \notin {"plan", "forward"}
      <4>1. SUFFICES ASSUME rank[1].at \in {"plan", "forward"} PROVE FALSE
        OBVIOUS
      <4>2. \A r \in Rank : rank[r].at \in {"plan", "forward"}
        BY <2>1, <2>2, <3>1, <4>1, CourseIs
      <4>3. CASE setup.dynamic
        <5>1. \A q, r \in Rank : rank[q].at = "forward" => rank[r].at = "forward"
          BY <4>3 DEF MeetInv, Meets
        <5> QED
          BY <2>2, <4>2, <4>3, <5>1 DEF AllReady
      <4>4. CASE ~setup.dynamic
        <5>1. \A r \in Rank : rank[r].at # "plan"
          BY <4>4 DEF RankReady
        <5> QED
          BY <4>2, <5>1 DEF AllReady
      <4> QED
        BY <4>3, <4>4
    <3>5. rank[1].at = "returned"
      BY <2>2, <3>1, <3>2, <3>3, <3>4
    <3>6. \A r \in Rank : rank[r].at = "returned"
      BY <2>2, <2>3, <2>6, <3>5, CourseIs
    <3> QED
      BY <2>7, <3>6 DEF DriverReady, Returned
  <2> QED
    BY <2>4, <2>5, <2>7
<1> QED
  BY <1>1, <1>2, <1>3, PTL DEF Spec

-----------------------------------------------------------------------------
(* What becomes of a batch.                                                *)

\* A batch fails only in an uneven setup, one whose prompts the ranks do not
\* divide, and there it never gets its responses.
Even == setup.prompts % setup.world = 0
FateInv == (phase = "failed" => ~Even) /\ (Answered => Even)

\* Padding fills up the last piece.
LEMMA PaddedDivides ==
    ASSUME NEW n \in Nat \ {0}, NEW k \in Nat \ {0}, NEW rows, Long(rows, n)
    PROVE  Len(PadToDivisor(rows, k)) % k = 0
<1> DEFINE p == PadSize(rows, k)
           x == n % k
           q == n \div k
<1>1. Len(rows) = n
  <2>1. n \in Nat
    OBVIOUS
  <2> QED
    BY <2>1, LongIs
<1>2. p = (k - x) % k
  BY <1>1 DEF PadSize
<1>3. x \in 0 .. k - 1 /\ q \in Nat /\ n = q * k + x
  BY Division
<1>4. p \in Nat /\ Len(PadToDivisor(rows, k)) = n + p
  <2>1. Extends(PadToDivisor(rows, k), rows, n, p)
    BY PaddingIs
  <2>2. p \in Nat /\ Long(PadToDivisor(rows, k), n + p)
    BY <2>1 DEF Extends
  <2> HIDE DEF p
  <2>3. n + p \in Nat
    BY <2>2
  <2> QED
    BY <2>2, <2>3, LongIs
<1> HIDE DEF p, x, q
<1>5. (n + p) % k = 0
  <2>1. CASE x = 0
    <3>1. p = 0
      <4>1. k - x = k /\ k % k = 0
        BY <2>1
      <4> QED
        BY <1>2, <4>1
    <3> QED
      BY <2>1, <3>1 DEF x
  <2>2. CASE x # 0
    <3>1. k - x \in 0 .. k - 1
      BY <1>3, <2>2
    <3>2. p = k - x
      BY <1>2, <3>1
    <3> DEFINE y == q * k
    <3>3. y \in Nat /\ (q + 1) * k = y + k
      BY <1>3, Products
    <3>4. n + p = y + k
      <4>1. n = y + x
        BY <1>3
      <4> HIDE DEF y
      <4> QED
        BY <1>3, <3>2, <3>3, <4>1
    <3>5. n + p = (q + 1) * k
      BY <3>3, <3>4
    <3>6. \A z \in Nat : (z * k) % k = 0
      OBVIOUS
    <3> QED
      BY <1>3, <3>5, <3>6
  <2> QED
    BY <2>1, <2>2
<1> QED
  BY <1>4, <1>5

\* In an even setup what is sent is cut into equal pieces.
LEMMA EvenIsSent ==
    ASSUME DriverInv, setup \in Setups, Even,
           phase \in Phases \ {"advantage", "done", "failed"}
    PROVE  Len(Sent) % setup.world = 0 /\ (phase # "validate" => Sent = batch)
<1>1. setup.world \in Nat \ {0}
  BY Sizes
<1>2. PICK n \in Nat \ {0} : Long(batch, n) /\ Len(batch) = n /\ (phase = "generate" => n = setup.prompts)
  BY BatchIs
<1>3. CASE phase = "validate"
  BY <1>1, <1>2, <1>3, PaddedDivides DEF Sent
<1>4. CASE phase = "generate"
  <2>1. n % setup.world = 0
    BY <1>2, <1>4 DEF Even
  <2>2. Sent = batch
    BY <1>2, <1>4, <2>1, SentIs
  <2> QED
    BY <1>2, <2>1, <2>2
<1>5. CASE phase \notin {"validate", "generate"}
  <2>1. Answered /\ phase # "validate"
    BY <1>5 DEF Answered
  <2>2. Sent = batch /\ Len(batch) = NumTrajectories /\ NumTrajectories % setup.world = 0
    BY <2>1, SentIsBatch DEF DriverInv
  <2> QED
    BY <2>2
<1> QED
  BY <1>3, <1>4, <1>5

\* How many responses and results come back.
LEMMA HowManyReturn ==
    ASSUME BatchInv, DeviceInv, Returned, ~Updates, phase # "validate"
    PROVE  /\ Len(batch) \in Nat \ {0} /\ Len(Sent) - Len(batch) \in Nat
           /\ Len(Sent) = setup.world * Size /\ Size \in Nat /\ setup.world \in Nat \ {0}
           /\ Len(Collected) =
                 (IF Generates THEN Len(Sent) * setup.n ELSE Len(Sent)) - (Len(Sent) - Len(batch))
<1>1. 1 \in Rank /\ rank[1].at # "idle" /\ phase # "failed" /\ DriverInv /\ setup \in Setups
  BY SomeRank DEF Returned, DeviceInv, PlaceInv, BatchInv
<1>2. /\ Len(Sent) = setup.world * Size /\ Size \in Nat /\ setup.world \in Nat \ {0}
      /\ Len(Sent) \in Nat
  BY <1>1, CallSizes
<1>3. Len(batch) \in Nat \ {0} /\ Len(batch) <= Len(Sent)
  BY <1>1, SentBegins
<1>4. PICK T, n \in Nat :
         /\ T = (IF Generates THEN Len(Sent) * PerPrompt ELSE Len(Sent))
         /\ n = T - (Len(Sent) - Len(batch))
         /\ FirstOf(T, n)
  BY CollectedIs
<1>5. Len(Collected) = n
  BY <1>4 DEF FirstOf
<1>6. Generates => PerPrompt = setup.n
  BY DEF Generates, PerPrompt
<1>7. Len(Sent) - Len(batch) \in Nat
  BY <1>2, <1>3
<1> QED
  BY <1>2, <1>3, <1>4, <1>5, <1>6, <1>7

LEMMA CallFate == ASSUME BatchInv, DeviceInv, FateInv, Call PROVE FateInv'
<1>1. /\ phase \in Phases \ {"advantage", "done", "failed"}
      /\ setup \in Setups /\ setup' = setup /\ DriverInv
  BY DEF Call, Fail, DeviceInv, PlaceInv, BatchInv, DriverInv
<1>2. CASE Fail /\ UNCHANGED rank
  <2>1. Len(Sent) % setup.world # 0
    <3>1. \/ Len(Sent) % setup.world # 0
          \/ rank' = [r \in Rank |-> [Idle EXCEPT !.at = "start",
                                          !.rows = Chunk(Sent, setup.world)[r]]]
      BY Zenon DEF Call
    <3>2. 1 \in Rank /\ rank[1].at = "idle"
      <4>1. rank[1] = Idle /\ 1 \in Rank
        BY SomeRank, Zenon DEF Call
      <4> QED
        BY <4>1 DEF Idle
    <3>3. rank'[1].at = "idle"
      BY <1>2, <3>2
    <3>4. rank' # [r \in Rank |-> [Idle EXCEPT !.at = "start",
                                      !.rows = Chunk(Sent, setup.world)[r]]]
      <4> DEFINE Begun(r) == [Idle EXCEPT !.at = "start", !.rows = Chunk(Sent, setup.world)[r]]
      <4>1. Begun(1).at = "start"
        BY DEF Idle
      <4> HIDE DEF Begun
      <4>2. rank' # [r \in Rank |-> Begun(r)]
        BY <3>2, <3>3, <4>1
      <4> QED
        BY <4>2 DEF Begun
    <3> QED
      BY <3>1, <3>4
  <2>2. ~Even /\ phase' = "failed"
    BY <1>1, <1>2, <2>1, EvenIsSent DEF Fail
  <2> QED
    BY <1>1, <2>2 DEF FateInv, Even, Answered
<1>3. CASE ~(Fail /\ UNCHANGED rank)
  <2>1. phase' = phase
    BY <1>3, CallIs
  <2> QED
    BY <1>1, <2>1 DEF FateInv, Even, Answered
<1> QED
  BY <1>2, <1>3

LEMMA EndGenerateFate ==
    ASSUME BatchInv, DeviceInv, FateInv, EndGenerate PROVE FateInv'
<1> DEFINE b == Len(batch)
           d == Len(Sent) - Len(batch)
           m == setup.n
           w == setup.world
           C == Len(Collected)
<1>1. /\ phase = "generate" /\ Returned /\ setup \in Setups /\ setup' = setup
      /\ DriverInv /\ Generates /\ ~Updates
  BY DEF EndGenerate, Fail, DeviceInv, PlaceInv, BatchInv, Generates, Updates
<1>2. \/ C # b * m /\ phase' = "failed"
      \/ C = b * m /\ phase' = "log_prob"
  <2>1. \/ C # b * m /\ Fail
        \/ C = b * m /\ phase' = "log_prob"
    BY ZenonT(40) DEF EndGenerate
  <2> QED
    BY <2>1 DEF Fail
<1>3. /\ b \in Nat \ {0} /\ d \in Nat /\ w \in Nat \ {0} /\ Size \in Nat
      /\ Len(Sent) = w * Size /\ C = Len(Sent) * m - d
  BY <1>1, HowManyReturn
<1>4. b = setup.prompts /\ m \in Nat \ {0} /\ (setup.prompts * m) % w = 0
  BY <1>1, BatchIs, SetupAssumption
<1>5. Len(Sent) = b + d
  <2>1. w * Size \in Nat
    BY <1>3, Products
  <2> QED
    BY <1>3, <2>1
<1>6. Even => d = 0
  <2>1. Even => Sent = batch
    BY <1>1, EvenIsSent DEF Phases
  <2> QED
    BY <1>3, <1>5, <2>1
<1>7. d = 0 => Even
  <2> SUFFICES ASSUME d = 0 PROVE Even
    OBVIOUS
  <2> DEFINE c == Size
             L == Len(Sent)
  <2>1. b = L /\ L = w * c /\ c \in Nat /\ w \in Nat \ {0}
    BY <1>3, <1>5
  <2> HIDE DEF b, d, m, w, C, c, L
  <2>2. (w * c) % w = 0
    <3>1. \A x \in Nat : (x * w) % w = 0 /\ x * w = w * x
      BY <2>1
    <3> QED
      BY <2>1, <3>1
  <2>3. b % w = 0
    BY <2>1, <2>2
  <2> QED
    BY <1>4, <2>3 DEF Even, w
<1>8. m = 1 => Even
  <2>1. m = 1 => setup.prompts * m = setup.prompts
    BY <1>3, <1>4
  <2> QED
    BY <1>4, <2>1 DEF Even
<1> HIDE DEF b, d, m, w, C
<1>9. C = b * m <=> d = 0 \/ m = 1
  <2>1. \A x, y, z \in Nat : (x + y) * z = x * z + y * z
    OBVIOUS
  <2>2. b * m \in Nat /\ d * m \in Nat /\ C = b * m + d * m - d
    <3>1. \A x, y \in Nat : x * y \in Nat
      OBVIOUS
    <3> DEFINE L == Len(Sent)
    <3>2. L = b + d /\ C = L * m - d
      BY <1>3, <1>5
    <3> HIDE DEF L
    <3>3. b \in Nat /\ d \in Nat /\ m \in Nat
      BY <1>3, <1>4
    <3>4. (b + d) * m = b * m + d * m /\ b * m \in Nat /\ d * m \in Nat
      BY <2>1, <3>1, <3>3
    <3>5. C = (b + d) * m - d
      BY <3>2
    <3> DEFINE u == b * m
               v == d * m
               s == (b + d) * m
    <3>6. C = s - d /\ s = u + v /\ u \in Nat /\ v \in Nat
      BY <3>4, <3>5
    <3> HIDE DEF u, v, s
    <3>7. C = u + v - d
      BY <3>3, <3>6
    <3> QED
      BY <3>6, <3>7 DEF u, v
  <2>3. C = b * m <=> d * m = d
    BY <1>3, <2>2
  <2>4. d = 0 \/ m = 1 => d * m = d
    BY <1>3, <1>4
  <2>5. ASSUME d # 0, m # 1 PROVE d * m # d
    <3>1. 2 <= m /\ 2 \in Nat /\ m \in Nat /\ d \in Nat
      BY <1>3, <1>4, <2>5
    <3>2. 2 * d <= m * d
      BY <3>1, Products
    <3>3. m * d = d * m
      BY <3>1
    <3> QED
      BY <2>2, <2>5, <3>1, <3>2, <3>3
  <2> QED
    BY <2>3, <2>4, <2>5
<1>10. C = b * m <=> Even
  BY <1>6, <1>7, <1>8, <1>9
<1> QED
  BY <1>1, <1>2, <1>10 DEF FateInv, Even, Answered, Phases

LEMMA EndInferFate == ASSUME BatchInv, DeviceInv, FateInv, EndInfer PROVE FateInv'
<1>1. /\ phase \in {"log_prob", "values"} /\ Returned /\ setup \in Setups
      /\ setup' = setup /\ DriverInv /\ Answered /\ ~Updates /\ ~Generates
  BY DEF EndInfer, Fail, DeviceInv, PlaceInv, BatchInv, Answered, Phases, Updates, Generates
<1>2. Even
  BY <1>1 DEF FateInv
<1>3. Len(Collected) = Len(batch)
  <2>1. Sent = batch
    BY <1>1, <1>2, EvenIsSent DEF Phases
  <2>2. /\ Len(batch) \in Nat
        /\ Len(Collected) = Len(Sent) - (Len(Sent) - Len(batch))
    BY <1>1, HowManyReturn
  <2> QED
    BY <2>1, <2>2
<1>4. phase' \in {"values", "advantage"}
  <2>1. \/ Len(Collected) # Len(batch)
        \/ phase' = "values"
        \/ phase' = "advantage"
    BY ZenonT(40) DEF EndInfer
  <2> QED
    BY <1>3, <2>1
<1> QED
  BY <1>1, <1>2, <1>4 DEF FateInv, Even

LEMMA NextFate == ASSUME BatchInv, DeviceInv, FateInv, [Next]_vars PROVE FateInv'
<1>1. CASE Call \/ EndGenerate \/ EndInfer
  BY <1>1, CallFate, EndGenerateFate, EndInferFate
<1>2. CASE EndValidate
  BY <1>2 DEF EndValidate, FateInv, Even, Answered
<1>3. CASE Advantage \/ EndUpdateCritic \/ EndUpdateActor
  <2>1. Answered /\ setup' = setup /\ phase' # "failed"
    BY <1>3 DEF Advantage, EndUpdateCritic, EndUpdateActor, Answered, Phases
  <2> QED
    BY <2>1 DEF FateInv, Even
<1>4. CASE UNCHANGED <<setup, phase>>
  BY <1>4 DEF FateInv, Even, Answered
<1>5. CASE Meet \/ Score \/ Over \/ UNCHANGED vars
  <2>1. UNCHANGED <<setup, phase>>
    BY <1>5 DEF Meet, Sync, PlanDynamic, Forward, Step, Score, Over, vars, driver
  <2> QED
    BY <1>4, <2>1
<1>6. ASSUME NEW r \in Rank, Run(r) PROVE FateInv'
  <2>1. UNCHANGED <<setup, phase>>
    BY <1>6 DEF Run, Load, Gather, Generate, PlanFixed, GiveBack, driver
  <2> QED
    BY <1>4, <2>1
<1> QED
  BY <1>1, <1>2, <1>3, <1>5, <1>6 DEF Next, Drive

\* The training is over with all its batches only when the ranks divide the
\* prompts, and fails only when they do not: what the property of the runs,
\* IterationEnds, says of where a behaviour ends, if it ends.  No padding gets
\* an uneven batch through, and nothing else fails.
THEOREM OnlyUnevenPromptsFail ==
    Spec => [](/\ phase = "done" => setup.prompts % setup.world = 0
               /\ phase = "failed" => setup.prompts % setup.world # 0)
<1>1. Init => DeviceInv /\ BatchInv
  BY InitDeviceInv, InitBatch
<1>2. Init => FateInv
  BY DEF Init, FateInv, Answered
<1>3. DeviceInv /\ BatchInv /\ FateInv /\ [Next]_vars => DeviceInv' /\ BatchInv' /\ FateInv'
  BY NextKeepsDevice, NextKeepsBatch, NextFate
<1>4. FateInv => /\ phase = "done" => setup.prompts % setup.world = 0
                 /\ phase = "failed" => setup.prompts % setup.world # 0
  BY DEF FateInv, Even, Answered, Phases
<1> QED
  BY <1>1, <1>2, <1>3, <1>4, PTL DEF Spec

=============================================================================
