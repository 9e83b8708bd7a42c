---------------------------- MODULE SumTheorems -----------------------------
(***************************************************************************)
(* What the theorems of other modules need to know of numbers, finite sets *)
(* and sums: induction stated with sets, for the theorems of the library   *)
(* that take an operator cannot be applied, and the laws of the sum of a   *)
(* function over a finite set, which the library defines by recursion.     *)
(***************************************************************************)
EXTENDS Integers, Functions, FiniteSetTheorems, WellFoundedInduction, TLAPS

-----------------------------------------------------------------------------
(* Induction, on numbers and on the subsets of a finite set.               *)

LEMMA Least ==
    ASSUME NEW T, T \subseteq Nat, T # {}
    PROVE  \E n \in T : \A m \in T : ~(m < n)
<1> DEFINE R == OpToRel(<, Nat)
<1>1. IsWellFoundedOn(R, Nat)
  BY NatLessThanWellFounded, Zenon
<1>2. \A x, y \in Nat : y < x => <<y, x>> \in R
  BY DEF OpToRel
<1> HIDE DEF R
<1>3. \E n \in T : \A m \in T : ~ (<<m, n>> \in R)
  BY <1>1, WFMin
<1> QED
  BY <1>2, <1>3

LEMMA NumberInduction ==
    ASSUME NEW T, 0 \in T, \A n \in Nat : n \in T => n + 1 \in T
    PROVE  Nat \subseteq T
<1> SUFFICES ASSUME Nat \ T # {} PROVE FALSE
  OBVIOUS
<1>1. PICK n \in Nat \ T : \A m \in Nat \ T : ~(m < n)
  BY Least
<1>2. n - 1 \in Nat /\ n - 1 < n
  BY <1>1
<1>3. n - 1 \in T
  BY <1>1, <1>2
<1> QED
  BY <1>1, <1>2, <1>3

\* What holds of the empty set, and of a set when it holds of the set without
\* any one of its elements.
LEMMA SubsetInduction ==
    ASSUME NEW U, IsFiniteSet(U), NEW T, {} \in T,
           \A S \in SUBSET U : S # {} /\ (\A x \in S : S \ {x} \in T) => S \in T
    PROVE  SUBSET U \subseteq T
<1> DEFINE K == {n \in Nat : \A S \in SUBSET U : Cardinality(S) = n => S \in T}
<1>1. \A S \in SUBSET U : IsFiniteSet(S) /\ Cardinality(S) \in Nat
  BY FS_Subset, FS_CardinalityType
<1>2. 0 \in K
  BY <1>1, FS_EmptySet
<1>3. ASSUME NEW n \in Nat, n \in K PROVE n + 1 \in K
  <2>1. ASSUME NEW S \in SUBSET U, Cardinality(S) = n + 1 PROVE S \in T
    <3>1. IsFiniteSet(S) /\ S # {}
      BY <1>1, <2>1, FS_EmptySet
    <3>2. ASSUME NEW x \in S PROVE S \ {x} \in T
      <4>1. Cardinality(S \ {x}) = n
        <5>1. Cardinality(S \ {x}) = Cardinality(S) - 1
          BY <3>1, FS_RemoveElement
        <5> QED
          BY <2>1, <5>1
      <4> QED
        BY <1>3, <4>1
    <3> QED
      BY <3>1, <3>2
  <2> QED
    BY <2>1
<1>4. Nat \subseteq K
  BY <1>2, <1>3, NumberInduction
<1> QED
  BY <1>1, <1>4

-----------------------------------------------------------------------------
(* Sums.  SumFunctionOnSet takes the elements of a set away one after the  *)
(* other, in an order of its own.                                          *)

Pick(S) == CHOOSE x \in S : TRUE

\* it is a table of the sums of f over the subsets of S.
Tables(it, f, S) ==
    it = [Z \in SUBSET S |-> IF Z = {} THEN 0 ELSE f[Pick(Z)] + it[Z \ {Pick(Z)}]]
Table(f, S) == CHOOSE it : Tables(it, f, S)

LEMMA SumIsTabled ==
    ASSUME NEW f, NEW S PROVE SumFunctionOnSet(f, S) = Table(f, S)[S]
  BY Zenon DEF SumFunctionOnSet, FoldFunctionOnSet, MapThenFoldSet, Table, Tables, Pick

LEMMA TablesExist ==
    ASSUME NEW f, NEW U, IsFiniteSet(U) PROVE Tables(Table(f, U), f, U)
<1> DEFINE Small(n) == {Z \in SUBSET U : Cardinality(Z) <= n}
           Partial(it, n) == it = [Z \in Small(n) |->
                      IF Z = {} THEN 0 ELSE f[Pick(Z)] + it[Z \ {Pick(Z)}]]
           K == {n \in Nat : \E it : Partial(it, n)}
<1>1. \A Z \in SUBSET U : IsFiniteSet(Z) /\ Cardinality(Z) \in Nat
  BY FS_Subset, FS_CardinalityType
<1>2. \A Z \in SUBSET U : Z # {} =>
          /\ Pick(Z) \in Z /\ Z \ {Pick(Z)} \in SUBSET U
          /\ Cardinality(Z \ {Pick(Z)}) = Cardinality(Z) - 1
  BY <1>1, FS_RemoveElement DEF Pick
<1>3. 0 \in K
  <2>1. \A Z \in Small(0) : Z = {}
    BY <1>1, FS_EmptySet
  <2>2. Partial([Z \in Small(0) |-> 0], 0)
    BY <2>1
  <2> QED
    BY <2>2
<1>4. ASSUME NEW n \in Nat, n \in K PROVE n + 1 \in K
  <2>1. PICK it : Partial(it, n)
    BY <1>4
  <2> DEFINE more == [Z \in Small(n + 1) |->
                 IF Z = {} THEN 0 ELSE f[Pick(Z)] + it[Z \ {Pick(Z)}]]
  <2>2. \A Z \in Small(n) : Z \in Small(n + 1) /\ more[Z] = it[Z]
    <3>1. \A Z \in Small(n) : Z \in Small(n + 1)
      BY <1>1
    <3>2. \A Z \in Small(n) :
             it[Z] = IF Z = {} THEN 0 ELSE f[Pick(Z)] + it[Z \ {Pick(Z)}]
      BY <2>1
    <3> HIDE DEF Small
    <3> QED
      BY <3>1, <3>2
  <2>3. \A Z \in Small(n + 1) : Z # {} => Z \ {Pick(Z)} \in Small(n)
    BY <1>1, <1>2
  <2>4. \A Z \in Small(n + 1) : Z # {} => more[Z \ {Pick(Z)}] = it[Z \ {Pick(Z)}]
    BY <2>2, <2>3
  <2> HIDE DEF Small
  <2>5. Partial(more, n + 1)
    BY <2>4
  <2> HIDE DEF more, Partial
  <2> QED
    BY <2>5
<1>5. Nat \subseteq K
  BY <1>3, <1>4, NumberInduction
<1>6. PICK it : Partial(it, Cardinality(U))
  BY <1>1, <1>5
<1>7. Small(Cardinality(U)) = SUBSET U
  <2>1. \A Z \in SUBSET U : Cardinality(Z) <= Cardinality(U)
    BY FS_Subset
  <2> QED
    BY <2>1
<1>8. Tables(it, f, U)
  BY <1>6, <1>7 DEF Tables
<1> QED
  BY <1>8 DEF Table

LEMMA TablesAgree ==
    ASSUME NEW f, NEW U, IsFiniteSet(U), NEW S \in SUBSET U
    PROVE  Table(f, U)[S] = SumFunctionOnSet(f, S)
<1> DEFINE a == Table(f, U)
           b == Table(f, S)
           T == {Z \in SUBSET S : a[Z] = b[Z]}
<1>1. IsFiniteSet(S)
  BY FS_Subset
<1>2. Tables(a, f, U) /\ Tables(b, f, S)
  BY <1>1, TablesExist
<1> HIDE DEF a, b
<1>3. {} \in T
  BY <1>2 DEF Tables
<1>4. ASSUME NEW Z \in SUBSET S, Z # {}, \A x \in Z : Z \ {x} \in T PROVE Z \in T
  <2>1. Pick(Z) \in Z
    BY <1>4 DEF Pick
  <2>2. a[Z \ {Pick(Z)}] = b[Z \ {Pick(Z)}]
    BY <1>4, <2>1
  <2> QED
    BY <1>2, <1>4, <2>2 DEF Tables
<1>5. \A Z \in SUBSET S : Z # {} /\ (\A x \in Z : Z \ {x} \in T) => Z \in T
  BY <1>4
<1>6. a[S] = b[S]
  <2> HIDE DEF T
  <2>1. SUBSET S \subseteq T
    BY <1>1, <1>3, <1>5, SubsetInduction
  <2> QED
    BY <2>1 DEF T
<1> QED
  BY <1>6, SumIsTabled DEF a, b

LEMMA SumRecursion ==
    ASSUME NEW f, NEW S, IsFiniteSet(S)
    PROVE  /\ S = {} => SumFunctionOnSet(f, S) = 0
           /\ S # {} => /\ Pick(S) \in S
                        /\ SumFunctionOnSet(f, S) =
                             f[Pick(S)] + SumFunctionOnSet(f, S \ {Pick(S)})
<1>1. Tables(Table(f, S), f, S) /\ SumFunctionOnSet(f, S) = Table(f, S)[S]
  BY TablesExist, SumIsTabled
<1>2. S # {} => Pick(S) \in S
  BY DEF Pick
<1>3. Table(f, S)[S \ {Pick(S)}] = SumFunctionOnSet(f, S \ {Pick(S)})
  BY TablesAgree
<1> QED
  BY <1>1, <1>2, <1>3 DEF Tables

LEMMA SumType ==
    ASSUME NEW f, NEW S, IsFiniteSet(S), \A x \in S : f[x] \in Nat
    PROVE  SumFunctionOnSet(f, S) \in Nat
<1> DEFINE T == {Z \in SUBSET S : SumFunctionOnSet(f, Z) \in Nat}
<1>1. \A Z \in SUBSET S : IsFiniteSet(Z)
  BY FS_Subset
<1>2. {} \in T
  <2>1. SumFunctionOnSet(f, {}) = 0
    BY FS_EmptySet, SumRecursion
  <2> QED
    BY <2>1
<1>3. ASSUME NEW Z \in SUBSET S, Z # {}, \A x \in Z : Z \ {x} \in T PROVE Z \in T
  <2>1. /\ Pick(Z) \in Z
        /\ SumFunctionOnSet(f, Z) = f[Pick(Z)] + SumFunctionOnSet(f, Z \ {Pick(Z)})
    BY <1>1, <1>3, SumRecursion
  <2> QED
    BY <1>3, <2>1
<1>4. \A Z \in SUBSET S : Z # {} /\ (\A x \in Z : Z \ {x} \in T) => Z \in T
  BY <1>3
<1> HIDE DEF T
<1>5. SUBSET S \subseteq T
  BY <1>2, <1>4, SubsetInduction
<1> QED
  BY <1>5 DEF T

\* The order does not matter: any element may be the first.
LEMMA SumTakes ==
    ASSUME NEW f, NEW S, IsFiniteSet(S), \A x \in S : f[x] \in Nat, NEW first \in S
    PROVE  SumFunctionOnSet(f, S) = f[first] + SumFunctionOnSet(f, S \ {first})
<1> DEFINE Sum(Z) == SumFunctionOnSet(f, Z)
           T == {Z \in SUBSET S : \A x \in Z : Sum(Z) = f[x] + Sum(Z \ {x})}
<1>1. \A Z \in SUBSET S : IsFiniteSet(Z)
  BY FS_Subset
<1>2. ASSUME NEW Z \in SUBSET S PROVE Sum(Z) \in Nat
  <2>1. \A x \in Z : f[x] \in Nat
    OBVIOUS
  <2> QED
    BY <1>1, <2>1, SumType
<1>3. ASSUME NEW Z \in SUBSET S, Z # {}
      PROVE  Pick(Z) \in Z /\ Sum(Z) = f[Pick(Z)] + Sum(Z \ {Pick(Z)})
  BY <1>1, <1>3, SumRecursion
<1> HIDE DEF Sum
<1>4. ASSUME NEW Z \in SUBSET S, Z # {}, \A x \in Z : Z \ {x} \in T PROVE Z \in T
  <2> SUFFICES ASSUME NEW x \in Z PROVE Sum(Z) = f[x] + Sum(Z \ {x})
    BY <1>4
  <2> DEFINE p == Pick(Z)
  <2>1. p \in Z /\ Sum(Z) = f[p] + Sum(Z \ {p})
    BY <1>3, <1>4
  <2> HIDE DEF p
  <2>2. CASE p # x
    <3>1. Sum(Z \ {p}) = f[x] + Sum((Z \ {p}) \ {x})
      BY <1>4, <2>1, <2>2
    <3>2. Sum(Z \ {x}) = f[p] + Sum((Z \ {x}) \ {p})
      BY <1>4, <2>1, <2>2
    <3>3. (Z \ {p}) \ {x} = (Z \ {x}) \ {p}
      OBVIOUS
    <3>4. Sum((Z \ {p}) \ {x}) \in Nat /\ f[x] \in Nat /\ f[p] \in Nat
      BY <1>2, <2>1
    <3> QED
      BY <2>1, <3>1, <3>2, <3>3, <3>4
  <2> QED
    BY <2>1, <2>2
<1>5. \A Z \in SUBSET S : Z # {} /\ (\A x \in Z : Z \ {x} \in T) => Z \in T
  BY <1>4
<1>6. {} \in T
  OBVIOUS
<1> HIDE DEF T
<1>7. SUBSET S \subseteq T
  BY <1>5, <1>6, SubsetInduction
<1> QED
  BY <1>7 DEF T, Sum

LEMMA SumUnion ==
    ASSUME NEW f, NEW A, NEW B, IsFiniteSet(A), IsFiniteSet(B), A \cap B = {},
           \A x \in A \cup B : f[x] \in Nat
    PROVE  SumFunctionOnSet(f, A \cup B) = SumFunctionOnSet(f, A) + SumFunctionOnSet(f, B)
<1> DEFINE Sum(Z) == SumFunctionOnSet(f, Z)
           T == {Z \in SUBSET B : Sum(A \cup Z) = Sum(A) + Sum(Z)}
<1>1. ASSUME NEW Z, Z \subseteq A \cup B
      PROVE  /\ IsFiniteSet(Z) /\ Sum(Z) \in Nat
             /\ \A x \in Z : Sum(Z) = f[x] + Sum(Z \ {x})
  <2>1. IsFiniteSet(Z)
    BY <1>1, FS_Union, FS_Subset
  <2>2. \A x \in Z : f[x] \in Nat
    BY <1>1
  <2>3. Sum(Z) \in Nat
    BY <2>1, <2>2, SumType
  <2>4. \A x \in Z : Sum(Z) = f[x] + Sum(Z \ {x})
    BY <2>1, <2>2, SumTakes
  <2> QED
    BY <2>1, <2>3, <2>4
<1>2. Sum({}) = 0
  BY FS_EmptySet, SumRecursion
<1> HIDE DEF Sum
<1>3. {} \in T
  BY <1>1, <1>2
<1>4. ASSUME NEW Z \in SUBSET B, Z # {}, \A x \in Z : Z \ {x} \in T PROVE Z \in T
  <2>1. PICK x : x \in Z
    BY <1>4
  <2>2. Sum(A \cup Z) = f[x] + Sum((A \cup Z) \ {x})
    BY <1>1, <2>1
  <2>3. (A \cup Z) \ {x} = A \cup (Z \ {x})
    BY <2>1
  <2>4. Sum(A \cup (Z \ {x})) = Sum(A) + Sum(Z \ {x})
    BY <1>4, <2>1
  <2>5. Sum(Z) = f[x] + Sum(Z \ {x})
    BY <1>1, <2>1
  <2>6. f[x] \in Nat /\ Sum(A) \in Nat /\ Sum(Z \ {x}) \in Nat
    <3>1. Z \ {x} \subseteq A \cup B /\ A \subseteq A \cup B
      OBVIOUS
    <3> QED
      BY <1>1, <2>1, <3>1
  <2>7. \A k, l, m \in Nat : k + (l + m) = l + (k + m)
    OBVIOUS
  <2>8. Sum(A \cup Z) = Sum(A) + Sum(Z)
    BY <2>2, <2>3, <2>4, <2>5, <2>6, <2>7
  <2> QED
    BY <2>8
<1>5. \A Z \in SUBSET B : Z # {} /\ (\A x \in Z : Z \ {x} \in T) => Z \in T
  BY <1>4
<1> HIDE DEF T
<1>6. SUBSET B \subseteq T
  BY <1>3, <1>5, SubsetInduction
<1> QED
  BY <1>6 DEF T, Sum

LEMMA SumGrows ==
    ASSUME NEW f, NEW A, NEW B, IsFiniteSet(B), A \subseteq B,
           \A x \in B : f[x] \in Nat
    PROVE  SumFunctionOnSet(f, A) <= SumFunctionOnSet(f, B)
<1>1. /\ IsFiniteSet(A) /\ IsFiniteSet(B \ A) /\ A \cup (B \ A) = B
      /\ \A x \in A \cup (B \ A) : f[x] \in Nat
  BY FS_Subset
<1>2. SumFunctionOnSet(f, B) = SumFunctionOnSet(f, A) + SumFunctionOnSet(f, B \ A)
  BY <1>1, SumUnion
<1>3. SumFunctionOnSet(f, A) \in Nat /\ SumFunctionOnSet(f, B \ A) \in Nat
  BY <1>1, SumType
<1> QED
  BY <1>2, <1>3

LEMMA SumSame ==
    ASSUME NEW f, NEW g, NEW S, IsFiniteSet(S), \A x \in S : f[x] = g[x]
    PROVE  SumFunctionOnSet(f, S) = SumFunctionOnSet(g, S)
<1> DEFINE T == {Z \in SUBSET S : SumFunctionOnSet(f, Z) = SumFunctionOnSet(g, Z)}
<1>1. \A Z \in SUBSET S : IsFiniteSet(Z)
  BY FS_Subset
<1>2. {} \in T
  <2>1. SumFunctionOnSet(f, {}) = 0 /\ SumFunctionOnSet(g, {}) = 0
    BY FS_EmptySet, SumRecursion
  <2> QED
    BY <2>1
<1>3. ASSUME NEW Z \in SUBSET S, Z # {}, \A x \in Z : Z \ {x} \in T PROVE Z \in T
  <2>1. /\ Pick(Z) \in Z
        /\ SumFunctionOnSet(f, Z) = f[Pick(Z)] + SumFunctionOnSet(f, Z \ {Pick(Z)})
        /\ SumFunctionOnSet(g, Z) = g[Pick(Z)] + SumFunctionOnSet(g, Z \ {Pick(Z)})
    BY <1>1, <1>3, SumRecursion
  <2> QED
    BY <1>3, <2>1
<1>4. \A Z \in SUBSET S : Z # {} /\ (\A x \in Z : Z \ {x} \in T) => Z \in T
  BY <1>3
<1> HIDE DEF T
<1>5. SUBSET S \subseteq T
  BY <1>2, <1>4, SubsetInduction
<1> QED
  BY <1>5 DEF T

LEMMA SumScaled ==
    ASSUME NEW f, NEW g, NEW k \in Nat, NEW S, IsFiniteSet(S),
           \A x \in S : f[x] \in Nat /\ g[x] = f[x] * k
    PROVE  SumFunctionOnSet(g, S) = SumFunctionOnSet(f, S) * k
<1> DEFINE T == {Z \in SUBSET S : SumFunctionOnSet(g, Z) = SumFunctionOnSet(f, Z) * k}
<1>1. \A Z \in SUBSET S : IsFiniteSet(Z)
  BY FS_Subset
<1>2. {} \in T
  <2>1. SumFunctionOnSet(f, {}) = 0 /\ SumFunctionOnSet(g, {}) = 0
    BY FS_EmptySet, SumRecursion
  <2> QED
    BY <2>1
<1>3. ASSUME NEW Z \in SUBSET S, Z # {}, \A x \in Z : Z \ {x} \in T PROVE Z \in T
  <2> DEFINE rest == SumFunctionOnSet(f, Z \ {Pick(Z)})
  <2>1. /\ Pick(Z) \in Z
        /\ SumFunctionOnSet(f, Z) = f[Pick(Z)] + rest
        /\ SumFunctionOnSet(g, Z) = g[Pick(Z)] + SumFunctionOnSet(g, Z \ {Pick(Z)})
    BY <1>1, <1>3, SumRecursion
  <2>2. SumFunctionOnSet(g, Z \ {Pick(Z)}) = rest * k
    BY <1>3, <2>1
  <2>3. rest \in Nat
    <3>1. IsFiniteSet(Z \ {Pick(Z)}) /\ \A x \in Z \ {Pick(Z)} : f[x] \in Nat
      BY <1>1
    <3> QED
      BY <3>1, SumType
  <2>4. f[Pick(Z)] \in Nat /\ g[Pick(Z)] = f[Pick(Z)] * k
    BY <2>1
  <2> HIDE DEF rest
  <2>5. f[Pick(Z)] * k + rest * k = (f[Pick(Z)] + rest) * k
    BY <2>3, <2>4
  <2> QED
    BY <2>1, <2>2, <2>4, <2>5
<1>4. \A Z \in SUBSET S : Z # {} /\ (\A x \in Z : Z \ {x} \in T) => Z \in T
  BY <1>3
<1> HIDE DEF T
<1>5. SUBSET S \subseteq T
  BY <1>2, <1>4, SubsetInduction
<1> QED
  BY <1>5 DEF T

\* The elements of S under other names.
LEMMA SumRenamed ==
    ASSUME NEW S, IsFiniteSet(S), NEW name, NEW f, NEW g,
           \A x, y \in S : name[x] = name[y] => x = y,
           \A x \in S : g[x] = f[name[x]] /\ g[x] \in Nat
    PROVE  SumFunctionOnSet(f, {name[x] : x \in S}) = SumFunctionOnSet(g, S)
<1> DEFINE Names(Z) == {name[x] : x \in Z}
           T == {Z \in SUBSET S : /\ IsFiniteSet(Names(Z))
                                  /\ SumFunctionOnSet(f, Names(Z)) = SumFunctionOnSet(g, Z)}
<1>1. \A Z \in SUBSET S : IsFiniteSet(Z)
  BY FS_Subset
<1>2. {} \in T
  <2>1. SumFunctionOnSet(f, {}) = 0 /\ SumFunctionOnSet(g, {}) = 0
    BY FS_EmptySet, SumRecursion
  <2>2. Names({}) = {}
    OBVIOUS
  <2> QED
    BY <2>1, <2>2, FS_EmptySet
<1>3. ASSUME NEW Z \in SUBSET S, Z # {}, \A x \in Z : Z \ {x} \in T PROVE Z \in T
  <2>1. PICK x : x \in Z
    BY <1>3
  <2> DEFINE W == Z \ {x}
  <2>2. /\ IsFiniteSet(Names(W))
        /\ SumFunctionOnSet(f, Names(W)) = SumFunctionOnSet(g, W)
    BY <1>3, <2>1
  <2>3. /\ Names(Z) = Names(W) \cup {name[x]} /\ name[x] \notin Names(W)
        /\ Names(Z) \ {name[x]} = Names(W)
    BY <2>1
  <2>4. IsFiniteSet(Names(Z))
    <3> HIDE DEF Names, W
    <3>1. IsFiniteSet(Names(W) \cup {name[x]})
      BY <2>2, FS_AddElement
    <3> QED
      BY <2>3, <3>1
  <2>5. \A y \in Names(Z) : f[y] \in Nat
    OBVIOUS
  <2>6. name[x] \in Names(Z)
    BY <2>1
  <2> HIDE DEF Names, W
  <2>7. SumFunctionOnSet(f, Names(Z)) = f[name[x]] + SumFunctionOnSet(f, Names(W))
    BY <2>3, <2>4, <2>5, <2>6, SumTakes
  <2>8. \A y \in Z : g[y] \in Nat
    OBVIOUS
  <2>9. SumFunctionOnSet(g, Z) = g[x] + SumFunctionOnSet(g, W)
    BY <1>1, <2>1, <2>8, SumTakes DEF W
  <2> QED
    BY <2>1, <2>2, <2>4, <2>7, <2>9
<1>4. \A Z \in SUBSET S : Z # {} /\ (\A x \in Z : Z \ {x} \in T) => Z \in T
  BY <1>3
<1> HIDE DEF T
<1>5. SUBSET S \subseteq T
  BY <1>2, <1>4, SubsetInduction
<1> QED
  BY <1>5 DEF T

=============================================================================
