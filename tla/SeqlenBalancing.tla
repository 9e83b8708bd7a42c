-------------------------- MODULE SeqlenBalancing ---------------------------
(***************************************************************************)
(* verl/utils/seqlen_balancing.py: sequences are dealt out to k partitions *)
(* of about the same number of tokens by the largest differencing method   *)
(* (Karmarkar and Karp).  A state is k sets of sequences, the largest      *)
(* first; the two states with the largest spread are merged, largest set   *)
(* with smallest, until one state is left.  len[i] is the length of        *)
(* sequence i.  A set has the indices of its sequences, the first one that *)
(* was added to it, and the sum of their lengths.                          *)
(***************************************************************************)
EXTENDS Integers, Sequences, FiniteSets, FiniteSetsExt, Functions

\* s itself.  TLC evaluates its elements once, as it does arguments of functions.
Eager(s) == <<>> \o s

\* sorted: S as a sequence, with x before y when <<x, y>> is in R.
InOrder(S, R) == Eager(
    [i \in 1..Cardinality(S) |->
        CHOOSE x \in S : Cardinality({y \in S : <<y, x>> \in R}) = i - 1])

State == Seq([sum : Nat, items : SUBSET Nat, first : Nat])

\* Set.__lt__; sets of one state never share an index.
SetLess(a, b) ==
    \/ a.sum < b.sum
    \/ /\ a.sum = b.sum
       /\ \/ Cardinality(a.items) < Cardinality(b.items)
          \/ Cardinality(a.items) = Cardinality(b.items) /\ a.first < b.first

\* The sets of a state "should always be decreasing order".
LargerFirst(sets) ==
    {p \in (DOMAIN sets) \X (DOMAIN sets) :
        \/ SetLess(sets[p[2]], sets[p[1]])
        \/ ~SetLess(sets[p[1]], sets[p[2]]) /\ p[1] < p[2]}
Decreasing[sets \in State] ==
    LET order == InOrder(DOMAIN sets, LargerFirst(sets))
    IN  Eager([i \in DOMAIN sets |-> sets[order[i]]])

Spread(state) == state[1].sum - state[Len(state)].sum

\* State.__lt__: what the heap gives out first.
StateLess(a, b) ==
    \/ Spread(a) > Spread(b)
    \/ Spread(a) = Spread(b) /\ SetLess(b[1], a[1])

First(states) == CHOOSE a \in states : \A b \in states \ {a} : StateLess(a, b)

Union(a, b) == [sum |-> a.sum + b.sum, items |-> a.items \cup b.items,
                first |-> IF a.items = {} THEN b.first ELSE a.first]

\* Mutant: largest set with largest.
MergedSame(a, b) == Eager([i \in DOMAIN a |-> Union(a[i], b[i])])

\* The sets of two states in one, before they are sorted again.
Merged(a, b) == Eager([i \in DOMAIN a |-> Union(a[i], b[Len(a) + 1 - i])])

\* Of two states comes one.
Worked[states \in SUBSET State] ==
    LET a == First(states)
        b == First(states \ {a})
    IN  (states \ {a, b}) \cup {Decreasing[Merged(a, b)]}

\* The heap is worked off until there is one state.
WorkedOff(states) ==
    LET heap[n \in 0..Cardinality(states)] ==
            IF n = 0 THEN states ELSE Worked[heap[n - 1]]
    IN  CHOOSE a \in heap[Cardinality(states) - 1] : TRUE

\* All indices by length, and by index where the lengths agree.
ShorterFirst(len) ==
    {p \in (DOMAIN len) \X (DOMAIN len) :
        len[p[1]] < len[p[2]] \/ (len[p[1]] = len[p[2]] /\ p[1] < p[2])}
Sorted[len \in Seq(Nat)] == InOrder(DOMAIN len, ShorterFirst(len))

One(len, i) == [sum |-> len[i], items |-> {i}, first |-> i]
Empty == [sum |-> 0, items |-> {}, first |-> 0]

\* With equal_size a state begins with k sequences of neighbouring lengths,
\* otherwise with one, next to k - 1 empty sets.
StartStates(len, k, equal) ==
    IF equal
    THEN {Decreasing[Eager([i \in 1..k |-> One(len, sorted[(s * k) + i])])] :
              s \in 0..((Len(len) \div k) - 1), sorted \in {Sorted[len]}}
    ELSE {Eager([i \in 1..k |-> IF i = 1 THEN One(len, j) ELSE Empty]) : j \in DOMAIN len}

KarmarkarKarp(len, k, equal) == WorkedOff(StartStates(len, k, equal))

\* get_seqlen_balanced_partitions: the indices of a partition in their order.
Ascending[S \in SUBSET Nat] == InOrder(S, {p \in S \X S : p[1] < p[2]})
Partitions(len, k, equal) ==
    LET state == KarmarkarKarp(len, k, equal)
    IN  [i \in 1..k |-> Ascending[state[i].items]]

\* The tokens of the sequences with the indices in part.
Total(len, part) == SumFunction([i \in DOMAIN part |-> len[part[i]]])

CeilDiv(a, b) == -((-a) \div b)

\* The micro batches a rank needs for its own sequences.
NumMicroBatches(len, max) ==
    Min({Len(len), CeilDiv(Total(len, [i \in DOMAIN len |-> i]), max)})

\* Mutant: the map itself.
SameIdx(map) == map

\* get_reverse_idx
ReverseIdx(map) == [j \in DOMAIN map |-> CHOOSE i \in DOMAIN map : map[i] = j]
=============================================================================
