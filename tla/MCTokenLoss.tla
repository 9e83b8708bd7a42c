---------------------------- MODULE MCTokenLoss -----------------------------
(* Instances of TokenLoss for TLC.                                          *)
EXTENDS TokenLoss

CONSTANTS r0, r1

\* Two data-parallel ranks, or one sequence-parallel group of two.
AnyLayout == {{{r0}, {r1}}, {{r0, r1}}}
PairOnly == {{{r0, r1}}}
ThreeMethods == {"dft", "prift_prob", "prift_mass"}

\* Where one model is sure of the target the other is not, so that their
\* weights are told apart; between the two both give one half.
Token(c, p, m) ==
    [ce |-> c, online |-> p, ref |-> One - p, high |-> p < One, mask |-> m]
SomeTokens == {Token(c, p, m) : c \in 0..1, p \in 0..One, m \in {0, 1}}
=============================================================================
