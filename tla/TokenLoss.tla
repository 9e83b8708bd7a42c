------------------------------ MODULE TokenLoss -----------------------------
(***************************************************************************)
(* _compute_loss_and_backward of fsdp_dft_trainer.py on all ranks: the     *)
(* masked, token-weighted cross entropy of a micro batch, divided by the   *)
(* number of tokens of the rank or, with data.balance_dp_token, of all     *)
(* ranks.  With sequence parallelism a group of ranks works on one batch.  *)
(* Losses are fractions <<n, d>>; a weight of One stands for 1.  Names do  *)
(* not clash with those of TokenWeights: TokenProofs is about both.        *)
(***************************************************************************)
EXTENDS Integers, FiniteSetsExt, Functions

CONSTANTS
    Rank,         \* all ranks
    Layouts,      \* partitions of Rank into sequence-parallel groups
    Positions,    \* shifted positions of a micro batch
    One,          \* probabilities and weights are in units of 1/One
    LossTokens,   \* what there may be at a position, see JobAssumption
    LossMethods

ASSUME JobAssumption ==
    /\ Rank # {} /\ IsFiniteSet(Rank) /\ IsFiniteSet(Positions)
    /\ One \in Nat \ {0}
    /\ LossTokens \subseteq
          [ce : Nat,          \* cross entropy, in any unit
           online : 0..One,   \* probability of the target, online model
           ref : 0..One,      \* the same, frozen reference
           high : BOOLEAN,    \* its mass of prift_mass reaches the threshold
           mask : {0, 1}]
    /\ \A layout \in Layouts :
          /\ UNION layout = Rank /\ {} \notin layout
          /\ \A g, h \in layout : g = h \/ g \cap h = {}

VARIABLES
    groups,       \* the layout of this job
    batch,        \* batch[g]: the micro batch every rank of the group gets
    lossMethod, usesp, balance,
    stage,        \* "forward", "reduce", "scale", "done", "NotImplementedError"
    lossSum, original, tokens, loss

lossVars == <<groups, batch, lossMethod, usesp, balance, stage, lossSum, original, tokens, loss>>
job == <<groups, batch, lossMethod, usesp, balance>>

Group(r) == CHOOSE g \in groups : r \in g

LossInit ==
    /\ groups \in Layouts
    /\ batch \in [groups -> [Positions -> LossTokens]]
    /\ lossMethod \in LossMethods
    /\ usesp = (\E g \in groups : Cardinality(g) > 1)
    /\ balance \in BOOLEAN
    /\ stage = [r \in Rank |-> "forward"]
    /\ lossSum = [r \in Rank |-> 0]
    /\ original = [r \in Rank |-> 0]
    /\ tokens = [r \in Rank |-> 0]
    /\ loss = [r \in Rank |-> <<0, 1>>]

\* _token_weights and _reference_weights.
WeightOf(t) == CASE lossMethod = "sft" -> One
                 [] lossMethod = "dft" -> t.online
                 [] lossMethod = "prift_prob" -> t.ref
                 [] OTHER -> IF t.high THEN One ELSE 0

Weighted(b) == SumFunction([i \in Positions |-> b[i].ce * WeightOf(b[i]) * b[i].mask])
Plain(b) == SumFunction([i \in Positions |-> b[i].ce * One * b[i].mask])
Valid(b) == SumFunction([i \in Positions |-> b[i].mask])

\* With sequence parallelism the gathered cross entropy is masked as it is:
\* the weights of the method have no part in it.
Forward(r) ==
    /\ stage[r] = "forward"
    /\ LET b == batch[Group(r)] IN
       \/ /\ usesp /\ lossMethod \notin {"sft", "dft"}
          /\ stage' = [stage EXCEPT ![r] = "NotImplementedError"]
          /\ UNCHANGED <<lossSum, original, tokens>>
       \/ /\ usesp /\ lossMethod \in {"sft", "dft"}
          /\ stage' = [stage EXCEPT ![r] = "reduce"]
          /\ lossSum' = [lossSum EXCEPT ![r] = Plain(b)]
          /\ original' = [original EXCEPT ![r] = Plain(b)]
          /\ tokens' = [tokens EXCEPT ![r] = Valid(b)]
       \/ /\ ~usesp
          /\ stage' = [stage EXCEPT ![r] = "reduce"]
          /\ lossSum' = [lossSum EXCEPT ![r] = Weighted(b)]
          /\ original' = [original EXCEPT ![r] = Plain(b)]
          /\ tokens' = [tokens EXCEPT ![r] = Valid(b)]
    /\ UNCHANGED <<job, loss>>

\* all_reduce of the token counts, by all ranks together, or nothing.
Reduce ==
    /\ \A r \in Rank : stage[r] = "reduce"
    /\ tokens' = IF balance THEN [r \in Rank |-> SumFunction(tokens)] ELSE tokens
    /\ stage' = [r \in Rank |-> "scale"]
    /\ UNCHANGED <<job, lossSum, original, loss>>

\* Mutant: the sum is not multiplied back.
NoDpSize == 1
DpSize == IF ~balance THEN 1
          ELSE IF usesp THEN Cardinality(groups) ELSE Cardinality(Rank)
\* sum / (tokens + 1e-8) * dp_size: 0 when there is no token.
Scale(r) ==
    /\ stage[r] = "scale"
    /\ loss' = [loss EXCEPT ![r] = IF tokens[r] = 0 THEN <<0, 1>>
                                   ELSE <<lossSum[r] * DpSize, tokens[r]>>]
    /\ stage' = [stage EXCEPT ![r] = "done"]
    /\ UNCHANGED <<job, lossSum, original, tokens>>

Over ==
    /\ \A r \in Rank : stage[r] \in {"done", "NotImplementedError"}
    /\ UNCHANGED lossVars

LossNext == (\E r \in Rank : Forward(r) \/ Scale(r)) \/ Reduce \/ Over

LossSpec == LossInit /\ [][LossNext]_lossVars

-----------------------------------------------------------------------------
Equal(x, y) == x[1] * y[2] = y[1] * x[2]
AllDone == \A r \in Rank : stage[r] = "done"

\* The weighted loss over all groups as one batch would have it.
GlobalSum == SumFunction([g \in groups |-> Weighted(batch[g])])
GlobalTokens == SumFunction([g \in groups |-> Valid(batch[g])])

\* FSDP averages gradients over the ranks.  With balance_dp_token that
\* average is the mean over all tokens of all ranks, however unevenly the
\* tokens are spread, also when a rank has none.
BalancedIsGlobalMean ==
    AllDone /\ balance /\ ~usesp /\ GlobalTokens > 0 =>
        Equal(<<SumFunction([r \in Rank |-> loss[r][1]]),
                loss[CHOOSE r \in Rank : TRUE][2] * Cardinality(Rank)>>,
              <<GlobalSum, GlobalTokens>>)

\* sft_trainer.yaml:53: "dft: CE weighted by detached online target prob": a
\* loss that is computed at all is weighted as loss.method says.
MethodIsApplied ==
    \A r \in Rank : stage[r] = "done" => lossSum[r] = Weighted(batch[Group(r)])
=============================================================================
