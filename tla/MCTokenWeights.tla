--------------------------- MODULE MCTokenWeights ---------------------------
(* Instances of TokenWeights for TLC.                                       *)
EXTENDS TokenWeights

Half == <<1, 2>>            \* loss.mass_threshold of sft_trainer.yaml

\* Ties at the top, below it and everywhere, underflow, no tie.
ThreeTokens ==
    {[v \in 0..2 |-> t[v + 1]] :
        t \in {<<2, 0, 1>>, <<1, 2, 2>>, <<0, 0, 2>>, <<2, 2, 2>>, <<1, 2, 1>>}}

\* null, negative, one that does not divide, too large
AnyChunk == {-1, 0, 2, 5}
RefChunkSizes == {-1, 0, 2}
BothMethods == {"prift_prob", "prift_mass"}
=============================================================================
