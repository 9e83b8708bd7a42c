-------------------------- MODULE MCTrainingBatch ---------------------------
(* Configurations of TrainingBatch for TLC.                                 *)
EXTENDS TrainingBatch

Even(sp, csp) == [m \in Model |-> IF m = "actor" THEN sp ELSE csp]

\* Two ranks with three rows each, dynamic micro batches, validation of three.
TwoRanks ==
    [world |-> 2, tp |-> 1, sp |-> Even(1, 1), prompts |-> 2, n |-> 3, mini |-> 2,
     micro |-> 1, infer |-> 1, epochs |-> 2, tests |-> 3, dynamic |-> TRUE, balance |-> TRUE,
     padding |-> FALSE, offload |-> TRUE, iterations |-> 1, lengths |-> {2, 3}]

\* Four ranks in groups of two; micro batches of a fixed size, or dynamic.
FourRanks ==
    [TwoRanks EXCEPT !.world = 4, !.tp = 2, !.sp = Even(2, 1), !.prompts = 4, !.n = 2,
                     !.mini = 3, !.infer = 3, !.epochs = 1, !.tests = 1,
                     !.dynamic = FALSE, !.lengths = {2}]

\* A second batch with the updated model.
TwoBatches == [TwoRanks EXCEPT !.n = 2, !.mini = 1, !.epochs = 1, !.sp = Even(2, 1),
                               !.tests = 0, !.iterations = 2, !.lengths = {1, 3}]

\* One prompt for two ranks, with and without automatic padding.
Uneven == {[TwoRanks EXCEPT !.prompts = 1, !.n = 2, !.padding = p, !.tests = 0] : p \in BOOLEAN}

AllSetups == {TwoRanks, FourRanks, [FourRanks EXCEPT !.dynamic = TRUE, !.lengths = {1, 3}],
              TwoBatches} \cup Uneven
OneSetup == {TwoRanks}
=============================================================================
