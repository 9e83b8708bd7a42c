SPECIFICATION FairSpec
CONSTANTS
    NData = 2
    N = 3
    K = 2
    Worlds = {2, 4}
    MaxRuns = 2
    None = None
INVARIANTS
    EveryExampleOnce
    ScoresBelongToSamples
    NothingLeftBehind
PROPERTIES
    EvaluationEnds
