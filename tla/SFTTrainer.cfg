SPECIFICATION FairSpec
CONSTANTS
    Rank = {r0, r1}
    Rank0 = r0
    NoLimit = NoLimit
    StepsPerEpoch = 2
    TotalEpochs = 2
    TotalTrainingSteps = 3
    TestFreq = 2
    SaveFreq = 2
    MicroBatches = 2
    ValBatches = 1
    NParts = 2
    Hdfs = TRUE
    MaxRuns = 2
INVARIANTS
    TypeOK
    CollectivesMatch
    ShardsAgree
    GradientsOfThisStep
    CheckpointIsOneModel
    NobodyPassesAnUnsavedStep
    RemoteFollowsLocal
    FinishedJobIsEvaluated
PROPERTIES
    WrittenOnce
    ImplementsSequential
    FitReturns
