SPECIFICATION FairSpec
CONSTANTS
    Setups <- AllSetups
    MaxTokenLen = 4
    None = None
INVARIANTS
    ResultsBelongToRows
    TrainedOncePerEpoch
    OneModelOnDevice
    LevelWork
PROPERTIES
    IterationEnds
