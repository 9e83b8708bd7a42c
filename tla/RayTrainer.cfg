SPECIFICATION FairSpec
CONSTANTS
    Worker = {w0, w1}
    NFiles = 1
    UseCritic = TRUE
    MaxKeep <- KeepTwo
    NoLimit = NoLimit
    BatchesPerEpoch = 2
    TotalEpochs = 2
    TotalSteps = 3
    SaveFreq = 2
    Esi = TRUE
    Modes <- AllModes
    MaxRuns = 3
    None = None
    Torn = Torn
INVARIANTS
    TrackerIsLoadable
    ResumedAsIfNeverDied
    KeptPerRun
PROPERTIES
    ImplementsRecoverableJob
    JobIsFinished
