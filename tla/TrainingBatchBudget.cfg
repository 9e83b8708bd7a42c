SPECIFICATION Spec
CONSTANTS
    Setups <- OneSetup
    MaxTokenLen = 4
    None = None
INVARIANTS
    MicroBatchesFit
