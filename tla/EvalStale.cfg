SPECIFICATION Spec
CONSTANTS
    NData = 1
    N = 3
    K = 1
    Worlds = {1, 2}
    MaxRuns = 2
    None = None
INVARIANTS
    MetricsOfThisRun
