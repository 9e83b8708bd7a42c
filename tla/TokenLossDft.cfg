SPECIFICATION LossSpec
CONSTANTS
    r0 = r0
    r1 = r1
    Rank = {r0, r1}
    Layouts <- PairOnly
    Positions = {1, 2}
    One = 2
    LossTokens <- SomeTokens
    LossMethods <- ThreeMethods
INVARIANTS
    MethodIsApplied
