\* No deadlock check: a conversation that lost its server waits forever.
SPECIFICATION FairSpec
CHECK_DEADLOCK FALSE
CONSTANTS
    c1 = c1
    c2 = c2
    c3 = c3
    Conv = {c1, c2, c3}
    Batches = 2
    BatchOf <- TwoBatches
    Servers <- TwoServers
    MaxCache = 1
    MaxTurns = 5
    PromptLength = 1
    MaxTools = 2
    MaxMessages = 8
    None = None
INVARIANTS
    TypeOK
    LoadBalanced
    StickySession
    FollowUpIsCached
    AllToolsAnswered
PROPERTIES
    SettledWhenDone
    BatchesEnd
