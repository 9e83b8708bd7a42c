SPECIFICATION FairSpec
CONSTANTS
    c1 = c1
    c2 = c2
    c3 = c3
    w1 = w1
    w2 = w2
    Conv = {c1, c2, c3}
    Worker = {w1, w2}
    WorkerOf <- Chunks
    AgentOf <- Agents
    PromptOf <- Prompts
    PromptLength = 2
    ResponseLength = 3
    MaxAssistantTurns = 0
    MaxUserTurns = 0
    MaxParallel = 2
    Servers <- TwoServers
    CacheSize = 2
    Tool <- BothTools
    Threads <- OneThreadEach
    RateLimit <- Limits
    MaxToolTokens = 2
    PadId = 7
    None = None
INVARIANTS
    TokensConserved
    OnlyGeneratedTokensTrain
    RequestsCanBeServed
    SessionsStayAndLevel
PROPERTIES
    BatchEnds
