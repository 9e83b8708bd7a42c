SPECIFICATION Spec
CONSTANTS
    NRows = 3
    V = 3
    MaxE = 2
    Dists <- ThreeTokens
    RefChunks <- RefChunkSizes
    VocabChunks <- AnyChunk
    Threshold <- Half
    Methods <- BothMethods
INVARIANTS
    ChunksDoNotMatter
    MassIsMonotone
