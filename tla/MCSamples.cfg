SPECIFICATION Spec
CONSTANTS
    Functions <- MCFunctions
    Chains <- MCChains
    NameCells <- MCNameCells
    FileCells <- MCFileCells
    FrameHash <- MCFrameHash
    EdgeHash <- MCEdgeHash
    MaxFrames = 3
    MaxNodes = 5
    ArenaCells = 6
    FrameBuckets = 8
    NodeBuckets = 16
    MaxDepth = 2
    Weights = {1, 2}
    MaxSamples = 5
    TopMax = 2
INVARIANTS
    TypeOK
    EntriesAreUnique
    ProfileIsExact
    TruncationShows
    TopListAddsUp
