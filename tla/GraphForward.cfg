CONSTANTS
    Models <- ModelFiles
    Words = {"a"}
    Sampled = {"b"}
    MaxRows = 2
    SlidingWindow = 2
    MaxLen = 6
    Soft = 2
    Turns = 2
    DeviceNames <- MCDeviceNames
    Shapes <- MCShapes
    MaxProcesses = 3
    Superblock = 4
    Lane = 2
    InputChunk = 8
    Pair = 1
    Threshold = 3
    Requests <- MCProducts
    NumLayers = 2
    Window <- MCWindow
    MaxSeq = 6
    MaxPrefill = 2
    Chunk = 2
    Tokens = {a, b}
    NoToken = NoToken
    Shape <- MCShape
    Calls <- MCCalls
    MayFail = TRUE
    Vocab = 6
    DefaultK = 2
    MaxWarpK = 3
    PenaltyWindow = 2
    Threads = 4
    Warp = 2
    Warps = 2
    Draws = 5
    Fed = {0, 2, 9}
    MaxContext = 3
    Logits <- MCLogits
    Configs <- MCConfigs
SYMMETRY TokenSymmetry
SPECIFICATION MCSpec
INVARIANTS
    HiddenMatchesModel
    LogitsFollowLastToken
    KvHoldsHistory
    ComputesTheOperation
    ProductIsExact
    TuneDecisionsPersist
    RewindKeepsWindow
    CanAlwaysContinue
    KernelsComputeAttention
    SamplesWhatIsAsked
PROPERTIES
    AttentionReadsConversation
CHECK_DEADLOCK FALSE
