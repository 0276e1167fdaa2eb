CONSTANTS
  NumLayers = 2
  Window <- MCWindow
  MaxSeq = 6
  MaxPrefill = 2
  Chunk = 2
  Tokens = {a, b}
  NoToken = NoToken
  Shape <- MCShape
  Calls <- MCCalls
  MayFail = TRUE
  Vocab = 6
  DefaultK = 2
  MaxWarpK = 3
  PenaltyWindow = 2
  Threads = 4
  Warp = 2
  Warps = 2
  Draws = 5
  Fed = {0, 2, 9}
  MaxContext = 3
  Logits <- MCLogits
  Configs <- MCConfigs
SPECIFICATION PartsSpec
INVARIANT GemmHasWorkspace
