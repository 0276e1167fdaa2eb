CONSTANTS
  Sessions = {"0", "1", "2"}
  Default = "0"
  Borrowers = {"1"}
  Engines = {"primary", "secondary"}
  Order <- SecondaryFirst
  GraphSlots = {"rest", "head"}
  UseGraphs = TRUE
  MaxForwards = 2
  Nobody = Nobody
  File = File
  Last = 5
  Mapped <- TowerMapped
  Bytes <- TowerBytes
  Kernels = 2
  Images = 3
  NumLayers = 3
  LayerBytes = {1, 2}
  MaxFree = 7
  Models <- MCModels
  AllocMayFail = TRUE
  MaxAttached = 3
  Files <- MCFiles
  Settings <- MCSettings
  Buffers <- MCBuffers
SPECIFICATION MCSpec
INVARIANTS
  KernelsReadTheirWeights
  RegistryRestored
  TensorsHoldTheirData
  BlocksOwnTheirMemory
  PlacementIsBest
  LoadedWhereItFits
  ViewsPointToLiveKv
  BorrowersAreSeen
  DecodesWithItsOwn
  ContinuesItsOwnRows
PROPERTIES
  SlotsFreedWhenIdle
CHECK_DEADLOCK FALSE
