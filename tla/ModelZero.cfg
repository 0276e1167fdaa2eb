CONSTANTS
  NumLayers = 3
  LayerBytes = {1, 2}
  MaxFree = 7
  Models <- MCModels
  Sessions = {"0", "1", "2"}
  Default = "0"
  AllocMayFail = FALSE
  MaxAttached = 4
SPECIFICATION OpeningSpec
INVARIANTS
  PlannedModelServes
CHECK_DEADLOCK FALSE
