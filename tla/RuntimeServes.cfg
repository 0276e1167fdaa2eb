CONSTANTS
  Scenarios <- Serving
  Requests <- Ids
  Clients <- MCClients
  Tipo <- MCTipo
  Sesion <- MCSesion
  Objetivo <- MCObjetivo
  Usa <- MCUsa
  Default = "0"
  MaxText = 1
  ClosesInput = TRUE
  OpenMayFail = TRUE
  SaveMayFail = TRUE
  Nothing = Nothing
SPECIFICATION FairSpec
PROPERTIES
  ShutdownEnds
  EveryRequestAnswered
CHECK_DEADLOCK FALSE
