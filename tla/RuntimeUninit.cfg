CONSTANTS
  Scenarios <- Borrowing
  Requests <- Ids
  Clients <- MCClients
  Tipo <- MCTipo
  Sesion <- MCSesion
  Objetivo <- MCObjetivo
  Usa <- MCUsa
  Default = "0"
  MaxText = 1
  ClosesInput = FALSE
  OpenMayFail = FALSE
  SaveMayFail = TRUE
  Nothing = Nothing
SPECIFICATION Spec
PROPERTIES
  ConfirmedTurnsRan
