CONSTANTS
  Scenarios <- Turning
  Requests <- Ids
  Clients <- MCClients
  Tipo <- MCTipo
  Sesion <- MCSesion
  Objetivo <- MCObjetivo
  Usa <- MCUsa
  Default = "0"
  MaxText = 1
  ClosesInput = FALSE
  OpenMayFail = FALSE
  SaveMayFail = TRUE
  Nothing = Nothing
SPECIFICATION Spec
INVARIANTS
  OnlyAskedTurnsAreCancelled
  CancelsFollowTheirTurn
  ConfirmationMatchesTerminal
  PausedIsSilent
  AttachmentsServeOnce
PROPERTIES
  ImplementsServer
