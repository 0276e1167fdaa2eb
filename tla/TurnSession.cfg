CONSTANTS
  Tokens <- Vocabulary
  Requests <- AllTurns
  MaxSeq = 14
  Window = 2
  Slots = 4
  Chunk = 2
  Soft = 8
  MaxPrefill = 10
  Adapters = {TRUE, FALSE}
  IsGemma4 = TRUE
  Sampled = {"w", "open", "close", "end", "stop"}
  MaxVisible = 2
  MaxThinking = 1
  Slack = 1
  MaxTurns = 3
SPECIFICATION MCSpec
INVARIANTS
  PrefillCompletesPrompt
  EmittedIsRemembered
  TurnsEndAtBoundary
  TrackedListIsTheKv
  NeverPastCapacity
  ReportsItsPosition
  InterruptedTurnLeavesNoTrace
  EncodesAsTrained
  
  IncrementalIsWhole
CHECK_DEADLOCK FALSE
