CONSTANTS
  Tokens <- Vocabulary
  Requests <- Resending
  MaxSeq = 24
  Window = 2
  Slots = 8
  Chunk = 2
  Soft = 4
  MaxPrefill = 6
  Adapters = {TRUE}
  IsGemma4 = TRUE
  Sampled = {"w", "end"}
  MaxVisible = 2
  MaxThinking = 2
  Slack = 1
  MaxTurns = 3
SPECIFICATION MCSpec
INVARIANTS
  ResentPromptIsNotAppended
CHECK_DEADLOCK FALSE
