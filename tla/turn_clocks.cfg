SPECIFICATION FairSpec
CONSTANTS
  RespondAttempts = 1
  SynthesizeAttempts = 1
  MaxText = 0
  MaxSentences = 0
  Hazards = {"sttTimeout", "llmTimeout", "ttsTimeout", "endTimeout", "bargeIn", "crash"}
PROPERTIES TurnEnds
CHECK_DEADLOCK FALSE
