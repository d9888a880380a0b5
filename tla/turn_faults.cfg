SPECIFICATION Spec
CONSTANTS
  RespondAttempts = 2
  SynthesizeAttempts = 2
  MaxText = 2
  MaxSentences = 1
  MinSentence = 2
  MaxClause = 3
  MaxChars = 5
  Hazards = {"sttFault", "llmFault", "ttsFault", "bargeIn", "lossy", "endTimeout"}
INVARIANTS OneReply SpokenOnce AnswersWhatWasSaid NothingIsUnspoken SameSentencesForAnyTokens
PROPERTIES LateHopsStaySilent
CHECK_DEADLOCK FALSE
