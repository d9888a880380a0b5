SPECIFICATION FairSpec
CONSTANTS
  RespondAttempts = 2
  SynthesizeAttempts = 1
  MaxText = 1
  MaxSentences = 2
  Hazards = {"llmFault", "bargeIn", "lossy", "endTimeout"}
INVARIANTS SpeaksWholeReply
PROPERTIES BargeInStopsSpeech HopsEndWithTheAudio
CHECK_DEADLOCK FALSE
