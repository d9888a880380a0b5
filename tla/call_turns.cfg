SPECIFICATION FairSpec
CONSTANTS
  MaxTurns = 2
  MaxChunks = 1
  SpeechFrames = 2
  HangoverFrames = 1
INVARIANTS CutOffTurnIsSilent OpenMicIsSpeaking
PROPERTIES WorkerFramesInOrder UtterancesAreHeardOut KeepsTheFloor EveryTurnReported BargeInSilences
CHECK_DEADLOCK FALSE
