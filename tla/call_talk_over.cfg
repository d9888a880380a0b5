SPECIFICATION Spec
CONSTANTS
  MaxTurns = 2
  MaxChunks = 1
  SpeechFrames = 2
  HangoverFrames = 2
INVARIANTS TalkingOverStopsTheReply
CHECK_DEADLOCK FALSE
