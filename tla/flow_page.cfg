SPECIFICATION Spec
CONSTANTS
  shubh = shubh
  ritu = ritu
  Choice = {"speaker"}
  Number = {"pace"}
  Option = {shubh, ritu}
  Low = 1
  High = 2
  Unhashed = {"pace"}
  DefaultOption = shubh
  DefaultNumber = 1
  EnvKnob = {"speaker"}
  EnvSetting = ritu
  MaxCalls = 2
  MaxMoves = 2
  MaxTurns = 2
  MaxTries = 2
INVARIANTS HashFollowsTheFlow ShownFlowRuns CallHasItsButton PollAnswersThePage
CHECK_DEADLOCK FALSE
