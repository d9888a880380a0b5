SPECIFICATION Spec
CONSTANTS
  Lang = {"hi-IN"}
  MaxLines = 2
  MaxText = 1
  QaThreshold = 0
  QaTries = 2
  MaxBuilds = 2
  MaxEdits = 1
  MaxFaults = 3
INVARIANTS UsableIsHeard CalmBuildRepairs SteadySetScoresAlike
CHECK_DEADLOCK FALSE
