SPECIFICATION FairSpec
CONSTANTS
  Turn = {t1}
  MaxFrames = 3
  MaxLosses = 2
INVARIANTS HeardInOrder HeardWithoutHoles
PROPERTIES FlushedAfterAll PumpsEnd
CHECK_DEADLOCK FALSE
