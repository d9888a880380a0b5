SPECIFICATION FairSpec
CONSTANTS
  Key = {k1, k2}
  MaxEvents = 2
  MaxFaults = 3
INVARIANTS ExactlyOnceInCalm NothingSkipped BackfillRepairs
PROPERTIES EveryEventIsRead
CHECK_DEADLOCK FALSE
