SPECIFICATION FairSpec
CONSTANTS
  MaxStarts = 3
  MaxSignals = 3
  NumGroups = 2
  MessageCap = 1
INVARIANTS
  PanicOnlyAfterCleanup
  LeavesOnlyReported
  WaiterIsHeard
  SecondSignalKept
PROPERTIES
  LeftoverIsForEver
  StatusTaken
  StopEndsReady
  SecondSignalEnds
\* No program need be started once more.
CHECK_DEADLOCK FALSE
