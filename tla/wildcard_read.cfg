SPECIFICATION FairSpec
CONSTANTS
  ChSize = 2
  MaxBatch = 3
  MaxEntities = 8
INVARIANTS
  NoMutualWait
PROPERTIES
  AtomicSpec
  NobodyWaitsForEver
\* A read is over when the caller has returned and the consumer has ended.
CHECK_DEADLOCK FALSE
