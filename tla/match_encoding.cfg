SPECIFICATION Spec
CONSTANTS
  W = 2
  L = 2
  MaxMask = 3
  MaxEntries = 2
INVARIANTS
  DontCareBitsZero
  SharingOnlyNarrows
  WidthAsAsked
\* The bound on the entries is the end of a run.
CHECK_DEADLOCK FALSE
