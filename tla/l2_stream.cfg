SPECIFICATION StreamFairSpec
CONSTANTS
  m1 = m1
  m2 = m2
  m3 = m3
  p1 = p1
  h1 = h1
  Macs = {m1, m2}
  Ports = {p1}
  Handlers = {h1}
  TableSize = 1
  WritesFail = FALSE
  MaxInbox = 2
  MaxIdle = 1
  SendCap = 1
  Window = 1
  MaxChanges = 2
INVARIANTS
  StreamTypeOK
  WithheldOnlyOnItsWay
  ChangesSpoilFew
PROPERTIES
  RoundGoesOn
\* Once the stream is over nothing has to happen any more.
CHECK_DEADLOCK FALSE
