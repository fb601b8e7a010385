SPECIFICATION FairSpec
CONSTANTS
  m1 = m1
  m2 = m2
  m3 = m3
  p1 = p1
  p2 = p2
  h1 = h1
  h2 = h2
  Macs = {m1, m2, m3}
  Ports = {p1, p2}
  Handlers = {h1}
  TableSize = 2
  WritesFail = FALSE
  MaxInbox = 2
  MaxIdle = 2
INVARIANTS
  ForwardOnlyLearnt
  TablesAgreeAtRest
PROPERTIES
  ReportedIsLearnt
  IdleIsForgotten
  TableSpec
