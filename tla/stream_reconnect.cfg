SPECIFICATION Spec
CONSTANTS
  s1 = s1
  s2 = s2
  Senders = {s1}
  Background = {s1}
  SendCap = 1
  MessageCap = 1
  ArbitrationCh = TRUE
  Window = 1
  MaxCalls = 0
  MaxRuns = 2
  MaxIn = 2
INVARIANTS
  TypeOK
  DeafOnlyAfterEOF
  LeftBehindOnlyByStop
  NoStaleArbitration
PROPERTIES
  ServiceSpec
  RunAsSeen
\* A finished stream with blocked or idle senders is a legitimate end.
CHECK_DEADLOCK FALSE
