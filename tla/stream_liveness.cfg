SPECIFICATION FairSpec
CONSTANTS
  s1 = s1
  s2 = s2
  Senders = {s1, s2}
  Background = {s1, s2}
  SendCap = 1
  MessageCap = 1
  ArbitrationCh = TRUE
  Window = 1
  MaxCalls = 2
  MaxRuns = 1
  MaxIn = 2
PROPERTIES
  RunEnds
  InboundDelivered
\* A finished stream with blocked or idle senders is a legitimate end.
CHECK_DEADLOCK FALSE
