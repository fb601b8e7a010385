SPECIFICATION FairSpec
CONSTANTS
  s1 = s1
  s2 = s2
  Senders = {s1, s2}
  Background = {s1, s2}
  SendCap = 1
  MessageCap = 0
  ArbitrationCh = FALSE
  Window = 1
  MaxCalls = 3
  MaxRuns = 1
  MaxIn = 1
PROPERTIES
  StopEndsRun
  SenderServed
\* A finished stream with blocked or idle senders is a legitimate end.
CHECK_DEADLOCK FALSE
