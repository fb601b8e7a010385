SPECIFICATION Spec
CONSTANTS
  s1 = s1
  s2 = s2
  Senders = {s1, s2}
  Background = {s1}
  SendCap = 2
  MessageCap = 1
  ArbitrationCh = TRUE
  Window = 2
  MaxCalls = 4
  MaxRuns = 2
  MaxIn = 0
INVARIANTS
  OutboundOrder
  NoLossWhileUp
PROPERTIES
  ServiceSpec
\* A finished stream with blocked or idle senders is a legitimate end.
CHECK_DEADLOCK FALSE
