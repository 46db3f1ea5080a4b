SPECIFICATION Spec
CONSTANTS
  p1 = p1
  p2 = p2
  Payloads = {p1, p2}
  Requests <- ExitRequests
  QueueSize = 2
  P2 = 2
  P2Star = 4
  SaMax = 1
  ClockMod = 10
  MaxSeeds = 1
  StallSids <- SomeStall
PROPERTY
  TransferExitIsQueued
