SPECIFICATION NodeSpec
CONSTANTS
  Requests <- NodeRequests
  Payloads = {"data"}
  QueueSize = 1
  P2 = 1
  P2Star = 2
  SaMax = 1
  ClockMod = 1
  MaxSeeds = 1
  StallSids <- NoStall
  Codes <- TimeoutCode
  Groups <- Network
  GroupOf <- NetworkGroup
  Bits = {"confirmed"}
  MAX_DTCS = 1
  DTC_CAN_TIMEOUT = "0x030100"
  CAN_TIMEOUT = 2
  NmtCommands = {"0x02", "0x80", "0x81"}
  MaxDue = 1
  Framings <- BothFramings
PROPERTY
  TimeoutReported
