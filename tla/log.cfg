SPECIFICATION FairSetups
CONSTANT Use = {"patient", "handover", "faults"}
CONSTANTS
  Conns = {"c1", "c2"}
  Services = {"s1", "s2"}
  Requests = {}
  Environment = {}
  MaxHandle = 1
  MaxLoads = 2
  MaxPending = 3
  MaxOut = 7
  RbufSize = 3
  OutbufLimit = 2
  SizeMod = 16
INVARIANTS HandoverAtLineEnd
PROPERTIES ConsoleHandedOver
CONSTANTS
  SIZE = 4
  MaxMsg = 2
  MaxWaiters = 2
  Outcomes = {}
  QuickRelease = FALSE
  Withdraw = FALSE
