SPECIFICATION FairSetups
CONSTANT Use = {"short", "refusals", "handles", "unload", "other", "invalid"}
CONSTANTS
  Conns = {"c1", "c2"}
  Services = {"s1", "s2"}
  Requests = {}
  Environment = {}
  MaxHandle = 1
  MaxLoads = 2
  MaxPending = 3
  MaxOut = 7
  RbufSize = 3
  OutbufLimit = 2
  SizeMod = 16
INVARIANTS AcceptsCommands NoDanglingHandle
PROPERTIES RequestsServed
CHECK_DEADLOCK FALSE
