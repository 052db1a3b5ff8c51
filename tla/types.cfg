SPECIFICATION SetupSpec
CONSTANT Use = {"chain", "dynamic", "wake", "milestone", "stop_command", "consoles"}
CONSTANT Ordered = {}
CONSTANTS
  None = "none"
  Services <- MCServices
  Records <- MCRecords
  Links <- MCLinks
  Graph <- MCGraph
  ServiceType <- MCTypes
  Options <- MCOptions
  ChainTo <- MCChain
  Commands = {"start"}
  StatusRace = TRUE
INVARIANTS TypeOK ActivationCounted ConsoleOwned
