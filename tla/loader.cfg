SPECIFICATION Spec
CONSTANTS
  NoName = NoName
  NoFile = NoFile
  Use = {"graph", "order", "running", "consumer"}
INVARIANTS Acyclic GraphIsInstalled StartedDepsStarted ConsumersPaired
PROPERTIES FailureIsAtomic
