SPECIFICATION FairSpec
CONSTANT Use = {"connection", "halves", "service", "logfile", "lambdas", "timers", "periodic"}
INVARIANTS RemovedIsForgotten QueuedOnce SlotsExact TimersOnTime
PROPERTIES EventsDelivered
CHECK_DEADLOCK FALSE
