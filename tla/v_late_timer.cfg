SPECIFICATION Spec
CONSTANT Use = {"three_timers"}
INVARIANTS TimersOnTime
CHECK_DEADLOCK FALSE
