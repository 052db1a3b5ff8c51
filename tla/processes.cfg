SPECIFICATION Spec
CONSTANT Use = {"restart", "notify", "recovery", "process_pair", "vee", "console", "chaining"}
CONSTANT Ordered = {"restart", "recovery"}
INVARIANTS OneProcess StopIsBounded StoppedHasNoProcess ActiveCount
PROPERTIES NoStartAfterShutdown
