SPECIFICATION FairSpec
CONSTANT Use = {"chain", "start_pins", "pins", "dynamic", "wake", "soft", "milestone"}
CONSTANT Ordered = {}
INVARIANTS ActivationExact StartOrder StopOrder UpHoldsDeps NothingStuck
PROPERTIES PinnedStaysStopped ShutdownCompletes
