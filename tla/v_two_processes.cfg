SPECIFICATION Spec
CONSTANT Use = {"stopped_pair"}
CONSTANT Ordered = {"stopped_pair"}
INVARIANTS OneProcess
