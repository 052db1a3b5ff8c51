SPECIFICATION Spec
CONSTANTS
  Data = {"x", "y"}
  SIZE = 3
INVARIANTS SpanIsContents
PROPERTIES ImplementsFifo
