SPECIFICATION FairSetups
CONSTANT Use = {"requests", "dropped", "running", "dying", "depended", "prompt", "enabling", "watching", "cut_record"}
CONSTANTS
  Commands = {}
  Sync = FALSE
  CanFail = FALSE
  Depended = FALSE
  Others = {}
  MaxMoves = 0
  ShortRecords = FALSE
INVARIANTS InStep SuccessIsTrue ReportIsCurrent
PROPERTIES Returns
CHECK_DEADLOCK FALSE
