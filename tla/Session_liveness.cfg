SPECIFICATION FairSpec
CONSTANTS
  MaxSessions = 2
  MaxEvals = 2
  Kinds = {"quick", "loop", "block", "nul"}
  Faults = {"break", "second", "spawn", "boot"}
PROPERTIES
  EvalReturns
  DropReturns
  CurrentComesFree
CHECK_DEADLOCK FALSE
