SPECIFICATION Spec
CONSTANTS
  MaxSessions = 2
  MaxEvals = 2
  Kinds = {"quick", "loop", "block", "nul"}
  Faults = {"break", "second", "spawn", "boot", "flush"}
INVARIANTS
  ReplyMeansEvaluated
  SingleVm
PROPERTIES
  CommandsReachOwnListener
  DeadTakesNoCommand
  ImplementsService
CHECK_DEADLOCK FALSE
