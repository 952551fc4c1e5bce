SPECIFICATION FairSpec
CONSTANTS
    Words <- MCWords
    FileWords <- MCFileWords
    Missing = {"gone.f"}
    Sources <- MCSources
    Panes = {r1}
    Capacity = 2
    MaxEvents = 3
    Faults = {"death", "reject", "panic", "seh", "boot"}
INVARIANTS
    ContextInLockstep
    SnapshotIsCurrent
    OutputToItsPane
    SubmitsMatchInputs
PROPERTIES
    RestartServed
CHECK_DEADLOCK FALSE
