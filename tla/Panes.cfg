CONSTANTS
    Threads = {t1, t2}
    MaxPanes = 1
    MaxBatches = 2
    MaxCalls = 2
    MaxFails = 1
    Programs <- MCPrograms
SPECIFICATION Spec
INVARIANTS AnswersAreOwn SendNeverBlocks LatestIsFramed FramesStartUntransformed
PROPERTY QueryIsServed
\* The user may close every pane.
CHECK_DEADLOCK FALSE
