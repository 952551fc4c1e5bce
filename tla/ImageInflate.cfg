CONSTANTS
    Procs = {p1}
    Blocks = 3
    MaxStarts = 4
    MaxErrors = 2
    Layouts <- MCLayouts
SPECIFICATION Spec
INVARIANTS NoHalfImage
PROPERTY RetryComesUp
\* A process is started a bounded number of times.
CHECK_DEADLOCK FALSE
