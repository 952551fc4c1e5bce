SPECIFICATION Spec
CONSTANTS
    Feeders = {f1, f2}
    Bytes = {a}
    MaxFed = 4
    MaxChunk = 2
    MaxLine = 2
    MaxCalls = 3
    Closes = {TRUE}
INVARIANTS
    BytesInOrder
    NoLostFeed
PROPERTIES
    EofMeansDrained
    ReadsSeeClose
CHECK_DEADLOCK FALSE
