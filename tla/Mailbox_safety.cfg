SPECIFICATION Spec
CONSTANTS
    Consumers = {c1, c2}
    Children = {w1, w2}
    Kinds = {"Menu", "Key"}
    Capacity = 2
    MaxEvents = 3
    Deadlines = {TRUE, FALSE}
INVARIANTS
    NothingLost
    NothingTwice
CHECK_DEADLOCK FALSE
SYMMETRY Symmetry
