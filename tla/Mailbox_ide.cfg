SPECIFICATION IdeSpec
CONSTANTS
    Consumers = {c1}
    Children = {w1, w2}
    Kinds = {"Menu", "Key", "DpiChange"}
    Capacity = 2
    MaxEvents = 3
    Deadlines = {TRUE}
PROPERTIES
    OldestFirst
    RequestsReachDrain
    GpaneReturns
