SPECIFICATION EventsSpec
CONSTANTS
    w1 = w1
    w2 = w2
    Watcher <- Watchers
    MaxSets = 3
    a = a
    b = b
    x = x
    y = y
    Nil = Nil
    Key <- Keys
    Val <- Vals
    MaxRev = 3
    MaxBreaks = 1
INVARIANTS
    SendNeverBlocks
    Mirror
    NothingOmitted
PROPERTIES
    Implements
    Delivered
    SetReturns
    
CHECK_DEADLOCK FALSE
