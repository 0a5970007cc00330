SPECIFICATION EtcdFairSpec
CONSTANTS
    Nil = Nil
    Key = {a, b}
    Val = {x, y}
    MaxRev = 3
    MaxBreaks = 1
PROPERTY
    EventuallyConsistent
CHECK_DEADLOCK FALSE
