SPECIFICATION Spec
CONSTANTS
    Curator = {n1, n2}
    Handler = {}
    MaxWrites = 0
    MaxFaults = 1
INVARIANT
    FollowerKnowsLeader
CHECK_DEADLOCK FALSE
