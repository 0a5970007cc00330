SPECIFICATION FairSpec
CONSTANTS
    Curator = {n1, n2}
    Handler = {h1, h2}
    MaxWrites = 1
    MaxFaults = 1
INVARIANTS
    SoleLeadership
    NoLostUpdate
    CleanupStale
PROPERTIES
    AllAgree
CHECK_DEADLOCK FALSE
