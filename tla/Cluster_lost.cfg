SPECIFICATION MCFairSpec
CONSTANTS
    n0 = n0
    n1 = n1
    n2 = n2
    n3 = n3
    k1 = k1
    k2 = k2
    l1 = l1
    m0 = m0
    m1 = m1
    m2 = m2
    Parts = {"register"}
    Boot = n0
    NoKey = NoKey
    Nobody = Nobody
    NoCuk = Nobody
    Node <- Nodes
    Cuk <- Nodes
    WgKey <- Keys
    Label <- Labels
    MaxLabels = 1
    RoleReq <- AllRequests
    CallOutcome <- AllOutcomes
    MaxFaults = 2
    Machine <- Machines
    Bootstrapper <- Bootstrappers
    Deletable = {}
    FaultSets <- CrashesOnly
PROPERTY
    CommitEnds
CHECK_DEADLOCK FALSE
