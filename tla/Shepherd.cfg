SPECIFICATION MCSpec
CONSTANTS
    m1 = m1
    init1 = init1
    init2 = init2
    rec1 = rec1
    s1 = s1
    s2 = s2
    s3 = s3
    s4 = s4
    k1 = k1
    k2 = k2
    k3 = k3
    k4 = k4
    None = None
    Machines <- MachineSet
    Workers <- WorkerSet
    Sessions <- SessionSet
    Keys <- KeySet
    Processes <- ProcessSet
    Process <- WorkerProcess
    Instance <- WorkerInstance
    Backoffs <- Descriptors
    MaxFaults = 2
    MaxMishaps = 2
    MaxGeneration = 1
INVARIANTS
    Exclusive
PROPERTIES
    BackoffGrows
    NoReinstall
    
CHECK_DEADLOCK FALSE
