SPECIFICATION ClusterSpec
CONSTANTS
    n0 = n0
    n1 = n1
    n2 = n2
    n3 = n3
    k1 = k1
    k2 = k2
    l1 = l1
    m0 = m0
    m1 = m1
    m2 = m2
    Parts = {"calls", "networking", "register", "bootstrap", "pki", "k8spki", "policy",
             "ownership", "consensus", "roles", "reconciler", "objects", "volumes", "provisioner"}
    Boot = n0
    NoKey = NoKey
    Nobody = Nobody
    NoCuk = Nobody
    Node <- Nodes
    Cuk <- Nodes
    WgKey <- Keys
    Label <- Labels
    MaxLabels = 1
    RoleReq <- AllRequests
    CallOutcome <- AllOutcomes
    MaxFaults = 2
    Machine <- Machines
    Bootstrapper <- Bootstrappers
    Deletable <- DeletableNodes
    FaultSets <- AllFaults
    Proc = {"p1", "p2"}
    Subject = {"s1", "s2"}
    MaxSerial = 3
    MaxPkiFaults = 1
    KController = {"k1"}
    KWorker = {"w"}
    KStatic = {"apiserver"}
    MaxKpkiFaults = 1
    MaxPolFaults = 3
    Metroctl = {"p", "q"}
    OwnCluster = {"c1", "c2"}
    OwnerKey = {"k1", "k2"}
    OwnMethod <- Methods
    MaxOwnFaults = 1
    MaxCommands = 2
    MaxConFaults = 4
    Addresses = {"a1"}
    MaxChanges = 2
    MaxRoleFaults = 1
    KNode = {"k1", "k2"}
    Releases = {1, 2, 3}
    MinApiserver <- MinApiservers
    MinReconciler <- MinReconcilers
    PublishFirst = "yes"
    MaxReboots = 1
    MaxLeaseLosses = 1
    ObjName = {"x", "old"}
    Expected <- ExpectedObjects
    ObjData <- SomeData
    Reconciler = {"r1", "r2"}
    MaxObjEdits = 1
    MaxObjFaults = 1
    MaxPasses = 2
    Claim = {"c1", "c2"}
    VolumeModes <- Modes
    Transient = {"c1"}
    MaxMounts = 2
    MaxVolFaults = 1
    Reservation = {"r1", "r2", "r3"}
    Device = {1, 2, 3}
    MaxMachines = 2
    ChunkSize = 2
    MaxProvFaults = 1
INVARIANTS
    ControllersAreMembers
    
    EnrolmentSound
    CertificatesSound
    
    
    
    
    ProvisioningSound
PROPERTIES
    NodeProgress
    DataKept
CHECK_DEADLOCK FALSE
