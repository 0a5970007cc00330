SPECIFICATION NodeSpec
CONSTANTS
    NodeParts = {"stream", "backlog", "buffer", "klog", "dhcp", "lease", "topo",
                 "static", "update", "efi", "bootparam", "gpt", "fat", "qcow", "crypt", "verity",
                 "kmod", "socks", "resolver", "balancer", "mesh", "hosts"}
    p1 = p1
    p2 = p2
    r1 = r1
    r2 = r2
    c1 = c1
    c2 = c2
    LogDN <- LogDNs
    Quota = 2
    MaxEntries = 4
    Publisher <- LogPublishers
    Reader <- LogReaders
    Options <- LogOptions
    Payloads = {"raw", "E"}
    ChanSize = 1
    Letter = {"a", "b"}
    MaxLineLength = 2
    RingSize = 2
    MaxChunk = 3
    MaxBytes = 6
    FirstYear = 2023
    LastYear = 2027
    ClockStart <- KlogStarts
    MaxElapsed = 60
    MaxKlogLines = 1
    Address = {"a", "b"}
    Terms <- LeaseTerms
    RequestLimit = 1
    MaxBackoff = 2
    MaxClock = 5
    MaxDhcpFaults = 1
    Leases <- DhcpLeases
    LoopbackIPs = {12, 13}
    MulticastIPs = {14, 15}
    MaxLeases = 2
    MaxLeaseFaults = 1
    NetConfigs <- StaticConfigs
    HostDevice = {"d1", "d2"}
    MaxStaticFaults = 2
    MaxStaticRuns = 3
    TopoNode = {1, 2, 3}
    MaxTopoEdges = 4
    Version = {"v0", "v1"}
    Installed = "v0"
    Broken = {"v1"}
    MaxLosses = 1
    MaxIndex = 2
    MaxOrder = 2
    MaxDescription = 3
    MaxEfiFaults = 1
    BootParams <- BootPairs
    BootRests <- BootRemains
    BlockCount = 18
    EntryBlocks = 1
    Align = 3
    MaxSlots = 3
    MaxGptOps = 3
    FileName <- FatNames
    FileSize = {0, 512, 1300}
    BlockCounts = {0, 66000, 66557, 66559}
    MaxInodes = 3
    EntriesL2 = 16
    ImageSizes = {0, 1, 100, 208, 209, 223, 224, 225, 240, 256, 600, 784, 800, 832, 848, 900, 910, 1008, 2000}
    DiskLayouts <- Layouts
    MaxCryptFaults = 2
    MaxCryptOps = 4
    VerityBlocks = {2, 3}
    VerityWrites = {1, 4, 7}
    MaxVerityData = 30
    KmodPatterns <- Alias
    KmodNeedles <- Needles
    KmodInfos <- Modules
    KmodTokens <- BuiltinTokens
    MaxKmodPatterns = 3
    MaxKmodFaults = 2
    SocksClient = {"c1"}
    CurNode = {"n1"}
    Client <- ResolverClients
    MaxAnswers = 2
    LbKeys = {1, 2}
    Targets = {"t1", "t2"}
    MaxConns = 2
    MaxSets = 3
    Peer = {"n1", "n2"}
    KubeNet = {"p1"}
    LocalAddr = {"l1", "l2"}
    MaxNetChanges = 3
    MaxNetFaults = 1
    Self = "self"
    OtherNode = {"n1"}
    HostAddr = {"a1", "a2"}
    MaxHostChanges = 3
    MaxCrashes = 1
INVARIANTS
    
    HostNetworkSound
    
    
    
    
CHECK_DEADLOCK FALSE
