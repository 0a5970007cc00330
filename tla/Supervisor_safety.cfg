SPECIFICATION Spec
CONSTANTS
    DN <- MCDN
    Root = "root"
    Parent <- MCParent
    Path <- MCPath
    Groups <- MCGroups
    DoneDN = {"aa"}
    MaxLives = 2
INVARIANTS
    CancelPropagates
    OneLife
    GCQuiescent
    NoneForgotten
PROPERTY
    RestartStopped
CHECK_DEADLOCK FALSE
