SPECIFICATION RSpec
CONSTANTS
    DN <- MCDN
    Root = "root"
    Parent <- MCParent
    Path <- MCPath
    Groups <- MCGroups
    DoneDN = {"aa"}
    MaxLives = 2
    MaxFailures = 2
PROPERTIES
    Recovers
CHECK_DEADLOCK FALSE
