SPECIFICATION Spec
CONSTANTS
    DN <- PairDN
    Root = "root"
    Parent <- PairParent
    Path <- PairPath
    Groups <- PairGroups
    DoneDN = {"a"}
    MaxLives = 2
INVARIANT
    ProcessorSurvives
CHECK_DEADLOCK FALSE
