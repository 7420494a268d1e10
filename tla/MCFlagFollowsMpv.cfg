CONSTANTS
    Kinds <- MCTwoKinds
    Lists <- MCShortLists
    MaxRows = 2
    RadioBatch = 1
    LowWater = 2
    MaxFailures = 2
SPECIFICATION Spec
INVARIANTS
    FlagFollowsMpv
