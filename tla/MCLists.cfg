SPECIFICATION ListsSpec
CONSTANTS
    v1 = v1
    v2 = v2
    s1 = s1
    s2 = s2
    s3 = s3
    None = None
    NoVideo = NoVideo
    Videos <- MCVideos
    Lists <- MCLists
    RadioLists <- MCRadioLists
    MaxRows = 4
    MaxUid = 5
INVARIANTS
    TypeOK
    CurrentIsTheSongPlaying
    UidsNameOneRow
    OrderKnowsTheQueue
PROPERTIES
    ShuffleOnlyRearranges
    PlanIsKept
    ImplementsPlayOrder
    ImportsKeepTheirRules
CHECK_DEADLOCK FALSE
