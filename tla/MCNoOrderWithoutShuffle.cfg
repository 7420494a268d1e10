SPECIFICATION SessionSpec
CONSTANTS
    v1 = v1
    v2 = v2
    NoVideo = NoVideo
    Videos <- MCVideos
    Lists <- MCLists
    RadioLists = {}
    LibraryList <- MCLibrary
    MaxRows = 3
    MaxUid = 4
    KeptRows = 3
INVARIANTS
    NoOrderWithoutShuffle
CHECK_DEADLOCK FALSE
