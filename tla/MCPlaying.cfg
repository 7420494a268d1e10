SPECIFICATION PlayingSpec
CONSTANTS
    v1 = v1 v2 = v2 NoVideo = NoVideo
    Videos <- MCVideos Lists <- MCLists RadioLists = {} LibraryList <- MCLibrary
    MaxRows = 3 MaxUid = 4 KeptRows = 2
    Songs <- MCSongs MaxLoads = 3 MaxSeeks = 1
INVARIANTS
    PlayingTypeOK NothingGoesRound MoveIsSound
PROPERTIES
    SessionIsKept KeepsPromise
CHECK_DEADLOCK FALSE
