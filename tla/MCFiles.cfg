SPECIFICATION FilesSpec
CONSTANTS
    s1 = s1 s2 = s2 s3 = s3 NoSong = NoSong
    Targets <- MCTargets Meddles = FALSE Cuts = TRUE
    a = a b = b f = f g = g NoFile = NoFile
    Ids <- MCIds Titled <- MCTitled Folders <- MCFolders Kinds <- MCKinds
    MaxConcurrent = 1 Surprises <- MCSurprises
SYMMETRY Symmetry
INVARIANTS FilesTypeOK RowsAreKept UpdateIsTrue
PROPERTIES LinksTakeTurns NothingIsThrownAway MovedIsKept UpdateNeverStrands
CHECK_DEADLOCK FALSE
