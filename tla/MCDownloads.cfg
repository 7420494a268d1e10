SPECIFICATION DownloadsSpec
CONSTANTS
    a = a f = f NoFile = NoFile
    Ids <- MCIds Titled = {} Folders <- MCFolders Kinds <- MCKinds
    MaxConcurrent = 1 Surprises = {}
INVARIANT CancelIsOver
CHECK_DEADLOCK FALSE
