SPECIFICATION LibrariesSpec
CONSTANTS
    c1 = c1 c2 = c2
    Computers <- MCComputers MaxDone = 1 MaxPlays = 0 MaxVersion = 3 MaxFaults = 1
INVARIANTS LibrariesTypeOK MergesAgree  SavedIsTrue
PROPERTIES NothingIsUndone
SYMMETRY Symmetric
CHECK_DEADLOCK FALSE
