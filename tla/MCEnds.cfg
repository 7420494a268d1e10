SPECIFICATION EndsSpec
CONSTANTS
    Kinds <- MCKinds Lists <- MCLists
    MaxRows = 2 RadioBatch = 1 LowWater = 1 MaxFailures = 2
    d1 = d1 d2 = d2 f = f NoFile = NoFile s1 = s1 s2 = s2 NoSong = NoSong c1 = c1 c2 = c2
INVARIANTS SoundsAsAsked
PROPERTIES PlayerSettles LinksAreAnswered EverySongStarts AllTheSame
CHECK_DEADLOCK FALSE
