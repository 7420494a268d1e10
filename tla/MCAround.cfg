SPECIFICATION AroundSpec
CONSTANTS
    Others = {"feed", "track", "lookup"} Longest = 2 MaxRotations = 0 SignIns = 1 MaxLeft = 0 Launches = 2
    lrc = lrc ytm = ytm more = more s1 = s1 s2 = s2 NoSong = NoSong Nobody = Nobody
INVARIANTS AroundTypeOK LyricsAreLookedFor
PROPERTIES BestLyricsAreKept AccountIsSpared SessionIsItsOwn
CHECK_DEADLOCK FALSE
