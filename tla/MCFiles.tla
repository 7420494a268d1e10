------------------------------ MODULE MCFiles ------------------------------
(***************************************************************************)
(* What Monolist fetches, checked together: the links of three songs, one  *)
(* playing, the next, and one more whose lookup is in the way; the         *)
(* downloads of a queue over the tools coming and going, and of one song   *)
(* over two folders the listener moves files about in; and an update of    *)
(* Monolist itself.  A behaviour is about one of them, the others staying  *)
(* as they begin.                                                          *)
(***************************************************************************)
EXTENDS AppUpdate, Downloads, TLC

CONSTANTS s1, s2, s3, NoSong, a, b, f, g

VARIABLES part, ladder, dl2, disk2, db2, resolving2

MCSongs == {s1, s2, s3}

Symmetry == Permutations(MCSongs)

MCTargets == [mac : BOOLEAN, blocked : BOOLEAN]

\* Two songs, one of which JioSaavn is asked for, in one folder.
MCIds == {a, b}
MCTitled == {a}
MCFolders == {f}
MCKinds == {"part", "done"}
MCSurprises == {"tools", "crash"}

Links == INSTANCE StreamLadder WITH
    Songs <- MCSongs, AccountLimit <- 1, Deadline <- TRUE, MaxUses <- 2

\* One song, in two folders.
Moved == INSTANCE Downloads WITH
    Ids <- {a}, Titled <- {a}, Folders <- {f, g}, Kinds <- {"part", "temp", "done"},
    MaxConcurrent <- 1, Surprises <- {"carried", "unreported", "tools", "crash"},
    dl <- dl2, disk <- disk2, db <- db2, resolving <- resolving2

moved == <<dl2, disk2, db2, resolving2>>
all == <<part, ladder, downloads, moved, update>>

FilesInit ==
    /\ part \in {"links", "several", "moved", "update"}
    /\ Links!Init /\ DownloadsInit /\ Moved!DownloadsInit /\ Init
    /\ part # "several" => \A x \in {a, b} : disk[f][x] = {}
    /\ part # "moved" => disk2[f][a] = {} /\ disk2[g][a] = {}
    /\ part # "update" => copies.mac /\ copies.blocked

FilesNext ==
    \/ part = "links" /\ Links!Next /\ UNCHANGED <<part, downloads, moved, update>>
    \/ part = "several" /\ DownloadsNext /\ UNCHANGED <<part, ladder, moved, update>>
    \/ part = "moved" /\ Moved!DownloadsNext /\ UNCHANGED <<part, ladder, downloads, update>>
    \/ part = "update" /\ Next /\ UNCHANGED <<part, ladder, downloads, moved>>

FilesSpec == FilesInit /\ [][FilesNext]_all

\* The shapes of every part's variables.
FilesTypeOK == Links!TypeOK /\ DownloadsTypeOK /\ Moved!DownloadsTypeOK /\ TypeOK

\* Turns at yt-dlp are not lost, and none is kept by a song nobody waits for; the
\* account is asked last, and for the song somebody waits for.
LinksTakeTurns == []Links!TurnsGoRound /\ Links!AccountIsHeldBack

\* Of one song over two folders, the same as of two songs in one: its row, its job
\* and its place in the queue tell the same story, on disk too; and no handler
\* takes a finished file that is the listener's or the library's.
MovedIsKept == []Moved!RowsAreKept /\ Moved!NothingIsThrownAway

=============================================================================
