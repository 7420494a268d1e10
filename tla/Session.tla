------------------------------- MODULE Session -------------------------------
(***************************************************************************)
(* The queue across launches (playbackcontroller.cpp): three settings are  *)
(* kept in the library, each written when it suits.  The shuffle flag is   *)
(* written at once, the queue two seconds after its last change, the place *)
(* in the song every ten seconds; quitting writes what is owed.  A crash   *)
(* may come between any two writes.  PlayQueue gives the queue's calls.    *)
(***************************************************************************)
EXTENDS PlayQueue

CONSTANTS
    LibraryList,     \* the library's songs, queued by a launch with no session
    KeptRows         \* kQueueKeptRows

ASSUME SessionAssumption ==
    /\ LibraryList \in Seq(Videos)
    /\ Len(LibraryList) <= MaxRows
    /\ KeptRows \in Nat \ {0}

VARIABLES
    app,       \* "open", or how it last ended: "quit", "crashed"
    at,        \* where in the song: m_position, as a Place
    unsaved,   \* m_queueSave is running
    disk,      \* the settings kShuffleKey, kQueueKey and kPlaceKey
    heard      \* history: the videos played into the middle

sessionVars == <<queue, shuffle, track, app, at, unsaved, disk, heard>>

\* "edge": under kPlaceMinMs, or within kPlaceTailMs of the end.
Places == {"edge", "middle"}

NoPlace == [key |-> NoVideo, at |-> "edge"]

SessionInit ==
    /\ Init
    /\ app = "crashed"
    /\ at = "edge"
    /\ unsaved = FALSE
    /\ disk = [shuffle |-> FALSE, queue |-> NoSnapshot, place |-> NoPlace]
    /\ heard = {}

CurrentVideo(q) == q.items[q.current].video

-----------------------------------------------------------------------------

Changed ==
    /\ unsaved' = (unsaved \/ queue' # queue)
    /\ UNCHANGED <<app, heard>>

\* A song begins, from its start.
Start ==
    /\ app = "open"
    /\ \/ \E list \in Lists : \E start \in DOMAIN list : PlayTracks(list, start)
       \/ \E row \in DOMAIN queue.items : GoTo(row)
       \/ Count(queue) = 0 /\ \E list \in Lists : AddAllToQueue(list)
    /\ at' = "edge"
    /\ Changed
    /\ UNCHANGED disk

\* The song goes on.
Edit ==
    /\ app = "open" /\ Count(queue) > 0
    /\ \/ \E list \in Lists : Len(list) = 1 /\ PlayNext(list[1])
       \/ \E list \in Lists : AddAllToQueue(list)
       \/ \E row \in DOMAIN queue.items : RemoveFromQueue(row)
       \/ \E from, to \in DOMAIN queue.items : MoveInQueue(from, to)
       \/ ClearUpcoming
    /\ Changed
    /\ UNCHANGED <<at, disk>>

\* The flag is saved at once, the rows it put in another order are not.
ToggleShuffle ==
    /\ app = "open"
    /\ \E on \in BOOLEAN : SetShuffle(on)
    /\ disk' = [disk EXCEPT !.shuffle = shuffle']
    /\ Changed
    /\ UNCHANGED at

\* The song plays on, or is sought in.
Hear(place) ==
    /\ app = "open" /\ queue.current # 0
    /\ at' = place
    /\ heard' = IF place = "middle" THEN heard \cup {CurrentVideo(queue)} ELSE heard
    /\ UNCHANGED <<queue, shuffle, track, app, unsaved, disk>>

-----------------------------------------------------------------------------

PlaceNow == IF queue.current = 0 THEN disk.place ELSE [key |-> CurrentVideo(queue), at |-> at]

SaveQueue ==
    /\ app = "open" /\ unsaved
    /\ unsaved' = FALSE
    /\ \E kept \in Snapshots(queue, KeptRows) : disk' = [disk EXCEPT !.queue = kept]
    /\ UNCHANGED <<queue, shuffle, track, app, at, heard>>

SavePlace ==
    /\ app = "open"
    /\ disk' = [disk EXCEPT !.place = PlaceNow]
    /\ UNCHANGED <<queue, shuffle, track, app, at, unsaved, heard>>

\* (slip: only the timer writes the queue)
QuitInHaste ==
    /\ app = "open"
    /\ app' = "quit"
    /\ unsaved' = FALSE
    /\ disk' = [disk EXCEPT !.place = PlaceNow]
    /\ UNCHANGED <<queue, shuffle, track, at, heard>>

\* aboutToQuit.  The queue is left as it was last seen, for the next launch to
\* be compared with.
Quit ==
    /\ app = "open"
    /\ app' = "quit"
    /\ unsaved' = FALSE
    /\ \E kept \in IF unsaved THEN Snapshots(queue, KeptRows) ELSE {disk.queue} :
          disk' = [disk EXCEPT !.queue = kept, !.place = PlaceNow]
    /\ UNCHANGED <<queue, shuffle, track, at, heard>>

Crash ==
    /\ app = "open"
    /\ app' = "crashed"
    /\ Begin(EmptyQueue)
    /\ shuffle' = FALSE
    /\ at' = "edge"
    /\ unsaved' = FALSE
    /\ UNCHANGED <<disk, heard>>

\* (slip: whichever song the place was written for)
PlaceForAnySong(q) == IF disk.place.at = "middle" THEN "middle" ELSE "edge"

\* The place, if it is this song's and not at either end of it.
PlaceFor(q) ==
    IF disk.place = [key |-> CurrentVideo(q), at |-> "middle"] THEN "middle" ELSE "edge"

\* restoreSession.
Restore ==
    /\ disk.queue # NoSnapshot
    /\ \E q \in FromSnapshots(EmptyQueue, disk.queue) : Begin(q)
    /\ at' = PlaceFor(queue')
    /\ unsaved' = FALSE

\* loadModel(library), as main.cpp asks for when there was nothing to restore.
LoadLibrary ==
    LET songs == Chosen(LibraryList)
    IN  /\ disk.queue = NoSnapshot
        /\ IF songs = <<>> THEN Begin(EmptyQueue)
           ELSE IF disk.shuffle THEN \E q \in Shuffled(Replaced(EmptyQueue, songs, 1)) : Begin(q)
           ELSE Begin(Replaced(EmptyQueue, songs, 1))
        /\ at' = "edge"
        /\ unsaved' = (songs # <<>>)

Launch ==
    /\ app # "open"
    /\ app' = "open"
    /\ shuffle' = disk.shuffle
    /\ Restore \/ LoadLibrary
    /\ UNCHANGED <<disk, heard>>

SessionNext ==
    \/ Start \/ Edit \/ ToggleShuffle
    \/ \E place \in Places : Hear(place)
    \/ SaveQueue \/ SavePlace
    \/ Quit \/ Crash \/ Launch

SessionSpec == SessionInit /\ [][SessionNext]_sessionVars

-----------------------------------------------------------------------------
(* Properties *)

\* The members and the settings have their types.
SessionTypeOK ==
    /\ TypeOK
    /\ app \in {"open", "quit", "crashed"}
    /\ at \in Places
    /\ unsaved \in BOOLEAN
    /\ disk.shuffle \in BOOLEAN
    /\ disk.place \in [key : Videos \cup {NoVideo}, at : Places]
    /\ Len(disk.queue.tracks) <= KeptRows
    /\ Range(disk.queue.order) \subseteq DOMAIN disk.queue.tracks

VideosOf(tracks) == [n \in DOMAIN tracks |-> tracks[n].video]

UpcomingVideos(q) == VideosOf(SubSeq(q.items, q.current + 1, Count(q)))

\* The songs to come with shuffle off, by video: the uids do not outlive a launch.
PlannedVideos(q) ==
    VideosOf(SubSeq((CHOOSE r \in Restored(q) : TRUE).items, q.current + 1, Count(q)))

\* restoreSession, "as it was": a launch after quitting opens on the song that
\* was playing and its place, and what came next comes next, as far as it was
\* kept; all of it, shuffled as it was and unshuffled into the same order,
\* when the queue is short enough.
QuitKeepsTheSession ==
    [][app = "quit" /\ Launch /\ Count(queue) > 0 =>
          /\ CurrentVideo(queue') = CurrentVideo(queue)
          /\ at = "middle" => at' = "middle"
          /\ IsPrefix(UpcomingVideos(queue'), UpcomingVideos(queue))
          /\ shuffle' = shuffle
          /\ Count(queue) <= KeptRows =>
                /\ VideosOf(queue'.items) = VideosOf(queue.items)
                /\ PlannedVideos(queue') = PlannedVideos(queue)]_sessionVars

\* However the app ended, a launch never opens in the middle of a song that
\* was not played that far: the place and the queue are written apart, and a
\* place of another song's is left alone.
OpensWhereItWasHeard ==
    [][Launch /\ at' = "middle" => CurrentVideo(queue') \in heard]_sessionVars

\* What quitting keeps is what the next launch opens on; and a song opens at a
\* place heard of it, crash or no crash.
SessionIsKept == QuitKeepsTheSession /\ OpensWhereItWasHeard

\* queuemodel.h:98-99: m_originalOrder is "empty when not shuffled".
NoOrderWithoutShuffle == app = "open" /\ ~shuffle => queue.order = <<>>
=============================================================================
