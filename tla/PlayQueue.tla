------------------------------ MODULE PlayQueue ------------------------------
(***************************************************************************)
(* The queue as PlaybackController (playbackcontroller.cpp) drives it: a   *)
(* list played, songs queued, moved, taken out, shuffled, put back, and    *)
(* the radio's songs added at the end.  One action per call the window     *)
(* makes or per answer that arrives; each runs to its end on the one       *)
(* event-loop thread.  What the song playing does with its sound is in     *)
(* Player, what happens at the end of the queue in UpNext.                 *)
(***************************************************************************)
EXTENDS QueueModel

CONSTANTS
    Lists,       \* the lists a page may play or queue: sequences of videos
    RadioLists,  \* what the radio may answer with
    MaxRows,     \* bound: the longest queue
    MaxUid       \* bound: the last uid handed out

ASSUME PlayQueueAssumption ==
    /\ Lists \subseteq Seq(Videos \cup {NoVideo})
    /\ RadioLists \subseteq Seq(Videos)
    /\ <<>> \notin Lists \cup RadioLists
    /\ MaxRows \in Nat
    /\ MaxUid \in Nat

VARIABLES
    queue,       \* m_queue
    shuffle,     \* m_shuffle
    track        \* the uid m_currentTrack was taken from, 0 before the first

vars == <<queue, shuffle, track>>

Chosen(list) == [n \in DOMAIN list |-> TrackOf(list[n], FALSE)]

FromRadio(list) == [n \in DOMAIN list |-> TrackOf(list[n], TRUE)]

Fits(q, n) == Count(q) + n <= MaxRows /\ q.next + n <= MaxUid + 1

-----------------------------------------------------------------------------

Init ==
    /\ queue = EmptyQueue
    /\ shuffle = FALSE
    /\ track = 0

\* beginCurrent: the row the queue stands on is the one beginTrack is given.
Begin(q) ==
    /\ queue' = q
    /\ track' = CurrentUid(q)

\* Shuffling a list starts with the song that was picked and plays the rest.
PickedFirst(tracks, start) == <<tracks[start]>> \o RemoveAt(tracks, start)

StartQueue(tracks, start) ==
    /\ tracks # <<>>
    /\ Len(tracks) <= MaxRows
    /\ queue.next + Len(tracks) <= MaxUid + 1
    /\ IF shuffle
       THEN \E q \in Shuffled(Replaced(queue, PickedFirst(tracks, start), 1)) : Begin(q)
       ELSE Begin(Replaced(queue, tracks, start))
    /\ UNCHANGED shuffle

PlayTracks(list, start) == StartQueue(Chosen(list), start)

\* playIndex and loadIndex: both leave the queue and the track the same.
GoTo(row) ==
    /\ row \in DOMAIN queue.items
    /\ Begin(WithCurrent(queue, row))
    /\ UNCHANGED shuffle

PlayNext(video) ==
    IF Count(queue) = 0
    THEN StartQueue(Chosen(<<video>>), 1)
    ELSE /\ Fits(queue, 1)
         /\ queue' = Inserted(queue, queue.current + 1, Chosen(<<video>>))
         /\ UNCHANGED <<shuffle, track>>

\* What is queued goes ahead of what autoplay found.
AddAllToQueue(list) ==
    IF Count(queue) = 0
    THEN StartQueue(Chosen(list), 1)
    ELSE /\ Fits(queue, Len(list))
         /\ LET radio == RadioStart(queue)
            IN  queue' = Inserted(queue, IF radio = 0 THEN Count(queue) + 1 ELSE radio, Chosen(list))
         /\ UNCHANGED <<shuffle, track>>

\* The radio's answer, without the songs the queue holds already.
RadioReady(list) ==
    /\ Count(queue) > 0
    /\ \A n \in DOMAIN list : ~ContainsVideo(queue, list[n])
    /\ Fits(queue, Len(list))
    /\ queue' = Inserted(queue, Count(queue) + 1, FromRadio(list))
    /\ UNCHANGED <<shuffle, track>>

RemoveFromQueue(row) ==
    /\ row \in DOMAIN queue.items \ {queue.current}
    /\ queue' = RemovedAt(queue, row)
    /\ UNCHANGED <<shuffle, track>>

\* Only among what is still to come.
MoveInQueue(from, to) ==
    /\ from \in Upcoming(queue) /\ to \in Upcoming(queue) /\ from # to
    /\ queue' = Moved(queue, from, to)
    /\ UNCHANGED <<shuffle, track>>

\* "Not interested": the upcoming songs autoplay added of these videos.
PruneRadio(unwanted) ==
    /\ LET rows == {n \in Upcoming(queue) : queue.items[n].radio /\ queue.items[n].video \in unwanted}
       IN  rows # {} /\ queue' \in RemovedRows(queue, rows)
    /\ UNCHANGED <<shuffle, track>>

ClearUpcoming ==
    /\ queue' = ClearedUpcoming(queue)
    /\ UNCHANGED <<shuffle, track>>

SetShuffle(on) ==
    /\ on # shuffle
    /\ shuffle' = on
    /\ queue' \in IF on THEN Shuffled(queue) ELSE Restored(queue)
    /\ UNCHANGED track

Next ==
    \/ \E list \in Lists : \E start \in DOMAIN list : PlayTracks(list, start)
    \/ \E row \in DOMAIN queue.items : GoTo(row)
    \/ \E list \in Lists : Len(list) = 1 /\ PlayNext(list[1])
    \/ \E list \in Lists : AddAllToQueue(list)
    \/ \E list \in RadioLists : RadioReady(list)
    \/ \E row \in DOMAIN queue.items : RemoveFromQueue(row)
    \/ \E from, to \in DOMAIN queue.items : MoveInQueue(from, to)
    \/ \E unwanted \in SUBSET Videos : PruneRadio(unwanted)
    \/ ClearUpcoming
    \/ \E on \in BOOLEAN : SetShuffle(on)

Spec == Init /\ [][Next]_vars

-----------------------------------------------------------------------------
(* Properties *)

\* The variables have their types: queuemodel.h's members, and the flag.
TypeOK ==
    /\ queue \in Queue
    /\ queue.current <= Count(queue)
    /\ shuffle \in BOOLEAN
    /\ track \in Nat

\* Whatever is inserted, taken out, moved or shuffled around it, the row the
\* queue calls current is the song beginTrack was last given (Next, Previous
\* and the panel's highlight all count from that row), and a queue with songs
\* always has one.
CurrentIsTheSongPlaying ==
    /\ track = CurrentUid(queue)
    /\ queue.current = 0 <=> Count(queue) = 0

\* A uid names one row for good: stamp() never gives one out twice, so what
\* restoreOrder looks up by uid is the row it meant.
UidsNameOneRow ==
    /\ DistinctUids(queue.items)
    /\ \A song \in Range(queue.items) : song.uid \in 1 .. queue.next - 1

\* The order from before the shuffle holds no song twice and none the queue
\* has let go of, and there is one only while shuffle is on.
OrderKnowsTheQueue ==
    /\ IsInjective(queue.order)
    /\ \A uid \in Range(queue.order) : HasUid(queue.items, uid)
    /\ shuffle \/ queue.order = <<>>

\* Shuffling and unshuffling lose no song and move none that has been played.
ShuffleOnlyRearranges ==
    [][shuffle' # shuffle =>
          /\ SubSeq(queue'.items, 1, queue.current) = SubSeq(queue.items, 1, queue.current)
          /\ Range(queue'.items) = Range(queue.items)
          /\ Len(queue'.items) = Len(queue.items)]_vars

IsMoveOf(uid) ==
    \E from, to \in DOMAIN queue.items : queue.items[from].uid = uid /\ MoveInQueue(from, to)

\* Two songs still to come play in the same order before and after any call,
\* counted with shuffle off, unless the call moved one of them: going to
\* another song, queueing, removing, shuffling and unshuffling never swap two.
PlanKeepsItsOrder ==
    [][\A p \in PlaysBefore(queue) \ PlaysBefore(queue') :
          p[1] \in Ahead(queue') /\ p[2] \in Ahead(queue') => IsMoveOf(p[1]) \/ IsMoveOf(p[2])]_vars

\* "Play next" is next, shuffled or not, and still next once shuffle is off.
PlayNextIsNext ==
    [][\A video \in Videos \cup {NoVideo} :
          Count(queue) > 0 /\ PlayNext(video) =>
              /\ queue'.items[queue'.current + 1].uid = queue.next
              /\ {queue.next} \X (Ahead(queue') \ {queue.next}) \subseteq PlaysBefore(queue')]_vars

\* What is to come keeps its order through any call that does not move it, and
\* what is to be played next is next (queuemodel.cpp's kept order).
PlanIsKept == PlanKeepsItsOrder /\ PlayNextIsNext

\* The queue as its listener thinks of it: PlayOrder.
Order == INSTANCE PlayOrder WITH
    now <- track, ahead <- Ahead(queue), before <- PlaysBefore(queue), used <- queue.next - 1

ImplementsPlayOrder == Order!Spec
=============================================================================
