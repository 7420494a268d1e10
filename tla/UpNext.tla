------------------------------- MODULE UpNext -------------------------------
(***************************************************************************)
(* What plays next (playbackcontroller.cpp): the transport buttons, the    *)
(* end of a song, songs that will not play, autoplay's radio and the sleep *)
(* timer's stop, over mpv, which answers later than it is asked.           *)
(*                                                                         *)
(* A row of the queue is only where its sound can come from; shuffle and   *)
(* the rows' identities are PlayQueue's, the rungs of the ladder Ladder's. *)
(* `player` holds the controller's members and what it knows of mpv:       *)
(*                                                                         *)
(*    rows, current     m_queue, its current row from 1 (0: none)          *)
(*    repeat, autoplay  m_repeatMode, m_autoplay                           *)
(*    stopAfter         m_stopAfterCurrent, set by the sleep timer         *)
(*    fetching          m_radioSeed is not empty                           *)
(*    waiting           m_waitingForRadio                                  *)
(*    pending           m_pendingVideoId is not empty                      *)
(*    wants             m_autoPlayAfterResolve                             *)
(*    resolving, error  m_resolving, m_statusError                         *)
(*    failures          m_consecutiveFailures                              *)
(*    rescued           the ladder has given this song its other link      *)
(*    playing           m_playing, the flag the bar shows                  *)
(*    paused, reported  mpv's pause property, and MpvEngine::m_paused      *)
(*    file              what mpv does with the file last asked for         *)
(***************************************************************************)
EXTENDS Integers, Sequences

CONSTANTS
    Kinds,         \* the kinds of row the listener adds
    Lists,         \* the lists the listener starts
    MaxRows,       \* bound: rows in the queue
    RadioBatch,    \* kRadioBatch, 25 in the code
    LowWater,      \* kRadioLowWater, 2 in the code
    MaxFailures    \* kMaxConsecutiveFailures, 3 in the code

\* "kept" is a song with a downloaded copy, "file" one with a file and no id,
\* "blank" a row with neither a file, an id nor a link.
AllKinds == {"streamed", "kept", "file", "blank"}

ASSUME KindsAssumption == Kinds \subseteq AllKinds
ASSUME ListsAssumption ==
    \A list \in Lists : list \in Seq(AllKinds) /\ Len(list) \in 1 .. MaxRows
ASSUME BoundsAssumption ==
    /\ MaxRows \in Nat \ {0}
    /\ RadioBatch \in Nat \ {0}
    /\ LowWater \in Nat
    /\ MaxFailures \in Nat \ {0}

VARIABLES
    player,    \* the controller and mpv, as above
    skips,     \* songs skipped by themselves since a sound or a press
    asleep     \* a history variable: what came of the sleep timer's last stop

vars == <<player, skips, asleep>>

Repeats == {"off", "all", "one"}

\* "no" until the sleep timer stops the music, and again from the listener's
\* next press; "woken" once the radio's answer has started the next song over
\* such a stop.
Sleeps == {"no", "stopped", "woken"}

PlayerType ==
    [rows : Seq(AllKinds), current : Nat, repeat : Repeats,
     autoplay : BOOLEAN, stopAfter : BOOLEAN, fetching : BOOLEAN,
     waiting : BOOLEAN, pending : BOOLEAN, wants : BOOLEAN,
     resolving : BOOLEAN, error : BOOLEAN, failures : Nat,
     rescued : BOOLEAN, playing : BOOLEAN, paused : BOOLEAN,
     reported : BOOLEAN, file : {"none", "opening", "sounding", "ended"}]

Streams(row) == row \in {"streamed", "kept"}
OnDisk(row)  == row \in {"kept", "file"}

UpcomingCount(p) == Len(p.rows) - p.current

Status(p, resolving, error) ==
    [p EXCEPT !.resolving = resolving, !.error = error]

\* mpv is asked for a file, and paused or not along with it.
LoadFile(p, start) == [p EXCEPT !.file = "opening", !.paused = ~start]

\* A pause by hand: a song still resolving is to arrive paused.
Hushed(p) == [p EXCEPT !.wants = FALSE, !.paused = TRUE]

\* Nothing more is on its way: the flag and mpv both.
Halted(p) == [p EXCEPT !.playing = FALSE, !.paused = TRUE]

\* The radio is asked for once, and needs a row it can start from.
CanExtend(p) == p.fetching \/ \E n \in DOMAIN p.rows : Streams(p.rows[n])

\* (slip: the song being left plays on until the next one's link arrives)
LeftPlaying(p, n, auto) ==
    [p EXCEPT !.current = n, !.pending = FALSE, !.wants = auto, !.rescued = FALSE]

\* The song in hand is dropped and mpv stopped before the next is known.
Left(p, n, auto) ==
    [p EXCEPT !.current = n, !.file = "none", !.pending = FALSE,
              !.wants = auto, !.rescued = FALSE]

BegunTrack(p, n, auto) ==
    CASE OnDisk(p.rows[n]) -> Status(LoadFile(Left(p, n, auto), auto), FALSE, FALSE)
      [] p.rows[n] = "streamed" ->
            Status([Left(p, n, auto) EXCEPT !.pending = TRUE], TRUE, FALSE)
      [] OTHER -> Status(Left(p, n, auto), FALSE, TRUE)

RunsLow(p, n) ==
    p.autoplay /\ p.repeat # "all" /\ Len(p.rows) - n < LowWater /\ CanExtend(p)

Begun(p, n, auto) ==
    [BegunTrack(p, n, auto) EXCEPT
        !.fetching = @ \/ (auto /\ RunsLow(p, n))]

Advanced(p, keep) ==
    CASE p.rows = <<>> -> p
      [] p.rows # <<>> /\ p.current < Len(p.rows) -> Begun(p, p.current + 1, keep)
      [] p.rows # <<>> /\ p.current >= Len(p.rows) /\ p.repeat = "all" -> Begun(p, 1, keep)
      [] OTHER ->
            IF p.autoplay /\ CanExtend(p)
            THEN Status([p EXCEPT !.fetching = TRUE, !.waiting = TRUE], TRUE, FALSE)
            ELSE Hushed(p)

\* The count stops at MaxFailures: any more of them is treated alike.
Counted(p) ==
    [p EXCEPT !.failures = IF @ < MaxFailures THEN @ + 1 ELSE @]

Skips(p) ==
    p.wants /\ p.failures + 1 < MaxFailures /\ UpcomingCount(p) > 0

Failed(p) ==
    IF Skips(p) THEN Advanced(Counted(p), TRUE)
                ELSE Status(Halted(Counted(p)), FALSE, TRUE)

\* (slip: the refused link is not remembered, and is asked for again)
RescuedForgetfully(p) ==
    Status([p EXCEPT !.pending = TRUE, !.file = "none"], TRUE, FALSE)

\* The rest of the ladder, asked for the same song: once stands for the
\* finitely many rungs it has.
Rescued(p) ==
    Status([p EXCEPT !.pending = TRUE, !.rescued = TRUE, !.file = "none"], TRUE, FALSE)

-----------------------------------------------------------------------------

Init ==
    /\ player = [rows |-> <<>>, current |-> 0, repeat |-> "off",
                 autoplay |-> TRUE, stopAfter |-> FALSE, fetching |-> FALSE,
                 waiting |-> FALSE, pending |-> FALSE, wants |-> TRUE,
                 resolving |-> FALSE, error |-> FALSE, failures |-> 0,
                 rescued |-> FALSE, playing |-> FALSE, paused |-> TRUE,
                 reported |-> TRUE, file |-> "none"]
    /\ skips = 0
    /\ asleep = "no"

\* The listener asks for a song, and has the queue's skips to themselves again.
Pressed(p) == player' = p /\ skips' = 0 /\ asleep' = "no"

\* The listener changes what is to come, and asks for no sound by it.
Edited(p) == player' = p /\ UNCHANGED <<skips, asleep>>

\* A list started afresh: by Play on it, or by a first song queued, which
\* only waits there.
StartQueue(rows, start, auto) ==
    Pressed(Begun([player EXCEPT !.rows = rows, !.fetching = FALSE,
                                 !.waiting = FALSE, !.failures = 0],
                  start, auto))

PlayTracks == \E rows \in Lists : \E start \in DOMAIN rows : StartQueue(rows, start, TRUE)

\* Queued among what is still to come; the row is PlayQueue's affair.
Queued(rows, kind, at) ==
    SubSeq(rows, 1, at - 1) \o <<kind>> \o SubSeq(rows, at, Len(rows))

AddToQueue ==
    \E kind \in Kinds \ {"blank"} :
        IF player.rows = <<>>
        THEN StartQueue(<<kind>>, 1, FALSE)
        ELSE /\ Len(player.rows) < MaxRows
             /\ \E at \in (player.current + 1) .. (Len(player.rows) + 1) :
                    Edited([player EXCEPT !.rows = Queued(@, kind, at)])

RemoveFromQueue ==
    \E n \in (player.current + 1) .. Len(player.rows) :
        Edited([player EXCEPT !.rows = SubSeq(@, 1, n - 1) \o SubSeq(@, n + 1, Len(@))])

\* (slip: the song playing is cleared along with what is to come)
ClearedTooFar ==
    /\ player.rows # <<>>
    /\ Edited([player EXCEPT !.rows = SubSeq(@, 1, player.current - 1),
                             !.fetching = FALSE, !.waiting = FALSE])

ClearUpcoming ==
    /\ player.rows # <<>>
    /\ Edited([player EXCEPT !.rows = SubSeq(@, 1, player.current),
                             !.fetching = FALSE, !.waiting = FALSE])

PlayIndex == \E n \in DOMAIN player.rows : Pressed(Begun(player, n, TRUE))

\* Play on a song that failed tries it again, with its tries given back.
Play ==
    /\ player.current # 0
    /\ Pressed(IF player.error
               THEN Begun([player EXCEPT !.failures = 0], player.current, TRUE)
               ELSE [player EXCEPT !.wants = TRUE, !.paused = FALSE])

Pause == Edited(Hushed(player))

Keeps(p) == p.playing \/ (p.resolving /\ p.wants)

SkipForward == player.rows # <<>> /\ Pressed(Advanced(player, Keeps(player)))

\* Past the first seconds, or on the first row, Previous only seeks to the
\* start.
Previous ==
    /\ player.current > 1
    /\ Pressed(Begun(player, player.current - 1, Keeps(player)))

SetAutoplay ==
    Edited([player EXCEPT !.autoplay = ~@, !.fetching = @ /\ ~player.autoplay])

CycleRepeat ==
    Edited([player EXCEPT !.repeat =
                CASE @ = "off" -> "all" [] @ = "all" -> "one" [] OTHER -> "off"])

SetStopAfterCurrent == Edited([player EXCEPT !.stopAfter = ~@])

Presses ==
    \/ PlayTracks \/ AddToQueue \/ RemoveFromQueue \/ ClearUpcoming \/ PlayIndex
    \/ Play \/ Pause \/ SkipForward \/ Previous
    \/ SetAutoplay \/ CycleRepeat \/ SetStopAfterCurrent

-----------------------------------------------------------------------------
\* What answers.  An answer for a song left since is dropped by its id, and
\* mpv's word on a file replaced since by its entry, so only the latest is
\* ever here.

\* A song is skipped by itself; nobody pressed anything.
Happened(p) ==
    /\ player' = p
    /\ skips' = IF p.current # player.current THEN skips + 1 ELSE skips
    /\ UNCHANGED asleep

\* (slip: a link counts as a song heard)
HandleResolvedAsHeard ==
    /\ player.pending
    /\ player' = [Status(LoadFile([player EXCEPT !.pending = FALSE], player.wants), FALSE, FALSE)
                  EXCEPT !.failures = 0]
    /\ UNCHANGED <<skips, asleep>>

HandleResolved ==
    /\ player.pending
    /\ player' = Status(LoadFile([player EXCEPT !.pending = FALSE], player.wants), FALSE, FALSE)
    /\ UNCHANGED <<skips, asleep>>

HandleResolveFailed ==
    /\ player.pending
    /\ Happened(Failed([player EXCEPT !.pending = FALSE]))

\* mpv would not open the file, or lost it part-way.
LoadFailed ==
    /\ player.file \in {"opening", "sounding"}
    /\ \/ /\ Streams(player.rows[player.current])
          /\ ~player.rescued
          /\ Happened(Rescued(player))
       \/ Happened(Failed([player EXCEPT !.file = "none"]))

HandleAudioStarted ==
    /\ player.file = "opening"
    /\ ~player.paused
    /\ player' = [player EXCEPT !.file = "sounding", !.failures = 0]
    /\ skips' = 0
    /\ UNCHANGED asleep

\* mpv reaches the end; its word on that is still to be read.
RunsOut ==
    /\ player.file = "sounding"
    /\ ~player.paused
    /\ player' = [player EXCEPT !.file = "ended"]
    /\ UNCHANGED <<skips, asleep>>

\* (slip: the next one is made ready as if someone were listening)
StoppedAfterPlayingOn(p) ==
    CASE p.repeat = "one" -> Begun(p, p.current, FALSE)
      [] p.repeat # "one" /\ (UpcomingCount(p) > 0 \/ p.repeat = "all") ->
            Advanced(p, p.playing)
      [] OTHER -> Hushed(p)

\* Asked to stop after this song: what comes next is made ready and waits.
StoppedAfter(p) ==
    CASE p.repeat = "one" -> Begun(p, p.current, FALSE)
      [] p.repeat # "one" /\ (UpcomingCount(p) > 0 \/ p.repeat = "all") -> Advanced(p, FALSE)
      [] OTHER -> Hushed(p)

\* A stream that stopped short carries on, once a song; else the song is over.
HandleEndOfFile ==
    LET over == [player EXCEPT !.file = "none"] IN
    /\ player.file = "ended"
    /\ skips' = 0
    /\ \/ /\ Streams(player.rows[player.current]) /\ ~player.rescued
          /\ player' = [Rescued(player) EXCEPT !.wants = TRUE]
          /\ UNCHANGED asleep
       \/ /\ player.stopAfter
          /\ player' = StoppedAfter([over EXCEPT !.stopAfter = FALSE])
          /\ asleep' = "stopped"
       \/ /\ ~player.stopAfter /\ player.repeat = "one"
          /\ player' = Begun(over, player.current, TRUE)
          /\ UNCHANGED asleep
       \/ /\ ~player.stopAfter /\ player.repeat # "one"
          /\ player' = Advanced(over, Keeps(over))
          /\ UNCHANGED asleep

\* (slip: the flag is only ever raised, as if Pause cleared it by itself)
PauseReportedWhenPlaying ==
    /\ player.reported # player.paused
    /\ player' = [player EXCEPT !.reported = player.paused,
                                !.playing = @ \/ ~player.paused]
    /\ UNCHANGED <<skips, asleep>>

PauseReported ==
    /\ player.reported # player.paused
    /\ player' = [player EXCEPT !.reported = player.paused, !.playing = ~player.paused]
    /\ UNCHANGED <<skips, asleep>>

\* The end of the queue: nothing came to follow it.
NothingFollows(p) ==
    Status(Halted([p EXCEPT !.waiting = FALSE]), FALSE, FALSE)

\* m_waitingForRadio is all that is asked: it may be left over from an end
\* since played past, and the song it starts may follow a stop.
RadioReady ==
    /\ player.fetching
    /\ \E found \in 0 .. RadioBatch :
        LET heard == [player EXCEPT !.fetching = FALSE,
                                    !.rows = @ \o [n \in 1 .. found |-> "streamed"]]
        IN  /\ Len(heard.rows) <= MaxRows
            /\ \/ /\ ~player.waiting
                  /\ player' = heard
                  /\ UNCHANGED asleep
               \/ /\ player.waiting /\ UpcomingCount(heard) > 0
                  /\ player' = Begun([heard EXCEPT !.waiting = FALSE], heard.current + 1, TRUE)
                  /\ asleep' = IF asleep = "stopped" THEN "woken" ELSE asleep
               \/ /\ player.waiting /\ UpcomingCount(heard) = 0
                  /\ player' = NothingFollows(heard)
                  /\ UNCHANGED asleep
    /\ UNCHANGED skips

RadioFailed ==
    /\ player.fetching
    /\ LET heard == [player EXCEPT !.fetching = FALSE]
       IN  player' = IF player.waiting THEN NothingFollows(heard) ELSE heard
    /\ UNCHANGED <<skips, asleep>>

World ==
    \/ HandleResolved \/ HandleResolveFailed \/ LoadFailed \/ HandleAudioStarted
    \/ RunsOut \/ HandleEndOfFile \/ PauseReported \/ RadioReady \/ RadioFailed

\* Something is under way that only an answer can end.
Busy ==
    \/ player.pending
    \/ player.file = "opening" /\ ~player.paused
    \/ player.file = "ended"
    \/ player.waiting /\ player.fetching

Next == Presses \/ World

\* The resolver and the radio each answer or give up (both run on timeouts),
\* mpv opens a file or fails it, and the event loop reads what mpv said.
Fairness ==
    /\ WF_vars(HandleResolved \/ HandleResolveFailed)
    /\ WF_vars(RadioReady \/ RadioFailed)
    /\ WF_vars(HandleAudioStarted \/ LoadFailed)
    /\ WF_vars(HandleEndOfFile)
    /\ WF_vars(PauseReported)

Spec == Init /\ [][Next]_vars

FairSpec == Spec /\ Fairness

-----------------------------------------------------------------------------

\* Every member of the controller holds a value of its kind, and the current
\* row is a row of the queue.
TypeOK ==
    /\ player \in PlayerType
    /\ player.current \in 0 .. Len(player.rows)
    /\ player.failures <= MaxFailures
    /\ skips \in Nat
    /\ asleep \in Sleeps

\* A queue whose songs will not play is never walked past MaxFailures of them
\* by itself: not by links that arrive and are then refused, and not by songs
\* rescued in vain (failTrack, and m_consecutiveFailures, which only a sound
\* or the listener sets back).
WalkStops == skips < MaxFailures

\* While a song is being looked for, or has failed, nothing else is loaded in
\* mpv: no earlier song plays on under the new title, and Play on a failed
\* song has nothing to unpause (beginTrack's stop, play's statusError).
NothingElseSounds == player.pending \/ player.error => player.file = "none"

\* The flag the bar shows never says playing once mpv has told of a pause
\* (pausedChanged, haltPlayback).
FlagYieldsToPause == player.playing => ~player.reported

\* Once the sleep timer has stopped the music after a song, nothing is loaded
\* to play until the listener asks: not the next song's late link, not a
\* rescue, not a skip past a song that fails (handleEndOfFile).  One answer is
\* left out, and StopIsKept below says what it does: the radio's, with
\* m_waitingForRadio still set.
AsleepStaysAsleep == asleep = "stopped" => player.paused \/ player.file = "none"

\* What sounds is what was asked for, and the bar tells of it: no song left
\* behind plays on, no pause leaves the flag up, no stop by the sleep timer is
\* undone by an answer that comes late, the radio's to a queue still taken to
\* wait for it apart (playbackcontroller.cpp's beginTrack, haltPlayback and
\* handleEndOfFile).
SoundsAsAsked == NothingElseSounds /\ FlagYieldsToPause /\ AsleepStaysAsleep

\* Left alone, the player is not busy for ever: the songs it looks for, loses
\* and looks for again, the ends it is told of and the radio it waits for come
\* to a sound, a pause, an error or the end of the queue.
BusyEnds == (<>[][~Presses]_vars) => []<>~Busy

-----------------------------------------------------------------------------
\* What the source says of itself and the program does not keep to.

\* "Asked to stop after this song (the sleep timer): the next one made ready
\* and left waiting": until the listener asks, nothing plays.  handleEndOfFile
\* leaves m_waitingForRadio as playIndex left it, and the radio's answer then
\* plays the next song aloud.
StopIsKept == asleep # "no" => player.paused \/ player.file = "none"

\* m_waitingForRadio: "the queue ran out and is waiting on it": while it waits,
\* the song in hand is the queue's last.  playIndex, previous and a song queued
\* leave it set, so this does not hold; StopIsKept is what comes of it.
WaitingAtTheEnd == player.waiting => player.current = Len(player.rows)

\* The flag follows mpv's pause property: with all of mpv's pauses told, it is
\* what mpv has (haltPlayback's comment, the bar showing Play over music).
FlagFollowsMpv == player.reported = player.paused => player.playing = ~player.paused
=============================================================================
