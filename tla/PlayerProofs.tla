----------------------------- MODULE PlayerProofs -----------------------------
(***************************************************************************)
(* What is proved of the player, the controller first and mpv below it.    *)
(*                                                                         *)
(* Part 1.  UpNext, over any rows, any radio and any limits: what sounds   *)
(*   is what was asked for, and a queue of songs that will not play is not *)
(*   walked for ever.  No song left behind sounds on, for a song is        *)
(*   dropped before the next is looked for; the sleep timer's stop lasts,  *)
(*   for it leaves nothing wanted and nothing waited for, and nobody but   *)
(*   the listener wants again; and no more songs are skipped than have     *)
(*   failed since a sound or a press.                                      *)
(* Part 2.  MpvEngine keeps PlayerPromise, and its effects never cost a    *)
(*   song, for every number of loads and seeks.  What it says is of the    *)
(*   file last asked for because of the order libmpv reports in: a load is *)
(*   answered before it starts, and what is told of one file is told       *)
(*   between its start and its end, before the next one's start.           *)
(***************************************************************************)
EXTENDS UpNext, MpvEngine, SequenceTheorems, TLAPS

(***************************************************************************)
(* Part 1.  UpNext                                                         *)
(***************************************************************************)

\* A player whose members are of their kinds; and whose current row is a row.
Ready(p) == p \in PlayerType /\ p.failures <= MaxFailures
Whole(p) == Ready(p) /\ p.current \in 0 .. Len(p.rows)

\* mpv holds a file, or one is looked for, for a row alone; nothing sounds while
\* one is looked for or has failed; and the flag yields to a pause mpv told of.
Sound(p) ==
    /\ Whole(p)
    /\ p.file # "none" \/ p.pending => p.current # 0
    /\ p.pending \/ p.error => p.file = "none"
    /\ p.playing => ~p.reported

\* Nothing is wanted: of the answers still to come, only the radio's, to a queue
\* that waits for it, can bring a sound.
Quiet(p) ==
    /\ ~p.wants
    /\ p.file \in {"none", "opening"}
    /\ p.file = "opening" => p.paused

IInv ==
    /\ Sound(player)
    /\ asleep \in Sleeps /\ (asleep = "stopped" => Quiet(player))
    /\ skips \in Nat /\ skips <= player.failures /\ skips < MaxFailures

\* The members a step leaves the listener's, or mpv's, to change.
Alike(p, q) ==
    /\ q.rows = p.rows /\ q.failures = p.failures
    /\ q.playing = p.playing /\ q.reported = p.reported /\ q.waiting = p.waiting

\* What Begun makes of a player p: row n in hand, asked for or failed.
Begins(p, q, n, auto) ==
    /\ Whole(q) /\ Alike(p, q)
    /\ q.current = n /\ q.wants = auto
    /\ q.file \in {"none", "opening"}
    /\ q.file = "opening" => q.paused = ~auto
    /\ q.pending \/ q.error => q.file = "none"

LEMMA LeftKeeps ==
    ASSUME NEW p, Ready(p), NEW n \in DOMAIN p.rows, NEW auto \in BOOLEAN
    PROVE  LET q == Left(p, n, auto) IN
           /\ Whole(q) /\ Alike(p, q) /\ q.current = n /\ q.wants = auto
           /\ q.file = "none" /\ ~q.pending
<1> DEFINE q == Left(p, n, auto)
<1>1. p \in PlayerType /\ p.failures <= MaxFailures /\ n \in 1 .. Len(p.rows) /\ n \in Nat
  BY DEF Whole, Ready, PlayerType
<1>2. q \in PlayerType
  BY <1>1 DEF Left, PlayerType
<1>3. /\ q.rows = p.rows /\ q.current = n /\ q.wants = auto /\ q.file = "none"
      /\ ~q.pending /\ q.failures = p.failures /\ q.playing = p.playing
      /\ q.reported = p.reported /\ q.waiting = p.waiting
  BY <1>1 DEF Left, PlayerType
<1> QED
  BY <1>1, <1>2, <1>3 DEF Whole, Ready, Alike

\* mpv is asked for the song's file, and there is nothing else to say of it.
LEMMA LoadedIs ==
    ASSUME NEW p \in PlayerType, NEW start \in BOOLEAN
    PROVE  LET q == Status(LoadFile(p, start), FALSE, FALSE) IN
           /\ q \in PlayerType
           /\ q.rows = p.rows /\ q.failures = p.failures /\ q.playing = p.playing
           /\ q.reported = p.reported /\ q.waiting = p.waiting /\ q.current = p.current
           /\ q.wants = p.wants /\ q.file = "opening" /\ q.paused = ~start
           /\ q.pending = p.pending /\ ~q.error
<1> DEFINE q == Status(LoadFile(p, start), FALSE, FALSE)
<1>1. (~start) \in BOOLEAN
  OBVIOUS
<1>2. q \in PlayerType
  BY <1>1 DEF Status, LoadFile, PlayerType
<1>3. /\ q.rows = p.rows /\ q.failures = p.failures /\ q.playing = p.playing
      /\ q.reported = p.reported /\ q.waiting = p.waiting /\ q.current = p.current
      /\ q.wants = p.wants /\ q.file = "opening" /\ q.paused = ~start
      /\ q.pending = p.pending /\ ~q.error
  BY DEF Status, LoadFile, PlayerType
<1> HIDE DEF q
<1> QED
  BY <1>2, <1>3 DEF q

LEMMA BegunTrackIs ==
    ASSUME NEW p, Ready(p), NEW n \in DOMAIN p.rows, NEW auto \in BOOLEAN
    PROVE  Begins(p, BegunTrack(p, n, auto), n, auto)
<1> DEFINE l == Left(p, n, auto)
<1>1. /\ Whole(l) /\ Alike(p, l) /\ l.current = n /\ l.wants = auto
      /\ l.file = "none" /\ ~l.pending
  BY LeftKeeps
<1>2. BegunTrack(p, n, auto) =
        CASE OnDisk(p.rows[n]) -> Status(LoadFile(l, auto), FALSE, FALSE)
          [] p.rows[n] = "streamed" -> Status([l EXCEPT !.pending = TRUE], TRUE, FALSE)
          [] OTHER -> Status(l, FALSE, TRUE)
  BY DEF BegunTrack
<1> HIDE DEF l
<1>3. Begins(p, Status(LoadFile(l, auto), FALSE, FALSE), n, auto)
  <2> DEFINE q == Status(LoadFile(l, auto), FALSE, FALSE)
  <2>1. l \in PlayerType
    BY <1>1 DEF Whole, Ready
  <2>2. /\ q \in PlayerType
        /\ q.rows = l.rows /\ q.failures = l.failures /\ q.playing = l.playing
        /\ q.reported = l.reported /\ q.waiting = l.waiting /\ q.current = l.current
        /\ q.wants = l.wants /\ q.file = "opening" /\ q.paused = ~auto
        /\ q.pending = l.pending /\ ~q.error
    BY <2>1, LoadedIs
  <2> HIDE DEF q
  <2>3. Begins(p, q, n, auto)
    BY <1>1, <2>2 DEF Begins, Whole, Ready, Alike
  <2> QED
    BY <2>3 DEF q
<1>4. Begins(p, Status([l EXCEPT !.pending = TRUE], TRUE, FALSE), n, auto)
  BY <1>1 DEF Begins, Status, Whole, Ready, PlayerType, Alike
<1>5. Begins(p, Status(l, FALSE, TRUE), n, auto)
  BY <1>1 DEF Begins, Status, Whole, Ready, PlayerType, Alike
<1> QED
  BY <1>2, <1>3, <1>4, <1>5, Zenon DEF OnDisk

LEMMA RunsLowIs == ASSUME NEW p, NEW n PROVE RunsLow(p, n) \in BOOLEAN
  BY DEF RunsLow

LEMMA BegunIs ==
    ASSUME NEW p, Ready(p), NEW n \in DOMAIN p.rows, NEW auto \in BOOLEAN
    PROVE  Begins(p, Begun(p, n, auto), n, auto)
<1> DEFINE b == BegunTrack(p, n, auto)
           low == RunsLow(p, n)
<1>1. Begins(p, b, n, auto) /\ low \in BOOLEAN
  BY BegunTrackIs, RunsLowIs
<1>2. Begun(p, n, auto) = [b EXCEPT !.fetching = @ \/ (auto /\ low)]
  BY DEF Begun
<1> HIDE DEF b, low
<1> QED
  BY <1>1, <1>2 DEF Begins, Whole, Ready, PlayerType, Alike

LEMMA BeginsSound ==
    ASSUME NEW p, Ready(p), p.playing => ~p.reported, NEW q, NEW n \in DOMAIN p.rows, NEW auto \in BOOLEAN,
           Begins(p, q, n, auto)
    PROVE  Sound(q)
  BY DEF Sound, Begins, Alike, Whole, Ready, PlayerType

\* There is a row to go on to.
Follows(p) == p.rows # <<>> /\ (p.current < Len(p.rows) \/ p.repeat = "all")

\* With none, the player stays on its row: hushed, or waiting for the radio.
Rests(p, q) ==
    /\ Whole(q)
    /\ q.rows = p.rows /\ q.current = p.current /\ q.failures = p.failures
    /\ q.playing = p.playing /\ q.reported = p.reported
    /\ q.file = p.file /\ q.pending = p.pending /\ (q.error => p.error)

LEMMA RestsSound ==
    ASSUME NEW p, Sound(p), NEW q, Rests(p, q)
    PROVE  Sound(q)
  BY DEF Sound, Rests

LEMMA HushedIs ==
    ASSUME NEW p, Whole(p)
    PROVE  /\ Rests(p, Hushed(p))
           /\ ~Hushed(p).wants /\ Hushed(p).paused /\ Hushed(p).waiting = p.waiting
  BY DEF Hushed, Rests, Whole, Ready, PlayerType

LEMMA WaitsIs ==
    ASSUME NEW p, Whole(p)
    PROVE  Rests(p, Status([p EXCEPT !.fetching = TRUE, !.waiting = TRUE], TRUE, FALSE))
  BY DEF Status, Rests, Whole, Ready, PlayerType

LEMMA AdvancedIs ==
    ASSUME NEW p, Whole(p), NEW keep \in BOOLEAN
    PROVE  /\ Follows(p) =>
                \E n \in DOMAIN p.rows : Begins(p, Advanced(p, keep), n, keep)
           /\ ~Follows(p) => Rests(p, Advanced(p, keep))
<1>1. /\ Ready(p) /\ p.rows \in Seq(AllKinds) /\ p.current \in 0 .. Len(p.rows)
      /\ Len(p.rows) \in Nat /\ DOMAIN p.rows = 1 .. Len(p.rows)
  BY DEF Whole, Ready, PlayerType
<1>2. p.rows # <<>> => 1 \in DOMAIN p.rows
  BY <1>1
<1>3. p.current < Len(p.rows) => p.current + 1 \in DOMAIN p.rows
  BY <1>1
<1>4. ASSUME p.rows # <<>>, p.current < Len(p.rows)
      PROVE  Begins(p, Advanced(p, keep), p.current + 1, keep)
  <2>1. Advanced(p, keep) = Begun(p, p.current + 1, keep)
    <3>1. ~(p.current >= Len(p.rows))
      BY <1>1, <1>4
    <3> QED
      BY <1>4, <3>1, Zenon DEF Advanced
  <2> QED
    BY <2>1, <1>1, <1>3, <1>4, BegunIs
<1>5. ASSUME p.rows # <<>>, ~(p.current < Len(p.rows)), p.repeat = "all"
      PROVE  Begins(p, Advanced(p, keep), 1, keep)
  <2>1. Advanced(p, keep) = Begun(p, 1, keep)
    <3>1. p.current >= Len(p.rows)
      BY <1>1, <1>5
    <3> QED
      BY <1>5, <3>1, Zenon DEF Advanced
  <2> QED
    BY <2>1, <1>1, <1>2, <1>5, BegunIs
<1>6. ASSUME ~Follows(p)
      PROVE  Rests(p, Advanced(p, keep))
  <2>1. CASE p.rows = <<>>
    <3>1. Advanced(p, keep) = p
      BY <2>1 DEF Advanced
    <3> QED
      BY <3>1, Zenon DEF Rests
  <2>2. CASE p.rows # <<>>
    <3> DEFINE w == Status([p EXCEPT !.fetching = TRUE, !.waiting = TRUE], TRUE, FALSE)
    <3>1. Advanced(p, keep) = IF p.autoplay /\ CanExtend(p) THEN w ELSE Hushed(p)
      BY <1>1, <1>6, <2>2 DEF Advanced, Follows
    <3>2. Rests(p, w) /\ Rests(p, Hushed(p))
      BY WaitsIs, HushedIs
    <3> HIDE DEF w
    <3> QED
      BY <3>1, <3>2
  <2> QED
    BY <2>1, <2>2
<1> QED
  BY <1>2, <1>3, <1>4, <1>5, <1>6 DEF Follows

LEMMA AdvancedSound ==
    ASSUME NEW p, Sound(p), NEW keep \in BOOLEAN
    PROVE  Sound(Advanced(p, keep))
<1>1. Whole(p) /\ Ready(p) /\ (p.playing => ~p.reported)
  BY DEF Sound, Whole
<1> QED
  BY <1>1, AdvancedIs, BeginsSound, RestsSound

\* The song in hand failed, and mpv holds nothing.
LEMMA FailedIs ==
    ASSUME NEW p, Sound(p), p.file = "none"
    PROVE  LET q == Failed(p) IN
           /\ Sound(q) /\ q.failures >= p.failures
           /\ q.current # p.current => q.failures = p.failures + 1 /\ q.failures < MaxFailures
           /\ Quiet(p) => Quiet(q)
<1> DEFINE c == Counted(p)
           h == Status(Halted(c), FALSE, TRUE)
<1>1. /\ Whole(p) /\ p.rows \in Seq(AllKinds) /\ p.current \in 0 .. Len(p.rows)
      /\ p.failures \in Nat /\ p.failures <= MaxFailures /\ MaxFailures \in Nat
  BY BoundsAssumption DEF Sound, Whole, Ready, PlayerType
<1>2. c = [p EXCEPT !.failures = IF p.failures < MaxFailures THEN p.failures + 1 ELSE p.failures]
  BY DEF Counted
<1>3. /\ c \in PlayerType /\ c.rows = p.rows /\ c.current = p.current /\ c.file = p.file
      /\ c.pending = p.pending /\ c.error = p.error /\ c.playing = p.playing
      /\ c.reported = p.reported /\ c.wants = p.wants /\ c.waiting = p.waiting
      /\ c.failures = IF p.failures < MaxFailures THEN p.failures + 1 ELSE p.failures
  BY <1>1, <1>2 DEF Whole, Ready, PlayerType
<1>4. Sound(c) /\ Whole(c)
  BY <1>1, <1>3 DEF Sound, Whole, Ready
<1>5. CASE Skips(p)
  <2>1. p.wants /\ p.failures + 1 < MaxFailures /\ p.current < Len(p.rows)
    BY <1>1, <1>5 DEF Skips, UpcomingCount
  <2>2. Failed(p) = Advanced(c, TRUE)
    BY <1>5, Zenon DEF Failed
  <2>3. Follows(c)
    BY <1>1, <1>3, <2>1 DEF Follows
  <2> HIDE DEF c
  <2>4. PICK n \in DOMAIN c.rows : Begins(c, Advanced(c, TRUE), n, TRUE)
    BY <1>4, <2>3, AdvancedIs
  <2>5. Sound(Advanced(c, TRUE))
    BY <1>4, AdvancedSound
  <2>6. Advanced(c, TRUE).failures = c.failures
    BY <2>4 DEF Begins, Alike
  <2>7. c.failures = p.failures + 1 /\ p.failures + 1 >= p.failures
    BY <1>1, <1>3, <2>1
  <2>8. ~Quiet(p)
    BY <2>1 DEF Quiet
  <2> QED
    BY <2>1, <2>2, <2>5, <2>6, <2>7, <2>8
<1>6. CASE ~Skips(p)
  <2>1. Failed(p) = h
    BY <1>6, Zenon DEF Failed
  <2> HIDE DEF c
  <2>2. /\ h \in PlayerType /\ h.rows = c.rows /\ h.current = c.current /\ h.file = c.file
        /\ h.pending = c.pending /\ h.failures = c.failures /\ ~h.playing
        /\ h.wants = c.wants /\ h.waiting = c.waiting /\ h.paused
    BY <1>3 DEF Status, Halted, PlayerType
  <2> HIDE DEF h
  <2>3. Sound(h)
    BY <1>3, <1>4, <2>2 DEF Sound, Whole, Ready
  <2>4. Quiet(p) => Quiet(h)
    BY <1>3, <2>2 DEF Quiet
  <2>5. c.failures >= p.failures
    BY <1>1, <1>3
  <2> QED
    BY <1>3, <2>1, <2>2, <2>3, <2>4, <2>5
<1> QED
  BY <1>5, <1>6

\* The song's other links are asked for, and it goes on if it was wanted.
LEMMA RescuedIs ==
    ASSUME NEW p, Sound(p), p.current # 0
    PROVE  /\ Sound(Rescued(p))
           /\ Rescued(p).current = p.current /\ Rescued(p).failures = p.failures
           /\ Quiet(p) => Quiet(Rescued(p))
  BY DEF Rescued, Status, Sound, Whole, Ready, PlayerType, Quiet

(***************************************************************************)
(* Each step.                                                              *)
(***************************************************************************)

\* A press leaves a sound player, and the listener has the skips back.
LEMMA PressedKeeps ==
    ASSUME NEW p, Sound(p), Pressed(p)
    PROVE  IInv'
<1>1. player' = p /\ skips' = 0 /\ asleep' = "no"
  BY DEF Pressed
<1>2. p.failures \in Nat /\ MaxFailures \in Nat \ {0}
  BY BoundsAssumption DEF Sound, Whole, Ready, PlayerType
<1>3. Sound(player)'
  BY <1>1, Zenon
<1>4. skips' \in Nat /\ skips' <= player'.failures /\ skips' < MaxFailures
  BY <1>1, <1>2
<1>5. asleep' \in Sleeps /\ asleep' # "stopped"
  BY <1>1 DEF Sleeps
<1> QED
  BY <1>3, <1>4, <1>5, Zenon DEF IInv

\* An edit asks for no sound, and changes no count.
LEMMA EditedKeeps ==
    ASSUME IInv, NEW p, Sound(p), p.failures = player.failures, Quiet(player) => Quiet(p),
           Edited(p)
    PROVE  IInv'
  BY DEF Edited, IInv, Sound, Quiet

LEMMA SubSeqIs ==
    ASSUME NEW rows \in Seq(AllKinds), NEW m \in 1 .. Len(rows) + 1, NEW n \in 0 .. Len(rows),
           m <= n + 1
    PROVE  SubSeq(rows, m, n) \in Seq(AllKinds) /\ Len(SubSeq(rows, m, n)) = n - m + 1
<1>1. \A i \in m .. n : rows[i] \in AllKinds
  OBVIOUS
<1>2. m \in Int /\ n \in Int
  OBVIOUS
<1> QED
  BY <1>1, <1>2, SubSeqProperties

LEMMA QueuedIs ==
    ASSUME NEW rows \in Seq(AllKinds), NEW kind \in AllKinds, NEW at \in 1 .. Len(rows) + 1
    PROVE  /\ Queued(rows, kind, at) \in Seq(AllKinds)
           /\ Len(Queued(rows, kind, at)) = Len(rows) + 1
<1> DEFINE before == SubSeq(rows, 1, at - 1)
           after == SubSeq(rows, at, Len(rows))
           one == <<kind>>
<1>1. Len(rows) \in Nat /\ at - 1 \in 0 .. Len(rows)
  OBVIOUS
<1>2. /\ before \in Seq(AllKinds) /\ Len(before) = at - 1
      /\ after \in Seq(AllKinds) /\ Len(after) = Len(rows) - at + 1
  BY <1>1, SubSeqIs
<1>3. one \in Seq(AllKinds) /\ Len(one) = 1
  OBVIOUS
<1>4. Queued(rows, kind, at) = (before \o one) \o after
  BY DEF Queued
<1> HIDE DEF before, after, one
<1>5. before \o one \in Seq(AllKinds) /\ Len(before \o one) = Len(before) + Len(one)
  BY <1>2, <1>3, ConcatProperties
<1>6. /\ (before \o one) \o after \in Seq(AllKinds)
      /\ Len((before \o one) \o after) = Len(before \o one) + Len(after)
  BY <1>2, <1>5, ConcatProperties
<1> QED
  BY <1>1, <1>2, <1>3, <1>4, <1>5, <1>6

LEMMA StartQueueKeeps ==
    ASSUME IInv, NEW rows \in Seq(AllKinds), NEW start \in DOMAIN rows, NEW auto \in BOOLEAN,
           StartQueue(rows, start, auto)
    PROVE  IInv'
<1> DEFINE p == [player EXCEPT !.rows = rows, !.fetching = FALSE,
                               !.waiting = FALSE, !.failures = 0]
<1>1. player \in PlayerType /\ (player.playing => ~player.reported) /\ MaxFailures \in Nat
  BY BoundsAssumption DEF IInv, Sound, Whole, Ready
<1>2. p \in PlayerType
  BY <1>1 DEF PlayerType
<1>3. p.failures = 0 /\ p.rows = rows /\ p.playing = player.playing /\ p.reported = player.reported
  BY <1>1 DEF PlayerType
<1>4. Ready(p) /\ (p.playing => ~p.reported)
  BY <1>1, <1>2, <1>3 DEF Ready
<1>5. Pressed(Begun(p, start, auto))
  BY DEF StartQueue
<1> HIDE DEF p
<1>6. Sound(Begun(p, start, auto))
  BY <1>3, <1>4, BegunIs, BeginsSound
<1> QED
  BY <1>5, <1>6, PressedKeeps

LEMMA IsSound ==
    ASSUME IInv
    PROVE  /\ Sound(player) /\ Whole(player) /\ Ready(player) /\ player \in PlayerType
           /\ player.rows \in Seq(AllKinds) /\ DOMAIN player.rows = 1 .. Len(player.rows)
           /\ Len(player.rows) \in Nat /\ player.current \in 0 .. Len(player.rows)
           /\ player.failures \in Nat /\ player.failures <= MaxFailures
           /\ MaxFailures \in Nat \ {0} /\ (player.playing => ~player.reported)
  BY BoundsAssumption DEF IInv, Sound, Whole, Ready, PlayerType

LEMMA PlayTracksKeeps == IInv /\ PlayTracks => IInv'
<1> SUFFICES ASSUME IInv, NEW rows \in Lists, NEW start \in DOMAIN rows,
                    StartQueue(rows, start, TRUE)
             PROVE  IInv'
  BY DEF PlayTracks
<1>1. rows \in Seq(AllKinds)
  BY ListsAssumption
<1> QED
  BY <1>1, StartQueueKeeps

\* Another list of rows, the current one among them.
LEMMA RowsEdited ==
    ASSUME IInv, NEW rows \in Seq(AllKinds), player.current <= Len(rows),
           Edited([player EXCEPT !.rows = rows])
    PROVE  IInv'
<1> DEFINE p == [player EXCEPT !.rows = rows]
<1>1. player \in PlayerType /\ Sound(player) /\ Len(rows) \in Nat /\ player.current \in 0 .. Len(rows)
  BY IsSound
<1>2. Sound(p) /\ p.failures = player.failures
  BY <1>1 DEF Sound, Whole, Ready, PlayerType
<1>3. Quiet(player) => Quiet(p)
  BY <1>1 DEF Quiet, PlayerType
<1> QED
  BY <1>2, <1>3, EditedKeeps

LEMMA AddToQueueKeeps == IInv /\ AddToQueue => IInv'
<1> SUFFICES ASSUME IInv, NEW kind \in Kinds \ {"blank"},
                    IF player.rows = <<>>
                    THEN StartQueue(<<kind>>, 1, FALSE)
                    ELSE \E at \in (player.current + 1) .. (Len(player.rows) + 1) :
                            Edited([player EXCEPT !.rows = Queued(@, kind, at)])
             PROVE  IInv'
  BY DEF AddToQueue
<1>1. kind \in AllKinds
  BY KindsAssumption
<1>2. CASE player.rows = <<>>
  <2>1. <<kind>> \in Seq(AllKinds) /\ 1 \in DOMAIN <<kind>>
    BY <1>1
  <2> QED
    BY <1>2, <2>1, StartQueueKeeps
<1>3. CASE player.rows # <<>>
  <2>1. PICK at \in (player.current + 1) .. (Len(player.rows) + 1) :
            Edited([player EXCEPT !.rows = Queued(player.rows, kind, at)])
    BY <1>3
  <2> DEFINE rows == Queued(player.rows, kind, at)
  <2>2. at \in 1 .. Len(player.rows) + 1
    BY IsSound
  <2>3. rows \in Seq(AllKinds) /\ Len(rows) = Len(player.rows) + 1
    BY <1>1, <2>2, IsSound, QueuedIs
  <2> HIDE DEF rows
  <2>4. player.current <= Len(rows)
    BY <2>3, IsSound
  <2>5. Edited([player EXCEPT !.rows = rows])
    BY <2>1 DEF rows
  <2> QED
    BY <2>3, <2>4, <2>5, RowsEdited
<1> QED
  BY <1>2, <1>3

LEMMA RemoveFromQueueKeeps == IInv /\ RemoveFromQueue => IInv'
<1> SUFFICES ASSUME IInv, NEW n \in (player.current + 1) .. Len(player.rows),
                    Edited([player EXCEPT !.rows =
                        SubSeq(player.rows, 1, n - 1) \o SubSeq(player.rows, n + 1, Len(player.rows))])
             PROVE  IInv'
  BY DEF RemoveFromQueue
<1> DEFINE before == SubSeq(player.rows, 1, n - 1)
           after == SubSeq(player.rows, n + 1, Len(player.rows))
           rows == before \o after
<1>1. /\ 1 \in 1 .. Len(player.rows) + 1 /\ n - 1 \in 0 .. Len(player.rows)
      /\ n + 1 \in 1 .. Len(player.rows) + 1 /\ Len(player.rows) \in 0 .. Len(player.rows)
      /\ player.current <= n - 1
  BY IsSound
<1>2. /\ before \in Seq(AllKinds) /\ Len(before) = n - 1
      /\ after \in Seq(AllKinds) /\ Len(after) = Len(player.rows) - n
  <2>1. before \in Seq(AllKinds) /\ Len(before) = (n - 1) - 1 + 1
    BY <1>1, IsSound, SubSeqIs
  <2>2. after \in Seq(AllKinds) /\ Len(after) = Len(player.rows) - (n + 1) + 1
    BY <1>1, IsSound, SubSeqIs
  <2> HIDE DEF before, after
  <2> QED
    BY <2>1, <2>2, IsSound
<1> HIDE DEF before, after
<1>3. rows \in Seq(AllKinds) /\ Len(rows) = Len(before) + Len(after)
  BY <1>2, ConcatProperties
<1>4. Edited([player EXCEPT !.rows = rows])
  BY DEF before, after
<1> HIDE DEF rows
<1>5. /\ Len(player.rows) \in Nat /\ player.current \in Nat
      /\ n \in Nat /\ n <= Len(player.rows)
  BY IsSound
<1>6. player.current <= Len(rows)
  BY <1>1, <1>2, <1>3, <1>5
<1> QED
  BY <1>3, <1>4, <1>6, RowsEdited

LEMMA ClearUpcomingKeeps == IInv /\ ClearUpcoming => IInv'
<1> SUFFICES ASSUME IInv,
                    Edited([player EXCEPT !.rows = SubSeq(player.rows, 1, player.current),
                                          !.fetching = FALSE, !.waiting = FALSE])
             PROVE  IInv'
  BY DEF ClearUpcoming
<1> DEFINE rows == SubSeq(player.rows, 1, player.current)
           p == [player EXCEPT !.rows = rows, !.fetching = FALSE, !.waiting = FALSE]
<1>1. 1 \in 1 .. Len(player.rows) + 1 /\ 1 <= player.current + 1
  BY IsSound
<1>2. rows \in Seq(AllKinds) /\ Len(rows) = player.current - 1 + 1
  BY <1>1, IsSound, SubSeqIs
<1> HIDE DEF rows
<1>3. player.current \in 0 .. Len(rows)
  BY <1>2, IsSound
<1>4. player \in PlayerType /\ Sound(player)
  BY IsSound
<1>5. Sound(p) /\ p.failures = player.failures
  BY <1>2, <1>3, <1>4 DEF Sound, Whole, Ready, PlayerType
<1>6. Quiet(player) => Quiet(p)
  BY <1>4 DEF Quiet, PlayerType
<1>7. Edited(p)
  BY DEF rows
<1> QED
  BY <1>5, <1>6, <1>7, EditedKeeps

LEMMA BegunKeeps ==
    ASSUME IInv, NEW p, Whole(p), p.playing => ~p.reported,
           NEW n \in DOMAIN p.rows, NEW auto \in BOOLEAN, Pressed(Begun(p, n, auto))
    PROVE  IInv'
<1>1. Ready(p)
  BY DEF Whole
<1>2. Sound(Begun(p, n, auto))
  BY <1>1, BegunIs, BeginsSound
<1> QED
  BY <1>2, PressedKeeps

LEMMA PlayIndexKeeps == IInv /\ PlayIndex => IInv'
  BY IsSound, BegunKeeps DEF PlayIndex

LEMMA PlayKeeps == IInv /\ Play => IInv'
<1> SUFFICES ASSUME IInv, Play PROVE IInv'
  OBVIOUS
<1> DEFINE again == [player EXCEPT !.failures = 0]
           on == [player EXCEPT !.wants = TRUE, !.paused = FALSE]
<1>1. player \in PlayerType /\ Sound(player) /\ Whole(player) /\ player.current \in DOMAIN player.rows
  BY IsSound DEF Play
<1>2. CASE player.error
  <2>1. Whole(again) /\ (again.playing => ~again.reported) /\ player.current \in DOMAIN again.rows
    BY <1>1, BoundsAssumption DEF Sound, Whole, Ready, PlayerType
  <2>2. Pressed(Begun(again, player.current, TRUE))
    BY <1>2 DEF Play
  <2> HIDE DEF again
  <2> QED
    BY <2>1, <2>2, BegunKeeps
<1>3. CASE ~player.error
  <2>1. Sound(on)
    BY <1>1 DEF Sound, Whole, Ready, PlayerType
  <2>2. Pressed(on)
    BY <1>3 DEF Play
  <2> HIDE DEF on
  <2> QED
    BY <2>1, <2>2, PressedKeeps
<1> QED
  BY <1>2, <1>3

LEMMA PauseKeeps == IInv /\ Pause => IInv'
<1> SUFFICES ASSUME IInv, Edited(Hushed(player)) PROVE IInv'
  BY DEF Pause
<1>1. Rests(player, Hushed(player)) /\ Sound(Hushed(player))
  BY IsSound, HushedIs, RestsSound
<1>2. Quiet(player) => Quiet(Hushed(player))
  BY <1>1, IsSound, HushedIs DEF Quiet, Rests
<1> QED
  BY <1>1, <1>2, EditedKeeps DEF Rests

LEMMA SkipForwardKeeps == IInv /\ SkipForward => IInv'
<1> SUFFICES ASSUME IInv, Pressed(Advanced(player, Keeps(player))) PROVE IInv'
  BY DEF SkipForward
<1>1. Keeps(player) \in BOOLEAN
  BY IsSound DEF Keeps, PlayerType
<1> QED
  BY <1>1, IsSound, AdvancedSound, PressedKeeps

LEMMA PreviousKeeps == IInv /\ Previous => IInv'
<1> SUFFICES ASSUME IInv, player.current > 1,
                    Pressed(Begun(player, player.current - 1, Keeps(player)))
             PROVE  IInv'
  BY DEF Previous
<1>1. Keeps(player) \in BOOLEAN
  BY IsSound DEF Keeps, PlayerType
<1>2. player.current - 1 \in DOMAIN player.rows
  BY IsSound
<1> QED
  BY <1>1, <1>2, IsSound, BegunKeeps

LEMMA SetAutoplayKeeps == IInv /\ SetAutoplay => IInv'
<1> SUFFICES ASSUME IInv, SetAutoplay PROVE IInv'
  OBVIOUS
<1> DEFINE p(autoplay, fetching) == [player EXCEPT !.autoplay = autoplay, !.fetching = fetching]
<1>1. player \in PlayerType /\ Sound(player)
  BY IsSound
<1>2. (~player.autoplay) \in BOOLEAN /\ (player.fetching /\ ~player.autoplay) \in BOOLEAN
  OBVIOUS
<1>3. Edited(p(~player.autoplay, player.fetching /\ ~player.autoplay))
  BY Zenon DEF SetAutoplay
<1>4. PICK autoplay \in BOOLEAN, fetching \in BOOLEAN : Edited(p(autoplay, fetching))
  BY <1>2, <1>3, Zenon
<1>5. /\ Sound(p(autoplay, fetching)) /\ p(autoplay, fetching).failures = player.failures
      /\ Quiet(player) => Quiet(p(autoplay, fetching))
  BY <1>1 DEF Sound, Whole, Ready, PlayerType, Quiet
<1> HIDE DEF p
<1> QED
  BY <1>4, <1>5, EditedKeeps

LEMMA CycleRepeatKeeps == IInv /\ CycleRepeat => IInv'
<1> SUFFICES ASSUME IInv, CycleRepeat PROVE IInv'
  OBVIOUS
<1> DEFINE p(repeat) == [player EXCEPT !.repeat = repeat]
<1>1. PICK repeat \in Repeats : Edited(p(repeat))
  BY DEF CycleRepeat, Repeats
<1>2. player \in PlayerType /\ Sound(player)
  BY IsSound
<1>3. /\ Sound(p(repeat)) /\ p(repeat).failures = player.failures
      /\ Quiet(player) => Quiet(p(repeat))
  BY <1>2 DEF Sound, Whole, Ready, PlayerType, Quiet
<1> HIDE DEF p
<1> QED
  BY <1>1, <1>3, EditedKeeps

LEMMA SetStopAfterCurrentKeeps == IInv /\ SetStopAfterCurrent => IInv'
<1> SUFFICES ASSUME IInv, Edited([player EXCEPT !.stopAfter = ~player.stopAfter]) PROVE IInv'
  BY DEF SetStopAfterCurrent
<1> DEFINE p == [player EXCEPT !.stopAfter = ~player.stopAfter]
<1>1. player \in PlayerType /\ Sound(player)
  BY IsSound
<1>2. Sound(p) /\ p.failures = player.failures /\ (Quiet(player) => Quiet(p))
  BY <1>1 DEF Sound, Whole, Ready, PlayerType, Quiet
<1> HIDE DEF p
<1>3. Edited(p)
  BY DEF p
<1> QED
  BY <1>2, <1>3, EditedKeeps

\* A song gone on from by itself has failed first, and is one failure more.
LEMMA HappenedKeeps ==
    ASSUME IInv, NEW p, Sound(p), Quiet(player) => Quiet(p),
           p.failures >= player.failures,
           p.current # player.current =>
              p.failures = player.failures + 1 /\ p.failures < MaxFailures,
           Happened(p)
    PROVE  IInv'
<1>1. /\ player' = p /\ asleep' = asleep
      /\ skips' = IF p.current # player.current THEN skips + 1 ELSE skips
  BY DEF Happened
<1>2. p.failures \in Nat /\ player.failures \in Nat /\ MaxFailures \in Nat
  BY IsSound DEF Sound, Whole, Ready, PlayerType
<1>3. skips' \in Nat /\ skips' <= p.failures /\ skips' < MaxFailures
  BY <1>1, <1>2 DEF IInv
<1>4. Sound(player)' /\ (asleep' = "stopped" => Quiet(player)') /\ asleep' \in Sleeps
  BY <1>1, Zenon DEF IInv
<1> QED
  BY <1>1, <1>3, <1>4 DEF IInv

LEMMA HandleResolvedKeeps == IInv /\ HandleResolved => IInv'
<1> SUFFICES ASSUME IInv, HandleResolved PROVE IInv'
  OBVIOUS
<1> DEFINE b == [player EXCEPT !.pending = FALSE]
           p == Status(LoadFile(b, player.wants), FALSE, FALSE)
<1>1. player \in PlayerType /\ Sound(player) /\ player.pending /\ player.wants \in BOOLEAN
  BY IsSound DEF HandleResolved, PlayerType
<1>2. /\ b \in PlayerType /\ b.rows = player.rows /\ b.failures = player.failures
      /\ b.current = player.current /\ b.playing = player.playing
      /\ b.reported = player.reported /\ b.waiting = player.waiting
      /\ b.wants = player.wants /\ ~b.pending
  BY <1>1 DEF PlayerType
<1>3. /\ Sound(p) /\ p.failures = player.failures
      /\ Quiet(player) => Quiet(p)
  <2> HIDE DEF b
  <2>1. /\ p \in PlayerType
        /\ p.rows = b.rows /\ p.failures = b.failures /\ p.playing = b.playing
        /\ p.reported = b.reported /\ p.waiting = b.waiting /\ p.current = b.current
        /\ p.wants = b.wants /\ p.file = "opening" /\ p.paused = ~player.wants
        /\ p.pending = b.pending /\ ~p.error
    BY <1>1, <1>2, LoadedIs
  <2> HIDE DEF p
  <2>2. Sound(p)
    BY <1>1, <1>2, <2>1 DEF Sound, Whole, Ready
  <2> QED
    BY <1>2, <2>1, <2>2 DEF Quiet
<1>4. player' = p /\ skips' = skips /\ asleep' = asleep
  BY DEF HandleResolved
<1> HIDE DEF p
<1>5. Edited(p)
  BY <1>4 DEF Edited
<1> QED
  BY <1>3, <1>5, EditedKeeps

LEMMA HandleResolveFailedKeeps == IInv /\ HandleResolveFailed => IInv'
<1> SUFFICES ASSUME IInv, HandleResolveFailed PROVE IInv'
  OBVIOUS
<1> DEFINE p == [player EXCEPT !.pending = FALSE]
<1>1. player \in PlayerType /\ Sound(player) /\ player.pending
  BY IsSound DEF HandleResolveFailed
<1>2. /\ Sound(p) /\ p.file = "none" /\ p.failures = player.failures
      /\ p.current = player.current
  BY <1>1 DEF Sound, Whole, Ready, PlayerType
<1>3. Quiet(player) => Quiet(p)
  BY <1>1 DEF Quiet, PlayerType
<1>4. Happened(Failed(p))
  BY DEF HandleResolveFailed
<1> HIDE DEF p
<1> QED
  BY <1>2, <1>3, <1>4, FailedIs, HappenedKeeps

LEMMA LoadFailedKeeps == IInv /\ LoadFailed => IInv'
<1> SUFFICES ASSUME IInv, LoadFailed PROVE IInv'
  OBVIOUS
<1> DEFINE p == [player EXCEPT !.file = "none"]
<1>1. player \in PlayerType /\ Sound(player) /\ player.file # "none" /\ player.current # 0
  BY IsSound DEF LoadFailed, Sound
<1>2. /\ Sound(p) /\ p.file = "none" /\ p.failures = player.failures
      /\ p.current = player.current
  BY <1>1 DEF Sound, Whole, Ready, PlayerType
<1>3. Quiet(player) => Quiet(p)
  BY <1>1 DEF Quiet, PlayerType
<1>4. Happened(Rescued(player)) \/ Happened(Failed(p))
  BY DEF LoadFailed
<1> HIDE DEF p
<1>5. CASE Happened(Rescued(player))
  <2>1. /\ Sound(Rescued(player)) /\ Rescued(player).current = player.current
        /\ Rescued(player).failures = player.failures
        /\ Quiet(player) => Quiet(Rescued(player))
    BY <1>1, RescuedIs
  <2> QED
    BY <1>5, <2>1, IsSound, HappenedKeeps
<1>6. CASE Happened(Failed(p))
  BY <1>2, <1>3, <1>6, FailedIs, HappenedKeeps
<1> QED
  BY <1>4, <1>5, <1>6

LEMMA HandleAudioStartedKeeps == IInv /\ HandleAudioStarted => IInv'
<1> SUFFICES ASSUME IInv, HandleAudioStarted PROVE IInv'
  OBVIOUS
<1> DEFINE p == [player EXCEPT !.file = "sounding", !.failures = 0]
<1>1. /\ player \in PlayerType /\ Sound(player) /\ player.file = "opening" /\ ~player.paused
      /\ MaxFailures \in Nat \ {0}
  BY IsSound DEF HandleAudioStarted
<1>2. player' = p /\ skips' = 0 /\ asleep' = asleep /\ p.failures = 0
  BY <1>1 DEF HandleAudioStarted, PlayerType
<1>3. Sound(p)
  <2>1. /\ player.current \in 0 .. Len(player.rows) /\ player.current # 0
        /\ ~player.pending /\ ~player.error /\ (player.playing => ~player.reported)
    BY <1>1 DEF Sound, Whole
  <2>2. p \in PlayerType
    BY <1>1 DEF PlayerType
  <2>3. /\ p.rows = player.rows /\ p.current = player.current /\ p.file = "sounding"
        /\ p.pending = player.pending /\ p.error = player.error
        /\ p.playing = player.playing /\ p.reported = player.reported
    BY <1>1 DEF PlayerType
  <2> HIDE DEF p
  <2> QED
    BY <1>1, <1>2, <2>1, <2>2, <2>3 DEF Sound, Whole, Ready
<1>4. asleep # "stopped"
  BY <1>1 DEF IInv, Quiet
<1> HIDE DEF p
<1>5. Sound(player)' /\ asleep' # "stopped" /\ asleep' \in Sleeps
  BY <1>2, <1>3, <1>4, Zenon DEF IInv
<1> QED
  BY <1>1, <1>2, <1>5 DEF IInv

LEMMA RunsOutKeeps == IInv /\ RunsOut => IInv'
<1> SUFFICES ASSUME IInv, RunsOut PROVE IInv'
  OBVIOUS
<1> DEFINE p == [player EXCEPT !.file = "ended"]
<1>1. player \in PlayerType /\ Sound(player) /\ player.file = "sounding"
  BY IsSound DEF RunsOut
<1>2. player' = p /\ skips' = skips /\ asleep' = asleep
  BY DEF RunsOut
<1>3. Sound(p) /\ p.failures = player.failures
  BY <1>1 DEF Sound, Whole, Ready, PlayerType
<1>4. ~Quiet(player)
  BY <1>1 DEF Quiet
<1> HIDE DEF p
<1>5. Edited(p)
  BY <1>2 DEF Edited
<1> QED
  BY <1>3, <1>4, <1>5, EditedKeeps

LEMMA PauseReportedKeeps == IInv /\ PauseReported => IInv'
<1> SUFFICES ASSUME IInv, PauseReported PROVE IInv'
  OBVIOUS
<1> DEFINE p(flag) == [player EXCEPT !.reported = player.paused, !.playing = flag]
<1>1. player \in PlayerType /\ Sound(player) /\ (~player.paused) \in BOOLEAN
  BY IsSound
<1>2. PICK flag \in BOOLEAN :
            (flag <=> ~player.paused) /\ player' = p(flag) /\ UNCHANGED <<skips, asleep>>
  <2>1. player' = p(~player.paused) /\ UNCHANGED <<skips, asleep>>
    BY Zenon DEF PauseReported
  <2> HIDE DEF p
  <2> QED
    BY <1>1, <2>1, Zenon
<1>3. Sound(p(flag)) /\ p(flag).failures = player.failures
  BY <1>1, <1>2 DEF Sound, Whole, Ready, PlayerType
<1>4. Quiet(player) => Quiet(p(flag))
  BY <1>1 DEF Quiet, PlayerType
<1> HIDE DEF p
<1>5. Edited(p(flag))
  BY <1>2 DEF Edited
<1> QED
  BY <1>3, <1>4, <1>5, EditedKeeps

\* After a song the timer stops at, what comes next is made ready and waits.
LEMMA StoppedAfterIs ==
    ASSUME NEW p, Sound(p), p.current # 0, p.file = "none"
    PROVE  Sound(StoppedAfter(p)) /\ Quiet(StoppedAfter(p))
<1>1. /\ Whole(p) /\ Ready(p) /\ (p.playing => ~p.reported) /\ p.rows \in Seq(AllKinds)
      /\ DOMAIN p.rows = 1 .. Len(p.rows) /\ Len(p.rows) \in Nat /\ p.current \in 1 .. Len(p.rows)
  BY DEF Sound, Whole, Ready, PlayerType
<1>2. ASSUME NEW n \in DOMAIN p.rows, NEW q, Begins(p, q, n, FALSE)
      PROVE  Sound(q) /\ Quiet(q)
  <2>1. Sound(q)
    BY <1>1, <1>2, BeginsSound
  <2>2. Quiet(q)
    BY <1>2 DEF Begins, Quiet
  <2> QED
    BY <2>1, <2>2
<1>3. CASE p.repeat = "one"
  <2>1. StoppedAfter(p) = Begun(p, p.current, FALSE)
    BY <1>3, Zenon DEF StoppedAfter
  <2> QED
    BY <1>1, <1>2, <2>1, BegunIs
<1>4. CASE p.repeat # "one" /\ (UpcomingCount(p) > 0 \/ p.repeat = "all")
  <2>1. StoppedAfter(p) = Advanced(p, FALSE)
    BY <1>4, Zenon DEF StoppedAfter
  <2>2. p.rows # <<>> /\ (p.current < Len(p.rows) \/ p.repeat = "all")
    BY <1>1, <1>4 DEF UpcomingCount
  <2>3. PICK n \in DOMAIN p.rows : Begins(p, Advanced(p, FALSE), n, FALSE)
    BY <1>1, <2>2, AdvancedIs DEF Follows
  <2> QED
    BY <1>2, <2>1, <2>3
<1>5. CASE p.repeat # "one" /\ ~(UpcomingCount(p) > 0 \/ p.repeat = "all")
  <2>1. StoppedAfter(p) = Hushed(p)
    BY <1>5, Zenon DEF StoppedAfter
  <2>2. Rests(p, Hushed(p)) /\ ~Hushed(p).wants /\ Hushed(p).paused
    BY <1>1, HushedIs
  <2>3. Sound(Hushed(p))
    BY <2>2, RestsSound
  <2>4. Quiet(Hushed(p))
    BY <2>2 DEF Rests, Quiet
  <2> QED
    BY <2>1, <2>3, <2>4
<1> QED
  BY <1>3, <1>4, <1>5

\* A song heard to its end gives the skips back.
LEMMA HeardKeeps ==
    ASSUME NEW p, Sound(p), player' = p, skips' = 0,
           asleep' \in Sleeps, asleep' = "stopped" => Quiet(p)
    PROVE  IInv'
<1>1. Sound(player)' /\ (asleep' = "stopped" => Quiet(player)')
  BY Zenon
<1>2. skips' \in Nat /\ skips' <= player'.failures /\ skips' < MaxFailures
  BY BoundsAssumption DEF Sound, Whole, Ready, PlayerType
<1> QED
  BY <1>1, <1>2, Zenon DEF IInv

LEMMA HandleEndOfFileKeeps == IInv /\ HandleEndOfFile => IInv'
<1> SUFFICES ASSUME IInv, HandleEndOfFile PROVE IInv'
  OBVIOUS
<1> DEFINE over == [player EXCEPT !.file = "none"]
           last == [over EXCEPT !.stopAfter = FALSE]
           again == [Rescued(player) EXCEPT !.wants = TRUE]
<1>1. /\ player \in PlayerType /\ Sound(player) /\ player.file = "ended" /\ player.current # 0
      /\ skips' = 0
  BY IsSound DEF HandleEndOfFile, Sound
<1>2. asleep # "stopped" /\ asleep \in Sleeps
  BY <1>1 DEF IInv, Quiet
<1>3. /\ Sound(over) /\ Whole(over) /\ over.file = "none" /\ over.current = player.current
      /\ over.rows = player.rows /\ over \in PlayerType /\ (over.playing => ~over.reported)
  BY <1>1 DEF Sound, Whole, Ready, PlayerType
<1>4. \/ player' = again /\ asleep' = asleep
      \/ player' = StoppedAfter(last) /\ asleep' = "stopped"
      \/ player' = Begun(over, player.current, TRUE) /\ asleep' = asleep
      \/ player' = Advanced(over, Keeps(over)) /\ asleep' = asleep
  BY Zenon DEF HandleEndOfFile
<1> HIDE DEF over
<1>5. CASE player' = again /\ asleep' = asleep
  <2>1. Sound(Rescued(player))
    BY <1>1, RescuedIs
  <2>2. Sound(again)
    BY <2>1 DEF Sound, Whole, Ready, PlayerType
  <2> HIDE DEF again
  <2> QED
    BY <1>1, <1>2, <1>5, <2>2, HeardKeeps
<1>6. CASE player' = StoppedAfter(last) /\ asleep' = "stopped"
  <2>1. Sound(last) /\ last.current # 0 /\ last.file = "none"
    BY <1>1, <1>3 DEF Sound, Whole, Ready, PlayerType
  <2> HIDE DEF last
  <2>2. Sound(StoppedAfter(last)) /\ Quiet(StoppedAfter(last))
    BY <2>1, StoppedAfterIs
  <2>3. asleep' \in Sleeps
    BY <1>6 DEF Sleeps
  <2> QED
    BY <1>1, <1>6, <2>2, <2>3, HeardKeeps
<1>7. CASE player' = Begun(over, player.current, TRUE) /\ asleep' = asleep
  <2>1. Ready(over) /\ player.current \in DOMAIN over.rows
    BY <1>1, <1>3, IsSound DEF Whole
  <2>2. Sound(Begun(over, player.current, TRUE))
    BY <1>3, <2>1, BegunIs, BeginsSound
  <2> QED
    BY <1>1, <1>2, <1>7, <2>2, HeardKeeps
<1>8. CASE player' = Advanced(over, Keeps(over)) /\ asleep' = asleep
  <2>1. Keeps(over) \in BOOLEAN
    BY <1>3 DEF Keeps, PlayerType
  <2>2. Sound(Advanced(over, Keeps(over)))
    BY <1>3, <2>1, AdvancedSound
  <2> QED
    BY <1>1, <1>2, <1>8, <2>2, HeardKeeps
<1> QED
  BY <1>4, <1>5, <1>6, <1>7, <1>8

LEMMA NothingFollowsIs ==
    ASSUME NEW p, Sound(p)
    PROVE  /\ Sound(NothingFollows(p)) /\ NothingFollows(p).failures = p.failures
           /\ Quiet(p) => Quiet(NothingFollows(p))
  BY DEF NothingFollows, Status, Halted, Sound, Whole, Ready, PlayerType, Quiet

\* A radio's answer that starts no song.
LEMMA AnsweredKeeps ==
    ASSUME IInv, NEW p, Sound(p), p.failures = player.failures, Quiet(player) => Quiet(p),
           player' = p, UNCHANGED <<skips, asleep>>
    PROVE  IInv'
  BY EditedKeeps DEF Edited

LEMMA RadioReadyKeeps == IInv /\ RadioReady => IInv'
<1> SUFFICES ASSUME IInv, RadioReady PROVE IInv'
  OBVIOUS
<1> DEFINE more(found) == player.rows \o [n \in 1 .. found |-> "streamed"]
           heard(rows) == [player EXCEPT !.fetching = FALSE, !.rows = rows]
           next(rows) == Begun([heard(rows) EXCEPT !.waiting = FALSE], heard(rows).current + 1, TRUE)
<1>1. player \in PlayerType /\ Sound(player)
  BY IsSound
<1>2. PICK found \in 0 .. RadioBatch :
        \/ ~player.waiting /\ player' = heard(more(found)) /\ asleep' = asleep
        \/ /\ player.waiting /\ UpcomingCount(heard(more(found))) > 0
           /\ player' = next(more(found))
           /\ asleep' = IF asleep = "stopped" THEN "woken" ELSE asleep
        \/ player' = NothingFollows(heard(more(found))) /\ asleep' = asleep
  BY Zenon DEF RadioReady
<1>3. skips' = skips
  BY DEF RadioReady
<1> DEFINE rows == more(found)
           h == heard(rows)
           b == [h EXCEPT !.waiting = FALSE]
<1>4. rows \in Seq(AllKinds) /\ player.current <= Len(rows)
  <2> DEFINE found_ == [n \in 1 .. found |-> "streamed"]
  <2>1. found_ \in Seq(AllKinds) /\ Len(found_) = found
    <3>1. found \in Nat
      BY BoundsAssumption
    <3> QED
      BY <3>1 DEF AllKinds
  <2> HIDE DEF found_
  <2>2. /\ player.rows \o found_ \in Seq(AllKinds)
        /\ Len(player.rows \o found_) = Len(player.rows) + Len(found_)
    BY <2>1, IsSound, ConcatProperties
  <2>3. Len(player.rows) + Len(found_) >= player.current
    BY <2>1, IsSound, BoundsAssumption
  <2> QED
    BY <2>2, <2>3 DEF found_
<1> HIDE DEF rows, more
<1>5. /\ Sound(h) /\ Whole(h) /\ h.failures = player.failures /\ h.waiting = player.waiting
      /\ h.current = player.current /\ h.rows = rows
  <2>1. player.current \in 0 .. Len(rows)
    BY <1>4, IsSound
  <2> QED
    BY <1>1, <1>4, <2>1 DEF Sound, Whole, Ready, PlayerType
<1>6. Quiet(player) => Quiet(h)
  BY <1>1 DEF Quiet, PlayerType
<1> HIDE DEF heard
<1>7. \/ ~player.waiting /\ player' = h /\ asleep' = asleep
      \/ /\ player.waiting /\ UpcomingCount(h) > 0
         /\ player' = Begun(b, h.current + 1, TRUE)
         /\ asleep' = IF asleep = "stopped" THEN "woken" ELSE asleep
      \/ player' = NothingFollows(h) /\ asleep' = asleep
  BY <1>2 DEF rows
<1> HIDE DEF h
<1>8. CASE player' = h /\ asleep' = asleep
  BY <1>3, <1>5, <1>6, <1>8, AnsweredKeeps
<1>9. CASE /\ UpcomingCount(h) > 0
           /\ player' = Begun(b, h.current + 1, TRUE)
           /\ asleep' = IF asleep = "stopped" THEN "woken" ELSE asleep
  <2>2. /\ Ready(b) /\ b.rows = rows /\ (b.playing => ~b.reported) /\ b.failures = player.failures
    BY <1>5 DEF Sound, Whole, Ready, PlayerType
  <2> HIDE DEF b
  <2>3. h.current + 1 \in DOMAIN b.rows
    BY <1>4, <1>5, <1>9, <2>2, IsSound DEF UpcomingCount
  <2>4. Begins(b, Begun(b, h.current + 1, TRUE), h.current + 1, TRUE)
    BY <2>2, <2>3, BegunIs
  <2>5. Sound(Begun(b, h.current + 1, TRUE))
    BY <2>2, <2>3, <2>4, BeginsSound
  <2>6. Begun(b, h.current + 1, TRUE).failures = player.failures
    BY <2>2, <2>4 DEF Begins, Alike
  <2>7. asleep' \in Sleeps /\ asleep' # "stopped"
    BY <1>9 DEF IInv, Sleeps
  <2>8. Sound(player)' /\ player'.failures = player.failures
    BY <1>9, <2>5, <2>6, Zenon
  <2> QED
    BY <1>3, <2>7, <2>8 DEF IInv
<1>10. CASE player' = NothingFollows(h) /\ asleep' = asleep
  <2>1. /\ Sound(NothingFollows(h)) /\ NothingFollows(h).failures = player.failures
        /\ Quiet(player) => Quiet(NothingFollows(h))
    BY <1>5, <1>6, NothingFollowsIs
  <2> QED
    BY <1>3, <1>10, <2>1, AnsweredKeeps
<1> QED
  BY <1>7, <1>8, <1>9, <1>10

LEMMA RadioFailedKeeps == IInv /\ RadioFailed => IInv'
<1> SUFFICES ASSUME IInv, RadioFailed PROVE IInv'
  OBVIOUS
<1> DEFINE h == [player EXCEPT !.fetching = FALSE]
<1>1. player \in PlayerType /\ Sound(player)
  BY IsSound
<1>2. Sound(h) /\ h.failures = player.failures /\ (Quiet(player) => Quiet(h))
  BY <1>1 DEF Sound, Whole, Ready, PlayerType, Quiet
<1>3. /\ player' = IF player.waiting THEN NothingFollows(h) ELSE h
      /\ skips' = skips /\ asleep' = asleep
  BY DEF RadioFailed
<1> HIDE DEF h
<1>4. CASE player.waiting
  <2>1. /\ Sound(NothingFollows(h)) /\ NothingFollows(h).failures = player.failures
        /\ Quiet(player) => Quiet(NothingFollows(h))
    BY <1>2, NothingFollowsIs
  <2> QED
    BY <1>3, <1>4, <2>1, AnsweredKeeps
<1>5. CASE ~player.waiting
  BY <1>2, <1>3, <1>5, AnsweredKeeps
<1> QED
  BY <1>4, <1>5

(***************************************************************************)
(* The theorems.                                                           *)
(***************************************************************************)

LEMMA InitStep == Init => IInv
<1> SUFFICES ASSUME Init PROVE IInv
  OBVIOUS
<1>1. player.rows = <<>> /\ player.rows \in Seq(AllKinds) /\ Len(player.rows) = 0
  BY DEF Init
<1>2. MaxFailures \in Nat \ {0}
  BY BoundsAssumption
<1>3. player \in PlayerType
  BY <1>1 DEF Init, PlayerType, Repeats
<1>4. /\ player.current = 0 /\ player.failures = 0 /\ player.file = "none"
      /\ ~player.pending /\ ~player.error /\ ~player.playing /\ skips = 0 /\ asleep = "no"
  BY DEF Init
<1>5. Sound(player)
  BY <1>1, <1>2, <1>3, <1>4 DEF Sound, Whole, Ready
<1>6. skips \in Nat /\ skips <= player.failures /\ skips < MaxFailures
  BY <1>2, <1>4
<1>7. asleep \in Sleeps /\ asleep # "stopped"
  BY <1>4 DEF Sleeps
<1> QED
  BY <1>5, <1>6, <1>7, Zenon DEF IInv

LEMMA NextStep == IInv /\ [Next]_vars => IInv'
<1> SUFFICES ASSUME IInv, [Next]_vars PROVE IInv'
  OBVIOUS
<1>1. CASE Presses
  BY <1>1, PlayTracksKeeps, AddToQueueKeeps, RemoveFromQueueKeeps, ClearUpcomingKeeps,
     PlayIndexKeeps, PlayKeeps, PauseKeeps, SkipForwardKeeps, PreviousKeeps,
     SetAutoplayKeeps, CycleRepeatKeeps, SetStopAfterCurrentKeeps DEF Presses
<1>2. CASE World
  BY <1>2, HandleResolvedKeeps, HandleResolveFailedKeeps, LoadFailedKeeps, HandleAudioStartedKeeps,
     RunsOutKeeps, HandleEndOfFileKeeps, PauseReportedKeeps, RadioReadyKeeps, RadioFailedKeeps
     DEF World
<1>3. CASE UNCHANGED vars
  BY <1>3, Zenon DEF vars, IInv
<1> QED
  BY <1>1, <1>2, <1>3 DEF Next

\* Whatever the listener presses and whatever answers, however late, the player
\* is sound, a stop by the sleep timer leaves nothing wanted until the listener
\* asks or the radio's answer wakes it, and no more songs were skipped than failed.
THEOREM PlayerStaysSound == Spec => []IInv
<1>1. Init => IInv
  BY InitStep
<1>2. IInv /\ [Next]_vars => IInv'
  BY NextStep
<1> QED
  BY <1>1, <1>2, PTL DEF Spec

\* The controller's members and mpv's keep their kinds, and the current row is a
\* row of the queue (playbackcontroller.h's members).
THEOREM PlayerTypes == Spec => []TypeOK
<1>1. IInv => TypeOK
  BY IsSound DEF IInv, TypeOK
<1> QED
  BY <1>1, PlayerStaysSound, PTL

\* No song left behind sounds while the next is looked for or has failed
\* (beginTrack), the bar never says playing after mpv told of a pause
\* (pausedChanged), and nothing sounds after the sleep timer's stop until the
\* listener asks (handleEndOfFile), or the radio answers a queue still taken to wait
\* for it (m_waitingForRadio, the one way out, and StopIsKept's finding): for any
\* queue, any radio and any order of the answers.
THEOREM OnlyWhatIsAskedSounds == Spec => []SoundsAsAsked
<1>1. IInv => NothingElseSounds /\ FlagYieldsToPause
  BY DEF IInv, Sound, NothingElseSounds, FlagYieldsToPause
<1>2. IInv => AsleepStaysAsleep
  BY DEF IInv, Quiet, AsleepStaysAsleep
<1>3. IInv => SoundsAsAsked
  BY <1>1, <1>2 DEF SoundsAsAsked
<1> QED
  BY <1>3, PlayerStaysSound, PTL

\* The queue is never walked past MaxFailures songs by itself, however long it is
\* and however its links fail: by failTrack, for only a sound or the listener sets
\* m_consecutiveFailures back.
THEOREM TheWalkStops == Spec => []WalkStops
<1>1. IInv => WalkStops
  BY DEF IInv, WalkStops
<1> QED
  BY <1>1, PlayerStaysSound, PTL

(***************************************************************************)
(* Part 2.  MpvEngine                                                      *)
(***************************************************************************)

Live == Promise!Live
Over == Promise!Over
Words == {"nothing"} \cup Live \cup Over
Whys == {"", "stop", "eof", "link", "nothing"}

\* What is told of a file, and not in answer to its load.
Own(ev) == ev.kind # "reply"

(***************************************************************************)
(* The types.                                                              *)
(***************************************************************************)

Loads == [entry : Nat \ {0}, song : Songs, ask : Nat] \cup {NoLoad}

Events ==
    [kind : {"reply", "start", "loaded", "reconfig", "restart", "end"}, entry : Nat \ {0},
     ask : Nat, why : Whys, named : BOOLEAN]

Engines ==
    [asked : Nat, current : Int, started : Nat, last : Loads,
     loaded : BOOLEAN, loading : BOOLEAN, audio : BOOLEAN, paused : BOOLEAN,
     setUp : BOOLEAN, restarted : BOOLEAN, verified : BOOLEAN, tick : BOOLEAN,
     given : BOOLEAN, want : BOOLEAN, broken : BOOLEAN, retrying : BOOLEAN]

Players ==
    [commands : Seq(Loads), next : Loads, leaving : BOOLEAN, file : Loads,
     stage : {"idle", "opening", "open", "playing"}, track : BOOLEAN, chain : BOOLEAN,
     seeking : BOOLEAN, af : BOOLEAN, builds : BOOLEAN, paused : BOOLEAN, events : Seq(Events)]

\* What the engine's handlers take and return: its members, mpv and the last word.
States == [e : Engines, m : Players, said : [of : Nat, what : Words]]

Typed(s, n) ==
    /\ s \in States /\ n \in Nat /\ s.said.of = n
    /\ s.m.file = NoLoad => s.m.stage = "idle" /\ ~s.m.leaving
    /\ s.m.stage # "playing" => ~s.m.track /\ ~s.m.seeking
    /\ s.e.current > 0 => s.e.current = s.e.asked
    /\ s.e.current >= -1 /\ s.e.started <= s.e.asked /\ s.e.asked <= MaxLoads

(***************************************************************************)
(* The order mpv reports in.                                               *)
(***************************************************************************)

\* Of what waits to be read, older files' events come first, a file's begin
\* with its start and are over with its end.
InTurn(E) ==
    \A i, j \in DOMAIN E :
        i < j /\ Own(E[i]) /\ Own(E[j]) =>
            /\ E[i].entry <= E[j].entry
            /\ E[i].entry = E[j].entry => E[i].kind # "end" /\ E[j].kind # "start"

\* A load is answered after all that was told before, and before its start.
Answered(E) ==
    \A i, j \in DOMAIN E :
        i < j => /\ ~Own(E[j]) => E[i].entry < E[j].entry
                 /\ ~Own(E[i]) /\ E[j].kind = "start" => E[i].entry <= E[j].entry

\* What was started is no later than what is still to be read.
BegunBefore(E, n) ==
    \A i \in DOMAIN E :
        /\ n <= E[i].entry
        /\ E[i].kind \in {"start", "reply"} => n < E[i].entry
        /\ E[i].kind \notin {"start", "reply"} =>
              n = E[i].entry \/ \E j \in DOMAIN E : j < i /\ E[j].kind = "start" /\ E[j].entry = E[i].entry

\* The file mpv has open is the latest to have started.
Open(E, n, f) ==
    f # NoLoad =>
        /\ n <= f.entry
        /\ n = f.entry \/ \E i \in DOMAIN E : E[i].kind = "start" /\ E[i].entry = f.entry
        /\ \A i \in DOMAIN E : Own(E[i]) => E[i].entry <= f.entry /\ (E[i].entry = f.entry => E[i].kind # "end")

\* A file still to come is later than all that was told and started.
Later(E, n, f, x) ==
    /\ n < x
    /\ f # NoLoad => f.entry < x
    /\ \A i \in DOMAIN E : (Own(E[i]) => E[i].entry < x) /\ E[i].entry <= x

Coming(E, n, m) ==
    /\ m.next # NoLoad => Later(E, n, m.file, m.next.entry)
    /\ \A i \in DOMAIN m.commands :
          m.commands[i] # NoLoad =>
              /\ Later(E, n, m.file, m.commands[i].entry)
              /\ m.next # NoLoad => m.next.entry < m.commands[i].entry
              /\ \A j \in DOMAIN E : E[j].entry < m.commands[i].entry
              /\ \A j \in DOMAIN m.commands : j < i => m.commands[j].entry < m.commands[i].entry

\* The load last asked for is known once its answer is read, which it is before
\* its start.
Told(e, E, n) == e.current # 0 \/ \E j \in DOMAIN E : j < n /\ ~Own(E[j]) /\ E[j].entry = e.asked

Known(e, m) ==
    LET E == m.events
    IN  /\ \A i \in DOMAIN E : E[i].kind = "start" /\ E[i].entry = e.asked => Told(e, E, i)
        /\ m.next # NoLoad /\ m.next.entry = e.asked => Told(e, E, Len(E) + 1)
        /\ e.started = e.asked => e.current = e.asked
        /\ e.current # 0 => \A i \in DOMAIN m.commands : m.commands[i] = NoLoad
        /\ e.current = -1 =>
              /\ \A i \in DOMAIN E : E[i].kind = "start" => E[i].entry = e.asked
              /\ m.next # NoLoad => m.next.entry = e.asked

Ordered(s) ==
    /\ InTurn(s.m.events) /\ Answered(s.m.events) /\ BegunBefore(s.m.events, s.e.started)
    /\ Open(s.m.events, s.e.started, s.m.file)
    /\ Coming(s.m.events, s.e.started, s.m)
    /\ Known(s.e, s.m)

(***************************************************************************)
(* The file last asked for.                                                *)
(***************************************************************************)

\* Whatever is left of it is of what the engine was last asked, and it is not
\* over.
Mine(s, n, r) ==
    /\ r.entry <= s.e.asked
    /\ r.entry = s.e.asked => /\ r.ask = n /\ s.said.what \in Live
                              /\ s.e.last.entry = s.e.asked /\ s.e.last.ask = n

MyLoad(s, n, r) == r # NoLoad => Mine(s, n, r) /\ (r.entry = s.e.asked => r = s.e.last)

Latest(s, n) ==
    /\ \A i \in DOMAIN s.m.events : Mine(s, n, s.m.events[i])
    /\ MyLoad(s, n, s.m.file) /\ MyLoad(s, n, s.m.next)
    /\ \A i \in DOMAIN s.m.commands : MyLoad(s, n, s.m.commands[i])
    /\ s.e.current # 0 => /\ s.e.last # NoLoad /\ s.e.last.entry = s.e.asked /\ s.e.last.ask = n
                          /\ s.said.what # "nothing"
    /\ s.said.what \in Over => s.e.started = s.e.asked /\ ~s.e.restarted

(***************************************************************************)
(* The effects.                                                            *)
(***************************************************************************)

\* An end with nothing played, of the file last asked for.
Unplayed(e, ev) == ev.kind = "end" /\ ev.why = "nothing" /\ ev.entry = e.asked

\* Nothing of it has sounded yet.
Fresh(e, m) ==
    \/ \E i \in DOMAIN m.commands : m.commands[i] # NoLoad /\ m.commands[i].entry = e.asked
    \/ m.next # NoLoad /\ m.next.entry = e.asked
    \/ m.file # NoLoad /\ m.file.entry = e.asked /\ m.stage \in {"opening", "open"}
    \/ \E i \in DOMAIN m.events : Unplayed(e, m.events[i])

\* The filters given are those wanted.
Given(e) == e.given = (e.want /\ ~e.broken /\ ~e.retrying)

\* Until something of it has sounded a load of it without the effects is left.
Unheard(e, m) ==
    /\ ~e.restarted /\ ~e.verified
    /\ e.asked < MaxLoads \/ e.retrying
    /\ \A i \in DOMAIN m.events : m.events[i].kind = "restart" => m.events[i].entry # e.asked

\* A sound mpv can decode is set up before it can fail for its filters.
SetUpFirst(e, m) ==
    \A i \in DOMAIN m.events :
        Unplayed(e, m.events[i]) /\ e.last.song \in Decodable =>
            /\ ~e.broken /\ ~e.retrying
            /\ e.setUp \/ \E j \in DOMAIN m.events :
                             j < i /\ m.events[j].kind = "reconfig" /\ m.events[j].entry = e.asked

Spared(s) ==
    /\ s.e.given = s.m.af
    /\ Fresh(s.e, s.m) => Unheard(s.e, s.m)
    /\ SetUpFirst(s.e, s.m)

Almost(s, n) == Typed(s, n) /\ Ordered(s) /\ Latest(s, n) /\ Spared(s)

EngineSound(s, n) == Almost(s, n) /\ (Fresh(s.e, s.m) => Given(s.e))

EngineInv == EngineSound(Now, asks)

-----------------------------------------------------------------------------
(* What the helpers leave alone.                                            *)

SameMembers(e, d) ==
    /\ d.asked = e.asked /\ d.current = e.current /\ d.started = e.started /\ d.last = e.last
    /\ d.setUp = e.setUp /\ d.restarted = e.restarted /\ d.verified = e.verified
    /\ d.want = e.want /\ d.retrying = e.retrying

SameFiles(m, p) ==
    /\ p.commands = m.commands /\ p.next = m.next /\ p.leaving = m.leaving /\ p.file = m.file
    /\ p.stage = m.stage /\ p.track = m.track /\ p.seeking = m.seeking /\ p.builds = m.builds
    /\ p.events = m.events

Kin(s, t) ==
    /\ t \in States
    /\ SameMembers(s.e, t.e) /\ SameFiles(s.m, t.m) /\ t.said = s.said
    /\ s.e.given = s.m.af => t.e.given = t.m.af

LEMMA StateIs ==
    ASSUME NEW s \in States
    PROVE  /\ s.e \in Engines /\ s.m \in Players /\ s.said \in [of : Nat, what : Words]
           /\ s = [e |-> s.e, m |-> s.m, said |-> s.said]
BY DEF States

LEMMA FilteredIs ==
    ASSUME NEW s \in States, NEW on \in BOOLEAN
    PROVE  /\ Kin(s, Filtered(s, on)) /\ Filtered(s, on).e.given = on
           /\ Filtered(s, on).e.broken = s.e.broken /\ Filtered(s, on).m.af = on
<1> DEFINE d == [s.e EXCEPT !.given = on]
           p == [s.m EXCEPT !.af = on, !.chain = on /\ s.m.track]
<1>1. d \in Engines /\ SameMembers(s.e, d) /\ d.given = on /\ d.broken = s.e.broken
  BY StateIs DEF Engines, SameMembers
<1>2. p \in Players /\ SameFiles(s.m, p) /\ p.af = on
  BY StateIs DEF Players, SameFiles
<1>3. Filtered(s, on) = [s EXCEPT !.e = d, !.m = p]
  BY DEF Filtered, States
<1> HIDE DEF d, p
<1>4. /\ Filtered(s, on) \in States /\ Filtered(s, on).e = d /\ Filtered(s, on).m = p
      /\ Filtered(s, on).said = s.said
  BY <1>1, <1>2, <1>3 DEF States
<1> QED
  BY <1>1, <1>2, <1>4 DEF Kin

LEMMA WouldNotStartIs ==
    ASSUME NEW s \in States
    PROVE  /\ Kin(s, WouldNotStart(s)) /\ WouldNotStart(s).e.given = s.e.given
           /\ WouldNotStart(s).e.broken
           /\ WouldNotStart(s).m = s.m
<1> DEFINE d == [s.e EXCEPT !.broken = TRUE, !.tick = s.e.tick \/ (ChainRunning(s.e) /\ s.e.given)]
<1>1. d \in Engines /\ SameMembers(s.e, d) /\ d.given = s.e.given /\ d.broken
  BY StateIs DEF Engines, SameMembers, ChainRunning, Started
<1>2. WouldNotStart(s) = IF s.e.broken THEN s ELSE [s EXCEPT !.e = d]
  BY DEF WouldNotStart, States
<1>3. SameMembers(s.e, s.e) /\ SameFiles(s.m, s.m)
  BY DEF SameMembers, SameFiles
<1> HIDE DEF d
<1>4. CASE s.e.broken
  BY <1>2, <1>3, <1>4 DEF Kin
<1>5. CASE ~s.e.broken
  <2> DEFINE t == [s EXCEPT !.e = d]
  <2>1. t \in States /\ t.e = d /\ t.m = s.m /\ t.said = s.said
    BY <1>1 DEF States
  <2>2. WouldNotStart(s) = t
    BY <1>2, <1>5
  <2> HIDE DEF t
  <2> QED
    BY <1>1, <1>3, <2>1, <2>2 DEF Kin
<1> QED
  BY <1>4, <1>5

LEMMA KinKin == ASSUME NEW s, NEW t, NEW u, Kin(s, t), Kin(t, u) PROVE Kin(s, u)
BY DEF Kin, SameMembers, SameFiles

LEMMA KinSelf == ASSUME NEW s \in States PROVE Kin(s, s)
BY DEF Kin, SameMembers, SameFiles

\* What is given is what is wanted, and only a sound that plays shows the
\* effects at fault.
LEMMA SyncedIs ==
    ASSUME NEW s \in States
    PROVE  /\ Kin(s, Synced(s)) /\ Given(Synced(s).e)
           /\ Synced(s).e.broken => s.e.broken \/ s.m.track
           /\ s.e.broken => Synced(s).e.broken
<1> DEFINE on == s.e.want /\ ~s.e.broken /\ ~s.e.retrying
<1>0. on \in BOOLEAN /\ s.e.given \in BOOLEAN /\ s.e.broken \in BOOLEAN
  BY StateIs DEF Engines
<1>1. Synced(s) = IF on = s.e.given THEN s
                  ELSE IF Refused(s, on) THEN Filtered(WouldNotStart(s), FALSE)
                  ELSE Filtered(s, on)
  BY DEF Synced
<1>2. CASE on = s.e.given
  BY <1>1, <1>2, KinSelf DEF Given
<1>3. CASE on # s.e.given /\ Refused(s, on)
  <2> DEFINE w == WouldNotStart(s)
             t == Filtered(w, FALSE)
  <2>1. w \in States /\ Kin(s, w) /\ w.e.broken
    BY WouldNotStartIs DEF Kin
  <2>2. Kin(w, t) /\ t.e.given = FALSE /\ t.e.broken = w.e.broken
    BY <2>1, FilteredIs
  <2>3. Kin(s, t)
    BY <2>1, <2>2, KinKin
  <2>4. Synced(s) = t
    BY <1>1, <1>3
  <2> HIDE DEF t, w
  <2> QED
    BY <1>3, <2>1, <2>2, <2>3, <2>4 DEF Given, Refused
<1>4. CASE on # s.e.given /\ ~Refused(s, on)
  <2>1. /\ Kin(s, Synced(s)) /\ Synced(s).e.given = on
        /\ Synced(s).e.broken = s.e.broken
    BY <1>0, <1>1, <1>4, FilteredIs
  <2> QED
    BY <2>1 DEF Given, Kin, SameMembers
<1> QED
  BY <1>2, <1>3, <1>4

LEMMA AppliedIs ==
    ASSUME NEW s \in States
    PROVE  /\ Kin(s, Applied(s))
           /\ ~ChainRunning(s.e) => Applied(s) = Synced(s)
<1> DEFINE tick(u) == [u EXCEPT !.e.tick = TRUE]
<1>1. \A u \in States : Kin(u, tick(u))
  <2> SUFFICES ASSUME NEW u \in States PROVE Kin(u, tick(u))
    OBVIOUS
  <2> DEFINE d == [u.e EXCEPT !.tick = TRUE]
  <2>1. d \in Engines /\ SameMembers(u.e, d) /\ d.given = u.e.given
    BY StateIs DEF Engines, SameMembers
  <2>2. tick(u) = [u EXCEPT !.e = d]
    BY DEF States
  <2>3. SameFiles(u.m, u.m)
    BY DEF SameFiles
  <2> HIDE DEF d
  <2>4. tick(u) \in States /\ tick(u).e = d /\ tick(u).m = u.m /\ tick(u).said = u.said
    BY <2>1, <2>2 DEF States
  <2> HIDE DEF tick
  <2> QED
    BY <2>1, <2>3, <2>4 DEF Kin
<1>2. Applied(s) = IF ~ChainRunning(s.e) THEN Synced(s)
                   ELSE IF s.e.given THEN tick(s)
                   ELSE IF ~s.e.want \/ s.e.retrying THEN s
                   ELSE IF Refused(s, TRUE) THEN WouldNotStart(s)
                   ELSE tick(Filtered(s, TRUE))
  BY DEF Applied
<1> HIDE DEF tick
<1>3. Kin(s, tick(s)) /\ Kin(s, s) /\ Kin(s, WouldNotStart(s)) /\ Kin(s, Synced(s))
  BY <1>1, KinSelf, WouldNotStartIs, SyncedIs
<1>4. Kin(s, Filtered(s, TRUE)) /\ Filtered(s, TRUE) \in States
  BY FilteredIs DEF Kin
<1>5. Kin(s, tick(Filtered(s, TRUE)))
  BY <1>1, <1>4, KinKin
<1> QED
  BY <1>2, <1>3, <1>5

-----------------------------------------------------------------------------
(* Asked for another file, or none.                                         *)

Bumped(s, t, load) ==
    /\ t \in States
    /\ t.e.asked = s.e.asked + 1 /\ t.e.current = 0 /\ t.e.started = s.e.started /\ ~t.e.restarted
    /\ t.m.commands = Append(s.m.commands, load)
    /\ t.m.next = s.m.next /\ t.m.leaving = s.m.leaving /\ t.m.file = s.m.file
    /\ t.m.stage = s.m.stage /\ t.m.track = s.m.track /\ t.m.seeking = s.m.seeking
    /\ t.m.events = s.m.events
    /\ s.e.given = s.m.af => t.e.given = t.m.af

NextLoad(s, song, ask) == [entry |-> s.e.asked + 1, song |-> song, ask |-> ask]

LEMMA EngineLoadedIs ==
    ASSUME NEW s \in States, NEW song \in Songs, NEW ask \in Nat, NEW plays \in BOOLEAN,
           NEW again \in BOOLEAN
    PROVE  LET t == Loaded(s, song, ask, plays, again)
           IN  /\ Bumped(s, t, NextLoad(s, song, ask)) /\ t.said = s.said
               /\ t.e.last = NextLoad(s, song, ask)
               /\ ~t.e.verified /\ t.e.retrying = again /\ Given(t.e)
<1> DEFINE mine == NextLoad(s, song, ask)
           d == [s.e EXCEPT !.retrying = again, !.last = mine, !.restarted = FALSE,
                            !.verified = FALSE, !.setUp = FALSE]
           u == [s EXCEPT !.e = d]
           y == Synced(u)
           b == [y.e EXCEPT !.loaded = FALSE, !.loading = TRUE, !.audio = FALSE,
                            !.asked = y.e.asked + 1, !.current = 0]
           p == [y.m EXCEPT !.commands = Append(y.m.commands, mine), !.paused = ~plays]
           t == Loaded(s, song, ask, plays, again)
<1>0. mine \in Loads /\ s.e \in Engines /\ s.m \in Players
  <2>1. s.e \in Engines /\ s.m \in Players
    BY StateIs
  <2>2. s.e.asked + 1 \in Nat \ {0}
    BY <2>1 DEF Engines
  <2> QED
    BY <2>1, <2>2 DEF Loads, NextLoad
<1>1. /\ d \in Engines /\ d.asked = s.e.asked /\ d.started = s.e.started /\ d.retrying = again
      /\ d.last = mine /\ ~d.restarted /\ ~d.verified /\ d.given = s.e.given
  <2> HIDE DEF mine
  <2> QED
    BY <1>0 DEF Engines
<1>2. /\ [s EXCEPT !.e.retrying = again, !.e.last = mine, !.e.restarted = FALSE,
                   !.e.verified = FALSE, !.e.setUp = FALSE] = u
  <2> HIDE DEF mine
  <2> QED
    BY DEF States
<1>3. u \in States /\ u.e = d /\ u.m = s.m /\ u.said = s.said
  <2> HIDE DEF d
  <2> QED
    BY <1>1 DEF States
<1>4. Kin(u, y) /\ Given(y.e) /\ y \in States /\ y.e \in Engines /\ y.m \in Players
  <2> HIDE DEF u
  <2>1. Kin(u, y) /\ Given(y.e)
    BY <1>3, SyncedIs
  <2> QED
    BY <2>1, StateIs DEF Kin
<1>5. /\ b \in Engines /\ b.asked = y.e.asked + 1 /\ b.current = 0 /\ b.started = y.e.started
      /\ b.last = y.e.last /\ b.restarted = y.e.restarted /\ b.verified = y.e.verified
      /\ b.given = y.e.given /\ b.want = y.e.want /\ b.broken = y.e.broken
      /\ b.retrying = y.e.retrying
  <2>1. y.e \in Engines /\ y.e.asked + 1 \in Nat /\ 0 \in Int
    BY <1>4 DEF Engines
  <2> DEFINE e == y.e
             n == y.e.asked + 1
  <2> HIDE DEF y
  <2>2. e \in Engines /\ n \in Nat
    BY <2>1
  <2>3. b = [e EXCEPT !.loaded = FALSE, !.loading = TRUE, !.audio = FALSE, !.asked = n, !.current = 0]
    OBVIOUS
  <2>4. e = y.e /\ n = y.e.asked + 1
    OBVIOUS
  <2> HIDE DEF b, e, n
  <2>5. b \in Engines
    <3> DEFINE x == [e EXCEPT !.loaded = FALSE, !.loading = TRUE, !.audio = FALSE]
               zero == 0
               z == [x EXCEPT !.asked = n, !.current = zero]
    <3>1. x \in Engines
      BY <2>2 DEF Engines
    <3>2. z \in Engines
      <4>1. zero \in Int
        OBVIOUS
      <4> HIDE DEF x, zero
      <4> QED
        BY <2>2, <3>1, <4>1 DEF Engines
    <3>3. b = z
      BY <2>2, <2>3 DEF Engines
    <3> QED
      BY <3>2, <3>3
  <2>6. /\ b.asked = n /\ b.current = 0 /\ b.started = e.started
        /\ b.last = e.last /\ b.restarted = e.restarted /\ b.verified = e.verified
        /\ b.given = e.given /\ b.want = e.want /\ b.broken = e.broken
        /\ b.retrying = e.retrying
    BY <2>2, <2>3 DEF Engines
  <2> QED
    BY <2>4, <2>5, <2>6
<1>6. /\ p \in Players /\ p.commands = Append(y.m.commands, mine) /\ p.next = y.m.next
      /\ p.leaving = y.m.leaving /\ p.file = y.m.file /\ p.stage = y.m.stage
      /\ p.track = y.m.track /\ p.seeking = y.m.seeking /\ p.events = y.m.events /\ p.af = y.m.af
  <2> HIDE DEF y, mine
  <2>1. Append(y.m.commands, mine) \in Seq(Loads) /\ (~plays) \in BOOLEAN
    BY <1>0, <1>4 DEF Players
  <2> DEFINE c == Append(y.m.commands, mine)
  <2> HIDE DEF c
  <2> QED
    BY <1>4, <2>1 DEF Players, c
<1>7. t = [y EXCEPT !.e = b, !.m = p]
  <2>1. t = [y EXCEPT !.e.loaded = FALSE, !.e.loading = TRUE, !.e.audio = FALSE,
                      !.e.asked = @ + 1, !.e.current = 0,
                      !.m.commands = Append(@, mine), !.m.paused = ~plays]
    BY <1>2 DEF Loaded, NextLoad
  <2> HIDE DEF t, y, mine
  <2> QED
    BY <1>4, <2>1 DEF States
<1>8. t \in States /\ t.e = b /\ t.m = p /\ t.said = y.said
  <2> HIDE DEF t, y, b, p
  <2> QED
    BY <1>4, <1>5, <1>6, <1>7 DEF States
<1>9. /\ y.said = s.said /\ y.m.events = s.m.events /\ y.m.next = s.m.next
      /\ y.m.leaving = s.m.leaving /\ y.m.file = s.m.file /\ y.m.stage = s.m.stage
      /\ y.m.track = s.m.track /\ y.m.seeking = s.m.seeking /\ y.m.commands = s.m.commands
      /\ y.e.asked = s.e.asked /\ y.e.started = s.e.started /\ y.e.last = mine
      /\ ~y.e.restarted /\ ~y.e.verified /\ y.e.retrying = again
      /\ s.e.given = s.m.af => y.e.given = y.m.af
  <2> HIDE DEF y, mine, d, u
  <2> QED
    BY <1>1, <1>3, <1>4 DEF Kin, SameMembers, SameFiles
<1> HIDE DEF t, y, b, p, mine
<1>10. Given(t.e)
  BY <1>4, <1>5, <1>8 DEF Given
<1>11. Bumped(s, t, mine)
  BY <1>5, <1>6, <1>8, <1>9 DEF Bumped
<1>12. t.said = s.said /\ t.e.last = mine /\ ~t.e.verified /\ t.e.retrying = again
  BY <1>5, <1>8, <1>9
<1> QED
  BY <1>10, <1>11, <1>12 DEF t, mine

LEMMA RetriedIs ==
    ASSUME NEW s \in States, s.e.last # NoLoad
    PROVE  LET t == Retried(s)
               mine == NextLoad(s, s.e.last.song, s.e.last.ask)
           IN  /\ Bumped(s, t, mine) /\ t.said = s.said /\ t.e.last = mine
               /\ ~t.e.verified /\ t.e.retrying /\ Given(t.e)
<1> DEFINE u == Filtered(s, FALSE)
           mine == NextLoad(s, s.e.last.song, s.e.last.ask)
           t == Loaded(u, u.e.last.song, u.e.last.ask, ~u.m.paused, TRUE)
<1>1. Kin(s, u) /\ u \in States /\ u.e.given = FALSE /\ u.m.af = FALSE
  BY FilteredIs DEF Kin
<1>2. s.e.last \in Loads /\ s.m \in Players /\ s.e \in Engines
  BY StateIs DEF Engines
<1>3. s.e.last.song \in Songs /\ s.e.last.ask \in Nat /\ u.e.last = s.e.last
  BY <1>1, <1>2 DEF Loads, Kin, SameMembers
<1>4. s.m.paused \in BOOLEAN /\ u.m.paused = s.m.paused
  <2>1. u.m.paused = s.m.paused
    BY DEF Filtered, States, Players
  <2> QED
    BY <1>2, <2>1 DEF Players
<1>5. Retried(s) = t
  BY <1>3, <1>4 DEF Retried
<1>6. NextLoad(u, u.e.last.song, u.e.last.ask) = mine
  BY <1>1, <1>3 DEF NextLoad, Kin, SameMembers
<1>7. /\ Bumped(u, t, mine) /\ t.said = u.said /\ t.e.last = mine
      /\ ~t.e.verified /\ t.e.retrying = TRUE /\ Given(t.e)
  <2> HIDE DEF u
  <2> DEFINE song == u.e.last.song
             ask == u.e.last.ask
             plays == ~u.m.paused
             yes == TRUE
  <2>1. song \in Songs /\ ask \in Nat
    BY <1>3
  <2>2. plays \in BOOLEAN
    BY <1>4
  <2>3. yes \in BOOLEAN
    OBVIOUS
  <2> HIDE DEF song, ask, plays, yes
  <2>4. u \in States
    BY <1>1
  <2> HIDE DEF u
  <2>5. LET r == Loaded(u, song, ask, plays, yes)
        IN  /\ Bumped(u, r, NextLoad(u, song, ask)) /\ r.said = u.said
            /\ r.e.last = NextLoad(u, song, ask)
            /\ ~r.e.verified /\ r.e.retrying = yes /\ Given(r.e)
    BY <2>1, <2>2, <2>4, <2>3, EngineLoadedIs
  <2> USE DEF song, ask, plays, yes
  <2> QED
    BY <1>6, <2>5
<1> HIDE DEF u, t, mine
<1>8. Bumped(s, t, mine) /\ t.said = s.said
  BY <1>1, <1>7 DEF Bumped, Kin, SameMembers, SameFiles
<1> QED
  BY <1>5, <1>7, <1>8 DEF mine

-----------------------------------------------------------------------------
(* The order, over what is told and read.                                   *)

LEMMA AppendIs ==
    ASSUME NEW S, NEW E \in Seq(S), NEW x \in S
    PROVE  LET F == Append(E, x)
           IN  /\ F \in Seq(S) /\ Len(F) = Len(E) + 1 /\ Len(E) \in Nat
               /\ DOMAIN F = 1 .. Len(E) + 1 /\ DOMAIN E = 1 .. Len(E)
               /\ \A i \in DOMAIN E : i \in DOMAIN F /\ F[i] = E[i] /\ i # Len(E) + 1
               /\ F[Len(E) + 1] = x
OBVIOUS

LEMMA TailIs ==
    ASSUME NEW S, NEW E \in Seq(S), E # <<>>
    PROVE  LET F == Tail(E)
           IN  /\ F \in Seq(S) /\ Head(E) = E[1] /\ 1 \in DOMAIN E /\ Head(E) \in S
               /\ DOMAIN F \subseteq DOMAIN E
               /\ \A i \in DOMAIN F : i + 1 \in DOMAIN E /\ F[i] = E[i + 1] /\ i \in Nat \ {0}
               /\ \A i \in DOMAIN E : i # 1 => i - 1 \in DOMAIN F /\ F[i - 1] = E[i] /\ i > 1
               /\ Len(F) + 1 = Len(E) /\ Len(E) \in Nat
OBVIOUS

LEMMA EventIs ==
    ASSUME NEW E \in Seq(Events), NEW i \in DOMAIN E
    PROVE  /\ E[i] \in Events /\ E[i].entry \in Nat /\ i \in Nat \ {0} /\ i <= Len(E)
           /\ E[i].kind \in {"reply", "start", "loaded", "reconfig", "restart", "end"}
<1>1. E[i] \in Events /\ i \in Nat \ {0} /\ i <= Len(E)
  OBVIOUS
<1> QED
  BY <1>1 DEF Events

LEMMA LoadIs ==
    ASSUME NEW load \in Loads
    PROVE  load.entry \in Nat /\ load.ask \in Nat /\ (load # NoLoad => load.entry > 0 /\ load.song \in Songs)
BY DEF Loads, NoLoad

\* What the order is about.
SameOrder(s, t) ==
    /\ t.e.asked = s.e.asked /\ t.e.current = s.e.current /\ t.e.started = s.e.started
    /\ t.m.next = s.m.next /\ t.m.commands = s.m.commands

LEMMA OrderKept ==
    ASSUME NEW s \in States, NEW t \in States, Ordered(s), SameOrder(s, t),
           t.m.events = s.m.events, t.m.file \in {s.m.file, NoLoad}
    PROVE  Ordered(t)
<1>1. Open(t.m.events, t.e.started, t.m.file)
  BY DEF Ordered, SameOrder, Open
<1>2. Coming(t.m.events, t.e.started, t.m)
  BY DEF Ordered, SameOrder, Coming, Later
<1>3. Known(t.e, t.m)
  BY DEF Ordered, SameOrder, Known, Told
<1> QED
  BY <1>1, <1>2, <1>3 DEF Ordered, SameOrder

\* One more thing is told of the file that is open; its end is the last.
LEMMA TellOrder ==
    ASSUME NEW s \in States, NEW t \in States, NEW ev \in Events, Ordered(s), SameOrder(s, t),
           s.m.file # NoLoad, ev.entry = s.m.file.entry, ev.kind \notin {"reply", "start"},
           t.m.events = Append(s.m.events, ev),
           (t.m.file = s.m.file /\ ev.kind # "end") \/ t.m.file = NoLoad
    PROVE  Ordered(t)
<1> DEFINE E == s.m.events
           F == t.m.events
           n == s.e.started
           f == s.m.file
           last == Len(E) + 1
<1>1. /\ E \in Seq(Events) /\ n \in Nat /\ f \in Loads /\ f.entry \in Nat
      /\ s.m.next \in Loads /\ s.m.commands \in Seq(Loads)
  BY StateIs DEF Engines, Players, Loads
<1>2. /\ F \in Seq(Events) /\ Len(F) = last /\ DOMAIN F = 1 .. last /\ DOMAIN E = 1 .. Len(E)
      /\ \A i \in DOMAIN E : i \in DOMAIN F /\ F[i] = E[i] /\ i < last
      /\ F[last] = ev /\ Len(E) \in Nat
      /\ \A i \in DOMAIN F : i \in DOMAIN E \/ i = last
  BY <1>1, AppendIs
<1>3. \A i \in DOMAIN E : E[i] \in Events /\ E[i].entry \in Nat
  BY <1>1, EventIs
<1>4. /\ InTurn(E) /\ Answered(E) /\ BegunBefore(E, n) /\ Open(E, n, f)
      /\ Coming(E, n, s.m) /\ Known(s.e, s.m)
  BY DEF Ordered
<1>5. t.e.started = n
  BY DEF SameOrder
<1> HIDE DEF E, F, f
<1>6. InTurn(F)
  BY <1>1, <1>2, <1>4 DEF InTurn, Open, Own, f
<1>7. Answered(F)
  BY <1>1, <1>2, <1>4 DEF Answered, Own
<1>8. BegunBefore(F, n)
  <2> SUFFICES ASSUME NEW i \in DOMAIN F
               PROVE  /\ n <= F[i].entry
                      /\ F[i].kind \in {"start", "reply"} => n < F[i].entry
                      /\ F[i].kind \notin {"start", "reply"} =>
                            n = F[i].entry \/ \E j \in DOMAIN F : j < i /\ F[j].kind = "start" /\ F[j].entry = F[i].entry
    BY DEF BegunBefore
  <2>1. CASE i \in DOMAIN E
    BY <1>2, <1>4, <2>1 DEF BegunBefore
  <2>2. CASE i = last
    BY <1>1, <1>2, <1>4, <2>2 DEF Open, f
  <2> QED
    BY <1>2, <2>1, <2>2
<1>9. Open(F, n, t.m.file)
  <2>1. CASE t.m.file = NoLoad
    BY <2>1 DEF Open
  <2>2. CASE t.m.file = f /\ ev.kind # "end"
    BY <1>1, <1>2, <1>4, <2>2 DEF Open, f
  <2> QED
    BY <2>1, <2>2 DEF f
<1>10. \A x \in Nat : Later(E, n, f, x) => Later(F, n, t.m.file, x)
  <2> SUFFICES ASSUME NEW x \in Nat, Later(E, n, f, x) PROVE Later(F, n, t.m.file, x)
    OBVIOUS
  <2>1. f.entry < x /\ f.entry <= x
    <3>1. f.entry < x
      BY DEF Later, f
    <3>2. \A i \in DOMAIN E : E[i].entry <= x
      BY DEF Later
    <3> QED
      BY <1>1, <3>1
  <2> QED
    BY <1>2, <2>1 DEF Later, f
<1>11. Coming(F, n, t.m)
  <2>1. s.m.next.entry \in Nat /\ \A i \in DOMAIN s.m.commands : s.m.commands[i].entry \in Nat
    BY <1>1, LoadIs
  <2> QED
    BY <1>1, <1>2, <1>4, <1>10, <2>1 DEF Coming, SameOrder, Later, f
<1>12. Known(t.e, t.m)
  <2>1. /\ t.e.asked = s.e.asked /\ t.e.current = s.e.current /\ t.e.started = n
        /\ t.m.next = s.m.next /\ t.m.commands = s.m.commands
    BY DEF SameOrder
  <2>2. Known(s.e, s.m)
    BY DEF Ordered
  <2>3. \A i \in DOMAIN F : F[i].kind = "start" => i \in DOMAIN E /\ F[i] = E[i]
    BY <1>2
  <2>4. \A i \in Nat : i <= last /\ Told(s.e, E, i) => Told(t.e, F, i)
    BY <1>2, <2>1 DEF Told
  <2>5. \A i \in DOMAIN F : F[i].kind = "start" /\ F[i].entry = t.e.asked => Told(t.e, F, i)
    BY <1>2, <2>1, <2>2, <2>3, <2>4 DEF Known, E
  <2>6. t.m.next # NoLoad /\ t.m.next.entry = t.e.asked => Told(t.e, F, Len(F) + 1)
    BY <1>2, <2>1, <2>2 DEF Known, Told, E
  <2> QED
    BY <2>1, <2>2, <2>3, <2>5, <2>6 DEF Known, E, F
<1> QED
  BY <1>5, <1>6, <1>7, <1>8, <1>9, <1>11, <1>12 DEF Ordered, F

\* No later than the load last asked for.
Bounded(s) ==
    /\ \A i \in DOMAIN s.m.events : s.m.events[i].entry <= s.e.asked
    /\ s.m.file.entry <= s.e.asked /\ s.m.next.entry <= s.e.asked
    /\ \A i \in DOMAIN s.m.commands : s.m.commands[i].entry <= s.e.asked

LEMMA BoundedIs == ASSUME NEW s, NEW n, Typed(s, n), Latest(s, n) PROVE Bounded(s)
<1>1. NoLoad.entry <= s.e.asked
  BY StateIs DEF Typed, NoLoad, Engines
<1> QED
  BY <1>1 DEF Latest, Mine, MyLoad, Bounded

\* What is read and written of the order.
LEMMA PartsAre ==
    ASSUME NEW s \in States
    PROVE  /\ s.m.events \in Seq(Events) /\ s.m.commands \in Seq(Loads)
           /\ s.m.file \in Loads /\ s.m.next \in Loads
           /\ s.m.file.entry \in Nat /\ s.m.next.entry \in Nat
           /\ s.e.started \in Nat /\ s.e.asked \in Nat /\ s.e.current \in Int
           /\ \A i \in DOMAIN s.m.commands : s.m.commands[i] \in Loads /\ s.m.commands[i].entry \in Nat
           /\ \A i \in DOMAIN s.m.events : s.m.events[i] \in Events /\ s.m.events[i].entry \in Nat \ {0}
<1>1. /\ s.m.events \in Seq(Events) /\ s.m.commands \in Seq(Loads)
      /\ s.m.file \in Loads /\ s.m.next \in Loads
      /\ s.e.started \in Nat /\ s.e.asked \in Nat /\ s.e.current \in Int
  BY StateIs DEF Engines, Players
<1>2. \A i \in DOMAIN s.m.commands : s.m.commands[i] \in Loads
  BY <1>1
<1>3. \A i \in DOMAIN s.m.events : s.m.events[i] \in Events
  BY <1>1
<1>4. \A ev \in Events : ev.entry \in Nat \ {0}
  BY DEF Events
<1> QED
  BY <1>1, <1>2, <1>3, <1>4, LoadIs

\* What a file that is loaded next comes after.
Below(s, x) ==
    /\ \A i \in DOMAIN s.m.events : s.m.events[i].entry < x /\ s.m.events[i].entry <= x /\ s.m.events[i].entry # x
    /\ s.m.file.entry < x /\ s.m.file.entry <= x /\ s.m.file.entry # x
    /\ s.m.next.entry < x /\ s.m.next.entry <= x /\ s.m.next.entry # x
    /\ \A i \in DOMAIN s.m.commands :
          s.m.commands[i].entry < x /\ s.m.commands[i].entry <= x /\ s.m.commands[i].entry # x

LEMMA BelowNext == ASSUME NEW s \in States, Bounded(s) PROVE Below(s, s.e.asked + 1)
<1> DEFINE E == s.m.events
           C == s.m.commands
           a == s.e.asked
<1>1. /\ a \in Nat /\ s.m.file.entry \in Nat /\ s.m.next.entry \in Nat
      /\ \A i \in DOMAIN E : E[i].entry \in Nat
      /\ \A i \in DOMAIN C : C[i].entry \in Nat
  BY PartsAre
<1>2. /\ \A i \in DOMAIN E : E[i].entry <= a
      /\ s.m.file.entry <= a /\ s.m.next.entry <= a
      /\ \A i \in DOMAIN C : C[i].entry <= a
  BY DEF Bounded
<1>3. \A x \in Nat : x <= a => x < a + 1 /\ x <= a + 1 /\ x # a + 1
  BY <1>1
<1> HIDE DEF E, C, a
<1>4. s.m.file.entry < a + 1 /\ s.m.file.entry <= a + 1 /\ s.m.file.entry # a + 1
  BY <1>1, <1>2, <1>3
<1>5. s.m.next.entry < a + 1 /\ s.m.next.entry <= a + 1 /\ s.m.next.entry # a + 1
  BY <1>1, <1>2, <1>3
<1>6. \A i \in DOMAIN E : E[i].entry < a + 1 /\ E[i].entry <= a + 1 /\ E[i].entry # a + 1
  BY <1>1, <1>2, <1>3
<1>7. \A i \in DOMAIN C : C[i].entry < a + 1 /\ C[i].entry <= a + 1 /\ C[i].entry # a + 1
  BY <1>1, <1>2, <1>3
<1> QED
  BY <1>4, <1>5, <1>6, <1>7 DEF Below, E, C, a

\* mpv takes a stop.
LEMMA TakeStopOrder ==
    ASSUME NEW s \in States, NEW t \in States, Ordered(s), s.m.commands # <<>>,
           t.e = s.e, t.m.commands = Tail(s.m.commands), t.m.next = NoLoad,
           t.m.file = s.m.file, t.m.events = s.m.events
    PROVE  Ordered(t)
<1>1. s.m.commands \in Seq(Loads)
  BY PartsAre
<1>2. \A i \in DOMAIN t.m.commands :
         i + 1 \in DOMAIN s.m.commands /\ t.m.commands[i] = s.m.commands[i + 1] /\ i \in Nat
  BY <1>1, TailIs
<1>3. Coming(t.m.events, t.e.started, t.m)
  <2> SUFFICES ASSUME NEW i \in DOMAIN t.m.commands, t.m.commands[i] # NoLoad
               PROVE  /\ Later(t.m.events, t.e.started, t.m.file, t.m.commands[i].entry)
                      /\ \A j \in DOMAIN t.m.events : t.m.events[j].entry < t.m.commands[i].entry
                      /\ \A j \in DOMAIN t.m.commands : j < i => t.m.commands[j].entry < t.m.commands[i].entry
    BY DEF Coming
  <2>1. \A j \in DOMAIN t.m.commands : j < i => j + 1 < i + 1
    BY <1>2
  <2> QED
    BY <1>2, <2>1 DEF Ordered, Coming
<1>4. Known(t.e, t.m)
  BY <1>2 DEF Ordered, Known, Told
<1> QED
  BY <1>3, <1>4 DEF Ordered

\* mpv takes a load, and answers it.
LEMMA TakeLoadOrder ==
    ASSUME NEW s \in States, NEW t \in States, NEW ev \in Events, Ordered(s), s.m.commands # <<>>,
           Head(s.m.commands) # NoLoad, ev.kind = "reply", ev.entry = Head(s.m.commands).entry,
           t.e = s.e, t.m.commands = Tail(s.m.commands), t.m.next = Head(s.m.commands),
           t.m.file = s.m.file, t.m.events = Append(s.m.events, ev)
    PROVE  Ordered(t)
<1> DEFINE E == s.m.events
           F == t.m.events
           n == s.e.started
           f == s.m.file
           C == s.m.commands
           last == Len(E) + 1
<1>1. /\ E \in Seq(Events) /\ n \in Nat /\ f \in Loads /\ C \in Seq(Loads)
      /\ \A i \in DOMAIN C : C[i] \in Loads /\ C[i].entry \in Nat
  BY PartsAre
<1>2. /\ F \in Seq(Events) /\ Len(F) = last /\ DOMAIN F = 1 .. last /\ DOMAIN E = 1 .. Len(E)
      /\ \A i \in DOMAIN E : i \in DOMAIN F /\ F[i] = E[i] /\ i < last
      /\ F[last] = ev /\ Len(E) \in Nat
      /\ \A i \in DOMAIN F : i \in DOMAIN E \/ i = last
  BY <1>1, AppendIs
<1>3. /\ 1 \in DOMAIN C /\ Head(C) = C[1]
      /\ \A i \in DOMAIN t.m.commands :
            i + 1 \in DOMAIN C /\ t.m.commands[i] = C[i + 1] /\ i \in Nat /\ 1 < i + 1
  BY <1>1, TailIs
<1>4. /\ InTurn(E) /\ Answered(E) /\ BegunBefore(E, n) /\ Open(E, n, f)
      /\ Coming(E, n, s.m) /\ Known(s.e, s.m)
  BY DEF Ordered
<1>5. Later(E, n, f, ev.entry) /\ \A i \in DOMAIN E : E[i].entry < ev.entry
  BY <1>3, <1>4 DEF Coming
<1>6. s.e.current = 0
  BY <1>3, <1>4 DEF Known
<1>7. \A i \in DOMAIN E : E[i] \in Events /\ E[i].entry \in Nat
  BY PartsAre
<1>8. ev.entry \in Nat
  BY <1>1, <1>3
<1> HIDE DEF E, F, f, C
<1>9. InTurn(F)
  BY <1>2, <1>4 DEF InTurn, Own
<1>10. Answered(F)
  BY <1>2, <1>4, <1>5 DEF Answered, Own
<1>11. BegunBefore(F, n)
  <2> SUFFICES ASSUME NEW i \in DOMAIN F
               PROVE  /\ n <= F[i].entry
                      /\ F[i].kind \in {"start", "reply"} => n < F[i].entry
                      /\ F[i].kind \notin {"start", "reply"} =>
                            n = F[i].entry \/ \E j \in DOMAIN F : j < i /\ F[j].kind = "start" /\ F[j].entry = F[i].entry
    BY DEF BegunBefore
  <2>1. CASE i \in DOMAIN E
    BY <1>2, <1>4, <2>1 DEF BegunBefore
  <2>2. CASE i = last
    BY <1>1, <1>2, <1>5, <1>8, <2>2 DEF Later
  <2> QED
    BY <1>2, <2>1, <2>2
<1>12. Open(F, n, f)
  BY <1>2, <1>4 DEF Open, Own
<1>13. Coming(F, n, t.m)
  <2>1. Later(F, n, f, ev.entry)
    BY <1>2, <1>5, <1>8 DEF Later, Own
  <2>2. ASSUME NEW i \in DOMAIN t.m.commands, t.m.commands[i] # NoLoad
        PROVE  /\ Later(F, n, f, t.m.commands[i].entry) /\ ev.entry < t.m.commands[i].entry
               /\ \A j \in DOMAIN F : F[j].entry < t.m.commands[i].entry
               /\ \A j \in DOMAIN t.m.commands : j < i => t.m.commands[j].entry < t.m.commands[i].entry
    <3> DEFINE c == t.m.commands[i].entry
    <3>1. /\ Later(E, n, f, c) /\ \A j \in DOMAIN E : E[j].entry < c
          /\ \A j \in DOMAIN C : j < i + 1 => C[j].entry < c
      BY <1>3, <1>4, <2>2 DEF Coming, C, E, f
    <3>2. c \in Nat
      BY <1>1, <1>3
    <3>3. ev.entry < c
      BY <1>3, <3>1 DEF C
    <3>4. \A j \in DOMAIN t.m.commands : j < i => t.m.commands[j].entry < c
      BY <1>3, <3>1
    <3>5. ev.entry <= c
      BY <1>8, <3>2, <3>3
    <3> HIDE DEF c
    <3>6. Later(F, n, f, c) /\ \A j \in DOMAIN F : F[j].entry < c
      BY <1>2, <3>1, <3>3, <3>5 DEF Later, Own
    <3> QED
      BY <3>3, <3>4, <3>6 DEF c
  <2> QED
    BY <2>1, <2>2 DEF Coming, C, f
<1>14. Known(t.e, t.m)
  <2>1. \A i \in DOMAIN t.m.commands : t.m.commands[i] = C[i + 1] /\ i + 1 \in DOMAIN C
    BY <1>3
  <2>2. \A i \in DOMAIN F : F[i].kind = "start" => i \in DOMAIN E /\ F[i] = E[i]
    BY <1>2
  <2>3. \A i : Told(s.e, E, i) => Told(s.e, F, i)
    BY <1>2 DEF Told
  <2>4. ev.entry = s.e.asked => Told(s.e, F, last + 1)
    BY <1>2 DEF Told, Own
  <2> QED
    BY <1>2, <1>3, <1>4, <1>6, <2>1, <2>2, <2>3, <2>4 DEF Known, E, F, C
<1> QED
  BY <1>9, <1>10, <1>11, <1>12, <1>13, <1>14 DEF Ordered, E, F, f

\* mpv starts the file it holds next.
LEMMA StartOrder ==
    ASSUME NEW s \in States, NEW t \in States, NEW ev \in Events, Ordered(s),
           s.m.next # NoLoad, s.m.file = NoLoad, ev.kind = "start", ev.entry = s.m.next.entry,
           t.e = s.e, t.m.commands = s.m.commands, t.m.next = NoLoad,
           t.m.file = s.m.next, t.m.events = Append(s.m.events, ev)
    PROVE  Ordered(t)
<1> DEFINE E == s.m.events
           F == t.m.events
           n == s.e.started
           last == Len(E) + 1
<1>1. E \in Seq(Events) /\ n \in Nat /\ ev.entry \in Nat
  BY PartsAre
<1>2. /\ F \in Seq(Events) /\ Len(F) = last /\ DOMAIN F = 1 .. last /\ DOMAIN E = 1 .. Len(E)
      /\ \A i \in DOMAIN E : i \in DOMAIN F /\ F[i] = E[i] /\ i < last
      /\ F[last] = ev /\ Len(E) \in Nat
      /\ \A i \in DOMAIN F : i \in DOMAIN E \/ i = last
  BY <1>1, AppendIs
<1>3. /\ InTurn(E) /\ Answered(E) /\ BegunBefore(E, n) /\ Coming(E, n, s.m) /\ Known(s.e, s.m)
  BY DEF Ordered
<1>4. Later(E, n, NoLoad, ev.entry)
  BY <1>3 DEF Coming
<1>5. \A i \in DOMAIN E : E[i] \in Events /\ E[i].entry \in Nat
  BY PartsAre
<1> HIDE DEF E, F
<1>6. InTurn(F)
  BY <1>1, <1>2, <1>3, <1>4, <1>5 DEF InTurn, Own, Later
<1>7. Answered(F)
  BY <1>2, <1>3, <1>4 DEF Answered, Own, Later
<1>8. BegunBefore(F, n)
  <2> SUFFICES ASSUME NEW i \in DOMAIN F
               PROVE  /\ n <= F[i].entry
                      /\ F[i].kind \in {"start", "reply"} => n < F[i].entry
                      /\ F[i].kind \notin {"start", "reply"} =>
                            n = F[i].entry \/ \E j \in DOMAIN F : j < i /\ F[j].kind = "start" /\ F[j].entry = F[i].entry
    BY DEF BegunBefore
  <2>1. CASE i \in DOMAIN E
    BY <1>2, <1>3, <2>1 DEF BegunBefore
  <2>2. CASE i = last
    BY <1>1, <1>2, <1>4, <2>2 DEF Later
  <2> QED
    BY <1>2, <2>1, <2>2
<1>9. Open(F, n, s.m.next)
  <2>1. n <= ev.entry /\ n < ev.entry
    BY <1>1, <1>4 DEF Later
  <2>2. F[last].kind = "start" /\ F[last].entry = s.m.next.entry /\ last \in DOMAIN F
    BY <1>2
  <2>3. \A i \in DOMAIN F : Own(F[i]) => F[i].entry <= ev.entry /\ (F[i].entry = ev.entry => F[i].kind # "end")
    <3>1. \A i \in DOMAIN E : Own(E[i]) => E[i].entry < ev.entry
      BY <1>4 DEF Later
    <3> QED
      BY <1>1, <1>2, <1>5, <3>1
  <2> QED
    BY <2>1, <2>2, <2>3 DEF Open
<1>10. Coming(F, n, t.m)
  <2> SUFFICES ASSUME NEW i \in DOMAIN s.m.commands, s.m.commands[i] # NoLoad
               PROVE  /\ Later(F, n, s.m.next, s.m.commands[i].entry)
                      /\ \A j \in DOMAIN F : F[j].entry < s.m.commands[i].entry
                      /\ \A j \in DOMAIN s.m.commands : j < i => s.m.commands[j].entry < s.m.commands[i].entry
    BY DEF Coming
  <2> DEFINE c == s.m.commands[i].entry
  <2>1. /\ Later(E, n, NoLoad, c) /\ \A j \in DOMAIN E : E[j].entry < c
        /\ \A j \in DOMAIN s.m.commands : j < i => s.m.commands[j].entry < c
        /\ s.m.next.entry < c
    BY <1>3 DEF Coming, E
  <2>2. c \in Nat /\ ev.entry <= c
    <3>1. c \in Nat
      BY PartsAre
    <3> QED
      BY <1>1, <2>1, <3>1
  <2> HIDE DEF c
  <2>3. Later(F, n, s.m.next, c) /\ \A j \in DOMAIN F : F[j].entry < c
    BY <1>2, <2>1, <2>2 DEF Later, Own
  <2> QED
    BY <2>1, <2>3 DEF c
<1>11. Known(t.e, t.m)
  <2>1. \A i : Told(s.e, E, i) => Told(s.e, F, i)
    BY <1>2 DEF Told
  <2>2. ev.entry = s.e.asked => Told(s.e, F, last)
    BY <1>2, <1>3, <2>1 DEF Known, E
  <2> QED
    BY <1>2, <1>3, <2>1, <2>2 DEF Known, E, F
<1> QED
  BY <1>6, <1>7, <1>8, <1>9, <1>10, <1>11 DEF Ordered, F

\* What is left when the first of what is told has been read.
LEMMA ReadKeeps ==
    ASSUME NEW E \in Seq(Events), E # <<>>, InTurn(E), Answered(E)
    PROVE  /\ Tail(E) \in Seq(Events) /\ InTurn(Tail(E)) /\ Answered(Tail(E))
           /\ \A n, f, x : Later(E, n, f, x) => Later(Tail(E), n, f, x)
<1> DEFINE F == Tail(E)
<1>1. /\ F \in Seq(Events)
      /\ \A i \in DOMAIN F : i + 1 \in DOMAIN E /\ F[i] = E[i + 1] /\ i \in Nat
  BY TailIs
<1>2. \A i, j \in DOMAIN F : i < j => i + 1 < j + 1
  BY <1>1
<1> HIDE DEF F
<1>3. InTurn(F) /\ Answered(F)
  BY <1>1, <1>2 DEF InTurn, Answered
<1>4. \A n, f, x : Later(E, n, f, x) => Later(F, n, f, x)
  BY <1>1 DEF Later
<1> QED
  BY <1>1, <1>3, <1>4 DEF F

LEMMA ReadComing ==
    ASSUME NEW E \in Seq(Events), E # <<>>, InTurn(E), Answered(E), NEW n, NEW m, Coming(E, n, m)
    PROVE  Coming(Tail(E), n, m)
<1>1. \A i \in DOMAIN Tail(E) : i + 1 \in DOMAIN E /\ Tail(E)[i] = E[i + 1]
  BY TailIs
<1> QED
  BY <1>1, ReadKeeps DEF Coming

\* An answer, or the word on the file that has started.
LEMMA ReadOrder ==
    ASSUME NEW s \in States, NEW t \in States, Ordered(s), s.m.events # <<>>,
           Head(s.m.events).kind # "start",
           Head(s.m.events).kind = "reply" => Head(s.m.events).entry # s.e.asked,
           SameOrder(s, t), t.m.file = s.m.file, t.m.events = Tail(s.m.events)
    PROVE  Ordered(t)
<1> DEFINE E == s.m.events
           F == Tail(E)
           n == s.e.started
<1>1. E \in Seq(Events) /\ n \in Nat
  BY PartsAre
<1>2. /\ F \in Seq(Events) /\ E[1] = Head(E) /\ 1 \in DOMAIN E
      /\ \A i \in DOMAIN F : i + 1 \in DOMAIN E /\ F[i] = E[i + 1] /\ i \in Nat \ {0}
      /\ \A i \in DOMAIN E : i # 1 => i - 1 \in DOMAIN F /\ F[i - 1] = E[i] /\ i > 1
      /\ Len(F) + 1 = Len(E) /\ Len(E) \in Nat /\ Len(F) \in Nat
      /\ \A i \in DOMAIN E : i \in Nat
  BY <1>1, TailIs
<1>3. /\ InTurn(E) /\ Answered(E) /\ BegunBefore(E, n) /\ Open(E, n, s.m.file)
      /\ Coming(E, n, s.m) /\ Known(s.e, s.m)
  BY DEF Ordered
<1>4. InTurn(F) /\ Answered(F) /\ Coming(F, n, s.m)
  BY <1>1, <1>3, ReadKeeps, ReadComing
<1>5. E[1].kind # "start" /\ (E[1].kind = "reply" => E[1].entry # s.e.asked)
  BY <1>2
<1> HIDE DEF E, F
<1>6. BegunBefore(F, n)
  <2> SUFFICES ASSUME NEW i \in DOMAIN F, F[i].kind \notin {"start", "reply"}, n # F[i].entry
               PROVE  \E j \in DOMAIN F : j < i /\ F[j].kind = "start" /\ F[j].entry = F[i].entry
    BY <1>2, <1>3 DEF BegunBefore
  <2>1. PICK j \in DOMAIN E : j < i + 1 /\ E[j].kind = "start" /\ E[j].entry = E[i + 1].entry
    BY <1>2, <1>3 DEF BegunBefore
  <2>2. j # 1
    BY <1>5, <2>1
  <2>3. j - 1 \in DOMAIN F /\ F[j - 1] = E[j] /\ j - 1 < i
    BY <1>2, <2>1, <2>2
  <2> QED
    BY <1>2, <2>1, <2>3
<1>7. Open(F, n, s.m.file)
  BY <1>2, <1>3, <1>5 DEF Open
<1>8. Known(t.e, t.m)
  <2>1. \A i \in Nat : Told(s.e, E, i + 1) => Told(s.e, F, i)
    <3> SUFFICES ASSUME NEW i \in Nat, NEW j \in DOMAIN E, j < i + 1, ~Own(E[j]), E[j].entry = s.e.asked
                 PROVE  \E k \in DOMAIN F : k < i /\ ~Own(F[k]) /\ F[k].entry = s.e.asked
      BY DEF Told
    <3>1. j # 1
      BY <1>5 DEF Own
    <3>2. j - 1 \in DOMAIN F /\ F[j - 1] = E[j] /\ j - 1 < i
      BY <1>2, <3>1
    <3> QED
      BY <3>2
  <2>2. Told(s.e, E, Len(E) + 1) => Told(s.e, F, Len(F) + 1)
    <3>1. Len(F) + 1 \in Nat /\ (Len(F) + 1) + 1 = Len(E) + 1
      BY <1>2
    <3> QED
      BY <2>1, <3>1
  <2>3. \A i : Told(t.e, F, i) <=> Told(s.e, F, i)
    BY DEF Told, SameOrder
  <2>4. \A i \in DOMAIN F : F[i].kind = "start" /\ F[i].entry = s.e.asked => Told(s.e, F, i)
    BY <1>2, <1>3, <2>1 DEF Known, E
  <2>5. s.m.next # NoLoad /\ s.m.next.entry = s.e.asked => Told(s.e, F, Len(F) + 1)
    BY <1>3, <2>2 DEF Known, E
  <2>6. s.e.current = -1 => \A i \in DOMAIN F : F[i].kind = "start" => F[i].entry = s.e.asked
    BY <1>2, <1>3 DEF Known, E
  <2> QED
    BY <1>3, <2>3, <2>4, <2>5, <2>6 DEF Known, SameOrder, E, F
<1> QED
  BY <1>4, <1>6, <1>7, <1>8 DEF Ordered, SameOrder, Coming, E, F

\* A start is read.
LEMMA ReadStartOrder ==
    ASSUME NEW s \in States, NEW t \in States, Ordered(s), s.m.events # <<>>,
           Head(s.m.events).kind = "start", s.e.current > 0 => s.e.current = s.e.asked,
           t.e.asked = s.e.asked, t.e.started = Head(s.m.events).entry,
           t.e.current = IF s.e.current = -1 THEN Head(s.m.events).entry ELSE s.e.current,
           s.e.current >= -1,
           t.m.commands = s.m.commands, t.m.next = s.m.next, t.m.file = s.m.file,
           t.m.events = Tail(s.m.events)
    PROVE  Ordered(t)
<1> DEFINE E == s.m.events
           F == Tail(E)
           n == s.e.started
           h == E[1].entry
<1>1. E \in Seq(Events) /\ n \in Nat /\ s.e.asked \in Nat /\ s.e.current \in Int
  BY PartsAre
<1>2. /\ F \in Seq(Events) /\ E[1] = Head(E) /\ 1 \in DOMAIN E
      /\ \A i \in DOMAIN F : i + 1 \in DOMAIN E /\ F[i] = E[i + 1] /\ i \in Nat \ {0} /\ 1 < i + 1
      /\ \A i \in DOMAIN E : i # 1 => i - 1 \in DOMAIN F /\ F[i - 1] = E[i] /\ i > 1
      /\ Len(F) + 1 = Len(E) /\ Len(E) \in Nat /\ Len(F) \in Nat
      /\ \A i \in DOMAIN E : i \in Nat
  BY <1>1, TailIs
<1>3. /\ InTurn(E) /\ Answered(E) /\ BegunBefore(E, n) /\ Open(E, n, s.m.file)
      /\ Coming(E, n, s.m) /\ Known(s.e, s.m)
  BY DEF Ordered
<1>4. InTurn(F) /\ Answered(F) /\ Coming(F, n, s.m)
  BY <1>1, <1>3, ReadKeeps, ReadComing
<1>5. \A i \in DOMAIN E : E[i].entry \in Nat \ {0}
  BY PartsAre
<1>6. E[1].kind = "start" /\ h \in Nat \ {0} /\ n < h
  BY <1>2, <1>3, <1>5 DEF BegunBefore
<1> HIDE DEF E, F
<1>7. \A i \in DOMAIN F : h <= F[i].entry /\ (F[i].kind \in {"start", "reply"} => h < F[i].entry)
  <2> SUFFICES ASSUME NEW i \in DOMAIN F
               PROVE  h <= E[i + 1].entry /\ (E[i + 1].kind \in {"start", "reply"} => h < E[i + 1].entry)
    BY <1>2
  <2>1. i + 1 \in DOMAIN E /\ 1 < i + 1 /\ E[i + 1].entry \in Nat
    BY <1>2, <1>5
  <2>2. CASE Own(E[i + 1])
    BY <1>2, <1>3, <1>6, <2>1, <2>2 DEF InTurn, Own
  <2>3. CASE ~Own(E[i + 1])
    BY <1>2, <1>3, <1>6, <2>1, <2>3 DEF Answered
  <2> QED
    BY <2>2, <2>3
<1>8. BegunBefore(F, h)
  <2> SUFFICES ASSUME NEW i \in DOMAIN F, F[i].kind \notin {"start", "reply"}, h # F[i].entry
               PROVE  \E j \in DOMAIN F : j < i /\ F[j].kind = "start" /\ F[j].entry = F[i].entry
    BY <1>7 DEF BegunBefore
  <2>1. n # E[i + 1].entry
    <3>1. h <= E[i + 1].entry /\ E[i + 1].entry \in Nat
      BY <1>2, <1>5, <1>7
    <3> QED
      BY <1>1, <1>6, <3>1
  <2>2. PICK j \in DOMAIN E : j < i + 1 /\ E[j].kind = "start" /\ E[j].entry = E[i + 1].entry
    BY <1>2, <1>3, <2>1 DEF BegunBefore
  <2>3. j # 1
    BY <1>2, <2>2
  <2>4. j - 1 \in DOMAIN F /\ F[j - 1] = E[j] /\ j - 1 < i
    BY <1>2, <2>2, <2>3
  <2> QED
    BY <1>2, <2>2, <2>4
<1>9. s.m.file # NoLoad => h <= s.m.file.entry /\ n # s.m.file.entry
  <2>1. s.m.file # NoLoad => h <= s.m.file.entry
    BY <1>2, <1>3, <1>6 DEF Open, Own
  <2>2. s.m.file.entry \in Nat
    BY PartsAre
  <2> QED
    BY <1>1, <1>6, <2>1, <2>2
<1>10. Open(F, h, s.m.file)
  <2> SUFFICES ASSUME s.m.file # NoLoad PROVE Open(F, h, s.m.file)
    BY DEF Open
  <2>1. PICK j \in DOMAIN E : E[j].kind = "start" /\ E[j].entry = s.m.file.entry
    BY <1>3, <1>9 DEF Open
  <2>2. h = s.m.file.entry \/ \E i \in DOMAIN F : F[i].kind = "start" /\ F[i].entry = s.m.file.entry
    BY <1>2, <2>1
  <2>3. \A i \in DOMAIN F : Own(F[i]) =>
            F[i].entry <= s.m.file.entry /\ (F[i].entry = s.m.file.entry => F[i].kind # "end")
    BY <1>2, <1>3 DEF Open
  <2> QED
    BY <1>9, <2>2, <2>3 DEF Open
<1>11. \A x : Later(E, n, s.m.file, x) => Later(F, h, s.m.file, x)
  <2> SUFFICES ASSUME NEW x, Later(E, n, s.m.file, x) PROVE Later(F, h, s.m.file, x)
    OBVIOUS
  <2>1. h < x
    BY <1>2, <1>6 DEF Later, Own
  <2>2. Later(F, n, s.m.file, x)
    BY <1>1, <1>2, <1>3, ReadKeeps DEF F
  <2> QED
    BY <2>1, <2>2 DEF Later
<1>12. Coming(F, h, t.m)
  BY <1>2, <1>3, <1>11 DEF Coming
<1>13. Known(t.e, t.m)
  <2>1. \A i \in Nat : Told(s.e, E, i + 1) => Told(s.e, F, i)
    <3> SUFFICES ASSUME NEW i \in Nat, NEW j \in DOMAIN E, j < i + 1, ~Own(E[j]), E[j].entry = s.e.asked
                 PROVE  \E k \in DOMAIN F : k < i /\ ~Own(F[k]) /\ F[k].entry = s.e.asked
      BY DEF Told
    <3>1. j # 1
      BY <1>6 DEF Own
    <3>2. j - 1 \in DOMAIN F /\ F[j - 1] = E[j] /\ j - 1 < i
      BY <1>2, <3>1
    <3> QED
      BY <3>2
  <2>2. h = s.e.asked => s.e.current # 0
    <3> SUFFICES ASSUME h = s.e.asked PROVE s.e.current # 0
      OBVIOUS
    <3>1. Told(s.e, E, 1)
      BY <1>2, <1>3, <1>6 DEF Known, E
    <3> QED
      BY <1>2, <3>1 DEF Told
  <2>3. s.e.current = -1 => h = s.e.asked
    BY <1>2, <1>3, <1>6 DEF Known, E
  <2>4. /\ t.e.current # -1
        /\ t.e.current # 0 <=> s.e.current # 0
        /\ h = s.e.asked => t.e.current = s.e.asked
    <3>1. t.e.current = IF s.e.current = -1 THEN h ELSE s.e.current
      BY <1>2 DEF E
    <3>2. h \in Nat \ {0} /\ s.e.current \in Int
      BY <1>1, <1>6
    <3>3. CASE s.e.current = -1
      BY <2>3, <3>1, <3>2, <3>3
    <3>4. CASE s.e.current # -1
      BY <2>2, <3>1, <3>2, <3>4
    <3> QED
      BY <3>3, <3>4
  <2>5. \A i : Told(s.e, F, i) <=> Told(t.e, F, i)
    BY <2>4 DEF Told
  <2>6. \A i \in DOMAIN F : F[i].kind = "start" /\ F[i].entry = s.e.asked => Told(s.e, F, i)
    BY <1>2, <1>3, <2>1 DEF Known, E
  <2>7. s.m.next # NoLoad /\ s.m.next.entry = s.e.asked => Told(s.e, F, Len(F) + 1)
    <3>1. Len(F) + 1 \in Nat /\ (Len(F) + 1) + 1 = Len(E) + 1
      BY <1>2
    <3> QED
      BY <1>3, <2>1, <3>1 DEF Known, E
  <2> QED
    BY <1>2, <1>3, <2>4, <2>5, <2>6, <2>7 DEF Known, E, F
<1> QED
  BY <1>2, <1>4, <1>8, <1>10, <1>12, <1>13 DEF Ordered, E, F

\* The answer to the load last asked for is read.
LEMMA ReadAnswerOrder ==
    ASSUME NEW s \in States, NEW t \in States, Ordered(s), Bounded(s), s.m.events # <<>>,
           Head(s.m.events).kind = "reply", Head(s.m.events).entry = s.e.asked,
           t.e.asked = s.e.asked, t.e.started = s.e.started, t.e.current \in {s.e.asked, -1},
           t.m.commands = s.m.commands, t.m.next = s.m.next, t.m.file = s.m.file,
           t.m.events = Tail(s.m.events)
    PROVE  Ordered(t)
<1> DEFINE E == s.m.events
           F == Tail(E)
           n == s.e.started
<1>1. E \in Seq(Events) /\ n \in Nat /\ s.e.asked \in Nat
  BY PartsAre
<1>2. /\ F \in Seq(Events) /\ E[1] = Head(E) /\ 1 \in DOMAIN E
      /\ \A i \in DOMAIN F : i + 1 \in DOMAIN E /\ F[i] = E[i + 1] /\ i \in Nat \ {0} /\ 1 < i + 1
      /\ \A i \in DOMAIN E : i # 1 => i - 1 \in DOMAIN F /\ F[i - 1] = E[i] /\ i > 1
      /\ \A i \in DOMAIN E : i \in Nat
  BY <1>1, TailIs
<1>3. /\ InTurn(E) /\ Answered(E) /\ BegunBefore(E, n) /\ Open(E, n, s.m.file)
      /\ Coming(E, n, s.m) /\ Known(s.e, s.m)
  BY DEF Ordered
<1>4. InTurn(F) /\ Answered(F) /\ Coming(F, n, s.m)
  BY <1>1, <1>3, ReadKeeps, ReadComing
<1>5. \A i \in DOMAIN E : E[i].entry \in Nat \ {0}
  BY PartsAre
<1>6. E[1].kind = "reply" /\ E[1].entry = s.e.asked /\ s.e.asked > 0 /\ n < s.e.asked
  BY <1>1, <1>2, <1>3, <1>5 DEF BegunBefore
<1>7. \A i \in DOMAIN E : E[i].entry <= s.e.asked
  BY DEF Bounded
<1>8. \A i \in DOMAIN s.m.commands : s.m.commands[i].entry <= s.e.asked /\ s.m.commands[i].entry \in Nat
  BY PartsAre DEF Bounded
<1>9. s.m.next.entry <= s.e.asked /\ s.m.next.entry \in Nat
  BY PartsAre DEF Bounded
<1> HIDE DEF E, F
<1>10. BegunBefore(F, n)
  <2> SUFFICES ASSUME NEW i \in DOMAIN F, F[i].kind \notin {"start", "reply"}, n # F[i].entry
               PROVE  \E j \in DOMAIN F : j < i /\ F[j].kind = "start" /\ F[j].entry = F[i].entry
    BY <1>2, <1>3 DEF BegunBefore
  <2>1. PICK j \in DOMAIN E : j < i + 1 /\ E[j].kind = "start" /\ E[j].entry = E[i + 1].entry
    BY <1>2, <1>3 DEF BegunBefore
  <2>2. j # 1
    BY <1>6, <2>1
  <2>3. j - 1 \in DOMAIN F /\ F[j - 1] = E[j] /\ j - 1 < i
    BY <1>2, <2>1, <2>2
  <2> QED
    BY <1>2, <2>1, <2>3
<1>11. Open(F, n, s.m.file)
  BY <1>2, <1>3, <1>6 DEF Open
<1>12. Known(t.e, t.m)
  <2>1. t.e.current # 0
    BY <1>1, <1>6
  <2>2. \A i : Told(t.e, F, i)
    BY <2>1 DEF Told
  <2>3. \A i \in DOMAIN s.m.commands : s.m.commands[i] = NoLoad
    <3> SUFFICES ASSUME NEW i \in DOMAIN s.m.commands, s.m.commands[i] # NoLoad PROVE FALSE
      OBVIOUS
    <3>1. E[1].entry < s.m.commands[i].entry
      BY <1>2, <1>3 DEF Coming
    <3> QED
      BY <1>1, <1>6, <1>8, <3>1
  <2>4. s.m.next # NoLoad => s.m.next.entry = s.e.asked
    <3> SUFFICES ASSUME s.m.next # NoLoad PROVE s.m.next.entry = s.e.asked
      OBVIOUS
    <3>1. E[1].entry <= s.m.next.entry
      BY <1>2, <1>3 DEF Coming, Later
    <3> QED
      BY <1>1, <1>6, <1>9, <3>1
  <2>5. \A i \in DOMAIN F : F[i].kind = "start" => F[i].entry = s.e.asked
    <3> SUFFICES ASSUME NEW i \in DOMAIN F, F[i].kind = "start" PROVE F[i].entry = s.e.asked
      OBVIOUS
    <3>1. i + 1 \in DOMAIN E /\ F[i] = E[i + 1] /\ 1 < i + 1
      BY <1>2
    <3>2. E[1].entry <= E[i + 1].entry
      BY <1>2, <1>3, <1>6, <3>1 DEF Answered, Own
    <3> QED
      BY <1>1, <1>5, <1>6, <1>7, <3>1, <3>2
  <2>6. s.e.started # s.e.asked
    BY <1>1, <1>6
  <2> QED
    BY <2>2, <2>3, <2>4, <2>5, <2>6 DEF Known, E, F
<1> QED
  BY <1>4, <1>10, <1>11, <1>12 DEF Ordered, Coming, E, F

\* Another file is asked for, or none.
LEMMA BumpOrder ==
    ASSUME NEW s \in States, NEW t, NEW load \in Loads, Ordered(s), Bounded(s), Bumped(s, t, load),
           load = NoLoad \/ load.entry = s.e.asked + 1, s.e.started <= s.e.asked
    PROVE  Ordered(t)
<1> DEFINE E == s.m.events
           n == s.e.started
           f == s.m.file
           C == s.m.commands
           x == s.e.asked + 1
           last == Len(C) + 1
<1>1. /\ E \in Seq(Events) /\ n \in Nat /\ s.e.asked \in Nat /\ C \in Seq(Loads) /\ f.entry \in Nat
      /\ s.m.next.entry \in Nat
      /\ \A i \in DOMAIN C : C[i].entry \in Nat
      /\ \A i \in DOMAIN E : E[i].entry \in Nat
  BY PartsAre
<1>2. /\ t.m.commands = Append(C, load) /\ DOMAIN t.m.commands = 1 .. last /\ DOMAIN C = 1 .. Len(C)
      /\ \A i \in DOMAIN C : t.m.commands[i] = C[i] /\ i < last
      /\ t.m.commands[last] = load
      /\ \A i \in DOMAIN t.m.commands : i \in DOMAIN C \/ i = last
  BY <1>1, AppendIs DEF Bumped
<1>3. /\ InTurn(E) /\ Answered(E) /\ BegunBefore(E, n) /\ Open(E, n, f)
      /\ Coming(E, n, s.m) /\ Known(s.e, s.m)
  BY DEF Ordered
<1>4. /\ t.m.events = E /\ t.m.file = f /\ t.m.next = s.m.next /\ t.e.started = n
      /\ t.e.asked = x /\ t.e.current = 0
  BY DEF Bumped
<1>5. /\ \A i \in DOMAIN E : E[i].entry < x /\ E[i].entry <= x
      /\ f.entry < x /\ s.m.next.entry < x /\ n < x
      /\ \A i \in DOMAIN C : C[i].entry < x
  BY <1>1, BelowNext DEF Below
<1> HIDE DEF E, C, f
<1>6. Later(E, n, f, x)
  BY <1>5 DEF Later
<1>7. Coming(E, n, t.m)
  <2>1. t.m.next # NoLoad => Later(E, n, f, t.m.next.entry)
    BY <1>3, <1>4 DEF Coming, E, f
  <2>2. ASSUME NEW i \in DOMAIN t.m.commands, t.m.commands[i] # NoLoad
        PROVE  /\ Later(E, n, f, t.m.commands[i].entry)
               /\ t.m.next # NoLoad => t.m.next.entry < t.m.commands[i].entry
               /\ \A j \in DOMAIN E : E[j].entry < t.m.commands[i].entry
               /\ \A j \in DOMAIN t.m.commands : j < i => t.m.commands[j].entry < t.m.commands[i].entry
    <3>1. CASE i \in DOMAIN C
      <4>1. \A j \in DOMAIN t.m.commands : j < i => j \in DOMAIN C
        BY <1>1, <1>2, <3>1
      <4> QED
        BY <1>2, <1>3, <1>4, <2>2, <3>1, <4>1 DEF Coming, C, E, f
    <3>2. CASE i = last
      <4>1. t.m.commands[i].entry = x
        BY <1>2, <2>2, <3>2
      <4>2. \A j \in DOMAIN t.m.commands : j < i => j \in DOMAIN C
        BY <1>1, <1>2, <3>2
      <4> QED
        BY <1>2, <1>4, <1>5, <1>6, <4>1, <4>2
    <3> QED
      BY <1>2, <3>1, <3>2
  <2> QED
    BY <1>4, <2>1, <2>2 DEF Coming
<1>8. Known(t.e, t.m)
  <2>1. /\ \A i \in DOMAIN E : E[i].entry # x
        /\ s.m.next.entry # x /\ n # x
    BY <1>1, <1>5
  <2> QED
    BY <1>4, <2>1 DEF Known
<1> QED
  BY <1>3, <1>4, <1>7, <1>8 DEF Ordered

-----------------------------------------------------------------------------
(* The rest of the invariant, over what the helpers do.                     *)

LEMMA LiveIs ==
    /\ Live = {"asked", "open", "sounding"} /\ Over = {"ended", "failed"}
    /\ Live \subseteq Words /\ Over \subseteq Words
    /\ Live \cap Over = {} /\ "nothing" \notin Live \cup Over
BY DEF Live, Over, Words, Promise!Live, Promise!Over

\* With the end of the latest still to be read, nothing is open.
LEMMA NothingOpen ==
    ASSUME NEW s, NEW n, Typed(s, n), Ordered(s), Latest(s, n),
           NEW i \in DOMAIN s.m.events, Unplayed(s.e, s.m.events[i])
    PROVE  s.m.file = NoLoad /\ ~s.m.track /\ Fresh(s.e, s.m)
<1>1. s \in States
  BY DEF Typed
<1>2. s.m.file = NoLoad
  <2> SUFFICES ASSUME s.m.file # NoLoad PROVE FALSE
    OBVIOUS
  <2>1. s.e.asked <= s.m.file.entry /\ s.e.asked # s.m.file.entry
    BY DEF Ordered, Open, Unplayed, Own
  <2>2. s.m.file.entry <= s.e.asked
    BY DEF Latest, MyLoad, Mine
  <2> QED
    BY <1>1, <2>1, <2>2, PartsAre
<1> QED
  BY <1>2 DEF Typed, Fresh

\* What changes nothing but the effects.
LEMMA KinSound ==
    ASSUME NEW s, NEW t, NEW n, Almost(s, n), Kin(s, t),
           Fresh(s.e, s.m) => Given(t.e) /\ (t.e.broken => s.e.broken \/ s.m.track)
    PROVE  EngineSound(t, n)
<1> USE DEF Almost
<1>1. s \in States /\ t \in States /\ SameMembers(s.e, t.e) /\ SameFiles(s.m, t.m) /\ t.said = s.said
  BY DEF Typed, Kin
<1>2. Typed(t, n)
  BY <1>1 DEF Typed, SameMembers, SameFiles
<1>3. Ordered(t)
  BY <1>1, OrderKept DEF SameOrder, SameMembers, SameFiles
<1>4. Latest(t, n)
  BY <1>1 DEF Latest, MyLoad, Mine, SameMembers, SameFiles
<1>5. Fresh(t.e, t.m) <=> Fresh(s.e, s.m)
  BY <1>1 DEF Fresh, Unplayed, SameMembers, SameFiles
<1>6. Fresh(t.e, t.m) => Unheard(t.e, t.m)
  BY <1>1, <1>5 DEF Spared, Unheard, SameMembers, SameFiles
<1>7. SetUpFirst(t.e, t.m)
  <2> SUFFICES ASSUME NEW i \in DOMAIN t.m.events, Unplayed(t.e, t.m.events[i]), t.e.last.song \in Decodable
               PROVE  /\ ~t.e.broken /\ ~t.e.retrying
                      /\ t.e.setUp \/ \E j \in DOMAIN t.m.events :
                              j < i /\ t.m.events[j].kind = "reconfig" /\ t.m.events[j].entry = t.e.asked
    BY DEF SetUpFirst
  <2>1. i \in DOMAIN s.m.events /\ Unplayed(s.e, s.m.events[i]) /\ s.e.last.song \in Decodable
    BY <1>1 DEF Unplayed, SameMembers, SameFiles
  <2>2. ~s.m.track /\ Fresh(s.e, s.m)
    BY <2>1, NothingOpen
  <2>3. /\ ~s.e.broken /\ ~s.e.retrying
        /\ s.e.setUp \/ \E j \in DOMAIN s.m.events :
                              j < i /\ s.m.events[j].kind = "reconfig" /\ s.m.events[j].entry = s.e.asked
    BY <2>1 DEF Spared, SetUpFirst
  <2> QED
    BY <1>1, <2>2, <2>3 DEF SameMembers, SameFiles
<1>8. t.e.given = t.m.af
  BY DEF Spared, Kin
<1> QED
  BY <1>2, <1>3, <1>4, <1>5, <1>6, <1>7, <1>8 DEF EngineSound, Spared

\* Another file is asked for, by the listener or without the effects.
LEMMA LoadSound ==
    ASSUME NEW s, NEW t, NEW n, NEW k \in Nat, NEW load \in Loads, EngineSound(s, n), Bumped(s, t, load),
           load.entry = s.e.asked + 1, load.ask = k, t.e.last = load,
           t.said.of = k, t.said.what \in Live, ~t.e.verified, Given(t.e),
           t.e.asked < MaxLoads \/ (t.e.retrying /\ t.e.asked = MaxLoads)
    PROVE  EngineSound(t, k)
<1> USE DEF EngineSound, Almost
<1>1. s \in States /\ t \in States
  BY DEF Typed, Bumped
<1>2. Bounded(s)
  BY BoundedIs
<1>3. Ordered(t)
  BY <1>1, <1>2, BumpOrder DEF Typed
<1>4. /\ s.e.asked \in Nat /\ s.e.started \in Nat /\ t.e.asked = s.e.asked + 1 /\ t.e.current = 0
      /\ t.e.started = s.e.started /\ ~t.e.restarted
      /\ t.m.events = s.m.events /\ t.m.file = s.m.file /\ t.m.next = s.m.next
      /\ t.m.commands = Append(s.m.commands, load)
  BY <1>1, PartsAre DEF Bumped
<1>5. MaxLoads \in Nat
  BY MpvEngineAssumption
<1>6. Typed(t, k)
  BY <1>1, <1>4, <1>5 DEF Typed, Bumped
<1>7. /\ \A i \in DOMAIN s.m.events : s.m.events[i].entry <= t.e.asked /\ s.m.events[i].entry # t.e.asked
      /\ s.m.file.entry <= t.e.asked /\ s.m.file.entry # t.e.asked
      /\ s.m.next.entry <= t.e.asked /\ s.m.next.entry # t.e.asked
      /\ \A i \in DOMAIN s.m.commands :
            s.m.commands[i].entry <= t.e.asked /\ s.m.commands[i].entry # t.e.asked
  BY <1>1, <1>2, <1>4, BelowNext DEF Below
<1>8. \A i \in DOMAIN t.m.commands :
         t.m.commands[i] = load \/ (i \in DOMAIN s.m.commands /\ t.m.commands[i] = s.m.commands[i])
  BY <1>1, <1>4, PartsAre, AppendIs
<1>9. Latest(t, k)
  <2>1. Mine(t, k, load)
    BY <1>4 DEF Mine
  <2>2. \A i \in DOMAIN t.m.commands : MyLoad(t, k, t.m.commands[i])
    BY <1>7, <1>8, <2>1 DEF MyLoad, Mine
  <2>3. /\ \A i \in DOMAIN t.m.events : Mine(t, k, t.m.events[i])
        /\ MyLoad(t, k, t.m.file) /\ MyLoad(t, k, t.m.next)
    BY <1>4, <1>7 DEF MyLoad, Mine
  <2>4. t.said.what \notin Over
    BY LiveIs
  <2> QED
    BY <1>4, <2>2, <2>3, <2>4 DEF Latest
<1>10. Spared(t)
  <2>1. Unheard(t.e, t.m)
    BY <1>4, <1>7 DEF Unheard
  <2>2. SetUpFirst(t.e, t.m)
    BY <1>4, <1>7 DEF SetUpFirst, Unplayed
  <2>3. t.e.given = t.m.af
    BY DEF Spared, Bumped
  <2> QED
    BY <2>1, <2>2, <2>3 DEF Spared
<1> QED
  BY <1>3, <1>6, <1>9, <1>10

\* None is.
LEMMA StopSound ==
    ASSUME NEW s, NEW t, NEW n, NEW k \in Nat, EngineSound(s, n), Bumped(s, t, NoLoad),
           t.said.of = k, t.said.what = "nothing", t.e.asked <= MaxLoads
    PROVE  EngineSound(t, k)
<1> USE DEF EngineSound, Almost
<1>1. s \in States /\ t \in States
  BY DEF Typed, Bumped
<1>2. Bounded(s)
  BY BoundedIs
<1>3. NoLoad \in Loads
  BY DEF Loads
<1>4. Ordered(t)
  BY <1>3, <1>1, <1>2, BumpOrder DEF Typed
<1>5. /\ s.e.asked \in Nat /\ s.e.started \in Nat /\ t.e.asked = s.e.asked + 1 /\ t.e.current = 0
      /\ t.e.started = s.e.started /\ ~t.e.restarted
      /\ t.m.events = s.m.events /\ t.m.file = s.m.file /\ t.m.next = s.m.next
      /\ t.m.commands = Append(s.m.commands, NoLoad)
  BY <1>1, PartsAre DEF Bumped
<1>6. Typed(t, k)
  BY <1>1, <1>5 DEF Typed, Bumped
<1>7. /\ \A i \in DOMAIN s.m.events : s.m.events[i].entry <= t.e.asked /\ s.m.events[i].entry # t.e.asked
      /\ s.m.file.entry <= t.e.asked /\ s.m.file.entry # t.e.asked
      /\ s.m.next.entry <= t.e.asked /\ s.m.next.entry # t.e.asked
      /\ \A i \in DOMAIN s.m.commands :
            s.m.commands[i].entry <= t.e.asked /\ s.m.commands[i].entry # t.e.asked
  BY <1>1, <1>2, <1>5, BelowNext DEF Below
<1>8. \A i \in DOMAIN t.m.commands :
         t.m.commands[i] = NoLoad \/ (i \in DOMAIN s.m.commands /\ t.m.commands[i] = s.m.commands[i])
  BY <1>3, <1>1, <1>5, PartsAre, AppendIs
<1>9. Latest(t, k)
  <2>1. \A i \in DOMAIN t.m.commands : MyLoad(t, k, t.m.commands[i])
    BY <1>7, <1>8 DEF MyLoad, Mine
  <2>2. /\ \A i \in DOMAIN t.m.events : Mine(t, k, t.m.events[i])
        /\ MyLoad(t, k, t.m.file) /\ MyLoad(t, k, t.m.next)
    BY <1>5, <1>7 DEF MyLoad, Mine
  <2>3. t.said.what \notin Over
    BY LiveIs
  <2> QED
    BY <1>5, <2>1, <2>2, <2>3 DEF Latest
<1>10. ~Fresh(t.e, t.m)
  BY <1>5, <1>7, <1>8 DEF Fresh, Unplayed
<1>11. Spared(t)
  <2>1. SetUpFirst(t.e, t.m)
    BY <1>5, <1>7 DEF SetUpFirst, Unplayed
  <2>2. t.e.given = t.m.af
    BY DEF Spared, Bumped
  <2> QED
    BY <1>10, <2>1, <2>2 DEF Spared
<1> QED
  BY <1>4, <1>6, <1>9, <1>10, <1>11

-----------------------------------------------------------------------------
(* libmpv.                                                                  *)

\* A file that plays is not one of which nothing has sounded.
LEMMA PlayingIsHeard ==
    ASSUME NEW s, NEW n, Typed(s, n), Ordered(s), Latest(s, n),
           s.m.file # NoLoad, s.m.file.entry = s.e.asked, s.m.stage = "playing"
    PROVE  ~Fresh(s.e, s.m)
<1> SUFFICES ASSUME Fresh(s.e, s.m) PROVE FALSE
  OBVIOUS
<1>1. s \in States
  BY DEF Typed
<1>2. \A i \in DOMAIN s.m.events : ~Unplayed(s.e, s.m.events[i])
  BY NothingOpen
<1>3. CASE \E i \in DOMAIN s.m.commands : s.m.commands[i] # NoLoad /\ s.m.commands[i].entry = s.e.asked
  <2>1. PICK i \in DOMAIN s.m.commands : s.m.commands[i] # NoLoad /\ s.m.commands[i].entry = s.e.asked
    BY <1>3
  <2>2. s.m.file.entry < s.m.commands[i].entry
    BY <2>1 DEF Ordered, Coming, Later
  <2> QED
    BY <1>1, <2>1, <2>2, PartsAre
<1>4. CASE s.m.next # NoLoad /\ s.m.next.entry = s.e.asked
  <2>1. s.m.file.entry < s.m.next.entry
    BY <1>4 DEF Ordered, Coming, Later
  <2> QED
    BY <1>1, <1>4, <2>1, PartsAre
<1> QED
  BY <1>2, <1>3, <1>4 DEF Fresh

\* Something is told of the file that is open.
LEMMA TellSound ==
    ASSUME NEW s, NEW t, NEW n, NEW ev \in Events, EngineSound(s, n), Typed(t, n),
           t.e = s.e, t.said = s.said, SameOrder(s, t), t.m.af = s.m.af,
           s.m.file # NoLoad, ev.kind \notin {"reply", "start"},
           ev.entry = s.m.file.entry, ev.ask = s.m.file.ask,
           t.m.events = Append(s.m.events, ev),
           (t.m.file = s.m.file /\ ev.kind # "end") \/ t.m.file = NoLoad,
           t.m.stage \in {"opening", "open"} => s.m.stage \in {"opening", "open"},
           ev.kind = "restart" /\ ev.entry = s.e.asked => t.m.stage = "playing",
           Unplayed(s.e, ev) =>
              /\ s.m.stage \in {"opening", "open"}
              /\ s.e.last.song \in Decodable =>
                    /\ ~s.e.broken /\ ~s.e.retrying
                    /\ \E j \in DOMAIN s.m.events :
                          s.m.events[j].kind = "reconfig" /\ s.m.events[j].entry = s.e.asked
    PROVE  EngineSound(t, n)
<1> USE DEF EngineSound, Almost
<1> DEFINE E == s.m.events
           F == t.m.events
           last == Len(E) + 1
<1>1. s \in States /\ t \in States /\ E \in Seq(Events)
  BY PartsAre DEF Typed
<1>2. /\ F \in Seq(Events) /\ DOMAIN F = 1 .. last /\ DOMAIN E = 1 .. Len(E) /\ Len(E) \in Nat
      /\ \A i \in DOMAIN E : i \in DOMAIN F /\ F[i] = E[i] /\ i < last
      /\ F[last] = ev
      /\ \A i \in DOMAIN F : i \in DOMAIN E \/ i = last
  BY <1>1, AppendIs
<1>3. Ordered(t)
  BY <1>1, TellOrder
<1>4. Mine(s, n, ev)
  BY DEF Latest, MyLoad, Mine
<1>5. Latest(t, n)
  <2>1. \A i \in DOMAIN F : Mine(s, n, F[i])
    BY <1>2, <1>4 DEF Latest
  <2>2. \A r : (Mine(t, n, r) <=> Mine(s, n, r)) /\ (MyLoad(t, n, r) <=> MyLoad(s, n, r))
    BY DEF Mine, MyLoad
  <2>3. MyLoad(t, n, t.m.file)
    BY <2>2 DEF Latest, MyLoad
  <2> QED
    BY <2>1, <2>2, <2>3 DEF Latest, SameOrder
<1>6. Unplayed(s.e, ev) => Fresh(s.e, s.m)
  BY DEF Fresh, Unplayed
<1>7. Fresh(t.e, t.m) => Fresh(s.e, s.m)
  BY <1>2, <1>6 DEF Fresh, SameOrder
<1>8. ev.kind = "restart" /\ ev.entry = s.e.asked => ~Fresh(t.e, t.m)
  BY <1>3, <1>5, PlayingIsHeard DEF Typed
<1>9. Fresh(t.e, t.m) => Unheard(t.e, t.m)
  BY <1>2, <1>7, <1>8 DEF Spared, Unheard
<1>10. SetUpFirst(t.e, t.m)
  <2> SUFFICES ASSUME NEW i \in DOMAIN F, Unplayed(s.e, F[i]), s.e.last.song \in Decodable
               PROVE  /\ ~s.e.broken /\ ~s.e.retrying
                      /\ s.e.setUp \/ \E j \in DOMAIN F :
                              j < i /\ F[j].kind = "reconfig" /\ F[j].entry = s.e.asked
    BY DEF SetUpFirst
  <2>1. CASE i \in DOMAIN E
    <3>1. /\ ~s.e.broken /\ ~s.e.retrying
          /\ s.e.setUp \/ \E j \in DOMAIN E :
                              j < i /\ E[j].kind = "reconfig" /\ E[j].entry = s.e.asked
      BY <1>2, <2>1 DEF Spared, SetUpFirst
    <3> QED
      BY <1>2, <3>1
  <2>2. CASE i = last
    BY <1>2, <2>2
  <2> QED
    BY <1>2, <2>1, <2>2
<1> QED
  BY <1>3, <1>5, <1>7, <1>9, <1>10 DEF Spared

\* mpv takes a command.
LEMMA TakeSound ==
    ASSUME NEW s, NEW t, NEW n, EngineSound(s, n), Typed(t, n), s.m.commands # <<>>,
           t.e = s.e, t.said = s.said, t.m.af = s.m.af, t.m.file = s.m.file, t.m.stage = s.m.stage,
           t.m.commands = Tail(s.m.commands), t.m.next = Head(s.m.commands),
           IF Head(s.m.commands) = NoLoad THEN t.m.events = s.m.events
           ELSE \E ev \in Events :
                   /\ ev.kind = "reply" /\ ev.entry = Head(s.m.commands).entry
                   /\ ev.ask = Head(s.m.commands).ask
                   /\ t.m.events = Append(s.m.events, ev)
    PROVE  EngineSound(t, n)
<1> USE DEF EngineSound, Almost
<1> DEFINE E == s.m.events
           F == t.m.events
           C == s.m.commands
           load == Head(C)
<1>1. s \in States /\ t \in States /\ E \in Seq(Events) /\ C \in Seq(Loads)
  BY PartsAre DEF Typed
<1>2. /\ 1 \in DOMAIN C /\ load = C[1]
      /\ \A i \in DOMAIN t.m.commands : i + 1 \in DOMAIN C /\ t.m.commands[i] = C[i + 1]
  BY <1>1, TailIs
<1>3. MyLoad(s, n, load)
  BY <1>2 DEF Latest
<1>4. /\ Ordered(t)
      /\ \A i \in DOMAIN F : (i \in DOMAIN E /\ F[i] = E[i]) \/ (Mine(s, n, F[i]) /\ F[i].kind = "reply")
      /\ \A i \in DOMAIN E : i \in DOMAIN F /\ F[i] = E[i]
  <2>1. CASE load = NoLoad
    BY <1>1, <2>1, TakeStopOrder
  <2>2. CASE load # NoLoad
    <3>1. PICK ev \in Events : /\ ev.kind = "reply" /\ ev.entry = load.entry
                               /\ ev.ask = load.ask /\ F = Append(E, ev)
      BY <2>2
    <3>2. Ordered(t)
      BY <1>1, <2>2, <3>1, TakeLoadOrder
    <3>3. /\ \A i \in DOMAIN F : (i \in DOMAIN E /\ F[i] = E[i]) \/ F[i] = ev
          /\ \A i \in DOMAIN E : i \in DOMAIN F /\ F[i] = E[i]
      BY <1>1, <3>1, AppendIs
    <3>4. Mine(s, n, ev)
      BY <1>3, <2>2, <3>1 DEF MyLoad, Mine
    <3> QED
      BY <3>1, <3>2, <3>3, <3>4
  <2> QED
    BY <2>1, <2>2
<1> HIDE DEF E, F, C, load
<1>5. Latest(t, n)
  <2>1. \A i \in DOMAIN F : Mine(s, n, F[i])
    BY <1>4 DEF Latest, E
  <2>2. \A r : (Mine(t, n, r) <=> Mine(s, n, r)) /\ (MyLoad(t, n, r) <=> MyLoad(s, n, r))
    BY DEF Mine, MyLoad
  <2>3. MyLoad(s, n, t.m.next)
    BY <1>3 DEF load, C
  <2>4. \A i \in DOMAIN t.m.commands : MyLoad(s, n, t.m.commands[i])
    BY <1>2 DEF Latest, C
  <2> QED
    BY <2>1, <2>2, <2>3, <2>4 DEF Latest, F
<1>6. Fresh(t.e, t.m) => Fresh(s.e, s.m)
  <2> SUFFICES ASSUME Fresh(t.e, t.m) PROVE Fresh(s.e, s.m)
    OBVIOUS
  <2>1. CASE \E i \in DOMAIN t.m.commands : t.m.commands[i] # NoLoad /\ t.m.commands[i].entry = s.e.asked
    BY <1>2, <2>1 DEF Fresh, C
  <2>2. CASE t.m.next # NoLoad /\ t.m.next.entry = s.e.asked
    BY <1>2, <2>2 DEF Fresh, C, load
  <2>3. CASE t.m.file # NoLoad /\ t.m.file.entry = s.e.asked /\ t.m.stage \in {"opening", "open"}
    BY <2>3 DEF Fresh
  <2>4. CASE \E i \in DOMAIN F : Unplayed(s.e, F[i])
    BY <1>4, <2>4 DEF Fresh, Unplayed, E
  <2> QED
    BY <2>1, <2>2, <2>3, <2>4 DEF Fresh, F
<1>7. Fresh(t.e, t.m) => Unheard(t.e, t.m)
  <2>1. \A i \in DOMAIN F : F[i].kind = "restart" => i \in DOMAIN E /\ F[i] = E[i]
    BY <1>4
  <2> QED
    BY <1>6, <2>1 DEF Spared, Unheard, E, F
<1>8. SetUpFirst(t.e, t.m)
  <2>1. \A i \in DOMAIN F : Unplayed(s.e, F[i]) => i \in DOMAIN E /\ F[i] = E[i]
    BY <1>4 DEF Unplayed
  <2> QED
    BY <1>4, <2>1 DEF Spared, SetUpFirst, E, F
<1> QED
  BY <1>4, <1>5, <1>6, <1>7, <1>8 DEF Spared

\* mpv starts the file it was given.
LEMMA StartSound ==
    ASSUME NEW s, NEW t, NEW n, NEW ev \in Events, EngineSound(s, n), Typed(t, n),
           s.m.next # NoLoad, s.m.file = NoLoad,
           t.e = s.e, t.said = s.said, t.m.af = s.m.af, t.m.commands = s.m.commands,
           t.m.next = NoLoad, t.m.file = s.m.next,
           ev.kind = "start", ev.entry = s.m.next.entry, ev.ask = s.m.next.ask,
           t.m.events = Append(s.m.events, ev)
    PROVE  EngineSound(t, n)
<1> USE DEF EngineSound, Almost
<1> DEFINE E == s.m.events
           F == t.m.events
<1>1. s \in States /\ t \in States /\ E \in Seq(Events)
  BY PartsAre DEF Typed
<1>2. /\ \A i \in DOMAIN F : (i \in DOMAIN E /\ F[i] = E[i]) \/ F[i] = ev
      /\ \A i \in DOMAIN E : i \in DOMAIN F /\ F[i] = E[i]
  BY <1>1, AppendIs
<1>3. Ordered(t)
  BY <1>1, StartOrder
<1>4. Mine(s, n, ev)
  BY DEF Latest, MyLoad, Mine
<1> HIDE DEF E, F
<1>5. Latest(t, n)
  <2>1. \A i \in DOMAIN F : Mine(s, n, F[i])
    BY <1>2, <1>4 DEF Latest, E
  <2>2. \A r : (Mine(t, n, r) <=> Mine(s, n, r)) /\ (MyLoad(t, n, r) <=> MyLoad(s, n, r))
    BY DEF Mine, MyLoad
  <2>3. MyLoad(s, n, t.m.next)
    BY DEF MyLoad
  <2> QED
    BY <2>1, <2>2, <2>3 DEF Latest, F
<1>6. Fresh(t.e, t.m) => Fresh(s.e, s.m)
  BY <1>2 DEF Fresh, Unplayed, E, F
<1>7. Fresh(t.e, t.m) => Unheard(t.e, t.m)
  <2>1. \A i \in DOMAIN F : F[i].kind = "restart" => i \in DOMAIN E /\ F[i] = E[i]
    BY <1>2
  <2> QED
    BY <1>6, <2>1 DEF Spared, Unheard, E, F
<1>8. SetUpFirst(t.e, t.m)
  <2>1. \A i \in DOMAIN F : Unplayed(s.e, F[i]) => i \in DOMAIN E /\ F[i] = E[i]
    BY <1>2 DEF Unplayed
  <2> QED
    BY <1>2, <2>1 DEF Spared, SetUpFirst, E, F
<1> QED
  BY <1>3, <1>5, <1>6, <1>7, <1>8 DEF Spared

-----------------------------------------------------------------------------
(* What the engine reads.                                                   *)

LEMMA HeadIs ==
    ASSUME NEW s, NEW n, EngineSound(s, n), s.m.events # <<>>
    PROVE  LET ev == Head(s.m.events)
           IN  /\ ev \in Events /\ ev = s.m.events[1] /\ 1 \in DOMAIN s.m.events /\ Mine(s, n, ev)
               /\ ev.kind \notin {"start", "reply"} => ev.entry = s.e.started
               /\ ev.kind \notin {"start", "reply"} /\ ev.entry = s.e.asked => Started(s.e)
               /\ ev.kind \notin {"start", "reply"} /\ Started(s.e) => ev.entry = s.e.asked
               /\ ev.entry \in Nat \ {0}
<1> USE DEF EngineSound, Almost
<1> DEFINE ev == Head(s.m.events)
<1>1. s \in States /\ s.m.events \in Seq(Events)
  BY PartsAre DEF Typed
<1>2. ev = s.m.events[1] /\ 1 \in DOMAIN s.m.events /\ ev \in Events
  BY <1>1, TailIs
<1>3. ev.entry \in Nat \ {0}
  BY <1>1, <1>2, PartsAre
<1>4. Mine(s, n, ev)
  BY <1>2 DEF Latest
<1>5. ev.kind \notin {"start", "reply"} => ev.entry = s.e.started
  <2> SUFFICES ASSUME ev.kind \notin {"start", "reply"} PROVE ev.entry = s.e.started
    OBVIOUS
  <2>1. \A j \in DOMAIN s.m.events : ~(j < 1)
    BY <1>1
  <2> QED
    BY <1>2, <2>1 DEF Ordered, BegunBefore
<1>6. ev.kind \notin {"start", "reply"} /\ ev.entry = s.e.asked => Started(s.e)
  BY <1>3, <1>5 DEF Ordered, Known, Started
<1>7. ev.kind \notin {"start", "reply"} /\ Started(s.e) => ev.entry = s.e.asked
  BY <1>5 DEF Started, Typed
<1> QED
  BY <1>2, <1>3, <1>4, <1>5, <1>6, <1>7

\* Of the file last asked for nothing is left once its end is read.
LEMMA EndIsLast ==
    ASSUME NEW s, NEW n, EngineSound(s, n), s.m.events # <<>>,
           Head(s.m.events).kind = "end", Head(s.m.events).entry = s.e.asked
    PROVE  /\ \A i \in DOMAIN Tail(s.m.events) : Tail(s.m.events)[i].entry # s.e.asked
           /\ s.m.file # NoLoad => s.m.file.entry # s.e.asked
           /\ s.m.next # NoLoad => s.m.next.entry # s.e.asked
           /\ \A i \in DOMAIN s.m.commands : s.m.commands[i] # NoLoad => s.m.commands[i].entry # s.e.asked
<1> USE DEF EngineSound, Almost
<1> DEFINE E == s.m.events
<1>1. s \in States /\ E \in Seq(Events)
  BY PartsAre DEF Typed
<1>2. E[1].kind = "end" /\ E[1].entry = s.e.asked /\ 1 \in DOMAIN E /\ s.e.asked \in Nat
  BY <1>1, HeadIs, PartsAre
<1>3. \A i \in DOMAIN Tail(E) : i + 1 \in DOMAIN E /\ Tail(E)[i] = E[i + 1] /\ 1 < i + 1
  BY <1>1, TailIs
<1> HIDE DEF E
<1>4. ASSUME NEW i \in DOMAIN E, 1 < i PROVE E[i].entry # s.e.asked
  <2>1. CASE Own(E[i])
    BY <1>2, <1>4, <2>1 DEF Ordered, InTurn, Own, E
  <2>2. CASE ~Own(E[i])
    <3>1. E[1].entry < E[i].entry
      BY <1>2, <1>4, <2>2 DEF Ordered, Answered, E
    <3> QED
      BY <1>2, <3>1
  <2> QED
    BY <2>1, <2>2
<1>5. s.m.file # NoLoad => s.m.file.entry # s.e.asked
  BY <1>2 DEF Ordered, Open, Own, E
<1>6. \A x : Later(E, s.e.started, s.m.file, x) => x # s.e.asked
  BY <1>2 DEF Later, Own
<1> QED
  BY <1>3, <1>4, <1>5, <1>6 DEF Ordered, Coming, E

\* What an event changes besides its being read.
LEMMA ReadSound ==
    ASSUME NEW s, NEW t, NEW n, EngineSound(s, n), Typed(t, n), Ordered(t), s.m.events # <<>>,
           t.m.events = Tail(s.m.events), t.m.commands = s.m.commands, t.m.next = s.m.next,
           t.m.file = s.m.file, t.m.stage = s.m.stage, t.m.af = s.m.af,
           t.e.asked = s.e.asked, t.e.last = s.e.last, t.e.given = s.e.given,
           t.e.current # 0 => s.e.current # 0 \/ Head(s.m.events).entry = s.e.asked,
           t.said = s.said \/ (s.said.what \in Live /\ t.said.what \in Live),
           s.said.what \notin Over \/ (t.e.started = s.e.started /\ t.e.restarted = s.e.restarted),
           Fresh(s.e, s.m) =>
              /\ t.e.want = s.e.want /\ t.e.broken = s.e.broken /\ t.e.retrying = s.e.retrying
              /\ t.e.verified = s.e.verified /\ ~t.e.restarted
              /\ s.e.setUp => t.e.setUp
              /\ Head(s.m.events).kind = "reconfig" /\ Head(s.m.events).entry = s.e.asked => t.e.setUp
    PROVE  EngineSound(t, n)
<1> USE DEF EngineSound, Almost
<1> DEFINE E == s.m.events
           F == t.m.events
<1>1. s \in States /\ t \in States /\ E \in Seq(Events)
  BY PartsAre DEF Typed
<1>2. /\ E[1] = Head(E) /\ 1 \in DOMAIN E
      /\ \A i \in DOMAIN F : i + 1 \in DOMAIN E /\ F[i] = E[i + 1] /\ i \in Nat
      /\ \A i \in DOMAIN E : i # 1 => i - 1 \in DOMAIN F /\ F[i - 1] = E[i] /\ i > 1
      /\ \A i \in DOMAIN E : i \in Nat
  BY <1>1, TailIs
<1>3. s.said.what \in Live => s.said.what # "nothing" /\ s.said.what \notin Over
  BY LiveIs
<1>4. t.said.what \in Live => t.said.what # "nothing" /\ t.said.what \notin Over
  BY LiveIs
<1> HIDE DEF E, F
<1>5. Latest(t, n)
  <2>1. \A r : (Mine(s, n, r) => Mine(t, n, r)) /\ (MyLoad(s, n, r) => MyLoad(t, n, r))
    BY DEF Mine, MyLoad
  <2>2. \A i \in DOMAIN F : Mine(t, n, F[i])
    BY <1>2, <2>1 DEF Latest, E
  <2>3. t.e.current # 0 =>
           /\ s.e.last # NoLoad /\ s.e.last.entry = s.e.asked /\ s.e.last.ask = n
           /\ t.said.what # "nothing"
    <3> SUFFICES ASSUME t.e.current # 0
                 PROVE  /\ s.e.last # NoLoad /\ s.e.last.entry = s.e.asked /\ s.e.last.ask = n
                        /\ t.said.what # "nothing"
      OBVIOUS
    <3>1. CASE s.e.current # 0
      BY <1>4, <3>1 DEF Latest
    <3>2. CASE Head(E).entry = s.e.asked
      <4>1. Mine(s, n, Head(E)) /\ s.e.asked > 0
        BY <3>2, HeadIs DEF E
      <4>2. s.e.last.entry > 0 /\ s.said.what \in Live
        BY <3>2, <4>1 DEF Mine
      <4> QED
        BY <1>3, <1>4, <3>2, <4>1, <4>2 DEF Mine, NoLoad
    <3> QED
      BY <3>1, <3>2 DEF E
  <2>4. t.said.what \in Over => t.e.started = t.e.asked /\ ~t.e.restarted
    BY <1>3, <1>4 DEF Latest
  <2> QED
    BY <2>1, <2>2, <2>3, <2>4 DEF Latest, F
<1>6. Fresh(t.e, t.m) => Fresh(s.e, s.m)
  BY <1>2 DEF Fresh, Unplayed, E, F
<1>7. Fresh(t.e, t.m) => Unheard(t.e, t.m) /\ Given(t.e)
  BY <1>2, <1>6 DEF Spared, Unheard, Given, E, F
<1>8. SetUpFirst(t.e, t.m)
  <2> SUFFICES ASSUME NEW i \in DOMAIN F, Unplayed(s.e, F[i]), s.e.last.song \in Decodable
               PROVE  /\ ~t.e.broken /\ ~t.e.retrying
                      /\ t.e.setUp \/ \E j \in DOMAIN F :
                              j < i /\ F[j].kind = "reconfig" /\ F[j].entry = s.e.asked
    BY DEF SetUpFirst, Unplayed, F
  <2>1. i + 1 \in DOMAIN E /\ Unplayed(s.e, E[i + 1])
    BY <1>2
  <2>2. Fresh(s.e, s.m)
    BY <2>1 DEF Fresh, E
  <2>3. /\ ~s.e.broken /\ ~s.e.retrying
        /\ s.e.setUp \/ \E j \in DOMAIN E :
                              j < i + 1 /\ E[j].kind = "reconfig" /\ E[j].entry = s.e.asked
    BY <2>1 DEF Spared, SetUpFirst, E
  <2>4. ASSUME NEW j \in DOMAIN E, j < i + 1, E[j].kind = "reconfig", E[j].entry = s.e.asked
        PROVE  t.e.setUp \/ \E k \in DOMAIN F : k < i /\ F[k].kind = "reconfig" /\ F[k].entry = s.e.asked
    <3>1. CASE j = 1
      BY <1>2, <2>2, <2>4, <3>1 DEF E
    <3>2. CASE j # 1
      <4>1. j - 1 \in DOMAIN F /\ F[j - 1] = E[j] /\ j - 1 < i
        BY <1>2, <2>4, <3>2
      <4> QED
        BY <2>4, <4>1
    <3> QED
      BY <3>1, <3>2
  <2> QED
    BY <2>2, <2>3, <2>4
<1>9. t.e.given = t.m.af
  BY DEF Spared
<1> QED
  BY <1>5, <1>6, <1>7, <1>8, <1>9 DEF Spared

\* The file last asked for is over.
LEMMA OverSound ==
    ASSUME NEW s, NEW t, NEW n, Almost(s, n), Typed(t, n), SameOrder(s, t), t.m = s.m,
           t.e.last = s.e.last, t.e.given = s.e.given, t.e.restarted = FALSE,
           t.said.what \in Over, s.e.started = s.e.asked, s.e.current # 0,
           \A i \in DOMAIN s.m.events : s.m.events[i].entry # s.e.asked,
           s.m.file # NoLoad => s.m.file.entry # s.e.asked,
           s.m.next # NoLoad => s.m.next.entry # s.e.asked,
           \A i \in DOMAIN s.m.commands : s.m.commands[i] # NoLoad => s.m.commands[i].entry # s.e.asked
    PROVE  EngineSound(t, n)
<1> USE DEF Almost
<1>1. s \in States /\ t \in States
  BY DEF Typed
<1>2. Ordered(t)
  BY <1>1, OrderKept
<1>3. ~Fresh(t.e, t.m)
  BY DEF Fresh, Unplayed, SameOrder
<1>4. SetUpFirst(t.e, t.m)
  BY DEF SetUpFirst, Unplayed, SameOrder
<1>5. Latest(t, n)
  <2>1. t.said.what # "nothing"
    BY LiveIs
  <2>2. /\ \A i \in DOMAIN t.m.events : Mine(t, n, t.m.events[i])
        /\ MyLoad(t, n, t.m.file) /\ MyLoad(t, n, t.m.next)
        /\ \A i \in DOMAIN t.m.commands : MyLoad(t, n, t.m.commands[i])
    BY DEF Latest, Mine, MyLoad, SameOrder
  <2> QED
    BY <2>1, <2>2 DEF Latest, SameOrder
<1> QED
  BY <1>2, <1>3, <1>4, <1>5 DEF EngineSound, Spared, SameOrder

-----------------------------------------------------------------------------
(* The steps.                                                               *)

LEMMA BecomesIs == ASSUME NEW s \in States, Becomes(s) PROVE Now' = s
BY StateIs DEF Becomes, Now

LEMMA SaysIs ==
    ASSUME NEW s \in States, NEW of \in Nat, NEW what \in Words
    PROVE  /\ Says(s, of, what) \in States
           /\ Says(s, of, what).e = s.e /\ Says(s, of, what).m = s.m
           /\ Says(s, of, what).said.of = of /\ Says(s, of, what).said.what = what
BY DEF Says, States

LEMMA IsNow == ASSUME EngineInv PROVE Now \in States /\ asks \in Nat /\ Now.e = engine /\ Now.m = mpv /\ Now.said = said
BY DEF EngineInv, EngineSound, Almost, Typed, Now

LEMMA SoundNext == ASSUME NEW t \in States, Becomes(t), EngineSound(t, asks') PROVE EngineInv'
<1>1. Now' = t
  BY BecomesIs
<1> QED
  BY <1>1 DEF EngineInv

\* A step of PlayerPromise, or none.
Speaks == Promise!Next \/ UNCHANGED <<asks, said>>

\* What is said goes on, or is over.
LEMMA KeepsOn ==
    ASSUME EngineInv, NEW t \in States, Becomes(t), EngineSound(t, asks), asks' = asks,
           t.said = Now.said \/ (Now.said.what \in Live /\ t.said.what \in Live \cup Over)
    PROVE  EngineInv' /\ Speaks
<1>1. EngineInv'
  BY SoundNext
<1>2. said' = t.said /\ Now.said = said
  BY IsNow DEF Becomes
<1>3. t.said \in [of : Nat, what : Words] /\ t.said.of = asks
  BY StateIs DEF EngineSound, Almost, Typed
<1>4. ASSUME said.what \in Live, said'.what \in Live \cup Over PROVE Promise!Tell
  <2>1. said' \in [of : {asks}, what : Live \cup Over]
    BY <1>2, <1>3, <1>4
  <2> QED
    BY <1>4, <2>1 DEF Promise!Tell, Live, Over
<1> QED
  BY <1>1, <1>2, <1>4 DEF Speaks, Promise!Next

\* Something else is asked for.
LEMMA AsksAnew ==
    ASSUME NEW t \in States, Becomes(t), asks' = asks + 1, EngineSound(t, asks'),
           t.said.what \in {"asked", "nothing"}
    PROVE  EngineInv' /\ Speaks
<1>1. EngineInv'
  BY SoundNext
<1>2. said' = t.said
  BY DEF Becomes
<1>3. t.said \in [of : Nat, what : Words] /\ t.said.of = asks'
  BY StateIs DEF EngineSound, Almost, Typed
<1>4. said' \in [of : {asks'}, what : {"asked", "nothing"}]
  BY <1>2, <1>3
<1> QED
  BY <1>1, <1>4 DEF Speaks, Promise!Next, Promise!Ask

LEMMA EngineInitStep == EngineInit => EngineInv
<1> SUFFICES ASSUME EngineInit PROVE EngineSound(Now, 0)
  BY DEF EngineInit, EngineInv
<1>1. NoLoad \in Loads /\ <<>> \in Seq(Loads) /\ <<>> \in Seq(Events) /\ 0 \in Int /\ 0 \in Nat
  BY DEF Loads
<1>2. engine \in Engines /\ mpv \in Players /\ said \in [of : Nat, what : Words]
  <2>1. engine \in Engines
    BY <1>1 DEF EngineInit, Engines
  <2>2. mpv \in Players
    BY <1>1 DEF EngineInit, Players
  <2>3. said \in [of : Nat, what : Words]
    BY <1>1 DEF EngineInit, Words
  <2> QED
    BY <2>1, <2>2, <2>3
<1>3. /\ Now \in States /\ Now.e = engine /\ Now.m = mpv /\ Now.said = said
  BY <1>2 DEF Now, States
<1>4. /\ engine.asked = 0 /\ engine.current = 0 /\ engine.started = 0 /\ engine.last = NoLoad
      /\ engine.given = FALSE /\ said.of = 0 /\ said.what = "nothing"
      /\ mpv.commands = <<>> /\ mpv.events = <<>> /\ mpv.next = NoLoad /\ mpv.file = NoLoad
      /\ ~mpv.leaving /\ mpv.stage = "idle" /\ ~mpv.track /\ ~mpv.seeking /\ mpv.af = FALSE
  BY DEF EngineInit
<1>5. MaxLoads \in Nat
  BY MpvEngineAssumption
<1>6. DOMAIN mpv.commands = {} /\ DOMAIN mpv.events = {}
  BY <1>4
<1>7. Typed(Now, 0)
  BY <1>1, <1>3, <1>4, <1>5 DEF Typed
<1>8. Ordered(Now)
  <2>1. /\ InTurn(mpv.events) /\ Answered(mpv.events) /\ BegunBefore(mpv.events, engine.started)
        /\ Open(mpv.events, engine.started, mpv.file)
    BY <1>4, <1>6 DEF InTurn, Answered, BegunBefore, Open
  <2>2. Coming(mpv.events, engine.started, mpv)
    BY <1>4, <1>6 DEF Coming
  <2>3. Known(engine, mpv)
    BY <1>4, <1>6 DEF Known
  <2> QED
    BY <1>3, <2>1, <2>2, <2>3 DEF Ordered
<1>9. Latest(Now, 0)
  <2>1. "nothing" \notin Over
    BY LiveIs
  <2> QED
    BY <1>3, <1>4, <1>6, <2>1 DEF Latest, MyLoad
<1>10. ~Fresh(Now.e, Now.m)
  BY <1>3, <1>4, <1>6 DEF Fresh
<1>11. Spared(Now)
  BY <1>3, <1>4, <1>6, <1>10 DEF Spared, SetUpFirst
<1> QED
  BY <1>7, <1>8, <1>9, <1>10, <1>11 DEF EngineSound, Almost

LEMMA LoadStep ==
    ASSUME EngineInv, NEW song \in Songs, NEW plays \in BOOLEAN, Load(song, plays) PROVE EngineInv' /\ Speaks
<1> DEFINE k == asks + 1
           no == FALSE
           t == Loaded(Now, song, k, plays, no)
           u == Says(t, k, "asked")
           mine == NextLoad(Now, song, k)
<1>1. Now \in States /\ Now.e = engine /\ Now.m = mpv /\ asks \in Nat /\ k \in Nat /\ no \in BOOLEAN
  BY IsNow
<1>2. k = asks + 1 /\ asks' = k /\ Becomes(u) /\ engine.asked < MaxLoads - 1 /\ no = FALSE
  BY DEF Load
<1> HIDE DEF k, no
<1>3. /\ Bumped(Now, t, mine) /\ t.said = Now.said
      /\ t.e.last = mine /\ ~t.e.verified /\ t.e.retrying = no /\ Given(t.e)
  BY <1>1, EngineLoadedIs
<1>4. "asked" \in Words /\ "asked" \in Live
  BY LiveIs
<1>5. u \in States /\ u.e = t.e /\ u.m = t.m /\ u.said.of = k /\ u.said.what = "asked"
  <2> HIDE DEF t
  <2>1. t \in States
    BY <1>3 DEF Bumped
  <2> QED
    BY <1>1, <1>4, <2>1, SaysIs
<1>6. engine.asked \in Nat /\ MaxLoads \in Nat
  BY <1>1, PartsAre, MpvEngineAssumption
<1>7. mine \in Loads /\ mine.entry = Now.e.asked + 1 /\ mine.ask = k
  BY <1>1, <1>6 DEF NextLoad, Loads
<1> HIDE DEF t, u, mine
<1>8. Bumped(Now, u, mine) /\ u.e.asked < MaxLoads
  BY <1>1, <1>2, <1>3, <1>5, <1>6 DEF Bumped
<1>9. EngineSound(u, k)
  BY <1>1, <1>3, <1>4, <1>5, <1>7, <1>8, LoadSound DEF EngineInv
<1> QED
  BY <1>2, <1>5, <1>9, AsksAnew

LEMMA StopStep == ASSUME EngineInv, Stop PROVE EngineInv' /\ Speaks
<1> DEFINE s == Now
           k == asks + 1
           n == s.e.asked + 1
           zero == 0
           x == [s.e EXCEPT !.loaded = FALSE, !.loading = FALSE, !.audio = FALSE,
                               !.restarted = FALSE, !.setUp = FALSE, !.retrying = FALSE]
           d == [x EXCEPT !.asked = n, !.current = zero]
           c == Append(s.m.commands, NoLoad)
           p == [s.m EXCEPT !.commands = c]
           w == [of |-> k, what |-> "nothing"]
           y == [s EXCEPT !.e = d, !.m = p]
           u == [y EXCEPT !.said = w]
<1>1. s \in States /\ engine = s.e /\ asks \in Nat /\ k \in Nat
  BY IsNow
<1>2. s.e \in Engines /\ s.m \in Players /\ n \in Nat /\ zero \in Int
  <2>1. s.e \in Engines /\ s.m \in Players
    BY <1>1, StateIs
  <2> QED
    BY <2>1 DEF Engines
<1>3. /\ x \in Engines /\ x.started = s.e.started /\ ~x.restarted /\ x.given = s.e.given
  BY <1>2 DEF Engines
<1>4. c \in Seq(Loads)
  BY <1>2 DEF Players, Loads
<1>5. /\ asks' = k /\ engine.asked < MaxLoads - 1
      /\ Becomes(Says([s EXCEPT
             !.e.asked = @ + 1, !.e.current = 0, !.e.loaded = FALSE, !.e.loading = FALSE,
             !.e.audio = FALSE, !.e.restarted = FALSE, !.e.setUp = FALSE, !.e.retrying = FALSE,
             !.m.commands = Append(@, NoLoad)], k, "nothing"))
  BY DEF Stop
<1>6. [s EXCEPT
          !.e.asked = @ + 1, !.e.current = 0, !.e.loaded = FALSE, !.e.loading = FALSE,
          !.e.audio = FALSE, !.e.restarted = FALSE, !.e.setUp = FALSE, !.e.retrying = FALSE,
          !.m.commands = Append(@, NoLoad)] = y
  <2>1. d = [s.e EXCEPT !.asked = @ + 1, !.current = 0, !.loaded = FALSE, !.loading = FALSE,
                        !.audio = FALSE, !.restarted = FALSE, !.setUp = FALSE, !.retrying = FALSE]
    BY <1>1, <1>2 DEF Engines
  <2> HIDE DEF d, s
  <2> QED
    BY <1>1, <2>1 DEF States
<1>7. Becomes(u)
  BY <1>5, <1>6 DEF Says
<1> HIDE DEF n, zero, x, c
<1>8. /\ d \in Engines /\ d.asked = n /\ d.current = zero /\ d.started = s.e.started
      /\ ~d.restarted /\ d.given = s.e.given
  BY <1>2, <1>3 DEF Engines
<1>9. /\ p \in Players /\ p.commands = c
      /\ p.next = s.m.next /\ p.leaving = s.m.leaving /\ p.file = s.m.file
      /\ p.stage = s.m.stage /\ p.track = s.m.track /\ p.seeking = s.m.seeking
      /\ p.events = s.m.events /\ p.af = s.m.af
  BY <1>2, <1>4 DEF Players
<1>10. w \in [of : Nat, what : Words] /\ w.of = k /\ w.what = "nothing"
  BY <1>1 DEF Words
<1> HIDE DEF d, p, w
<1>11. u \in States /\ u.e = d /\ u.m = p /\ u.said = w
  <2> HIDE DEF s
  <2> QED
    BY <1>1, <1>8, <1>9, <1>10 DEF States
<1> HIDE DEF u, k, y
<1>12. Bumped(s, u, NoLoad)
  BY <1>1, <1>8, <1>9, <1>11 DEF Bumped, n, zero, c
<1>13. MaxLoads \in Nat /\ s.e.asked \in Nat
  BY <1>2, MpvEngineAssumption DEF Engines
<1>14. u.e.asked <= MaxLoads
  BY <1>1, <1>5, <1>8, <1>11, <1>13 DEF n
<1>15. EngineSound(u, k)
  BY <1>1, <1>10, <1>11, <1>12, <1>14, StopSound DEF EngineInv
<1> QED
  BY <1>5, <1>10, <1>11, <1>15, <1>7, AsksAnew DEF k

LEMMA EngineSet ==
    ASSUME NEW s \in States, NEW d \in Engines
    PROVE  LET t == [s EXCEPT !.e = d]
           IN  t \in States /\ t.e = d /\ t.m = s.m /\ t.said = s.said
BY DEF States

LEMMA PlayerSet ==
    ASSUME NEW s \in States, NEW p \in Players
    PROVE  LET t == [s EXCEPT !.m = p]
           IN  t \in States /\ t.m = p /\ t.e = s.e /\ t.said = s.said
BY DEF States

\* Only what does not tell one file from another is changed, the effects' state
\* where something has sounded.
LEMMA MembersAlmost ==
    ASSUME NEW s, NEW n, EngineSound(s, n), NEW t \in States, t.m = s.m, t.said = s.said,
           t.e.asked = s.e.asked, t.e.current = s.e.current, t.e.started = s.e.started,
           t.e.last = s.e.last, t.e.given = s.e.given, t.e.setUp = s.e.setUp,
           t.e.broken = s.e.broken, t.e.retrying = s.e.retrying,
           t.e.restarted => s.e.restarted,
           Fresh(s.e, s.m) => (t.e.verified => s.e.verified)
    PROVE  Almost(t, n) /\ (Fresh(t.e, t.m) <=> Fresh(s.e, s.m))
<1> USE DEF EngineSound, Almost
<1>1. s \in States
  BY DEF Typed
<1>2. Typed(t, n)
  BY DEF Typed
<1>3. Ordered(t)
  BY <1>1, OrderKept DEF SameOrder
<1>4. Latest(t, n)
  BY DEF Latest, MyLoad, Mine
<1>5. Fresh(t.e, t.m) <=> Fresh(s.e, s.m)
  BY DEF Fresh, Unplayed
<1>6. Fresh(t.e, t.m) => Unheard(t.e, t.m)
  BY <1>5 DEF Spared, Unheard
<1>7. SetUpFirst(t.e, t.m)
  BY DEF Spared, SetUpFirst, Unplayed
<1> QED
  BY <1>2, <1>3, <1>4, <1>5, <1>6, <1>7 DEF Spared

\* So is all but the effects wanted and mpv's pause, or where it seeks.
LEMMA PlayerSound ==
    ASSUME NEW s, NEW n, EngineSound(s, n), NEW t \in States, t.said = s.said, t.e = s.e,
           t.m.commands = s.m.commands, t.m.next = s.m.next, t.m.leaving = s.m.leaving,
           t.m.file = s.m.file, t.m.stage = s.m.stage, t.m.track = s.m.track,
           t.m.events = s.m.events, t.m.af = s.m.af,
           t.m.seeking => s.m.seeking \/ s.m.stage = "playing"
    PROVE  EngineSound(t, n)
<1> USE DEF EngineSound, Almost
<1>1. s \in States
  BY DEF Typed
<1>2. Typed(t, n)
  BY DEF Typed
<1>3. Ordered(t)
  BY <1>1, OrderKept DEF SameOrder
<1>4. Latest(t, n)
  BY DEF Latest, MyLoad, Mine
<1>5. Fresh(t.e, t.m) <=> Fresh(s.e, s.m)
  BY DEF Fresh, Unplayed
<1>6. Fresh(t.e, t.m) => Unheard(t.e, t.m)
  BY <1>5 DEF Spared, Unheard
<1>7. SetUpFirst(t.e, t.m) /\ t.e.given = t.m.af
  BY DEF Spared, SetUpFirst
<1> QED
  BY <1>2, <1>3, <1>4, <1>5, <1>6, <1>7 DEF Spared

\* The filters given are now those wanted.
LEMMA SyncedSound ==
    ASSUME NEW s, NEW n, Almost(s, n)
    PROVE  /\ EngineSound(Synced(s), n) /\ Synced(s) \in States
           /\ Synced(s).said = s.said /\ Synced(s).m.stage = s.m.stage /\ Synced(s).m.seeking = s.m.seeking
<1>1. s \in States
  BY DEF Almost, Typed
<1>2. Kin(s, Synced(s)) /\ Given(Synced(s).e) /\ (Synced(s).e.broken => s.e.broken \/ s.m.track)
  BY <1>1, SyncedIs
<1> DEFINE t == Synced(s)
<1>3. Kin(s, t) /\ Given(t.e) /\ (t.e.broken => s.e.broken \/ s.m.track)
  BY <1>2
<1> HIDE DEF t
<1>4. EngineSound(t, n)
  BY <1>3, KinSound
<1>5. t \in States /\ t.said = s.said /\ t.m.stage = s.m.stage /\ t.m.seeking = s.m.seeking
  BY <1>3 DEF Kin, SameFiles
<1> QED
  BY <1>4, <1>5 DEF t

LEMMA SetPausedStep == ASSUME EngineInv, SetPaused PROVE EngineInv' /\ Speaks
<1> DEFINE p == [mpv EXCEPT !.paused = ~mpv.paused]
           t == [Now EXCEPT !.m = p]
<1>1. Now \in States /\ Now.e = engine /\ Now.m = mpv /\ Now.said = said
  BY IsNow
<1>2. mpv \in Players
  BY <1>1, StateIs
<1>3. /\ p \in Players /\ p.commands = mpv.commands /\ p.next = mpv.next /\ p.leaving = mpv.leaving
      /\ p.file = mpv.file /\ p.stage = mpv.stage /\ p.track = mpv.track
      /\ p.seeking = mpv.seeking /\ p.events = mpv.events /\ p.af = mpv.af
  BY <1>2 DEF Players
<1>4. mpv' = p /\ engine' = engine /\ said' = said /\ asks' = asks
  BY DEF SetPaused
<1> HIDE DEF p
<1>5. t \in States /\ t.m = p /\ t.e = engine /\ t.said = said
  BY <1>1, <1>3, PlayerSet
<1> HIDE DEF t
<1>6. EngineSound(t, asks)
  BY <1>1, <1>3, <1>5, PlayerSound DEF EngineInv
<1> QED
  BY <1>1, <1>4, <1>5, <1>6, KeepsOn DEF Becomes

LEMMA PauseChangedStep == ASSUME EngineInv, PauseChanged PROVE EngineInv' /\ Speaks
<1> DEFINE d == [engine EXCEPT !.paused = mpv.paused]
           t == [Now EXCEPT !.e = d]
<1>1. Now \in States /\ Now.e = engine /\ Now.m = mpv /\ Now.said = said
  BY IsNow
<1>2. mpv \in Players /\ engine \in Engines
  BY <1>1, StateIs
<1>3. /\ d \in Engines /\ SameMembers(engine, d) /\ d.given = engine.given /\ d.broken = engine.broken
  <2>1. mpv.paused \in BOOLEAN
    BY <1>2 DEF Players
  <2> QED
    BY <1>2, <2>1 DEF Engines, SameMembers
<1>4. mpv' = mpv /\ engine' = d /\ said' = said /\ asks' = asks
  BY DEF PauseChanged
<1> HIDE DEF d
<1>5. t \in States /\ t.m = mpv /\ t.e = d /\ t.said = said
  BY <1>1, <1>3, EngineSet
<1> HIDE DEF t
<1>6. Kin(Now, t)
  BY <1>1, <1>3, <1>5 DEF Kin, SameFiles
<1>7. EngineSound(t, asks)
  BY <1>1, <1>3, <1>5, <1>6, KinSound DEF EngineInv, EngineSound, Given, SameMembers
<1> QED
  BY <1>1, <1>4, <1>5, <1>7, KeepsOn DEF Becomes

LEMMA SeekStep == ASSUME EngineInv, Seek PROVE EngineInv' /\ Speaks
<1> DEFINE s == Now
           no == FALSE
           d == [s.e EXCEPT !.restarted = no, !.verified = no]
           u == [s EXCEPT !.e = d]
           y == Synced(u)
           on == y.m.seeking \/ mpv.stage = "playing"
           p == [y.m EXCEPT !.seeking = on]
           t == [y EXCEPT !.m = p]
<1>1. s \in States /\ s.m = mpv /\ s.e \in Engines
  BY IsNow, StateIs
<1>2. /\ d \in Engines /\ d.asked = s.e.asked /\ d.current = s.e.current /\ d.started = s.e.started
      /\ d.last = s.e.last /\ d.given = s.e.given /\ d.setUp = s.e.setUp /\ d.broken = s.e.broken
      /\ d.retrying = s.e.retrying /\ ~d.restarted /\ ~d.verified
  BY <1>1 DEF Engines
<1>3. asks' = asks /\ Becomes([y EXCEPT !.m.seeking = @ \/ mpv.stage = "playing"])
  <2>1. [Now EXCEPT !.e.restarted = FALSE, !.e.verified = FALSE] = u
    <3> HIDE DEF s
    <3>1. [s EXCEPT !.e.restarted = FALSE, !.e.verified = FALSE] = u
      BY <1>1 DEF States
    <3> QED
      BY <3>1 DEF s
  <2> QED
    BY <2>1 DEF Seek
<1> HIDE DEF d
<1>4. u \in States /\ u.e = d /\ u.m = s.m /\ u.said = s.said
  BY <1>1, <1>2, EngineSet
<1> HIDE DEF u
<1>5. Almost(u, asks)
  BY <1>2, <1>4, MembersAlmost DEF EngineInv
<1>6. EngineSound(y, asks) /\ y \in States /\ y.said = u.said /\ y.m.stage = u.m.stage /\ y.m.seeking = u.m.seeking
  BY <1>5, SyncedSound
<1> HIDE DEF y
<1>7. y.m \in Players /\ on \in BOOLEAN
  BY <1>6, StateIs DEF Players
<1>8. [y EXCEPT !.m.seeking = @ \/ mpv.stage = "playing"] = t
  BY <1>6 DEF States
<1> HIDE DEF s
<1>9. /\ p \in Players /\ p.commands = y.m.commands /\ p.next = y.m.next /\ p.leaving = y.m.leaving
      /\ p.file = y.m.file /\ p.stage = y.m.stage /\ p.track = y.m.track
      /\ p.seeking = on /\ p.events = y.m.events /\ p.af = y.m.af
  <2> HIDE DEF on
  <2> QED
    BY <1>7 DEF Players
<1> HIDE DEF p
<1>10. t \in States /\ t.m = p /\ t.e = y.e /\ t.said = y.said
  BY <1>6, <1>9, PlayerSet
<1>11. t.m.seeking => y.m.seeking \/ y.m.stage = "playing"
  BY <1>1, <1>4, <1>6, <1>9, <1>10
<1>12. t.said = Now.said
  BY <1>4, <1>6, <1>10 DEF s
<1> HIDE DEF t
<1>13. EngineSound(t, asks)
  BY <1>6, <1>9, <1>10, <1>11, PlayerSound
<1> QED
  BY <1>3, <1>8, <1>10, <1>13, <1>12, KeepsOn

LEMMA SetEffectsStep == ASSUME EngineInv, SetEffects PROVE EngineInv' /\ Speaks
<1> DEFINE s == Now
           on == ~s.e.want
           d == [s.e EXCEPT !.want = on]
           u == [s EXCEPT !.e = d]
           t == IF engine.broken THEN u ELSE Applied(u)
<1>1. s \in States /\ s.m = mpv /\ s.e = engine /\ s.e \in Engines /\ on \in BOOLEAN
  BY IsNow, StateIs DEF Engines
<1>2. /\ d \in Engines /\ d.asked = s.e.asked /\ d.current = s.e.current /\ d.started = s.e.started
      /\ d.last = s.e.last /\ d.given = s.e.given /\ d.setUp = s.e.setUp /\ d.broken = s.e.broken
      /\ d.retrying = s.e.retrying /\ d.restarted = s.e.restarted /\ d.verified = s.e.verified
  BY <1>1 DEF Engines
<1>3. asks' = asks /\ Becomes(t)
  <2>1. [Now EXCEPT !.e.want = ~@] = u
    <3> HIDE DEF s
    <3>1. [s EXCEPT !.e.want = ~@] = u
      BY <1>1 DEF States
    <3> QED
      BY <3>1 DEF s
  <2> QED
    BY <2>1 DEF SetEffects
<1> HIDE DEF d
<1>4. u \in States /\ u.e = d /\ u.m = s.m /\ u.said = s.said
  BY <1>1, <1>2, EngineSet
<1> HIDE DEF u
<1>5. Almost(u, asks) /\ (Fresh(u.e, u.m) <=> Fresh(s.e, s.m))
  BY <1>2, <1>4, MembersAlmost DEF EngineInv
<1>6. CASE engine.broken
  <2>1. Fresh(u.e, u.m) => Given(u.e)
    BY <1>1, <1>2, <1>4, <1>5, <1>6 DEF EngineInv, EngineSound, Given
  <2>2. EngineSound(u, asks)
    BY <1>5, <2>1 DEF EngineSound
  <2> QED
    BY <1>3, <1>4, <1>6, <2>2, KeepsOn
<1>7. CASE ~engine.broken
  <2> DEFINE y == Applied(u)
  <2>1. Kin(u, y) /\ (~ChainRunning(u.e) => y = Synced(u))
    BY <1>4, AppliedIs
  <2>2. Fresh(u.e, u.m) => ~ChainRunning(u.e)
    BY <1>5 DEF Almost, Spared, Unheard, ChainRunning
  <2>3. Given(Synced(u).e) /\ (Synced(u).e.broken => u.e.broken \/ u.m.track)
    BY <1>4, SyncedIs
  <2>4. y = t
    BY <1>7
  <2> HIDE DEF y, t
  <2>5. EngineSound(y, asks)
    BY <1>5, <2>1, <2>2, <2>3, KinSound
  <2>6. y \in States
    BY <2>1 DEF Kin
  <2>7. y.said = Now.said
    BY <1>4, <2>1 DEF Kin
  <2> QED
    BY <1>3, <2>4, <2>5, <2>6, <2>7, KeepsOn
<1> QED
  BY <1>6, <1>7

-----------------------------------------------------------------------------
(* Reading.                                                                 *)

Read(s) == [s EXCEPT !.m.events = Tail(@)]

Heard(s, t) ==
    /\ t \in States /\ s.m.events # <<>>
    /\ t.m.events = Tail(s.m.events) /\ t.m.commands = s.m.commands /\ t.m.next = s.m.next
    /\ t.m.file = s.m.file /\ t.m.stage = s.m.stage /\ t.m.af = s.m.af
    /\ t.m.leaving = s.m.leaving /\ t.m.track = s.m.track /\ t.m.seeking = s.m.seeking

JustRead(s, r) == Heard(s, r) /\ r.e = s.e /\ r.said = s.said

\* What is said stays, or goes on.
SaysOn(s, t) == t.said = s.said \/ (s.said.what \in Live /\ t.said.what \in Live)

LEMMA ReadIs == ASSUME NEW s \in States, s.m.events # <<>> PROVE JustRead(s, Read(s))
<1> DEFINE E == Tail(s.m.events)
           p == [s.m EXCEPT !.events = E]
           r == [s EXCEPT !.m = p]
<1>1. s.m \in Players /\ E \in Seq(Events)
  BY StateIs, PartsAre, TailIs
<1>2. Read(s) = r
  BY DEF Read, States
<1> HIDE DEF E
<1>3. /\ p \in Players /\ p.events = E /\ p.commands = s.m.commands /\ p.next = s.m.next
      /\ p.file = s.m.file /\ p.stage = s.m.stage /\ p.af = s.m.af
      /\ p.leaving = s.m.leaving /\ p.track = s.m.track /\ p.seeking = s.m.seeking
  BY <1>1 DEF Players
<1> HIDE DEF p
<1>4. r \in States /\ r.m = p /\ r.e = s.e /\ r.said = s.said
  BY <1>3, PlayerSet
<1> HIDE DEF r
<1> QED
  BY <1>2, <1>3, <1>4 DEF JustRead, Heard, E

\* The engine's members change, and none tells one file from another.
LEMMA ReadMembers ==
    ASSUME NEW s, NEW t, NEW n, EngineSound(s, n), Heard(s, t), t.said.of = n,
           Head(s.m.events).kind # "start",
           Head(s.m.events).kind = "reply" => Head(s.m.events).entry # s.e.asked,
           t.e.asked = s.e.asked, t.e.current = s.e.current, t.e.started = s.e.started,
           t.e.last = s.e.last, t.e.given = s.e.given,
           t.said = s.said \/ (s.said.what \in Live /\ t.said.what \in Live),
           s.said.what \notin Over \/ t.e.restarted = s.e.restarted,
           Fresh(s.e, s.m) =>
              /\ t.e.want = s.e.want /\ t.e.broken = s.e.broken /\ t.e.retrying = s.e.retrying
              /\ t.e.verified = s.e.verified /\ ~t.e.restarted
              /\ s.e.setUp => t.e.setUp
              /\ Head(s.m.events).kind = "reconfig" /\ Head(s.m.events).entry = s.e.asked => t.e.setUp
    PROVE  EngineSound(t, n)
<1>1. s \in States /\ Ordered(s)
  BY DEF EngineSound, Almost, Typed
<1>2. Ordered(t)
  BY <1>1, ReadOrder DEF Heard, SameOrder
<1>3. Typed(t, n)
  BY DEF Typed, Heard, EngineSound, Almost
<1> QED
  BY <1>2, <1>3, ReadSound DEF Heard

LEMMA RepliedSound ==
    ASSUME NEW s, NEW r, NEW n, EngineSound(s, n), JustRead(s, r), Head(s.m.events).kind = "reply"
    PROVE  LET t == Replied(r, Head(s.m.events)) IN t \in States /\ EngineSound(t, n) /\ SaysOn(s, t)
<1> DEFINE ev == Head(s.m.events)
           c == IF ev.named THEN ev.entry ELSE -1
           d == [r.e EXCEPT !.current = c]
           t == [r EXCEPT !.e = d]
<1>1. /\ s \in States /\ r \in States /\ r.e = s.e /\ r.said = s.said /\ s.m.events # <<>>
      /\ r.e \in Engines
  BY StateIs DEF JustRead, Heard, EngineSound, Almost, Typed
<1>2. Replied(r, ev) = IF ev.entry # s.e.asked THEN r ELSE t
  BY <1>1 DEF Replied, States
<1>3. ev.entry \in Nat \ {0} /\ ev \in Events
  BY <1>1, HeadIs
<1>4. Heard(s, r) /\ r.said.of = n
  BY DEF JustRead, EngineSound, Almost, Typed
<1>5. CASE ev.entry # s.e.asked
  <2>1. EngineSound(r, n)
    BY <1>1, <1>4, <1>5, ReadMembers DEF EngineSound, Almost, Spared, Unheard
  <2> QED
    BY <1>1, <1>2, <1>5, <2>1 DEF SaysOn
<1>6. CASE ev.entry = s.e.asked
  <2>1. c \in Int /\ c \in {s.e.asked, -1} /\ s.e.asked > 0
    BY <1>3, <1>6
  <2> HIDE DEF c
  <2>2. /\ d \in Engines /\ d.current = c /\ d.asked = s.e.asked /\ d.started = s.e.started
        /\ d.last = s.e.last /\ d.given = s.e.given /\ d.setUp = s.e.setUp /\ d.broken = s.e.broken
        /\ d.retrying = s.e.retrying /\ d.restarted = s.e.restarted /\ d.verified = s.e.verified
        /\ d.want = s.e.want
    BY <1>1, <2>1 DEF Engines
  <2> HIDE DEF d
  <2>3. t \in States /\ t.e = d /\ t.m = r.m /\ t.said = r.said
    BY <1>1, <2>2, EngineSet
  <2> HIDE DEF t
  <2>4. Bounded(s)
    BY BoundedIs DEF EngineSound, Almost
  <2>5. Ordered(t)
    BY <1>1, <1>4, <1>6, <2>1, <2>2, <2>3, <2>4, ReadAnswerOrder DEF Heard, EngineSound, Almost
  <2>6. Typed(t, n)
    BY <1>1, <1>4, <2>1, <2>2, <2>3 DEF Typed, Heard, EngineSound, Almost
  <2>7. Fresh(s.e, s.m) => ~s.e.restarted
    BY DEF EngineSound, Almost, Spared, Unheard
  <2>8. EngineSound(t, n)
    BY <1>1, <1>4, <1>6, <2>2, <2>3, <2>5, <2>6, <2>7, ReadSound DEF Heard
  <2> QED
    BY <1>1, <1>2, <1>6, <2>3, <2>8 DEF SaysOn
<1> QED
  BY <1>5, <1>6

LEMMA FileStartedSound ==
    ASSUME NEW s, NEW r, NEW n, EngineSound(s, n), JustRead(s, r), Head(s.m.events).kind = "start"
    PROVE  LET t == FileStarted(r, Head(s.m.events)) IN t \in States /\ EngineSound(t, n) /\ SaysOn(s, t)
<1> DEFINE ev == Head(s.m.events)
           c == IF s.e.current = -1 THEN ev.entry ELSE s.e.current
           x == ev.entry
           d == [r.e EXCEPT !.started = x, !.current = c]
           t == [r EXCEPT !.e = d]
<1>1. /\ s \in States /\ r \in States /\ r.e = s.e /\ r.said = s.said /\ s.m.events # <<>>
      /\ r.e \in Engines
  BY StateIs DEF JustRead, Heard, EngineSound, Almost, Typed
<1>2. FileStarted(r, ev) = t
  BY <1>1 DEF FileStarted, States
<1>3. x \in Nat \ {0} /\ ev \in Events /\ ev = s.m.events[1] /\ 1 \in DOMAIN s.m.events /\ Mine(s, n, ev)
  BY <1>1, HeadIs
<1>4. Heard(s, r) /\ r.said.of = n
  BY DEF JustRead, EngineSound, Almost, Typed
<1>5. s.e.current \in Int /\ s.e.started \in Nat /\ s.e.asked \in Nat
  BY <1>1, PartsAre
<1>6. /\ c \in Int
      /\ s.e.current = -1 => c = s.e.asked
      /\ s.e.current # -1 => c = s.e.current
  BY <1>3, <1>5 DEF EngineSound, Almost, Ordered, Known
<1>7. s.e.started < x /\ x <= s.e.asked
  BY <1>3, <1>5 DEF EngineSound, Almost, Ordered, BegunBefore, Mine
<1>8. c = IF s.e.current = -1 THEN x ELSE s.e.current
  OBVIOUS
<1> HIDE DEF c
<1>9. /\ d \in Engines /\ d.current = c /\ d.asked = s.e.asked /\ d.started = x
      /\ d.last = s.e.last /\ d.given = s.e.given /\ d.setUp = s.e.setUp /\ d.broken = s.e.broken
      /\ d.retrying = s.e.retrying /\ d.restarted = s.e.restarted /\ d.verified = s.e.verified
      /\ d.want = s.e.want
  <2> HIDE DEF x
  <2> QED
    BY <1>1, <1>3, <1>6 DEF Engines
<1> HIDE DEF d
<1>10. t \in States /\ t.e = d /\ t.m = r.m /\ t.said = r.said
  BY <1>1, <1>9, EngineSet
<1> HIDE DEF t
<1>11. /\ s.e.current > 0 => s.e.current = s.e.asked
       /\ s.e.current >= -1 /\ Ordered(s)
  BY DEF EngineSound, Almost, Typed
<1>12. Ordered(t)
  BY <1>1, <1>4, <1>8, <1>9, <1>10, <1>11, ReadStartOrder DEF Heard
<1>13. Typed(t, n)
  <2>1. /\ c > 0 => c = s.e.asked
        /\ c >= -1 /\ x <= s.e.asked
    BY <1>5, <1>6, <1>7, <1>11
  <2> QED
    BY <1>1, <1>4, <1>9, <1>10, <2>1 DEF Typed, Heard, EngineSound, Almost
<1>14. s.said.what \notin Over
  <2>1. s.e.started # s.e.asked
    BY <1>3, <1>5, <1>7
  <2> QED
    BY <2>1 DEF EngineSound, Almost, Latest
<1>15. Fresh(s.e, s.m) => ~s.e.restarted
  BY DEF EngineSound, Almost, Spared, Unheard
<1>16. t.e.current # 0 => s.e.current # 0
  BY <1>6, <1>9, <1>10
<1>17. EngineSound(t, n)
  BY <1>1, <1>4, <1>9, <1>10, <1>12, <1>13, <1>14, <1>15, <1>16, ReadSound DEF Heard
<1> QED
  BY <1>1, <1>2, <1>10, <1>17 DEF SaysOn

LEMMA AudioStartedIs ==
    ASSUME NEW s \in States, NEW ask \in Nat
    PROVE  LET t == AudioStarted(s, ask)
           IN  /\ t \in States /\ t.m = s.m /\ SameMembers(s.e, t.e)
               /\ t.e.given = s.e.given /\ t.e.broken = s.e.broken /\ t.e.tick = s.e.tick
               /\ t.said.of = ask /\ t.said.what = "sounding"
<1> DEFINE d == [s.e EXCEPT !.audio = TRUE]
           u == [s EXCEPT !.e = d]
           t == Says(u, ask, "sounding")
<1>1. /\ d \in Engines /\ SameMembers(s.e, d) /\ d.given = s.e.given /\ d.broken = s.e.broken
      /\ d.tick = s.e.tick
  BY StateIs DEF Engines, SameMembers
<1>2. AudioStarted(s, ask) = t
  BY DEF AudioStarted, States
<1> HIDE DEF d
<1>3. u \in States /\ u.m = s.m /\ u.e = d
  BY <1>1, EngineSet
<1> HIDE DEF u
<1>4. "sounding" \in Words
  BY LiveIs
<1>5. t \in States /\ t.m = u.m /\ t.e = u.e /\ t.said.of = ask /\ t.said.what = "sounding"
  BY <1>3, <1>4, SaysIs
<1> HIDE DEF t
<1> QED
  BY <1>1, <1>2, <1>3, <1>5

\* What is started is what is asked for, if it is the latest to have been.
LEMMA StartedIs ==
    ASSUME NEW s, NEW n, EngineSound(s, n), Started(s.e)
    PROVE  s.e.started = s.e.asked /\ s.e.current = s.e.asked
BY DEF EngineSound, Almost, Typed, Started

LEMMA FileLoadedSound ==
    ASSUME NEW s, NEW r, NEW n, EngineSound(s, n), JustRead(s, r), Head(s.m.events).kind = "loaded"
    PROVE  LET t == FileLoaded(r, Head(s.m.events)) IN t \in States /\ EngineSound(t, n) /\ SaysOn(s, t)
<1> DEFINE ev == Head(s.m.events)
           d == [r.e EXCEPT !.loaded = TRUE, !.loading = FALSE]
           u == [r EXCEPT !.e = d]
           t == Says(u, ev.ask, "open")
<1>1. /\ s \in States /\ r \in States /\ r.e = s.e /\ r.said = s.said /\ s.m.events # <<>>
      /\ r.e \in Engines
  BY StateIs DEF JustRead, Heard, EngineSound, Almost, Typed
<1>2. FileLoaded(r, ev) = IF ~Started(s.e) THEN r ELSE t
  BY <1>1 DEF FileLoaded, States
<1>3. /\ ev \in Events /\ Mine(s, n, ev) /\ n \in Nat
      /\ Started(s.e) => ev.entry = s.e.asked
  BY <1>1, HeadIs DEF EngineSound, Almost, Typed
<1>4. Heard(s, r) /\ r.said.of = n
  BY DEF JustRead, EngineSound, Almost, Typed
<1>5. Fresh(s.e, s.m) => ~s.e.restarted
  BY DEF EngineSound, Almost, Spared, Unheard
<1>6. CASE ~Started(s.e)
  <2>1. EngineSound(r, n)
    BY <1>1, <1>4, <1>5, ReadMembers
  <2> QED
    BY <1>1, <1>2, <1>6, <2>1 DEF SaysOn
<1>7. CASE Started(s.e)
  <2>1. d \in Engines /\ SameMembers(s.e, d) /\ d.given = s.e.given /\ d.broken = s.e.broken
    BY <1>1 DEF Engines, SameMembers
  <2> HIDE DEF d
  <2>2. u \in States /\ u.m = r.m /\ u.e = d
    BY <1>1, <2>1, EngineSet
  <2> HIDE DEF u
  <2>3. "open" \in Words /\ "open" \in Live
    BY LiveIs
  <2>4. ev.ask = n /\ s.said.what \in Live
    BY <1>3, <1>7 DEF Mine
  <2>5. t \in States /\ t.m = r.m /\ t.e = d /\ t.said.of = n /\ t.said.what = "open"
    BY <1>3, <2>2, <2>3, <2>4, SaysIs
  <2> HIDE DEF t
  <2>6. s.said.what \notin Over
    BY <2>4, LiveIs
  <2>7. Heard(s, t)
    BY <1>4, <2>5 DEF Heard
  <2>8. EngineSound(t, n)
    BY <1>1, <1>5, <2>1, <2>3, <2>4, <2>5, <2>6, <2>7, ReadMembers DEF SameMembers
  <2> QED
    BY <1>2, <1>7, <2>3, <2>4, <2>5, <2>8 DEF SaysOn
<1> QED
  BY <1>6, <1>7

LEMMA ReconfiguredSound ==
    ASSUME NEW s, NEW r, NEW n, EngineSound(s, n), JustRead(s, r), Head(s.m.events).kind = "reconfig"
    PROVE  LET t == Reconfigured(r, Head(s.m.events)) IN t \in States /\ EngineSound(t, n) /\ SaysOn(s, t)
<1> DEFINE ev == Head(s.m.events)
           d == [r.e EXCEPT !.setUp = TRUE]
           t == [r EXCEPT !.e = d]
<1>1. /\ s \in States /\ r \in States /\ r.e = s.e /\ r.said = s.said /\ s.m.events # <<>>
      /\ r.e \in Engines
  BY StateIs DEF JustRead, Heard, EngineSound, Almost, Typed
<1>2. Reconfigured(r, ev) = IF Started(s.e) THEN t ELSE r
  BY <1>1 DEF Reconfigured, States
<1>3. ev.entry = s.e.asked => Started(s.e)
  BY <1>1, HeadIs
<1>4. Heard(s, r) /\ r.said.of = n
  BY DEF JustRead, EngineSound, Almost, Typed
<1>5. Fresh(s.e, s.m) => ~s.e.restarted
  BY DEF EngineSound, Almost, Spared, Unheard
<1>6. CASE ~Started(s.e)
  <2>1. EngineSound(r, n)
    BY <1>1, <1>3, <1>4, <1>5, <1>6, ReadMembers
  <2> QED
    BY <1>1, <1>2, <1>6, <2>1 DEF SaysOn
<1>7. CASE Started(s.e)
  <2>1. /\ d \in Engines /\ d.current = s.e.current /\ d.asked = s.e.asked /\ d.started = s.e.started
        /\ d.last = s.e.last /\ d.given = s.e.given /\ d.setUp = TRUE /\ d.broken = s.e.broken
        /\ d.retrying = s.e.retrying /\ d.restarted = s.e.restarted /\ d.verified = s.e.verified
        /\ d.want = s.e.want
    BY <1>1 DEF Engines
  <2> HIDE DEF d
  <2>2. t \in States /\ t.m = r.m /\ t.e = d /\ t.said = r.said
    BY <1>1, <2>1, EngineSet
  <2> HIDE DEF t
  <2>3. Heard(s, t)
    BY <1>4, <2>2 DEF Heard
  <2>4. EngineSound(t, n)
    BY <1>1, <1>4, <1>5, <2>1, <2>2, <2>3, ReadMembers
  <2> QED
    BY <1>1, <1>2, <1>7, <2>2, <2>4 DEF SaysOn
<1> QED
  BY <1>6, <1>7

\* A restart changes the effects' state, and takes nothing back.
LEMMA EffectsRestartedIs ==
    ASSUME NEW s \in States
    PROVE  LET t == EffectsRestarted(s)
           IN  /\ t \in States /\ t.m = s.m /\ t.said = s.said
               /\ t.e.asked = s.e.asked /\ t.e.current = s.e.current /\ t.e.started = s.e.started
               /\ t.e.last = s.e.last /\ t.e.given = s.e.given
<1> DEFINE yes == TRUE
           no == FALSE
           d == [s.e EXCEPT !.restarted = yes, !.verified = no, !.retrying = no]
           over == [s EXCEPT !.e = d]
           judged == IF s.e.retrying /\ s.m.track THEN WouldNotStart(over) ELSE over
           on == judged.e.tick \/ judged.e.given
           x == [judged.e EXCEPT !.tick = on]
           t == [judged EXCEPT !.e = x]
<1>1. /\ d \in Engines /\ d.asked = s.e.asked /\ d.current = s.e.current /\ d.started = s.e.started
      /\ d.last = s.e.last /\ d.given = s.e.given
  BY StateIs DEF Engines
<1>2. EffectsRestarted(s) =
         LET o == [s EXCEPT !.e.restarted = TRUE, !.e.verified = FALSE, !.e.retrying = FALSE]
             j == IF s.e.retrying /\ s.m.track THEN WouldNotStart(o) ELSE o
         IN  [j EXCEPT !.e.tick = @ \/ j.e.given]
  BY DEF EffectsRestarted
<1>3. [s EXCEPT !.e.restarted = TRUE, !.e.verified = FALSE, !.e.retrying = FALSE] = over
  BY DEF States
<1> HIDE DEF d
<1>4. over \in States /\ over.e = d /\ over.m = s.m /\ over.said = s.said
  BY <1>1, EngineSet
<1> HIDE DEF over
<1>5. /\ judged \in States /\ judged.m = s.m /\ judged.said = s.said
      /\ SameMembers(d, judged.e) /\ judged.e.given = d.given
  <2>1. /\ Kin(over, WouldNotStart(over)) /\ WouldNotStart(over).e.given = over.e.given
        /\ WouldNotStart(over).m = over.m
    BY <1>4, WouldNotStartIs
  <2>2. SameMembers(d, d)
    BY DEF SameMembers
  <2> QED
    BY <1>4, <2>1, <2>2 DEF Kin
<1>6. EffectsRestarted(s) = [judged EXCEPT !.e.tick = @ \/ judged.e.given]
  BY <1>2, <1>3
<1> HIDE DEF judged
<1>7. judged.e \in Engines /\ on \in BOOLEAN
  BY <1>5, StateIs DEF Engines
<1>8. EffectsRestarted(s) = t
  BY <1>5, <1>6 DEF States
<1> HIDE DEF on
<1>9. x \in Engines /\ SameMembers(judged.e, x) /\ x.given = judged.e.given
  BY <1>7 DEF Engines, SameMembers
<1> HIDE DEF x
<1>10. t \in States /\ t.e = x /\ t.m = judged.m /\ t.said = judged.said
  BY <1>5, <1>9, EngineSet
<1> HIDE DEF t
<1> QED
  BY <1>1, <1>5, <1>8, <1>9, <1>10 DEF SameMembers

LEMMA RestartedSound ==
    ASSUME NEW s, NEW r, NEW n, EngineSound(s, n), JustRead(s, r), Head(s.m.events).kind = "restart"
    PROVE  LET t == Restarted(r, Head(s.m.events)) IN t \in States /\ EngineSound(t, n) /\ SaysOn(s, t)
<1> DEFINE ev == Head(s.m.events)
           a == IF r.e.audio \/ r.e.paused THEN r ELSE AudioStarted(r, ev.ask)
           t == EffectsRestarted(a)
<1>1. /\ s \in States /\ r \in States /\ r.e = s.e /\ r.said = s.said /\ s.m.events # <<>>
  BY DEF JustRead, Heard, EngineSound, Almost, Typed
<1>2. Restarted(r, ev) = IF ~Started(s.e) THEN r ELSE t
  BY <1>1 DEF Restarted
<1>3. /\ ev \in Events /\ Mine(s, n, ev) /\ n \in Nat /\ ev = s.m.events[1] /\ 1 \in DOMAIN s.m.events
      /\ Started(s.e) => ev.entry = s.e.asked
  BY <1>1, HeadIs DEF EngineSound, Almost, Typed
<1>4. Heard(s, r) /\ r.said.of = n
  BY DEF JustRead, EngineSound, Almost, Typed
<1>5. CASE ~Started(s.e)
  <2>1. Fresh(s.e, s.m) => ~s.e.restarted
    BY DEF EngineSound, Almost, Spared, Unheard
  <2>2. EngineSound(r, n)
    BY <1>1, <1>4, <2>1, ReadMembers
  <2> QED
    BY <1>1, <1>2, <1>5, <2>2 DEF SaysOn
<1>6. CASE Started(s.e)
  <2>1. ev.entry = s.e.asked /\ ev.ask = n /\ s.said.what \in Live
    BY <1>3, <1>6 DEF Mine
  <2>2. ~Fresh(s.e, s.m)
    BY <1>3, <2>1 DEF EngineSound, Almost, Spared, Unheard
  <2>3. "sounding" \in Live /\ s.said.what \notin Over
    BY <2>1, LiveIs
  <2> HIDE DEF ev
  <2>4. /\ a \in States /\ a.m = r.m /\ SameMembers(s.e, a.e) /\ a.e.given = s.e.given
        /\ a.said.of = n /\ a.said.what \in Live
    <3>1. CASE r.e.audio \/ r.e.paused
      <4>1. SameMembers(s.e, s.e)
        BY DEF SameMembers
      <4> QED
        BY <1>1, <1>4, <2>1, <3>1, <4>1
    <3>2. CASE ~(r.e.audio \/ r.e.paused)
      BY <1>1, <1>3, <2>1, <2>3, <3>2, AudioStartedIs
    <3> QED
      BY <3>1, <3>2
  <2> HIDE DEF a
  <2>5. /\ t \in States /\ t.m = a.m /\ t.said = a.said
        /\ t.e.asked = a.e.asked /\ t.e.current = a.e.current /\ t.e.started = a.e.started
        /\ t.e.last = a.e.last /\ t.e.given = a.e.given
    BY <2>4, EffectsRestartedIs
  <2> HIDE DEF t
  <2>6. Heard(s, t)
    BY <1>4, <2>4, <2>5 DEF Heard
  <2>7. EngineSound(t, n)
    BY <2>1, <2>2, <2>3, <2>4, <2>5, <2>6, ReadMembers DEF SameMembers
  <2> QED
    BY <1>2, <1>6, <2>1, <2>4, <2>5, <2>7 DEF ev, SaysOn
<1> QED
  BY <1>5, <1>6

\* A load made again without the effects, of which one is left.
LEMMA RetrySound ==
    ASSUME NEW s, NEW n, EngineSound(s, n), s.said.what \in Live, s.e.asked < MaxLoads,
           s.e.last # NoLoad, s.e.last.ask = n
    PROVE  LET t == Retried(s) IN t \in States /\ EngineSound(t, n) /\ t.said = s.said
<1> DEFINE t == Retried(s)
           mine == NextLoad(s, s.e.last.song, s.e.last.ask)
<1>1. s \in States /\ n \in Nat /\ s.said.of = n /\ s.e.asked \in Nat /\ s.e.last \in Loads
  BY PartsAre, StateIs DEF EngineSound, Almost, Typed, Engines
<1>2. /\ Bumped(s, t, mine) /\ t.said = s.said /\ t.e.last = mine
      /\ ~t.e.verified /\ t.e.retrying /\ Given(t.e)
  BY <1>1, RetriedIs
<1>3. mine \in Loads /\ mine.entry = s.e.asked + 1 /\ mine.ask = n
  BY <1>1, LoadIs DEF NextLoad, Loads
<1>4. MaxLoads \in Nat
  BY MpvEngineAssumption
<1> HIDE DEF t, mine
<1>5. t.e.asked < MaxLoads \/ (t.e.retrying /\ t.e.asked = MaxLoads)
  BY <1>1, <1>2, <1>4 DEF Bumped
<1>6. EngineSound(t, n)
  BY <1>1, <1>2, <1>3, <1>5, LoadSound
<1> QED
  BY <1>2, <1>6 DEF Bumped, t

\* With something left to be read, what is asked for is not over.
LEMMA NotOver == ASSUME NEW s, NEW n, EngineSound(s, n), s.m.events # <<>> PROVE s.said.what \notin Over
<1> SUFFICES ASSUME s.said.what \in Over PROVE FALSE
  OBVIOUS
<1> DEFINE ev == Head(s.m.events)
<1>1. s \in States
  BY DEF EngineSound, Almost, Typed
<1>2. /\ ev = s.m.events[1] /\ 1 \in DOMAIN s.m.events /\ Mine(s, n, ev) /\ ev.entry \in Nat
  BY HeadIs
<1>3. s.e.started = s.e.asked /\ s.e.asked \in Nat
  BY <1>1, PartsAre DEF EngineSound, Almost, Latest
<1>4. s.e.started <= ev.entry /\ ev.entry <= s.e.asked
  BY <1>2 DEF EngineSound, Almost, Ordered, BegunBefore, Mine
<1>5. s.said.what \in Live
  BY <1>2, <1>3, <1>4 DEF Mine
<1> QED
  BY <1>5, LiveIs

\* What is said stays, or is that it is over, failed only with no effects wanted
\* or with nothing to play.
Settles(s, t, ev) ==
    \/ t.said = s.said
    \/ /\ s.said.what \in Live /\ t.said.what \in Over
       /\ t.said.what = "failed" /\ ev.why = "nothing" /\ s.e.want => s.e.last.song \notin Decodable

LEMMA EndedSound ==
    ASSUME NEW s, NEW r, NEW n, EngineSound(s, n), JustRead(s, r), Head(s.m.events).kind = "end"
    PROVE  LET t == Ended(r, Head(s.m.events)) IN t \in States /\ EngineSound(t, n) /\ Settles(s, t, Head(s.m.events))
<1> DEFINE ev == Head(s.m.events)
           d == [r.e EXCEPT !.loaded = FALSE, !.loading = FALSE, !.restarted = FALSE]
           over == [r EXCEPT !.e = d]
           x == [d EXCEPT !.retrying = FALSE]
           settled == [over EXCEPT !.e = x]
           again == ev.why = "nothing" /\ s.e.setUp /\ MayRetry(r)
           t == Ended(r, ev)
<1>1. /\ s \in States /\ r \in States /\ r.e = s.e /\ r.said = s.said /\ s.m.events # <<>>
      /\ r.e \in Engines
  BY StateIs DEF JustRead, Heard, EngineSound, Almost, Typed
<1>2. /\ ev \in Events /\ Mine(s, n, ev) /\ n \in Nat /\ ev.entry \in Nat \ {0}
      /\ ev.entry = s.e.started
  BY <1>1, HeadIs DEF EngineSound, Almost, Typed
<1>3. Heard(s, r) /\ r.said.of = n
  BY DEF JustRead, EngineSound, Almost, Typed
<1>4. [r EXCEPT !.e.loaded = FALSE, !.e.loading = FALSE, !.e.restarted = FALSE] = over
  BY <1>1 DEF States
<1>5. [over EXCEPT !.e.retrying = FALSE] = settled
  BY <1>1 DEF States
<1>6. /\ d \in Engines /\ d.current = s.e.current /\ d.asked = s.e.asked /\ d.started = s.e.started
      /\ d.last = s.e.last /\ d.given = s.e.given /\ d.setUp = s.e.setUp /\ d.broken = s.e.broken
      /\ d.retrying = s.e.retrying /\ d.restarted = FALSE /\ d.verified = s.e.verified
      /\ d.want = s.e.want
  BY <1>1 DEF Engines
<1> HIDE DEF d
<1>7. over \in States /\ over.e = d /\ over.m = r.m /\ over.said = r.said
  BY <1>1, <1>6, EngineSet
<1>8. /\ x \in Engines /\ x.current = d.current /\ x.asked = d.asked /\ x.started = d.started
      /\ x.last = d.last /\ x.given = d.given /\ x.restarted = d.restarted
  BY <1>6 DEF Engines
<1> HIDE DEF x, over
<1>9. settled \in States /\ settled.e = x /\ settled.m = over.m /\ settled.said = over.said
  BY <1>7, <1>8, EngineSet
<1> HIDE DEF settled
<1>10. t = IF s.e.current <= 0 \/ ev.entry # s.e.current THEN r
          ELSE CASE ev.why = "stop" -> over
                 [] ev.why = "eof" -> Says(over, ev.ask, "ended")
                 [] OTHER -> IF again THEN Retried(over)
                             ELSE Says(settled, ev.ask, "failed")
  <2> HIDE DEF ev, over, settled
  <2>1. Ended(r, ev) =
          LET o == [r EXCEPT !.e.loaded = FALSE, !.e.loading = FALSE, !.e.restarted = FALSE]
          IN  IF r.e.current <= 0 \/ ev.entry # r.e.current THEN r
              ELSE CASE ev.why = "stop" -> o
                     [] ev.why = "eof" -> Says(o, ev.ask, "ended")
                     [] OTHER -> IF ev.why = "nothing" /\ r.e.setUp /\ MayRetry(r) THEN Retried(o)
                                 ELSE Says([o EXCEPT !.e.retrying = FALSE], ev.ask, "failed")
    BY DEF Ended
  <2> QED
    BY <1>1, <1>4, <1>5, <2>1
<1> HIDE DEF again, t
<1>11. CASE s.e.current <= 0 \/ ev.entry # s.e.current
  <2>1. Fresh(s.e, s.m) => ~s.e.restarted
    BY DEF EngineSound, Almost, Spared, Unheard
  <2>2. EngineSound(r, n)
    BY <1>1, <1>3, <2>1, ReadMembers
  <2>3. t = r
    BY <1>10, <1>11
  <2> QED
    BY <1>1, <2>2, <2>3 DEF t, Settles
<1>12. CASE ~(s.e.current <= 0 \/ ev.entry # s.e.current)
  <2>1. /\ s.e.current \in Int /\ s.e.current > 0 /\ ev.entry = s.e.asked /\ s.e.started = s.e.asked
        /\ s.e.current # 0
    BY <1>1, <1>2, <1>12, PartsAre DEF EngineSound, Almost, Typed
  <2>2. ev.ask = n /\ s.said.what \in Live /\ s.e.last.entry = s.e.asked /\ s.e.last.ask = n
    BY <1>2, <2>1 DEF Mine
  <2>3. "ended" \in Words /\ "failed" \in Words /\ "ended" \in Over /\ "failed" \in Over
        /\ s.said.what \notin Over
    BY <2>2, LiveIs
  <2>4. EngineSound(over, n)
    <3>1. Heard(s, over)
      BY <1>3, <1>7 DEF Heard
    <3> QED
      BY <1>1, <1>3, <1>6, <1>7, <2>3, <3>1, ReadMembers
  <2>5. /\ \A i \in DOMAIN over.m.events : over.m.events[i].entry # s.e.asked
        /\ over.m.file # NoLoad => over.m.file.entry # s.e.asked
        /\ over.m.next # NoLoad => over.m.next.entry # s.e.asked
        /\ \A i \in DOMAIN over.m.commands : over.m.commands[i] # NoLoad => over.m.commands[i].entry # s.e.asked
    BY <1>1, <1>3, <1>7, <2>1, EndIsLast DEF Heard
  <2>6. ASSUME NEW u \in States, u.m = over.m, SameOrder(over, u), u.e.last = over.e.last,
               u.e.given = over.e.given, u.e.restarted = FALSE, u.said.of = n, u.said.what \in Over
        PROVE  EngineSound(u, n)
    <3>1. Typed(u, n)
      BY <2>4, <2>6 DEF Typed, EngineSound, Almost, SameOrder
    <3> QED
      BY <1>6, <1>7, <2>1, <2>4, <2>5, <2>6, <3>1, OverSound DEF EngineSound
  <2>7. CASE ev.why = "stop"
    <3>1. t = over
      BY <1>10, <1>12, <2>7
    <3> QED
      BY <1>1, <1>7, <2>4, <3>1 DEF t, Settles
  <2>8. CASE ev.why = "eof"
    <3> DEFINE u == Says(over, n, "ended")
    <3>1. t = u
      BY <1>10, <1>12, <2>2, <2>8
    <3>2. u \in States /\ u.e = over.e /\ u.m = over.m /\ u.said.of = n /\ u.said.what = "ended"
      <4>1. over \in States /\ n \in Nat /\ "ended" \in Words
        BY <1>2, <1>7, <2>3
      <4> QED
        BY <4>1, SaysIs
    <3> HIDE DEF u
    <3>3. EngineSound(u, n)
      BY <1>6, <1>7, <2>3, <2>6, <3>2 DEF SameOrder
    <3> QED
      BY <2>2, <2>3, <3>1, <3>2, <3>3 DEF t, Settles
  <2>9. CASE ev.why \notin {"stop", "eof"} /\ again
    <3>1. t = Retried(over)
      BY <1>10, <1>12, <2>9
    <3>2. s.e.asked < MaxLoads
      BY <1>1, <2>9 DEF again, MayRetry
    <3>3. s.e.last # NoLoad
      BY <1>2, <2>1, <2>2 DEF NoLoad
    <3>4. Retried(over) \in States /\ EngineSound(Retried(over), n) /\ Retried(over).said = over.said
      BY <1>1, <1>6, <1>7, <2>2, <2>4, <3>2, <3>3, RetrySound
    <3> QED
      BY <1>1, <1>7, <3>1, <3>4 DEF t, Settles
  <2>10. CASE ev.why \notin {"stop", "eof"} /\ ~again
    <3> DEFINE u == Says(settled, n, "failed")
    <3>1. t = u
      BY <1>10, <1>12, <2>2, <2>10
    <3>2. u \in States /\ u.e = settled.e /\ u.m = settled.m /\ u.said.of = n /\ u.said.what = "failed"
      <4>1. settled \in States /\ n \in Nat /\ "failed" \in Words
        BY <1>2, <1>9, <2>3
      <4> QED
        BY <4>1, SaysIs
    <3> HIDE DEF u
    <3>3. EngineSound(u, n)
      BY <1>6, <1>7, <1>8, <1>9, <2>3, <2>6, <3>2 DEF SameOrder
    <3>4. ev.why = "nothing" /\ s.e.want => s.e.last.song \notin Decodable
      <4> SUFFICES ASSUME ev.why = "nothing", s.e.want, s.e.last.song \in Decodable PROVE FALSE
        OBVIOUS
      <4>1. ev = s.m.events[1] /\ 1 \in DOMAIN s.m.events
        BY <1>1, HeadIs
      <4>2. Unplayed(s.e, s.m.events[1])
        BY <2>1, <4>1 DEF Unplayed
      <4>3. Fresh(s.e, s.m)
        BY <4>1, <4>2 DEF Fresh
      <4>4. Given(s.e) /\ ~s.e.verified /\ (s.e.asked < MaxLoads \/ s.e.retrying)
        BY <4>3 DEF EngineSound, Almost, Spared, Unheard
      <4>5. \A j \in DOMAIN s.m.events : ~(j < 1)
        BY <1>1, PartsAre
      <4>6. ~s.e.broken /\ ~s.e.retrying /\ s.e.setUp
        BY <4>1, <4>2, <4>5 DEF EngineSound, Almost, Spared, SetUpFirst
      <4>7. s.e.given
        BY <4>4, <4>6 DEF Given
      <4> QED
        BY <1>1, <2>10, <4>4, <4>6, <4>7 DEF again, MayRetry
    <3> QED
      BY <2>2, <2>3, <3>1, <3>2, <3>3, <3>4 DEF t, Settles
  <2> QED
    BY <2>7, <2>8, <2>9, <2>10
<1> QED
  BY <1>11, <1>12

\* A song whose sound mpv can decode.
Costs(ev) == said'.what = "failed" /\ ev.why = "nothing" /\ engine.want /\ engine.last.song \in Decodable

LEMMA DrainEventStep ==
    ASSUME EngineInv, DrainEvent PROVE EngineInv' /\ Speaks /\ ~Costs(Head(mpv.events))
<1> DEFINE s == Now
           ev == Head(s.m.events)
           r == Read(s)
           t == CASE ev.kind = "reply" -> Replied(r, ev)
                  [] ev.kind = "start" -> FileStarted(r, ev)
                  [] ev.kind = "loaded" -> FileLoaded(r, ev)
                  [] ev.kind = "reconfig" -> Reconfigured(r, ev)
                  [] ev.kind = "restart" -> Restarted(r, ev)
                  [] OTHER -> Ended(r, ev)
<1>1. s \in States /\ s.m = mpv /\ s.e = engine /\ s.said = said
  BY IsNow
<1>2. s.m.events # <<>> /\ Becomes(t) /\ asks' = asks
  BY <1>1 DEF DrainEvent, Read
<1>3. JustRead(s, r)
  BY <1>1, <1>2, ReadIs
<1>4. EngineSound(s, asks) /\ ev \in Events
  BY <1>2, HeadIs DEF EngineInv
<1> HIDE DEF s, r
<1>5. t \in States /\ EngineSound(t, asks) /\ (SaysOn(s, t) \/ Settles(s, t, ev))
  <2>1. CASE ev.kind = "reply"
    BY <1>3, <1>4, <2>1, RepliedSound
  <2>2. CASE ev.kind = "start"
    BY <1>3, <1>4, <2>2, FileStartedSound
  <2>3. CASE ev.kind = "loaded"
    BY <1>3, <1>4, <2>3, FileLoadedSound
  <2>4. CASE ev.kind = "reconfig"
    BY <1>3, <1>4, <2>4, ReconfiguredSound
  <2>5. CASE ev.kind = "restart"
    BY <1>3, <1>4, <2>5, RestartedSound
  <2>6. CASE ev.kind = "end"
    BY <1>3, <1>4, <2>6, EndedSound
  <2> QED
    BY <1>4, <2>1, <2>2, <2>3, <2>4, <2>5, <2>6 DEF Events
<1> HIDE DEF t
<1>6. t.said = s.said \/ (s.said.what \in Live /\ t.said.what \in Live \cup Over)
  BY <1>5 DEF SaysOn, Settles
<1>7. EngineInv' /\ Speaks
  BY <1>2, <1>5, <1>6, KeepsOn DEF s
<1>8. ~Costs(Head(mpv.events))
  <2> SUFFICES ASSUME Costs(ev) PROVE FALSE
    BY <1>1
  <2>1. said' = t.said /\ t.said.what = "failed"
    BY <1>2 DEF Becomes, Costs
  <2>2. "failed" \in Over /\ "failed" \notin Live
    BY LiveIs
  <2>3. s.said.what \notin Over
    BY <1>2, <1>4, NotOver
  <2> QED
    BY <1>1, <1>5, <2>1, <2>2, <2>3 DEF SaysOn, Settles, Costs
<1> QED
  BY <1>7, <1>8

-----------------------------------------------------------------------------
(* The clock and the effects' check.                                        *)

LEMMA SaidSound ==
    ASSUME NEW s, NEW n, EngineSound(s, n), NEW t \in States, t.m = s.m, SameMembers(s.e, t.e),
           t.e.given = s.e.given, t.e.broken = s.e.broken,
           s.said.what \in Live, t.said.of = n, t.said.what \in Live
    PROVE  EngineSound(t, n)
<1> USE DEF EngineSound, Almost, SameMembers
<1>1. s \in States
  BY DEF Typed
<1>2. Typed(t, n)
  BY DEF Typed
<1>3. Ordered(t)
  BY <1>1, OrderKept DEF SameOrder
<1>4. t.said.what # "nothing" /\ t.said.what \notin Over
  BY LiveIs
<1>5. Latest(t, n)
  <2>1. \A r : (Mine(s, n, r) => Mine(t, n, r)) /\ (MyLoad(s, n, r) => MyLoad(t, n, r))
    BY DEF Mine, MyLoad
  <2> QED
    BY <1>4, <2>1 DEF Latest
<1>6. Fresh(t.e, t.m) <=> Fresh(s.e, s.m)
  BY DEF Fresh, Unplayed
<1>7. Fresh(t.e, t.m) => Unheard(t.e, t.m) /\ Given(t.e)
  BY <1>6 DEF Spared, Unheard, Given
<1>8. SetUpFirst(t.e, t.m) /\ t.e.given = t.m.af
  BY DEF Spared, SetUpFirst, Unplayed
<1> QED
  BY <1>2, <1>3, <1>5, <1>6, <1>7, <1>8 DEF Spared

LEMMA TimePosStep == ASSUME EngineInv, TimePos PROVE EngineInv' /\ Speaks
<1> DEFINE s == Now
           ask == mpv.file.ask
           t == AudioStarted(s, ask)
<1>1. s \in States /\ s.m = mpv /\ s.e = engine /\ asks \in Nat /\ EngineSound(s, asks)
  BY IsNow DEF EngineInv
<1>2. /\ mpv.events = <<>> /\ Started(engine) /\ mpv.stage = "playing"
      /\ Becomes(t) /\ asks' = asks
  BY DEF TimePos
<1> HIDE DEF s
<1>3. s.m.file # NoLoad
  BY <1>1, <1>2 DEF EngineSound, Almost, Typed
<1>4. DOMAIN s.m.events = {}
  BY <1>1, <1>2
<1>5. s.m.file.entry = s.e.started
  BY <1>1, <1>3, <1>4 DEF EngineSound, Almost, Ordered, Open
<1>6. s.m.file.entry = s.e.asked
  BY <1>1, <1>2, <1>5, StartedIs
<1>7. ask = asks /\ s.said.what \in Live
  BY <1>1, <1>3, <1>6 DEF EngineSound, Almost, Latest, MyLoad, Mine
<1>8. "sounding" \in Live
  BY LiveIs
<1> HIDE DEF ask
<1>9. /\ t \in States /\ t.m = s.m /\ SameMembers(s.e, t.e)
      /\ t.e.given = s.e.given /\ t.e.broken = s.e.broken
      /\ t.said.of = ask /\ t.said.what = "sounding"
  <2>1. ask \in Nat
    BY <1>1, <1>7
  <2> QED
    BY <1>1, <2>1, AudioStartedIs
<1> HIDE DEF t
<1>10. EngineSound(t, asks)
  BY <1>1, <1>7, <1>8, <1>9, SaidSound
<1> QED
  BY <1>2, <1>7, <1>8, <1>9, <1>10, KeepsOn DEF s

LEMMA EffectsTickStep == ASSUME EngineInv, EffectsTick PROVE EngineInv' /\ Speaks
<1> DEFINE s == Now
           no == FALSE
           d == [s.e EXCEPT !.tick = no]
           stopped == [s EXCEPT !.e = d]
<1>1. /\ s \in States /\ s.m = mpv /\ s.e = engine /\ asks \in Nat /\ EngineSound(s, asks)
      /\ s.e \in Engines
  BY IsNow, StateIs DEF EngineInv
<1>2. asks' = asks
  BY DEF EffectsTick
<1>3. [Now EXCEPT !.e.tick = FALSE] = stopped
  <2> HIDE DEF s
  <2>1. [s EXCEPT !.e.tick = FALSE] = stopped
    BY <1>1 DEF States
  <2> QED
    BY <2>1 DEF s
<1> HIDE DEF s
<1>4. d \in Engines /\ SameMembers(s.e, d) /\ d.given = s.e.given /\ d.broken = s.e.broken
  BY <1>1 DEF Engines, SameMembers
<1> HIDE DEF d
<1>5. stopped \in States /\ stopped.e = d /\ stopped.m = s.m /\ stopped.said = s.said
  BY <1>1, <1>4, EngineSet
<1> HIDE DEF stopped
<1>6. Kin(s, stopped)
  BY <1>1, <1>4, <1>5 DEF Kin, SameFiles
<1>7. EngineSound(stopped, asks)
  BY <1>1, <1>4, <1>5, <1>6, KinSound DEF EngineSound, Given, SameMembers
<1>8. ChainRunning(s.e) =>
         ~Fresh(s.e, s.m) /\ s.said.what \in Live /\ s.e.last # NoLoad /\ s.e.last.ask = asks
  <2> SUFFICES ASSUME ChainRunning(s.e)
               PROVE  ~Fresh(s.e, s.m) /\ s.said.what \in Live /\ s.e.last # NoLoad /\ s.e.last.ask = asks
    OBVIOUS
  <2>1. s.e.restarted /\ s.e.current > 0 /\ s.e.current \in Int
    BY <1>1, PartsAre DEF ChainRunning, Started
  <2>2. s.e.current # 0
    BY <2>1
  <2>3. s.said.what \in Words
    BY <1>1 DEF States
  <2> QED
    BY <1>1, <2>1, <2>2, <2>3 DEF EngineSound, Almost, Spared, Unheard, Latest, Words
<1>9. CASE ~ChainRunning(engine) \/ ~engine.given
  <2>1. Becomes(stopped)
    BY <1>3, <1>9 DEF EffectsTick
  <2> QED
    BY <1>2, <1>5, <1>7, <2>1, KeepsOn DEF s
<1>10. CASE ChainRunning(engine) /\ engine.given /\ Answers
  <2>1. PICK there \in BOOLEAN : Becomes([Now EXCEPT !.e.verified = TRUE, !.e.tick = ~there])
    BY <1>10 DEF EffectsTick
  <2> DEFINE yes == TRUE
             on == ~there
             x == [s.e EXCEPT !.verified = yes, !.tick = on]
             t == [s EXCEPT !.e = x]
  <2>2. Becomes(t)
    <3>1. [s EXCEPT !.e.verified = TRUE, !.e.tick = ~there] = t
      BY <1>1 DEF States
    <3> QED
      BY <2>1, <3>1 DEF s
  <2>3. /\ x \in Engines /\ x.current = s.e.current /\ x.asked = s.e.asked /\ x.started = s.e.started
        /\ x.last = s.e.last /\ x.given = s.e.given /\ x.setUp = s.e.setUp /\ x.broken = s.e.broken
        /\ x.retrying = s.e.retrying /\ x.restarted = s.e.restarted
    <3>1. yes \in BOOLEAN /\ on \in BOOLEAN
      OBVIOUS
    <3> HIDE DEF yes, on
    <3> QED
      BY <1>1, <3>1 DEF Engines
  <2> HIDE DEF x
  <2>4. t \in States /\ t.e = x /\ t.m = s.m /\ t.said = s.said
    BY <1>1, <2>3, EngineSet
  <2> HIDE DEF t
  <2>5. ~Fresh(s.e, s.m)
    BY <1>1, <1>8, <1>10
  <2>6. Almost(t, asks) /\ (Fresh(t.e, t.m) <=> Fresh(s.e, s.m))
    BY <1>1, <2>3, <2>4, <2>5, MembersAlmost
  <2>7. EngineSound(t, asks)
    BY <2>5, <2>6 DEF EngineSound
  <2> QED
    BY <1>2, <2>2, <2>4, <2>7, KeepsOn DEF s
<1>11. CASE ChainRunning(engine) /\ engine.given /\ ~Answers
  <2>1. IF engine.broken THEN Becomes(stopped)
        ELSE IF engine.setUp /\ ~mpv.track /\ MayRetry(Now) THEN Becomes(Retried(stopped))
        ELSE ~mpv.seeking /\ mpv.events = <<>> /\ Becomes(WouldNotStart(stopped))
    BY <1>3, <1>11 DEF EffectsTick
  <2>2. CASE engine.broken
    BY <1>2, <1>5, <1>7, <2>1, <2>2, KeepsOn DEF s
  <2>3. CASE ~engine.broken /\ engine.setUp /\ ~mpv.track /\ MayRetry(Now)
    <3>1. s.e.asked < MaxLoads
      BY <1>1, <2>3 DEF MayRetry, s
    <3>2. /\ Retried(stopped) \in States /\ EngineSound(Retried(stopped), asks)
          /\ Retried(stopped).said = stopped.said
      BY <1>1, <1>4, <1>5, <1>7, <1>8, <1>11, <3>1, RetrySound DEF SameMembers
    <3>3. Becomes(Retried(stopped))
      BY <2>1, <2>3
    <3> QED
      BY <1>2, <1>5, <3>2, <3>3, KeepsOn DEF s
  <2>4. CASE ~engine.broken /\ ~(engine.setUp /\ ~mpv.track /\ MayRetry(Now))
    <3> DEFINE t == WouldNotStart(stopped)
    <3>1. Kin(stopped, t)
      BY <1>5, WouldNotStartIs
    <3>2. ~Fresh(stopped.e, stopped.m)
      BY <1>1, <1>4, <1>5, <1>8, <1>11 DEF Fresh, Unplayed, SameMembers
    <3>3. Becomes(t)
      BY <2>1, <2>4
    <3> HIDE DEF t
    <3>4. EngineSound(t, asks) /\ t \in States /\ t.said = stopped.said
      BY <1>7, <3>1, <3>2, KinSound DEF EngineSound, Kin
    <3> QED
      BY <1>2, <1>5, <3>3, <3>4, KeepsOn DEF s
  <2> QED
    BY <2>2, <2>3, <2>4
<1> QED
  BY <1>9, <1>10, <1>11

-----------------------------------------------------------------------------
(* libmpv's steps.                                                          *)

SamePlayer(m, p) ==
    /\ p \in Players /\ p.commands = m.commands /\ p.next = m.next /\ p.leaving = m.leaving
    /\ p.af = m.af

LEMMA ReportsIs ==
    ASSUME NEW m \in Players, NEW ev \in Events
    PROVE  LET p == Reports(m, <<ev>>)
           IN  /\ SamePlayer(m, p) /\ p.events = Append(m.events, ev)
               /\ p.file = m.file /\ p.stage = m.stage /\ p.track = m.track /\ p.seeking = m.seeking
<1> DEFINE E == m.events \o <<ev>>
<1>1. m.events \in Seq(Events)
  BY DEF Players
<1>2. E = Append(m.events, ev) /\ E \in Seq(Events)
  BY <1>1
<1>3. Reports(m, <<ev>>) = [m EXCEPT !.events = E]
  BY DEF Reports
<1> HIDE DEF E
<1> QED
  BY <1>2, <1>3 DEF SamePlayer, Players

LEMMA IdleIs ==
    ASSUME NEW m \in Players
    PROVE  LET p == Idle(m)
           IN  /\ SamePlayer(m, p) /\ p.events = m.events
               /\ p.file = NoLoad /\ p.stage = "idle" /\ ~p.track /\ ~p.seeking
<1> DEFINE no == FALSE
           idle == "idle"
           x == [m EXCEPT !.file = NoLoad, !.stage = idle]
           y == [x EXCEPT !.track = no, !.chain = no, !.seeking = no]
<1>1. NoLoad \in Loads
  BY DEF Loads
<1>2. Idle(m) = y
  BY DEF Idle, Players
<1>3. /\ x \in Players /\ x.commands = m.commands /\ x.next = m.next /\ x.leaving = m.leaving
      /\ x.af = m.af /\ x.events = m.events /\ x.file = NoLoad /\ x.stage = idle
  BY <1>1 DEF Players
<1> HIDE DEF x
<1>4. /\ y \in Players /\ y.commands = x.commands /\ y.next = x.next /\ y.leaving = x.leaving
      /\ y.af = x.af /\ y.events = x.events /\ y.file = x.file /\ y.stage = x.stage
      /\ ~y.track /\ ~y.seeking
  BY <1>3 DEF Players
<1> HIDE DEF y
<1> QED
  BY <1>2, <1>3, <1>4 DEF SamePlayer

EventKinds == {"reply", "start", "loaded", "reconfig", "restart", "end"}

\* The answer to a load, and the word on its start.
ReplyOf(load, named) == [Event("reply") EXCEPT !.entry = load.entry, !.ask = load.ask, !.named = named]
StartOf(load) == [Event("start") EXCEPT !.entry = load.entry, !.ask = load.ask]

LEMMA OfLoad ==
    ASSUME NEW load \in Loads, load # NoLoad, NEW n \in BOOLEAN
    PROVE  /\ ReplyOf(load, n) \in Events /\ ReplyOf(load, n).kind = "reply"
           /\ ReplyOf(load, n).entry = load.entry /\ ReplyOf(load, n).ask = load.ask
           /\ StartOf(load) \in Events /\ StartOf(load).kind = "start"
           /\ StartOf(load).entry = load.entry /\ StartOf(load).ask = load.ask
<1> DEFINE e == load.entry
           a == load.ask
           why == ""
           named == FALSE
           entry == mpv.file.entry
           ask == mpv.file.ask
           r(kind) == [kind |-> kind, entry |-> entry, ask |-> ask, why |-> why, named |-> named]
           x(kind) == [kind |-> kind, entry |-> e, ask |-> ask, why |-> why, named |-> named]
           y(kind) == [kind |-> kind, entry |-> e, ask |-> a, why |-> why, named |-> named]
           z(kind) == [kind |-> kind, entry |-> e, ask |-> a, why |-> why, named |-> n]
           reply == "reply"
           start == "start"
<1>1. ReplyOf(load, n) = [Event(reply) EXCEPT !.entry = e, !.ask = a, !.named = n]
  BY DEF ReplyOf
<1>2. StartOf(load) = [Event(start) EXCEPT !.entry = e, !.ask = a]
  BY DEF StartOf
<1>3. Event(reply) = r(reply) /\ Event(start) = r(start)
  BY DEF Event
<1>4. /\ e \in Nat \ {0} /\ a \in Nat /\ why \in Whys /\ named \in BOOLEAN
      /\ reply \in {"reply", "start", "loaded", "reconfig", "restart", "end"}
      /\ start \in {"reply", "start", "loaded", "reconfig", "restart", "end"}
  BY DEF Loads, Whys
<1>5. e = load.entry /\ a = load.ask /\ reply = "reply" /\ start = "start"
  OBVIOUS
<1> HIDE DEF e, a, why, named, entry, ask, reply, start
<1>6. \A kind : [r(kind) EXCEPT !.entry = e] = x(kind)
  OBVIOUS
<1>7. \A kind : [x(kind) EXCEPT !.ask = a] = y(kind)
  OBVIOUS
<1>8. \A kind : [y(kind) EXCEPT !.named = n] = z(kind)
  OBVIOUS
<1>9. z(reply) \in Events /\ y(start) \in Events
  BY <1>4 DEF Events
<1>10. /\ z(reply).kind = reply /\ z(reply).entry = e /\ z(reply).ask = a
       /\ y(start).kind = start /\ y(start).entry = e /\ y(start).ask = a
  OBVIOUS
<1> HIDE DEF r, x, y, z
<1>11. ReplyOf(load, n) = z(reply)
  BY <1>1, <1>3, <1>6, <1>7, <1>8
<1>12. StartOf(load) = y(start)
  BY <1>2, <1>3, <1>6, <1>7
<1> QED
  BY <1>5, <1>9, <1>10, <1>11, <1>12

LEMMA OfFile ==
    ASSUME mpv.file \in Loads, mpv.file # NoLoad, NEW kind \in EventKinds, NEW why \in Whys
    PROVE  /\ Event(kind) \in Events /\ Event(kind).kind = kind /\ Event(kind).why = ""
           /\ Event(kind).entry = mpv.file.entry /\ Event(kind).ask = mpv.file.ask
           /\ End(why) \in Events /\ End(why).kind = "end" /\ End(why).why = why
           /\ End(why).entry = mpv.file.entry /\ End(why).ask = mpv.file.ask
<1> DEFINE told(k) == [kind |-> k, entry |-> mpv.file.entry, ask |-> mpv.file.ask, why |-> "", named |-> FALSE]
           over == [kind |-> "end", entry |-> mpv.file.entry, ask |-> mpv.file.ask, why |-> why, named |-> FALSE]
<1>1. mpv.file.entry \in Nat \ {0} /\ mpv.file.ask \in Nat /\ "" \in Whys
  BY DEF Loads, Whys
<1>2. Event(kind) = told(kind)
  BY DEF Event
<1>3. End(why) = over
  <2>1. End(why) = [told("end") EXCEPT !.why = why]
    BY DEF End, Event
  <2> QED
    BY <2>1
<1>4. /\ told(kind) \in Events /\ told(kind).kind = kind /\ told(kind).why = ""
      /\ told(kind).entry = mpv.file.entry /\ told(kind).ask = mpv.file.ask
  BY <1>1 DEF Events, EventKinds
<1>5. /\ over \in Events /\ over.kind = "end" /\ over.why = why
      /\ over.entry = mpv.file.entry /\ over.ask = mpv.file.ask
  BY <1>1 DEF Events
<1> HIDE DEF told, over
<1> QED
  BY <1>2, <1>3, <1>4, <1>5

\* Something is told of the file that is open, and mpv goes on or is idle.
LEMMA TellsSound ==
    ASSUME NEW s, NEW n, EngineSound(s, n), NEW p, SamePlayer(s.m, p) \/ (p \in Players /\ ~p.leaving
               /\ p.commands = s.m.commands /\ p.next = s.m.next /\ p.af = s.m.af),
           NEW ev \in Events, s.m.file # NoLoad,
           ev.kind \notin {"reply", "start"},
           ev.entry = s.m.file.entry, ev.ask = s.m.file.ask,
           p.events = Append(s.m.events, ev),
           \/ p.file = s.m.file /\ ev.kind # "end" /\ (p.stage # "playing" => ~p.track /\ ~p.seeking)
           \/ p.file = NoLoad /\ p.stage = "idle" /\ ~p.track /\ ~p.seeking /\ ~p.leaving,
           p.stage \in {"opening", "open"} => s.m.stage \in {"opening", "open"},
           ev.kind = "restart" => p.stage = "playing",
           Unplayed(s.e, ev) =>
              /\ s.m.stage \in {"opening", "open"}
              /\ s.e.last.song \in Decodable =>
                    /\ ~s.e.broken /\ ~s.e.retrying
                    /\ \E j \in DOMAIN s.m.events :
                          s.m.events[j].kind = "reconfig" /\ s.m.events[j].entry = s.e.asked
    PROVE  LET t == [s EXCEPT !.m = p] IN t \in States /\ EngineSound(t, n)
<1> DEFINE t == [s EXCEPT !.m = p]
<1>1. s \in States /\ p \in Players /\ p.commands = s.m.commands /\ p.next = s.m.next /\ p.af = s.m.af
  BY DEF EngineSound, Almost, Typed, SamePlayer
<1>2. t \in States /\ t.m = p /\ t.e = s.e /\ t.said = s.said
  BY <1>1, PlayerSet
<1> HIDE DEF t
<1>3. Typed(t, n)
  BY <1>2 DEF Typed, EngineSound, Almost
<1>4. SameOrder(s, t)
  BY <1>1, <1>2 DEF SameOrder
<1>5. EngineSound(t, n)
  BY <1>1, <1>2, <1>3, <1>4, TellSound
<1> QED
  BY <1>2, <1>5 DEF t

\* So are the settings up of its sound.
SetUp(s, n, ev, k, p) ==
    LET t == [s EXCEPT !.m = p]
    IN  /\ SamePlayer(s.m, p) /\ p.file = s.m.file /\ p.stage = s.m.stage
        /\ p.track = s.m.track /\ p.seeking = s.m.seeking
        /\ p.events = s.m.events \o [i \in 1 .. k |-> ev]
        /\ k > 0 => \E j \in DOMAIN p.events : p.events[j] = ev
        /\ t \in States /\ t.m = p /\ t.e = s.e /\ t.said = s.said /\ EngineSound(t, n)

\* Told one after the other, or together.
LEMMA AppendCat ==
    ASSUME NEW S, NEW E \in Seq(S), NEW T \in Seq(S), NEW x \in S
    PROVE  E \o Append(T, x) = Append(E \o T, x)
BY AppendIsConcat, ConcatAssociative, ConcatProperties

LEMMA AppendOne == ASSUME NEW S, NEW E \in Seq(S), NEW x \in S PROVE Append(E, x) = E \o <<x>>
BY AppendIsConcat

LEMMA ReconfigsSound ==
    ASSUME NEW s, NEW n, EngineSound(s, n), NEW ev \in Events, ev.kind = "reconfig", s.m.file # NoLoad,
           ev.entry = s.m.file.entry, ev.ask = s.m.file.ask, NEW k \in {0, 1, 2}
    PROVE  \E p \in Players : SetUp(s, n, ev, k, p)
<1> USE DEF SetUp
<1> DEFINE Same(m, p) == /\ SamePlayer(m, p) /\ p.file = m.file /\ p.stage = m.stage
                         /\ p.track = m.track /\ p.seeking = m.seeking
           Goes(p) == LET t == [s EXCEPT !.m = p]
                      IN  t \in States /\ t.m = p /\ t.e = s.e /\ t.said = s.said /\ EngineSound(t, n)
           one == Reports(s.m, <<ev>>)
           two == Reports(one, <<ev>>)
<1>1. s \in States /\ s.m \in Players /\ s.m.events \in Seq(Events)
  BY StateIs, PartsAre DEF EngineSound, Almost, Typed
<1>2. /\ Unplayed(s.e, ev) = FALSE
      /\ s.m.stage # "playing" => ~s.m.track /\ ~s.m.seeking
  BY DEF Unplayed, EngineSound, Almost, Typed
<1>3. CASE k = 0
  <2>1. s.m.events \o [i \in 1 .. k |-> ev] = s.m.events
    BY <1>1, <1>3
  <2>2. [s EXCEPT !.m = s.m] = s
    BY <1>1 DEF States
  <2>3. SamePlayer(s.m, s.m)
    BY <1>1 DEF SamePlayer
  <2> QED
    BY <1>1, <1>3, <2>1, <2>2, <2>3
<1>4. Same(s.m, one) /\ one.events = Append(s.m.events, ev)
  BY <1>1, ReportsIs
<1> HIDE DEF one
<1>5. Goes(one)
  <2> DEFINE t == [s EXCEPT !.m = one]
  <2>1. t \in States /\ EngineSound(t, n)
    BY <1>2, <1>4, TellsSound
  <2>2. t.m = one /\ t.e = s.e /\ t.said = s.said
    BY <1>1 DEF States
  <2> QED
    BY <2>1, <2>2
<1>6. one.events \in Seq(Events) /\ one \in Players
  BY <1>4 DEF SamePlayer, Players
<1>7. Same(one, two) /\ two.events = Append(one.events, ev)
  BY <1>6, ReportsIs
<1> HIDE DEF two
<1>8. Goes(two)
  <2> DEFINE t == [s EXCEPT !.m = one]
             r == [t EXCEPT !.m = two]
  <2>1. t \in States /\ EngineSound(t, n) /\ t.m = one /\ t.e = s.e /\ t.said = s.said
    BY <1>5
  <2>2. r = [s EXCEPT !.m = two]
    BY <1>1 DEF States
  <2> HIDE DEF t
  <2>3. /\ t.m.stage # "playing" => ~t.m.track /\ ~t.m.seeking
        /\ Unplayed(t.e, ev) = FALSE
    BY <1>2, <1>4, <2>1
  <2>4. r \in States /\ EngineSound(r, n)
    BY <1>4, <1>7, <2>1, <2>3, TellsSound
  <2>5. r.m = two /\ r.e = t.e /\ r.said = t.said
    BY <2>1 DEF States
  <2> QED
    BY <2>1, <2>4, <2>5, <2>2
<1>9. CASE k = 1
  <2>1. one.events = s.m.events \o [i \in 1 .. k |-> ev]
    <3>1. [i \in 1 .. k |-> ev] = <<ev>>
      BY <1>9
    <3>2. Append(s.m.events, ev) = s.m.events \o <<ev>>
      BY <1>1, AppendOne
    <3> QED
      BY <1>4, <3>1, <3>2
  <2>2. \E j \in DOMAIN one.events : one.events[j] = ev
    <3>1. Len(s.m.events) + 1 \in DOMAIN one.events /\ one.events[Len(s.m.events) + 1] = ev
      BY <1>1, <1>4, AppendIs
    <3> QED
      BY <3>1
  <2> QED
    BY <1>4, <1>5, <1>6, <2>1, <2>2
<1>10. CASE k = 2
  <2>1. two.events = s.m.events \o [i \in 1 .. k |-> ev]
    <3>1. [i \in 1 .. k |-> ev] = <<ev, ev>>
      BY <1>10
    <3>2. Append(Append(s.m.events, ev), ev) = s.m.events \o <<ev, ev>>
      BY <1>1
    <3> QED
      BY <1>4, <1>7, <3>1, <3>2
  <2>2. \E j \in DOMAIN two.events : two.events[j] = ev
    <3>1. Len(one.events) + 1 \in DOMAIN two.events /\ two.events[Len(one.events) + 1] = ev
      BY <1>6, <1>7, AppendIs
    <3> QED
      BY <3>1
  <2>3. Same(s.m, two) /\ two \in Players
    BY <1>4, <1>7 DEF SamePlayer
  <2> QED
    BY <1>8, <2>1, <2>2, <2>3
<1> QED
  BY <1>3, <1>9, <1>10

LEMMA PlayerNext ==
    ASSUME EngineInv, NEW p \in Players, Player(p), EngineSound([Now EXCEPT !.m = p], asks)
    PROVE  EngineInv' /\ Speaks
<1> DEFINE t == [Now EXCEPT !.m = p]
<1>1. Now \in States /\ Now.e = engine /\ Now.said = said
  BY IsNow
<1>2. t \in States /\ t.m = p /\ t.e = engine /\ t.said = said
  BY <1>1, PlayerSet
<1>3. mpv' = p /\ engine' = engine /\ said' = said /\ asks' = asks
  BY DEF Player
<1> QED
  BY <1>1, <1>2, <1>3, KeepsOn DEF Becomes

LEMMA MpvIs ==
    ASSUME EngineInv
    PROVE  /\ Now \in States /\ Now.e = engine /\ Now.m = mpv /\ Now.said = said /\ EngineSound(Now, asks)
           /\ mpv \in Players /\ mpv.events \in Seq(Events) /\ mpv.commands \in Seq(Loads)
           /\ mpv.file \in Loads /\ mpv.next \in Loads
           /\ mpv.file = NoLoad => mpv.stage = "idle" /\ ~mpv.leaving
           /\ mpv.stage # "playing" => ~mpv.track /\ ~mpv.seeking
<1>1. Now \in States /\ Now.e = engine /\ Now.m = mpv /\ Now.said = said /\ EngineSound(Now, asks)
  BY IsNow DEF EngineInv
<1>2. mpv \in Players
  BY <1>1, StateIs
<1>3. /\ mpv.file = NoLoad => mpv.stage = "idle" /\ ~mpv.leaving
      /\ mpv.stage # "playing" => ~mpv.track /\ ~mpv.seeking
  BY <1>1 DEF EngineSound, Almost, Typed
<1> QED
  BY <1>1, <1>2, <1>3 DEF Players

LEMMA MpvTakesStep == ASSUME EngineInv, MpvTakes PROVE EngineInv' /\ Speaks
<1> DEFINE load == Head(mpv.commands)
           C == Tail(mpv.commands)
           out == mpv.file # NoLoad
           taken == [mpv EXCEPT !.commands = C, !.next = load, !.leaving = out]
<1>1. /\ Now \in States /\ Now.e = engine /\ Now.m = mpv /\ Now.said = said /\ EngineSound(Now, asks)
      /\ mpv \in Players /\ mpv.events \in Seq(Events) /\ mpv.commands \in Seq(Loads)
      /\ mpv.file = NoLoad => mpv.stage = "idle" /\ ~mpv.leaving
      /\ mpv.stage # "playing" => ~mpv.track /\ ~mpv.seeking
  BY MpvIs
<1>2. mpv.commands # <<>>
  BY DEF MpvTakes
<1>3. load \in Loads /\ C \in Seq(Loads) /\ out \in BOOLEAN
  BY <1>1, <1>2, TailIs
<1>4. IF load = NoLoad THEN Player(taken)
      ELSE \E named \in BOOLEAN :
              Player(Reports(taken, <<[Event("reply") EXCEPT !.entry = load.entry,
                                                             !.ask = load.ask, !.named = named]>>))
  BY DEF MpvTakes
<1>5. out <=> mpv.file # NoLoad
  OBVIOUS
<1>6. load = Head(mpv.commands) /\ C = Tail(mpv.commands)
  OBVIOUS
<1> HIDE DEF load, C, out
<1>7. /\ taken \in Players /\ taken.commands = C /\ taken.next = load /\ taken.leaving = out
      /\ taken.file = mpv.file /\ taken.stage = mpv.stage /\ taken.track = mpv.track
      /\ taken.seeking = mpv.seeking /\ taken.af = mpv.af /\ taken.events = mpv.events
  BY <1>1, <1>3 DEF Players
<1> HIDE DEF taken
<1>8. ASSUME NEW p \in Players, p.commands = C, p.next = load, p.leaving = out,
             p.file = mpv.file, p.stage = mpv.stage, p.track = mpv.track,
             p.seeking = mpv.seeking, p.af = mpv.af,
             IF load = NoLoad THEN p.events = mpv.events
             ELSE \E ev \in Events : /\ ev.kind = "reply" /\ ev.entry = load.entry
                                     /\ ev.ask = load.ask /\ p.events = Append(mpv.events, ev)
      PROVE  EngineSound([Now EXCEPT !.m = p], asks)
  <2> DEFINE t == [Now EXCEPT !.m = p]
  <2>1. t \in States /\ t.m = p /\ t.e = engine /\ t.said = said
    BY <1>1, <1>8, PlayerSet
  <2> HIDE DEF t
  <2>2. Typed(t, asks)
    BY <1>1, <1>5, <1>8, <2>1 DEF Typed, EngineSound, Almost
  <2>3. EngineSound(t, asks)
    BY <1>1, <1>2, <1>6, <1>8, <2>1, <2>2, TakeSound
  <2> QED
    BY <2>3 DEF t
<1>9. CASE load = NoLoad
  BY <1>4, <1>7, <1>8, <1>9, PlayerNext
<1>10. CASE load # NoLoad
  <2>1. PICK named \in BOOLEAN :
           Player(Reports(taken, <<[Event("reply") EXCEPT !.entry = load.entry,
                                                          !.ask = load.ask, !.named = named]>>))
    BY <1>4, <1>10
  <2> DEFINE ev == ReplyOf(load, named)
             p == Reports(taken, <<ev>>)
  <2>3. ev \in Events /\ ev.kind = "reply" /\ ev.entry = load.entry /\ ev.ask = load.ask
    BY <1>3, <1>10, OfLoad
  <2>4. Player(p)
    BY <2>1 DEF ReplyOf
  <2> HIDE DEF ev
  <2>5. /\ SamePlayer(taken, p) /\ p.events = Append(taken.events, ev)
        /\ p.file = taken.file /\ p.stage = taken.stage /\ p.track = taken.track
        /\ p.seeking = taken.seeking
    BY <1>7, <2>3, ReportsIs
  <2> HIDE DEF p
  <2>6. p \in Players /\ EngineSound([Now EXCEPT !.m = p], asks)
    BY <1>7, <1>8, <1>10, <2>3, <2>5 DEF SamePlayer
  <2> QED
    BY <2>4, <2>6, PlayerNext
<1> QED
  BY <1>9, <1>10

LEMMA MpvLeavesStep == ASSUME EngineInv, MpvLeaves PROVE EngineInv' /\ Speaks
<1> DEFINE stop == "stop"
           ev == End(stop)
           no == FALSE
           x == [mpv EXCEPT !.leaving = no]
           y == Reports(x, <<ev>>)
           p == Idle(y)
<1>1. /\ Now \in States /\ Now.m = mpv /\ EngineSound(Now, asks) /\ mpv \in Players /\ mpv.file \in Loads
      /\ mpv.file = NoLoad => ~mpv.leaving
  BY MpvIs
<1>2. mpv.leaving /\ Player(p)
  BY DEF MpvLeaves
<1>3. mpv.file # NoLoad
  BY <1>1, <1>2
<1>4. stop \in Whys /\ stop # "nothing" /\ "end" \in EventKinds
  BY DEF Whys, EventKinds
<1> HIDE DEF stop
<1>5. /\ ev \in Events /\ ev.kind = "end" /\ ev.why = stop /\ ev.entry = mpv.file.entry
      /\ ev.ask = mpv.file.ask
  BY <1>1, <1>3, <1>4, OfFile
<1> HIDE DEF ev
<1>6. /\ x \in Players /\ x.commands = mpv.commands /\ x.next = mpv.next /\ ~x.leaving
      /\ x.af = mpv.af /\ x.events = mpv.events
  BY <1>1 DEF Players
<1> HIDE DEF x
<1>7. SamePlayer(x, y) /\ y.events = Append(x.events, ev)
  BY <1>5, <1>6, ReportsIs
<1>8. y \in Players
  BY <1>7 DEF SamePlayer
<1> HIDE DEF y
<1>9. SamePlayer(y, p) /\ p.events = y.events /\ p.file = NoLoad /\ p.stage = "idle" /\ ~p.track /\ ~p.seeking
  BY <1>8, IdleIs
<1> HIDE DEF p
<1>10. /\ p \in Players /\ ~p.leaving /\ p.commands = mpv.commands /\ p.next = mpv.next /\ p.af = mpv.af
       /\ p.events = Append(mpv.events, ev)
  BY <1>6, <1>7, <1>9 DEF SamePlayer
<1>11. Unplayed(Now.e, ev) = FALSE
  BY <1>4, <1>5 DEF Unplayed
<1> DEFINE s == Now
<1>12. s.m = mpv /\ EngineSound(s, asks)
  BY <1>1
<1> HIDE DEF s
<1>13. EngineSound([s EXCEPT !.m = p], asks)
  BY <1>3, <1>5, <1>9, <1>10, <1>11, <1>12, TellsSound DEF s
<1> QED
  BY <1>2, <1>10, <1>13, PlayerNext DEF s

LEMMA MpvStartsStep == ASSUME EngineInv, MpvStarts PROVE EngineInv' /\ Speaks
<1> DEFINE no == FALSE
           opening == "opening"
           x == [mpv EXCEPT !.next = NoLoad, !.leaving = no, !.file = mpv.next, !.stage = opening]
           ev == StartOf(mpv.next)
           p == Reports(x, <<ev>>)
           t == [Now EXCEPT !.m = p]
<1>1. /\ Now \in States /\ Now.e = engine /\ Now.m = mpv /\ Now.said = said /\ EngineSound(Now, asks)
      /\ mpv \in Players /\ mpv.next \in Loads
      /\ mpv.file = NoLoad => mpv.stage = "idle" /\ ~mpv.leaving
      /\ mpv.stage # "playing" => ~mpv.track /\ ~mpv.seeking
  BY MpvIs
<1>2. mpv.next # NoLoad /\ mpv.file = NoLoad
  BY DEF MpvStarts
<1>4. Player(p)
  BY DEF MpvStarts, StartOf
<1>5. ev \in Events /\ ev.kind = "start" /\ ev.entry = mpv.next.entry /\ ev.ask = mpv.next.ask
  <2>1. FALSE \in BOOLEAN
    OBVIOUS
  <2> QED
    BY <1>1, <1>2, <2>1, OfLoad
<1> HIDE DEF ev
<1>6. NoLoad \in Loads
  BY DEF Loads
<1>7. /\ x \in Players /\ x.commands = mpv.commands /\ x.next = NoLoad /\ ~x.leaving
      /\ x.file = mpv.next /\ x.stage = opening /\ x.track = mpv.track
      /\ x.seeking = mpv.seeking /\ x.af = mpv.af /\ x.events = mpv.events
  <2> DEFINE load == mpv.next
  <2> HIDE DEF load
  <2>1. load \in Loads /\ mpv.next = load
    BY <1>1 DEF load
  <2>2. x = [mpv EXCEPT !.next = NoLoad, !.leaving = no, !.file = load, !.stage = opening]
    BY DEF load
  <2> HIDE DEF x
  <2> QED
    BY <1>1, <1>6, <2>1, <2>2 DEF Players
<1> HIDE DEF x
<1>8. /\ SamePlayer(x, p) /\ p.events = Append(x.events, ev)
      /\ p.file = x.file /\ p.stage = x.stage /\ p.track = x.track /\ p.seeking = x.seeking
  BY <1>5, <1>7, ReportsIs
<1> HIDE DEF p
<1>9. p \in Players
  BY <1>8 DEF SamePlayer
<1>10. t \in States /\ t.m = p /\ t.e = engine /\ t.said = said
  BY <1>1, <1>9, PlayerSet
<1> HIDE DEF t
<1>11. Typed(t, asks)
  BY <1>1, <1>2, <1>7, <1>8, <1>10 DEF Typed, EngineSound, Almost
<1>12. EngineSound(t, asks)
  BY <1>1, <1>2, <1>5, <1>7, <1>8, <1>10, <1>11, StartSound DEF SamePlayer
<1> QED
  BY <1>4, <1>9, <1>12, PlayerNext DEF t

LEMMA MpvOpensStep == ASSUME EngineInv, MpvOpens PROVE EngineInv' /\ Speaks
<1> DEFINE s == Now
           loaded == "loaded"
           link == "link"
           ev == Event(loaded)
           over == End(link)
           open == "open"
           x == [mpv EXCEPT !.stage = open]
           p == Reports(x, <<ev>>)
           y == Reports(mpv, <<over>>)
           q == Idle(y)
<1>1. /\ s.m = mpv /\ EngineSound(s, asks) /\ mpv \in Players /\ mpv.file \in Loads
      /\ mpv.file = NoLoad => mpv.stage = "idle" /\ ~mpv.leaving
      /\ mpv.stage # "playing" => ~mpv.track /\ ~mpv.seeking
  BY MpvIs
<1>2. mpv.stage = "opening" /\ ~mpv.leaving /\ (Player(p) \/ Player(q))
  BY DEF MpvOpens
<1>3. mpv.file # NoLoad
  BY <1>1, <1>2
<1>4. link \in Whys /\ link # "nothing" /\ loaded \in EventKinds /\ loaded \notin {"reply", "start", "end", "restart"}
  BY DEF Whys, EventKinds
<1> HIDE DEF loaded, link, s
<1>5. /\ ev \in Events /\ ev.kind = loaded /\ ev.entry = mpv.file.entry /\ ev.ask = mpv.file.ask
      /\ over \in Events /\ over.kind = "end" /\ over.why = link /\ over.entry = mpv.file.entry
      /\ over.ask = mpv.file.ask
  BY <1>1, <1>3, <1>4, OfFile
<1> HIDE DEF ev, over
<1>6. Unplayed(s.e, ev) = FALSE /\ Unplayed(s.e, over) = FALSE
  BY <1>4, <1>5 DEF Unplayed
<1>7. CASE Player(p)
  <2>1. /\ SamePlayer(mpv, x) /\ x.events = mpv.events /\ x.file = mpv.file /\ x.stage = "open"
        /\ x.track = mpv.track /\ x.seeking = mpv.seeking
    BY <1>1 DEF Players, SamePlayer
  <2> HIDE DEF x
  <2>2. x \in Players
    BY <2>1 DEF SamePlayer
  <2>3. /\ SamePlayer(x, p) /\ p.events = Append(x.events, ev)
        /\ p.file = x.file /\ p.stage = x.stage /\ p.track = x.track /\ p.seeking = x.seeking
    BY <1>5, <2>2, ReportsIs
  <2> HIDE DEF p
  <2>4. SamePlayer(mpv, p) /\ p \in Players
    BY <2>1, <2>3 DEF SamePlayer
  <2>5. EngineSound([s EXCEPT !.m = p], asks)
    BY <1>1, <1>2, <1>3, <1>4, <1>5, <1>6, <2>1, <2>3, <2>4, TellsSound
  <2> QED
    BY <1>7, <2>4, <2>5, PlayerNext DEF s
<1>8. CASE Player(q)
  <2>1. SamePlayer(mpv, y) /\ y.events = Append(mpv.events, over)
    BY <1>1, <1>5, ReportsIs
  <2> HIDE DEF y
  <2>2. y \in Players
    BY <2>1 DEF SamePlayer
  <2>3. SamePlayer(y, q) /\ q.events = y.events /\ q.file = NoLoad /\ q.stage = "idle" /\ ~q.track /\ ~q.seeking
    BY <2>2, IdleIs
  <2> HIDE DEF q
  <2>4. SamePlayer(mpv, q) /\ q \in Players /\ q.leaving = mpv.leaving
    BY <2>1, <2>3 DEF SamePlayer
  <2>5. EngineSound([s EXCEPT !.m = q], asks)
    BY <1>1, <1>2, <1>3, <1>4, <1>5, <1>6, <2>1, <2>3, <2>4, TellsSound
  <2> QED
    BY <1>8, <2>4, <2>5, PlayerNext DEF s
<1> QED
  BY <1>2, <1>7, <1>8

LEMMA MpvSeeksStep == ASSUME EngineInv, MpvSeeks PROVE EngineInv' /\ Speaks
<1> DEFINE s == Now
           restart == "restart"
           ev == Event(restart)
           no == FALSE
           on == mpv.track /\ mpv.af
           x == [mpv EXCEPT !.seeking = no, !.chain = on]
           p == Reports(x, <<ev>>)
<1>1. /\ s.m = mpv /\ EngineSound(s, asks) /\ mpv \in Players /\ mpv.file \in Loads
      /\ mpv.file = NoLoad => mpv.stage = "idle" /\ ~mpv.leaving
      /\ mpv.stage # "playing" => ~mpv.track /\ ~mpv.seeking
  BY MpvIs
<1>2. mpv.seeking /\ Player(p)
  BY DEF MpvSeeks
<1>3. mpv.file # NoLoad /\ mpv.stage = "playing"
  BY <1>1, <1>2
<1>4. restart \in EventKinds /\ restart \notin {"reply", "start", "end"} /\ "" \in Whys
  BY DEF EventKinds, Whys
<1> HIDE DEF restart, s
<1>5. ev \in Events /\ ev.kind = restart /\ ev.entry = mpv.file.entry /\ ev.ask = mpv.file.ask
  BY <1>1, <1>3, <1>4, OfFile
<1> HIDE DEF ev
<1>6. Unplayed(s.e, ev) = FALSE
  BY <1>4, <1>5 DEF Unplayed
<1>7. on \in BOOLEAN
  BY <1>1 DEF Players
<1> HIDE DEF on
<1>8. /\ SamePlayer(mpv, x) /\ x.events = mpv.events /\ x.file = mpv.file /\ x.stage = mpv.stage
      /\ x.track = mpv.track
  BY <1>1, <1>7 DEF Players, SamePlayer
<1> HIDE DEF x
<1>9. x \in Players
  BY <1>8 DEF SamePlayer
<1>10. /\ SamePlayer(x, p) /\ p.events = Append(x.events, ev) /\ p.file = x.file /\ p.stage = x.stage
  BY <1>5, <1>9, ReportsIs
<1> HIDE DEF p
<1>11. SamePlayer(mpv, p) /\ p \in Players
  BY <1>8, <1>10 DEF SamePlayer
<1>12. EngineSound([s EXCEPT !.m = p], asks)
  BY <1>1, <1>3, <1>4, <1>5, <1>6, <1>8, <1>10, <1>11, TellsSound
<1> QED
  BY <1>2, <1>11, <1>12, PlayerNext DEF s

LEMMA MpvEndsStep == ASSUME EngineInv, MpvEnds PROVE EngineInv' /\ Speaks
<1>1. mpv.stage = "playing" /\ ~mpv.leaving
  BY DEF MpvEnds
<1>2. PICK why \in {"eof", "link"} : Player(Idle(Reports(mpv, <<End(why)>>)))
  BY DEF MpvEnds
<1> DEFINE s == Now
           over == End(why)
           y == Reports(mpv, <<over>>)
           q == Idle(y)
<1>3. /\ s.m = mpv /\ EngineSound(s, asks) /\ mpv \in Players /\ mpv.file \in Loads
      /\ mpv.file = NoLoad => mpv.stage = "idle"
  BY MpvIs
<1>4. mpv.file # NoLoad /\ Player(q)
  BY <1>1, <1>2, <1>3
<1>5. why \in Whys /\ why # "nothing" /\ "end" \in EventKinds
  BY DEF Whys, EventKinds
<1> HIDE DEF s
<1>6. /\ over \in Events /\ over.kind = "end" /\ over.why = why /\ over.entry = mpv.file.entry
      /\ over.ask = mpv.file.ask
  BY <1>3, <1>4, <1>5, OfFile
<1> HIDE DEF over
<1>7. Unplayed(s.e, over) = FALSE
  BY <1>5, <1>6 DEF Unplayed
<1>8. SamePlayer(mpv, y) /\ y.events = Append(mpv.events, over)
  BY <1>3, <1>6, ReportsIs
<1> HIDE DEF y
<1>9. y \in Players
  BY <1>8 DEF SamePlayer
<1>10. SamePlayer(y, q) /\ q.events = y.events /\ q.file = NoLoad /\ q.stage = "idle" /\ ~q.track /\ ~q.seeking
  BY <1>9, IdleIs
<1> HIDE DEF q
<1>11. SamePlayer(mpv, q) /\ q \in Players /\ q.leaving = mpv.leaving
  BY <1>8, <1>10 DEF SamePlayer
<1>12. EngineSound([s EXCEPT !.m = q], asks)
  BY <1>1, <1>3, <1>4, <1>6, <1>7, <1>8, <1>10, <1>11, TellsSound
<1> QED
  BY <1>4, <1>11, <1>12, PlayerNext DEF s

LEMMA MpvPlaysStep == ASSUME EngineInv, MpvPlays PROVE EngineInv' /\ Speaks
<1> DEFINE s == Now
           song == mpv.file.song
           reconfig == "reconfig"
           restart == "restart"
           nothing == "nothing"
           ev == Event(reconfig)
           on == Event(restart)
           over == End(nothing)
           plays(track) == [mpv EXCEPT !.stage = "playing", !.track = track, !.chain = track /\ mpv.af]
           told(k) == [i \in 1 .. k |-> ev]
<1>1. /\ s.m = mpv /\ s.e = engine /\ EngineSound(s, asks) /\ mpv \in Players /\ mpv.file \in Loads
      /\ mpv.events \in Seq(Events) /\ s \in States
      /\ mpv.file = NoLoad => mpv.stage = "idle" /\ ~mpv.leaving
      /\ mpv.stage # "playing" => ~mpv.track /\ ~mpv.seeking
  BY MpvIs
<1>2. /\ mpv.stage = "open" /\ ~mpv.leaving
      /\ IF ~Fails(song) THEN Player(Reports(plays(TRUE), <<ev, on>>))
         ELSE \E n \in SetUps(song) :
                 IF song \in Pictures THEN Player(Reports(plays(FALSE), Append(told(n), on)))
                 ELSE Player(Idle(Reports(mpv, Append(told(n), over))))
  BY DEF MpvPlays
<1>3. mpv.file # NoLoad
  BY <1>1, <1>2
<1>4. /\ nothing \in Whys /\ reconfig \in EventKinds /\ restart \in EventKinds /\ "" \in Whys
      /\ reconfig = "reconfig" /\ restart = "restart" /\ nothing = "nothing"
  BY DEF Whys, EventKinds
<1> HIDE DEF reconfig, restart, nothing, s
<1>5. /\ ev \in Events /\ ev.kind = "reconfig" /\ ev.entry = mpv.file.entry /\ ev.ask = mpv.file.ask
      /\ on \in Events /\ on.kind = "restart" /\ on.entry = mpv.file.entry /\ on.ask = mpv.file.ask
      /\ over \in Events /\ over.kind = "end" /\ over.why = "nothing" /\ over.entry = mpv.file.entry
      /\ over.ask = mpv.file.ask
  BY <1>1, <1>3, <1>4, OfFile
<1> HIDE DEF ev, on, over
<1>6. Unplayed(s.e, on) = FALSE
  BY <1>5 DEF Unplayed
<1>7. /\ EngineSound(s, asks) /\ s.m.file # NoLoad /\ ev \in Events /\ ev.kind = "reconfig"
       /\ ev.entry = s.m.file.entry /\ ev.ask = s.m.file.ask
  BY <1>1, <1>3, <1>5
\* It plays on once its sound has been set up.
<1>8. ASSUME NEW track \in BOOLEAN, NEW k \in {0, 1, 2},
             Player(Reports(plays(track), Append(told(k), on)))
      PROVE  EngineInv' /\ Speaks
  <2>1. PICK p \in Players : SetUp(s, asks, ev, k, p)
    BY <1>7, ReconfigsSound
  <2> DEFINE t == [s EXCEPT !.m = p]
             E == Append(p.events, on)
             chain == track /\ mpv.af
             playing == "playing"
             q == [mpv EXCEPT !.stage = playing, !.track = track, !.chain = chain, !.events = E]
             u == [t EXCEPT !.m = q]
  <2>2. /\ SamePlayer(mpv, p) /\ p.file = mpv.file /\ p.stage = mpv.stage
        /\ p.track = mpv.track /\ p.seeking = mpv.seeking
        /\ p.events = mpv.events \o told(k)
    BY <1>1, <2>1 DEF SetUp
  <2>3. /\ t \in States /\ t.m = p /\ t.e = s.e /\ t.said = s.said /\ EngineSound(t, asks)
    BY <2>1 DEF SetUp
  <2>4. u = [s EXCEPT !.m = q]
    BY <1>1 DEF States
  <2>5. told(k) \in Seq(Events) /\ p.events \in Seq(Events)
    BY <1>5 DEF Players
  <2>6. mpv.events \o Append(told(k), on) = E
    <3> DEFINE T == told(k)
    <3>1. T \in Seq(Events) /\ p.events = mpv.events \o T
      BY <1>1, <2>2, <2>5
    <3> HIDE DEF T
    <3>2. mpv.events \o Append(T, on) = Append(mpv.events \o T, on)
      <4> DEFINE E0 == mpv.events
      <4>1. E0 \in Seq(Events) /\ T \in Seq(Events) /\ on \in Events
        BY <1>1, <1>5, <3>1
      <4> HIDE DEF E0
      <4>2. E0 \o Append(T, on) = Append(E0 \o T, on)
        BY <4>1, AppendCat
      <4> QED
        BY <4>2 DEF E0
    <3> QED
      BY <3>1, <3>2 DEF T
  <2>7. Reports(plays(track), Append(told(k), on)) = q
    <3> HIDE DEF E
    <3> DEFINE T == Append(told(k), on)
    <3>1. mpv.events \o T = E
      BY <2>6
    <3> HIDE DEF T
    <3>2. plays(track).events = mpv.events
      BY <1>1 DEF Players
    <3>3. Reports(plays(track), T) = [plays(track) EXCEPT !.events = mpv.events \o T]
      BY <3>2 DEF Reports
    <3> QED
      BY <1>1, <3>1, <3>3 DEF T, Players
  <2>8. E \in Seq(Events) /\ chain \in BOOLEAN
    BY <1>1, <1>5, <2>5 DEF Players
  <2> HIDE DEF t, chain
  <2>9. /\ SamePlayer(mpv, q) /\ q.file = mpv.file /\ q.stage = "playing" /\ q.events = E
    <3> HIDE DEF E
    <3> QED
      BY <1>1, <2>8 DEF SamePlayer, Players
  <2> HIDE DEF q
  <2>10. /\ SamePlayer(p, q) /\ q.file = p.file /\ Unplayed(t.e, on) = FALSE
    BY <1>1, <1>6, <2>2, <2>3, <2>9 DEF SamePlayer
  <2>11. q \in Players
    BY <2>9 DEF SamePlayer
  <2>12. EngineSound(u, asks)
    BY <1>1, <1>3, <1>5, <2>2, <2>3, <2>9, <2>10, TellsSound
  <2> QED
    BY <1>8, <2>7, <2>4, <2>11, <2>12, PlayerNext DEF s
\* It ends, with nothing to play: a sound mpv can decode for its effects only.
<1>9. ASSUME NEW k \in SetUps(song), Fails(song),
             Player(Idle(Reports(mpv, Append(told(k), over))))
      PROVE  EngineInv' /\ Speaks
  <2>1. k \in {0, 1, 2} /\ k \in Nat
    BY DEF SetUps
  <2>2. PICK p \in Players : SetUp(s, asks, ev, k, p)
    BY <1>7, <2>1, ReconfigsSound
  <2> DEFINE t == [s EXCEPT !.m = p]
             y == Reports(mpv, Append(told(k), over))
             q == Idle(y)
             u == [t EXCEPT !.m = q]
  <2>3. /\ SamePlayer(mpv, p) /\ p.file = mpv.file /\ p.stage = mpv.stage
        /\ p.track = mpv.track /\ p.seeking = mpv.seeking
        /\ p.events = mpv.events \o told(k)
        /\ k > 0 => \E j \in DOMAIN p.events : p.events[j] = ev
    BY <1>1, <2>2 DEF SetUp
  <2>4. /\ t \in States /\ t.m = p /\ t.e = s.e /\ t.said = s.said /\ EngineSound(t, asks)
    BY <2>2 DEF SetUp
  <2>5. u = [s EXCEPT !.m = q]
    BY <1>1 DEF States
  <2> HIDE DEF t
  <2>6. told(k) \in Seq(Events) /\ p.events \in Seq(Events)
    BY <1>5, <2>1 DEF Players
  <2>7. mpv.events \o Append(told(k), over) = Append(p.events, over)
    <3> DEFINE T == told(k)
    <3>1. T \in Seq(Events) /\ p.events = mpv.events \o T
      BY <1>1, <2>3, <2>6
    <3> HIDE DEF T
    <3>2. mpv.events \o Append(T, over) = Append(mpv.events \o T, over)
      <4> DEFINE E0 == mpv.events
      <4>1. E0 \in Seq(Events) /\ T \in Seq(Events) /\ over \in Events
        BY <1>1, <1>5, <3>1
      <4> HIDE DEF E0
      <4>2. E0 \o Append(T, over) = Append(E0 \o T, over)
        BY <4>1, AppendCat
      <4> QED
        BY <4>2 DEF E0
    <3> QED
      BY <3>1, <3>2 DEF T
  <2>8. /\ SamePlayer(mpv, y) /\ y.events = Append(p.events, over)
    <3> DEFINE E == Append(p.events, over)
               T == Append(told(k), over)
    <3>1. mpv.events \o T = E /\ E \in Seq(Events)
      <4>1. Append(p.events, over) \in Seq(Events)
        BY <1>5, <2>6
      <4> QED
        BY <2>7, <4>1
    <3> HIDE DEF E, T
    <3>2. y = [mpv EXCEPT !.events = E]
      BY <3>1 DEF Reports, T
    <3> HIDE DEF y
    <3>3. SamePlayer(mpv, y) /\ y.events = E
      BY <1>1, <3>1, <3>2 DEF SamePlayer, Players
    <3> QED
      BY <3>3 DEF E
  <2> HIDE DEF y
  <2>9. y \in Players
    BY <2>8 DEF SamePlayer
  <2>10. SamePlayer(y, q) /\ q.events = y.events /\ q.file = NoLoad /\ q.stage = "idle" /\ ~q.track /\ ~q.seeking
    BY <2>9, IdleIs
  <2> HIDE DEF q
  <2>11. SamePlayer(p, q) /\ q \in Players /\ ~q.leaving
    BY <1>1, <1>2, <2>3, <2>8, <2>10 DEF SamePlayer
  <2>12. Unplayed(t.e, over) /\ t.e.last.song \in Decodable =>
            /\ ~t.e.broken /\ ~t.e.retrying
            /\ \E j \in DOMAIN p.events : p.events[j].kind = "reconfig" /\ p.events[j].entry = t.e.asked
    <3> SUFFICES ASSUME Unplayed(s.e, over), s.e.last.song \in Decodable
                 PROVE  /\ ~s.e.broken /\ ~s.e.retrying
                        /\ \E j \in DOMAIN p.events :
                              p.events[j].kind = "reconfig" /\ p.events[j].entry = s.e.asked
      BY <2>4
    <3>1. mpv.file.entry = s.e.asked
      BY <1>5 DEF Unplayed
    <3>2. mpv.file = s.e.last /\ song \in Decodable
      BY <1>1, <1>3, <3>1 DEF EngineSound, Almost, Latest, MyLoad
    <3>3. mpv.af
      BY <1>9, <3>2 DEF Fails, Decodable
    <3>4. Fresh(s.e, s.m)
      BY <1>1, <1>2, <1>3, <3>1 DEF Fresh
    <3>5. Given(s.e) /\ s.e.given = s.m.af /\ s.m.af = mpv.af
      BY <1>1, <3>4 DEF EngineSound, Almost, Spared
    <3>6. ~s.e.broken /\ ~s.e.retrying
      BY <3>3, <3>5 DEF Given
    <3>7. k > 0
      BY <1>9, <3>2 DEF SetUps
    <3>8. PICK j \in DOMAIN p.events : p.events[j] = ev
      BY <2>3, <3>7
    <3> QED
      BY <1>5, <3>1, <3>6, <3>8
  <2>13. EngineSound(u, asks)
    <3>1. /\ EngineSound(t, asks) /\ SamePlayer(t.m, q) /\ q.events = Append(t.m.events, over)
          /\ t.m.file # NoLoad /\ over.entry = t.m.file.entry /\ over.ask = t.m.file.ask
      BY <1>1, <1>3, <1>5, <2>3, <2>4, <2>8, <2>10, <2>11
    <3>2. /\ q.file = NoLoad /\ q.stage = "idle" /\ ~q.track /\ ~q.seeking /\ ~q.leaving
          /\ t.m.stage = "open"
      BY <1>2, <2>3, <2>4, <2>10, <2>11
    <3>3. over \in Events /\ over.kind = "end"
      BY <1>5
    <3>4. Unplayed(t.e, over) /\ t.e.last.song \in Decodable =>
             /\ ~t.e.broken /\ ~t.e.retrying
             /\ \E j \in DOMAIN t.m.events :
                   t.m.events[j].kind = "reconfig" /\ t.m.events[j].entry = t.e.asked
      BY <2>4, <2>12
    <3> QED
      BY <3>1, <3>2, <3>3, <3>4, TellsSound
  <2>14. Player(q)
    BY <1>9 DEF q, y
  <2>15. EngineSound([s EXCEPT !.m = q], asks)
    BY <2>5, <2>13
  <2> QED
    BY <2>11, <2>14, <2>15, PlayerNext DEF s
<1>10. CASE ~Fails(song)
  <2>1. <<ev, on>> = Append(told(1), on)
    OBVIOUS
  <2>2. 1 \in {0, 1, 2} /\ TRUE \in BOOLEAN
    OBVIOUS
  <2> HIDE DEF plays, told
  <2>3. Player(Reports(plays(TRUE), Append(told(1), on)))
    BY <1>2, <1>10, <2>1
  <2> QED
    BY <1>8, <2>2, <2>3
<1>11. CASE Fails(song)
  <2>1. PICK n \in SetUps(song) :
           IF song \in Pictures THEN Player(Reports(plays(FALSE), Append(told(n), on)))
           ELSE Player(Idle(Reports(mpv, Append(told(n), over))))
    BY <1>2, <1>11
  <2>2. n \in {0, 1, 2}
    BY DEF SetUps
  <2> HIDE DEF plays, told
  <2> QED
    BY <1>8, <1>9, <1>11, <2>1, <2>2
<1> QED
  BY <1>10, <1>11

-----------------------------------------------------------------------------
(* Every step together.                                                     *)

\* A step that leaves everything as it is.
LEMMA StutterStep == ASSUME EngineInv, UNCHANGED engineVars PROVE EngineInv' /\ Speaks
<1>1. Now' = Now /\ asks' = asks /\ said' = said
  BY DEF engineVars, Now
<1> QED
  BY <1>1 DEF EngineInv, Speaks

LEMMA ListenerStep == ASSUME EngineInv, Listener PROVE EngineInv' /\ Speaks
<1>1. CASE \E song \in Songs, plays \in BOOLEAN : Load(song, plays)
  BY <1>1, LoadStep
<1>2. CASE Stop
  BY <1>2, StopStep
<1>3. CASE SetPaused
  BY <1>3, SetPausedStep
<1>4. CASE Seek
  BY <1>4, SeekStep
<1>5. CASE SetEffects
  BY <1>5, SetEffectsStep
<1> QED
  BY <1>1, <1>2, <1>3, <1>4, <1>5 DEF Listener

LEMMA LibmpvStep == ASSUME EngineInv, Libmpv PROVE EngineInv' /\ Speaks
<1>1. CASE MpvTakes
  BY <1>1, MpvTakesStep
<1>2. CASE MpvLeaves
  BY <1>2, MpvLeavesStep
<1>3. CASE MpvStarts
  BY <1>3, MpvStartsStep
<1>4. CASE MpvOpens
  BY <1>4, MpvOpensStep
<1>5. CASE MpvPlays
  BY <1>5, MpvPlaysStep
<1>6. CASE MpvSeeks
  BY <1>6, MpvSeeksStep
<1>7. CASE MpvEnds
  BY <1>7, MpvEndsStep
<1> QED
  BY <1>1, <1>2, <1>3, <1>4, <1>5, <1>6, <1>7 DEF Libmpv

LEMMA EngineNextStep == ASSUME EngineInv, [EngineNext]_engineVars PROVE EngineInv' /\ Speaks
<1>1. CASE Listener
  BY <1>1, ListenerStep
<1>2. CASE DrainEvent
  BY <1>2, DrainEventStep
<1>3. CASE PauseChanged
  BY <1>3, PauseChangedStep
<1>4. CASE TimePos
  BY <1>4, TimePosStep
<1>5. CASE EffectsTick
  BY <1>5, EffectsTickStep
<1>6. CASE Libmpv
  BY <1>6, LibmpvStep
<1>7. CASE UNCHANGED engineVars
  BY <1>7, StutterStep
<1> QED
  BY <1>1, <1>2, <1>3, <1>4, <1>5, <1>6, <1>7 DEF EngineNext

\* Whatever is loaded, stopped, paused, sought and wanted of the effects, and
\* however late mpv's events are read (drainEvents), what is left to be read is in
\* the order mpv told it in, and of the file last asked for where it says so.
THEOREM EngineAlwaysSound == EngineSpec => []EngineInv
<1>1. EngineInit => EngineInv
  BY EngineInitStep
<1>2. EngineInv /\ [EngineNext]_engineVars => EngineInv'
  BY EngineNextStep
<1> QED
  BY <1>1, <1>2, PTL DEF EngineSpec

LEMMA TypesKept == EngineInv => EngineTypeOK
<1> SUFFICES ASSUME EngineInv PROVE EngineTypeOK
  OBVIOUS
<1>1. Now \in States /\ Now.e = engine /\ Now.m = mpv /\ Now.said = said
  BY IsNow
<1>2. engine \in Engines /\ mpv \in Players /\ Typed(Now, asks)
  BY <1>1, StateIs DEF EngineInv, EngineSound, Almost
<1>3. /\ said.of = asks /\ (mpv.stage # "playing" => ~mpv.track)
      /\ (engine.current > 0 => engine.current = engine.asked)
      /\ engine.current >= -1 /\ engine.started <= engine.asked /\ engine.asked <= MaxLoads
  BY <1>1, <1>2 DEF Typed
<1>4. MaxLoads \in Nat
  BY MpvEngineAssumption
<1>5. engine.asked \in Nat /\ engine.current \in Int /\ engine.started \in Nat
  BY <1>2 DEF Engines
<1>6. \A flag \in DOMAIN engine \ {"asked", "current", "started", "last"} : engine[flag] \in BOOLEAN
  BY <1>2, Zenon DEF Engines
<1>7. mpv.stage \in {"idle", "opening", "open", "playing"}
  BY <1>2 DEF Players
<1> QED
  BY <1>3, <1>4, <1>5, <1>6, <1>7 DEF EngineTypeOK

\* The engine's members, mpv's and the last word said keep their shapes
\* (mpvengine.h's members).
THEOREM EngineTypes == EngineSpec => []EngineTypeOK
  BY EngineAlwaysSound, TypesKept, PTL

\* MpvEngine says to its listener what PlayerPromise lets it: of the file last
\* asked for, never after a stop, nothing after an end or a failure (m_loadRequest,
\* m_currentEntry in drainEvents); and a song mpv can decode is never failed for
\* its effects while they are wanted (chainCouldFail, retryWithoutEffects).
THEOREM EngineKeepsItsPromise == EngineSpec => KeepsPromise
<1>1. EngineInit => Promise!Init
  BY DEF EngineInit, Promise!Init
<1>2. EngineInv /\ [EngineNext]_engineVars => [Promise!Next]_(Promise!promise)
  BY EngineNextStep DEF Speaks, Promise!promise
<1>3. EngineInv => [LET ev == Head(mpv.events) IN
                  DrainEvent /\ said'.what = "failed" /\ ev.why = "nothing" /\ engine.want =>
                     engine.last.song \notin Decodable]_engineVars
  BY DrainEventStep DEF Costs
<1>4. EngineSpec => ImplementsPromise
  BY <1>1, <1>2, EngineAlwaysSound, PTL DEF EngineSpec, ImplementsPromise, Promise!Spec
<1>5. EngineSpec => ChainNeverCostsTheSong
  BY <1>3, EngineAlwaysSound, PTL DEF EngineSpec, ChainNeverCostsTheSong
<1> QED
  BY <1>4, <1>5 DEF KeepsPromise
===============================================================================
