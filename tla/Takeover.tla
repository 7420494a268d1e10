------------------------------ MODULE Takeover ------------------------------
(***************************************************************************)
(* The song playing taken over by a better link (mpvengine.cpp,            *)
(* startUpgrade): a second player opens it ahead of the song, waits there, *)
(* sounds beside it once the song arrives, is faded in as it is faded out, *)
(* and becomes the player.  The listener pauses, moves and turns the song  *)
(* up or down meanwhile, and m_paused is told of a pause only later.       *)
(* Time is in steps of the song's clock; a nudge of the new player's speed *)
(* is within one.  The files' own events are MpvEngine's.                  *)
(***************************************************************************)
EXTENDS Integers

CONSTANTS
    Length,     \* of the song
    Lead,       \* kUpgradeLeadMs
    Reaim,      \* kUpgradeReaimMs
    Room,       \* kUpgradeLastMs
    MaxAims,    \* kUpgradeMaxAims
    FadeSteps,  \* kUpgradeFadeSteps
    Levels      \* the volumes the listener sets

VARIABLES
    song,     \* m_mpv: its file, clock, pause property and volume
    engine,   \* m_paused, m_volume, and whether its file is open (m_fileLoaded)
    up        \* m_upgrade, and its player

taking == <<song, engine, up>>

\* A player's volume: the listener's, and how much of it the crossfade gives.
Full(level) == <<level, FadeSteps>>
Silent(level) == <<level, 0>>

NoUpgrade == [phase |-> "none", aims |-> 0, target |-> 0, restarted |-> FALSE, timer |-> "none",
              step |-> 0, seeking |-> 0, unread |-> 0, at |-> 0, sounds |-> FALSE, stood |-> FALSE,
              volume |-> <<>>]   \* stood, history: the song was paused as the takeover began

Ready == {"opening", "waiting"}                  \* not heard of yet
Together == {"aligning", "fading", "settling"}   \* the two are unpaused

Init ==
    /\ \E level \in Levels :
          /\ engine = [told |-> FALSE, level |-> level, open |-> TRUE]
          /\ song = [file |-> "sounding", at |-> 0, paused |-> FALSE, volume |-> Full(level)]
    /\ up = NoUpgrade

Now == [s |-> song, e |-> engine, u |-> up]
Becomes(n) == song' = n.s /\ engine' = n.e /\ up' = n.u

-----------------------------------------------------------------------------
(* The steps, each of which the next scheduled replaces (the token).        *)

\* endUpgrade without a swap: the song as it was, at its own volume.
Given(n) ==
    [n EXCEPT !.u = NoUpgrade,
              !.s.volume = IF n.u.phase \in {"fading", "settling"} THEN Full(n.e.level) ELSE @]

After(n, step) == [n EXCEPT !.u.timer = step]

\* aimUpgrade.
Aimed(n, at) ==
    IF n.u.aims = MaxAims \/ Length - at < Room THEN Given(n)
    ELSE [n EXCEPT !.u.aims = @ + 1, !.u.target = at, !.u.restarted = FALSE,
                   !.u.phase = "opening", !.u.timer = "none", !.u.seeking = @ + 1]

\* awaitTakeover: a song without a clock is at 0 here.
Awaiting(n) ==
    LET at == IF n.s.file = "over" THEN 0 ELSE n.s.at
    IN  IF n.s.file = "over" \/ at >= n.u.target THEN Aimed(n, at + Reaim)
        ELSE IF Length - n.u.target < Room THEN Given(n)
        ELSE After(n, IF n.e.told \/ n.u.target - at > 1 THEN "await" ELSE "begin")

\* judgeUpgrade, once the new file can play from the point and holds enough.
Judged(n) == IF n.u.phase = "opening" /\ n.u.restarted THEN Awaiting([n EXCEPT !.u.phase = "waiting"]) ELSE n

StartUpgrade ==
    /\ up = NoUpgrade /\ engine.open /\ song.file = "sounding"
    /\ Length - (song.at + Lead) >= Room
    /\ up' = [NoUpgrade EXCEPT !.phase = "opening", !.aims = 1, !.target = song.at + Lead,
                               !.seeking = 1, !.volume = Silent(engine.level)]
    /\ UNCHANGED <<song, engine>>

\* drainUpgrade: what the new player says, its restarts apart, has it judged
\* again, or is that it failed, is another cut, or thinner than promised.
Restarted ==
    /\ up.unread > 0
    /\ Becomes(Judged([Now EXCEPT !.u.unread = @ - 1, !.u.restarted = TRUE]))

NewSays ==
    /\ up.phase = "opening"
    /\ Becomes(Judged(Now)) \/ Becomes(Given(Now))

NewFails == up # NoUpgrade /\ Becomes(Given(Now))

AwaitTakeover == up.timer = "await" /\ Becomes(Awaiting(Now))

BeginTakeover ==
    /\ up.timer = "begin"
    /\ Becomes(IF engine.told \/ song.file = "over" \/ song.at # up.target THEN Awaiting(Now)
               ELSE After([Now EXCEPT !.u.phase = "aligning", !.u.stood = song.paused], "align"))

\* alignTick: a clock that went missing, two that will not line up, or a new
\* player that does not start, end it.
AlignTick ==
    /\ up.timer = "align"
    /\ \/ Becomes(Given(Now))
       \/ song.file # "over" /\ Becomes(IF up.sounds /\ up.at = song.at
                                        THEN After([Now EXCEPT !.u.phase = "fading"], "fade") ELSE Now)

FadeTick ==
    LET step == up.step + 1
        faded == [Now EXCEPT !.u.step = step, !.u.volume = <<engine.level, step>>,
                             !.s.volume = <<engine.level, FadeSteps - step>>]
    IN  /\ up.timer = "fade"
        /\ Becomes(IF step < FadeSteps THEN faded
                   ELSE After([faded EXCEPT !.u.phase = "settling"], "promote"))

PromoteUpgrade ==
    /\ up.timer = "promote"
    /\ song' = [file |-> "sounding", at |-> up.at, paused |-> FALSE, volume |-> up.volume]
    /\ engine' = [engine EXCEPT !.told = FALSE, !.open = TRUE]
    /\ up' = NoUpgrade

\* A minute on, and not yet heard of.
GiveUp == up.phase \in Ready /\ Becomes(Given(Now))

-----------------------------------------------------------------------------
(* The listener, and the controller.                                        *)

Cancelled(n) == IF n.u.phase \in Together THEN Given(n) ELSE n

SetPaused(paused) ==
    Becomes([(IF paused THEN Cancelled(Now) ELSE Now) EXCEPT !.s.paused = paused])

\* (slip: the takeover goes on where the song was)
SeekBeside(at) ==
    LET moved == [Now EXCEPT !.s.at = at]
    IN  Becomes(IF moved.u.phase \in Ready THEN Aimed(moved, at + Lead) ELSE moved)

Seek(at) ==
    LET moved == [Cancelled(Now) EXCEPT !.s.at = at]
    IN  Becomes(IF moved.u.phase \in Ready THEN Aimed(moved, at + Lead) ELSE moved)

\* (slip: a volume set as the old player's last sound plays out is lost)
SetVolumeOfTheOld(level) ==
    Becomes([Now EXCEPT !.e.level = level,
                        !.s.volume = IF up.phase \in {"fading", "settling"} THEN @ ELSE Full(level)])

\* Mid-crossfade the next step sets it, and then the new player has it.
SetVolume(level) ==
    Becomes([Now EXCEPT !.e.level = level,
                        !.s.volume = IF up.phase \in {"fading", "settling"} THEN @ ELSE Full(level),
                        !.u.volume = IF up.phase = "settling" THEN Full(level) ELSE @])

\* applySpeed, to another rate.
SetSpeed == up.phase \in Together /\ Becomes(Cancelled(Now))

\* cancelUpgrade: the picture turned on, JioSaavn turned off.
CancelUpgrade == up # NoUpgrade /\ Becomes(Given(Now))

\* load: another file, or this song from another link.
Load(paused) ==
    Becomes([Given(Now) EXCEPT !.s.file = "sounding", !.s.at = 0, !.s.paused = paused, !.e.open = TRUE])

Stop == song.file # "over" /\ Becomes([Given(Now) EXCEPT !.s.file = "over", !.e.open = FALSE])

-----------------------------------------------------------------------------
(* The players.                                                             *)

PauseChanged ==
    /\ engine.told # song.paused
    /\ engine' = [engine EXCEPT !.told = song.paused]
    /\ UNCHANGED <<song, up>>

\* The song's file stops, and the engine reads that it has.
SongEnds ==
    /\ song.file = "sounding"
    /\ song' = [song EXCEPT !.file = "over"]
    /\ UNCHANGED <<engine, up>>

EndRead ==
    /\ engine.open /\ song.file = "over"
    /\ engine' = [engine EXCEPT !.open = FALSE]
    /\ UNCHANGED <<song, up>>

Plays == song.file = "sounding" /\ ~song.paused /\ song.at < Length

Tick ==
    /\ Plays \/ up.sounds
    /\ song' = [song EXCEPT !.at = IF Plays THEN @ + 1 ELSE @]
    /\ up' = [up EXCEPT !.at = IF up.sounds /\ @ < Length THEN @ + 1 ELSE @]
    /\ UNCHANGED engine

\* Ready at the place it was last sent to, or on its way from one before.
NewReady ==
    /\ up.seeking > 0
    /\ \E left \in 0 .. up.seeking - 1, at \in 0 .. Length :
          /\ left = 0 => at = up.target
          /\ up' = [up EXCEPT !.seeking = left, !.at = at, !.unread = @ + 1]
    /\ UNCHANGED <<song, engine>>

\* It is unpaused after the seeks it was sent.
NewSounds ==
    /\ up.phase = "aligning" /\ ~up.sounds /\ up.seeking = 0
    /\ up' = [up EXCEPT !.sounds = TRUE]
    /\ UNCHANGED <<song, engine>>

Listener ==
    \/ \E paused \in BOOLEAN : SetPaused(paused) \/ Load(paused)
    \/ \E at \in 0 .. Length : Seek(at)
    \/ \E level \in Levels : SetVolume(level)
    \/ SetSpeed \/ CancelUpgrade \/ Stop \/ StartUpgrade

Steps == AwaitTakeover \/ BeginTakeover \/ AlignTick \/ FadeTick \/ PromoteUpgrade \/ GiveUp

Players == PauseChanged \/ SongEnds \/ EndRead \/ Tick \/ NewReady \/ NewSounds

Next == Listener \/ Steps \/ Restarted \/ NewSays \/ NewFails \/ Players

Spec == Init /\ [][Next]_taking

-----------------------------------------------------------------------------

\* The shapes of the variables.
TypeOK ==
    /\ song.file \in {"sounding", "over"} /\ song.at \in 0 .. Length
    /\ engine.level \in Levels
    /\ up.phase \in {"none"} \cup Ready \cup Together
    /\ up.aims \in 0 .. MaxAims /\ up.seeking \in 0 .. MaxAims /\ up.step \in 0 .. FadeSteps

\* However a takeover goes, the song is at the listener's volume unless the
\* crossfade has it, and then whichever player is left is (setVolume, fadeTick,
\* endUpgrade).
VolumeIsTheListeners ==
    /\ up.phase \notin {"fading", "settling"} => song.volume = Full(engine.level)
    /\ up.phase = "settling" => up.volume = Full(engine.level)

\* "The move neither skips nor repeats": all through the crossfade of a song that
\* plays the two clocks are at one place, whatever the listener does (seekAbsolute,
\* setPaused, alignTick), so the song goes on there; unless it was paused as the
\* takeover began, see NothingBesideAPause.
SwapsInPlace == up.phase \in {"fading", "settling"} /\ Plays /\ ~up.stood => up.at = song.at

-----------------------------------------------------------------------------
\* What the source says of itself and the program does not keep to.

\* No takeover begins of a song paused "since the timer was set": nothing
\* sounds beside it (beginTakeover, setPaused).
NothingBesideAPause == up.phase \in Together => ~song.paused
=============================================================================
