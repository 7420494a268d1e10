----------------------------- MODULE SongProofs -----------------------------
(***************************************************************************)
(* One song in the player.  First what Takeover promises, proved for songs *)
(* of any length, any lead, room and re-aim, any number of aims and fade   *)
(* steps, and any volumes; then what Rescue does, proved for any number of *)
(* plays.                                                                  *)
(***************************************************************************)
EXTENDS Takeover, Rescue, TLAPS

\* The engine's own numbers (mpvengine.cpp:31-66): a crossfade has a step, and a
\* takeover an aim.
Bounds ==
    /\ Length \in Nat /\ Lead \in Nat /\ Reaim \in Nat /\ Room \in Nat
    /\ MaxAims \in Nat \ {0} /\ FadeSteps \in Nat \ {0}

Phases == {"none", "opening", "waiting", "aligning", "fading", "settling"}
Timers == {"none", "await", "begin", "align", "fade", "promote"}
Volumes == Levels \X (0 .. FadeSteps)
SongType == [file : {"sounding", "over"}, at : 0 .. Length, paused : BOOLEAN, volume : Volumes]
EngineType == [told : BOOLEAN, level : Levels, open : BOOLEAN]
UpType ==
    [phase : Phases, aims : 0 .. MaxAims, target : Nat, restarted : BOOLEAN, timer : Timers,
     step : 0 .. FadeSteps, seeking : 0 .. MaxAims, unread : Nat, at : 0 .. Length,
     sounds : BOOLEAN, stood : BOOLEAN, volume : Volumes \cup {<<>>}]
State == [s : SongType, e : EngineType, u : UpType]

Crossfading == {"fading", "settling"}

\* The one step scheduled is that of the phase.
TimerIsOfThePhase(u) ==
    /\ u.phase \in {"none", "opening"} => u.timer = "none"
    /\ u.phase = "waiting" => u.timer \in {"await", "begin"}
    /\ u.phase = "aligning" => u.timer = "align"
    /\ u.phase = "fading" => u.timer = "fade"
    /\ u.phase = "settling" => u.timer = "promote"

\* A crossfade begins at its first step and has its last one left.
StepIsOfThePhase(u) ==
    /\ u.phase \notin Crossfading => u.step = 0
    /\ u.phase = "fading" => u.step < FadeSteps

\* The new player sounds from some time in the alignment on, where its last seek
\* took it; and beside a song that was not paused, nor is it since.
SoundsBeside(s, u) ==
    /\ u.sounds => u.phase \in Together /\ u.seeking = 0
    /\ u.phase \in Crossfading => u.sounds
    /\ u.phase \in Together /\ ~u.stood => ~s.paused

\* Each aim sends the new player one seek.
SeeksAreAims(u) == u.seeking <= u.aims

VolumeIs(s, e, u) ==
    /\ u.phase \notin Crossfading => s.volume = Full(e.level)
    /\ u.phase = "settling" => u.volume = Full(e.level)

InPlace(s, u) ==
    /\ u.phase \in Crossfading
    /\ s.file = "sounding" /\ ~s.paused /\ s.at < Length
    /\ ~u.stood
    => u.at = s.at

Good(n) ==
    /\ n \in State
    /\ TimerIsOfThePhase(n.u) /\ StepIsOfThePhase(n.u) /\ SoundsBeside(n.s, n.u)
    /\ SeeksAreAims(n.u) /\ VolumeIs(n.s, n.e, n.u) /\ InPlace(n.s, n.u)

IInv == Good(Now)

\* A takeover not yet heard of, between two of its steps or inside one.
Unheard(n) ==
    /\ n \in State /\ n.u.phase \in Ready
    /\ n.u.step = 0 /\ ~n.u.sounds /\ SeeksAreAims(n.u)
    /\ n.s.volume = Full(n.e.level)

-----------------------------------------------------------------------------

LEMMA GoodIsUnheard ==
    ASSUME NEW n, Good(n), n.u.phase \in Ready
    PROVE  Unheard(n)
BY DEF Good, Unheard, Ready, Together, Crossfading, StepIsOfThePhase, SoundsBeside, VolumeIs

LEMMA NowIs ==
    ASSUME IInv
    PROVE  /\ Now \in State /\ Good(Now)
           /\ Now.s = song /\ Now.e = engine /\ Now.u = up
           /\ song \in SongType /\ engine \in EngineType /\ up \in UpType
<1>1. Now \in State /\ Now.s = song /\ Now.e = engine /\ Now.u = up
    BY DEF IInv, Good, Now
<1>2. song \in SongType /\ engine \in EngineType /\ up \in UpType
    BY <1>1 DEF State
<1> QED BY <1>1, <1>2 DEF IInv

LEMMA BecomesGood ==
    ASSUME NEW m, Good(m), Becomes(m)
    PROVE  IInv'
<1>1. m = [s |-> m.s, e |-> m.e, u |-> m.u]
    BY DEF Good, State
<1>2. Now' = m
    BY <1>1 DEF Becomes, Now
<1>3. Good(Now')
    BY <1>2
<1> QED BY <1>3, Zenon DEF IInv

LEMMA FullIs ==
    ASSUME Bounds, NEW level \in Levels
    PROVE  Full(level) \in Volumes /\ Silent(level) \in Volumes
BY DEF Bounds, Full, Silent, Volumes

LEMMA NoUpgradeIs ==
    ASSUME Bounds
    PROVE  /\ NoUpgrade \in UpType /\ NoUpgrade.phase = "none" /\ NoUpgrade.timer = "none"
           /\ NoUpgrade.step = 0 /\ ~NoUpgrade.sounds /\ NoUpgrade.seeking = 0 /\ NoUpgrade.aims = 0
BY DEF Bounds, NoUpgrade, UpType, Phases, Timers

\* A song at the listener's volume, with no takeover of it.
LEMMA AloneIsGood ==
    ASSUME Bounds, NEW n \in State, n.u = NoUpgrade, n.s.volume = Full(n.e.level)
    PROVE  Good(n)
BY NoUpgradeIs DEF Good, TimerIsOfThePhase, StepIsOfThePhase, SoundsBeside, SeeksAreAims, VolumeIs,
    InPlace, Together, Crossfading

LEMMA GivenIsGood ==
    ASSUME Bounds, NEW n \in State, VolumeIs(n.s, n.e, n.u)
    PROVE  /\ Good(Given(n)) /\ Given(n).u = NoUpgrade /\ Given(n).e = n.e
           /\ Given(n).s.file = n.s.file /\ Given(n).s.at = n.s.at /\ Given(n).s.paused = n.s.paused
           /\ Given(n).s.volume = Full(n.e.level)
<1>1. n.s \in SongType /\ n.e \in EngineType /\ n.e.level \in Levels
    BY DEF State, EngineType
<1> DEFINE song2 == [n.s EXCEPT !.volume = IF n.u.phase \in Crossfading THEN Full(n.e.level) ELSE @]
<1>2. song2 \in SongType
    BY <1>1, FullIs DEF SongType
<1>3. /\ song2.file = n.s.file /\ song2.at = n.s.at /\ song2.paused = n.s.paused
      /\ song2.volume = Full(n.e.level)
    BY <1>1 DEF SongType, VolumeIs
<1>4. Given(n) = [n EXCEPT !.s = song2, !.u = NoUpgrade]
    BY DEF Given, State, Crossfading
<1> HIDE DEF song2
<1>5. Given(n) \in State /\ Given(n).s = song2 /\ Given(n).e = n.e /\ Given(n).u = NoUpgrade
    BY <1>2, <1>4, NoUpgradeIs DEF State
<1> QED BY <1>3, <1>5, AloneIsGood

LEMMA AimedIsGood ==
    ASSUME Bounds, NEW n, Unheard(n), NEW at \in Nat
    PROVE  Good(Aimed(n, at))
<1>1. /\ n \in State /\ n.s \in SongType /\ n.e \in EngineType /\ n.u \in UpType
      /\ VolumeIs(n.s, n.e, n.u)
    BY DEF Unheard, State, Ready, VolumeIs, Crossfading
<1>2. CASE n.u.aims = MaxAims \/ Length - at < Room
    BY <1>1, <1>2, GivenIsGood DEF Aimed
<1>3. CASE ~(n.u.aims = MaxAims \/ Length - at < Room)
    <2> DEFINE u == [n.u EXCEPT !.aims = @ + 1, !.target = at, !.restarted = FALSE,
                                !.phase = "opening", !.timer = "none", !.seeking = @ + 1]
    <2>1. n.u.aims \in 0 .. MaxAims /\ n.u.seeking \in 0 .. MaxAims /\ n.u.seeking <= n.u.aims
        BY <1>1 DEF UpType, Unheard, SeeksAreAims
    <2>2. n.u.aims + 1 \in 0 .. MaxAims /\ n.u.seeking + 1 \in 0 .. MaxAims
        BY <1>3, <2>1 DEF Bounds
    <2>3. u \in UpType
        BY <1>1, <2>2 DEF UpType, Phases, Timers
    <2>4. /\ u.phase = "opening" /\ u.timer = "none" /\ u.step = 0 /\ ~u.sounds
          /\ u.seeking <= u.aims
        BY <1>1, <2>1 DEF UpType, Unheard
    <2>5. Aimed(n, at) = [n EXCEPT !.u = u]
        BY <1>1, <1>3 DEF Aimed, State
    <2> HIDE DEF u
    <2>6. /\ Aimed(n, at) \in State /\ Aimed(n, at).u = u /\ Aimed(n, at).s = n.s
          /\ Aimed(n, at).e = n.e
        BY <1>1, <2>3, <2>5 DEF State
    <2> QED BY <2>4, <2>6 DEF Good, Unheard, TimerIsOfThePhase, StepIsOfThePhase, SoundsBeside,
                SeeksAreAims, VolumeIs, InPlace, Together, Crossfading
<1> QED BY <1>2, <1>3

LEMMA AwaitingIsGood ==
    ASSUME Bounds, NEW n, Unheard(n), n.u.phase = "waiting"
    PROVE  Good(Awaiting(n))
<1> DEFINE at == IF n.s.file = "over" THEN 0 ELSE n.s.at
           step == IF n.e.told \/ n.u.target - at > 1 THEN "await" ELSE "begin"
           u == [n.u EXCEPT !.timer = step]
<1>1. /\ n \in State /\ n.s \in SongType /\ n.e \in EngineType /\ n.u \in UpType
      /\ VolumeIs(n.s, n.e, n.u) /\ at \in Nat
    BY DEF Bounds, Unheard, State, Ready, VolumeIs, Crossfading, SongType
<1>2. CASE n.s.file = "over" \/ at >= n.u.target
    <2>1. Awaiting(n) = Aimed(n, at + Reaim)
        BY <1>2 DEF Awaiting
    <2>2. at + Reaim \in Nat
        BY <1>1 DEF Bounds
    <2> QED BY <2>1, <2>2, AimedIsGood
<1>3. CASE ~(n.s.file = "over" \/ at >= n.u.target) /\ Length - n.u.target < Room
    BY <1>1, <1>3, GivenIsGood DEF Awaiting
<1>4. CASE ~(n.s.file = "over" \/ at >= n.u.target) /\ ~(Length - n.u.target < Room)
    <2>1. u \in UpType /\ u.phase = "waiting" /\ u.step = 0 /\ ~u.sounds /\ u.seeking <= u.aims
        BY <1>1 DEF UpType, Timers, Unheard, SeeksAreAims
    <2>2. u.timer \in {"await", "begin"}
        BY <1>1 DEF UpType
    <2>3. Awaiting(n) = [n EXCEPT !.u = u]
        BY <1>1, <1>4 DEF Awaiting, After, State
    <2> HIDE DEF u
    <2>4. /\ Awaiting(n) \in State /\ Awaiting(n).u = u /\ Awaiting(n).s = n.s
          /\ Awaiting(n).e = n.e
        BY <1>1, <2>1, <2>3 DEF State
    <2> QED BY <2>1, <2>2, <2>4 DEF Good, Unheard, TimerIsOfThePhase, StepIsOfThePhase, SoundsBeside,
                SeeksAreAims, VolumeIs, InPlace, Together, Crossfading
<1> QED BY <1>2, <1>3, <1>4

LEMMA JudgedIsGood ==
    ASSUME Bounds, NEW n, Good(n)
    PROVE  Good(Judged(n))
<1>1. CASE ~(n.u.phase = "opening" /\ n.u.restarted)
    BY <1>1 DEF Judged
<1>2. CASE n.u.phase = "opening" /\ n.u.restarted
    <2> DEFINE u == [n.u EXCEPT !.phase = "waiting"]
               m == [n EXCEPT !.u = u]
    <2>1. Unheard(n) /\ n \in State /\ n.u \in UpType
        BY <1>2, GoodIsUnheard DEF Good, Ready, State
    <2>2. /\ u \in UpType /\ u.phase = "waiting" /\ u.step = n.u.step /\ u.sounds = n.u.sounds
          /\ u.seeking = n.u.seeking /\ u.aims = n.u.aims
        BY <2>1 DEF UpType, Phases
    <2>3. Judged(n) = Awaiting(m)
        BY <1>2, <2>1 DEF Judged, State
    <2> HIDE DEF u
    <2>4. m \in State /\ m.u = u /\ m.s = n.s /\ m.e = n.e
        BY <2>1, <2>2 DEF State
    <2>5. Unheard(m) /\ m.u.phase = "waiting"
        BY <2>1, <2>2, <2>4 DEF Unheard, SeeksAreAims, Ready
    <2> QED BY <2>3, <2>5, AwaitingIsGood
<1> QED BY <1>1, <1>2

LEMMA CancelledIsGood ==
    ASSUME Bounds, NEW n, Good(n)
    PROVE  /\ Good(Cancelled(n)) /\ Cancelled(n).e = n.e
           /\ Cancelled(n).u.phase \notin Together
<1>1. n \in State /\ VolumeIs(n.s, n.e, n.u)
    BY DEF Good
<1>2. CASE n.u.phase \in Together
    <2>1. Cancelled(n).u = NoUpgrade /\ Good(Cancelled(n)) /\ Cancelled(n).e = n.e
        BY <1>1, <1>2, GivenIsGood DEF Cancelled
    <2> QED BY <2>1, NoUpgradeIs DEF Together
<1>3. CASE n.u.phase \notin Together
    BY <1>3 DEF Cancelled
<1> QED BY <1>2, <1>3

-----------------------------------------------------------------------------
(* Every step.                                                              *)

LEMMA InitIsGood ==
    ASSUME Bounds, Init
    PROVE  IInv
<1>1. PICK level \in Levels :
          /\ engine = [told |-> FALSE, level |-> level, open |-> TRUE]
          /\ song = [file |-> "sounding", at |-> 0, paused |-> FALSE, volume |-> Full(level)]
    BY DEF Init
<1>2. engine \in EngineType /\ song \in SongType
    BY <1>1, FullIs DEF EngineType, SongType, Bounds
<1>3. up = NoUpgrade
    BY DEF Init
<1>4. Now \in State /\ Now.u = NoUpgrade /\ Now.s.volume = Full(Now.e.level)
    BY <1>1, <1>2, <1>3, NoUpgradeIs DEF Now, State
<1> QED BY <1>4, AloneIsGood DEF IInv

LEMMA StartUpgradeKeeps ==
    ASSUME Bounds, IInv, StartUpgrade
    PROVE  IInv'
<1> DEFINE u == [NoUpgrade EXCEPT !.phase = "opening", !.aims = 1, !.target = song.at + Lead,
                                  !.seeking = 1, !.volume = Silent(engine.level)]
           m == [Now EXCEPT !.u = u]
<1>1. /\ song.at + Lead \in Nat /\ Silent(engine.level) \in Volumes /\ 1 \in 0 .. MaxAims
      /\ song.volume = Full(engine.level)
    BY NowIs, FullIs, NoUpgradeIs DEF Bounds, SongType, EngineType, StartUpgrade, Good, VolumeIs, Crossfading
<1>2. /\ u \in UpType /\ u.phase = "opening" /\ u.timer = "none" /\ u.step = 0 /\ ~u.sounds
      /\ u.seeking = 1 /\ u.aims = 1
    BY <1>1, NoUpgradeIs DEF UpType, Phases
<1>3. up' = u /\ song' = song /\ engine' = engine
    BY DEF StartUpgrade
<1> HIDE DEF u
<1>4. m \in State /\ m.u = u /\ m.s = song /\ m.e = engine
    BY <1>2, NowIs DEF State
<1>5. Becomes(m)
    BY <1>3, <1>4 DEF Becomes
<1>6. Good(m)
    BY <1>1, <1>2, <1>4 DEF Good, TimerIsOfThePhase, StepIsOfThePhase, SoundsBeside,
        SeeksAreAims, VolumeIs, InPlace, Together, Crossfading
<1> QED BY <1>5, <1>6, BecomesGood

LEMMA RestartedKeeps ==
    ASSUME Bounds, IInv, Restarted
    PROVE  IInv'
<1> DEFINE u == [up EXCEPT !.unread = @ - 1, !.restarted = TRUE]
           m == [Now EXCEPT !.u = u]
<1> up.unread - 1 \in Nat
    BY NowIs DEF UpType, Restarted
<1>1. /\ u \in UpType /\ u.phase = up.phase /\ u.timer = up.timer /\ u.step = up.step
      /\ u.sounds = up.sounds /\ u.seeking = up.seeking /\ u.aims = up.aims
      /\ u.stood = up.stood /\ u.volume = up.volume /\ u.at = up.at
    BY NowIs DEF UpType
<1>2. Becomes(Judged(m))
    BY NowIs DEF Restarted, State
<1> HIDE DEF u
<1>3. m \in State /\ m.u = u /\ m.s = song /\ m.e = engine
    BY <1>1, NowIs DEF State
<1>4. Good(m)
    BY <1>1, <1>3, NowIs DEF Good, TimerIsOfThePhase, StepIsOfThePhase, SoundsBeside,
        SeeksAreAims, VolumeIs, InPlace, Together, Crossfading
<1> QED BY <1>2, <1>4, JudgedIsGood, BecomesGood

LEMMA NowGiven ==
    ASSUME Bounds, IInv
    PROVE  Good(Given(Now))
BY NowIs, GivenIsGood DEF Good

LEMMA NewSaysKeeps ==
    ASSUME Bounds, IInv, NewSays
    PROVE  IInv'
BY NowIs, NowGiven, JudgedIsGood, BecomesGood DEF NewSays

LEMMA GivingUpKeeps ==
    ASSUME Bounds, IInv, Becomes(Given(Now))
    PROVE  IInv'
BY NowGiven, BecomesGood

LEMMA WaitingIsUnheard ==
    ASSUME Bounds, IInv, up.timer \in {"await", "begin"}
    PROVE  Unheard(Now) /\ Now.u.phase = "waiting"
<1>1. up.phase = "waiting"
    BY NowIs DEF Good, TimerIsOfThePhase, UpType, Phases
<1> QED BY <1>1, NowIs, GoodIsUnheard DEF Ready

LEMMA AwaitTakeoverKeeps ==
    ASSUME Bounds, IInv, AwaitTakeover
    PROVE  IInv'
BY WaitingIsUnheard, AwaitingIsGood, BecomesGood DEF AwaitTakeover

LEMMA BeginTakeoverKeeps ==
    ASSUME Bounds, IInv, BeginTakeover
    PROVE  IInv'
<1>1. Unheard(Now) /\ Now.u.phase = "waiting"
    BY WaitingIsUnheard DEF BeginTakeover
<1> DEFINE turned == engine.told \/ song.file = "over" \/ song.at # up.target
           u == [up EXCEPT !.phase = "aligning", !.stood = song.paused, !.timer = "align"]
           m == [Now EXCEPT !.u = u]
<1>2. CASE turned
    BY <1>1, <1>2, AwaitingIsGood, BecomesGood DEF BeginTakeover
<1>3. CASE ~turned
    <2>1. /\ u \in UpType /\ u.phase = "aligning" /\ u.timer = "align" /\ u.step = up.step
          /\ u.sounds = up.sounds /\ u.seeking = up.seeking /\ u.aims = up.aims
          /\ u.stood = song.paused
        BY NowIs DEF UpType, Phases, Timers, SongType
    <2>2. Becomes(m)
        BY <1>3, NowIs DEF BeginTakeover, After, State
    <2> HIDE DEF u
    <2>3. m \in State /\ m.u = u /\ m.s = song /\ m.e = engine
        BY <2>1, NowIs DEF State
    <2>4. Good(m)
        BY <1>1, <2>1, <2>3, NowIs DEF Unheard, Good, TimerIsOfThePhase, StepIsOfThePhase,
            SoundsBeside, SeeksAreAims, VolumeIs, InPlace, Together, Crossfading
    <2> QED BY <2>2, <2>4, BecomesGood
<1> QED BY <1>2, <1>3

LEMMA AlignTickKeeps ==
    ASSUME Bounds, IInv, AlignTick
    PROVE  IInv'
<1> DEFINE u == [up EXCEPT !.phase = "fading", !.timer = "fade"]
           m == [Now EXCEPT !.u = u]
<1>1. up.phase = "aligning"
    BY NowIs DEF AlignTick, Good, TimerIsOfThePhase, UpType, Phases
<1>2. CASE Becomes(Given(Now))
    BY <1>2, GivingUpKeeps
<1>3. CASE Becomes(Now)
    BY <1>3, NowIs, BecomesGood
<1>4. CASE up.sounds /\ up.at = song.at /\ Becomes(After([Now EXCEPT !.u.phase = "fading"], "fade"))
    <2>1. /\ u \in UpType /\ u.phase = "fading" /\ u.timer = "fade" /\ u.step = up.step
          /\ u.sounds = up.sounds /\ u.seeking = up.seeking /\ u.aims = up.aims
          /\ u.stood = up.stood /\ u.at = up.at
        BY NowIs DEF UpType, Phases, Timers
    <2>2. Becomes(m)
        BY <1>4, NowIs DEF After, State
    <2> HIDE DEF u
    <2>3. m \in State /\ m.u = u /\ m.s = song /\ m.e = engine
        BY <2>1, NowIs DEF State
    <2>4. TimerIsOfThePhase(u) /\ SeeksAreAims(u) /\ VolumeIs(song, engine, u)
        BY <2>1, NowIs DEF Good, TimerIsOfThePhase, SeeksAreAims, VolumeIs, Crossfading
    <2>5. StepIsOfThePhase(u)
        BY <1>1, <2>1, NowIs DEF Bounds, Good, StepIsOfThePhase, Crossfading
    <2>6. SoundsBeside(song, u) /\ InPlace(song, u)
        BY <1>1, <1>4, <2>1, NowIs DEF Good, SoundsBeside, InPlace, Together
    <2>7. Good(m)
        BY <2>3, <2>4, <2>5, <2>6 DEF Good
    <2> QED BY <2>2, <2>7, BecomesGood
<1> QED BY <1>2, <1>3, <1>4 DEF AlignTick

LEMMA FadeTickKeeps ==
    ASSUME Bounds, IInv, FadeTick
    PROVE  IInv'
<1> DEFINE step == up.step + 1
           u == [up EXCEPT !.step = step, !.volume = <<engine.level, step>>]
           s == [song EXCEPT !.volume = <<engine.level, FadeSteps - step>>]
           u2 == [u EXCEPT !.phase = "settling", !.timer = "promote"]
           m == [Now EXCEPT !.u = u, !.s = s]
           m2 == [Now EXCEPT !.u = u2, !.s = s]
<1>1. up.phase = "fading" /\ up.timer = "fade"
    BY NowIs DEF FadeTick, Good, TimerIsOfThePhase, UpType, Phases
<1>2. step \in 0 .. FadeSteps /\ FadeSteps - step \in 0 .. FadeSteps /\ engine.level \in Levels
    BY <1>1, NowIs DEF Bounds, Good, StepIsOfThePhase, UpType, EngineType
<1>3. <<engine.level, step>> \in Volumes /\ <<engine.level, FadeSteps - step>> \in Volumes
    BY <1>2 DEF Volumes
<1>4. /\ u \in UpType /\ u.phase = "fading" /\ u.timer = "fade" /\ u.step = step
      /\ u.sounds = up.sounds /\ u.seeking = up.seeking /\ u.aims = up.aims
      /\ u.stood = up.stood /\ u.at = up.at /\ u.volume = <<engine.level, step>>
    BY <1>1, <1>2, <1>3, NowIs DEF UpType
<1>5. s \in SongType /\ s.file = song.file /\ s.at = song.at /\ s.paused = song.paused
    BY <1>3, NowIs DEF SongType
<1>6. IF step < FadeSteps THEN Becomes(m) ELSE Becomes(m2)
    BY <1>4, NowIs DEF FadeTick, After, State
<1>7. /\ u2 \in UpType /\ u2.phase = "settling" /\ u2.timer = "promote" /\ u2.step = step
      /\ u2.sounds = up.sounds /\ u2.seeking = up.seeking /\ u2.aims = up.aims
      /\ u2.stood = up.stood /\ u2.at = up.at /\ u2.volume = <<engine.level, step>>
    BY <1>4 DEF UpType, Phases, Timers
<1> HIDE DEF u, u2, s
<1>8. CASE step < FadeSteps
    <2>1. m \in State /\ m.u = u /\ m.s = s /\ m.e = engine
        BY <1>4, <1>5, NowIs DEF State
    <2>2. Good(m)
        BY <1>1, <1>4, <1>5, <1>8, <2>1, NowIs DEF Good, TimerIsOfThePhase, StepIsOfThePhase,
            SoundsBeside, SeeksAreAims, VolumeIs, InPlace, Together, Crossfading
    <2> QED BY <1>6, <1>8, <2>2, BecomesGood
<1>9. CASE ~(step < FadeSteps)
    <2>1. m2 \in State /\ m2.u = u2 /\ m2.s = s /\ m2.e = engine
        BY <1>5, <1>7, NowIs DEF State
    <2>2. u2.volume = Full(engine.level)
        BY <1>2, <1>7, <1>9 DEF Full, Bounds
    <2>3. Good(m2)
        BY <1>1, <1>5, <1>7, <2>1, <2>2, NowIs DEF Good, TimerIsOfThePhase, StepIsOfThePhase,
            SoundsBeside, SeeksAreAims, VolumeIs, InPlace, Together, Crossfading
    <2> QED BY <1>6, <1>9, <2>3, BecomesGood
<1> QED BY <1>8, <1>9

LEMMA PromoteUpgradeKeeps ==
    ASSUME Bounds, IInv, PromoteUpgrade
    PROVE  IInv'
<1> DEFINE s == [file |-> "sounding", at |-> up.at, paused |-> FALSE, volume |-> up.volume]
           e == [engine EXCEPT !.told = FALSE, !.open = TRUE]
           m == [s |-> s, e |-> e, u |-> NoUpgrade]
<1>1. up.phase = "settling"
    BY NowIs DEF PromoteUpgrade, Good, TimerIsOfThePhase, UpType, Phases
<1>2. up.volume = Full(engine.level) /\ engine.level \in Levels
    BY <1>1, NowIs DEF Good, VolumeIs, EngineType
<1>3. s \in SongType /\ s.volume = Full(engine.level)
    BY <1>2, NowIs, FullIs DEF SongType, UpType
<1>4. e \in EngineType /\ e.level = engine.level
    BY NowIs DEF EngineType
<1>5. m \in State /\ Becomes(m)
    BY <1>3, <1>4, NoUpgradeIs DEF State, PromoteUpgrade, Becomes
<1>6. Good(m)
    BY <1>3, <1>4, <1>5, AloneIsGood
<1> QED BY <1>5, <1>6, BecomesGood

LEMMA SetPausedKeeps ==
    ASSUME Bounds, IInv, NEW paused \in BOOLEAN, SetPaused(paused)
    PROVE  IInv'
<1> DEFINE n == IF paused THEN Cancelled(Now) ELSE Now
           s == [n.s EXCEPT !.paused = paused]
           m == [n EXCEPT !.s = s]
<1>1. Good(n) /\ (paused => n.u.phase \notin Together)
    BY NowIs, CancelledIsGood
<1>2. Becomes(m)
    BY <1>1 DEF SetPaused, Good, State
<1> HIDE DEF n
<1>3. n \in State /\ n.s \in SongType
    BY <1>1 DEF Good, State
<1>4. s \in SongType /\ s.file = n.s.file /\ s.at = n.s.at /\ s.paused = paused /\ s.volume = n.s.volume
    BY <1>3 DEF SongType
<1> HIDE DEF s
<1>5. m \in State /\ m.u = n.u /\ m.s = s /\ m.e = n.e
    BY <1>3, <1>4 DEF State
<1>6. SoundsBeside(s, n.u)
    BY <1>1, <1>4 DEF Good, SoundsBeside
<1>7. InPlace(s, n.u)
    BY <1>1, <1>4 DEF Good, InPlace, Crossfading, Together, SoundsBeside
<1>8. Good(m)
    BY <1>1, <1>4, <1>5, <1>6, <1>7 DEF Good, VolumeIs
<1> QED BY <1>2, <1>8, BecomesGood

LEMMA SeekKeeps ==
    ASSUME Bounds, IInv, NEW at \in 0 .. Length, Seek(at)
    PROVE  IInv'
<1> DEFINE n == Cancelled(Now)
           s == [n.s EXCEPT !.at = at]
           m == [n EXCEPT !.s = s]
<1>1. Good(n) /\ n.u.phase \notin Together
    BY NowIs, CancelledIsGood
<1>2. Becomes(IF m.u.phase \in Ready THEN Aimed(m, at + Lead) ELSE m)
    BY <1>1 DEF Seek, Good, State
<1> HIDE DEF n
<1>3. n \in State /\ n.s \in SongType
    BY <1>1 DEF Good, State
<1>4. s \in SongType /\ s.paused = n.s.paused /\ s.volume = n.s.volume
    BY <1>3 DEF SongType
<1> HIDE DEF s
<1>5. m \in State /\ m.u = n.u /\ m.s = s /\ m.e = n.e
    BY <1>3, <1>4 DEF State
<1>6. Good(m)
    BY <1>1, <1>4, <1>5 DEF Good, SoundsBeside, InPlace, VolumeIs, Together, Crossfading
<1> HIDE DEF m
<1>7. CASE m.u.phase \in Ready
    <2>1. at + Lead \in Nat
        BY DEF Bounds
    <2>2. Good(Aimed(m, at + Lead))
        BY <1>6, <1>7, <2>1, GoodIsUnheard, AimedIsGood
    <2> QED BY <1>2, <1>7, <2>2, BecomesGood
<1> QED BY <1>2, <1>6, <1>7, BecomesGood

LEMMA SetVolumeKeeps ==
    ASSUME Bounds, IInv, NEW level \in Levels, SetVolume(level)
    PROVE  IInv'
<1> DEFINE e == [engine EXCEPT !.level = level]
           s == [song EXCEPT !.volume = IF up.phase \in Crossfading THEN @ ELSE Full(level)]
           u == [up EXCEPT !.volume = IF up.phase = "settling" THEN Full(level) ELSE @]
           m == [s |-> s, e |-> e, u |-> u]
<1>1. e \in EngineType /\ e.level = level
    BY NowIs DEF EngineType
<1>2. /\ s \in SongType /\ s.file = song.file /\ s.at = song.at /\ s.paused = song.paused
      /\ up.phase \notin Crossfading => s.volume = Full(level)
    BY NowIs, FullIs DEF SongType
<1>3. /\ u \in UpType /\ u.phase = up.phase /\ u.timer = up.timer /\ u.step = up.step
      /\ u.sounds = up.sounds /\ u.seeking = up.seeking /\ u.aims = up.aims
      /\ u.stood = up.stood /\ u.at = up.at
      /\ up.phase = "settling" => u.volume = Full(level)
    BY NowIs, FullIs DEF UpType
<1>4. Becomes(m)
    BY NowIs DEF SetVolume, State, Becomes, Crossfading
<1> HIDE DEF e, s, u
<1>5. m \in State /\ m.u = u /\ m.s = s /\ m.e = e
    BY <1>1, <1>2, <1>3 DEF State
<1>6. Good(m)
    BY <1>1, <1>2, <1>3, <1>5, NowIs DEF Good, TimerIsOfThePhase, StepIsOfThePhase,
        SoundsBeside, SeeksAreAims, VolumeIs, InPlace
<1> QED BY <1>4, <1>6, BecomesGood

LEMMA SetSpeedKeeps ==
    ASSUME Bounds, IInv, SetSpeed
    PROVE  IInv'
BY NowIs, CancelledIsGood, BecomesGood DEF SetSpeed

\* Another file, or none, with nothing taken over.
LEMMA FileKeeps ==
    ASSUME Bounds, IInv, NEW m \in State, Becomes(m), m.u = NoUpgrade,
           m.s.volume = Given(Now).s.volume, m.e.level = engine.level
    PROVE  IInv'
<1>1. m.s.volume = Full(m.e.level)
    BY NowIs, GivenIsGood DEF Good
<1> QED BY <1>1, AloneIsGood, BecomesGood

LEMMA GivenNowIs ==
    ASSUME Bounds, IInv
    PROVE  /\ Given(Now) \in State /\ Given(Now).u = NoUpgrade /\ Given(Now).e = engine
           /\ Given(Now).s \in SongType
BY NowIs, GivenIsGood, NowGiven DEF Good, State

LEMMA LoadKeeps ==
    ASSUME Bounds, IInv, NEW paused \in BOOLEAN, Load(paused)
    PROVE  IInv'
<1> DEFINE g == Given(Now)
           s == [g.s EXCEPT !.file = "sounding", !.at = 0, !.paused = paused]
           e == [g.e EXCEPT !.open = TRUE]
           m == [g EXCEPT !.s = s, !.e = e]
<1>1. g \in State /\ g.u = NoUpgrade /\ g.e = engine /\ g.s \in SongType
    BY GivenNowIs
<1>2. Becomes(m)
    BY <1>1 DEF Load, State
<1> HIDE DEF g
<1>3. s \in SongType /\ s.volume = g.s.volume
    <2>1. 0 \in 0 .. Length
        BY DEF Bounds
    <2> QED BY <1>1, <2>1 DEF SongType
<1>4. e \in EngineType /\ e.level = engine.level
    BY <1>1, NowIs DEF EngineType
<1> HIDE DEF s, e
<1>5. m \in State /\ m.u = NoUpgrade /\ m.s = s /\ m.e = e
    BY <1>1, <1>3, <1>4 DEF State
<1> QED BY <1>2, <1>3, <1>4, <1>5, FileKeeps DEF g

LEMMA StopKeeps ==
    ASSUME Bounds, IInv, Stop
    PROVE  IInv'
<1> DEFINE g == Given(Now)
           s == [g.s EXCEPT !.file = "over"]
           e == [g.e EXCEPT !.open = FALSE]
           m == [g EXCEPT !.s = s, !.e = e]
<1>1. g \in State /\ g.u = NoUpgrade /\ g.e = engine /\ g.s \in SongType
    BY GivenNowIs
<1>2. Becomes(m)
    BY <1>1 DEF Stop, State
<1> HIDE DEF g
<1>3. s \in SongType /\ s.volume = g.s.volume
    BY <1>1 DEF SongType
<1>4. e \in EngineType /\ e.level = engine.level
    BY <1>1, NowIs DEF EngineType
<1> HIDE DEF s, e
<1>5. m \in State /\ m.u = NoUpgrade /\ m.s = s /\ m.e = e
    BY <1>1, <1>3, <1>4 DEF State
<1> QED BY <1>2, <1>3, <1>4, <1>5, FileKeeps DEF g

LEMMA EngineToldKeeps ==
    ASSUME Bounds, IInv, PauseChanged \/ EndRead
    PROVE  IInv'
<1>1. engine' \in EngineType /\ engine'.level = engine.level /\ song' = song /\ up' = up
    BY NowIs DEF PauseChanged, EndRead, EngineType, SongType
<1> DEFINE m == [s |-> song, e |-> engine', u |-> up]
<1>2. m \in State /\ Becomes(m)
    BY <1>1, NowIs DEF State, Becomes
<1>3. Good(m)
    BY <1>1, <1>2, NowIs DEF Good, VolumeIs
<1> QED BY <1>2, <1>3, BecomesGood

LEMMA SongEndsKeeps ==
    ASSUME Bounds, IInv, SongEnds
    PROVE  IInv'
<1> DEFINE s == [song EXCEPT !.file = "over"]
           m == [s |-> s, e |-> engine, u |-> up]
<1>1. /\ s \in SongType /\ s.paused = song.paused /\ s.volume = song.volume /\ s.file = "over"
    BY NowIs DEF SongType
<1>2. m \in State /\ Becomes(m)
    BY <1>1, NowIs DEF State, Becomes, SongEnds
<1>3. Good(m)
    BY <1>1, <1>2, NowIs DEF Good, SoundsBeside, VolumeIs, InPlace
<1> QED BY <1>2, <1>3, BecomesGood

LEMMA TickKeeps ==
    ASSUME Bounds, IInv, Tick
    PROVE  IInv'
<1> DEFINE s == [song EXCEPT !.at = IF Plays THEN @ + 1 ELSE @]
           u == [up EXCEPT !.at = IF up.sounds /\ @ < Length THEN @ + 1 ELSE @]
           m == [s |-> s, e |-> engine, u |-> u]
<1>1. /\ song.at \in 0 .. Length /\ up.at \in 0 .. Length
      /\ Plays => song.at < Length
    BY NowIs DEF SongType, UpType, Plays
<1>2. (IF Plays THEN song.at + 1 ELSE song.at) \in 0 .. Length
    BY <1>1 DEF Bounds
<1>3. (IF up.sounds /\ up.at < Length THEN up.at + 1 ELSE up.at) \in 0 .. Length
    BY <1>1 DEF Bounds
<1>4. /\ s \in SongType /\ s.file = song.file /\ s.paused = song.paused /\ s.volume = song.volume
      /\ s.at = IF Plays THEN song.at + 1 ELSE song.at
    BY <1>2, NowIs DEF SongType
<1>5. /\ u \in UpType /\ u.phase = up.phase /\ u.timer = up.timer /\ u.step = up.step
      /\ u.sounds = up.sounds /\ u.seeking = up.seeking /\ u.aims = up.aims
      /\ u.stood = up.stood /\ u.volume = up.volume
      /\ u.at = IF up.sounds /\ up.at < Length THEN up.at + 1 ELSE up.at
    BY <1>3, NowIs DEF UpType
<1>6. Becomes(m)
    BY DEF Tick, Becomes
<1> HIDE DEF s, u
<1>7. m \in State /\ m.u = u /\ m.s = s /\ m.e = engine
    BY <1>4, <1>5, NowIs DEF State
<1>8. InPlace(s, u)
    <2> SUFFICES ASSUME u.phase \in Crossfading, ~u.stood, s.file = "sounding", ~s.paused, s.at < Length
                 PROVE  u.at = s.at
        BY DEF InPlace
    <2>1. Plays
        BY <1>1, <1>4 DEF Plays, Bounds
    <2>2. up.at = song.at /\ up.sounds
        BY <1>5, <2>1, NowIs DEF Good, InPlace, SoundsBeside, Plays
    <2> QED BY <1>1, <1>4, <1>5, <2>1, <2>2 DEF Bounds
<1>9. Good(m)
    BY <1>4, <1>5, <1>7, <1>8, NowIs DEF Good, TimerIsOfThePhase, StepIsOfThePhase,
        SoundsBeside, SeeksAreAims, VolumeIs
<1> QED BY <1>6, <1>9, BecomesGood

LEMMA NewReadyKeeps ==
    ASSUME Bounds, IInv, NewReady
    PROVE  IInv'
<1>1. PICK left \in 0 .. up.seeking - 1, at \in 0 .. Length :
          up' = [up EXCEPT !.seeking = left, !.at = at, !.unread = @ + 1]
    BY DEF NewReady
<1> DEFINE u == [up EXCEPT !.seeking = left, !.at = at, !.unread = @ + 1]
           m == [s |-> song, e |-> engine, u |-> u]
<1>2. /\ up.seeking \in 0 .. MaxAims /\ up.aims \in 0 .. MaxAims /\ up.seeking > 0
      /\ up.seeking <= up.aims
    BY NowIs DEF UpType, NewReady, Good, SeeksAreAims
<1>3. left \in 0 .. MaxAims /\ left <= up.aims
    BY <1>2 DEF Bounds
<1>4. /\ u \in UpType /\ u.phase = up.phase /\ u.timer = up.timer /\ u.step = up.step
      /\ u.sounds = up.sounds /\ u.seeking = left /\ u.aims = up.aims
      /\ u.stood = up.stood /\ u.volume = up.volume
    <2>1. up.unread + 1 \in Nat /\ up \in UpType /\ at \in 0 .. Length
        BY <1>1, NowIs DEF UpType
    <2> QED BY <1>3, <2>1 DEF UpType
<1>5. Becomes(m)
    BY <1>1 DEF NewReady, Becomes
<1> HIDE DEF u
<1>6. m \in State /\ m.u = u /\ m.s = song /\ m.e = engine
    BY <1>4, NowIs DEF State
<1>7. ~up.sounds
    BY <1>2, NowIs DEF Good, SoundsBeside
<1>8. Good(m)
    BY <1>3, <1>4, <1>6, <1>7, NowIs DEF Good, TimerIsOfThePhase, StepIsOfThePhase,
        SoundsBeside, SeeksAreAims, VolumeIs, InPlace
<1> QED BY <1>5, <1>8, BecomesGood

LEMMA NewSoundsKeeps ==
    ASSUME Bounds, IInv, NewSounds
    PROVE  IInv'
<1> DEFINE u == [up EXCEPT !.sounds = TRUE]
           m == [s |-> song, e |-> engine, u |-> u]
<1>1. /\ u \in UpType /\ u.phase = up.phase /\ u.timer = up.timer /\ u.step = up.step
      /\ u.sounds /\ u.seeking = up.seeking /\ u.aims = up.aims
      /\ u.stood = up.stood /\ u.volume = up.volume /\ u.at = up.at
    BY NowIs DEF UpType
<1>2. Becomes(m)
    BY DEF NewSounds, Becomes
<1> HIDE DEF u
<1>3. m \in State /\ m.u = u /\ m.s = song /\ m.e = engine
    BY <1>1, NowIs DEF State
<1>4. Good(m)
    BY <1>1, <1>3, NowIs DEF NewSounds, Good, TimerIsOfThePhase, StepIsOfThePhase,
        SoundsBeside, SeeksAreAims, VolumeIs, InPlace, Together
<1> QED BY <1>2, <1>4, BecomesGood

LEMMA NextKeeps ==
    ASSUME Bounds, IInv, Next
    PROVE  IInv'
<1>1. ASSUME NEW paused \in BOOLEAN, SetPaused(paused) \/ Load(paused)
      PROVE  IInv'
    BY <1>1, SetPausedKeeps, LoadKeeps
<1>2. CASE Listener
    <2>1. CASE SetSpeed \/ Stop \/ StartUpgrade
        BY <2>1, SetSpeedKeeps, StopKeeps, StartUpgradeKeeps
    <2>2. CASE CancelUpgrade
        BY <2>2, GivingUpKeeps DEF CancelUpgrade
    <2> QED BY <1>1, <1>2, <2>1, <2>2, SeekKeeps, SetVolumeKeeps DEF Listener
<1>3. CASE Steps
    <2>1. CASE GiveUp
        BY <2>1, GivingUpKeeps DEF GiveUp
    <2> QED BY <1>3, <2>1, AwaitTakeoverKeeps, BeginTakeoverKeeps, AlignTickKeeps, FadeTickKeeps,
                PromoteUpgradeKeeps DEF Steps
<1>4. CASE Restarted \/ NewSays
    BY <1>4, RestartedKeeps, NewSaysKeeps
<1>5. CASE NewFails
    BY <1>5, GivingUpKeeps DEF NewFails
<1>6. CASE Players
    BY <1>6, EngineToldKeeps, SongEndsKeeps, TickKeeps, NewReadyKeeps, NewSoundsKeeps DEF Players
<1> QED BY <1>2, <1>3, <1>4, <1>5, <1>6 DEF Next

LEMMA StutterKeeps ==
    ASSUME IInv, UNCHANGED taking
    PROVE  IInv'
<1>1. Now' = Now
    BY DEF taking, Now
<1>2. Good(Now')
    BY <1>1 DEF IInv
<1> QED BY <1>2, Zenon DEF IInv

\* In every state of every behaviour.
LEMMA Always ==
    ASSUME Bounds
    PROVE  Spec => []IInv
<1>1. Init => IInv
    BY InitIsGood
<1>2. IInv /\ [Next]_taking => IInv'
    BY NextKeeps, StutterKeeps
<1> QED BY <1>1, <1>2, PTL DEF Spec

-----------------------------------------------------------------------------

\* Every member keeps to its values: no more aims than the engine allows itself
\* (aimUpgrade), no step past the crossfade's last (fadeTick).
THEOREM TakeoverTypes ==
    ASSUME Bounds
    PROVE  Spec => []TypeOK
<1>1. IInv => TypeOK
    <2> SUFFICES ASSUME IInv PROVE TypeOK
        OBVIOUS
    <2>1. song.file \in {"sounding", "over"} /\ song.at \in 0 .. Length /\ engine.level \in Levels
        BY NowIs DEF SongType, EngineType
    <2>2. /\ up.phase \in {"none"} \cup Ready \cup Together
          /\ up.aims \in 0 .. MaxAims /\ up.seeking \in 0 .. MaxAims /\ up.step \in 0 .. FadeSteps
        BY NowIs DEF UpType, Phases, Ready, Together
    <2> QED BY <2>1, <2>2 DEF TypeOK
<1> QED BY <1>1, Always, PTL

\* Whatever the listener does during a takeover, and however it ends, the song is
\* at the listener's volume (setVolume, fadeTick, endUpgrade).
THEOREM TheVolumeIsTheListeners ==
    ASSUME Bounds
    PROVE  Spec => []VolumeIsTheListeners
<1>1. IInv => VolumeIsTheListeners
    <2> SUFFICES ASSUME IInv PROVE VolumeIsTheListeners
        OBVIOUS
    <2>1. VolumeIs(song, engine, up)
        BY NowIs DEF Good
    <2> QED BY <2>1 DEF VolumeIs, VolumeIsTheListeners, Crossfading
<1> QED BY <1>1, Always, PTL

\* All through the crossfade of a song that plays the two clocks are at one place
\* (alignTick, seekAbsolute, setPaused).
THEOREM TheyKeepInPlace ==
    ASSUME Bounds
    PROVE  Spec => []SwapsInPlace
<1>1. IInv => SwapsInPlace
    <2> SUFFICES ASSUME IInv PROVE SwapsInPlace
        OBVIOUS
    <2>1. InPlace(song, up)
        BY NowIs DEF Good
    <2> QED BY <2>1 DEF InPlace, SwapsInPlace, Plays, Crossfading
<1> QED BY <1>1, Always, PTL

\* The swap: the player there is from then on goes on where the song was, at the
\* listener's volume, and sounds (promoteUpgrade).
THEOREM TheSwapIsNotHeard ==
    ASSUME Bounds
    PROVE  Spec => [][PromoteUpgrade =>
                          /\ song'.volume = Full(engine.level)
                          /\ Plays /\ ~up.stood => song'.at = song.at /\ song'.file = song.file]_taking
<1>1. ASSUME IInv, PromoteUpgrade
      PROVE  /\ song'.volume = Full(engine.level)
             /\ Plays /\ ~up.stood => song'.at = song.at /\ song'.file = song.file
    <2>1. up.phase = "settling"
        BY <1>1, NowIs DEF PromoteUpgrade, Good, TimerIsOfThePhase, UpType, Phases
    <2>2. up.volume = Full(engine.level) /\ (Plays /\ ~up.stood => up.at = song.at)
        BY <1>1, <2>1, NowIs DEF Good, VolumeIs, InPlace, Plays, Crossfading
    <2>3. song' = [file |-> "sounding", at |-> up.at, paused |-> FALSE, volume |-> up.volume]
        BY <1>1 DEF PromoteUpgrade
    <2> QED BY <2>2, <2>3 DEF Plays
<1> QED BY <1>1, Always, PTL
-----------------------------------------------------------------------------
(* Rescue: one song's plays.                                                *)

Rungs == {"InnerTube", "YtDlp", "Muxed", "Public", "SignedIn"}
Sources == Rungs \cup {"Saavn", "none"}

\* The shapes of the variables; the song as a track is asked for by a walk of its
\* own.
CtlType ==
    [pending : BOOLEAN, walk : Seq(Rungs \cup {"track"}), tier : Sources, cached : BOOLEAN,
     home : Rungs \cup {"none"}, refused : SUBSET Sources, again : BOOLEAN, resumed : BOOLEAN,
     tried : BOOLEAN, offer : BOOLEAN, due : BOOLEAN, probe : Nat, moving : BOOLEAN]
ResType ==
    [cache : Rungs \cup {"none"}, rescue : Rungs \cup {"none"}, lately : BOOLEAN,
     saavn : {"unknown", "none", "match", "refused"}, late : BOOLEAN, fetching : BOOLEAN, on : BOOLEAN]
SoundType ==
    [file : {"none", "opening", "sounding"}, from : Sources, move : {"none", "ready", "together"},
     compared : Nat]

Typed == ctl \in CtlType /\ res \in ResType /\ sound \in SoundType /\ plays \in Nat /\ loads \in Nat

\* Some rungs asked for: InnerTube is only ever the first of them.
RungWalk(walk) ==
    /\ walk \in Seq(Rungs) /\ walk # <<>> /\ walk # Top
    /\ "InnerTube" \in ToSet(walk) => Head(walk) = "InnerTube"

\* The walk asked for, for as long as it is out; a rung that plays is not
\* waited for.
Asking(c) ==
    /\ c.pending <=> c.walk # <<>>
    /\ c.walk \in {<<>>, AsTrack, Top} \/ RungWalk(c.walk)
    /\ c.pending => c.tier \in {"none", "Saavn"}

\* The link playing is the one the two copies are being compared in.
Comparing(c) == c.probe # 0 /\ c.probe = loads

\* A play is moved once, from YouTube's link, and not after JioSaavn's was refused.
MovesOnce(c, s) ==
    /\ c.probe <= loads
    /\ c.probe # 0 \/ s.move # "none" => c.tried
    /\ c.probe # 0 => s.move = "none"
    /\ s.move # "none" => c.moving
    /\ Comparing(c) \/ s.move # "none" => c.tier # "Saavn" /\ "Saavn" \notin c.refused

\* JioSaavn's link is refused once a play.
SaavnIsSpared(c, s) ==
    /\ c.tier = "Saavn" => "Saavn" \notin c.refused
    /\ c.walk = AsTrack => /\ c.tier = "none" /\ "Saavn" \notin c.refused
                           /\ s.move = "none" /\ ~Comparing(c)

-----------------------------------------------------------------------------
(* The links a play may still be given.                                     *)

One(P) == IF P THEN 1 ELSE 0

\* The two rungs a play may find refused and still go on below.
RungsLeft(refused) == One("YtDlp" \notin refused) + One("Muxed" \notin refused)

\* Beside the rungs not refused yet, what a link playing, or a walk under way,
\* is good for: InnerTube's may be asked for again, a link from memory may be
\* refused in vain, and one of a rung refused before as well.
OfLink(c, tier, cached) ==
    IF tier = "InnerTube" THEN 1 + One(~c.again)
    ELSE One(tier = "SignedIn" \/ tier \in c.refused) + One(cached /\ tier # "Saavn")

\* A walk from the top is good for any answer; of some rungs, one refused before,
\* or the rescue's link from memory, may be among the answers.
OfWalk(c, r) ==
    IF c.walk \in {AsTrack, Top} THEN 2
    ELSE IF "InnerTube" \in ToSet(c.walk) THEN 1 + One(~c.again)
    ELSE One(\E tier \in ToSet(c.walk) : tier = "SignedIn" \/ tier \in c.refused) + One(r.rescue # "none")

\* What is under way: a walk, which is good for a link and for what that leaves, or
\* a link.
OfNow(c, r) == IF c.pending THEN 1 + OfWalk(c, r) ELSE OfLink(c, c.tier, c.cached)

\* The one early end it is carried on after, and JioSaavn's one refusal, are good
\* for a walk each.
Rest(c, r) == RungsLeft(c.refused) + 3 * One(~c.resumed) + 3 * One("Saavn" \notin c.refused) + One(r.fetching)

\* A play that is over is given nothing more.
Alive(c, s) == c.pending \/ c.tier # "none" \/ s.move # "none"

LinksLeft(c, r, s) == IF Alive(c, s) THEN OfNow(c, r) + Rest(c, r) ELSE 0

\* Three links for the first walk, a rung each, three for the early end, three for
\* JioSaavn's refusal and one prefetched.
FewLinks == 12

\* The links given and the links a play may still be given.
Bounded == loads + LinksLeft(ctl, res, sound) <= FewLinks

\* The induction's invariant.
PlayInv ==
    /\ Typed /\ Asking(ctl) /\ MovesOnce(ctl, sound) /\ SaavnIsSpared(ctl, sound)
    /\ LabelIsTrue /\ OffsetIsTheLinks /\ StandardStays
    /\ Bounded

-----------------------------------------------------------------------------
(* Walks.                                                                   *)

\* A count of one thing.
LEMMA OneIs == ASSUME NEW P PROVE One(P) \in {0, 1}
BY DEF One

\* Two walks, one after the other.
LEMMA ToSetOf ==
    ASSUME NEW S, NEW s \in Seq(S), NEW t \in Seq(S)
    PROVE  /\ s \o t \in Seq(S)
           /\ ToSet(s \o t) = ToSet(s) \cup ToSet(t)
           /\ ToSet(s) \subseteq S
           /\ s # <<>> => Head(s) \in ToSet(s) /\ s \o t # <<>> /\ Head(s \o t) = Head(s)
<1>1. s \o t \in Seq(S) /\ Len(s \o t) = Len(s) + Len(t)
    OBVIOUS
<1>2. ToSet(s \o t) \subseteq ToSet(s) \cup ToSet(t)
    <2> SUFFICES ASSUME NEW i \in 1 .. (Len(s) + Len(t)) PROVE (s \o t)[i] \in ToSet(s) \cup ToSet(t)
        BY <1>1 DEF ToSet
    <2>1. CASE i <= Len(s)
        BY <2>1 DEF ToSet
    <2>2. CASE i > Len(s)
        <3>1. (s \o t)[i] = t[i - Len(s)] /\ i - Len(s) \in 1 .. Len(t)
            BY <2>2
        <3> QED BY <3>1 DEF ToSet
    <2> QED BY <2>1, <2>2
<1>3. ToSet(s) \subseteq ToSet(s \o t)
    <2> SUFFICES ASSUME NEW i \in 1 .. Len(s) PROVE s[i] \in ToSet(s \o t)
        BY DEF ToSet
    <2>1. (s \o t)[i] = s[i] /\ i \in 1 .. Len(s \o t)
        BY <1>1
    <2> QED BY <1>1, <2>1 DEF ToSet
<1>4. ToSet(t) \subseteq ToSet(s \o t)
    <2> SUFFICES ASSUME NEW i \in 1 .. Len(t) PROVE t[i] \in ToSet(s \o t)
        BY DEF ToSet
    <2>1. (s \o t)[i + Len(s)] = t[i] /\ i + Len(s) \in 1 .. Len(s \o t)
        BY <1>1
    <2> QED BY <1>1, <2>1 DEF ToSet
<1>5. ToSet(s) \subseteq S
    BY DEF ToSet
<1>6. ASSUME s # <<>> PROVE Head(s) \in ToSet(s) /\ s \o t # <<>> /\ Head(s \o t) = Head(s)
    <2>1. 1 \in 1 .. Len(s) /\ Head(s) = s[1]
        BY <1>6
    <2>2. (s \o t)[1] = s[1] /\ Len(s \o t) # 0
        BY <1>1, <2>1
    <2> QED BY <1>1, <2>1, <2>2 DEF ToSet
<1> QED BY <1>1, <1>2, <1>3, <1>4, <1>5, <1>6

\* The rungs of the shortest walks.
LEMMA ToSetIs ==
    ASSUME NEW a
    PROVE  ToSet(<<a>>) = {a} /\ ToSet(<<>>) = {}
BY DEF ToSet

\* The rungs left of the ladder below one, and only those.
LEMMA SparedIs ==
    ASSUME NEW S, NEW tiers \in Seq(S), Len(tiers) <= 3, NEW refused
    PROVE  /\ Spared(tiers, refused) \in Seq(S)
           /\ ToSet(Spared(tiers, refused)) = ToSet(tiers) \ refused
<1> DEFINE kept(n) == IF n > Len(tiers) \/ tiers[n] \in refused THEN <<>> ELSE <<tiers[n]>>
<1>1. ASSUME NEW n \in {1, 2, 3}
      PROVE  /\ kept(n) \in Seq(S)
             /\ ToSet(kept(n)) = {tiers[m] : m \in {m \in {n} : n <= Len(tiers) /\ tiers[n] \notin refused}}
    <2>1. CASE n > Len(tiers) \/ tiers[n] \in refused
        <3>1. kept(n) = <<>> /\ ~(n <= Len(tiers) /\ tiers[n] \notin refused)
            BY <2>1
        <3> QED BY <3>1, ToSetIs
    <2>2. CASE n <= Len(tiers) /\ tiers[n] \notin refused
        <3>1. kept(n) = <<tiers[n]>> /\ tiers[n] \in S
            BY <2>2
        <3> QED BY <2>2, <3>1, ToSetIs
    <2> QED BY <2>1, <2>2
<1>2. Spared(tiers, refused) = (kept(1) \o kept(2)) \o kept(3)
    BY DEF Spared
<1> HIDE DEF kept
<1>3. (kept(1) \o kept(2)) \in Seq(S) /\ ToSet(kept(1) \o kept(2)) = ToSet(kept(1)) \cup ToSet(kept(2))
    BY <1>1, ToSetOf
<1> DEFINE two == kept(1) \o kept(2)
           three == kept(3)
<1>4. two \in Seq(S) /\ three \in Seq(S) /\ ToSet(two) = ToSet(kept(1)) \cup ToSet(kept(2))
    BY <1>1, <1>3
<1>5. Spared(tiers, refused) = two \o three
    BY <1>2
<1>6. ToSet(three) = ToSet(kept(3))
    OBVIOUS
<1> HIDE DEF two, three
<1>7. Spared(tiers, refused) \in Seq(S) /\ ToSet(Spared(tiers, refused)) = ToSet(two) \cup ToSet(three)
    BY <1>4, <1>5, ToSetOf
<1>8. ToSet(tiers) = {tiers[n] : n \in 1 .. Len(tiers)} /\ 1 .. Len(tiers) \subseteq {1, 2, 3}
    BY DEF ToSet
<1> DEFINE left(n) == {tiers[m] : m \in {m \in {n} : n <= Len(tiers) /\ tiers[n] \notin refused}}
<1>9. ToSet(Spared(tiers, refused)) = left(1) \cup left(2) \cup left(3)
    BY <1>1, <1>4, <1>6, <1>7
<1>10. left(1) \cup left(2) \cup left(3) = ToSet(tiers) \ refused
    <2>1. ASSUME NEW n \in {1, 2, 3}, NEW tier
          PROVE  tier \in left(n) <=> n \in 1 .. Len(tiers) /\ tier = tiers[n] /\ tier \notin refused
        OBVIOUS
    <2> HIDE DEF left
    <2> QED BY <1>8, <2>1
<1> QED BY <1>7, <1>9, <1>10

\* What is asked for below a rung never has InnerTube in it.
LEMMA LadderIs ==
    ASSUME NEW tier \in Rungs, NEW refused
    PROVE  /\ Spared(AfterRefusal(tier), refused) \in Seq(Rungs)
           /\ ToSet(Spared(AfterRefusal(tier), refused)) \subseteq {"YtDlp", "Muxed", "Public"} \ refused
<1>1. AfterRefusal(tier) \in Seq(Rungs) /\ Len(AfterRefusal(tier)) <= 3
    <2>1. CASE tier = "InnerTube"
        BY <2>1 DEF AfterRefusal, Rungs
    <2>2. CASE tier = "YtDlp"
        BY <2>2 DEF AfterRefusal, Rungs
    <2>3. CASE tier = "Muxed"
        BY <2>3 DEF AfterRefusal, Rungs
    <2>4. CASE tier = "SignedIn"
        BY <2>4 DEF AfterRefusal, Rungs
    <2>5. CASE tier = "Public"
        BY <2>5 DEF AfterRefusal, Rungs
    <2> QED BY <2>1, <2>2, <2>3, <2>4, <2>5 DEF Rungs
<1>2. ToSet(AfterRefusal(tier)) \subseteq {"YtDlp", "Muxed", "Public"}
    BY DEF AfterRefusal, Rungs, ToSet
<1> QED BY <1>1, <1>2, SparedIs

\* A walk with a rung put before it.
LEMMA OneBefore ==
    ASSUME NEW a \in Rungs, NEW t \in Seq(Rungs)
    PROVE  /\ <<a>> \o t \in Seq(Rungs) /\ <<a>> \o t # <<>>
           /\ ToSet(<<a>> \o t) = {a} \cup ToSet(t)
           /\ Head(<<a>> \o t) = a
<1> DEFINE s == <<a>>
<1>1. s \in Seq(Rungs) /\ s # <<>> /\ Head(s) = a /\ ToSet(s) = {a}
    BY ToSetIs
<1> HIDE DEF s
<1>2. s \o t \in Seq(Rungs) /\ s \o t # <<>> /\ ToSet(s \o t) = {a} \cup ToSet(t) /\ Head(s \o t) = a
    BY <1>1, ToSetOf
<1> QED BY <1>2 DEF s

\* Putting walks together is associative.
LEMMA ThreeTogether ==
    ASSUME NEW s \in Seq(Rungs), NEW t \in Seq(Rungs), NEW u \in Seq(Rungs)
    PROVE  t \o u \in Seq(Rungs) /\ (s \o t) \o u = s \o (t \o u)
OBVIOUS

\* After InnerTube's own link the ladder goes on at another rung than from the top.
LEMMA NotTop ==
    ASSUME NEW refused
    PROVE  <<"InnerTube">> \o Spared(AfterRefusal("InnerTube"), refused) # Top
<1> DEFINE spared == Spared(AfterRefusal("InnerTube"), refused)
<1>1. spared \in Seq(Rungs) /\ ToSet(spared) \subseteq {"YtDlp", "Muxed", "Public"} \ refused
    BY LadderIs DEF Rungs
<1>2. "InnerTube" \in Rungs
    BY DEF Rungs
<1>3. CASE "Muxed" \in refused
    <2>1. "Muxed" \in ToSet(Top)
        <3>1. 3 \in DOMAIN Top /\ Top[3] = "Muxed"
            BY DEF Top
        <3> QED BY <3>1 DEF ToSet
    <2>2. ToSet(<<"InnerTube">> \o spared) = {"InnerTube"} \cup ToSet(spared)
        BY <1>1, <1>2, OneBefore
    <2> QED BY <1>1, <1>3, <2>1, <2>2
<1>4. CASE "Muxed" \notin refused
    <2> DEFINE tiers == <<"Muxed", "YtDlp", "Public">>
               kept(n) == IF n > Len(tiers) \/ tiers[n] \in refused THEN <<>> ELSE <<tiers[n]>>
    <2>1. spared = kept(1) \o kept(2) \o kept(3)
        BY DEF Spared, AfterRefusal
    <2>2. kept(1) = <<"Muxed">>
        BY <1>4
    <2>3. \A n \in {2, 3} : kept(n) \in Seq(Rungs)
        <3> SUFFICES ASSUME NEW n \in {2, 3} PROVE kept(n) \in Seq(Rungs)
            OBVIOUS
        <3>1. Len(tiers) = 3 /\ tiers[n] \in Rungs
            BY DEF Rungs
        <3> HIDE DEF tiers
        <3>2. <<tiers[n]>> \in Seq(Rungs) /\ <<>> \in Seq(Rungs)
            BY <3>1
        <3> QED BY <3>2
    <2> HIDE DEF kept
    <2> DEFINE rest == kept(2) \o kept(3)
    <2>4. rest \in Seq(Rungs) /\ spared = <<"Muxed">> \o rest
        <3>1. <<"Muxed">> \in Seq(Rungs) /\ kept(2) \in Seq(Rungs) /\ kept(3) \in Seq(Rungs)
            BY <2>3 DEF Rungs
        <3>2. rest \in Seq(Rungs) /\ (<<"Muxed">> \o kept(2)) \o kept(3) = <<"Muxed">> \o rest
            BY <3>1, ThreeTogether, Zenon
        <3> QED BY <2>1, <2>2, <3>2, Zenon
    <2> HIDE DEF rest, spared
    <2>5. spared # <<>> /\ Head(spared) = "Muxed"
        BY <2>4, OneBefore DEF Rungs
    <2>6. spared[1] = "Muxed" /\ Len(spared) >= 1
        BY <1>1, <2>5
    <2>7. (<<"InnerTube">> \o spared)[2] = "Muxed"
        BY <1>1, <2>6
    <2>8. Top[2] = "YtDlp"
        BY DEF Top
    <2> QED BY <2>7, <2>8 DEF spared
<1> QED BY <1>3, <1>4

\* The rungs below another.
Below == {"YtDlp", "Muxed", "Public"}

\* What a link refused, or cut short, has asked for: its own rung again, and the
\* rungs below it that are left.
LEMMA AskedAgain ==
    ASSUME NEW tier \in Rungs, NEW refused
    PROVE  /\ RungWalk(<<tier>> \o Spared(AfterRefusal(tier), refused))
           /\ \A t \in ToSet(<<tier>> \o Spared(AfterRefusal(tier), refused)) :
                 t = tier \/ t \in Below \ refused
<1> DEFINE spared == Spared(AfterRefusal(tier), refused)
           walk == <<tier>> \o spared
<1>1. spared \in Seq(Rungs) /\ ToSet(spared) \subseteq Below \ refused
    BY LadderIs DEF Below
<1>2. ToSet(Top) = {"InnerTube", "YtDlp", "Muxed", "Public"} /\ Head(Top) = "InnerTube"
    BY DEF Top, ToSet
<1>3. walk = <<tier>> \o spared
    OBVIOUS
<1> HIDE DEF spared, walk
<1>4. walk \in Seq(Rungs) /\ walk # <<>> /\ ToSet(walk) = {tier} \cup ToSet(spared) /\ Head(walk) = tier
    BY <1>1, <1>3, OneBefore, Zenon
<1>5. walk # Top
    <2>1. CASE tier = "InnerTube"
        BY <1>3, <2>1, NotTop DEF spared
    <2>2. CASE tier # "InnerTube"
        BY <1>2, <1>4, <2>2
    <2> QED BY <2>1, <2>2
<1>6. "InnerTube" \in ToSet(walk) => tier = "InnerTube"
    BY <1>1, <1>4 DEF Below
<1>7. RungWalk(walk) /\ \A t \in ToSet(walk) : t = tier \/ t \in Below \ refused
    BY <1>1, <1>4, <1>5, <1>6 DEF RungWalk
<1> QED BY <1>7 DEF walk, spared

\* The rungs below alone.
LEMMA AskedBelow ==
    ASSUME NEW tier \in Rungs, NEW refused,
           NEW walk, walk = Spared(AfterRefusal(tier), refused), walk # <<>>
    PROVE  RungWalk(walk) /\ ToSet(walk) \subseteq Below \ refused
<1>1. walk \in Seq(Rungs) /\ ToSet(walk) \subseteq Below \ refused
    BY LadderIs DEF Below
<1>2. "InnerTube" \notin ToSet(walk)
    BY <1>1 DEF Below
<1>3. "InnerTube" \in ToSet(Top)
    BY DEF Top, ToSet
<1> QED BY <1>1, <1>2, <1>3 DEF RungWalk

\* A walk of rungs is none of the others.
LEMMA RungWalkIs ==
    ASSUME NEW walk, RungWalk(walk)
    PROVE  /\ Head(walk) \in ToSet(walk) /\ ToSet(walk) \subseteq Rungs
           /\ walk \notin {<<>>, AsTrack, Top} /\ walk \in Seq(Rungs \cup {"track"})
<1>1. Head(walk) \in ToSet(walk) /\ ToSet(walk) \subseteq Rungs
    BY ToSetOf DEF RungWalk
<1>2. walk # AsTrack
    <2>1. Head(AsTrack) = "track"
        BY DEF AsTrack
    <2> QED BY <1>1, <2>1 DEF Rungs
<1> QED BY <1>1, <1>2 DEF RungWalk

\* An answer leaves less to be had than the walk did.
LEMMA AnswersLeaveLess ==
    ASSUME NEW c \in CtlType, NEW r \in ResType, RungWalk(c.walk),
           NEW tier \in Rungs, NEW cached \in BOOLEAN,
           \/ cached /\ tier = Head(c.walk) /\ r.rescue = tier
           \/ ~cached /\ tier \in ToSet(c.walk)
    PROVE  OfLink(c, tier, cached) <= OfWalk(c, r)
<1> DEFINE spent(t) == t = "SignedIn" \/ t \in c.refused
<1>1. Head(c.walk) \in ToSet(c.walk) /\ c.walk \notin {AsTrack, Top}
    BY RungWalkIs
<1>2. tier \in ToSet(c.walk) /\ tier # "Saavn" /\ tier # "none"
    BY <1>1 DEF Rungs
<1>3. One(~c.again) \in {0, 1} /\ One(spent(tier)) \in {0, 1} /\ One(cached /\ tier # "Saavn") \in {0, 1}
    BY OneIs
<1>4. CASE "InnerTube" \in ToSet(c.walk)
    <2>1. OfWalk(c, r) = 1 + One(~c.again)
        BY <1>1, <1>4 DEF OfWalk
    <2>2. cached => tier = "InnerTube"
        BY <1>4 DEF RungWalk
    <2>3. tier # "InnerTube" => One(cached /\ tier # "Saavn") = 0
        BY <2>2 DEF One
    <2> QED BY <1>3, <2>1, <2>3 DEF OfLink
<1>5. CASE "InnerTube" \notin ToSet(c.walk)
    <2> DEFINE one == One(spent(tier))
               two == One(cached /\ tier # "Saavn")
               first == One(\E t \in ToSet(c.walk) : spent(t))
               second == One(r.rescue # "none")
    <2>1. OfWalk(c, r) = first + second
        BY <1>1, <1>5 DEF OfWalk
    <2>2. OfLink(c, tier, cached) = one + two
        BY <1>2, <1>5 DEF OfLink
    <2>3. one <= first /\ one \in {0, 1} /\ first \in {0, 1}
        BY <1>2 DEF One
    <2>4. two <= second /\ two \in {0, 1} /\ second \in {0, 1}
        BY <1>2 DEF One
    <2> HIDE DEF one, two, first, second
    <2> QED BY <2>1, <2>2, <2>3, <2>4
<1> QED BY <1>4, <1>5

-----------------------------------------------------------------------------
(* The steps.                                                               *)

\* The empty walk is a walk, and not the song as a track.
LEMMA NoWalkIs == <<>> \in Seq(Rungs \cup {"track"}) /\ <<>> # AsTrack
BY DEF AsTrack

\* How much each part can be.
LEMMA RestIs ==
    ASSUME NEW c \in CtlType, NEW r \in ResType
    PROVE  Rest(c, r) \in 0 .. 9
BY DEF Rest, RungsLeft, One

LEMMA WalkIs ==
    ASSUME NEW c, NEW r
    PROVE  OfWalk(c, r) \in 0 .. 2
<1> DEFINE spent == One(\E tier \in ToSet(c.walk) : tier = "SignedIn" \/ tier \in c.refused)
           kept == One(r.rescue # "none")
           again == One(~c.again)
<1>1. spent \in {0, 1} /\ kept \in {0, 1} /\ again \in {0, 1}
    BY DEF One
<1>2. OfWalk(c, r) \in {2, 1 + again, spent + kept}
    BY DEF OfWalk
<1> HIDE DEF spent, kept, again
<1> QED BY <1>1, <1>2

LEMMA LinkIs ==
    ASSUME NEW c, NEW tier, NEW cached
    PROVE  OfLink(c, tier, cached) \in 0 .. 2
BY DEF OfLink, One

LEMMA LeftIs ==
    ASSUME NEW c \in CtlType, NEW r \in ResType, NEW s
    PROVE  OfNow(c, r) \in 0 .. 3 /\ LinksLeft(c, r, s) \in 0 .. 12
<1>1. OfNow(c, r) \in 0 .. 3
    BY WalkIs, LinkIs DEF OfNow
<1> QED BY <1>1, RestIs DEF LinksLeft

\* What the invariant says of the variables and of the links left.
LEMMA PlayIs ==
    ASSUME PlayInv
    PROVE  /\ ctl \in CtlType /\ res \in ResType /\ sound \in SoundType /\ plays \in Nat /\ loads \in Nat
           /\ loads + LinksLeft(ctl, res, sound) <= 12
           /\ Alive(ctl, sound) => LinksLeft(ctl, res, sound) = OfNow(ctl, res) + Rest(ctl, res)
           /\ LinksLeft(ctl, res, sound) \in Nat
BY LeftIs DEF PlayInv, Typed, Bounded, FewLinks, LinksLeft

\* The link is played: what it leaves to be had is no more than the walk did.
LEMMA LinkPlayedKeeps ==
    ASSUME PlayInv, ctl.pending, NEW tier \in Rungs \cup {"Saavn"}, NEW cached \in BOOLEAN,
           Play(<<tier, cached>>), res' \in ResType, res'.on = res.on,
           tier = "Saavn" => "Saavn" \notin ctl.refused,
           OfLink(ctl, tier, cached) + One(res'.fetching) <= OfWalk(ctl, res) + One(res.fetching)
    PROVE  PlayInv'
<1>1. /\ ctl' = [ctl EXCEPT !.pending = FALSE, !.walk = <<>>, !.tier = tier, !.cached = cached,
                            !.home = Home(<<tier, cached>>), !.moving = FALSE]
      /\ sound' = [file |-> "opening", from |-> tier, move |-> "none", compared |-> 0]
      /\ loads' = loads + 1 /\ plays' = plays
    BY DEF Play, Silence
<1>2. Home(<<tier, cached>>) \in Rungs \cup {"none"}
    BY PlayIs DEF Home, CtlType
<1> DEFINE home == Home(<<tier, cached>>)
<1> HIDE DEF home
<1>a. /\ home \in Rungs \cup {"none"} /\ tier \in Sources
      /\ ctl' = [ctl EXCEPT !.pending = FALSE, !.walk = <<>>, !.tier = tier, !.cached = cached,
                            !.home = home, !.moving = FALSE]
    BY <1>1, <1>2 DEF home, Sources
<1>b. ctl' \in CtlType
    BY <1>a, PlayIs, NoWalkIs DEF CtlType
<1>3. /\ ctl' \in CtlType /\ ~ctl'.pending /\ ctl'.walk = <<>> /\ ctl'.tier = tier /\ ctl'.cached = cached
      /\ ctl'.refused = ctl.refused /\ ctl'.again = ctl.again /\ ctl'.resumed = ctl.resumed
      /\ ctl'.tried = ctl.tried /\ ctl'.probe = ctl.probe /\ ctl'.offer = ctl.offer
    BY <1>a, <1>b, PlayIs DEF CtlType
<1>4. Typed'
    BY <1>1, <1>3, PlayIs DEF Typed, SoundType, Sources
<1>5. Asking(ctl)'
    BY <1>3 DEF Asking
<1>6. ctl.probe <= loads /\ (ctl.probe # 0 => ctl.tried)
    BY DEF PlayInv, MovesOnce
<1>7. ~Comparing(ctl)' /\ sound'.move = "none"
    BY <1>1, <1>3, <1>6, PlayIs DEF Comparing, CtlType
<1>8. MovesOnce(ctl, sound)' /\ SaavnIsSpared(ctl, sound)'
    BY <1>1, <1>3, <1>6, <1>7, PlayIs DEF MovesOnce, SaavnIsSpared, CtlType, AsTrack, Sources, Rungs
<1>9. LabelIsTrue' /\ OffsetIsTheLinks' /\ StandardStays'
    BY <1>1, <1>3 DEF PlayInv, LabelIsTrue, OffsetIsTheLinks, StandardStays
<1>10. Bounded'
    <2>1. OfNow(ctl, res)' = OfLink(ctl, tier, cached)
        BY <1>3 DEF OfNow, OfLink
    <2>2. Rest(ctl, res)' + One(res.fetching) = Rest(ctl, res) + One(res'.fetching)
        BY <1>3 DEF Rest, RungsLeft, One
    <2>3. LinksLeft(ctl, res, sound)' = OfNow(ctl, res)' + Rest(ctl, res)'
        BY <1>3 DEF LinksLeft, Alive, Rungs
    <2>4. LinksLeft(ctl, res, sound) = 1 + OfWalk(ctl, res) + Rest(ctl, res)
        BY PlayIs DEF LinksLeft, Alive, OfNow
    <2>a. Rest(ctl', res') \in Nat
        BY <1>3, RestIs
    <2>5. /\ OfWalk(ctl, res) \in Nat /\ Rest(ctl, res) \in Nat /\ Rest(ctl, res)' \in Nat
          /\ OfLink(ctl, tier, cached) \in Nat
        BY <2>a, PlayIs, WalkIs, LinkIs, RestIs
    <2>6. One(res.fetching) \in Nat /\ One(res'.fetching) \in Nat
        BY DEF One
    <2> QED BY <1>1, <2>1, <2>2, <2>3, <2>4, <2>5, <2>6, PlayIs DEF Bounded, FewLinks
<1> QED BY <1>4, <1>5, <1>8, <1>9, <1>10 DEF PlayInv

\* A link that failed: what is asked for is paid for by what it was good for.
LEMMA AskKeeps ==
    ASSUME PlayInv, NEW walk, walk \in {AsTrack, Top} \/ RungWalk(walk),
           NEW refused \in SUBSET Sources, NEW again \in BOOLEAN, NEW resumed \in BOOLEAN,
           ctl' = [Ask(walk) EXCEPT !.refused = refused, !.again = again, !.resumed = resumed],
           sound' = [sound EXCEPT !.file = "none"], plays' = plays, loads' = loads,
           res' \in ResType, res'.on = res.on,
           "Saavn" \in refused => ctl.tier = "Saavn" \/ "Saavn" \in ctl.refused,
           walk = AsTrack => ctl.tier = "Saavn" /\ refused = ctl.refused,
           Alive(ctl, sound),
           1 + OfWalk(ctl', res') + Rest(ctl', res') <= OfNow(ctl, res) + Rest(ctl, res)
    PROVE  PlayInv'
<1>1. walk \in Seq(Rungs \cup {"track"}) /\ walk # <<>>
    <2>1. CASE walk = AsTrack
        BY <2>1 DEF AsTrack
    <2>2. CASE walk = Top
        BY <2>2 DEF Top, Rungs
    <2> QED BY <2>1, <2>2, RungWalkIs
<1>2. /\ ctl' \in CtlType /\ ctl'.pending /\ ctl'.walk = walk /\ ctl'.tier = "none"
      /\ ctl'.refused = refused /\ ctl'.tried = ctl.tried /\ ctl'.probe = ctl.probe
      /\ ctl'.offer = ctl.offer /\ ctl'.moving = ctl.moving
    BY <1>1, PlayIs DEF Ask, CtlType, Sources
<1>3. /\ sound' \in SoundType /\ sound'.file = "none" /\ sound'.move = sound.move
      /\ sound'.compared = sound.compared
    BY PlayIs DEF SoundType
<1>4. Typed'
    BY <1>2, <1>3, PlayIs DEF Typed
<1>5. Asking(ctl)'
    BY <1>1, <1>2 DEF Asking
<1>6. MovesOnce(ctl, sound)'
    BY <1>2, <1>3 DEF PlayInv, MovesOnce, Comparing
<1>7. SaavnIsSpared(ctl, sound)'
    BY <1>2, <1>3 DEF PlayInv, SaavnIsSpared, MovesOnce, Comparing
<1>8. LabelIsTrue' /\ OffsetIsTheLinks' /\ StandardStays'
    BY <1>2, <1>3 DEF PlayInv, LabelIsTrue, OffsetIsTheLinks, StandardStays
<1>9. Bounded'
    <2>1. LinksLeft(ctl, res, sound)' = 1 + OfWalk(ctl', res') + Rest(ctl', res')
        BY <1>2 DEF LinksLeft, Alive, OfNow
    <2>2. /\ OfWalk(ctl', res') \in Nat /\ Rest(ctl', res') \in Nat
          /\ OfNow(ctl, res) \in Nat /\ Rest(ctl, res) \in Nat
        BY <1>2, PlayIs, WalkIs, RestIs, LeftIs
    <2> QED BY <2>1, <2>2, PlayIs DEF Bounded, FewLinks
<1> QED BY <1>4, <1>5, <1>6, <1>7, <1>8, <1>9 DEF PlayInv

\* The song is left: nothing more is given to mpv.
LEMMA OverKeeps ==
    ASSUME PlayInv, Over, res' \in ResType, res'.on = res.on
    PROVE  PlayInv'
<1>1. ctl' = [Idle EXCEPT !.due = ctl.due] /\ sound' = Silence /\ plays' = plays /\ loads' = loads
    BY DEF Over
<1>2. /\ ctl' \in CtlType /\ ~ctl'.pending /\ ctl'.walk = <<>> /\ ctl'.tier = "none" /\ ctl'.probe = 0
      /\ ~ctl'.offer
    BY <1>1, PlayIs, NoWalkIs DEF Idle, CtlType, Sources
<1>3. sound' \in SoundType /\ sound'.file = "none" /\ sound'.move = "none"
    BY <1>1 DEF Silence, SoundType, Sources
<1>4. Typed' /\ Asking(ctl)'
    BY <1>1, <1>2, <1>3, PlayIs DEF Typed, Asking
<1>5. MovesOnce(ctl, sound)' /\ SaavnIsSpared(ctl, sound)'
    BY <1>1, <1>2, <1>3, PlayIs, NoWalkIs DEF MovesOnce, SaavnIsSpared, Comparing, CtlType
<1>6. LabelIsTrue' /\ OffsetIsTheLinks' /\ StandardStays'
    BY <1>2, <1>3 DEF LabelIsTrue, OffsetIsTheLinks, StandardStays
<1>7. Bounded'
    BY <1>1, <1>2, <1>3, PlayIs DEF Bounded, FewLinks, LinksLeft, Alive
<1> QED BY <1>4, <1>5, <1>6, <1>7 DEF PlayInv

\* Before the first play.
LEMMA PlayBegins == RescueInit => PlayInv
<1> SUFFICES ASSUME RescueInit PROVE PlayInv
    OBVIOUS
<1>1. ctl = Idle /\ sound = Silence /\ plays = 0 /\ loads = 0
    BY DEF RescueInit
<1>2. res \in ResType
    BY DEF RescueInit, ResType, Rungs
<1>3. /\ ctl \in CtlType /\ ~ctl.pending /\ ctl.walk = <<>> /\ ctl.tier = "none" /\ ctl.probe = 0
      /\ ~ctl.offer
    BY <1>1, NoWalkIs DEF Idle, CtlType, Sources
<1>4. sound \in SoundType /\ sound.file = "none" /\ sound.move = "none"
    BY <1>1 DEF Silence, SoundType, Sources
<1>5. Typed /\ Asking(ctl)
    BY <1>1, <1>2, <1>3, <1>4 DEF Typed, Asking
<1>6. MovesOnce(ctl, sound) /\ SaavnIsSpared(ctl, sound)
    BY <1>1, <1>3, <1>4, NoWalkIs DEF MovesOnce, SaavnIsSpared, Comparing
<1>7. LabelIsTrue /\ OffsetIsTheLinks /\ StandardStays
    BY <1>3, <1>4 DEF LabelIsTrue, OffsetIsTheLinks, StandardStays
<1>8. Bounded
    BY <1>1, <1>3, <1>4 DEF Bounded, FewLinks, LinksLeft, Alive
<1> QED BY <1>5, <1>6, <1>7, <1>8 DEF PlayInv

\* The walks that are not of some rungs.
LEMMA AsTrackIs ==
    /\ AsTrack \in Seq(Rungs \cup {"track"}) /\ AsTrack # <<>> /\ AsTrack # Top /\ Top # <<>>
    /\ Top \in Seq(Rungs \cup {"track"}) /\ ToSet(Top) \subseteq Rungs
<1>1. ToSet(Top) \subseteq Rungs
    BY DEF Top, Rungs, ToSet
<1>2. AsTrack \in Seq(Rungs \cup {"track"}) /\ AsTrack # <<>> /\ Head(AsTrack) = "track"
    BY DEF AsTrack
<1>3. Top \in Seq(Rungs \cup {"track"}) /\ Top # <<>> /\ Head(Top) = "InnerTube"
    BY DEF Top, Rungs
<1> QED BY <1>1, <1>2, <1>3

\* A play begins with nothing given and everything left.
LEMMA BeginKeeps ==
    ASSUME PlayInv, Begin
    PROVE  PlayInv'
<1>1. /\ ctl' = [Idle EXCEPT !.pending = TRUE, !.walk = AsTrack, !.due = ctl.due]
      /\ sound' = Silence /\ plays' = plays + 1 /\ loads' = 0
      /\ res' = [AskTrack EXCEPT !.rescue = IF res.lately THEN @ ELSE "none"]
    BY DEF Begin
<1>2. /\ ctl' \in CtlType /\ ctl'.pending /\ ctl'.walk = AsTrack /\ ctl'.tier = "none" /\ ctl'.probe = 0
      /\ ~ctl'.offer /\ ctl'.refused = {}
    BY <1>1, AsTrackIs, PlayIs DEF Idle, CtlType, Sources
<1>3. sound' \in SoundType /\ sound'.file = "none" /\ sound'.move = "none"
    BY <1>1 DEF Silence, SoundType, Sources
<1>4. res' \in ResType
    BY <1>1, PlayIs DEF ResType, AskTrack
<1>5. Typed' /\ Asking(ctl)'
    BY <1>1, <1>2, <1>3, <1>4, AsTrackIs, PlayIs DEF Typed, Asking
<1>6. MovesOnce(ctl, sound)' /\ SaavnIsSpared(ctl, sound)'
    BY <1>1, <1>2, <1>3 DEF MovesOnce, SaavnIsSpared, Comparing
<1>7. LabelIsTrue' /\ OffsetIsTheLinks' /\ StandardStays'
    BY <1>2, <1>3 DEF LabelIsTrue, OffsetIsTheLinks, StandardStays
<1>8. Bounded'
    BY <1>1, <1>2, <1>4, LeftIs DEF Bounded, FewLinks
<1> QED BY <1>5, <1>6, <1>7, <1>8 DEF PlayInv

\* A link kept for later is not one given.
LEMMA KeptIs ==
    ASSUME PlayInv, NEW tier \in Rungs, NEW home
    PROVE  /\ Kept(tier, home) \in ResType /\ Kept(tier, home).on = res.on
           /\ Kept(tier, home).fetching = res.fetching
BY PlayIs DEF Kept, ResType

\* Beside the walks of rungs, a walk is good for any link.
LEMMA WholeWalkLeaves ==
    ASSUME PlayInv, ctl.walk \in {AsTrack, Top}, NEW tier, NEW cached
    PROVE  OfLink(ctl, tier, cached) <= OfWalk(ctl, res)
BY LinkIs DEF OfWalk

\* A match known is played, and YouTube's link fetched beside it.
LEMMA ResolvedAsKnownKeeps ==
    ASSUME PlayInv, ResolvedAsKnown
    PROVE  PlayInv'
<1>1. /\ ctl.pending /\ ctl.walk = AsTrack /\ Play(<<"Saavn", TRUE>>)
      /\ res' = [res EXCEPT !.fetching = TRUE]
    BY DEF ResolvedAsKnown
<1>2. res' \in ResType /\ res'.on = res.on
    BY <1>1, PlayIs DEF ResType
<1>3. "Saavn" \notin ctl.refused
    BY <1>1 DEF PlayInv, SaavnIsSpared
<1> DEFINE link == OfLink(ctl, "Saavn", TRUE)
           before == One(res.fetching)
           after == One(res'.fetching)
<1>4. OfWalk(ctl, res) = 2
    BY <1>1 DEF OfWalk
<1>5. link = 0
    BY <1>3 DEF OfLink, One
<1>6. before \in {0, 1} /\ after \in {0, 1}
    BY DEF One
<1>7. link + after <= OfWalk(ctl, res) + before
    <2> HIDE DEF link, after, before
    <2> QED BY <1>4, <1>5, <1>6
<1>8. "Saavn" \in Rungs \cup {"Saavn"} /\ TRUE \in BOOLEAN
    OBVIOUS
<1> QED BY <1>1, <1>2, <1>3, <1>7, <1>8, LinkPlayedKeeps, Zenon

\* JioSaavn answers first.
LEMMA ResolvedBySaavnKeeps ==
    ASSUME PlayInv, ResolvedBySaavn
    PROVE  PlayInv'
<1>1. /\ ctl.pending /\ ctl.walk = AsTrack /\ Play(<<"Saavn", FALSE>>)
      /\ res' = [res EXCEPT !.saavn = "match"]
    BY DEF ResolvedBySaavn, AsksBoth
<1>2. res' \in ResType /\ res'.on = res.on /\ res'.fetching = res.fetching
    BY <1>1, PlayIs DEF ResType
<1>3. "Saavn" \notin ctl.refused
    BY <1>1 DEF PlayInv, SaavnIsSpared
<1> DEFINE link == OfLink(ctl, "Saavn", FALSE)
           before == One(res.fetching)
           after == One(res'.fetching)
<1>4. OfWalk(ctl, res) = 2 /\ after = before
    BY <1>1, <1>2 DEF OfWalk
<1>5. link \in 0 .. 2
    BY LinkIs, Zenon
<1>a. before \in {0, 1}
    BY DEF One
<1>6. link + after <= OfWalk(ctl, res) + before
    <2> HIDE DEF link, after, before
    <2> QED BY <1>4, <1>5, <1>a
<1>7. "Saavn" \in Rungs \cup {"Saavn"} /\ FALSE \in BOOLEAN
    OBVIOUS
<1> QED BY <1>1, <1>2, <1>3, <1>6, <1>7, LinkPlayedKeeps, Zenon

\* What YouTube answers is a rung's link, and leaves no more than the walk did.
LEMMA RungPlayedKeeps ==
    ASSUME PlayInv, ctl.pending, NEW tier \in Rungs, NEW cached \in BOOLEAN, Play(<<tier, cached>>),
           res' \in ResType, res'.on = res.on, res'.fetching = res.fetching,
           OfLink(ctl, tier, cached) <= OfWalk(ctl, res)
    PROVE  PlayInv'
<1>1. One(res.fetching) \in {0, 1} /\ OfLink(ctl, tier, cached) \in Nat /\ OfWalk(ctl, res) \in Nat
    BY WalkIs, LinkIs DEF One
<1> QED BY <1>1, LinkPlayedKeeps DEF Rungs

\* An answer that is not from memory.
LEMMA FreshIs ==
    ASSUME NEW S, NEW fresh \in S \X {FALSE}
    PROVE  \E rung \in S : fresh = <<rung, FALSE>>
<1> DEFINE T == {FALSE}
<1>1. fresh \in S \X T
    OBVIOUS
<1>2. \A no \in T : no = FALSE
    OBVIOUS
<1> HIDE DEF T
<1>3. PICK rung \in S, no \in T : fresh = <<rung, no>>
    BY <1>1
<1> QED BY <1>2, <1>3, Zenon

\* YouTube answers, a walk from the top or one of some rungs.
LEMMA ResolvedKeeps ==
    ASSUME PlayInv, Resolved
    PROVE  PlayInv'
<1>1. ctl.pending /\ ctl.walk # <<>>
    BY DEF Resolved, PlayInv, Asking
<1>2. CASE ctl.walk \in {AsTrack, Top}
    <2>1. PICK late \in {FALSE, AsksBoth}, answer \in FromTop :
             /\ Play(answer)
             /\ res' = [(IF answer[2] THEN res ELSE Kept(answer[1], "none")) EXCEPT !.late = late]
        BY <1>2 DEF Resolved
    <2>3. PICK tier \in Rungs, cached \in BOOLEAN : answer = <<tier, cached>>
        <3>1. ToSet(Top) \cup {"SignedIn"} \subseteq Rungs
            BY AsTrackIs DEF Rungs
        <3>2. res.rescue \in Rungs \cup {"none"} /\ res.cache \in Rungs \cup {"none"}
            BY PlayIs DEF ResType
        <3>3. CASE res.lately /\ res.rescue # "none"
            <4>1. answer = <<res.rescue, TRUE>> /\ res.rescue \in Rungs
                BY <3>2, <3>3 DEF FromTop
            <4> QED BY <4>1
        <3>4. CASE ~(res.lately /\ res.rescue # "none") /\ res.cache # "none"
            <4>1. answer = <<res.cache, TRUE>> /\ res.cache \in Rungs
                BY <3>2, <3>4 DEF FromTop
            <4> QED BY <4>1
        <3>5. CASE ~(res.lately /\ res.rescue # "none") /\ res.cache = "none"
            <4>1. FromTop = (ToSet(Top) \cup {"SignedIn"}) \X {FALSE}
                BY <3>5 DEF FromTop
            <4>2. PICK rung \in ToSet(Top) \cup {"SignedIn"} : answer = <<rung, FALSE>>
                BY <4>1, FreshIs, Zenon
            <4>3. rung \in Rungs
                BY <3>1
            <4> QED BY <4>2, <4>3
        <3> QED BY <3>3, <3>4, <3>5
    <2>4. late \in BOOLEAN
        BY DEF AsksBoth
    <2>5. res' \in ResType /\ res'.on = res.on /\ res'.fetching = res.fetching
        BY <2>1, <2>3, <2>4, KeptIs, PlayIs DEF ResType
    <2>6. OfLink(ctl, tier, cached) <= OfWalk(ctl, res)
        BY <1>2, WholeWalkLeaves
    <2> QED BY <1>1, <2>1, <2>3, <2>5, <2>6, RungPlayedKeeps
<1>3. CASE ctl.walk \notin {AsTrack, Top}
    <2>1. RungWalk(ctl.walk)
        BY <1>1, <1>3 DEF PlayInv, Asking
    <2>2. PICK answer \in FromRungs(ctl.walk) :
             Play(answer) /\ res' = IF answer[2] THEN res ELSE Kept(answer[1], ctl.home)
        BY <1>3 DEF Resolved, Walked
    <2>3. PICK tier \in Rungs, cached \in BOOLEAN :
             /\ answer = <<tier, cached>>
             /\ \/ cached /\ tier = Head(ctl.walk) /\ res.rescue = tier
                \/ ~cached /\ tier \in ToSet(ctl.walk)
        <3>1. Head(ctl.walk) \in Rungs /\ ToSet(ctl.walk) \subseteq Rungs
            BY <2>1, RungWalkIs
        <3>2. CASE Head(ctl.walk) = res.rescue
            <4>1. answer = <<res.rescue, TRUE>> /\ res.rescue \in Rungs
                BY <3>1, <3>2 DEF FromRungs
            <4> QED BY <3>2, <4>1
        <3>3. CASE Head(ctl.walk) # res.rescue
            <4>1. FromRungs(ctl.walk) = ToSet(ctl.walk) \X {FALSE}
                BY <3>3 DEF FromRungs
            <4>2. PICK rung \in ToSet(ctl.walk) : answer = <<rung, FALSE>>
                BY <4>1, FreshIs, Zenon
            <4>3. rung \in Rungs
                BY <3>1
            <4> QED BY <4>2, <4>3
        <3> QED BY <3>2, <3>3
    <2>4. res' \in ResType /\ res'.on = res.on /\ res'.fetching = res.fetching
        BY <2>2, <2>3, KeptIs, PlayIs
    <2>5. OfLink(ctl, tier, cached) <= OfWalk(ctl, res)
        BY <2>1, <2>3, AnswersLeaveLess, PlayIs
    <2> QED BY <1>1, <2>2, <2>3, <2>4, <2>5, RungPlayedKeeps
<1> QED BY <1>2, <1>3

\* What a play is good for hangs on its link, its walk and what was refused only.
LEMMA SameLeft ==
    ASSUME NEW c \in CtlType, NEW d \in CtlType, NEW r \in ResType, NEW q \in ResType, NEW s, NEW z,
           d.pending = c.pending, d.walk = c.walk, d.tier = c.tier, d.cached = c.cached,
           d.refused = c.refused, d.again = c.again, d.resumed = c.resumed,
           q.rescue = r.rescue, q.fetching = r.fetching, Alive(d, z) => Alive(c, s)
    PROVE  LinksLeft(d, q, z) <= LinksLeft(c, r, s)
<1>1. OfNow(d, q) = OfNow(c, r)
    BY DEF OfNow, OfWalk, OfLink
<1>2. Rest(d, q) = Rest(c, r)
    BY DEF Rest
<1>3. OfNow(c, r) \in Nat /\ Rest(c, r) \in Nat
    BY LeftIs, RestIs
<1> QED BY <1>1, <1>2, <1>3 DEF LinksLeft

\* A step that gives mpv nothing, and leaves the play what it was good for.
LEMMA NoMoreLeft ==
    ASSUME PlayInv, loads' = loads, ctl' \in CtlType, res' \in ResType,
           ctl'.pending = ctl.pending, ctl'.walk = ctl.walk, ctl'.tier = ctl.tier, ctl'.cached = ctl.cached,
           ctl'.refused = ctl.refused, ctl'.again = ctl.again, ctl'.resumed = ctl.resumed,
           res'.rescue = res.rescue, res'.fetching = res.fetching, Alive(ctl', sound') => Alive(ctl, sound)
    PROVE  Bounded'
<1>1. LinksLeft(ctl', res', sound') <= LinksLeft(ctl, res, sound)
    BY SameLeft, PlayIs
<1>2. LinksLeft(ctl', res', sound') \in Nat
    BY LeftIs
<1> QED BY <1>1, <1>2, PlayIs DEF Bounded, FewLinks

\* The song sounds; a move offered before is weighed next.
LEMMA AudioStartedKeeps ==
    ASSUME PlayInv, AudioStarted
    PROVE  PlayInv'
<1>1. /\ sound.file = "opening" /\ sound' = [sound EXCEPT !.file = "sounding"]
      /\ ctl' = [ctl EXCEPT !.due = @ \/ ctl.offer, !.offer = FALSE]
      /\ res' = res /\ plays' = plays /\ loads' = loads
    BY DEF AudioStarted
<1>2. sound' \in SoundType /\ sound'.move = sound.move /\ sound'.from = sound.from
      /\ sound'.compared = sound.compared
    BY <1>1, PlayIs DEF SoundType
<1>3. (ctl.due \/ ctl.offer) \in BOOLEAN
    OBVIOUS
<1>4. /\ ctl' \in CtlType /\ ~ctl'.offer /\ ctl'.probe = ctl.probe /\ ctl'.tried = ctl.tried
      /\ ctl'.moving = ctl.moving /\ ctl'.pending = ctl.pending /\ ctl'.walk = ctl.walk
      /\ ctl'.tier = ctl.tier /\ ctl'.cached = ctl.cached /\ ctl'.refused = ctl.refused
      /\ ctl'.again = ctl.again /\ ctl'.resumed = ctl.resumed
    BY <1>1, <1>3, PlayIs DEF CtlType
<1>5. Typed' /\ Asking(ctl)'
    BY <1>1, <1>2, <1>4, PlayIs DEF PlayInv, Typed, Asking
<1>6. MovesOnce(ctl, sound)' /\ SaavnIsSpared(ctl, sound)'
    BY <1>1, <1>2, <1>4 DEF PlayInv, MovesOnce, SaavnIsSpared, Comparing
<1>7. LabelIsTrue' /\ OffsetIsTheLinks' /\ StandardStays'
    BY <1>1, <1>2, <1>4 DEF PlayInv, LabelIsTrue, OffsetIsTheLinks, StandardStays
<1>8. Bounded'
    BY <1>1, <1>2, <1>4, NoMoreLeft, PlayIs DEF Alive
<1> QED BY <1>5, <1>6, <1>7, <1>8 DEF PlayInv

\* The two players sound together.
LEMMA SoundTogetherKeeps ==
    ASSUME PlayInv, SoundTogether
    PROVE  PlayInv'
<1>1. /\ sound.move = "ready" /\ sound.file = "sounding" /\ sound' = [sound EXCEPT !.move = "together"]
      /\ ctl' = ctl /\ res' = res /\ plays' = plays /\ loads' = loads
    BY DEF SoundTogether
<1>2. sound' \in SoundType /\ sound'.move = "together" /\ sound'.from = sound.from
      /\ sound'.compared = sound.compared /\ sound'.file = sound.file
    BY <1>1, PlayIs DEF SoundType
<1>3. Typed' /\ Asking(ctl)'
    BY <1>1, <1>2, PlayIs DEF PlayInv, Typed, Asking
<1>4. MovesOnce(ctl, sound)' /\ SaavnIsSpared(ctl, sound)'
    BY <1>1, <1>2 DEF PlayInv, MovesOnce, SaavnIsSpared, Comparing
<1>5. LabelIsTrue' /\ OffsetIsTheLinks' /\ StandardStays'
    BY <1>1, <1>2 DEF PlayInv, LabelIsTrue, OffsetIsTheLinks, StandardStays
<1>6. Bounded'
    BY <1>1, <1>2, NoMoreLeft, PlayIs DEF Alive
<1> QED BY <1>3, <1>4, <1>5, <1>6 DEF PlayInv

\* The link prefetched may be the rescue's, which is one more a walk may answer
\* with: the prefetch was counted for it.
LEMMA PrefetchedKeeps ==
    ASSUME PlayInv, Prefetched
    PROVE  PlayInv'
<1>1. PICK tier \in ToSet(Top) :
          res' = [(IF res.cache = "none" THEN Kept(tier, "none") ELSE res) EXCEPT !.fetching = FALSE]
    BY DEF Prefetched
<1>2. res.fetching /\ ctl' = ctl /\ sound' = sound /\ plays' = plays /\ loads' = loads
    BY DEF Prefetched
<1>3. res' \in ResType /\ res'.on = res.on /\ ~res'.fetching
    <2> DEFINE r == IF res.cache = "none" THEN Kept(tier, "none") ELSE res
    <2>1. tier \in Rungs
        BY AsTrackIs
    <2>2. r \in ResType /\ r.on = res.on
        BY <2>1, KeptIs, PlayIs
    <2>3. res' = [r EXCEPT !.fetching = FALSE]
        BY <1>1
    <2> HIDE DEF r
    <2> QED BY <2>2, <2>3 DEF ResType
<1>4. Bounded'
    <2> DEFINE before == One(res.rescue # "none")
               after == One(res'.rescue # "none")
               spent == One(\E tier2 \in ToSet(ctl.walk) : tier2 = "SignedIn" \/ tier2 \in ctl.refused)
    <2>1. before \in {0, 1} /\ after \in {0, 1} /\ spent \in {0, 1}
        BY DEF One
    <2>2. OfWalk(ctl, res') <= OfWalk(ctl, res) + 1
        <3>1. CASE ctl.walk \in {AsTrack, Top} \/ "InnerTube" \in ToSet(ctl.walk)
            <4>1. OfWalk(ctl, res') = OfWalk(ctl, res)
                BY <3>1 DEF OfWalk
            <4> QED BY <4>1, WalkIs
        <3>2. CASE ~(ctl.walk \in {AsTrack, Top} \/ "InnerTube" \in ToSet(ctl.walk))
            <4>1. OfWalk(ctl, res') = spent + after /\ OfWalk(ctl, res) = spent + before
                BY <3>2 DEF OfWalk
            <4> HIDE DEF spent, after, before
            <4> QED BY <2>1, <4>1
        <3> QED BY <3>1, <3>2
    <2>3. OfNow(ctl, res') <= OfNow(ctl, res) + 1
        BY <2>2, WalkIs, LinkIs DEF OfNow
    <2>4. Rest(ctl, res') + 1 = Rest(ctl, res)
        BY <1>2, <1>3, PlayIs DEF Rest, One, RungsLeft
    <2>5. OfNow(ctl, res') \in Nat /\ OfNow(ctl, res) \in Nat /\ Rest(ctl, res') \in Nat
        BY <1>3, PlayIs, RestIs, LeftIs
    <2>6. LinksLeft(ctl, res', sound) <= LinksLeft(ctl, res, sound)
        BY <2>3, <2>4, <2>5 DEF LinksLeft
    <2>7. LinksLeft(ctl, res', sound) \in Nat
        BY <1>3, PlayIs, LeftIs
    <2> QED BY <1>2, <2>6, <2>7, PlayIs DEF Bounded, FewLinks
<1>5. Typed' /\ Asking(ctl)' /\ MovesOnce(ctl, sound)' /\ SaavnIsSpared(ctl, sound)'
    BY <1>2, <1>3, PlayIs DEF PlayInv, Typed, Asking, MovesOnce, SaavnIsSpared, Comparing
<1>6. LabelIsTrue' /\ OffsetIsTheLinks' /\ StandardStays'
    BY <1>2, <1>3 DEF PlayInv, LabelIsTrue, OffsetIsTheLinks, StandardStays
<1> QED BY <1>4, <1>5, <1>6 DEF PlayInv

\* A walk of rungs not refused leaves nothing beyond its link.
LEMMA AskedBelowLeaves ==
    ASSUME NEW c \in CtlType, NEW r \in ResType, RungWalk(c.walk), r.rescue = "none",
           ToSet(c.walk) \subseteq Below \ c.refused
    PROVE  OfWalk(c, r) = 0
<1> DEFINE left == One(\E t \in ToSet(c.walk) : t = "SignedIn" \/ t \in c.refused)
           kept == One(r.rescue # "none")
<1>1. c.walk \notin {AsTrack, Top} /\ "InnerTube" \notin ToSet(c.walk)
    BY RungWalkIs DEF Below
<1>2. OfWalk(c, r) = left + kept
    BY <1>1 DEF OfWalk
<1>3. left = 0
    BY DEF Below, One
<1>4. kept = 0
    BY DEF One
<1> HIDE DEF left, kept
<1> QED BY <1>2, <1>3, <1>4

\* With the same rung again it leaves what that rung does.
LEMMA AskedAgainLeaves ==
    ASSUME NEW c \in CtlType, NEW r \in ResType, RungWalk(c.walk), r.rescue = "none",
           NEW tier \in Rungs, \A t \in ToSet(c.walk) : t = tier \/ t \in Below \ c.refused
    PROVE  /\ tier = "InnerTube" => OfWalk(c, r) <= 1 + One(~c.again)
           /\ tier # "InnerTube" => OfWalk(c, r) <= One(tier = "SignedIn" \/ tier \in c.refused)
<1> DEFINE spent(t) == t = "SignedIn" \/ t \in c.refused
           left == One(\E t \in ToSet(c.walk) : spent(t))
           kept == One(r.rescue # "none")
           more == One(~c.again)
           mine == One(spent(tier))
<1>1. c.walk \notin {AsTrack, Top}
    BY RungWalkIs
<1>2. more \in {0, 1} /\ mine \in {0, 1} /\ left \in {0, 1} /\ kept = 0
    BY DEF One
<1>3. CASE "InnerTube" \in ToSet(c.walk)
    <2>1. tier = "InnerTube" /\ OfWalk(c, r) = 1 + more
        BY <1>1, <1>3 DEF OfWalk, Below
    <2> HIDE DEF left, kept, more, mine
    <2>2. OfWalk(c, r) <= 1 + more
        BY <1>2, <2>1
    <2> QED BY <2>1, <2>2 DEF more
<1>4. CASE "InnerTube" \notin ToSet(c.walk)
    <2>1. OfWalk(c, r) = left + kept
        BY <1>1, <1>4 DEF OfWalk
    <2>2. left <= mine
        <3> SUFFICES ASSUME NEW t \in ToSet(c.walk), spent(t) PROVE spent(tier)
            BY DEF One
        <3>1. t = tier
            BY DEF Below
        <3> QED BY <3>1
    <2> HIDE DEF left, kept, more, mine
    <2>3. OfWalk(c, r) <= mine /\ OfWalk(c, r) <= 1 + more
        BY <1>2, <2>1, <2>2
    <2> QED BY <2>3 DEF more, mine
<1> QED BY <1>3, <1>4

\* Nothing is below Public.
LEMMA PublicIsLast ==
    ASSUME NEW refused
    PROVE  Spared(AfterRefusal("Public"), refused) = <<>>
<1>1. AfterRefusal("Public") = <<>>
    BY DEF AfterRefusal
<1> QED BY <1>1 DEF Spared

\* JioSaavn's link refused, which it is once a play.
LEMMA SaavnRefusedKeeps ==
    ASSUME PlayInv, sound.file \in {"opening", "sounding"}, SaavnRefused,
           sound' = [sound EXCEPT !.file = "none"], plays' = plays, loads' = loads
    PROVE  PlayInv'
<1> DEFINE refused == ctl.refused \cup {"Saavn"}
<1>1. /\ ctl.tier = "Saavn" /\ ctl' = [Ask(Top) EXCEPT !.refused = refused]
      /\ res' = [res EXCEPT !.saavn = "refused"]
    BY PlayIs DEF SaavnRefused, Ask, CtlType
<1>2. "Saavn" \notin ctl.refused
    BY <1>1 DEF PlayInv, SaavnIsSpared
<1>3. res' \in ResType /\ res'.on = res.on /\ res'.fetching = res.fetching
    BY <1>1, PlayIs DEF ResType
<1>4. refused \in SUBSET Sources /\ "Saavn" \in refused
    BY PlayIs DEF CtlType, Sources
<1>5. /\ ctl' = [Ask(Top) EXCEPT !.refused = refused, !.again = ctl.again, !.resumed = ctl.resumed]
      /\ ctl'.walk = Top /\ ctl'.refused = refused /\ ctl'.resumed = ctl.resumed
      /\ ctl' \in CtlType
    BY <1>1, <1>4, PlayIs, AsTrackIs DEF Ask, CtlType, Sources
<1>6. RungsLeft(refused) = RungsLeft(ctl.refused)
    BY DEF RungsLeft, One
<1>7. One("Saavn" \notin refused) = 0 /\ One("Saavn" \notin ctl.refused) = 1
    BY <1>2, <1>4 DEF One
<1> HIDE DEF refused
<1>8. Rest(ctl', res') + 3 = Rest(ctl, res)
    <2> DEFINE k == RungsLeft(ctl.refused)
               e == One(~ctl.resumed)
               f == One(res.fetching)
    <2>1. k \in Nat /\ e \in Nat /\ f \in Nat
        BY DEF RungsLeft, One
    <2>2. Rest(ctl', res') = k + 3 * e + 3 * 0 + f
        BY <1>3, <1>5, <1>6, <1>7 DEF Rest
    <2>3. Rest(ctl, res) = k + 3 * e + 3 * 1 + f
        BY <1>7 DEF Rest
    <2> HIDE DEF k, e, f
    <2> QED BY <2>1, <2>2, <2>3
<1>9. OfWalk(ctl', res') = 2
    BY <1>5 DEF OfWalk
<1>10. Alive(ctl, sound)
    BY <1>1 DEF Alive
<1>11. 1 + OfWalk(ctl', res') + Rest(ctl', res') <= OfNow(ctl, res) + Rest(ctl, res)
    <2>1. OfNow(ctl, res) \in Nat /\ Rest(ctl, res) \in Nat /\ Rest(ctl', res') \in Nat
        BY <1>3, <1>5, PlayIs, LeftIs, RestIs
    <2> QED BY <1>8, <1>9, <2>1
<1>12. /\ Top \in {AsTrack, Top} \/ RungWalk(Top)
       /\ Top = AsTrack => ctl.tier = "Saavn" /\ refused = ctl.refused
       /\ "Saavn" \in refused => ctl.tier = "Saavn" \/ "Saavn" \in ctl.refused
       /\ ctl.again \in BOOLEAN /\ ctl.resumed \in BOOLEAN
    BY <1>1, AsTrackIs, PlayIs DEF CtlType
<1> QED BY <1>3, <1>4, <1>5, <1>10, <1>11, <1>12, AskKeeps, Zenon

\* A rung's link refused: another rung has it, or the same one's next link.
LEMMA RetryRefusedKeeps ==
    ASSUME PlayInv, RetryRefused,
           sound' = [sound EXCEPT !.file = "none"], plays' = plays, loads' = loads
    PROVE  PlayInv'
<1> DEFINE refused == IF ctl.cached THEN ctl.refused ELSE ctl.refused \cup {ctl.tier}
           tiers == Tiers(Again, refused)
           again == ctl.again \/ (Again /\ ctl.tier = "InnerTube")
<1>1. /\ ctl.tier \notin {"none", "Saavn"} /\ tiers # <<>>
      /\ ctl' = [Ask(tiers) EXCEPT !.refused = refused, !.again = again]
      /\ res' = [Noted EXCEPT !.cache = "none", !.rescue = "none"]
    BY PlayIs DEF RetryRefused, Ask, CtlType
<1>2. ctl.tier \in Rungs /\ ~ctl.pending
    BY <1>1, PlayIs DEF CtlType, Sources, PlayInv, Asking
<1>3. Noted \in ResType /\ Noted.on = res.on /\ Noted.fetching = res.fetching
    BY PlayIs DEF Noted, ResType
<1>4. res' \in ResType /\ res'.on = res.on /\ res'.fetching = res.fetching /\ res'.rescue = "none"
    BY <1>1, <1>3 DEF ResType
<1>5. refused \in SUBSET Sources /\ again \in BOOLEAN /\ Again \in BOOLEAN
    BY PlayIs DEF CtlType, Sources, Again
<1>6. /\ RungWalk(tiers)
      /\ Again => \A t \in ToSet(tiers) : t = ctl.tier \/ t \in Below \ refused
      /\ ~Again => ToSet(tiers) \subseteq Below \ refused
    <2> DEFINE spared == Spared(AfterRefusal(ctl.tier), refused)
    <2>1. Again => tiers = <<ctl.tier>> \o spared
        BY DEF Tiers
    <2>2. ~Again => tiers = <<>> \o spared
        BY DEF Tiers
    <2>3. spared \in Seq(Rungs)
        BY <1>2, LadderIs
    <2> HIDE DEF tiers, refused
    <2>4. CASE Again
        <3>1. RungWalk(<<ctl.tier>> \o spared)
            BY <1>2, AskedAgain, Zenon
        <3>2. \A t \in ToSet(<<ctl.tier>> \o spared) : t = ctl.tier \/ t \in Below \ refused
            BY <1>2, AskedAgain, Zenon
        <3> QED BY <2>1, <2>4, <3>1, <3>2, Zenon
    <2>5. CASE ~Again
        <3>1. tiers = spared
            <4> HIDE DEF spared
            <4> QED BY <2>2, <2>3, <2>5
        <3> QED BY <1>1, <1>2, <2>5, <3>1, AskedBelow
    <2> QED BY <2>4, <2>5
<1>7. ctl.tier = "Public" => Again
    <2> SUFFICES ASSUME ctl.tier = "Public", ~Again PROVE FALSE
        OBVIOUS
    <2>1. tiers = <<>> \o Spared(AfterRefusal("Public"), refused)
        BY DEF Tiers
    <2> HIDE DEF tiers, refused
    <2>2. tiers = <<>>
        BY <2>1, PublicIsLast
    <2> QED BY <1>1, <2>2
<1>a. ctl.tier # "InnerTube" => Again = ctl.cached
    BY DEF Again
<1>b. ctl.tier = "InnerTube" /\ Again => ~ctl.again /\ again
    BY DEF Again
<1>8. \/ ctl.cached /\ refused = ctl.refused
      \/ ~ctl.cached /\ refused = ctl.refused \cup {ctl.tier}
    OBVIOUS
<1>9. "Saavn" \in refused <=> "Saavn" \in ctl.refused
    BY <1>1
<1> HIDE DEF refused, tiers, again
<1>10. tiers \in Seq(Rungs \cup {"track"}) /\ tiers \notin {<<>>, AsTrack, Top}
    BY <1>6, RungWalkIs
<1>11. /\ ctl' = [Ask(tiers) EXCEPT !.refused = refused, !.again = again, !.resumed = ctl.resumed]
       /\ ctl' \in CtlType /\ ctl'.walk = tiers /\ ctl'.refused = refused /\ ctl'.again = again
       /\ ctl'.resumed = ctl.resumed
    BY <1>1, <1>5, <1>10, PlayIs DEF Ask, CtlType, Sources
<1> DEFINE tier == ctl.tier
           spent == One(tier = "SignedIn" \/ tier \in refused)
           link == OfLink(ctl, tier, ctl.cached)
           walk == OfWalk(ctl', res')
           k == RungsLeft(ctl.refused)
           l == RungsLeft(refused)
<1>12. /\ ~Again => walk = 0
       /\ Again /\ tier = "InnerTube" => walk <= 1 + One(~again)
       /\ Again /\ tier # "InnerTube" => walk <= spent
    <2>1. CASE Again
        BY <1>2, <1>4, <1>6, <1>11, <2>1, AskedAgainLeaves
    <2>2. CASE ~Again
        BY <1>2, <1>4, <1>6, <1>11, <2>2, AskedBelowLeaves
    <2> QED BY <2>1, <2>2
<1>13. walk \in 0 .. 2 /\ link \in 0 .. 2 /\ spent \in {0, 1} /\ k \in 0 .. 2 /\ l \in 0 .. 2
    BY WalkIs, LinkIs DEF One, RungsLeft
<1>14. 1 + walk + l <= link + k
    <2>1. CASE tier = "InnerTube"
        <3>1. l = k
            BY <1>8, <2>1 DEF RungsLeft, One
        <3>2. link = 1 + One(~ctl.again) /\ One(~ctl.again) \in {0, 1}
            BY <2>1 DEF OfLink, One
        <3>3. Again => One(~ctl.again) = 1 /\ One(~again) = 0
            BY <1>b, <2>1 DEF One
        <3>4. Again => walk <= 1
            BY <1>12, <1>13, <2>1, <3>3
        <3>5. Again => link = 2
            BY <3>2, <3>3
        <3> HIDE DEF l, k, link, walk
        <3> QED BY <1>12, <1>13, <3>1, <3>2, <3>4, <3>5
    <2>2. CASE tier # "InnerTube" /\ ctl.cached
        <3>1. l = k /\ refused = ctl.refused
            BY <1>8, <2>2
        <3>2. link = spent + 1
            BY <1>1, <2>2, <3>1 DEF OfLink, One
        <3>3. walk <= spent
            BY <1>12, <1>a, <2>2
        <3> HIDE DEF l, k, link, walk, spent
        <3> QED BY <1>13, <3>1, <3>2, <3>3
    <2>3. CASE tier # "InnerTube" /\ ~ctl.cached
        <3>1. walk = 0 /\ tier # "Public" /\ refused = ctl.refused \cup {tier}
            BY <1>12, <1>7, <1>8, <1>a, <2>3
        <3>2. CASE tier = "SignedIn" \/ tier \in ctl.refused
            <4>1. link >= 1
                BY <2>3, <3>2 DEF OfLink, One
            <4>2. l = k
                BY <3>1, <3>2 DEF RungsLeft, One
            <4> HIDE DEF l, k, link, walk
            <4> QED BY <1>13, <3>1, <4>1, <4>2
        <3>3. CASE ~(tier = "SignedIn" \/ tier \in ctl.refused)
            <4>1. tier \in {"YtDlp", "Muxed"}
                BY <1>2, <2>3, <3>1, <3>3 DEF Rungs
            <4>2. l + 1 = k
                BY <3>1, <3>3, <4>1 DEF RungsLeft, One
            <4> HIDE DEF l, k, link, walk
            <4> QED BY <1>13, <3>1, <4>2
        <3> QED BY <3>2, <3>3
    <2> QED BY <2>1, <2>2, <2>3
<1>15. 1 + walk + Rest(ctl', res') <= OfNow(ctl, res) + Rest(ctl, res)
    <2> DEFINE rest == 3 * One(~ctl.resumed) + 3 * One("Saavn" \notin ctl.refused) + One(res.fetching)
    <2>1. Rest(ctl, res) = k + rest /\ rest \in Nat
        BY <1>13 DEF Rest, One
    <2>2. Rest(ctl', res') = l + rest
        BY <1>4, <1>9, <1>11, <1>13 DEF Rest, One
    <2>3. OfNow(ctl, res) = link
        BY <1>2 DEF OfNow
    <2> HIDE DEF rest, walk, link, k, l
    <2> QED BY <1>13, <1>14, <2>1, <2>2, <2>3
<1>16. /\ tiers \in {AsTrack, Top} \/ RungWalk(tiers)
       /\ tiers = AsTrack => ctl.tier = "Saavn" /\ refused = ctl.refused
       /\ "Saavn" \in refused => ctl.tier = "Saavn" \/ "Saavn" \in ctl.refused
       /\ ctl.resumed \in BOOLEAN /\ Alive(ctl, sound)
    BY <1>1, <1>6, <1>9, <1>10, PlayIs DEF CtlType, Alive
<1> QED BY <1>4, <1>5, <1>11, <1>15, <1>16, AskKeeps, Zenon

\* A link refused, whatever comes of it.
LEMMA LoadFailedKeeps ==
    ASSUME PlayInv, LoadFailed
    PROVE  PlayInv'
<1>1. CASE SaavnRefused /\ sound' = [sound EXCEPT !.file = "none"] /\ UNCHANGED <<plays, loads>>
    BY <1>1, SaavnRefusedKeeps DEF LoadFailed
<1>2. CASE RetryRefused /\ sound' = [sound EXCEPT !.file = "none"] /\ UNCHANGED <<plays, loads>>
    BY <1>2, RetryRefusedKeeps
<1>3. CASE NothingLeft
    <2>1. Noted \in ResType /\ Noted.on = res.on
        BY PlayIs DEF Noted, ResType
    <2> QED BY <1>3, <2>1, OverKeeps DEF NothingLeft
<1> QED BY <1>1, <1>2, <1>3 DEF LoadFailed

\* A stream that stops short is asked for again, which it is once a play.
LEMMA EndsEarlyKeeps ==
    ASSUME PlayInv, EndsEarly
    PROVE  PlayInv'
<1>1. /\ ctl.tier # "none" /\ ~ctl.resumed
      /\ sound' = [sound EXCEPT !.file = "none"] /\ plays' = plays /\ loads' = loads
    BY DEF EndsEarly
<1>2. PICK walk : /\ ctl' = [Ask(walk) EXCEPT !.resumed = TRUE]
                  /\ res' \in {AskTrack, Invalidated}
                  /\ (walk = AsTrack /\ ctl.tier = "Saavn") \/ RungWalk(walk)
    <2>1. CASE ctl.tier = "Saavn"
        BY <2>1 DEF EndsEarly
    <2>2. CASE ctl.tier # "Saavn"
        <3>1. ctl.tier \in Rungs
            BY <1>1, <2>2, PlayIs DEF CtlType, Sources
        <3> DEFINE lower == <<ctl.tier>> \o Spared(AfterRefusal(ctl.tier), ctl.refused)
        <3>2. ctl' = [Ask(lower) EXCEPT !.resumed = TRUE]
            BY <2>2 DEF EndsEarly
        <3>3. RungWalk(lower)
            BY <3>1, AskedAgain, Zenon
        <3> HIDE DEF lower
        <3>4. res' = Invalidated
            BY <2>2 DEF EndsEarly
        <3> QED BY <3>2, <3>3, <3>4
    <2> QED BY <2>1, <2>2
<1>3. res' \in ResType /\ res'.on = res.on /\ res'.fetching = res.fetching
    BY <1>2, PlayIs DEF AskTrack, Invalidated, ResType
<1>4. walk \in Seq(Rungs \cup {"track"}) /\ (walk \in {AsTrack, Top} \/ RungWalk(walk))
    BY <1>2, AsTrackIs, RungWalkIs
<1>5. /\ ctl' = [Ask(walk) EXCEPT !.refused = ctl.refused, !.again = ctl.again, !.resumed = TRUE]
      /\ ctl' \in CtlType /\ ctl'.refused = ctl.refused /\ ctl'.resumed
    BY <1>2, <1>4, PlayIs DEF Ask, CtlType, Sources
<1>6. Rest(ctl', res') + 3 = Rest(ctl, res)
    <2> DEFINE k == RungsLeft(ctl.refused)
               e == One("Saavn" \notin ctl.refused)
               f == One(res.fetching)
    <2>1. k \in Nat /\ e \in Nat /\ f \in Nat
        BY DEF RungsLeft, One
    <2>2. One(~ctl.resumed) = 1 /\ One(~ctl'.resumed) = 0
        BY <1>1, <1>5 DEF One
    <2>3. Rest(ctl', res') = k + 3 * 0 + 3 * e + f
        BY <1>3, <1>5, <2>2 DEF Rest
    <2>4. Rest(ctl, res) = k + 3 * 1 + 3 * e + f
        BY <2>2 DEF Rest
    <2> HIDE DEF k, e, f
    <2> QED BY <2>1, <2>3, <2>4
<1>7. 1 + OfWalk(ctl', res') + Rest(ctl', res') <= OfNow(ctl, res) + Rest(ctl, res)
    <2>1. /\ OfNow(ctl, res) \in Nat /\ Rest(ctl, res) \in Nat /\ Rest(ctl', res') \in Nat
          /\ OfWalk(ctl', res') \in 0 .. 2
        BY <1>3, <1>5, PlayIs, LeftIs, RestIs, WalkIs
    <2> QED BY <1>6, <2>1
<1>8. walk = AsTrack => ctl.tier = "Saavn" /\ ctl.refused = ctl.refused
    BY <1>2, RungWalkIs
<1>9. "Saavn" \in ctl.refused => ctl.tier = "Saavn" \/ "Saavn" \in ctl.refused
    OBVIOUS
<1>10. ctl.refused \in SUBSET Sources /\ ctl.again \in BOOLEAN /\ TRUE \in BOOLEAN /\ Alive(ctl, sound)
    BY <1>1, PlayIs DEF CtlType, Alive
<1> QED BY <1>1, <1>3, <1>4, <1>5, <1>7, <1>8, <1>9, <1>10, AskKeeps, Zenon

\* The song ends.
LEMMA EndsKeeps ==
    ASSUME PlayInv, Ends
    PROVE  PlayInv'
BY OverKeeps, PlayIs DEF Ends

\* No link to be had.
LEMMA ResolveFailedKeeps ==
    ASSUME PlayInv, ResolveFailed
    PROVE  PlayInv'
BY OverKeeps, PlayIs DEF ResolveFailed

\* The move offered is kept for later, or begun with the link playing.
LEMMA OfferedIs ==
    ASSUME PlayInv, NEW c \in CtlType, NEW worth \in BOOLEAN, NEW d, d = Offered(c, worth)
    PROVE  \/ d = c
           \/ d = [c EXCEPT !.offer = TRUE] /\ res.on
           \/ /\ d = [c EXCEPT !.tried = TRUE, !.probe = loads] /\ res.on
              /\ ~c.tried /\ ~c.pending /\ c.tier # "Saavn" /\ "Saavn" \notin c.refused
<1>1. CASE ~res.on \/ plays = 0 \/ c.tried \/ "Saavn" \in c.refused
    BY <1>1 DEF Offered
<1>2. CASE ~(~res.on \/ plays = 0 \/ c.tried \/ "Saavn" \in c.refused)
    <2>1. CASE c.pending \/ sound.file = "opening"
        BY <1>2, <2>1 DEF Offered
    <2>2. CASE ~(c.pending \/ sound.file = "opening")
        <3>1. CASE c.tier \in {"none", "Saavn"} \/ ~worth
            BY <1>2, <2>2, <3>1 DEF Offered
        <3>2. CASE ~(c.tier \in {"none", "Saavn"} \/ ~worth)
            BY <1>2, <2>2, <3>2 DEF Offered
        <3> QED BY <3>1, <3>2
    <2> QED BY <2>1, <2>2
<1> QED BY <1>1, <1>2

\* A move offered gives mpv nothing, and is begun with the link playing.
LEMMA OfferedKeeps ==
    ASSUME PlayInv, NEW due \in BOOLEAN, NEW worth \in BOOLEAN,
           ctl' = Offered([ctl EXCEPT !.due = due], worth),
           res' \in ResType, res'.on = res.on, res'.rescue = res.rescue, res'.fetching = res.fetching,
           UNCHANGED <<sound, plays, loads>>
    PROVE  PlayInv'
<1> DEFINE c == [ctl EXCEPT !.due = due]
<1>1. /\ c \in CtlType /\ c.offer = ctl.offer /\ c.probe = ctl.probe /\ c.tried = ctl.tried
      /\ c.moving = ctl.moving /\ c.pending = ctl.pending /\ c.walk = ctl.walk
      /\ c.tier = ctl.tier /\ c.cached = ctl.cached /\ c.refused = ctl.refused
      /\ c.again = ctl.again /\ c.resumed = ctl.resumed
    BY PlayIs DEF CtlType
<1>2. ctl' = Offered(c, worth)
    OBVIOUS
<1> HIDE DEF c
<1>3. \/ ctl' = c
      \/ ctl' = [c EXCEPT !.offer = TRUE] /\ res.on
      \/ /\ ctl' = [c EXCEPT !.tried = TRUE, !.probe = loads] /\ res.on
         /\ ~c.tried /\ ~c.pending /\ c.tier # "Saavn" /\ "Saavn" \notin c.refused
    BY <1>1, <1>2, OfferedIs
<1>4. /\ ctl' \in CtlType
      /\ ctl'.moving = ctl.moving /\ ctl'.pending = ctl.pending /\ ctl'.walk = ctl.walk
      /\ ctl'.tier = ctl.tier /\ ctl'.cached = ctl.cached /\ ctl'.refused = ctl.refused
      /\ ctl'.again = ctl.again /\ ctl'.resumed = ctl.resumed
    <2>1. loads \in Nat
        BY PlayIs
    <2>2. CASE ctl' = c
        BY <1>1, <2>2
    <2>3. CASE ctl' = [c EXCEPT !.offer = TRUE]
        BY <1>1, <2>3 DEF CtlType
    <2>4. CASE ctl' = [c EXCEPT !.tried = TRUE, !.probe = loads]
        BY <1>1, <2>1, <2>4 DEF CtlType
    <2> QED BY <1>3, <2>2, <2>3, <2>4
<1>5. \/ ctl'.probe = ctl.probe /\ ctl'.tried = ctl.tried
      \/ /\ ctl'.probe = loads /\ ctl'.tried /\ res.on /\ ~ctl.tried
         /\ ~ctl.pending /\ ctl.tier # "Saavn" /\ "Saavn" \notin ctl.refused
    BY <1>1, <1>3 DEF CtlType
<1>6. ctl'.offer = ctl.offer \/ res.on
    BY <1>1, <1>3 DEF CtlType
<1>7. sound' = sound /\ plays' = plays /\ loads' = loads
    OBVIOUS
<1>8. Typed' /\ Asking(ctl)'
    BY <1>4, <1>7, PlayIs DEF PlayInv, Typed, Asking
<1>9. ~ctl.tried => sound.move = "none"
    BY DEF PlayInv, MovesOnce
<1>10. ctl.walk = AsTrack => ctl.pending
    BY NoWalkIs DEF PlayInv, Asking
<1>11. MovesOnce(ctl, sound)'
    <2>1. CASE ctl'.probe = ctl.probe /\ ctl'.tried = ctl.tried
        BY <1>4, <1>7, <2>1 DEF PlayInv, MovesOnce, Comparing
    <2>2. CASE /\ ctl'.probe = loads /\ ctl'.tried /\ ~ctl.tried
               /\ ctl.tier # "Saavn" /\ "Saavn" \notin ctl.refused
        BY <1>4, <1>7, <1>9, <2>2, PlayIs DEF MovesOnce, Comparing
    <2> QED BY <1>5, <2>1, <2>2
<1>12. SaavnIsSpared(ctl, sound)'
    BY <1>4, <1>5, <1>7, <1>10 DEF PlayInv, SaavnIsSpared, Comparing
<1>13. LabelIsTrue' /\ OffsetIsTheLinks' /\ StandardStays'
    BY <1>4, <1>5, <1>6, <1>7 DEF PlayInv, LabelIsTrue, OffsetIsTheLinks, StandardStays
<1>14. Bounded'
    BY <1>4, <1>7, NoMoreLeft DEF Alive
<1> QED BY <1>8, <1>11, <1>12, <1>13, <1>14 DEF PlayInv

\* JioSaavn's late answer.
LEMMA SaavnLateMatchKeeps ==
    ASSUME PlayInv, SaavnLateMatch
    PROVE  PlayInv'
<1>1. res' \in ResType /\ res'.on = res.on /\ res'.rescue = res.rescue /\ res'.fetching = res.fetching
    BY PlayIs DEF SaavnLateMatch, ResType
<1>2. CASE ctl' = ctl
    <2>1. sound' = sound /\ plays' = plays /\ loads' = loads
        BY DEF SaavnLateMatch
    <2>2. Typed' /\ Asking(ctl)' /\ MovesOnce(ctl, sound)' /\ SaavnIsSpared(ctl, sound)'
        BY <1>1, <1>2, <2>1 DEF PlayInv, Typed, Asking, MovesOnce, SaavnIsSpared, Comparing
    <2>3. LabelIsTrue' /\ OffsetIsTheLinks' /\ StandardStays'
        BY <1>1, <1>2, <2>1 DEF PlayInv, LabelIsTrue, OffsetIsTheLinks, StandardStays
    <2>4. Bounded'
        BY <1>1, <1>2, <2>1, NoMoreLeft, PlayIs DEF Alive
    <2> QED BY <2>2, <2>3, <2>4 DEF PlayInv
<1>3. CASE \E worth \in BOOLEAN : ctl' = Offered(ctl, worth)
    <2>1. ctl = [ctl EXCEPT !.due = ctl.due] /\ ctl.due \in BOOLEAN
        BY PlayIs DEF CtlType
    <2>2. UNCHANGED <<sound, plays, loads>>
        BY DEF SaavnLateMatch
    <2> QED BY <1>1, <1>3, <2>1, <2>2, OfferedKeeps, Zenon
<1> QED BY <1>2, <1>3 DEF SaavnLateMatch

\* The offer kept for when the song sounds.
LEMMA OfferDueKeeps ==
    ASSUME PlayInv, OfferDue
    PROVE  PlayInv'
BY OfferedKeeps, PlayIs DEF OfferDue

\* The copies compared: the link they were compared in is the one playing.
LEMMA SaavnAlignedKeeps ==
    ASSUME PlayInv, SaavnAligned
    PROVE  PlayInv'
<1>1. PICK ok \in BOOLEAN :
        LET starts == ok /\ res.on /\ StillTheSame /\ sound.file = "sounding" /\ sound.move = "none"
        IN  /\ ctl' = [ctl EXCEPT !.probe = 0, !.moving = @ \/ starts]
            /\ sound' = IF starts THEN [sound EXCEPT !.move = "ready", !.compared = ctl.probe] ELSE sound
    BY DEF SaavnAligned
<1> DEFINE starts == ok /\ res.on /\ StillTheSame /\ sound.file = "sounding" /\ sound.move = "none"
           moving == ctl.moving \/ starts
<1>2. /\ ctl' = [ctl EXCEPT !.probe = 0, !.moving = moving]
      /\ sound' = IF starts THEN [sound EXCEPT !.move = "ready", !.compared = ctl.probe] ELSE sound
      /\ moving \in BOOLEAN /\ starts \in BOOLEAN
    BY <1>1 DEF StillTheSame
<1>3. starts => /\ res.on /\ ctl.probe = loads /\ ~ctl.pending /\ ctl.tier \notin {"none", "Saavn"}
               /\ sound.move = "none" /\ moving
    BY DEF StillTheSame
<1>4. ctl.probe # 0 /\ res' = res /\ plays' = plays /\ loads' = loads
    BY DEF SaavnAligned
<1> HIDE DEF starts, moving
<1>5. /\ ctl' \in CtlType /\ ctl'.probe = 0 /\ ctl'.moving = moving /\ ctl'.tried = ctl.tried
      /\ ctl'.offer = ctl.offer /\ ctl'.pending = ctl.pending /\ ctl'.walk = ctl.walk
      /\ ctl'.tier = ctl.tier /\ ctl'.cached = ctl.cached /\ ctl'.refused = ctl.refused
      /\ ctl'.again = ctl.again /\ ctl'.resumed = ctl.resumed
    BY <1>2, PlayIs DEF CtlType
<1>6. /\ sound' \in SoundType /\ sound'.file = sound.file /\ sound'.from = sound.from
      /\ starts => sound'.move = "ready" /\ sound'.compared = ctl.probe
      /\ ~starts => sound' = sound
    BY <1>2, PlayIs DEF SoundType, CtlType
<1>7. ctl.tried /\ sound.move = "none"
    BY <1>4 DEF PlayInv, MovesOnce
<1>8. starts => /\ Comparing(ctl) /\ "Saavn" \notin ctl.refused /\ ctl.walk # AsTrack
    BY <1>3, <1>4, NoWalkIs DEF PlayInv, MovesOnce, Comparing, Asking
<1>9. Typed' /\ Asking(ctl)'
    BY <1>4, <1>5, <1>6, PlayIs DEF PlayInv, Typed, Asking
<1>10. MovesOnce(ctl, sound)'
    <2>1. loads \in Nat
        BY PlayIs
    <2>2. CASE starts
        BY <1>3, <1>4, <1>5, <1>6, <1>7, <1>8, <2>1, <2>2 DEF MovesOnce, Comparing
    <2>3. CASE ~starts
        BY <1>4, <1>5, <1>6, <1>7, <2>1, <2>3 DEF MovesOnce, Comparing
    <2> QED BY <2>2, <2>3
<1>11. SaavnIsSpared(ctl, sound)'
    BY <1>5, <1>6, <1>7, <1>8 DEF PlayInv, SaavnIsSpared, Comparing
<1>12. LabelIsTrue' /\ OffsetIsTheLinks' /\ StandardStays'
    BY <1>3, <1>4, <1>5, <1>6, <1>7 DEF PlayInv, LabelIsTrue, OffsetIsTheLinks, StandardStays
<1>13. Bounded'
    BY <1>3, <1>4, <1>5, <1>6, NoMoreLeft, PlayIs DEF Alive
<1> QED BY <1>9, <1>10, <1>11, <1>12, <1>13 DEF PlayInv

\* The song moved, or left where it was.
LEMMA UpgradeFinishedKeeps ==
    ASSUME PlayInv, UpgradeFinished
    PROVE  PlayInv'
<1>1. sound.move # "none" /\ plays' = plays /\ loads' = loads
    BY DEF UpgradeFinished
<1>2. ctl.probe = 0 /\ ctl.tried /\ "Saavn" \notin ctl.refused /\ ctl.walk # AsTrack
    BY <1>1, PlayIs DEF PlayInv, MovesOnce, SaavnIsSpared, CtlType
<1>3. CASE /\ sound' = [Silence EXCEPT !.file = "sounding", !.from = "Saavn"]
           /\ ctl' = [ctl EXCEPT !.moving = FALSE, !.tier = "Saavn", !.cached = FALSE]
           /\ res' = res
    <2>1. /\ ctl' \in CtlType /\ ctl'.probe = 0 /\ ~ctl'.moving /\ ctl'.tried = ctl.tried
          /\ ctl'.offer = ctl.offer /\ ctl'.pending = ctl.pending /\ ctl'.walk = ctl.walk
          /\ ctl'.tier = "Saavn" /\ ctl'.cached = FALSE /\ ctl'.refused = ctl.refused
          /\ ctl'.again = ctl.again /\ ctl'.resumed = ctl.resumed
        BY <1>2, <1>3, PlayIs DEF CtlType, Sources
    <2>2. /\ sound' \in SoundType /\ sound'.file = "sounding" /\ sound'.from = "Saavn"
          /\ sound'.move = "none"
        BY <1>3 DEF SoundType, Silence, Sources
    <2>3. Typed' /\ Asking(ctl)'
        BY <1>1, <1>3, <2>1, <2>2, PlayIs DEF PlayInv, Typed, Asking
    <2>4. MovesOnce(ctl, sound)' /\ SaavnIsSpared(ctl, sound)'
        BY <1>1, <1>2, <2>1, <2>2, PlayIs DEF MovesOnce, SaavnIsSpared, Comparing
    <2>5. LabelIsTrue' /\ OffsetIsTheLinks' /\ StandardStays'
        BY <1>2, <1>3, <2>1, <2>2 DEF PlayInv, LabelIsTrue, OffsetIsTheLinks, StandardStays
    <2>6. Bounded'
        <3>1. OfLink(ctl', "Saavn", FALSE) = 0
            BY <1>2, <2>1 DEF OfLink, One
        <3>2. OfWalk(ctl', res') = OfWalk(ctl, res)
            BY <1>3, <2>1 DEF OfWalk
        <3>3. OfNow(ctl', res') <= OfNow(ctl, res) /\ OfNow(ctl, res) \in Nat /\ OfNow(ctl', res') \in Nat
            <4>1. CASE ctl.pending
                BY <2>1, <3>2, <4>1, WalkIs DEF OfNow
            <4>2. CASE ~ctl.pending
                <5>1. OfNow(ctl', res') = 0
                    BY <2>1, <3>1, <4>2 DEF OfNow
                <5>2. OfNow(ctl, res) \in 0 .. 3
                    BY PlayIs, LeftIs
                <5> QED BY <5>1, <5>2
            <4> QED BY <4>1, <4>2
        <3>4. Rest(ctl', res') = Rest(ctl, res) /\ Rest(ctl, res) \in Nat
            <4>1. Rest(ctl', res') = Rest(ctl, res)
                BY <1>3, <2>1 DEF Rest
            <4> QED BY <4>1, PlayIs, RestIs
        <3>5. LinksLeft(ctl', res', sound') <= LinksLeft(ctl, res, sound)
            BY <1>1, <3>3, <3>4 DEF LinksLeft, Alive
        <3>6. LinksLeft(ctl', res', sound') \in Nat
            BY <1>3, <2>1, PlayIs, LeftIs
        <3> QED BY <1>1, <3>5, <3>6, PlayIs DEF Bounded, FewLinks
    <2> QED BY <2>3, <2>4, <2>5, <2>6 DEF PlayInv
<1>4. CASE /\ sound' = [sound EXCEPT !.move = "none"] /\ ctl' = [ctl EXCEPT !.moving = FALSE]
           /\ \E thin \in BOOLEAN :
                 res' = [res EXCEPT !.saavn = IF thin /\ @ = "match" THEN "none" ELSE @]
    <2>1. /\ ctl' \in CtlType /\ ctl'.probe = ctl.probe /\ ~ctl'.moving /\ ctl'.tried = ctl.tried
          /\ ctl'.offer = ctl.offer /\ ctl'.pending = ctl.pending /\ ctl'.walk = ctl.walk
          /\ ctl'.tier = ctl.tier /\ ctl'.cached = ctl.cached /\ ctl'.refused = ctl.refused
          /\ ctl'.again = ctl.again /\ ctl'.resumed = ctl.resumed
        BY <1>4, PlayIs DEF CtlType
    <2>2. /\ sound' \in SoundType /\ sound'.file = sound.file /\ sound'.from = sound.from
          /\ sound'.move = "none"
        BY <1>4, PlayIs DEF SoundType
    <2>3. res' \in ResType /\ res'.on = res.on /\ res'.rescue = res.rescue /\ res'.fetching = res.fetching
        BY <1>4, PlayIs DEF ResType
    <2>4. Typed' /\ Asking(ctl)'
        BY <1>1, <2>1, <2>2, <2>3, PlayIs DEF PlayInv, Typed, Asking
    <2>5. MovesOnce(ctl, sound)' /\ SaavnIsSpared(ctl, sound)'
        BY <1>1, <1>2, <2>1, <2>2, PlayIs DEF PlayInv, MovesOnce, SaavnIsSpared, Comparing
    <2>6. LabelIsTrue' /\ OffsetIsTheLinks' /\ StandardStays'
        BY <1>2, <2>1, <2>2, <2>3 DEF PlayInv, LabelIsTrue, OffsetIsTheLinks, StandardStays
    <2>7. Bounded'
        BY <1>1, <2>1, <2>2, <2>3, NoMoreLeft DEF Alive
    <2> QED BY <2>4, <2>5, <2>6, <2>7 DEF PlayInv
<1> QED BY <1>3, <1>4 DEF UpgradeFinished

\* On Standard the move stops, whatever stage it has reached.
LEMMA SetSaavnEnabledKeeps ==
    ASSUME PlayInv, SetSaavnEnabled
    PROVE  PlayInv'
<1>1. /\ res' = [res EXCEPT !.on = ~res.on] /\ plays' = plays /\ loads' = loads
    BY DEF SetSaavnEnabled
<1>2. /\ res' \in ResType /\ res'.on = ~res.on /\ res'.rescue = res.rescue /\ res'.fetching = res.fetching
    BY <1>1, PlayIs DEF ResType
<1>3. CASE res.on
    <2>1. /\ ctl' = [ctl EXCEPT !.probe = 0, !.offer = FALSE, !.moving = FALSE]
          /\ sound' = [sound EXCEPT !.move = IF ctl.moving THEN "none" ELSE sound.move]
        BY <1>3 DEF SetSaavnEnabled
    <2>2. /\ ctl' \in CtlType /\ ctl'.probe = 0 /\ ~ctl'.offer /\ ctl'.tried = ctl.tried
          /\ ctl'.pending = ctl.pending /\ ctl'.walk = ctl.walk
          /\ ctl'.tier = ctl.tier /\ ctl'.cached = ctl.cached /\ ctl'.refused = ctl.refused
          /\ ctl'.again = ctl.again /\ ctl'.resumed = ctl.resumed
        BY <2>1, PlayIs DEF CtlType
    <2>3. sound.move # "none" => ctl.moving
        BY DEF PlayInv, MovesOnce
    <2>4. /\ sound' \in SoundType /\ sound'.file = sound.file /\ sound'.from = sound.from
          /\ sound'.move = "none"
        BY <2>1, <2>3, PlayIs DEF SoundType
    <2>5. Typed' /\ Asking(ctl)'
        BY <1>1, <1>2, <2>2, <2>4, PlayIs DEF PlayInv, Typed, Asking
    <2>6. MovesOnce(ctl, sound)' /\ SaavnIsSpared(ctl, sound)'
        BY <1>1, <2>2, <2>4, PlayIs DEF PlayInv, MovesOnce, SaavnIsSpared, Comparing
    <2>7. LabelIsTrue' /\ OffsetIsTheLinks' /\ StandardStays'
        BY <2>2, <2>4 DEF PlayInv, LabelIsTrue, OffsetIsTheLinks, StandardStays
    <2>8. Bounded'
        BY <1>1, <1>2, <2>2, <2>4, NoMoreLeft DEF Alive
    <2> QED BY <2>5, <2>6, <2>7, <2>8 DEF PlayInv
<1>4. CASE ~res.on
    <2>1. ctl' = ctl /\ sound' = sound
        BY <1>4 DEF SetSaavnEnabled
    <2>2. Typed' /\ Asking(ctl)' /\ MovesOnce(ctl, sound)' /\ SaavnIsSpared(ctl, sound)'
        BY <1>1, <1>2, <2>1 DEF PlayInv, Typed, Asking, MovesOnce, SaavnIsSpared, Comparing
    <2>3. LabelIsTrue' /\ OffsetIsTheLinks' /\ StandardStays'
        BY <1>1, <1>2, <1>4, <2>1 DEF PlayInv, LabelIsTrue, OffsetIsTheLinks, StandardStays
    <2>4. Bounded'
        BY <1>1, <1>2, <2>1, NoMoreLeft, PlayIs DEF Alive
    <2> QED BY <2>2, <2>3, <2>4 DEF PlayInv
<1> QED BY <1>3, <1>4

\* No step of the play.
LEMMA PlayStutters ==
    ASSUME PlayInv, UNCHANGED rescue
    PROVE  PlayInv'
<1>1. ctl' = ctl /\ res' = res /\ sound' = sound /\ plays' = plays /\ loads' = loads
    BY DEF rescue
<1> QED BY <1>1 DEF PlayInv, Typed, Asking, MovesOnce, SaavnIsSpared, Comparing, LabelIsTrue,
                    OffsetIsTheLinks, StandardStays, Bounded, LinksLeft, OfNow, OfWalk, OfLink,
                    Rest, RungsLeft, One, Alive, RungWalk

\* Every step keeps the invariant.
LEMMA PlayNextKeeps ==
    ASSUME PlayInv, RescueNext
    PROVE  PlayInv'
<1>1. CASE Links
    BY <1>1, ResolvedKeeps, ResolvedAsKnownKeeps, ResolvedBySaavnKeeps, ResolveFailedKeeps,
       PrefetchedKeeps DEF Links
<1>2. CASE Files
    BY <1>2, AudioStartedKeeps, LoadFailedKeeps, EndsEarlyKeeps, EndsKeeps DEF Files
<1>3. CASE Move
    BY <1>3, SaavnLateMatchKeeps, OfferDueKeeps, SaavnAlignedKeeps, SoundTogetherKeeps,
       UpgradeFinishedKeeps DEF Move
<1> QED BY <1>1, <1>2, <1>3, BeginKeeps, SetSaavnEnabledKeeps DEF RescueNext

\* So it holds throughout.
LEMMA PlayAlways == RescueSpec => []PlayInv
<1>1. PlayInv /\ [RescueNext]_rescue => PlayInv'
    BY PlayNextKeeps, PlayStutters
<1> QED BY PlayBegins, <1>1, PTL DEF RescueSpec

\* The shapes, and with them that a song is waited for exactly while a walk is out,
\* and that what is compared is a link of this play.
THEOREM RescueTypes == RescueSpec => []RescueTypeOK
<1>1. PlayInv => RescueTypeOK
    <2> SUFFICES ASSUME PlayInv PROVE RescueTypeOK
        OBVIOUS
    <2>1. {ctl.tier, ctl.home} \subseteq ToSet(Top) \cup {"none", "SignedIn", "Saavn"}
        <3>1. ToSet(Top) = {"InnerTube", "YtDlp", "Muxed", "Public"}
            BY DEF Top, ToSet
        <3> QED BY <3>1, PlayIs DEF CtlType, Sources, Rungs
    <2>2. ctl.pending = (ctl.walk # <<>>)
        BY PlayIs DEF PlayInv, Asking, CtlType
    <2>3. ctl.probe \in 0 .. loads
        BY PlayIs DEF PlayInv, MovesOnce, CtlType
    <2> QED BY <2>1, <2>2, <2>3, PlayIs DEF RescueTypeOK, SoundType
<1> QED BY <1>1, PlayAlways, PTL

\* What the player says the sound comes from is where it comes from, whatever was
\* refused, cut short or moved (m_streamTier: handleResolved, retryRefused,
\* upgradeFinished).
THEOREM LabelsAreTrue == RescueSpec => []LabelIsTrue
<1>1. PlayInv => LabelIsTrue
    BY DEF PlayInv
<1> QED BY <1>1, PlayAlways, PTL

\* A move is lined up by an offset measured in the very link playing: one measured
\* in a link since refused or replaced starts none (m_upgradeProbeStream,
\* saavnAligned).
THEOREM OffsetsAreTheLinks == RescueSpec => []OffsetIsTheLinks
<1>1. PlayInv => OffsetIsTheLinks
    BY DEF PlayInv
<1> QED BY <1>1, PlayAlways, PTL

\* On Standard no move is under way, compared for or offered, at whatever stage it
\* was switched off (setSaavnEnabled, offerSaavnUpgrade).
THEOREM StandardIsKept == RescueSpec => []StandardStays
<1>1. PlayInv => StandardStays
    BY DEF PlayInv
<1> QED BY <1>1, PlayAlways, PTL

\* However often the song is played, and however its links are refused, cut short,
\* remembered and moved from, one play is given a dozen links at most
\* (retryRefused, resumeEarlyEnd, JioSaavn's refusal).
THEOREM LinksAreFew == RescueSpec => [](loads <= FewLinks)
<1>1. PlayInv => loads <= FewLinks
    BY PlayIs DEF FewLinks
<1> QED BY <1>1, PlayAlways, PTL
=============================================================================
