------------------------------ MODULE MpvEngine ------------------------------
(***************************************************************************)
(* MpvEngine's files (mpvengine.cpp): each load numbered, and what mpv     *)
(* reports, later and in its own order, matched to the latest of them; and *)
(* the sound effects' chain, without which a song it may have failed is    *)
(* played again.  libmpv is external: it takes its commands in turn, its   *)
(* events queue, and a property's change is told once no event is left.    *)
(* The player that takes over mid-song is in Takeover.                     *)
(***************************************************************************)
EXTENDS Integers, Sequences

CONSTANTS
    Songs,      \* the files there are, see below
    MaxLoads,   \* bound: loads and stops, those the engine makes itself among them
    MaxSeeks    \* bound: seeks

ASSUME MpvEngineAssumption ==
    /\ Songs \subseteq {"song", "clip", "noise", "mute", "film"}
    /\ MaxLoads \in Nat \ {0}
    /\ MaxSeeks \in Nat

\* "song" and "clip" (with a picture) have a sound mpv can decode, "noise" and
\* "mute" (a picture) one it cannot, "film" is a picture alone.
Pictures == {"clip", "mute", "film"}
Decodable == {"song", "clip"}

VARIABLES
    engine,    \* MpvEngine's members
    mpv,       \* libmpv: commands waiting, the file playing, and events unread
    asks,      \* loads and stops asked of the engine
    said,      \* what it last said, and of which of those
    seeks

engineVars == <<engine, mpv, asks, said, seeks>>

NoLoad == [entry |-> 0, song |-> "none", ask |-> 0]

Now == [e |-> engine, m |-> mpv, said |-> said]
Becomes(s) == engine' = s.e /\ mpv' = s.m /\ said' = s.said
Says(s, of, what) == [s EXCEPT !.said = [of |-> of, what |-> what]]

\* currentFileStarted and chainRunning.
Started(e) == e.current > 0 /\ e.started = e.current
ChainRunning(e) == Started(e) /\ e.restarted

EngineInit ==
    /\ engine = [asked |-> 0, current |-> 0, started |-> 0, last |-> NoLoad,
                 loaded |-> FALSE, loading |-> FALSE, audio |-> FALSE, paused |-> TRUE,
                 setUp |-> FALSE, restarted |-> FALSE, verified |-> FALSE, tick |-> FALSE,
                 given |-> FALSE, want |-> FALSE, broken |-> FALSE, retrying |-> FALSE]
    /\ \E builds \in BOOLEAN :
          mpv = [commands |-> <<>>, next |-> NoLoad, leaving |-> FALSE, file |-> NoLoad,
                 stage |-> "idle", track |-> FALSE, chain |-> FALSE, seeking |-> FALSE,
                 af |-> FALSE, builds |-> builds, paused |-> TRUE, events |-> <<>>]
    /\ asks = 0
    /\ said = [of |-> 0, what |-> "nothing"]
    /\ seeks = 0

-----------------------------------------------------------------------------
(* The effects' chain.                                                      *)

\* effectsWouldNotStart.
WouldNotStart(s) ==
    IF s.e.broken THEN s
    ELSE [s EXCEPT !.e.broken = TRUE, !.e.tick = @ \/ (ChainRunning(s.e) /\ s.e.given)]

\* setAudioFilters: "af set", which builds the chain there and then for a sound
\* that plays, and refuses one it cannot.
Refused(s, on) == on /\ s.m.track /\ ~s.m.builds
Filtered(s, on) == [s EXCEPT !.e.given = on, !.m.af = on, !.m.chain = on /\ s.m.track]

\* syncFilterString, to what chainSettings asks for.
Synced(s) ==
    LET on == s.e.want /\ ~s.e.broken /\ ~s.e.retrying
    IN  IF on = s.e.given THEN s
        ELSE IF Refused(s, on) THEN Filtered(WouldNotStart(s), FALSE)
        ELSE Filtered(s, on)

\* applyChain: written where nothing sounds, put in at rest and moved where
\* something does; taken out only with the next load or seek.
Applied(s) ==
    IF ~ChainRunning(s.e) THEN Synced(s)
    ELSE IF s.e.given THEN [s EXCEPT !.e.tick = TRUE]
    ELSE IF ~s.e.want \/ s.e.retrying THEN s
    ELSE IF Refused(s, TRUE) THEN WouldNotStart(s)
    ELSE [Filtered(s, TRUE) EXCEPT !.e.tick = TRUE]

-----------------------------------------------------------------------------
(* Loads.                                                                   *)

\* load, the listener's or the engine's own (m_fxReloading).
Loaded(s, song, ask, plays, again) ==
    LET mine == [entry |-> s.e.asked + 1, song |-> song, ask |-> ask]
        synced == Synced([s EXCEPT !.e.retrying = again, !.e.last = mine, !.e.restarted = FALSE,
                                   !.e.verified = FALSE, !.e.setUp = FALSE])
    IN  [synced EXCEPT !.e.loaded = FALSE, !.e.loading = TRUE, !.e.audio = FALSE,
                       !.e.asked = @ + 1, !.e.current = 0,
                       !.m.commands = Append(@, mine), !.m.paused = ~plays]

\* retryWithoutEffects.
MayRetry(s) == s.e.given /\ ~s.e.verified /\ ~s.e.retrying /\ s.e.asked < MaxLoads
Retried(s) == Loaded(Filtered(s, FALSE), s.e.last.song, s.e.last.ask, ~s.m.paused, TRUE)

Load(song, plays) ==
    /\ engine.asked < MaxLoads - 1
    /\ asks' = asks + 1
    /\ Becomes(Says(Loaded(Now, song, asks + 1, plays, FALSE), asks + 1, "asked"))
    /\ UNCHANGED seeks

\* (slip: the entry playing not forgotten)
StopUnforgotten ==
    /\ engine.asked < MaxLoads - 1
    /\ asks' = asks + 1
    /\ Becomes(Says([Now EXCEPT
           !.e.asked = @ + 1, !.e.loaded = FALSE, !.e.loading = FALSE,
           !.e.audio = FALSE, !.e.restarted = FALSE, !.e.setUp = FALSE, !.e.retrying = FALSE,
           !.m.commands = Append(@, NoLoad)], asks + 1, "nothing"))
    /\ UNCHANGED seeks

Stop ==
    /\ engine.asked < MaxLoads - 1
    /\ asks' = asks + 1
    /\ Becomes(Says([Now EXCEPT
           !.e.asked = @ + 1, !.e.current = 0, !.e.loaded = FALSE, !.e.loading = FALSE,
           !.e.audio = FALSE, !.e.restarted = FALSE, !.e.setUp = FALSE, !.e.retrying = FALSE,
           !.m.commands = Append(@, NoLoad)], asks + 1, "nothing"))
    /\ UNCHANGED seeks

SetPaused ==
    /\ mpv' = [mpv EXCEPT !.paused = ~@]
    /\ UNCHANGED <<engine, asks, said, seeks>>

\* seekAbsolute.
Seek ==
    /\ seeks < MaxSeeks
    /\ seeks' = seeks + 1
    /\ LET synced == Synced([Now EXCEPT !.e.restarted = FALSE, !.e.verified = FALSE])
       IN  Becomes([synced EXCEPT !.m.seeking = @ \/ mpv.stage = "playing"])
    /\ UNCHANGED asks

SetEffects ==
    LET wanting == [Now EXCEPT !.e.want = ~@]
    IN  /\ Becomes(IF engine.broken THEN wanting ELSE Applied(wanting))
        /\ UNCHANGED <<asks, seeks>>

-----------------------------------------------------------------------------
(* drainEvents, an event at a time.                                         *)

Replied(s, ev) ==
    IF ev.entry # s.e.asked THEN s
    ELSE [s EXCEPT !.e.current = IF ev.named THEN ev.entry ELSE -1]

FileStarted(s, ev) ==
    [s EXCEPT !.e.started = ev.entry, !.e.current = IF @ = -1 THEN ev.entry ELSE @]

FileLoaded(s, ev) ==
    IF ~Started(s.e) THEN s
    ELSE Says([s EXCEPT !.e.loaded = TRUE, !.e.loading = FALSE], ev.ask, "open")

AudioStarted(s, ask) == Says([s EXCEPT !.e.audio = TRUE], ask, "sounding")

\* effectsRestarted: a song that sounds where it would not with the effects
\* shows them at fault.
EffectsRestarted(s) ==
    LET over == [s EXCEPT !.e.restarted = TRUE, !.e.verified = FALSE, !.e.retrying = FALSE]
        judged == IF s.e.retrying /\ s.m.track THEN WouldNotStart(over) ELSE over
    IN  [judged EXCEPT !.e.tick = @ \/ judged.e.given]

Restarted(s, ev) ==
    IF ~Started(s.e) THEN s
    ELSE EffectsRestarted(IF s.e.audio \/ s.e.paused THEN s ELSE AudioStarted(s, ev.ask))

\* (slip: the sound's first setting up not counted)
ReconfiguredSounding(s, ev) ==
    IF Started(s.e) THEN [s EXCEPT !.e.setUp = s.e.audio] ELSE s

Reconfigured(s, ev) == IF Started(s.e) THEN [s EXCEPT !.e.setUp = TRUE] ELSE s

\* chainCouldFail tells an end with nothing played, once its sound was set up.
Ended(s, ev) ==
    LET over == [s EXCEPT !.e.loaded = FALSE, !.e.loading = FALSE, !.e.restarted = FALSE]
    IN  IF s.e.current <= 0 \/ ev.entry # s.e.current THEN s
        ELSE CASE ev.why = "stop" -> over
               [] ev.why = "eof" -> Says(over, ev.ask, "ended")
               [] OTHER -> IF ev.why = "nothing" /\ s.e.setUp /\ MayRetry(s) THEN Retried(over)
                           ELSE Says([over EXCEPT !.e.retrying = FALSE], ev.ask, "failed")

DrainEvent ==
    /\ mpv.events # <<>>
    /\ LET ev == Head(mpv.events)
           s == [Now EXCEPT !.m.events = Tail(@)]
       IN  Becomes(CASE ev.kind = "reply" -> Replied(s, ev)
                     [] ev.kind = "start" -> FileStarted(s, ev)
                     [] ev.kind = "loaded" -> FileLoaded(s, ev)
                     [] ev.kind = "reconfig" -> Reconfigured(s, ev)
                     [] ev.kind = "restart" -> Restarted(s, ev)
                     [] OTHER -> Ended(s, ev))
    /\ UNCHANGED <<asks, seeks>>

PauseChanged ==
    /\ mpv.events = <<>> /\ engine.paused # mpv.paused
    /\ engine' = [engine EXCEPT !.paused = mpv.paused]
    /\ UNCHANGED <<mpv, asks, said, seeks>>

\* The clock passes 0: of a file begun further in, paused too.
TimePos ==
    /\ mpv.events = <<>> /\ Started(engine) /\ ~engine.audio
    /\ mpv.stage = "playing"
    /\ Becomes(AudioStarted(Now, mpv.file.ask))
    /\ UNCHANGED <<asks, seeks>>

\* effectsTick.  What it asks mpv is answered as mpv then is.  A chain that does
\* not answer has a second to, while events are read.
Answers == mpv.track /\ mpv.chain /\ ~mpv.seeking

EffectsTick ==
    LET stopped == [Now EXCEPT !.e.tick = FALSE]
    IN  /\ engine.tick
        /\ CASE ~ChainRunning(engine) \/ ~engine.given -> Becomes(stopped)
             [] ChainRunning(engine) /\ engine.given /\ Answers ->
                  \E there \in BOOLEAN :
                     Becomes([Now EXCEPT !.e.verified = TRUE, !.e.tick = ~there])
             [] OTHER ->
                  IF engine.broken THEN Becomes(stopped)
                  ELSE IF engine.setUp /\ ~mpv.track /\ MayRetry(Now) THEN Becomes(Retried(stopped))
                  ELSE ~mpv.seeking /\ mpv.events = <<>> /\ Becomes(WouldNotStart(stopped))
        /\ UNCHANGED <<asks, seeks>>

-----------------------------------------------------------------------------
(* libmpv.                                                                  *)

Event(kind) == [kind |-> kind, entry |-> mpv.file.entry, ask |-> mpv.file.ask, why |-> "", named |-> FALSE]
End(why) == [Event("end") EXCEPT !.why = why]

Player(m) == mpv' = m /\ UNCHANGED <<engine, asks, said, seeks>>
Idle(m) == [m EXCEPT !.file = NoLoad, !.stage = "idle", !.track = FALSE, !.chain = FALSE, !.seeking = FALSE]
Reports(m, events) == [m EXCEPT !.events = @ \o events]

\* Commands are taken in turn; an answer may name the entry made.
MpvTakes ==
    /\ mpv.commands # <<>>
    /\ LET load == Head(mpv.commands)
           taken == [mpv EXCEPT !.commands = Tail(@), !.next = load, !.leaving = mpv.file # NoLoad]
       IN  IF load = NoLoad THEN Player(taken)
           ELSE \E named \in BOOLEAN :
                   Player(Reports(taken, <<[Event("reply") EXCEPT !.entry = load.entry,
                                                                  !.ask = load.ask, !.named = named]>>))

MpvLeaves ==
    /\ mpv.leaving
    /\ Player(Idle(Reports([mpv EXCEPT !.leaving = FALSE], <<End("stop")>>)))

MpvStarts ==
    /\ mpv.next # NoLoad /\ mpv.file = NoLoad
    /\ Player(Reports([mpv EXCEPT !.next = NoLoad, !.leaving = FALSE, !.file = mpv.next, !.stage = "opening"],
                      <<[Event("start") EXCEPT !.entry = mpv.next.entry, !.ask = mpv.next.ask]>>))

MpvOpens ==
    /\ mpv.stage = "opening" /\ ~mpv.leaving
    /\ \/ Player(Reports([mpv EXCEPT !.stage = "open"], <<Event("loaded")>>))
       \/ Player(Idle(Reports(mpv, <<End("link")>>)))

\* A sound mpv can decode is set up, and its chain built; one whose chain will
\* not build is taken down again.  Without a sound only a picture plays on.
Fails(song) == song = "film" \/ song \notin Decodable \/ (mpv.af /\ ~mpv.builds)
SetUps(song) == IF song \in Decodable THEN {2} ELSE {0, 2}

MpvPlays ==
    LET song == mpv.file.song
        plays(track) == [mpv EXCEPT !.stage = "playing", !.track = track, !.chain = track /\ mpv.af]
    IN  /\ mpv.stage = "open" /\ ~mpv.leaving
        /\ IF ~Fails(song) THEN Player(Reports(plays(TRUE), <<Event("reconfig"), Event("restart")>>))
           ELSE \E n \in SetUps(song) :
                   LET events == [i \in 1 .. n |-> Event("reconfig")]
                   IN  IF song \in Pictures
                       THEN Player(Reports(plays(FALSE), Append(events, Event("restart"))))
                       ELSE Player(Idle(Reports(mpv, Append(events, End("nothing")))))

MpvSeeks ==
    /\ mpv.seeking /\ ~mpv.leaving
    /\ Player(Reports([mpv EXCEPT !.seeking = FALSE, !.chain = mpv.track /\ mpv.af], <<Event("restart")>>))

MpvEnds ==
    /\ mpv.stage = "playing" /\ ~mpv.leaving
    /\ \E why \in {"eof", "link"} : Player(Idle(Reports(mpv, <<End(why)>>)))

-----------------------------------------------------------------------------

Listener ==
    \/ \E song \in Songs, plays \in BOOLEAN : Load(song, plays)
    \/ Stop \/ SetPaused \/ Seek \/ SetEffects

Libmpv == MpvTakes \/ MpvLeaves \/ MpvStarts \/ MpvOpens \/ MpvPlays \/ MpvSeeks \/ MpvEnds

EngineNext == Listener \/ DrainEvent \/ PauseChanged \/ TimePos \/ EffectsTick \/ Libmpv

EngineSpec == EngineInit /\ [][EngineNext]_engineVars

-----------------------------------------------------------------------------

\* The shapes of the variables.
EngineTypeOK ==
    /\ engine.asked \in 0 .. MaxLoads
    /\ engine.current \in -1 .. MaxLoads /\ engine.started \in 0 .. MaxLoads
    /\ \A flag \in DOMAIN engine \ {"asked", "current", "started", "last"} : engine[flag] \in BOOLEAN
    /\ mpv.stage \in {"idle", "opening", "open", "playing"}
    /\ mpv.track => mpv.stage = "playing"
    /\ said.of = asks

\* What the engine says keeps its promise: it is of the file last asked for,
\* never follows a stop, and nothing follows an end or a failure, whatever of
\* older files is still to be read (m_loadRequest, m_currentEntry).
Promise == INSTANCE PlayerPromise
ImplementsPromise == Promise!Spec

\* "A chain mpv would not start never costs the song": one with a sound mpv can
\* decode is failed for want of anything to play only if the effects were
\* switched off as it failed.
ChainNeverCostsTheSong ==
    [][LET ev == Head(mpv.events) IN
       DrainEvent /\ said'.what = "failed" /\ ev.why = "nothing" /\ engine.want =>
          engine.last.song \notin Decodable]_engineVars

\* What the engine says is of the file last asked for, and nothing follows its
\* end; and a chain of effects mpv would not start never costs the song.
KeepsPromise == ImplementsPromise /\ ChainNeverCostsTheSong

\* Only if the song "plays, sound and all, were the effects at fault": they are
\* switched off for the session only where mpv cannot build them.
EffectsAtFault == engine.broken => ~mpv.builds
=============================================================================
