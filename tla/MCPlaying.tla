------------------------------ MODULE MCPlaying ------------------------------
(***************************************************************************)
(* The music playing, checked together: the queue across launches, what    *)
(* plays next, one song's links and its move to JioSaavn, mpv's files and  *)
(* the move itself.  A behaviour is about one of them, the others staying  *)
(* as they begin.                                                          *)
(***************************************************************************)
EXTENDS Session, MpvEngine

CONSTANTS v1, v2

VARIABLES part, player, skips, asleep, ctl, res, sound, plays, loads, song, opened, up

MCVideos == {v1, v2}
MCLists == {<<v1, v2>>, <<v1>>}
MCLibrary == <<v1, v2>>

\* Lists of songs to resolve, kept on disk, and that YouTube does not have.
MCAlbums == {<<"streamed">>, <<"blank">>, <<"streamed", "kept">>, <<"kept", "blank">>}

Up == INSTANCE UpNext WITH
    Kinds <- {"streamed", "blank"}, Lists <- MCAlbums,
    MaxRows <- 3, RadioBatch <- 2, LowWater <- 2, MaxFailures <- 2

Play == INSTANCE Rescue WITH MaxPlays <- 2

\* A sound, a picture with one, and a picture whose sound mpv cannot decode.
MCSongs == {"song", "clip", "mute"}

Move == INSTANCE Takeover WITH
    Length <- 5, Lead <- 2, Reaim <- 1, Room <- 1, MaxAims <- 3, FadeSteps <- 2,
    Levels <- {"low", "high"}, engine <- opened

transport == <<player, skips, asleep>>
play == <<ctl, res, sound, plays, loads>>
move == <<song, opened, up>>
all == <<part, sessionVars, transport, play, engineVars, move>>

PlayingInit ==
    /\ part \in {"session", "transport", "play", "mpv", "move"}
    /\ SessionInit /\ Up!Init /\ Play!RescueInit /\ EngineInit /\ Move!Init
    /\ part # "play" => res.saavn = "none" /\ res.cache = "none"
    /\ part # "mpv" => mpv.builds
    /\ part # "move" => opened.level = "low"

PlayingNext ==
    \/ part = "session" /\ SessionNext /\ UNCHANGED <<part, transport, play, engineVars, move>>
    \/ part = "transport" /\ Up!Next /\ UNCHANGED <<part, sessionVars, play, engineVars, move>>
    \/ part = "play" /\ Play!RescueNext /\ UNCHANGED <<part, sessionVars, transport, engineVars, move>>
    \/ part = "mpv" /\ EngineNext /\ UNCHANGED <<part, sessionVars, transport, play, move>>
    \/ part = "move" /\ Move!Next /\ UNCHANGED <<part, sessionVars, transport, play, engineVars>>

PlayingSpec == PlayingInit /\ [][PlayingNext]_all

\* The shapes of every part's variables.
PlayingTypeOK ==
    /\ SessionTypeOK /\ Up!TypeOK /\ Play!RescueTypeOK /\ EngineTypeOK /\ Move!TypeOK

\* Nothing goes round in circles by itself: a queue whose songs will not play is
\* not walked past two of them, and a play of one song ends over its links.
NothingGoesRound == Up!WalkStops /\ Play!RescuesEnd

\* The move to JioSaavn is of the link compared, is said to be where the sound
\* comes from once it is, and is off on Standard; and it neither skips, nor
\* repeats, nor leaves the song at another volume.
MoveIsSound ==
    /\ Play!LabelIsTrue /\ Play!OffsetIsTheLinks /\ Play!StandardStays
    /\ Move!VolumeIsTheListeners /\ Move!SwapsInPlace
=============================================================================
