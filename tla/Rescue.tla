------------------------------- MODULE Rescue -------------------------------
(***************************************************************************)
(* One song's plays (playbackcontroller.cpp): the link each plays from,    *)
(* the links mpv refuses, the stream that stops short, and the move to     *)
(* JioSaavn's copy once it is found and compared.  The ladder itself is    *)
(* StreamLadder's and the move Takeover's: here a walk ends in a link or   *)
(* in none, and a move in a swap or not.  A row's own file and the picture *)
(* are left out; links do not expire.                                      *)
(***************************************************************************)
EXTENDS Integers, Sequences, SequencesExt

CONSTANTS MaxPlays   \* bound: plays of the song

VARIABLES
    ctl,     \* the controller's members
    res,     \* the resolver's, for this song
    sound,   \* the file in mpv, where it is from, and the move under way
    plays,   \* plays begun
    loads    \* links given to mpv in this play

rescue == <<ctl, res, sound, plays, loads>>

Top == <<"InnerTube", "YtDlp", "Muxed", "Public">>

\* StreamResolver::afterRefusal.
AfterRefusal(tier) ==
    CASE tier = "InnerTube" -> <<"Muxed", "YtDlp", "Public">>
      [] tier = "YtDlp" -> <<"Muxed", "Public">>
      [] tier = "Muxed" -> <<"YtDlp", "Public">>
      [] tier = "SignedIn" -> <<"YtDlp", "Muxed", "Public">>
      [] OTHER -> <<>>

\* `walk` is what the resolver was asked: the song as a track, JioSaavn's copy
\* and all, YouTube's ladder from the top, or some of its rungs.
Idle == [pending |-> FALSE, walk |-> <<>>, tier |-> "none", cached |-> FALSE, home |-> "none",
         refused |-> {}, again |-> FALSE, resumed |-> FALSE, tried |-> FALSE,
         offer |-> FALSE, due |-> FALSE, probe |-> 0, moving |-> FALSE]

Silence == [file |-> "none", from |-> "none", move |-> "none", compared |-> 0]

RescueInit ==
    /\ ctl = Idle /\ sound = Silence /\ plays = 0 /\ loads = 0
    /\ \E saavn \in {"unknown", "none"}, cache \in {"none", "InnerTube"} :
          res = [cache |-> cache, rescue |-> "none", lately |-> FALSE, saavn |-> saavn,
                 late |-> FALSE, fetching |-> FALSE, on |-> TRUE]

AsTrack == <<"track">>

\* resolveTrack forgets what an earlier race would still say.
AskTrack == [res EXCEPT !.late = FALSE]

\* StreamResolver::invalidate.
Invalidated == [res EXCEPT !.cache = "none", !.rescue = "none"]

-----------------------------------------------------------------------------
(* The play, and its links.                                                 *)

\* beginTrack of the song, from wherever the listening is.
Begin ==
    /\ plays < MaxPlays
    /\ plays' = plays + 1 /\ loads' = 0
    /\ ctl' = [Idle EXCEPT !.pending = TRUE, !.walk = AsTrack, !.due = ctl.due]
    /\ res' = [AskTrack EXCEPT !.rescue = IF res.lately THEN @ ELSE "none"]
    /\ sound' = Silence

\* What the ladder asked from the top, or the rungs asked for, can answer.
FromTop ==
    IF res.lately /\ res.rescue # "none" THEN {<<res.rescue, TRUE>>}
    ELSE IF res.cache # "none" THEN {<<res.cache, TRUE>>}
    ELSE (ToSet(Top) \cup {"SignedIn"}) \X {FALSE}

FromRungs(tiers) ==
    IF Head(tiers) = res.rescue THEN {<<res.rescue, TRUE>>} ELSE ToSet(tiers) \X {FALSE}

\* succeed: a rescue's link is kept apart.
Kept(tier, home) ==
    IF tier # "InnerTube" /\ (res.lately \/ (home # "none" /\ tier # home))
    THEN [res EXCEPT !.rescue = tier] ELSE [res EXCEPT !.cache = tier]

Home(answer) == IF ctl.home = "none" /\ answer[1] # "Saavn" THEN answer[1] ELSE ctl.home

\* handleResolved: the link is given to mpv, and a move under way is off.
Play(answer) ==
    /\ ctl' = [ctl EXCEPT !.pending = FALSE, !.walk = <<>>, !.tier = answer[1], !.cached = answer[2],
                          !.home = Home(answer), !.moving = FALSE]
    /\ sound' = [Silence EXCEPT !.file = "opening", !.from = answer[1]]
    /\ loads' = loads + 1
    /\ UNCHANGED plays

Walked(answers, home) ==
    \E answer \in answers :
       /\ Play(answer)
       /\ res' = IF answer[2] THEN res ELSE Kept(answer[1], home)

AsksBoth == ctl.walk = AsTrack /\ res.on /\ res.saavn = "unknown"

\* A match known: played, and YouTube's link fetched beside it.
ResolvedAsKnown ==
    /\ ctl.pending /\ ctl.walk = AsTrack /\ res.on /\ res.saavn = "match"
    /\ Play(<<"Saavn", TRUE>>)
    /\ res' = [res EXCEPT !.fetching = TRUE]

\* JioSaavn wins the race.
ResolvedBySaavn ==
    /\ ctl.pending /\ AsksBoth
    /\ Play(<<"Saavn", FALSE>>)
    /\ res' = [res EXCEPT !.saavn = "match"]

\* YouTube does, or is all there is: what JioSaavn says later is for the song
\* playing.
Resolved ==
    /\ ctl.pending /\ (ctl.walk = AsTrack => ~res.on \/ res.saavn # "match")
    /\ IF ctl.walk \in {AsTrack, Top}
       THEN \E late \in {FALSE, AsksBoth}, answer \in FromTop :
               /\ Play(answer)
               /\ res' = [(IF answer[2] THEN res ELSE Kept(answer[1], "none")) EXCEPT !.late = late]
       ELSE Walked(FromRungs(ctl.walk), ctl.home)

\* A link made ahead of time.
Prefetched ==
    /\ res.fetching
    /\ \E tier \in ToSet(Top) :
          res' = [(IF res.cache = "none" THEN Kept(tier, "none") ELSE res) EXCEPT !.fetching = FALSE]
    /\ UNCHANGED <<ctl, sound, plays, loads>>

\* failTrack leaves the song: skipped, or stopped at.
Over ==
    /\ ctl' = [Idle EXCEPT !.due = ctl.due] /\ sound' = Silence
    /\ UNCHANGED <<plays, loads>>

ResolveFailed == ctl.pending /\ Over /\ UNCHANGED res

AudioStarted ==
    /\ sound.file = "opening"
    /\ sound' = [sound EXCEPT !.file = "sounding"]
    /\ ctl' = [ctl EXCEPT !.due = @ \/ ctl.offer, !.offer = FALSE]
    /\ UNCHANGED <<res, plays, loads>>

-----------------------------------------------------------------------------
(* Links that fail.  What a move under way does meanwhile is its own.       *)

Ask(walk) == [ctl EXCEPT !.pending = TRUE, !.walk = walk, !.tier = "none"]

\* No rung has more than three after it.
Spared(tiers, refused) ==
    LET kept(n) == IF n > Len(tiers) \/ tiers[n] \in refused THEN <<>> ELSE <<tiers[n]>>
    IN  kept(1) \o kept(2) \o kept(3)

\* JioSaavn's link refused: YouTube's ladder, from the top.
SaavnRefused ==
    /\ ctl.tier = "Saavn"
    /\ ctl' = [Ask(Top) EXCEPT !.refused = @ \cup {"Saavn"}]
    /\ res' = [res EXCEPT !.saavn = "refused"]

\* retryRefused: the same rung's next link where that may help, and the rungs
\* this play has not had refused.
Again ==
    IF ctl.tier = "InnerTube" THEN ~ctl.again /\ ~res.lately ELSE ctl.cached

Tiers(again, refused) ==
    (IF again THEN <<ctl.tier>> ELSE <<>>) \o Spared(AfterRefusal(ctl.tier), refused)

\* noteInnerTubeRefused.
Noted == [res EXCEPT !.lately = @ \/ (ctl.tier = "InnerTube" /\ ~Again /\ ~ctl.cached)]

\* (slip: a refused link from memory is asked for again as often as it is)
RetryRefusedFresh ==
    LET tiers == Tiers(TRUE, ctl.refused)
    IN  /\ ctl.tier \notin {"none", "Saavn"} /\ tiers # <<>>
        /\ ctl' = Ask(tiers)
        /\ res' = Invalidated

RetryRefused ==
    LET refused == IF ctl.cached THEN ctl.refused ELSE ctl.refused \cup {ctl.tier}
        tiers == Tiers(Again, refused)
    IN  /\ ctl.tier \notin {"none", "Saavn"} /\ tiers # <<>>
        /\ ctl' = [Ask(tiers) EXCEPT !.refused = refused,
                                     !.again = @ \/ (Again /\ ctl.tier = "InnerTube")]
        /\ res' = [Noted EXCEPT !.cache = "none", !.rescue = "none"]

NothingLeft ==
    /\ ctl.tier # "Saavn" /\ (ctl.tier = "none" \/ Tiers(Again, ctl.refused) = <<>>)
    /\ Over /\ res' = Noted

LoadFailed ==
    /\ sound.file \in {"opening", "sounding"}
    /\ \/ /\ SaavnRefused \/ RetryRefused
          /\ sound' = [sound EXCEPT !.file = "none"]
          /\ UNCHANGED <<plays, loads>>
       \/ NothingLeft

\* resumeEarlyEnd, once a play.
EndsEarly ==
    /\ sound.file = "sounding" /\ ctl.tier # "none" /\ ~ctl.resumed
    /\ IF ctl.tier = "Saavn"
       THEN ctl' = [Ask(AsTrack) EXCEPT !.resumed = TRUE] /\ res' = AskTrack
       ELSE /\ ctl' = [Ask(<<ctl.tier>> \o Spared(AfterRefusal(ctl.tier), ctl.refused)) EXCEPT !.resumed = TRUE]
            /\ res' = Invalidated
    /\ sound' = [sound EXCEPT !.file = "none"]
    /\ UNCHANGED <<plays, loads>>

Ends == sound.file = "sounding" /\ Over /\ UNCHANGED res

-----------------------------------------------------------------------------
(* The move to JioSaavn's copy; `compared` is the link its offset is of.    *)

\* offerSaavnUpgrade: kept for when the song sounds, or weighed and compared,
\* once a play.
Offered(c, worth) ==
    IF ~res.on \/ plays = 0 \/ c.tried \/ "Saavn" \in c.refused THEN c
    ELSE IF c.pending \/ sound.file = "opening" THEN [c EXCEPT !.offer = TRUE]
    ELSE IF c.tier \in {"none", "Saavn"} \/ ~worth THEN c
    ELSE [c EXCEPT !.tried = TRUE, !.probe = loads]

SaavnLateMatch ==
    /\ res.late
    /\ \/ res' = [res EXCEPT !.late = FALSE, !.saavn = "none"] /\ UNCHANGED ctl
       \/ /\ res' = [res EXCEPT !.late = FALSE, !.saavn = "match"]
          /\ \E worth \in BOOLEAN : ctl' = Offered(ctl, worth)
    /\ UNCHANGED <<sound, plays, loads>>

OfferDue ==
    /\ ctl.due
    /\ \E worth \in BOOLEAN : ctl' = Offered([ctl EXCEPT !.due = FALSE], worth)
    /\ UNCHANGED <<res, sound, plays, loads>>

\* (slip: another stream of the same song will do)
StillTheSameSong == ~ctl.pending /\ ctl.tier # "none"

StillTheSame == ctl.probe = loads /\ ~ctl.pending /\ ctl.tier \notin {"none", "Saavn"}

\* saavnAligned.
SaavnAligned ==
    /\ ctl.probe # 0
    /\ \E ok \in BOOLEAN :
          LET starts == ok /\ res.on /\ StillTheSame /\ sound.file = "sounding" /\ sound.move = "none"
          IN  /\ ctl' = [ctl EXCEPT !.probe = 0, !.moving = @ \/ starts]
              /\ sound' = IF starts THEN [sound EXCEPT !.move = "ready", !.compared = ctl.probe] ELSE sound
    /\ UNCHANGED <<res, plays, loads>>

SoundTogether ==
    /\ sound.move = "ready" /\ sound.file = "sounding"
    /\ sound' = [sound EXCEPT !.move = "together"]
    /\ UNCHANGED <<ctl, res, plays, loads>>

\* (slip: the tier left as it was)
UpgradeFinishedUnlabelled ==
    /\ sound.move = "together"
    /\ sound' = [Silence EXCEPT !.file = "sounding", !.from = "Saavn"]
    /\ ctl' = [ctl EXCEPT !.moving = FALSE]
    /\ UNCHANGED <<res, plays, loads>>

\* upgradeFinished: the song plays from JioSaavn's link, or, left as it was, the
\* file may be found no better than it was named.
UpgradeFinished ==
    /\ sound.move # "none"
    /\ \/ /\ sound.move = "together"
          /\ sound' = [Silence EXCEPT !.file = "sounding", !.from = "Saavn"]
          /\ ctl' = [ctl EXCEPT !.moving = FALSE, !.tier = "Saavn", !.cached = FALSE]
          /\ UNCHANGED res
       \/ /\ sound' = [sound EXCEPT !.move = "none"]
          /\ ctl' = [ctl EXCEPT !.moving = FALSE]
          /\ \E thin \in BOOLEAN :
                res' = [res EXCEPT !.saavn = IF thin /\ @ = "match" THEN "none" ELSE @]
    /\ UNCHANGED <<plays, loads>>

\* setSaavnEnabled: off, a move under way stops, whatever stage it has reached.
SetSaavnEnabled ==
    /\ res' = [res EXCEPT !.on = ~@]
    /\ IF res.on
       THEN /\ ctl' = [ctl EXCEPT !.probe = 0, !.offer = FALSE, !.moving = FALSE]
            /\ sound' = [sound EXCEPT !.move = IF ctl.moving THEN "none" ELSE @]
       ELSE UNCHANGED <<ctl, sound>>
    /\ UNCHANGED <<plays, loads>>

Links == Resolved \/ ResolvedAsKnown \/ ResolvedBySaavn \/ ResolveFailed \/ Prefetched
Files == AudioStarted \/ LoadFailed \/ EndsEarly \/ Ends
Move == SaavnLateMatch \/ OfferDue \/ SaavnAligned \/ SoundTogether \/ UpgradeFinished

RescueNext == Begin \/ SetSaavnEnabled \/ Links \/ Files \/ Move

RescueSpec == RescueInit /\ [][RescueNext]_rescue

-----------------------------------------------------------------------------

\* The shapes of the variables.
RescueTypeOK ==
    /\ {ctl.tier, ctl.home} \subseteq ToSet(Top) \cup {"none", "SignedIn", "Saavn"}
    /\ ctl.pending = (ctl.walk # <<>>)
    /\ sound.file \in {"none", "opening", "sounding"} /\ sound.move \in {"none", "ready", "together"}
    /\ ctl.probe \in 0 .. loads

\* A play does not go round in circles: however its links are refused, cut short,
\* remembered and moved from, it is given only so many (retryRefused,
\* resumeEarlyEnd, JioSaavn's refusal).
MostLinks == 10
RescuesEnd == loads <= MostLinks

\* What the player says the sound comes from is where it comes from, also after a
\* link failed as the song was being moved (m_streamTier, upgradeFinished).
LabelIsTrue == sound.file # "none" /\ ctl.tier # "none" => ctl.tier = sound.from

\* The move is lined up by how far the two copies are apart in the link playing,
\* not in one it was playing from when they were compared (m_upgradeProbeStream).
OffsetIsTheLinks == sound.move # "none" => sound.compared = loads

\* On Standard no move to JioSaavn is under way or about to be, at whatever stage
\* it was when that was picked.
StandardStays == ~res.on => sound.move = "none" /\ ctl.probe = 0 /\ ~ctl.offer
=============================================================================
