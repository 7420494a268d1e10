------------------------------- MODULE Lyrics -------------------------------
(***************************************************************************)
(* The lyrics of the song playing (lyrics.cpp, lyrics/lyricsstore.cpp):    *)
(* looked up by races (LyricsRace), the view's and the queue's alike, kept *)
(* in the database, and put on show.  What the providers have is `truth`;  *)
(* the player is as the signals the lyrics follow show it.                 *)
(***************************************************************************)
EXTENDS LyricsRace, FiniteSets

CONSTANTS
    Songs,      \* videos
    Listed,     \* of them, those whose length is listed
    After,      \* the song the queue has after each; NoSong at its end
    Behind,     \* the providers the queue's lookups may ask, in order
    Truths,     \* what the providers may have: [Providers -> [kind, gap]]
    Launches,   \* how long after the last one may come: 0 soon, 1 days, 2 months
    NoSong

VARIABLES ly, player, truth

vars == <<ly, player, truth>>

NoJob == [out |-> FALSE]
NoRow == [kept |-> FALSE]
Nothing == [by |-> Nobody, kind |-> "missed", provisional |-> FALSE]

Words(answer) == Rank(answer.kind) > 0

\* The words on show, whatever they are called: another recording's are read back
\* from the database as plain text.
SameWords(a, b) ==
    /\ a.by = b.by
    /\ a.kind = b.kind \/ {a.kind, b.kind} = {"loose", "plain"}

Playing == [cur |-> NoSong, row |-> NoSong, heard |-> NoSong, dur |-> FALSE, into |-> FALSE]

\* A launch: nothing on show, no lookup out, what was kept still kept.
Fresh(rows, results, on) ==
    [rows |-> rows, results |-> results, background |-> on,
     jobs |-> [s \in Songs |-> NoJob], queueSongs |-> {}, tried |-> {}, tick |-> FALSE,
     active |-> FALSE, song |-> NoSong, known |-> FALSE, waits |-> NoSong, state |-> "idle",
     stored |-> Nothing, hasStored |-> FALSE, checking |-> FALSE, interim |-> FALSE, recheck |-> FALSE]

Init ==
    /\ ly = Fresh([s \in Songs |-> NoRow], [s \in Songs |-> [p \in Providers |-> NoRow]], TRUE)
    /\ player = Playing
    /\ truth \in Truths

-----------------------------------------------------------------------------
(* What is kept: a row for each song, and one for each provider's answer.  *)

Says(known) == [p \in Providers |-> Gated(truth[p], known)]

\* A kept answer, and whether it is shown, or shown and asked for again.
Read(w, s) ==
    LET row == w.rows[s] IN
    IF ~row.kept \/ (~Words(row.answer) /\ row.age > 0) THEN [how |-> "nothing", answer |-> Nothing]
    ELSE [how |-> IF Words(row.answer) /\ (row.answer.provisional \/ row.age > 1) THEN "check" ELSE "show",
          answer |-> [row.answer EXCEPT !.kind = IF @ = "loose" THEN "plain" ELSE @]]

\* The providers' own answers that are still good.
StillGood(w, s, p) ==
    /\ w.results[s][p].kept
    /\ w.results[s][p].age < IF Rank(w.results[s][p].said.kind) > 0 THEN 2 ELSE 1

Written(w, s, answer) == [w EXCEPT !.rows[s] = [kept |-> TRUE, answer |-> answer, age |-> 0]]

\* The answers a race had of those it asked, kept as they came.
ResultsKept(w, s, old, new) ==
    [w EXCEPT !.results[s] = [p \in Providers |->
        IF /\ Out(old, p) \/ old.is[p] = "absent"
           /\ Rank(new.is[p]) > 0 \/ new.is[p] = "missed"
           /\ p \notin new.partial
        THEN [kept |-> TRUE, said |-> [kind |-> new.is[p], gap |-> truth[p].gap], age |-> 0]
        ELSE @[p]]]

-----------------------------------------------------------------------------
(* What is on show.                                                        *)

ReadingAlong(w) == w.active /\ ~(w.state = "synced" /\ ~(w.song = player.cur /\ player.into))

Shown(w, answer) ==
    [w EXCEPT !.state = CASE answer.kind = "timed" -> "synced"
                          [] answer.kind \in {"plain", "loose"} -> "plain"
                          [] answer.kind = "instrumental" -> "instrumental"
                          [] OTHER -> "none",
              !.stored = answer, !.hasStored = Words(answer),
              !.recheck = @ \/ (Words(answer) /\ answer.provisional /\ ~w.checking)]

\* The best in hand of the race the view waits on, while a better is out.
OfferShown(w, s) ==
    LET race == w.jobs[s].race
        offer == [by |-> race.offer, kind |-> race.is[race.offer], provisional |-> FALSE]
    IN  IF \/ s # w.waits \/ w.checking
           \/ /\ w.hasStored
              /\ w.state # "loading"
              /\ \/ SameWords(offer, w.stored)
                 \/ (w.interim /\ w.active /\ Rank(offer.kind) <= Rank(w.stored.kind))
        THEN w
        ELSE Shown([w EXCEPT !.interim = TRUE], offer)

\* A mutation: a lookup that fails says so, whatever was kept.
DisplayedOrError(w, left) ==
    IF left.keptStays THEN [w EXCEPT !.stored = Nothing, !.hasStored = FALSE, !.state = "error",
                                     !.interim = FALSE, !.checking = FALSE]
    ELSE Shown([w EXCEPT !.interim = FALSE, !.checking = FALSE], left.answer)

\* What a lookup leaves on show: an error, the kept answer, or the one found.
Displayed(w, left) ==
    LET quiet == [w EXCEPT !.interim = FALSE, !.checking = FALSE]
        same == [quiet EXCEPT !.stored = left.answer, !.recheck = @ \/ left.answer.provisional]
        onShow == w.hasStored /\ w.state # "loading"
    IN  IF left.error
        THEN [quiet EXCEPT !.stored = Nothing, !.hasStored = FALSE, !.state = "error"]
        ELSE IF left.keptStays /\ w.checking THEN same
        ELSE IF ~left.keptStays /\ onShow /\ SameWords(left.answer, w.stored) THEN same
        ELSE IF /\ ~left.keptStays /\ onShow /\ w.interim /\ ReadingAlong(w)
                /\ Rank(left.answer.kind) <= Rank(w.stored.kind)
        THEN quiet
        ELSE Shown(quiet, left.answer)

-----------------------------------------------------------------------------
(* The lookups.                                                            *)

\* A mutation: what was found is kept, whatever it replaces.
LeftAnyway(job, race) ==
    [error |-> race.verdict = "error" /\ ~job.hasKept, keptStays |-> race.verdict = "error" /\ job.hasKept,
     write |-> race.verdict # "error",
     answer |-> [by |-> race.winner, provisional |-> race.provisional,
                 kind |-> IF race.winner = Nobody THEN "missed" ELSE race.is[race.winner]]]

\* What a decided race leaves, by what was kept before.
Left(job, race) ==
    LET found == [by |-> race.winner, provisional |-> race.provisional,
                  kind |-> IF race.winner = Nobody THEN "missed" ELSE race.is[race.winner]]
        stays == [error |-> FALSE, keptStays |-> TRUE, answer |-> job.kept, write |-> FALSE]
    IN  IF race.verdict = "found" /\ job.hasKept /\ race.provisional /\ ~job.kept.provisional THEN stays
        ELSE IF race.verdict = "none" /\ job.hasKept
        THEN [stays EXCEPT !.answer.provisional = FALSE, !.write = TRUE]
        ELSE IF race.verdict \in {"found", "none"}
        THEN [error |-> FALSE, keptStays |-> FALSE, answer |-> found, write |-> TRUE]
        ELSE IF race.verdict = "error" /\ job.hasKept THEN stays
        ELSE [error |-> TRUE, keptStays |-> FALSE, answer |-> Nothing, write |-> FALSE]

\* commit: a kept answer nobody has now is touched, as it is.
Committed(w, s, left) ==
    IF ~left.write THEN w
    ELSE IF left.keptStays
         THEN [w EXCEPT !.rows[s].answer.provisional = FALSE, !.rows[s].age = 0]
    ELSE Written(w, s, left.answer)

Finished(w, s, race) ==
    LET left == Left(w.jobs[s], race)
        settled == race.verdict = "none" \/ (race.verdict = "found" /\ ~race.provisional)
        gone == [Committed(w, s, left) EXCEPT
                    !.jobs[s] = NoJob, !.tick = TRUE,
                    !.tried = IF settled THEN @ \ {s} ELSE @ \union {s}]
    IN  IF w.waits = s THEN Displayed([gone EXCEPT !.waits = NoSong], left) ELSE gone

\* A mutation: a decided race is left to lie.
RacedOnly(w, s, old, new) == [ResultsKept(w, s, old, new) EXCEPT !.jobs[s].race = new]

\* A race moves on: what was answered is kept, and what it says is heard.
Raced(w, s, old, new) ==
    LET kept == [ResultsKept(w, s, old, new) EXCEPT !.jobs[s].race = new] IN
    IF new.verdict # "open" THEN Finished(kept, s, new)
    ELSE IF new.offer # old.offer THEN OfferShown(kept, s)
    ELSE kept

RaceStarted(w, s, known, kept, askAgain, behind) ==
    LET race == NewRace(IF behind THEN Behind ELSE Preferred)
        asked == [race EXCEPT !.is = [p \in Providers |->
                    IF @[p] = "waiting" /\ ~askAgain /\ ~Serial /\ StillGood(w, s, p)
                    THEN Gated(w.results[s][p].said, known) ELSE @[p]]]
        job == [out |-> TRUE, race |-> asked, kept |-> kept, hasKept |-> Words(kept), known |-> known]
        under == [w EXCEPT !.jobs[s] = job, !.waits = IF behind THEN @ ELSE s]
    IN  Raced(under, s, asked, Evaluated(asked, Says(known)))

\* The view waits on a lookup that is out, and everyone may be asked now.
Joined(w, s) ==
    LET job == w.jobs[s] IN
    Raced(w, s, job.race, Included(job.race, Preferred, Says(job.known)))

Dropped(w, s) == [w EXCEPT !.jobs[s] = NoJob, !.waits = IF @ = s THEN NoSong ELSE @]

\* A mutation: the lookup the view waits for is called off with the queue's.
PrunedAll(w) ==
    [w EXCEPT !.jobs = [s \in Songs |-> IF s \in w.queueSongs THEN @[s] ELSE NoJob]]

\* Lookups nobody wants any more are called off.
Pruned(w) ==
    [w EXCEPT !.jobs = [s \in Songs |-> IF s = w.waits \/ s \in w.queueSongs THEN @[s] ELSE NoJob]]

Detached(w) == [w EXCEPT !.waits = NoSong, !.interim = FALSE, !.recheck = FALSE]

Length(s, pl) == s \in Listed \/ (s = pl.cur /\ pl.dur)

Loaded(was, s, known, askAgain) ==
    LET bare == [Detached(was) EXCEPT !.song = s, !.known = known, !.checking = FALSE,
                                      !.stored = Nothing, !.hasStored = FALSE]
        w == IF askAgain THEN Dropped(bare, s) ELSE bare
        job == w.jobs[s]
        read == Read(w, s)
        showing == Shown([w EXCEPT !.checking = read.how = "check"], read.answer)
        joining == IF job.hasKept THEN Shown([w EXCEPT !.waits = s, !.checking = TRUE], job.kept)
                   ELSE [w EXCEPT !.waits = s, !.state = "loading"]
    IN  IF s = NoSong THEN Pruned([bare EXCEPT !.state = "none"])
        ELSE IF job.out
        THEN Pruned(Joined(IF ~job.hasKept /\ job.race.offer # Nobody THEN OfferShown(joining, s)
                           ELSE joining, s))
        ELSE IF ~askAgain /\ read.how = "show" THEN Pruned(showing)
        ELSE IF ~askAgain /\ read.how = "check"
        THEN Pruned(RaceStarted(showing, s, known, read.answer, FALSE, FALSE))
        ELSE Pruned(RaceStarted(
                IF Words(read.answer)
                THEN [w EXCEPT !.stored = read.answer, !.hasStored = TRUE, !.state = "loading"]
                ELSE [w EXCEPT !.state = "loading"],
                s, known, read.answer, askAgain, FALSE))

\* The answer on show asked for again behind it.
CheckedAgain(w) ==
    IF w.waits # NoSong \/ w.song = NoSong THEN w
    ELSE LET checking == [w EXCEPT !.recheck = FALSE, !.checking = TRUE] IN
         IF w.jobs[w.song].out THEN Joined([checking EXCEPT !.waits = w.song], w.song)
         ELSE RaceStarted(checking, w.song, w.known, w.stored, FALSE, FALSE)

\* A lookup of the queue's, where the song needs one.
Prefetched(w, s, known) ==
    LET read == Read(w, s) IN
    IF w.jobs[s].out \/ ~known \/ s \in w.tried \/ read.how = "show" THEN w
    ELSE RaceStarted(w, s, known, IF read.how = "check" THEN read.answer ELSE Nothing, FALSE, TRUE)

\* The song playing is looked up once it sounds, and the one after it once that
\* is done and where the connection costs nothing.
QueueFollowed(w, pl, metered) ==
    IF ~w.background \/ pl.cur = NoSong \/ pl.cur # pl.heard \/ pl.row # pl.cur THEN w
    ELSE LET next == After[pl.cur]
             wanted == Pruned([w EXCEPT !.queueSongs = {pl.cur, next} \ {NoSong}])
             first == Prefetched(wanted, pl.cur, Length(pl.cur, pl))
         IN  IF next \in {NoSong, pl.cur} \/ first.jobs[pl.cur].out \/ metered THEN first
             ELSE Prefetched(first, next, next \in Listed)

-----------------------------------------------------------------------------
(* The player's signals.                                                   *)

\* The queue moves on: its row is the song about to be the one playing.
QueueMoves(s, metered) ==
    /\ player.row # s
    /\ player' = [player EXCEPT !.row = s]
    /\ ly' = QueueFollowed(ly, player', metered)
    /\ UNCHANGED truth

\* currentTrackChanged: the lyrics first, then the queue's lookups.
TrackChanged(w, s, known) ==
    IF s # NoSong /\ s = w.song THEN w
    ELSE IF w.active THEN Loaded(w, s, known, FALSE)
    ELSE Pruned([Detached(w) EXCEPT !.song = NoSong, !.known = FALSE, !.checking = FALSE,
                                    !.stored = Nothing, !.hasStored = FALSE, !.state = "idle"])

TrackBegins(metered) ==
    /\ player.cur # player.row
    /\ player' = [player EXCEPT !.cur = player.row, !.dur = FALSE, !.into = FALSE]
    /\ ly' = QueueFollowed(TrackChanged(ly, player.row, player.row \in Listed), player', metered)
    /\ UNCHANGED truth

SoundStarts(metered) ==
    /\ player.cur # NoSong /\ player.heard # player.cur
    /\ player' = [player EXCEPT !.heard = player.cur]
    /\ ly' = QueueFollowed(ly, player', metered)
    /\ UNCHANGED truth

LengthFound(metered) ==
    /\ player.cur # NoSong /\ player.cur \notin Listed /\ ~player.dur
    /\ player' = [player EXCEPT !.dur = TRUE]
    /\ ly' = QueueFollowed(ly, player', metered)
    /\ UNCHANGED truth

\* The song passes its first timed line, or is taken back before it.
PositionMoves ==
    /\ player.cur # NoSong /\ ly.state = "synced"
    /\ player' = [player EXCEPT !.into = ~@]
    /\ UNCHANGED <<ly, truth>>

-----------------------------------------------------------------------------
(* The listener.                                                           *)

SetActive ==
    /\ ly' = LET w == [ly EXCEPT !.active = ~@] IN
             IF ~w.active THEN w
             ELSE IF w.state = "idle" THEN Loaded(w, player.cur, Length(player.cur, player), FALSE)
             ELSE IF w.hasStored /\ w.stored.provisional /\ ~w.checking /\ w.waits = NoSong
             THEN CheckedAgain(w)
             ELSE w
    /\ UNCHANGED <<player, truth>>

SetBackground(metered) ==
    /\ ly' = IF ly.background
             THEN Pruned([ly EXCEPT !.background = FALSE, !.queueSongs = {}])
             ELSE QueueFollowed([ly EXCEPT !.background = TRUE], player, metered)
    /\ UNCHANGED <<player, truth>>

\* Asked again past what is kept (the view's button, where there are no lines).
Retry ==
    /\ ly.active /\ ly.state \in {"none", "error"}
    /\ LET s == IF ly.song = NoSong THEN player.cur ELSE ly.song IN
       ly' = Loaded(ly, s, Length(s, player) \/ (s = ly.song /\ ly.known), TRUE)
    /\ UNCHANGED <<player, truth>>

-----------------------------------------------------------------------------
(* The providers, and the clocks.                                          *)

Answers(s, p) ==
    /\ ly.jobs[s].out /\ ly.jobs[s].race.is[p] = "pending"
    /\ LET job == ly.jobs[s] IN
       ly' = Raced(ly, s, job.race, Settled(job.race, p, Says(job.known)[p], FALSE, Says(job.known)))
    /\ UNCHANGED <<player, truth>>

\* It could not be asked, or its deadline passed.
Fails(s, p) ==
    /\ ly.jobs[s].out /\ ly.jobs[s].race.is[p] = "pending"
    /\ LET job == ly.jobs[s] IN
       ly' = Raced(ly, s, job.race, Settled(job.race, p, "failed", FALSE, Says(job.known)))
    /\ UNCHANGED <<player, truth>>

\* One of its requests failed, and another found another recording's words.
AnswersInPart(s, p) ==
    /\ ly.jobs[s].out /\ ly.jobs[s].race.is[p] = "pending"
    /\ Reach[p] = 3 /\ truth[p].kind = "timed"
    /\ LET job == ly.jobs[s] IN
       ly' = Raced(ly, s, job.race, Settled(job.race, p, "loose", TRUE, Says(job.known)))
    /\ UNCHANGED <<player, truth>>

\* The patience window ends, and the best in hand may be put forward.
PatienceOver(s) ==
    /\ ly.jobs[s].out /\ Patience = "some" /\ ~ly.jobs[s].race.late
    /\ LET job == ly.jobs[s] IN
       ly' = Raced(ly, s, job.race, Evaluated([job.race EXCEPT !.late = TRUE], Says(job.known)))
    /\ UNCHANGED <<player, truth>>

\* A provisional answer has stayed on show for an hour.
Recheck ==
    /\ ly.recheck
    /\ ly' = LET w == [ly EXCEPT !.recheck = FALSE] IN
             IF w.active /\ w.hasStored /\ w.stored.provisional /\ ~w.checking THEN CheckedAgain(w) ELSE w
    /\ UNCHANGED <<player, truth>>

\* A lookup has ended, and the queue's next may start.
Tick(metered) ==
    /\ ly.tick
    /\ ly' = QueueFollowed([ly EXCEPT !.tick = FALSE], player, metered)
    /\ UNCHANGED <<player, truth>>

\* Ten minutes on, the queue may ask again about what was not settled.
TriedLongAgo ==
    /\ ly.tried # {}
    /\ ly' = [ly EXCEPT !.tried = {}]
    /\ UNCHANGED <<player, truth>>

\* The program ends, or crashes, and is launched again: soon, days later, or so
\* long after that everything is asked again, whatever the providers have by then.
Relaunch(age) ==
    /\ LET older(row) == IF row.kept THEN [row EXCEPT !.age = IF @ + age > 2 THEN 2 ELSE @ + age] ELSE row IN
       ly' = Fresh([s \in Songs |-> older(ly.rows[s])],
                   [s \in Songs |-> [p \in Providers |-> older(ly.results[s][p])]], ly.background)
    /\ player' = Playing
    /\ truth' \in IF age = 2 THEN Truths ELSE {truth}

Next ==
    \/ \E metered \in BOOLEAN :
          \/ \E s \in Songs \union {NoSong} : QueueMoves(s, metered)
          \/ TrackBegins(metered) \/ SoundStarts(metered) \/ LengthFound(metered)
          \/ SetBackground(metered) \/ Tick(metered)
    \/ PositionMoves \/ SetActive \/ Retry \/ Recheck \/ TriedLongAgo
    \/ \E s \in Songs : \/ PatienceOver(s)
                        \/ \E p \in Providers : Answers(s, p) \/ Fails(s, p) \/ AnswersInPart(s, p)
    \/ \E age \in Launches : Relaunch(age)

Spec == Init /\ [][Next]_vars

\* Each provider asked answers, fails or is past its deadline in the end.
Fairness ==
    \A s \in Songs, p \in Providers : WF_vars(Answers(s, p) \/ Fails(s, p))

-----------------------------------------------------------------------------
(* Properties.                                                             *)

TypeOK ==
    /\ DOMAIN ly.jobs = Songs /\ ly.queueSongs \subseteq Songs /\ ly.tried \subseteq Songs
    /\ ly.song \in Songs \union {NoSong} /\ ly.waits \in Songs \union {NoSong}
    /\ ly.state \in {"idle", "loading", "synced", "plain", "instrumental", "none", "error"}
    /\ \A s \in Songs : ly.jobs[s].out => ly.jobs[s].race.verdict = "open"
    /\ truth \in Truths

\* "Loading", a check and a stand-in on show always have a lookup out behind them,
\* which is the song on show's; a lookup out has somebody to hear from, and
\* somebody who wants it (lyrics.cpp: "calls off every lookup nobody wants").
NobodyWaitsInVain ==
    /\ ly.state = "loading" \/ ly.checking \/ ly.interim => ly.waits # NoSong
    /\ ly.waits # NoSong => ly.waits = ly.song /\ ly.jobs[ly.waits].out
    /\ \A s \in Songs : ly.jobs[s].out =>
          /\ s = ly.waits \/ s \in ly.queueSongs
          /\ \E p \in Providers : ly.jobs[s].race.is[p] = "pending"

\* What is kept for good is what the order means: the best of all the providers
\* have, whoever was first, slow or down (lyricsrace.h: "a fast provider lower
\* down never pre-empts a slower one above it"); and what is kept for good is
\* never given up for a stand-in.
OnlyTheBestIsKept ==
    \A s \in Listed :
        LET was == ly.rows[s]
            is == ly'.rows[s]
            best == BestSaid(Preferred, Says(TRUE))
            forGood(row) == row.kept /\ ~row.answer.provisional
        IN  /\ forGood(is) /\ ~(was.kept /\ SameWords(was.answer, is.answer)) =>
                  /\ is.answer.by = best
                  /\ best # Nobody => is.answer.kind = Says(TRUE)[best]
            /\ forGood(was) /\ Words(was.answer) => forGood(is) /\ Words(is.answer)

\* Lines being read are only ever replaced by a better kind of lyrics, or by what
\* asking again about kept ones found; nothing that fails takes them away.
LinesBeingReadStay ==
    /\ ly.state \in {"synced", "plain"} /\ ReadingAlong(ly)
    /\ ly'.active /\ ly'.song = ly.song
    => /\ ly'.state \in {"synced", "plain", "instrumental"}
       /\ \/ SameWords(ly'.stored, ly.stored)
          \/ ly.checking \/ ly.stored.provisional
          \/ Rank(ly'.stored.kind) > Rank(ly.stored.kind)

\* The view stops looking: every race is decided, called off or left.
LoadingEnds == ly.state = "loading" ~> ly.state # "loading"
=============================================================================
