---------------------------- MODULE StreamLadder ----------------------------
(***************************************************************************)
(* StreamResolver's walks down its rungs (streamresolver.cpp): one walk a  *)
(* song, for a listener who waits or ahead of time; one yt-dlp lookup at a *)
(* time between them, a song someone waits for first; the account's rung   *)
(* put into a walk that was refused for want of an account; the twenty     *)
(* seconds a song may take.  The links found, and what JioSaavn offers,    *)
(* are in Rescue.  yt-dlp is installed, ytdlp.resolves is at its default,  *)
(* and "Public" is Piped's rung and Invidious's in one.                    *)
(***************************************************************************)
EXTENDS Integers, Sequences, FiniteSets, SequencesExt

CONSTANTS
    Songs,
    NoSong,          \* none of them
    AccountLimit,    \* m_accountLimit
    Deadline,        \* m_deadlineOn
    MaxUses          \* bound above AccountLimit: lookups with the account counted up to here

VARIABLE
    ladder
    \* job       m_jobs: each song's walk
    \* holder    m_ytdlpHolder, whose lookup runs
    \* waiting   m_ytdlpWaiting
    \* pump      a pumpYtDlp is posted to the event loop
    \* armed     m_deadlines
    \* uses      m_accountUses, the lookups of the last hour
    \* account   what YtmSession says: usable for playback, and lends its cookies
    \* asked     the song the controller waits for (m_pendingVideoId)

Ladder == <<"InnerTube", "YtDlp", "Muxed", "Public">>

YtDlpRungs == {"YtDlp", "Muxed", "SignedIn"}

Rungs == Range(Ladder) \cup {"SignedIn"}

AfterRefusal(rung) ==
    CASE rung = "InnerTube" -> <<"Muxed", "YtDlp", "Public">>
      [] rung = "YtDlp"     -> <<"Muxed", "Public">>
      [] rung = "Muxed"     -> <<"YtDlp", "Public">>
      [] rung = "SignedIn"  -> <<"YtDlp", "Muxed", "Public">>
      [] OTHER              -> <<>>

NoJob == [rung |-> "none", next |-> <<>>, ahead |-> FALSE, exact |-> FALSE,
          wanted |-> FALSE, decided |-> FALSE]

Runs(l, s) == l.job[s] # NoJob

\* Someone waits for this song's walk.
Heard(l, s) == Runs(l, s) /\ ~l.job[s].ahead

\* The walk's rung is being asked, and may answer or fail.
Asking(l, s) == Runs(l, s) /\ (l.job[s].rung \in YtDlpRungs => l.holder = s)

-----------------------------------------------------------------------------

\* (slip: the turn let go, and nobody told)
ReleaseQuietly(l, s) ==
    [l EXCEPT !.waiting = SelectSeq(@, LAMBDA w : w # s),
              !.holder = IF @ = s THEN NoSong ELSE @]

\* The next lookup starts on the next turn of the event loop, so that a job on
\* its way to its next rung asks again first.
Release(l, s) ==
    [l EXCEPT !.waiting = SelectSeq(@, LAMBDA w : w # s),
              !.holder = IF @ = s THEN NoSong ELSE @,
              !.pump = @ \/ l.holder = s]

\* (slip: the lookup stopped, and its walk left among the jobs)
DiscardLookup(l, s) == [Release(l, s) EXCEPT !.job[s].rung = "none"]

Discard(l, s) == [Release(l, s) EXCEPT !.job[s] = NoJob]

\* emitResolved, emitFailed: the controller hears, and the deadline is over.
Answered(l, s) ==
    [l EXCEPT !.armed = @ \ {s}, !.asked = IF @ = s THEN NoSong ELSE @]

\* (slip: the lookup stopped, and its song not put back in line)
PreemptForGood(l) == [l EXCEPT !.holder = NoSong]

\* The lookup made ahead of time stops, and waits for its turn again.
Preempt(l) == [l EXCEPT !.holder = NoSong, !.waiting = <<l.holder>> \o @]

Outranks(l, s) == l.holder # NoSong /\ ~l.job[s].ahead /\ l.job[l.holder].ahead

\* Songs someone waits for first, each in the order it asked.
FirstInLine(l) ==
    LET heard == SelectSeq(l.waiting, LAMBDA s : ~l.job[s].ahead)
    IN  IF heard = <<>> THEN Head(l.waiting) ELSE Head(heard)

MayUseAccount(l, s) == ~l.job[s].ahead /\ l.account.usable /\ l.uses < AccountLimit

\* (slip: the account before yt-dlp signed out)
WithAccountFirst(next) == <<"SignedIn">> \o next

\* The account is the last resort: after yt-dlp signed out where that is still
\* to come, next otherwise.
WithAccount(next) ==
    IF Contains(next, "YtDlp")
    THEN LET n == CHOOSE n \in DOMAIN next : next[n] = "YtDlp"
         IN  InsertAt(next, n + 1, "SignedIn")
    ELSE <<"SignedIn">> \o next

\* considerAccount: once a walk, never ahead of time, never in a walk the
\* caller laid out.
Considered(l, s, wanting) ==
    LET job    == l.job[s]
        wanted == job.wanted \/ (wanting /\ job.rung # "SignedIn")
        now    == /\ wanted /\ ~job.decided /\ ~job.ahead /\ ~job.exact
                  /\ ~Contains(job.next, "SignedIn")
    IN  [l EXCEPT !.job[s].wanted = wanted,
                  !.job[s].decided = @ \/ now,
                  !.job[s].next = IF now /\ l.account.usable THEN WithAccount(@) ELSE @]

RECURSIVE Pump(_), Exhausted(_, _, _)

\* (slip: the account lent to a song nobody waits for any more)
MayLaunchAhead(l, s) == l.account.lends

\* launchSignedIn: what may still stop the account's lookup on its turn.
MayLaunch(l, s) == ~l.job[s].ahead /\ l.account.lends

Queue(l, s) ==
    LET q == [l EXCEPT !.waiting = Append(@, s)]
    IN  Pump(IF Outranks(l, s) THEN Preempt(q) ELSE q)

\* startTier.
Enter(l, s, rung) ==
    LET on == [l EXCEPT !.job[s].rung = rung]
    IN  CASE rung \in {"YtDlp", "Muxed"} -> Queue(on, s)
          [] rung = "SignedIn" -> IF MayUseAccount(on, s) THEN Queue(on, s)
                                  ELSE Exhausted(on, s, FALSE)
          [] OTHER -> on

\* tierExhausted: the next rung, or none is left.
Exhausted(l, s, wanting) ==
    LET considered == Considered(Release(l, s), s, wanting)
        next       == considered.job[s].next
    IN  IF next # <<>> THEN Enter([considered EXCEPT !.job[s].next = Tail(next)], s, Head(next))
        ELSE IF l.job[s].ahead THEN Discard(considered, s)
        ELSE Answered(Discard(considered, s), s)

Pump(l) ==
    IF l.holder # NoSong \/ l.waiting = <<>> THEN l
    ELSE LET s    == FirstInLine(l)
             held == [l EXCEPT !.waiting = RemoveFirst(@, s), !.holder = s]
         IN  IF l.job[s].rung # "SignedIn" THEN held
             ELSE IF MayLaunch(l, s) THEN [held EXCEPT !.uses = IF @ < MaxUses THEN @ + 1 ELSE @]
             ELSE Exhausted(held, s, FALSE)

Begin(l, s, rungs, ahead, exact) ==
    LET job == [NoJob EXCEPT !.next = Tail(rungs), !.ahead = ahead, !.exact = exact]
    IN  Enter([l EXCEPT !.job[s] = job], s, Head(rungs))

\* resolve and resolveVia, when no link is remembered: a walk of its own.
Start(l, s, rungs, exact) ==
    LET cleared == Discard(l, s)
    IN  Begin([cleared EXCEPT !.armed = IF Deadline THEN @ \cup {s} ELSE @, !.asked = s],
              s, rungs, FALSE, exact)

\* (slip: a walk taken over keeps its place behind the one running)
TakenOverInTurn(l, s) ==
    [l EXCEPT !.job[s].ahead = FALSE,
              !.armed = IF Deadline THEN @ \cup {s} ELSE @,
              !.asked = s]

\* (slip: the deadline armed only where a walk starts)
TakenOverUnarmed(l, s) ==
    LET mine == [l EXCEPT !.job[s].ahead = FALSE, !.asked = s]
    IN  IF Contains(l.waiting, s) /\ Outranks(mine, s) THEN Pump(Preempt(mine)) ELSE mine

\* resolve, when the song's walk is under way ahead of time.
TakenOver(l, s) ==
    LET mine == [l EXCEPT !.job[s].ahead = FALSE,
                          !.armed = IF Deadline THEN @ \cup {s} ELSE @,
                          !.asked = s]
    IN  IF Contains(l.waiting, s) /\ Outranks(mine, s) THEN Pump(Preempt(mine)) ELSE mine

\* cancel, as the controller calls it for the song it stops waiting for.
Left(l) ==
    IF l.asked = NoSong THEN l ELSE Answered(Discard(l, l.asked), l.asked)

-----------------------------------------------------------------------------

Init ==
    ladder = [job     |-> [s \in Songs |-> NoJob],
              holder  |-> NoSong,
              waiting |-> <<>>,
              pump    |-> FALSE,
              armed   |-> {},
              uses    |-> 0,
              account |-> [usable |-> FALSE, lends |-> FALSE],
              asked   |-> NoSong]

\* A song begins: resolve, from the top.
Resolve(s) ==
    LET l == Left(ladder)
    IN  ladder' = IF Runs(l, s) /\ l.job[s].ahead THEN TakenOver(l, s)
                  ELSE Start(l, s, Ladder, FALSE)

\* mpv refused the link from `rung`: resolveVia, that rung again or not.
ResolveVia(s, rung, again) ==
    LET rungs == (IF again THEN <<rung>> ELSE <<>>) \o AfterRefusal(rung)
    IN  /\ ladder.asked = NoSong
        /\ rungs # <<>>
        /\ ladder' = Start(ladder, s, rungs, TRUE)

Prefetch(s) ==
    /\ ~Runs(ladder, s)
    /\ ladder' = Begin(ladder, s, Ladder, TRUE, FALSE)

\* The listener goes to a song that needs no link.
Cancel ==
    /\ ladder.asked # NoSong
    /\ ladder' = Left(ladder)

Succeed(s) ==
    /\ Asking(ladder, s)
    /\ ladder' = IF ladder.job[s].ahead THEN Discard(ladder, s)
                 ELSE Answered(Discard(ladder, s), s)

\* The rung fails or times out; what it says may ask for an account.
Fail(s, wanting) ==
    /\ Asking(ladder, s)
    /\ ladder' = Exhausted(ladder, s, wanting)

PumpPosted ==
    /\ ladder.pump
    /\ ladder' = Pump([ladder EXCEPT !.pump = FALSE])

\* JioSaavn won the song's race, which only a walk from the top is in.
CarryOnUnheard(s) ==
    /\ ladder.asked = s /\ Heard(ladder, s) /\ ~ladder.job[s].exact
    /\ ladder' = Answered([ladder EXCEPT !.job[s].ahead = TRUE], s)

DeadlinePassed(s) ==
    /\ s \in ladder.armed
    /\ ladder' = IF Heard(ladder, s) THEN Answered(Discard(ladder, s), s)
                 ELSE [ladder EXCEPT !.armed = @ \ {s}]

RECURSIVE Stopped(_)

Stopped(l) ==
    LET on == {s \in Songs : l.job[s].rung = "SignedIn"}
    IN  IF on = {} THEN {l} ELSE UNION {Stopped(Exhausted(l, s, FALSE)) : s \in on}

\* accountChanged: a lookup with an account that may no longer be used stops.
\* (m_jobs is a hash: in any order.)
AccountChanged(account) ==
    /\ account # ladder.account
    /\ account.lends => account.usable
    /\ LET l == [ladder EXCEPT !.account = account]
       IN  ladder' \in IF account.usable THEN {l} ELSE Stopped(l)

HourPasses ==
    /\ ladder.uses > 0
    /\ ladder' = [ladder EXCEPT !.uses = @ - 1]

Next ==
    \/ \E s \in Songs :
          \/ Resolve(s)
          \/ \E rung \in Rungs : \E again \in BOOLEAN : ResolveVia(s, rung, again)
          \/ Prefetch(s)
          \/ Succeed(s)
          \/ \E wanting \in BOOLEAN : Fail(s, wanting)
          \/ CarryOnUnheard(s)
          \/ DeadlinePassed(s)
    \/ Cancel
    \/ PumpPosted
    \/ \E account \in [usable : BOOLEAN, lends : BOOLEAN] : AccountChanged(account)
    \/ HourPasses

Spec == Init /\ [][Next]_ladder

\* Every rung has a time limit of its own, and the event loop runs.
Fairness ==
    /\ \A s \in Songs : WF_ladder(Succeed(s) \/ \E wanting \in BOOLEAN : Fail(s, wanting))
    /\ WF_ladder(PumpPosted)

FairSpec == Spec /\ Fairness

-----------------------------------------------------------------------------
(* Properties *)

Job == [rung : Rungs \cup {"none"}, next : Seq(Rungs), ahead : BOOLEAN,
        exact : BOOLEAN, wanted : BOOLEAN, decided : BOOLEAN]

\* The members have their types, and a walk under way stands on a rung.
TypeOK ==
    /\ \A s \in Songs : ladder.job[s] \in Job
    /\ \A s \in Songs : ladder.job[s].rung = "none" => ladder.job[s] = NoJob
    /\ ladder.holder \in Songs \cup {NoSong}
    /\ ladder.waiting \in Seq(Songs)
    /\ ladder.pump \in BOOLEAN
    /\ ladder.armed \subseteq Songs
    /\ ladder.uses \in Nat
    /\ ladder.account \in [usable : BOOLEAN, lends : BOOLEAN]
    /\ ladder.asked \in Songs \cup {NoSong}

\* The turn at yt-dlp is never lost: whoever holds it has a lookup running for
\* it, every other walk on one of yt-dlp's rungs is in line once, and while
\* anyone is in line the turn is taken or about to be given.
TurnIsNeverLost ==
    /\ ladder.holder # NoSong => ladder.job[ladder.holder].rung \in YtDlpRungs
    /\ IsInjective(ladder.waiting)
    /\ Range(ladder.waiting) =
           {s \in Songs : ladder.job[s].rung \in YtDlpRungs} \ {ladder.holder}
    /\ ladder.waiting # <<>> => ladder.holder # NoSong \/ ladder.pump

\* "A song someone is waiting for goes first: a prefetch's lookup is stopped
\* for it": whatever is preempted, taken over or carried on unheard, nobody
\* waits behind a lookup made ahead of time.
NobodyWaitsForAPrefetch ==
    \A s \in Range(ladder.waiting) :
        ladder.holder # NoSong /\ ladder.job[ladder.holder].ahead => ladder.job[s].ahead

\* The song the controller waits for is being walked for it, and its deadline
\* runs: nothing forgets it.
AskedIsUnderWay ==
    ladder.asked # NoSong =>
        /\ Heard(ladder, ladder.asked)
        /\ Deadline => ladder.asked \in ladder.armed

\* "Never ahead of time": the account's cookies are lent only for the song the
\* controller waits for at that moment, though it may have stopped waiting
\* while the song stood in line, and come back to it, and stopped again.
AccountIsLentToTheAsked ==
    [][ladder'.uses > ladder.uses =>
          /\ ladder'.holder = ladder'.asked
          /\ Heard(ladder', ladder'.holder)]_ladder

\* A walk from the top comes to the account's rung only once a rung signed out
\* has asked for one, and with yt-dlp signed out behind it.
AccountIsTheLastResort ==
    \A s \in Songs :
        ladder.job[s].rung = "SignedIn" /\ ~ladder.job[s].exact =>
            ladder.job[s].wanted /\ ~Contains(ladder.job[s].next, "YtDlp")

\* The turn at yt-dlp is never lost, nobody waited for waits behind a song looked
\* up ahead of time, and whatever was asked for is under way (StreamResolver's
\* queueYtDlp, pumpYtDlp and resolve).
TurnsGoRound == TurnIsNeverLost /\ NobodyWaitsForAPrefetch /\ AskedIsUnderWay

\* The account is asked only after the rungs that need none, and only for a song
\* somebody waits for (considerAccount, launchSignedIn).
AccountIsHeldBack == []AccountIsTheLastResort /\ AccountIsLentToTheAsked

\* With no deadline at all, and whatever else is fetched, stopped and started
\* beside it: unless songs are asked for for ever, the last one asked for is
\* answered.
Asks == \E s \in Songs : Resolve(s) \/ \E rung \in Rungs, again \in BOOLEAN : ResolveVia(s, rung, again)

AskedIsAnswered == []<><<Asks>>_ladder \/ <>[](ladder.asked = NoSong)
=============================================================================
