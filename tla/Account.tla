------------------------------ MODULE Account ------------------------------
(***************************************************************************)
(* The YouTube Music account (ytmsession.cpp), the guard every call with   *)
(* it goes through (accountguard.cpp), and the calls themselves as         *)
(* InnerTube::send makes them. `acc` holds the session's and the guard's   *)
(* members, the calls waiting for their turn or out, what the settings and *)
(* the secret store keep, and what YouTube has asked for. A session's jar  *)
(* is the number of the newest rotation in it, 0 when there is none.       *)
(*                                                                         *)
(* Hours are units of time. The hourly counts, the bucket and the gap      *)
(* between calls are a choice of the model: any call may be kept waiting,  *)
(* and any refused; and so is the one retry. The generation is in the      *)
(* calls: `live` while the session a call was asked for is held, `mine`    *)
(* while the one it carries is. `owed` and `refusals` are what YouTube     *)
(* asked for, `proved` whether it has confirmed the session held, `top`    *)
(* its newest rotation. Left out: the account's name, what else a session  *)
(* says of itself, and failures of the secret store.                       *)
(***************************************************************************)
EXTENDS Integers, FiniteSets

CONSTANTS Others,       \* what besides the checks is asked with the account
          Longest,      \* the hours of the longest rest, and the refusals counted
          MaxRotations, \* rotations of a session's cookies
          SignIns,      \* imports of a session
          MaxLeft,      \* calls still on their way when a session is imported
          Launches      \* times the program is started

ASSUME AccountAssumption == Longest \in Nat \ {0} /\ MaxRotations \in Nat

VARIABLE acc

States == {"signedOut", "checking", "active", "unreachable", "rejected"}
Checks == {"menu", "home"}

\* A call on its way; `last` when its ticket is the guard's newest, `held` while
\* it was sent less than holdMs ago, `lent` what a lookup was given.
Call(what) ==
    [what |-> what, at |-> "waiting", live |-> TRUE, mine |-> FALSE,
     last |-> FALSE, held |-> FALSE, lent |-> 0, brought |-> 0]

Out(a) == {c \in a.air : c.at = "out"}
Larger(x, y) == IF x > y THEN x ELSE y
Smaller(x, y) == IF x < y THEN x ELSE y

-----------------------------------------------------------------------------
(* The guard.                                                              *)

RestedUnsaved(a, named) ==
    LET trips == Smaller(a.trips + 1, Longest)
        hours == Larger(a.owed, Larger(named, trips))
    IN  [a EXCEPT !.left = hours, !.trips = trips, !.recent = TRUE, !.over = FALSE, !.busy = "free",
                  !.refusals = trips, !.owed = hours]

\* trip: YouTube says to slow down, for `named` hours when it names them.
Rested(a, named) ==
    LET known == a.left > 0 /\ a.recent /\ a.trips > 0
        trips == Smaller(a.trips + 1, Longest)
        left == Larger(a.left, IF known THEN named ELSE Larger(trips, named))
        refusals == Smaller(a.refusals + 1, Longest)
    IN  IF known
        THEN [a EXCEPT !.left = left, !.keptLeft = IF left > a.left THEN left ELSE @,
                       !.owed = Larger(@, named)]
        ELSE [a EXCEPT !.left = left, !.trips = trips, !.recent = TRUE, !.over = FALSE, !.busy = "free",
                       !.keptLeft = left, !.keptTrips = trips,
                       !.refusals = refusals, !.owed = Larger(@, Larger(refusals, named))]

\* resumed, and the session told of it: a check says it again first.
Resumed(a) ==
    IF ~a.over THEN a
    ELSE [a EXCEPT !.over = FALSE, !.needs = @ \/ a.jar > 0, !.timer = @ \/ a.jar > 0]

\* started.
Sent(a, c) ==
    [a EXCEPT !.busy = "held",
              !.air = {[d EXCEPT !.last = FALSE] : d \in @ \ {c}} \union
                      {[c EXCEPT !.at = "out", !.mine = TRUE, !.last = TRUE, !.held = TRUE]}]

FreedAnyway(a, c) == [a EXCEPT !.busy = "free"]

\* finished: it frees the turn only when the turn is still its own.
Freed(a, c) == [a EXCEPT !.busy = IF c.last THEN "free" ELSE @]

-----------------------------------------------------------------------------
(* The session.                                                            *)

\* What signOut, reject and an import do alike: nothing under way is this one's.
Ended(a) ==
    [a EXCEPT !.jar = 0, !.checking = FALSE, !.menu = "none", !.home = "none", !.timer = FALSE,
              !.needs = FALSE, !.zeroes = 0, !.dirty = FALSE, !.proved = FALSE,
              !.air = {[c EXCEPT !.live = FALSE, !.mine = FALSE, !.lent = 0, !.brought = 0] : c \in @}]

Rejected(a) == [Ended(a) EXCEPT !.state = "rejected", !.keptAt = 0]

\* check
Checked(a) ==
    IF a.jar = 0 \/ a.checking THEN a
    ELSE IF a.left > 0 THEN [a EXCEPT !.timer = TRUE]
    ELSE [a EXCEPT !.timer = FALSE, !.checking = TRUE, !.menu = "none", !.home = "none",
                   !.state = IF @ = "active" THEN @ ELSE "checking",
                   !.air = @ \union {Call("menu"), Call("home")}]

\* doubt: at most one in ten minutes.
Doubted(a) ==
    IF a.jar = 0 \/ a.doubted THEN a
    ELSE Checked([a EXCEPT !.doubted = TRUE, !.needs = TRUE])

AbsorbedUnsaved(a, at) == [a EXCEPT !.jar = at]

\* absorbCookies
Absorbed(a, at) == IF at = a.jar THEN a ELSE [a EXCEPT !.jar = at, !.dirty = TRUE]

\* checkFinished: the feed's word is taken over the menu's.
Verdict(a) ==
    LET b == [a EXCEPT !.checking = FALSE, !.menu = "none", !.home = "none"]
    IN  IF a.home = "in" \/ (a.home = "nothing" /\ a.menu = "named")
        THEN [b EXCEPT !.zeroes = 0, !.needs = FALSE, !.state = "active", !.timer = TRUE]
        ELSE IF a.home = "out"
        THEN IF a.zeroes = 1 THEN Rejected(b) ELSE [b EXCEPT !.zeroes = 1, !.timer = TRUE]
        ELSE [b EXCEPT !.timer = TRUE, !.state = IF @ = "active" THEN @ ELSE "unreachable"]

ToldAnyway(a, c, said) ==
    LET b == [a EXCEPT !.air = @ \ {c}, !.menu = IF c.what = "menu" THEN said ELSE @,
                       !.home = IF c.what = "home" THEN said ELSE @]
    IN  IF b.checking /\ b.menu # "none" /\ b.home # "none" THEN Verdict(b) ELSE b

\* A call's caller is told; a check that is no longer the current one is not heard.
Told(a, c, said) ==
    LET b == [a EXCEPT !.air = @ \ {c},
                       !.menu = IF c.live /\ c.what = "menu" THEN said ELSE @,
                       !.home = IF c.live /\ c.what = "home" THEN said ELSE @]
    IN  IF b.checking /\ b.menu # "none" /\ b.home # "none" THEN Verdict(b) ELSE b

-----------------------------------------------------------------------------
(* The program is started, quit and killed.                                *)

Down(a) ==
    [Ended(a) EXCEPT !.up = FALSE, !.state = "signedOut", !.doubted = FALSE, !.busy = "free",
                     !.left = 0, !.over = FALSE, !.trips = 0, !.air = {}]

Blank ==
    [up |-> FALSE, state |-> "signedOut", jar |-> 0, checking |-> FALSE, menu |-> "none", home |-> "none",
     timer |-> FALSE, needs |-> FALSE, zeroes |-> 0, doubted |-> FALSE, dirty |-> FALSE,
     left |-> 0, over |-> FALSE, trips |-> 0, recent |-> FALSE, busy |-> "free", air |-> {},
     keptLeft |-> 0, keptTrips |-> 0, keptAt |-> 0,
     owed |-> 0, refusals |-> 0, proved |-> FALSE, top |-> 1, signIns |-> 0, launches |-> 0]

Init == acc \in {Blank, [Blank EXCEPT !.keptAt = 1]}

\* The constructor and start: a rest told is taken up where it was, and a session
\* kept is believed only once checked.
Launch ==
    /\ ~acc.up /\ acc.launches < Launches
    /\ acc' = [acc EXCEPT !.up = TRUE, !.launches = @ + 1, !.left = acc.keptLeft, !.trips = acc.keptTrips,
                          !.jar = acc.keptAt, !.timer = acc.keptAt > 0,
                          !.state = IF acc.keptAt > 0 THEN "checking" ELSE "signedOut"]

Quit == acc.up /\ acc' = Down([acc EXCEPT !.keptAt = IF acc.dirty THEN acc.jar ELSE @])

Crash == acc.up /\ acc' = Down(acc)

-----------------------------------------------------------------------------
(* The listener, and the timers.                                           *)

SignIn ==
    /\ acc.up /\ acc.signIns < SignIns /\ Cardinality(acc.air) <= MaxLeft
    /\ acc' = Checked([Ended(acc) EXCEPT !.jar = 1, !.keptAt = 1, !.doubted = FALSE,
                                         !.state = "checking", !.top = 1, !.signIns = @ + 1])

SignOut ==
    /\ acc.up /\ acc.jar > 0
    /\ acc' = [Ended(acc) EXCEPT !.state = "signedOut", !.keptAt = 0]

CheckNow == acc.up /\ acc.jar > 0 /\ acc' = Checked(acc)

CheckDue == acc.timer /\ acc' = Checked([acc EXCEPT !.timer = FALSE])

SaveDue == acc.dirty /\ acc' = [acc EXCEPT !.dirty = FALSE, !.keptAt = acc.jar]

RestEnds == acc.over /\ acc' = Resumed(acc)

\* Time passes: a call may outlive its turn, a refusal a minute, a doubt ten
\* minutes, a rest some hours; and a refusal is forgotten. An hour may pass in
\* one step, for the computer sleeps too.
OutlivesTurn ==
    /\ acc.busy = "held"
    /\ acc' = [acc EXCEPT !.busy = "late", !.air = {[c EXCEPT !.held = FALSE] : c \in @}]

Later(a) ==
    [a EXCEPT !.busy = IF @ = "held" THEN "late" ELSE @, !.recent = FALSE,
              !.air = {[c EXCEPT !.held = FALSE] : c \in @}]

MinutePasses == acc.recent /\ acc' = Later(acc)

TenMinutesPass == acc.doubted /\ acc' = [Later(acc) EXCEPT !.doubted = FALSE]

HourPasses ==
    /\ acc.left + acc.keptLeft > 0
    /\ acc' = [Later(acc) EXCEPT !.doubted = FALSE, !.left = Larger(@ - 1, 0), !.over = @ \/ acc.left = 1,
                                 !.keptLeft = Larger(@ - 1, 0), !.owed = Larger(@ - 1, 0)]

RefusalForgotten ==
    /\ acc.refusals > (IF acc.owed > 0 THEN 1 ELSE 0) /\ ~acc.recent
    /\ acc' = [acc EXCEPT !.refusals = @ - 1, !.trips = Larger(@ - 1, 0), !.keptTrips = Larger(@ - 1, 0)]

-----------------------------------------------------------------------------
(* The calls.                                                              *)

\* Home's feed (IfSignedIn) and a listen's address (Required) are asked for.
Ask(what) ==
    /\ what \in Others
    /\ acc.up /\ acc.jar > 0 /\ acc.state = "active" /\ acc.left = 0 /\ ~acc.needs
    /\ \A c \in acc.air : c.what \in Checks
    /\ acc' = [acc EXCEPT !.air = @ \union {Call(what)}]

Feed == Ask("feed")
Listen == Ask("track")

\* Whether the call would carry the account, and whether the session lets it.
Carries(c) == acc.jar > 0 /\ (c.what \in Checks \/ acc.state = "active")
Withheld(c) == acc.needs /\ c.what \notin Checks

\* A call whose turn never comes: the feed goes signed out, a check hears nothing.
TurnRefused(c) ==
    /\ c.at = "waiting"
    /\ LET a == IF Carries(c) /\ ~Withheld(c) THEN Resumed(acc) ELSE acc
       IN  acc' = IF Carries(c) /\ c.what \in Checks
                  THEN [a EXCEPT !.air = (@ \ {c}) \union {[c EXCEPT !.at = "refused"]}]
                  ELSE [a EXCEPT !.air = @ \ {c}]

TurnPutOff(c) ==
    /\ c.at = "waiting" /\ Carries(c) /\ ~Withheld(c) /\ acc.over
    /\ acc' = Resumed(acc)

TurnComes(c) ==
    /\ c.at = "waiting" /\ Carries(c) /\ ~Withheld(c)
    /\ acc.left = 0 /\ acc.busy # "held"
    /\ acc' = Sent(Resumed(acc), c)

RefusalTold(c) == c.at = "refused" /\ acc' = Told(acc, c, "nothing")

\* YouTube gives the session new cookies, in an answer that is still on its way.
Rotates(c) ==
    /\ c.at = "out" /\ c.mine /\ c.brought = 0 /\ acc.top <= MaxRotations
    /\ acc' = [acc EXCEPT !.top = @ + 1, !.air = (@ \ {c}) \union {[c EXCEPT !.brought = acc.top + 1]}]

\* An answer of InnerTube's, as far as the guard and the jar go; "slow" is a 429, a
\* bot check or Google's page of unusual traffic.
Heard(c, said, named) ==
    LET a == Freed(acc, c)
        b == IF said \in {"403", "slow"} THEN Rested(a, named) ELSE a
    IN  IF c.mine /\ c.brought > 0 THEN Absorbed(b, c.brought) ELSE b

Refused(a, c, said) ==
    IF ~c.mine \/ c.what = "report" THEN a
    ELSE IF said = "401" /\ c.what # "track" THEN Rejected(a)
    ELSE IF said \in {"401", "403"} THEN Doubted(a)
    ELSE a

Payload(c) ==
    CASE c.what = "menu" -> {"named", "nothing"}
      [] c.what = "home" -> {"in", "out", "nothing"}
      [] OTHER -> {"in", "nothing"}

Again(c) == IF c.what \in Checks \union {"feed"} THEN {"again"} ELSE {}

Answers(c) ==
    /\ c.at = "out" /\ c.what # "lookup"
    /\ \E said \in Payload(c) \union Again(c) \union {"401", "403", "slow"} :
       \E named \in IF said \in {"403", "slow"} THEN {0, Longest} ELSE {0} :
        LET a == Heard(c, said, named)
            b == [a EXCEPT !.air = @ \ {c}, !.proved = @ \/ (c.mine /\ said \in {"in", "named"})]
            refused == Refused(b, c, said)
        IN  acc' = IF said = "again"
                   THEN [b EXCEPT !.air = @ \union {[Call(c.what) EXCEPT !.live = c.live]}]
                   ELSE IF c.what \in Checks
                   THEN Told(refused, [c EXCEPT !.live = @ /\ refused.jar > 0],
                             IF said \in Payload(c) THEN said ELSE "nothing")
                   ELSE IF c.what = "track" /\ said = "in" /\ c.live
                   THEN [b EXCEPT !.air = @ \union {Call("report")}]
                   ELSE refused

\* openCookieFile: a lookup of yt-dlp's takes its turn now or not at all.
Lend ==
    /\ "lookup" \in Others
    /\ acc.up /\ acc.jar > 0 /\ acc.state = "active" /\ acc.left = 0 /\ ~acc.needs
    /\ acc.busy # "held"
    /\ \A c \in acc.air : c.what \in Checks
    /\ acc' = Sent(Resumed(acc), [Call("lookup") EXCEPT !.lent = acc.jar])

\* closeCookieFile: what yt-dlp changed of what it was lent is taken over, for the
\* session it was lent of; and checkAccountWarning, which asks not whose it was.
GivenBack(c) == IF c.brought > 0 THEN c.brought ELSE c.lent

ReturnedOver(a, c) == IF c.mine THEN Absorbed(a, GivenBack(c)) ELSE a

Returned(a, c) ==
    IF c.mine /\ GivenBack(c) # c.lent THEN Absorbed(a, GivenBack(c)) ELSE a

LookupEnds(c) ==
    /\ c.at = "out" /\ c.what = "lookup"
    /\ LET a == [Freed(acc, c) EXCEPT !.air = @ \ {c}]
           closed == {a, Returned(a, c)} \union (IF c.mine THEN {Doubted(a)} ELSE {})
           warned == closed \union {Doubted(b) : b \in closed}
       IN  acc' \in warned \union {Rested(b, 0) : b \in warned}

CallSteps(c) ==
    \/ TurnRefused(c) \/ TurnPutOff(c) \/ TurnComes(c) \/ RefusalTold(c)
    \/ Rotates(c) \/ Answers(c) \/ LookupEnds(c)

Next ==
    \/ Launch \/ Quit \/ Crash \/ SignIn \/ SignOut \/ CheckNow
    \/ CheckDue \/ SaveDue \/ RestEnds
    \/ OutlivesTurn \/ MinutePasses \/ TenMinutesPass \/ HourPasses \/ RefusalForgotten
    \/ Feed \/ Listen \/ Lend
    \/ \E c \in acc.air : CallSteps(c)

Spec == Init /\ [][Next]_acc

-----------------------------------------------------------------------------
(* Properties.                                                             *)

\* The shape of the state.
TypeOK ==
    /\ acc.state \in States /\ acc.jar \in 0..(MaxRotations + 1) /\ acc.busy \in {"free", "held", "late"}
    /\ acc.menu \in {"none", "named", "nothing"} /\ acc.home \in {"none", "in", "out", "nothing"}
    /\ {acc.left, acc.trips, acc.keptLeft, acc.keptTrips, acc.owed, acc.refusals} \subseteq 0..Longest
    /\ \A c \in acc.air : c.what \in Checks \union {"feed", "track", "report", "lookup"}

\* The account never has two calls in flight, but for one that has outlived its
\* turn, whose end frees nobody else's (accountguard.cpp's tickets).
OneAtATime == Cardinality({c \in Out(acc) : c.held}) <= 1

\* While YouTube is owed a rest nothing leaves with the account, whatever order
\* answers come in and however often the program is started (accountguard.cpp).
RestIsKept == Cardinality(Out(acc')) > Cardinality(Out(acc)) => acc.owed = 0

\* A session is used only once YouTube has told this very session it is signed
\* in; one held is always being checked, each answer missing a call still on its
\* way, or a check of it is due (ytmsession.cpp's check and checkFinished).
SessionIsChecked ==
    /\ acc.state = "active" => acc.jar > 0 /\ acc.proved
    /\ acc.jar > 0 => acc.timer \/ acc.checking
    /\ acc.checking =>
        /\ acc.menu = "none" <=> \E c \in acc.air : c.live /\ c.what = "menu"
        /\ acc.home = "none" <=> \E c \in acc.air : c.live /\ c.what = "home"

\* What the secret store holds is the session held, or what it was before
\* rotations a save is due for; and nothing once there is none.
StoredIsHeld ==
    acc.up => IF acc.jar = 0 THEN acc.keptAt = 0 ELSE acc.keptAt > 0 /\ (acc.keptAt = acc.jar \/ acc.dirty)

\* An answer changes the session's cookies only to what it was given itself, and
\* only those of the session it carried: cookies rotated since are not put back
\* by a lookup handing back what it was lent, nor by a session signed out of.
CookiesAreTheNewest ==
    \A c \in Out(acc) \ Out(acc') :
        \/ acc'.signIns # acc.signIns
        \/ acc'.jar \in {0, acc.jar} \union (IF c.mine THEN {c.brought} ELSE {})

\* One call at a time, and none during a rest YouTube is owed: AccountGuard's promise
\* to whoever asks with the account (accountguard.cpp's admit, finished and trip).
AccountIsSpared == []OneAtATime /\ [][RestIsKept]_acc

\* The session held is confirmed before it is used, always being checked, stored as it
\* is, and touched by no answer to another (ytmsession.cpp).
SessionIsItsOwn == [](SessionIsChecked /\ StoredIsHeld) /\ [][CookiesAreTheNewest]_acc
=============================================================================
