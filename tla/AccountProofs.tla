--------------------------- MODULE AccountProofs ---------------------------
(***************************************************************************)
(* For every length of rest and every number of rotations: the account has *)
(* one call at a time and none in a rest that is owed, and a session is    *)
(* confirmed before it is used, always being checked, stored as it is and  *)
(* touched by no answer to another.                                        *)
(*                                                                         *)
(* Handlers run several of the guard's and the session's functions one     *)
(* after the other, and what holds of the state between two of them is not *)
(* what holds of it at rest: a call that has been answered is no longer on *)
(* its way, but whoever asked has not been told.  `Mid` is the invariant   *)
(* with the calls named apart - those that may hold the turn, and those    *)
(* that somebody waits for - and each function has a lemma about it.       *)
(***************************************************************************)
EXTENDS Account, FiniteSetTheorems, FunctionTheorems, TLAPS

-----------------------------------------------------------------------------
(* Types *)

Hours == 0 .. Longest
Jars == 0 .. MaxRotations + 1

Calls == [what : Checks \union {"feed", "track", "report", "lookup"},
          at : {"waiting", "out", "refused"}, live : BOOLEAN, mine : BOOLEAN,
          last : BOOLEAN, held : BOOLEAN, lent : Jars, brought : Jars]

Accounts ==
    [up : BOOLEAN, state : States, jar : Jars, checking : BOOLEAN,
     menu : {"none", "named", "nothing"}, home : {"none", "in", "out", "nothing"},
     timer : BOOLEAN, needs : BOOLEAN, zeroes : {0, 1}, doubted : BOOLEAN, dirty : BOOLEAN,
     left : Hours, over : BOOLEAN, trips : Hours, recent : BOOLEAN, busy : {"free", "held", "late"},
     air : SUBSET Calls, keptLeft : Hours, keptTrips : Hours, keptAt : Jars,
     owed : Hours, refusals : Hours, proved : BOOLEAN, top : Jars, signIns : Nat, launches : Nat]

-----------------------------------------------------------------------------
(* The invariant *)

\* A call that holds the turn is the newest, and keeps others out: the guard is
\* busy, or rests until no call holds it any more.
Turn(a, T) ==
    /\ \A c \in T : c.held => c.last /\ c.at = "out" /\ (a.busy = "held" \/ a.left > 0)
    /\ \A c, d \in T : c.last /\ d.last => c = d
    /\ T # {} => a.up

\* The rest told of covers the rest owed, and the refusals counted those there
\* were, in the settings and, while the program is up, in the guard.
Owing(a) ==
    /\ a.owed <= a.keptLeft /\ a.refusals <= a.keptTrips
    /\ a.up => a.left = a.keptLeft /\ a.trips = a.keptTrips

Waited(S, what) == {c \in S : c.live /\ c.what = what}

\* A check under way misses exactly the answers of the calls waited for, and what
\* it was told of a session in use YouTube has said.
Checking(a, S) ==
    /\ \A c \in Waited(S, "menu") : a.checking /\ a.menu = "none"
    /\ \A c \in Waited(S, "home") : a.checking /\ a.home = "none"
    /\ \A c, d \in Waited(S, "menu") : c = d
    /\ \A c, d \in Waited(S, "home") : c = d
    /\ a.checking /\ a.menu = "none" => Waited(S, "menu") # {}
    /\ a.checking /\ a.home = "none" => Waited(S, "home") # {}
    /\ a.checking /\ (a.menu = "named" \/ a.home = "in") => a.proved

\* A call out for the session held carries it, and there is one for it to carry.
Owned(a, S) ==
    /\ \A c \in S : c.at = "out" /\ c.live => c.mine
    /\ \A c \in S : c.mine => a.jar > 0

Believed(a) ==
    /\ a.state = "active" => a.jar > 0 /\ a.proved
    /\ a.jar > 0 => a.up
    /\ a.checking => a.jar > 0

Stored(a) ==
    a.up => IF a.jar = 0 THEN a.keptAt = 0 ELSE a.keptAt > 0 /\ (a.keptAt = a.jar \/ a.dirty)

Mid(a, T, S) ==
    /\ a \in Accounts
    /\ Turn(a, T) /\ Owing(a)
    /\ Checking(a, S) /\ Owned(a, S) /\ Believed(a) /\ Stored(a)

\* A session held is being checked, or due to be; a check told everything is over.
Watched(a) == a.jar > 0 => a.timer \/ a.checking
Unfinished(a) == a.checking => a.menu = "none" \/ a.home = "none"

Sound(a) == IsFiniteSet(a.air) /\ Mid(a, a.air, a.air) /\ Watched(a) /\ Unfinished(a)

-----------------------------------------------------------------------------
(* What leaves the guard's part, or the session's, as it was *)

SameGuard(a, b) ==
    /\ b.up = a.up /\ b.left = a.left /\ b.trips = a.trips /\ b.busy = a.busy
    /\ b.keptLeft = a.keptLeft /\ b.keptTrips = a.keptTrips
    /\ b.owed = a.owed /\ b.refusals = a.refusals

SameSession(a, b) ==
    /\ b.up = a.up /\ b.state = a.state /\ b.jar = a.jar /\ b.checking = a.checking
    /\ b.menu = a.menu /\ b.home = a.home /\ b.proved = a.proved
    /\ b.dirty = a.dirty /\ b.keptAt = a.keptAt
    /\ a.timer => b.timer

LEMMA GuardKeeps ==
    ASSUME NEW a, NEW b, SameGuard(a, b)
    PROVE  /\ Owing(a) => Owing(b)
           /\ \A T : Turn(a, T) => Turn(b, T)
BY DEF SameGuard, Owing, Turn

LEMMA SessionKeeps ==
    ASSUME NEW a, NEW b, SameSession(a, b)
    PROVE  /\ Believed(a) => Believed(b)
           /\ Stored(a) => Stored(b)
           /\ Watched(a) => Watched(b)
           /\ Unfinished(a) => Unfinished(b)
           /\ \A S : Checking(a, S) => Checking(b, S)
           /\ \A S : Owned(a, S) => Owned(b, S)
<1>1. /\ Believed(a) => Believed(b)
      /\ Stored(a) => Stored(b)
      /\ Watched(a) => Watched(b)
      /\ Unfinished(a) => Unfinished(b)
  BY DEF SameSession, Believed, Stored, Watched, Unfinished
<1>2. ASSUME NEW S PROVE Checking(a, S) => Checking(b, S)
  BY DEF SameSession, Checking
<1>3. ASSUME NEW S PROVE Owned(a, S) => Owned(b, S)
  BY DEF SameSession, Owned
<1> QED
  BY <1>1, <1>2, <1>3

LEMMA SameKeeps ==
    ASSUME NEW a, NEW b \in Accounts, SameGuard(a, b), SameSession(a, b)
    PROVE  /\ \A T, S : Mid(a, T, S) => Mid(b, T, S)
           /\ Watched(a) => Watched(b)
           /\ Unfinished(a) => Unfinished(b)
BY GuardKeeps, SessionKeeps DEF Mid

-----------------------------------------------------------------------------
(* The calls on their way *)

LEMMA NumbersAre ==
    /\ Longest \in Nat \ {0} /\ Longest \in Hours /\ 0 \in Hours /\ 1 \in Hours
    /\ MaxRotations \in Nat /\ 0 \in Jars /\ 1 \in Jars
    /\ \A h \in Hours : h \in Nat /\ h <= Longest
    /\ \A j \in Jars : j \in Nat
BY AccountAssumption DEF Hours, Jars

LEMMA CallIs ==
    ASSUME NEW what \in Checks \union {"feed", "track", "report", "lookup"}
    PROVE  /\ Call(what) \in Calls
           /\ Call(what).what = what /\ Call(what).at = "waiting" /\ Call(what).live = TRUE
           /\ Call(what).mine = FALSE /\ Call(what).last = FALSE /\ Call(what).held = FALSE
           /\ Call(what).lent = 0 /\ Call(what).brought = 0
BY NumbersAre DEF Call, Calls

\* Calls taken away, or changed each, are no more of them out.
LEMMA FewerOut ==
    ASSUME NEW a, NEW b, IsFiniteSet(a.air), NEW f, f = [c \in Out(a) |-> f[c]],
           \A d \in Out(b) : \E c \in Out(a) : d = f[c]
    PROVE  Cardinality(Out(b)) <= Cardinality(Out(a))
<1>1. IsFiniteSet(Out(a))
  <2>1. Out(a) \in SUBSET a.air
    BY DEF Out
  <2> QED
    BY <2>1, FS_Subset
<1> DEFINE R == {f[c] : c \in Out(a)}
<1>2. f \in Surjection(Out(a), R)
  BY DEF Surjection
<1>3. IsFiniteSet(R) /\ Cardinality(R) <= Cardinality(Out(a))
  BY <1>1, <1>2, FS_Surjection
<1>4. Out(b) \in SUBSET R
  OBVIOUS
<1>5. IsFiniteSet(Out(b)) /\ Cardinality(Out(b)) <= Cardinality(R)
  BY <1>3, <1>4, FS_Subset
<1>6. Cardinality(Out(a)) \in Nat /\ Cardinality(R) \in Nat /\ Cardinality(Out(b)) \in Nat
  BY <1>1, <1>3, <1>5, FS_CardinalityType
<1> QED
  BY <1>3, <1>5, <1>6

LEMMA NoneAddedOut ==
    ASSUME NEW a, NEW b, IsFiniteSet(a.air), Out(b) \subseteq Out(a)
    PROVE  Cardinality(Out(b)) <= Cardinality(Out(a))
<1> DEFINE f == [c \in Out(a) |-> c]
<1>1. f = [c \in Out(a) |-> f[c]] /\ \A d \in Out(b) : \E c \in Out(a) : d = f[c]
  OBVIOUS
<1> HIDE DEF f
<1> QED
  BY <1>1, FewerOut

-----------------------------------------------------------------------------
(* The guard's functions *)

\* A rest told of makes no rest shorter, whichever way it is counted.
LEMMA RestedIs ==
    ASSUME NEW a \in Accounts, NEW named \in Hours
    PROVE  LET b == Rested(a, named) IN
           /\ b \in Accounts /\ SameSession(a, b)
           /\ b.air = a.air /\ b.signIns = a.signIns
           /\ Owing(a) /\ a.up => Owing(b)
           /\ \A T : Turn(a, T) => Turn(b, T)
<1> DEFINE known == a.left > 0 /\ a.recent /\ a.trips > 0
           trips == Smaller(a.trips + 1, Longest)
           left1 == Larger(a.left, named)
           left2 == Larger(a.left, Larger(trips, named))
           refusals == Smaller(a.refusals + 1, Longest)
           kept == IF left1 > a.left THEN left1 ELSE a.keptLeft
           owed1 == Larger(a.owed, named)
           owed2 == Larger(a.owed, Larger(refusals, named))
           b1 == [a EXCEPT !.left = left1, !.keptLeft = kept, !.owed = owed1]
           b2 == [a EXCEPT !.left = left2, !.trips = trips, !.recent = TRUE, !.over = FALSE, !.busy = "free",
                           !.keptLeft = left2, !.keptTrips = trips, !.refusals = refusals, !.owed = owed2]
           b == Rested(a, named)
<1>1. /\ a.left \in Hours /\ a.trips \in Hours /\ a.refusals \in Hours
      /\ a.owed \in Hours /\ a.keptLeft \in Hours /\ a.keptTrips \in Hours
  BY DEF Accounts
<1>2. /\ a.left \in Nat /\ a.trips \in Nat /\ a.refusals \in Nat
      /\ a.owed \in Nat /\ a.keptLeft \in Nat /\ a.keptTrips \in Nat /\ named \in Nat
  BY <1>1, NumbersAre
<1>3. trips \in Hours /\ refusals \in Hours /\ trips > 0 /\ trips \in Nat /\ refusals \in Nat
  BY <1>1, AccountAssumption DEF Hours, Smaller
<1>4. a.refusals <= a.trips => refusals <= trips
  BY <1>2, NumbersAre DEF Smaller
<1>5. left1 \in Hours /\ left1 \in Nat /\ left1 >= a.left
  BY <1>1, <1>2 DEF Larger
<1>6. left2 \in Hours /\ left2 \in Nat /\ left2 >= a.left /\ left2 >= trips
  BY <1>1, <1>2, <1>3 DEF Larger
<1>7. kept \in Hours /\ owed1 \in Hours /\ owed2 \in Hours
  BY <1>1, <1>2, <1>3, <1>5 DEF Larger
<1>8. a.owed <= a.left /\ a.left = a.keptLeft => owed1 <= kept /\ left1 = kept
  BY <1>2 DEF Larger
<1>9. a.owed <= a.left /\ refusals <= trips => owed2 <= left2
  BY <1>2, <1>3 DEF Larger
<1>10. b = IF known THEN b1 ELSE b2
  BY DEF Rested
<1> HIDE DEF left1, left2, kept, owed1, owed2, trips, refusals, known
<1>11. /\ b1 \in Accounts /\ SameSession(a, b1) /\ b1.air = a.air /\ b1.signIns = a.signIns
       /\ Owing(a) /\ a.up => Owing(b1)
       /\ \A T : Turn(a, T) => Turn(b1, T)
  <2>1. b1 \in Accounts
    BY <1>5, <1>7 DEF Accounts
  <2>2. /\ b1.left = left1 /\ b1.keptLeft = kept /\ b1.owed = owed1 /\ b1.up = a.up /\ b1.busy = a.busy
        /\ b1.trips = a.trips /\ b1.keptTrips = a.keptTrips /\ b1.refusals = a.refusals
        /\ b1.air = a.air /\ b1.signIns = a.signIns
    BY DEF Accounts
  <2>3. SameSession(a, b1)
    BY DEF Accounts, SameSession
  <2> HIDE DEF b1
  <2>4. Owing(a) /\ a.up => Owing(b1)
    BY <1>8, <2>2 DEF Owing
  <2>5. a.left > 0 => left1 > 0
    BY <1>2, <1>5
  <2>6. ASSUME NEW T PROVE Turn(a, T) => Turn(b1, T)
    BY <2>2, <2>5 DEF Turn
  <2> QED
    BY <2>1, <2>2, <2>3, <2>4, <2>6
<1>12. /\ b2 \in Accounts /\ SameSession(a, b2) /\ b2.air = a.air /\ b2.signIns = a.signIns
       /\ Owing(a) /\ a.up => Owing(b2)
       /\ \A T : Turn(a, T) => Turn(b2, T)
  <2>1. b2 \in Accounts
    BY <1>3, <1>6, <1>7 DEF Accounts
  <2>2. /\ b2.left = left2 /\ b2.keptLeft = left2 /\ b2.owed = owed2 /\ b2.up = a.up
        /\ b2.trips = trips /\ b2.keptTrips = trips /\ b2.refusals = refusals
        /\ b2.air = a.air /\ b2.signIns = a.signIns
    BY DEF Accounts
  <2>3. SameSession(a, b2)
    BY DEF Accounts, SameSession
  <2> HIDE DEF b2
  <2>4. Owing(a) /\ a.up => Owing(b2)
    BY <1>4, <1>9, <2>2 DEF Owing
  <2>5. left2 > 0
    BY <1>3, <1>6
  <2>6. ASSUME NEW T PROVE Turn(a, T) => Turn(b2, T)
    BY <2>2, <2>5 DEF Turn
  <2> QED
    BY <2>1, <2>2, <2>3, <2>4, <2>6
<1> HIDE DEF b, b1, b2
<1>13. b = b1 \/ b = b2
  BY <1>10
<1> QED
  BY <1>11, <1>12, <1>13 DEF b

LEMMA ResumedIs ==
    ASSUME NEW a \in Accounts
    PROVE  LET b == Resumed(a) IN
           /\ b \in Accounts /\ SameGuard(a, b) /\ SameSession(a, b)
           /\ b.air = a.air /\ b.signIns = a.signIns
<1> DEFINE needs == a.needs \/ a.jar > 0
           timer == a.timer \/ a.jar > 0
           b == [a EXCEPT !.over = FALSE, !.needs = needs, !.timer = timer]
<1>1. needs \in BOOLEAN /\ timer \in BOOLEAN /\ (a.timer => timer)
  OBVIOUS
<1>2. Resumed(a) = IF ~a.over THEN a ELSE b
  BY DEF Resumed
<1> HIDE DEF needs, timer
<1>3. b \in Accounts
  BY <1>1 DEF Accounts
<1>4. SameGuard(a, b) /\ b.air = a.air /\ b.signIns = a.signIns
  BY DEF Accounts, SameGuard
<1>5. SameSession(a, b)
  BY <1>1 DEF Accounts, SameSession
<1>6. SameGuard(a, a) /\ SameSession(a, a)
  BY DEF SameGuard, SameSession
<1> QED
  BY <1>2, <1>3, <1>4, <1>5, <1>6

\* A call gone has freed the turn if it was the newest; another that holds the
\* turn was the newest then, and keeps it.
LEMMA FreedIs ==
    ASSUME NEW a \in Accounts, NEW c \in a.air
    PROVE  LET b == Freed(a, c) IN
           /\ b \in Accounts /\ SameSession(a, b)
           /\ b.air = a.air /\ b.signIns = a.signIns
           /\ b.up = a.up
           /\ Owing(a) => Owing(b)
           /\ Turn(a, a.air) => Turn(b, a.air \ {c})
<1> DEFINE busy == IF c.last THEN "free" ELSE a.busy
           b == [a EXCEPT !.busy = busy]
<1>1. busy \in {"free", "held", "late"}
  BY DEF Accounts
<1>2. Freed(a, c) = b
  BY DEF Freed
<1>3. busy = IF c.last THEN "free" ELSE a.busy
  OBVIOUS
<1> HIDE DEF busy
<1>4. b \in Accounts
  BY <1>1 DEF Accounts
<1>5. /\ b.up = a.up /\ b.left = a.left /\ b.trips = a.trips /\ b.busy = busy
      /\ b.keptLeft = a.keptLeft /\ b.keptTrips = a.keptTrips
      /\ b.owed = a.owed /\ b.refusals = a.refusals
      /\ b.air = a.air /\ b.signIns = a.signIns
  BY DEF Accounts
<1>6. SameSession(a, b)
  BY DEF Accounts, SameSession
<1> HIDE DEF b
<1>7. Owing(a) => Owing(b)
  BY <1>5 DEF Owing
<1>8. Turn(a, a.air) => Turn(b, a.air \ {c})
  BY <1>3, <1>5 DEF Turn
<1> QED
  BY <1>2, <1>4, <1>5, <1>6, <1>7, <1>8

\* A call takes the turn when none holds it; all others are older from then on.
LEMMA SentIs ==
    ASSUME NEW a \in Accounts, NEW c \in Calls
    PROVE  LET b == Sent(a, c)
               d == [c EXCEPT !.at = "out", !.mine = TRUE, !.last = TRUE, !.held = TRUE]
           IN  /\ b \in Accounts /\ SameSession(a, b) /\ b.signIns = a.signIns
               /\ b.up = a.up
               /\ Owing(a) => Owing(b)
               /\ Turn(a, a.air) /\ a.up /\ a.left = 0 /\ a.busy # "held" => Turn(b, b.air)
               /\ d \in Calls /\ d \in b.air
               /\ d.what = c.what /\ d.live = c.live /\ d.mine
               /\ \A x \in a.air : x # c => \E y \in b.air :
                     y.what = x.what /\ y.live = x.live
               /\ \A y \in b.air : y # d => \E x \in a.air : x # c /\ y = [x EXCEPT !.last = FALSE]
               /\ \A y \in b.air : y # d => \E x \in a.air : x # c
                     /\ y.what = x.what /\ y.live = x.live /\ y.at = x.at
                     /\ y.mine = x.mine
               /\ IsFiniteSet(a.air) => IsFiniteSet(b.air)
<1> DEFINE old(x) == [x EXCEPT !.last = FALSE]
           d == [c EXCEPT !.at = "out", !.mine = TRUE, !.last = TRUE, !.held = TRUE]
           air == {old(x) : x \in a.air \ {c}} \union {d}
           b == [a EXCEPT !.busy = "held", !.air = air]
<1>1. Sent(a, c) = b
  BY DEF Sent
<1>2. a.air \subseteq Calls
  BY DEF Accounts
<1>3. /\ d \in Calls /\ d.what = c.what /\ d.live = c.live /\ d.mine
      /\ d.last /\ d.at = "out"
  BY DEF Calls
<1>4. ASSUME NEW x \in Calls
      PROVE  /\ old(x) \in Calls /\ ~old(x).last
             /\ old(x).what = x.what /\ old(x).live = x.live /\ old(x).at = x.at
             /\ old(x).mine = x.mine /\ old(x).held = x.held
  BY DEF Calls
<1> HIDE DEF d, old
<1>5. air \subseteq Calls /\ d \in air
  BY <1>2, <1>3, <1>4
<1>6. \A x \in a.air : x # c => old(x) \in air
  OBVIOUS
<1>7. \A y \in air : y # d => \E x \in a.air : x # c /\ y = old(x)
  OBVIOUS
<1>8. IsFiniteSet(a.air) => IsFiniteSet(air)
  <2> SUFFICES ASSUME IsFiniteSet(a.air) PROVE IsFiniteSet(air)
    OBVIOUS
  <2> DEFINE S == a.air \ {c}
             f == [x \in S |-> old(x)]
             R == {old(x) : x \in S}
  <2>1. IsFiniteSet(S)
    BY FS_RemoveElement
  <2>2. f \in Surjection(S, R)
    BY DEF Surjection
  <2>3. IsFiniteSet(R)
    BY <2>1, <2>2, FS_Surjection
  <2>4. IsFiniteSet(R \union {d})
    <3> HIDE DEF R
    <3> QED BY <2>3, FS_AddElement
  <2> QED
    BY <2>4
<1> HIDE DEF air
<1>9. b \in Accounts
  BY <1>5 DEF Accounts
<1>10. /\ b.up = a.up /\ b.left = a.left /\ b.trips = a.trips /\ b.busy = "held"
      /\ b.keptLeft = a.keptLeft /\ b.keptTrips = a.keptTrips
      /\ b.owed = a.owed /\ b.refusals = a.refusals
      /\ b.air = air /\ b.signIns = a.signIns
  BY DEF Accounts
<1>11. SameSession(a, b)
  BY DEF Accounts, SameSession
<1> HIDE DEF b
<1>12. Owing(a) => Owing(b)
  BY <1>10 DEF Owing
<1>13. Turn(a, a.air) /\ a.up /\ a.left = 0 /\ a.busy # "held" => Turn(b, b.air)
  <2> SUFFICES ASSUME Turn(a, a.air), a.up, a.left = 0, a.busy # "held" PROVE Turn(b, b.air)
    OBVIOUS
  <2>1. \A x \in a.air : ~x.held
    BY DEF Turn
  <2>2. \A y \in air : y # d => ~y.held /\ ~y.last
    BY <1>2, <1>4, <1>7, <2>1
  <2> QED
    BY <1>3, <1>10, <2>2 DEF Turn
<1>14. \A x \in a.air : x # c => \E y \in air : y.what = x.what /\ y.live = x.live
  BY <1>2, <1>4, <1>6
<1>15. \A y \in air : y # d => \E x \in a.air : x # c /\ y.what = x.what /\ y.live = x.live
                                          /\ y.at = x.at /\ y.mine = x.mine
  BY <1>2, <1>4, <1>7
<1>16. \A y \in air : y # d => \E x \in a.air : x # c /\ y = [x EXCEPT !.last = FALSE]
  BY <1>7 DEF old
<1> QED
  BY <1>1, <1>3, <1>5, <1>8, <1>9, <1>10, <1>11, <1>12, <1>13, <1>14, <1>15, <1>16 DEF d

-----------------------------------------------------------------------------
(* The session's functions *)

Idle(S) == \A c \in S : ~c.live /\ ~c.mine

\* A session over: nothing under way is its own any more, and nothing left on its
\* way has changed for the guard.
LEMMA EndedIs ==
    ASSUME NEW a \in Accounts
    PROVE  LET e == Ended(a) IN
           /\ e \in Accounts /\ SameGuard(a, e)
           /\ e.jar = 0 /\ ~e.checking /\ e.menu = "none" /\ e.home = "none" /\ ~e.dirty
           /\ e.keptAt = a.keptAt /\ e.signIns = a.signIns /\ e.state = a.state
           /\ Idle(e.air)
           /\ Turn(a, a.air) => Turn(e, e.air)
           /\ IsFiniteSet(a.air) => IsFiniteSet(e.air) /\ Cardinality(Out(e)) <= Cardinality(Out(a))
<1> DEFINE gone(c) == [c EXCEPT !.live = FALSE, !.mine = FALSE, !.lent = 0, !.brought = 0]
           air == {gone(c) : c \in a.air}
           e == [a EXCEPT !.jar = 0, !.checking = FALSE, !.menu = "none", !.home = "none", !.timer = FALSE,
                          !.needs = FALSE, !.zeroes = 0, !.dirty = FALSE, !.proved = FALSE, !.air = air]
<1>1. Ended(a) = e
  BY DEF Ended
<1>2. a.air \subseteq Calls
  BY DEF Accounts
<1>3. ASSUME NEW c \in Calls
      PROVE  /\ gone(c) \in Calls /\ ~gone(c).live /\ ~gone(c).mine
             /\ gone(c).held = c.held /\ gone(c).last = c.last /\ gone(c).at = c.at
  BY NumbersAre DEF Calls
<1> HIDE DEF gone
<1>4. \A d \in air : \E c \in a.air : d = gone(c)
  OBVIOUS
<1>5. air \subseteq Calls
  BY <1>2, <1>3
<1>6. IsFiniteSet(a.air) => IsFiniteSet(air)
  <2> DEFINE f == [c \in a.air |-> gone(c)]
  <2>1. f \in Surjection(a.air, air)
    BY DEF Surjection
  <2> HIDE DEF air
  <2> QED
    BY <2>1, FS_Surjection
<1> HIDE DEF air
<1>7. e \in Accounts
  BY <1>5, NumbersAre DEF Accounts
<1>8. /\ SameGuard(a, e) /\ e.air = air
      /\ e.jar = 0 /\ ~e.checking /\ e.menu = "none" /\ e.home = "none" /\ ~e.dirty
      /\ e.keptAt = a.keptAt /\ e.signIns = a.signIns /\ e.state = a.state
  BY DEF Accounts, SameGuard
<1> HIDE DEF e
<1>9. Idle(air)
  BY <1>2, <1>3, <1>4 DEF Idle
<1>10. Turn(a, a.air) => Turn(e, air)
  <2> SUFFICES ASSUME Turn(a, a.air) PROVE Turn(e, air)
    OBVIOUS
  <2>1. /\ e.up = a.up /\ e.busy = a.busy /\ e.left = a.left
    BY <1>8 DEF SameGuard
  <2>2. \A d \in air : d.held => d.last /\ d.at = "out" /\ (e.busy = "held" \/ e.left > 0)
    BY <1>2, <1>3, <1>4, <2>1 DEF Turn
  <2>3. \A d1, d2 \in air : d1.last /\ d2.last => d1 = d2
    BY <1>2, <1>3, <1>4 DEF Turn
  <2>4. air # {} => e.up
    BY <1>4, <2>1 DEF Turn
  <2> QED
    BY <2>2, <2>3, <2>4 DEF Turn
<1>11. IsFiniteSet(a.air) => Cardinality(Out(e)) <= Cardinality(Out(a))
  <2> DEFINE f == [c \in Out(a) |-> gone(c)]
  <2>1. f = [c \in Out(a) |-> f[c]]
    OBVIOUS
  <2>2. \A d \in Out(e) : \E c \in Out(a) : d = f[c]
    BY <1>2, <1>3, <1>4, <1>8 DEF Out
  <2> HIDE DEF f
  <2> QED
    BY <2>1, <2>2, FewerOut
<1> QED
  BY <1>1, <1>6, <1>7, <1>8, <1>9, <1>10, <1>11

\* What the session's part is when there is none.
LEMMA NoSession ==
    ASSUME NEW a, a.jar = 0, ~a.checking, a.state # "active", a.keptAt = 0 \/ ~a.up, NEW S, Idle(S)
    PROVE  Checking(a, S) /\ Owned(a, S) /\ Believed(a) /\ Stored(a) /\ Watched(a) /\ Unfinished(a)
<1>1. a.jar > 0 <=> FALSE
  OBVIOUS
<1>2. Believed(a) /\ Stored(a) /\ Watched(a) /\ Unfinished(a)
  BY <1>1 DEF Believed, Stored, Watched, Unfinished
<1>3. Owned(a, S)
  BY DEF Owned, Idle
<1>4. Checking(a, S)
  BY DEF Checking, Waited, Idle
<1> QED
  BY <1>2, <1>3, <1>4

LEMMA RejectedIs ==
    ASSUME NEW a \in Accounts
    PROVE  LET r == Rejected(a) IN
           /\ r.jar = 0 /\ r.signIns = a.signIns /\ r.up = a.up
           /\ Turn(a, a.air) /\ Owing(a) => Mid(r, r.air, r.air)
           /\ Watched(r) /\ Unfinished(r)
           /\ IsFiniteSet(a.air) => IsFiniteSet(r.air) /\ Cardinality(Out(r)) <= Cardinality(Out(a))
<1> DEFINE e == Ended(a)
           r == [e EXCEPT !.state = "rejected", !.keptAt = 0]
<1>1. Rejected(a) = r
  BY DEF Rejected
<1>2. /\ e \in Accounts /\ SameGuard(a, e)
      /\ e.jar = 0 /\ ~e.checking /\ e.signIns = a.signIns
      /\ Idle(e.air)
      /\ Turn(a, a.air) => Turn(e, e.air)
      /\ IsFiniteSet(a.air) => IsFiniteSet(e.air) /\ Cardinality(Out(e)) <= Cardinality(Out(a))
  BY EndedIs
<1> HIDE DEF e
<1>3. r \in Accounts
  BY <1>2, NumbersAre, ZenonT(40) DEF Accounts, States
<1>4. SameGuard(e, r)
  BY <1>2 DEF Accounts, SameGuard
<1>5. r.air = e.air /\ r.jar = 0 /\ ~r.checking /\ r.state = "rejected" /\ r.keptAt = 0 /\ r.signIns = a.signIns
  BY <1>2 DEF Accounts
<1>6. Out(r) = Out(e)
  BY <1>5 DEF Out
<1> HIDE DEF r
<1>7. Checking(r, r.air) /\ Owned(r, r.air) /\ Believed(r) /\ Stored(r) /\ Watched(r) /\ Unfinished(r)
  BY <1>2, <1>5, NoSession
<1>8. Turn(a, a.air) /\ Owing(a) => Turn(r, r.air) /\ Owing(r)
  BY <1>2, <1>4, <1>5, GuardKeeps
<1>9. r.up = a.up
  BY <1>2, <1>4 DEF SameGuard
<1> QED
  BY <1>1, <1>2, <1>3, <1>5, <1>6, <1>7, <1>8, <1>9 DEF Mid

\* A call added that waits for its turn.
LEMMA OneMore ==
    ASSUME NEW a, NEW T, Turn(a, T), a.up, NEW d, ~d.held, ~d.last
    PROVE  Turn(a, T \union {d})
BY DEF Turn

\* A check asks for two things, once, and has nothing left of an older one.
LEMMA CheckedIs ==
    ASSUME NEW a, NEW T, NEW S, Mid(a, T, S)
    PROVE  LET b == Checked(a) IN
           \E New \in SUBSET {Call("menu"), Call("home")} :
              /\ b.air = a.air \union New
              /\ Mid(b, T \union New, S \union New)
              /\ Watched(b)
              /\ Unfinished(a) => Unfinished(b)
              /\ b.jar = a.jar /\ b.up = a.up /\ b.signIns = a.signIns /\ b.left = a.left
              /\ a.checking => New = {}
<1> DEFINE state == IF a.state = "active" THEN "active" ELSE "checking"
           both == {Call("menu"), Call("home")}
           t == [a EXCEPT !.timer = TRUE]
           k == [a EXCEPT !.timer = FALSE, !.checking = TRUE, !.menu = "none", !.home = "none",
                          !.state = state, !.air = a.air \union both]
           b == Checked(a)
<1>1. a \in Accounts
  BY DEF Mid
<1>2. b = IF a.jar = 0 \/ a.checking THEN a ELSE IF a.left > 0 THEN t ELSE k
  BY DEF Checked
<1>3. CASE a.jar = 0 \/ a.checking
  <2>1. Watched(a)
    BY <1>3 DEF Watched
  <2>2. {} \in SUBSET both /\ a.air \union {} = a.air /\ T \union {} = T /\ S \union {} = S
    OBVIOUS
  <2> QED
    BY <1>2, <1>3, <2>1, <2>2
<1>4. CASE ~(a.jar = 0 \/ a.checking) /\ a.left > 0
  <2>1. t \in Accounts
    BY <1>1 DEF Accounts
  <2>2. SameGuard(a, t) /\ t.air = a.air /\ t.signIns = a.signIns /\ t.timer
    BY <1>1 DEF Accounts, SameGuard
  <2>3. SameSession(a, t)
    BY <1>1 DEF Accounts, SameSession
  <2>4. t.jar = a.jar /\ t.up = a.up /\ t.left = a.left
    BY <2>2, <2>3 DEF SameGuard, SameSession
  <2> HIDE DEF t
  <2>5. Mid(t, T, S) /\ (Unfinished(a) => Unfinished(t))
    BY <2>1, <2>2, <2>3, SameKeeps
  <2>6. Watched(t)
    BY <2>2 DEF Watched
  <2>7. {} \in SUBSET both /\ a.air \union {} = a.air /\ T \union {} = T /\ S \union {} = S
    OBVIOUS
  <2> HIDE DEF b
  <2> QED
    BY <1>2, <1>4, <2>2, <2>4, <2>5, <2>6, <2>7 DEF b
<1>5. CASE ~(a.jar = 0 \/ a.checking) /\ ~(a.left > 0)
  <2>1. /\ Call("menu") \in Calls /\ Call("home") \in Calls
        /\ Call("menu").what = "menu" /\ Call("home").what = "home"
        /\ \A d \in both : d.live /\ d.at = "waiting" /\ ~d.mine /\ ~d.last /\ ~d.held
    BY CallIs DEF Checks
  <2>2. state \in States
    BY DEF States
  <2>3. a.jar > 0 /\ a.up /\ a.checking = FALSE
    <3>1. a.jar \in Nat /\ a.checking \in BOOLEAN
      BY <1>1, NumbersAre DEF Accounts
    <3> QED
      BY <1>5, <3>1 DEF Mid, Believed
  <2>4. state = "active" => a.state = "active"
    OBVIOUS
  <2> HIDE DEF state
  <2>5. k \in Accounts
    <3>1. a.air \union both \in SUBSET Calls
      BY <1>1, <2>1 DEF Accounts
    <3> HIDE DEF both
    <3> QED
      BY <1>1, <2>2, <3>1 DEF Accounts
  <2>6. SameGuard(a, k)
    BY <1>1 DEF Accounts, SameGuard
  <2>7. /\ k.air = a.air \union both /\ k.signIns = a.signIns /\ k.checking /\ k.menu = "none" /\ k.home = "none"
        /\ k.state = state /\ k.jar = a.jar /\ k.proved = a.proved /\ k.up = a.up /\ k.left = a.left
        /\ k.keptAt = a.keptAt /\ k.dirty = a.dirty
    BY <1>1 DEF Accounts
  <2> HIDE DEF k
  <2>8. Believed(k) /\ Stored(k)
    BY <2>3, <2>4, <2>7 DEF Mid, Believed, Stored
  <2>9. Waited(S, "menu") = {} /\ Waited(S, "home") = {}
    BY <2>3 DEF Mid, Checking
  <2>10. Waited(S \union both, "menu") = {Call("menu")} /\ Waited(S \union both, "home") = {Call("home")}
    BY <2>1, <2>9 DEF Waited
  <2>11. Checking(k, S \union both)
    BY <2>7, <2>10 DEF Checking
  <2>12. Owned(k, S \union both)
    BY <2>1, <2>7 DEF Mid, Owned
  <2>13. Turn(k, T \union both)
    <3>1. Turn(k, T)
      BY <2>6, GuardKeeps DEF Mid
    <3>2. Turn(k, T \union {Call("menu")})
      BY <2>1, <2>3, <2>7, <3>1, OneMore
    <3>3. Turn(k, (T \union {Call("menu")}) \union {Call("home")})
      BY <2>1, <2>3, <2>7, <3>2, OneMore
    <3>4. (T \union {Call("menu")}) \union {Call("home")} = T \union both
      OBVIOUS
    <3> QED
      BY <3>3, <3>4
  <2>14. Mid(k, T \union both, S \union both)
    BY <2>5, <2>6, <2>8, <2>11, <2>12, <2>13, GuardKeeps DEF Mid
  <2>15. Watched(k) /\ Unfinished(k)
    BY <2>7 DEF Watched, Unfinished
  <2>16. both \in SUBSET {Call("menu"), Call("home")}
    OBVIOUS
  <2> HIDE DEF b, both
  <2> QED
    BY <1>2, <1>5, <2>3, <2>7, <2>14, <2>15, <2>16 DEF b
<1> QED
  BY <1>3, <1>4, <1>5

LEMMA DoubtedIs ==
    ASSUME NEW a, NEW T, NEW S, Mid(a, T, S), Watched(a)
    PROVE  LET b == Doubted(a) IN
           \E New \in SUBSET {Call("menu"), Call("home")} :
              /\ b.air = a.air \union New
              /\ Mid(b, T \union New, S \union New)
              /\ Watched(b)
              /\ Unfinished(a) => Unfinished(b)
              /\ b.jar = a.jar /\ b.up = a.up /\ b.signIns = a.signIns /\ b.left = a.left
              /\ a.checking => New = {}
<1> DEFINE d == [a EXCEPT !.doubted = TRUE, !.needs = TRUE]
           b == Doubted(a)
           both == {Call("menu"), Call("home")}
<1>1. b = IF a.jar = 0 \/ a.doubted THEN a ELSE Checked(d)
  BY DEF Doubted
<1>2. CASE a.jar = 0 \/ a.doubted
  <2>1. {} \in SUBSET both /\ a.air \union {} = a.air /\ T \union {} = T /\ S \union {} = S
    OBVIOUS
  <2> QED
    BY <1>1, <1>2, <2>1
<1>3. CASE ~(a.jar = 0 \/ a.doubted)
  <2>1. a \in Accounts
    BY DEF Mid
  <2>2. d \in Accounts
    BY <2>1 DEF Accounts
  <2>3. SameGuard(a, d) /\ d.air = a.air /\ d.signIns = a.signIns
    BY <2>1 DEF Accounts, SameGuard
  <2>4. SameSession(a, d)
    BY <2>1 DEF Accounts, SameSession
  <2> HIDE DEF d
  <2>5. Mid(d, T, S) /\ (Unfinished(a) => Unfinished(d))
    BY <2>2, <2>3, <2>4, SameKeeps
  <2>6. b = Checked(d)
    BY <1>1, <1>3
  <2>7. d.jar = a.jar /\ d.up = a.up /\ d.left = a.left /\ d.checking = a.checking
    BY <2>3, <2>4 DEF SameGuard, SameSession
  <2> HIDE DEF b
  <2>8. PICK New \in SUBSET both :
              /\ b.air = d.air \union New
              /\ Mid(b, T \union New, S \union New)
              /\ Watched(b)
              /\ Unfinished(d) => Unfinished(b)
              /\ b.jar = d.jar /\ b.up = d.up /\ b.signIns = d.signIns /\ b.left = d.left
              /\ d.checking => New = {}
    BY <2>5, <2>6, CheckedIs
  <2> HIDE DEF both
  <2>9. /\ b.air = a.air \union New
        /\ Mid(b, T \union New, S \union New)
        /\ Watched(b)
        /\ Unfinished(a) => Unfinished(b)
        /\ b.jar = a.jar /\ b.up = a.up /\ b.signIns = a.signIns /\ b.left = a.left
        /\ a.checking => New = {}
    BY <2>3, <2>5, <2>7, <2>8
  <2> QED
    BY <2>9 DEF b, both
<1> QED
  BY <1>2, <1>3

\* Cookies taken over are a change to save.
LEMMA AbsorbedIs ==
    ASSUME NEW a, NEW T, NEW S, Mid(a, T, S), a.jar > 0, NEW at \in Jars, at > 0
    PROVE  LET b == Absorbed(a, at) IN
           /\ Mid(b, T, S)
           /\ Watched(a) => Watched(b)
           /\ Unfinished(a) => Unfinished(b)
           /\ b.air = a.air /\ b.jar = at /\ b.up = a.up /\ b.signIns = a.signIns
<1> DEFINE b == [a EXCEPT !.jar = at, !.dirty = TRUE]
<1>1. Absorbed(a, at) = IF at = a.jar THEN a ELSE b
  BY DEF Absorbed
<1>2. a \in Accounts
  BY DEF Mid
<1>3. b \in Accounts
  BY <1>2 DEF Accounts
<1>4. SameGuard(a, b)
  BY <1>2 DEF Accounts, SameGuard
<1>5. /\ b.state = a.state /\ b.checking = a.checking
      /\ b.menu = a.menu /\ b.home = a.home /\ b.proved = a.proved
      /\ b.keptAt = a.keptAt /\ b.timer = a.timer
      /\ b.up = a.up /\ b.dirty /\ b.jar = at
      /\ b.air = a.air /\ b.signIns = a.signIns
  BY <1>2 DEF Accounts
<1> HIDE DEF b
<1>6. Believed(b)
  BY <1>5 DEF Mid, Believed
<1>7. Stored(b)
  <2>1. at # 0 /\ a.jar # 0 /\ a.keptAt \in Nat
    BY <1>2, NumbersAre DEF Accounts
  <2> QED
    BY <1>5, <2>1 DEF Mid, Stored
<1>8. Checking(b, S)
  BY <1>5 DEF Mid, Checking
<1>9. Owned(b, S)
  BY <1>5 DEF Mid, Owned
<1>10. (Watched(a) => Watched(b)) /\ (Unfinished(a) => Unfinished(b))
  BY <1>5 DEF Watched, Unfinished
<1>11. Turn(b, T) /\ Owing(b)
  BY <1>4, GuardKeeps DEF Mid
<1>12. Mid(b, T, S)
  BY <1>3, <1>6, <1>7, <1>8, <1>9, <1>11 DEF Mid
<1> QED
  BY <1>1, <1>5, <1>10, <1>12

\* A check with both its answers: the session is used, doubted or given up.
LEMMA VerdictIs ==
    ASSUME NEW a, Mid(a, a.air, a.air), IsFiniteSet(a.air),
           a.checking, a.menu # "none", a.home # "none"
    PROVE  LET v == Verdict(a) IN
           /\ Sound(v)
           /\ v.signIns = a.signIns
           /\ v.jar = 0 \/ (v.jar = a.jar /\ v.air = a.air)
           /\ Cardinality(Out(v)) <= Cardinality(Out(a))
<1> DEFINE b == [a EXCEPT !.checking = FALSE, !.menu = "none", !.home = "none"]
           good == a.home = "in" \/ (a.home = "nothing" /\ a.menu = "named")
           used == [b EXCEPT !.zeroes = 0, !.needs = FALSE, !.state = "active", !.timer = TRUE]
           first == [b EXCEPT !.zeroes = 1, !.timer = TRUE]
           state == IF b.state = "active" THEN b.state ELSE "unreachable"
           later == [b EXCEPT !.timer = TRUE, !.state = state]
           v == Verdict(a)
<1>1. a \in Accounts
  BY DEF Mid
<1>2. v = IF good THEN used
          ELSE IF a.home = "out" THEN IF a.zeroes = 1 THEN Rejected(b) ELSE first
          ELSE later
  BY DEF Verdict
<1>3. b \in Accounts
  BY <1>1 DEF Accounts
<1>4. SameGuard(a, b)
  BY <1>1 DEF Accounts, SameGuard
<1>5. /\ b.state = a.state /\ b.jar = a.jar /\ b.proved = a.proved /\ b.dirty = a.dirty /\ b.keptAt = a.keptAt
      /\ b.air = a.air /\ b.signIns = a.signIns /\ ~b.checking /\ b.up = a.up
  BY <1>1 DEF Accounts
<1> HIDE DEF b
<1>6. a.jar > 0 /\ (good => a.proved)
  BY DEF Mid, Believed, Checking
<1>7. Waited(a.air, "menu") = {} /\ Waited(a.air, "home") = {}
  BY DEF Mid, Checking
<1>8. ASSUME NEW w \in Accounts, SameGuard(b, w), w.timer, w.air = b.air, w.signIns = b.signIns,
             w.jar = b.jar, ~w.checking, w.proved = b.proved, w.dirty = b.dirty, w.keptAt = b.keptAt,
             w.state = "active" => a.proved
      PROVE  /\ Sound(w) /\ w.signIns = a.signIns /\ w.jar = a.jar /\ w.air = a.air
             /\ Cardinality(Out(w)) <= Cardinality(Out(a))
  <2>1. Turn(w, w.air) /\ Owing(w)
    BY <1>4, <1>5, <1>8, GuardKeeps DEF Mid
  <2>2. Checking(w, w.air)
    BY <1>5, <1>7, <1>8 DEF Checking
  <2>3. Owned(w, w.air)
    BY <1>5, <1>8 DEF Mid, Owned
  <2>4. w.up = a.up
    BY <1>5, <1>8 DEF SameGuard
  <2>5. Believed(w)
    BY <1>5, <1>6, <1>8, <2>4 DEF Mid, Believed
  <2>6. Stored(w)
    BY <1>5, <1>8, <2>4 DEF Mid, Stored
  <2>7. Watched(w) /\ Unfinished(w)
    BY <1>8 DEF Watched, Unfinished
  <2>8. Out(w) \subseteq Out(a)
    BY <1>5, <1>8 DEF Out
  <2>9. Cardinality(Out(w)) <= Cardinality(Out(a))
    BY <2>8, NoneAddedOut
  <2> QED
    BY <1>5, <1>8, <2>1, <2>2, <2>3, <2>5, <2>6, <2>7, <2>9 DEF Sound, Mid
<1>9. CASE good
  <2>1. used \in Accounts
    BY <1>3 DEF Accounts, States
  <2>2. SameGuard(b, used)
    BY <1>3 DEF Accounts, SameGuard
  <2>3. /\ used.timer /\ used.air = b.air /\ used.signIns = b.signIns
        /\ used.jar = b.jar /\ used.checking = b.checking /\ used.proved = b.proved /\ used.dirty = b.dirty
        /\ used.keptAt = b.keptAt
    BY <1>3 DEF Accounts
  <2> HIDE DEF used, good, v
  <2>4. used.state = "active" => a.proved
    BY <1>6, <1>9
  <2>5. ~used.checking
    BY <1>5, <2>3
  <2>6. /\ Sound(used) /\ used.signIns = a.signIns /\ used.jar = a.jar /\ used.air = a.air
        /\ Cardinality(Out(used)) <= Cardinality(Out(a))
    BY <1>8, <2>1, <2>2, <2>3, <2>4, <2>5
  <2> QED
    BY <1>2, <1>9, <2>6 DEF v
<1>10. CASE ~good /\ a.home = "out" /\ a.zeroes = 1
  <2>1. v = Rejected(b)
    BY <1>2, <1>10
  <2> HIDE DEF v
  <2>2. Turn(b, b.air) /\ Owing(b)
    BY <1>4, <1>5, GuardKeeps DEF Mid
  <2>3. /\ v.jar = 0 /\ v.signIns = b.signIns
        /\ Mid(v, v.air, v.air) /\ Watched(v) /\ Unfinished(v)
        /\ IsFiniteSet(v.air) /\ Cardinality(Out(v)) <= Cardinality(Out(b))
    BY <1>3, <1>5, <2>1, <2>2, RejectedIs
  <2>4. Out(b) = Out(a)
    BY <1>5 DEF Out
  <2>5. Sound(v) /\ v.signIns = a.signIns /\ v.jar = 0 /\ Cardinality(Out(v)) <= Cardinality(Out(a))
    BY <1>5, <2>3, <2>4 DEF Sound
  <2> QED
    BY <2>5 DEF v
<1>11. CASE ~good /\ a.home = "out" /\ a.zeroes # 1
  <2>1. first \in Accounts
    BY <1>3 DEF Accounts
  <2>2. SameGuard(b, first)
    BY <1>3 DEF Accounts, SameGuard
  <2>3. /\ first.timer /\ first.air = b.air /\ first.signIns = b.signIns
        /\ first.jar = b.jar /\ first.checking = b.checking /\ first.proved = b.proved /\ first.dirty = b.dirty
        /\ first.keptAt = b.keptAt /\ first.state = b.state
    BY <1>3 DEF Accounts
  <2> HIDE DEF first, good, v
  <2>4. first.state = "active" => a.proved
    BY <1>5, <2>3 DEF Mid, Believed
  <2>5. ~first.checking
    BY <1>5, <2>3
  <2>6. /\ Sound(first) /\ first.signIns = a.signIns /\ first.jar = a.jar /\ first.air = a.air
        /\ Cardinality(Out(first)) <= Cardinality(Out(a))
    BY <1>8, <2>1, <2>2, <2>3, <2>4, <2>5
  <2> QED
    BY <1>2, <1>11, <2>6 DEF v
<1>12. CASE ~good /\ a.home # "out"
  <2>1. state \in States /\ (state = "active" => a.state = "active")
    BY <1>5 DEF States
  <2> HIDE DEF state
  <2>2. later \in Accounts
    BY <1>3, <2>1 DEF Accounts
  <2>3. SameGuard(b, later)
    BY <1>3 DEF Accounts, SameGuard
  <2>4. /\ later.timer /\ later.air = b.air /\ later.signIns = b.signIns
        /\ later.jar = b.jar /\ later.checking = b.checking /\ later.proved = b.proved /\ later.dirty = b.dirty
        /\ later.keptAt = b.keptAt /\ later.state = state
    BY <1>3 DEF Accounts
  <2> HIDE DEF later, good, v
  <2>5. later.state = "active" => a.proved
    BY <2>1, <2>4 DEF Mid, Believed
  <2>6. ~later.checking
    BY <1>5, <2>4
  <2>7. /\ Sound(later) /\ later.signIns = a.signIns /\ later.jar = a.jar /\ later.air = a.air
        /\ Cardinality(Out(later)) <= Cardinality(Out(a))
    BY <1>8, <2>2, <2>3, <2>4, <2>5, <2>6
  <2> QED
    BY <1>2, <1>12, <2>7 DEF v
<1> HIDE DEF good
<1> QED
  BY <1>9, <1>10, <1>11, <1>12

\* What a call's answer can say.
Sayable(what, said) ==
    /\ said \in {"none", "named", "in", "out", "nothing"}
    /\ what = "menu" => said \in {"named", "nothing"}
    /\ what = "home" => said \in {"in", "out", "nothing"}

\* A caller is told: a check waited for has its answer, one no longer current is
\* not heard.
LEMMA ToldIs ==
    ASSUME NEW a, NEW S, Mid(a, a.air, S), IsFiniteSet(a.air), Watched(a),
           NEW c \in Calls, a.air \ {c} \subseteq S, S \subseteq a.air \union {c}, c.live => c \in S,
           NEW said, Sayable(c.what, said),
           c.live /\ said \in {"named", "in"} => a.proved
    PROVE  LET t == Told(a, c, said) IN
           /\ Sound(t)
           /\ t.signIns = a.signIns
           /\ t.jar = 0 \/ (t.jar = a.jar /\ t.air = a.air \ {c})
           /\ Cardinality(Out(t)) <= Cardinality(Out(a))
<1> DEFINE menu == IF c.live /\ c.what = "menu" THEN said ELSE a.menu
           home == IF c.live /\ c.what = "home" THEN said ELSE a.home
           b == [a EXCEPT !.air = a.air \ {c}, !.menu = menu, !.home = home]
           both == b.checking /\ b.menu # "none" /\ b.home # "none"
           t == Told(a, c, said)
<1>1. t = IF both THEN Verdict(b) ELSE b
  BY DEF Told
<1>2. a \in Accounts
  BY DEF Mid
<1>3. /\ menu \in {"none", "named", "nothing"} /\ home \in {"none", "in", "out", "nothing"}
      /\ c.live /\ c.what = "menu" => menu # "none" /\ home = a.home /\ (menu = "named" => a.proved)
      /\ c.live /\ c.what = "home" => home # "none" /\ menu = a.menu /\ (home = "in" => a.proved)
      /\ ~(c.live /\ c.what \in Checks) => menu = a.menu /\ home = a.home
  BY <1>2 DEF Sayable, Accounts, Checks
<1> HIDE DEF menu, home
<1>4. b \in Accounts
  BY <1>2, <1>3 DEF Accounts
<1>5. SameGuard(a, b)
  BY <1>2 DEF Accounts, SameGuard
<1>6. /\ b.state = a.state /\ b.jar = a.jar /\ b.proved = a.proved /\ b.dirty = a.dirty /\ b.keptAt = a.keptAt
      /\ b.air = a.air \ {c} /\ b.signIns = a.signIns /\ b.checking = a.checking /\ b.up = a.up
      /\ b.menu = menu /\ b.home = home /\ b.timer = a.timer
  BY <1>2 DEF Accounts
<1> HIDE DEF b
<1>7. Turn(b, b.air) /\ Owing(b)
  <2>1. Turn(b, a.air) /\ Owing(b)
    BY <1>5, GuardKeeps DEF Mid
  <2> QED
    BY <1>6, <2>1 DEF Turn
<1>8. Believed(b) /\ Stored(b)
  BY <1>6 DEF Mid, Believed, Stored
<1>9. Owned(b, b.air)
  BY <1>6 DEF Mid, Owned
<1>10. b.air = S \ {c}
  BY <1>6
<1>11. Checking(b, b.air)
  <2>1. CASE c.live /\ c.what = "menu"
    <3>1. c \in Waited(S, "menu")
      BY <2>1 DEF Waited
    <3>2. Waited(b.air, "menu") = {}
      BY <1>10, <3>1 DEF Mid, Checking, Waited
    <3>3. Waited(b.air, "home") = Waited(S, "home")
      BY <1>10, <2>1 DEF Waited
    <3> QED
      BY <1>3, <1>6, <2>1, <3>2, <3>3 DEF Mid, Checking
  <2>2. CASE c.live /\ c.what = "home"
    <3>1. c \in Waited(S, "home")
      BY <2>2 DEF Waited
    <3>2. Waited(b.air, "home") = {}
      BY <1>10, <3>1 DEF Mid, Checking, Waited
    <3>3. Waited(b.air, "menu") = Waited(S, "menu")
      BY <1>10, <2>2 DEF Waited
    <3> QED
      BY <1>3, <1>6, <2>2, <3>2, <3>3 DEF Mid, Checking
  <2>3. CASE ~(c.live /\ c.what \in Checks)
    <3>1. Waited(b.air, "menu") = Waited(S, "menu") /\ Waited(b.air, "home") = Waited(S, "home")
      BY <1>10, <2>3 DEF Waited, Checks
    <3> QED
      BY <1>3, <1>6, <2>3, <3>1 DEF Mid, Checking
  <2> QED
    BY <2>1, <2>2, <2>3 DEF Checks
<1>12. Mid(b, b.air, b.air)
  BY <1>4, <1>7, <1>8, <1>9, <1>11 DEF Mid
<1>13. IsFiniteSet(b.air)
  BY <1>6, FS_RemoveElement
<1>14. Cardinality(Out(b)) <= Cardinality(Out(a))
  <2>1. Out(b) \subseteq Out(a)
    BY <1>6 DEF Out
  <2> QED
    BY <2>1, NoneAddedOut
<1>15. CASE both
  <2>1. t = Verdict(b)
    BY <1>1, <1>15
  <2> HIDE DEF t
  <2>2. /\ Sound(t)
        /\ t.signIns = b.signIns
        /\ t.jar = 0 \/ (t.jar = b.jar /\ t.air = b.air)
        /\ Cardinality(Out(t)) <= Cardinality(Out(b))
    BY <1>12, <1>13, <1>15, <2>1, VerdictIs
  <2>3. /\ Cardinality(Out(a)) \in Nat /\ Cardinality(Out(b)) \in Nat /\ Cardinality(Out(t)) \in Nat
    <3>1. Out(a) \in SUBSET a.air /\ Out(b) \in SUBSET b.air /\ Out(t) \in SUBSET t.air /\ IsFiniteSet(t.air)
      BY <2>2 DEF Out, Sound
    <3>2. IsFiniteSet(Out(a)) /\ IsFiniteSet(Out(b)) /\ IsFiniteSet(Out(t))
      BY <1>13, <3>1, FS_Subset
    <3> QED
      BY <3>2, FS_CardinalityType
  <2>4. Cardinality(Out(t)) <= Cardinality(Out(a))
    BY <1>14, <2>2, <2>3
  <2> QED
    BY <1>6, <2>2, <2>4 DEF t
<1>16. CASE ~both
  <2>1. t = b
    BY <1>1, <1>16
  <2> HIDE DEF t
  <2>2. Watched(b) /\ Unfinished(b)
    BY <1>6, <1>16 DEF Watched, Unfinished
  <2>3. Sound(t)
    BY <1>12, <1>13, <2>1, <2>2 DEF Sound
  <2> QED
    BY <1>6, <1>14, <2>1, <2>3 DEF t
<1> QED
  BY <1>15, <1>16

LEMMA DownIs ==
    ASSUME NEW a \in Accounts, Owing(a)
    PROVE  LET d == Down(a) IN Sound(d) /\ d.jar = 0 /\ Out(d) = {}
<1> DEFINE e == Ended(a)
           d == [e EXCEPT !.up = FALSE, !.state = "signedOut", !.doubted = FALSE, !.busy = "free",
                          !.left = 0, !.over = FALSE, !.trips = 0, !.air = {}]
<1>1. Down(a) = d
  BY DEF Down
<1>2. e \in Accounts /\ SameGuard(a, e) /\ e.jar = 0 /\ ~e.checking
  BY EndedIs
<1> HIDE DEF e
<1>3. d \in Accounts
  <2>1. {} \in SUBSET Calls /\ "signedOut" \in States /\ 0 \in Hours
    BY NumbersAre DEF States
  <2> QED
    BY <1>2, <2>1, ZenonT(40) DEF Accounts
<1>4. /\ d.up = FALSE /\ d.state = "signedOut" /\ d.air = {} /\ d.jar = 0 /\ ~d.checking
      /\ d.keptLeft = e.keptLeft /\ d.keptTrips = e.keptTrips /\ d.owed = e.owed /\ d.refusals = e.refusals
  BY <1>2 DEF Accounts
<1> HIDE DEF d
<1>5. Turn(d, d.air) /\ Owing(d)
  BY <1>2, <1>4 DEF Turn, Owing, SameGuard
<1>6. Idle(d.air)
  BY <1>4 DEF Idle
<1>7. Checking(d, d.air) /\ Owned(d, d.air) /\ Believed(d) /\ Stored(d) /\ Watched(d) /\ Unfinished(d)
  BY <1>4, <1>6, NoSession
<1>8. IsFiniteSet(d.air)
  BY <1>4, FS_EmptySet
<1> QED
  BY <1>1, <1>3, <1>4, <1>5, <1>7, <1>8 DEF Sound, Mid, Out

-----------------------------------------------------------------------------
(* The steps *)

Kept == Sound(acc') /\ RestIsKept /\ CookiesAreTheNewest

LEMMA OutFinite ==
    ASSUME NEW a, IsFiniteSet(a.air)
    PROVE  IsFiniteSet(Out(a)) /\ Cardinality(Out(a)) \in Nat
<1>1. Out(a) \in SUBSET a.air
  BY DEF Out
<1> QED
  BY <1>1, FS_Subset, FS_CardinalityType

\* Most steps send nothing, and leave the cookies.
LEMMA Enough ==
    ASSUME Sound(acc), Sound(acc'), Cardinality(Out(acc')) <= Cardinality(Out(acc)),
           acc'.jar = 0 \/ acc'.jar = acc.jar \/ acc'.signIns # acc.signIns \/ Out(acc) = {}
    PROVE  Kept
<1>1. Cardinality(Out(acc')) \in Nat /\ Cardinality(Out(acc)) \in Nat
  BY OutFinite DEF Sound
<1>2. RestIsKept
  BY <1>1 DEF RestIsKept
<1>3. CookiesAreTheNewest
  BY DEF CookiesAreTheNewest
<1> QED
  BY <1>2, <1>3 DEF Kept

LEMMA EnoughSame ==
    ASSUME Sound(acc), Sound(acc'), Out(acc') \subseteq Out(acc),
           acc'.jar = 0 \/ acc'.jar = acc.jar \/ acc'.signIns # acc.signIns \/ Out(acc) = {}
    PROVE  Kept
<1>1. Cardinality(Out(acc')) <= Cardinality(Out(acc))
  BY NoneAddedOut DEF Sound
<1> QED
  BY <1>1, Enough

LEMMA SoundParts ==
    ASSUME NEW a, Sound(a)
    PROVE  /\ a \in Accounts /\ IsFiniteSet(a.air) /\ Mid(a, a.air, a.air) /\ Watched(a) /\ Unfinished(a)
           /\ Turn(a, a.air) /\ Owing(a) /\ Checking(a, a.air) /\ Owned(a, a.air) /\ Believed(a) /\ Stored(a)
           /\ a.air \subseteq Calls /\ a.jar \in Nat /\ a.left \in Nat /\ a.signIns \in Nat
           /\ a.owed \in Nat /\ a.keptLeft \in Nat
           /\ a.jar > 0 <=> a.jar # 0
           /\ ~a.up => a.air = {} /\ a.jar = 0
<1>1. Mid(a, a.air, a.air)
  BY DEF Sound
<1>2. a \in Accounts
  BY <1>1 DEF Mid
<1>3. /\ a.air \subseteq Calls /\ a.jar \in Nat /\ a.left \in Nat /\ a.signIns \in Nat
      /\ a.owed \in Nat /\ a.keptLeft \in Nat
  BY <1>2, NumbersAre DEF Accounts
<1>4. a.jar > 0 <=> a.jar # 0
  BY <1>3
<1>5. ~a.up => a.air = {} /\ a.jar = 0
  BY <1>1, <1>4 DEF Mid, Turn, Believed
<1> QED
  BY <1>1, <1>2, <1>3, <1>4, <1>5 DEF Sound, Mid

\* A state that differs only in what the invariant does not speak of.
LEMMA SoundKeeps ==
    ASSUME NEW a, Sound(a), NEW b \in Accounts, SameGuard(a, b), SameSession(a, b), b.air = a.air
    PROVE  Sound(b)
<1>1. Mid(b, a.air, a.air) /\ Watched(b) /\ Unfinished(b)
  BY SameKeeps DEF Sound
<1> QED
  BY <1>1 DEF Sound

LEMMA CheckedSound ==
    ASSUME NEW a, Mid(a, a.air, a.air), IsFiniteSet(a.air), Unfinished(a)
    PROVE  LET b == Checked(a) IN
           Sound(b) /\ Out(b) = Out(a) /\ b.jar = a.jar /\ b.signIns = a.signIns
<1> DEFINE b == Checked(a)
<1>1. PICK New \in SUBSET {Call("menu"), Call("home")} :
              /\ b.air = a.air \union New
              /\ Mid(b, a.air \union New, a.air \union New)
              /\ Watched(b)
              /\ Unfinished(a) => Unfinished(b)
              /\ b.jar = a.jar /\ b.up = a.up /\ b.signIns = a.signIns /\ b.left = a.left
              /\ a.checking => New = {}
  BY CheckedIs
<1>2. \A d \in New : d.at = "waiting"
  BY CallIs DEF Checks
<1>3. IsFiniteSet(New)
  <2>1. {Call("menu"), Call("home")} = {Call("menu")} \union {Call("home")}
    OBVIOUS
  <2>2. IsFiniteSet({Call("menu")})
    BY FS_Singleton
  <2>3. IsFiniteSet({Call("menu")} \union {Call("home")})
    BY <2>2, FS_AddElement
  <2> QED
    BY <2>1, <2>3, FS_Subset
<1> HIDE DEF b
<1>4. IsFiniteSet(b.air)
  BY <1>1, <1>3, FS_Union, ZenonT(40)
<1>5. Out(b) = Out(a)
  BY <1>1, <1>2 DEF Out
<1>6. Sound(b)
  BY <1>1, <1>4 DEF Sound
<1> QED
  BY <1>1, <1>5, <1>6 DEF b

LEMMA InitIs == Init => Sound(acc)
<1> SUFFICES ASSUME Init PROVE Sound(acc)
  OBVIOUS
<1>1. Blank \in Accounts
  BY NumbersAre DEF Blank, Accounts, States
<1>2. [Blank EXCEPT !.keptAt = 1] \in Accounts
  BY <1>1, NumbersAre DEF Accounts
<1>3. /\ acc \in Accounts /\ ~acc.up /\ acc.air = {} /\ acc.jar = 0 /\ ~acc.checking
      /\ acc.state = "signedOut" /\ acc.owed = 0 /\ acc.keptLeft = 0 /\ acc.refusals = 0 /\ acc.keptTrips = 0
  <2> DEFINE AtRest(a) == /\ ~a.up /\ a.air = {} /\ a.jar = 0 /\ ~a.checking /\ a.state = "signedOut"
                          /\ a.owed = 0 /\ a.keptLeft = 0 /\ a.refusals = 0 /\ a.keptTrips = 0
  <2>1. AtRest(Blank)
    BY DEF Blank
  <2>2. AtRest([Blank EXCEPT !.keptAt = 1])
    BY <1>1, <2>1 DEF Accounts
  <2> HIDE DEF AtRest
  <2>3. acc \in Accounts /\ AtRest(acc)
    BY <1>1, <1>2, <2>1, <2>2 DEF Init
  <2> QED
    BY <2>3 DEF AtRest
<1>4. Turn(acc, acc.air) /\ Owing(acc)
  BY <1>3 DEF Turn, Owing
<1>5. Idle(acc.air)
  BY <1>3 DEF Idle
<1>6. /\ Checking(acc, acc.air) /\ Owned(acc, acc.air) /\ Believed(acc) /\ Stored(acc)
      /\ Watched(acc) /\ Unfinished(acc)
  BY <1>3, <1>5, NoSession
<1>7. IsFiniteSet(acc.air)
  BY <1>3, FS_EmptySet
<1> QED
  BY <1>3, <1>4, <1>6, <1>7 DEF Sound, Mid

LEMMA LaunchStep ==
    ASSUME Sound(acc), Launch PROVE Kept
<1> DEFINE timer == acc.keptAt > 0
           state == IF acc.keptAt > 0 THEN "checking" ELSE "signedOut"
           b == [acc EXCEPT !.up = TRUE, !.launches = @ + 1, !.left = acc.keptLeft, !.trips = acc.keptTrips,
                            !.jar = acc.keptAt, !.timer = timer, !.state = state]
<1>1. acc' = b /\ ~acc.up
  BY DEF Launch
<1>2. /\ acc \in Accounts /\ acc.air = {} /\ acc.jar = 0 /\ Owing(acc) /\ Believed(acc)
      /\ acc.keptAt \in Jars /\ acc.keptAt \in Nat /\ IsFiniteSet(acc.air)
  BY <1>1, SoundParts, NumbersAre DEF Accounts
<1>3. ~acc.checking
  BY <1>2 DEF Believed
<1>4. timer \in BOOLEAN /\ state \in States /\ state # "active" /\ (acc.keptAt > 0 => timer)
  BY DEF States
<1> HIDE DEF timer, state
<1>5. b \in Accounts
  <2>1. acc.launches + 1 \in Nat /\ acc.keptLeft \in Hours /\ acc.keptTrips \in Hours
    BY <1>2 DEF Accounts
  <2> QED
    BY <1>2, <1>4, <2>1, ZenonT(40) DEF Accounts
<1>6. /\ b.up /\ b.left = acc.keptLeft /\ b.trips = acc.keptTrips /\ b.jar = acc.keptAt /\ b.keptAt = acc.keptAt
      /\ b.timer = timer /\ b.state = state /\ b.air = acc.air /\ b.checking = acc.checking
      /\ b.keptLeft = acc.keptLeft /\ b.keptTrips = acc.keptTrips /\ b.owed = acc.owed /\ b.refusals = acc.refusals
  BY <1>2 DEF Accounts
<1> HIDE DEF b
<1>7. Turn(b, b.air) /\ Owing(b)
  BY <1>2, <1>6 DEF Turn, Owing
<1>8. Checking(b, b.air) /\ Owned(b, b.air)
  BY <1>2, <1>3, <1>6 DEF Checking, Owned, Waited
<1>9. Believed(b) /\ Stored(b) /\ Watched(b) /\ Unfinished(b)
  BY <1>2, <1>3, <1>4, <1>6 DEF Believed, Stored, Watched, Unfinished
<1>10. Sound(b)
  BY <1>2, <1>5, <1>6, <1>7, <1>8, <1>9 DEF Sound, Mid
<1>11. Out(b) = {} /\ Out(acc) = {}
  BY <1>2, <1>6 DEF Out
<1> QED
  BY <1>1, <1>10, <1>11, EnoughSame

LEMMA QuitStep ==
    ASSUME Sound(acc), Quit PROVE Kept
<1> DEFINE at == IF acc.dirty THEN acc.jar ELSE acc.keptAt
           b == [acc EXCEPT !.keptAt = at]
<1>1. acc' = Down(b)
  BY DEF Quit
<1>2. acc \in Accounts /\ Owing(acc)
  BY SoundParts
<1>3. at \in Jars
  BY <1>2 DEF Accounts
<1> HIDE DEF at
<1>4. b \in Accounts
  BY <1>2, <1>3 DEF Accounts
<1>5. SameGuard(acc, b)
  BY <1>2 DEF Accounts, SameGuard
<1> HIDE DEF b
<1>6. Sound(acc') /\ acc'.jar = 0 /\ Out(acc') = {}
  BY <1>1, <1>2, <1>4, <1>5, DownIs, GuardKeeps
<1> QED
  BY <1>6, EnoughSame

LEMMA CrashStep ==
    ASSUME Sound(acc), Crash PROVE Kept
<1>1. acc' = Down(acc)
  BY DEF Crash
<1>2. Sound(acc') /\ acc'.jar = 0 /\ Out(acc') = {}
  BY <1>1, SoundParts, DownIs
<1> QED
  BY <1>2, EnoughSame

LEMMA SignInStep ==
    ASSUME Sound(acc), SignIn PROVE Kept
<1> DEFINE e == Ended(acc)
           b == [e EXCEPT !.jar = 1, !.keptAt = 1, !.doubted = FALSE,
                          !.state = "checking", !.top = 1, !.signIns = @ + 1]
<1>1. acc' = Checked(b) /\ acc.up
  BY DEF SignIn
<1>2. acc \in Accounts /\ Turn(acc, acc.air) /\ Owing(acc) /\ IsFiniteSet(acc.air) /\ acc.signIns \in Nat
  BY SoundParts
<1>3. /\ e \in Accounts /\ SameGuard(acc, e)
      /\ ~e.checking /\ e.signIns = acc.signIns
      /\ Idle(e.air) /\ Turn(e, e.air)
      /\ IsFiniteSet(e.air) /\ Cardinality(Out(e)) <= Cardinality(Out(acc))
  BY <1>2, EndedIs
<1> HIDE DEF e
<1>4. b \in Accounts
  <2>1. "checking" \in States /\ 1 \in Jars /\ e.signIns + 1 \in Nat
    BY <1>2, <1>3, NumbersAre DEF States
  <2> QED
    BY <1>3, <2>1 DEF Accounts
<1>5. SameGuard(e, b)
  BY <1>3 DEF Accounts, SameGuard
<1>6. /\ b.air = e.air /\ b.jar = 1 /\ b.keptAt = 1 /\ b.state = "checking" /\ ~b.checking
      /\ b.signIns = acc.signIns + 1 /\ b.up = acc.up
  BY <1>3 DEF Accounts, SameGuard
<1> HIDE DEF b
<1>7. Turn(b, b.air) /\ Owing(b)
  BY <1>2, <1>3, <1>5, <1>6, GuardKeeps
<1>8. Believed(b) /\ Stored(b) /\ Unfinished(b)
  BY <1>1, <1>6 DEF Believed, Stored, Unfinished
<1>9. Checking(b, b.air) /\ Owned(b, b.air)
  BY <1>3, <1>6 DEF Checking, Owned, Waited, Idle
<1>10. Mid(b, b.air, b.air)
  BY <1>4, <1>7, <1>8, <1>9 DEF Mid
<1>11. Sound(acc') /\ Out(acc') = Out(b) /\ acc'.signIns = b.signIns
  BY <1>1, <1>3, <1>6, <1>8, <1>10, CheckedSound
<1>12. Out(b) = Out(e)
  BY <1>6 DEF Out
<1>13. acc'.signIns # acc.signIns
  BY <1>2, <1>6, <1>11
<1> QED
  BY <1>3, <1>11, <1>12, <1>13, Enough

LEMMA SignOutStep ==
    ASSUME Sound(acc), SignOut PROVE Kept
<1> DEFINE e == Ended(acc)
           b == [e EXCEPT !.state = "signedOut", !.keptAt = 0]
<1>1. acc' = b
  BY DEF SignOut
<1>2. acc \in Accounts /\ Turn(acc, acc.air) /\ Owing(acc) /\ IsFiniteSet(acc.air)
  BY SoundParts
<1>3. /\ e \in Accounts /\ SameGuard(acc, e) /\ e.jar = 0 /\ ~e.checking
      /\ Idle(e.air) /\ Turn(e, e.air)
      /\ IsFiniteSet(e.air) /\ Cardinality(Out(e)) <= Cardinality(Out(acc))
  BY <1>2, EndedIs
<1> HIDE DEF e
<1>4. b \in Accounts
  <2>1. "signedOut" \in States /\ 0 \in Jars
    BY NumbersAre DEF States
  <2> QED
    BY <1>3, <2>1 DEF Accounts
<1>5. SameGuard(e, b)
  BY <1>3 DEF Accounts, SameGuard
<1>6. b.air = e.air /\ b.jar = 0 /\ b.keptAt = 0 /\ b.state = "signedOut" /\ ~b.checking
  BY <1>3 DEF Accounts
<1> HIDE DEF b
<1>7. Turn(b, b.air) /\ Owing(b)
  BY <1>2, <1>3, <1>5, <1>6, GuardKeeps
<1>8. Checking(b, b.air) /\ Owned(b, b.air) /\ Believed(b) /\ Stored(b) /\ Watched(b) /\ Unfinished(b)
  BY <1>3, <1>6, NoSession
<1>9. Sound(b)
  BY <1>3, <1>4, <1>6, <1>7, <1>8 DEF Sound, Mid
<1>10. Out(b) = Out(e)
  BY <1>6 DEF Out
<1> QED
  BY <1>1, <1>3, <1>6, <1>9, <1>10, Enough

LEMMA CheckNowStep ==
    ASSUME Sound(acc), CheckNow PROVE Kept
<1>1. acc' = Checked(acc)
  BY DEF CheckNow
<1>2. Sound(acc') /\ Out(acc') = Out(acc) /\ acc'.jar = acc.jar
  BY <1>1, SoundParts, CheckedSound
<1> QED
  BY <1>2, EnoughSame

LEMMA CheckDueStep ==
    ASSUME Sound(acc), CheckDue PROVE Kept
<1> DEFINE b == [acc EXCEPT !.timer = FALSE]
<1>1. acc' = Checked(b)
  BY DEF CheckDue
<1>2. /\ acc \in Accounts /\ IsFiniteSet(acc.air) /\ Mid(acc, acc.air, acc.air) /\ Unfinished(acc)
  BY SoundParts
<1>3. b \in Accounts
  BY <1>2 DEF Accounts
<1>4. SameGuard(acc, b)
  BY <1>2 DEF Accounts, SameGuard
<1>5. /\ b.air = acc.air /\ b.state = acc.state /\ b.jar = acc.jar /\ b.checking = acc.checking
      /\ b.menu = acc.menu /\ b.home = acc.home /\ b.proved = acc.proved /\ b.up = acc.up
      /\ b.dirty = acc.dirty /\ b.keptAt = acc.keptAt
  BY <1>2 DEF Accounts
<1> HIDE DEF b
<1>6. Turn(b, b.air) /\ Owing(b)
  BY <1>2, <1>4, <1>5, GuardKeeps DEF Mid
<1>7. Checking(b, b.air) /\ Owned(b, b.air) /\ Believed(b) /\ Stored(b) /\ Unfinished(b)
  BY <1>2, <1>5 DEF Mid, Checking, Owned, Believed, Stored, Unfinished
<1>8. Sound(acc') /\ Out(acc') = Out(b) /\ acc'.jar = acc.jar
  BY <1>1, <1>2, <1>3, <1>5, <1>6, <1>7, CheckedSound DEF Mid
<1>9. Out(b) = Out(acc)
  BY <1>5 DEF Out
<1> QED
  BY <1>8, <1>9, EnoughSame

LEMMA SaveDueStep ==
    ASSUME Sound(acc), SaveDue PROVE Kept
<1> DEFINE b == [acc EXCEPT !.dirty = FALSE, !.keptAt = acc.jar]
<1>1. acc' = b
  BY DEF SaveDue
<1>2. /\ acc \in Accounts /\ IsFiniteSet(acc.air) /\ Mid(acc, acc.air, acc.air)
      /\ Unfinished(acc) /\ Watched(acc) /\ acc.jar \in Nat
  BY SoundParts
<1>3. b \in Accounts
  BY <1>2 DEF Accounts
<1>4. SameGuard(acc, b)
  BY <1>2 DEF Accounts, SameGuard
<1>5. /\ b.air = acc.air /\ b.state = acc.state /\ b.jar = acc.jar /\ b.checking = acc.checking
      /\ b.menu = acc.menu /\ b.home = acc.home /\ b.proved = acc.proved /\ b.up = acc.up
      /\ b.keptAt = acc.jar /\ b.timer = acc.timer
  BY <1>2 DEF Accounts
<1> HIDE DEF b
<1>6. Turn(b, b.air) /\ Owing(b)
  BY <1>2, <1>4, <1>5, GuardKeeps DEF Mid
<1>7. /\ Checking(b, b.air) /\ Owned(b, b.air) /\ Believed(b) /\ Stored(b)
      /\ Unfinished(b) /\ Watched(b)
  BY <1>2, <1>5 DEF Mid, Checking, Owned, Believed, Stored, Unfinished, Watched
<1>8. Sound(b) /\ Out(b) = Out(acc)
  BY <1>2, <1>3, <1>5, <1>6, <1>7 DEF Sound, Mid, Out
<1> QED
  BY <1>1, <1>5, <1>8, EnoughSame

LEMMA RestEndsStep ==
    ASSUME Sound(acc), RestEnds PROVE Kept
<1>1. acc' = Resumed(acc)
  BY DEF RestEnds
<1>2. /\ acc' \in Accounts /\ SameGuard(acc, acc') /\ SameSession(acc, acc') /\ acc'.air = acc.air
  BY <1>1, SoundParts, ResumedIs
<1>3. Sound(acc') /\ Out(acc') = Out(acc) /\ acc'.jar = acc.jar
  BY <1>2, SoundKeeps DEF Out, SameSession
<1> QED
  BY <1>3, EnoughSame

Unheld(c) == [c EXCEPT !.held = FALSE]

\* Calls that have outlived their turn: whatever the guard does now, none holds it.
LEMMA UnheldIs ==
    ASSUME NEW a, Sound(a)
    PROVE  LET air == {Unheld(c) : c \in a.air} IN
           /\ air \in SUBSET Calls /\ IsFiniteSet(air)
           /\ \A b : b.up = a.up => Turn(b, air)
           /\ Checking(a, air) /\ Owned(a, air)
           /\ \A b : b.air = air => Cardinality(Out(b)) <= Cardinality(Out(a))
<1> DEFINE air == {Unheld(c) : c \in a.air}
<1>1. a.air \subseteq Calls /\ IsFiniteSet(a.air) /\ Turn(a, a.air) /\ Checking(a, a.air) /\ Owned(a, a.air)
  BY SoundParts
<1>2. ASSUME NEW c \in Calls
      PROVE  /\ Unheld(c) \in Calls /\ ~Unheld(c).held /\ Unheld(c).last = c.last /\ Unheld(c).at = c.at
             /\ Unheld(c).what = c.what /\ Unheld(c).live = c.live /\ Unheld(c).mine = c.mine
  BY DEF Unheld, Calls
<1>3. \A d \in air : \E c \in a.air : d = Unheld(c)
  OBVIOUS
<1>4. \A c \in a.air : Unheld(c) \in air
  OBVIOUS
<1>5. air \in SUBSET Calls
  BY <1>1, <1>2
<1>6. IsFiniteSet(air)
  <2> DEFINE f == [c \in a.air |-> Unheld(c)]
  <2>1. f \in Surjection(a.air, air)
    BY DEF Surjection
  <2> HIDE DEF air
  <2> QED
    BY <1>1, <2>1, FS_Surjection
<1> HIDE DEF air
<1>7. ASSUME NEW b, b.up = a.up PROVE Turn(b, air)
  <2>1. \A d \in air : ~d.held
    BY <1>1, <1>2, <1>3
  <2>2. \A d1, d2 \in air : d1.last /\ d2.last => d1 = d2
    BY <1>1, <1>2, <1>3 DEF Turn
  <2>3. air # {} => b.up
    BY <1>1, <1>3, <1>7 DEF Turn
  <2> QED
    BY <2>1, <2>2, <2>3 DEF Turn
<1>8. Owned(a, air)
  BY <1>1, <1>2, <1>3 DEF Owned
<1>9. ASSUME NEW what
      PROVE  /\ \A d \in Waited(air, what) : \E c \in Waited(a.air, what) : d = Unheld(c)
             /\ Waited(a.air, what) # {} => Waited(air, what) # {}
  BY <1>1, <1>2, <1>3, <1>4 DEF Waited
<1>10. Checking(a, air)
  BY <1>1, <1>9 DEF Checking
<1>11. ASSUME NEW b, b.air = air PROVE Cardinality(Out(b)) <= Cardinality(Out(a))
  <2> DEFINE f == [c \in Out(a) |-> Unheld(c)]
  <2>1. f = [c \in Out(a) |-> f[c]]
    OBVIOUS
  <2>2. \A d \in Out(b) : \E c \in Out(a) : d = f[c]
    BY <1>1, <1>2, <1>3, <1>11 DEF Out
  <2> HIDE DEF f
  <2> QED
    BY <1>1, <2>1, <2>2, FewerOut
<1> QED
  BY <1>5, <1>6, <1>7, <1>8, <1>10, <1>11 DEF air

\* What passing time leaves of a state, whatever the guard and its counts become.
LEMMA UnheldSound ==
    ASSUME Sound(acc), NEW b \in Accounts, SameSession(acc, b),
           b.air = {Unheld(c) : c \in acc.air}, Owing(b)
    PROVE  Sound(b) /\ Cardinality(Out(b)) <= Cardinality(Out(acc)) /\ b.jar = acc.jar
<1>1. b.up = acc.up /\ b.jar = acc.jar
  BY DEF SameSession
<1>2. /\ IsFiniteSet(b.air) /\ Turn(b, b.air) /\ Checking(acc, b.air) /\ Owned(acc, b.air)
      /\ Cardinality(Out(b)) <= Cardinality(Out(acc))
  BY <1>1, UnheldIs
<1>3. Checking(b, b.air) /\ Owned(b, b.air) /\ Believed(b) /\ Stored(b) /\ Watched(b) /\ Unfinished(b)
  BY <1>2, SoundParts, SessionKeeps
<1> QED
  BY <1>1, <1>2, <1>3 DEF Sound, Mid

LEMMA LaterIs ==
    ASSUME NEW a \in Accounts, {Unheld(c) : c \in a.air} \in SUBSET Calls
    PROVE  LET b == Later(a) IN
           /\ b \in Accounts /\ SameSession(a, b) /\ b.air = {Unheld(c) : c \in a.air}
           /\ b.left = a.left /\ b.trips = a.trips /\ b.keptLeft = a.keptLeft /\ b.keptTrips = a.keptTrips
           /\ b.owed = a.owed /\ b.refusals = a.refusals
<1> DEFINE busy == IF a.busy = "held" THEN "late" ELSE a.busy
           air == {Unheld(c) : c \in a.air}
           b == [a EXCEPT !.busy = busy, !.recent = FALSE, !.air = air]
<1>1. Later(a) = b
  BY DEF Later, Unheld
<1>2. busy \in {"free", "held", "late"}
  BY DEF Accounts
<1>3. air \in SUBSET Calls
  OBVIOUS
<1> HIDE DEF busy, air
<1>4. b \in Accounts
  BY <1>2, <1>3 DEF Accounts
<1>5. /\ b.air = air /\ b.left = a.left /\ b.trips = a.trips /\ b.keptLeft = a.keptLeft
      /\ b.keptTrips = a.keptTrips /\ b.owed = a.owed /\ b.refusals = a.refusals
  BY DEF Accounts
<1>6. SameSession(a, b)
  BY DEF Accounts, SameSession
<1> QED
  BY <1>1, <1>4, <1>5, <1>6 DEF air

LEMMA OutlivesTurnStep ==
    ASSUME Sound(acc), OutlivesTurn PROVE Kept
<1> DEFINE air == {Unheld(c) : c \in acc.air}
           b == [acc EXCEPT !.busy = "late", !.air = air]
<1>1. acc' = b
  BY DEF OutlivesTurn, Unheld
<1>2. acc \in Accounts /\ Owing(acc) /\ air \in SUBSET Calls
  BY SoundParts, UnheldIs
<1>3. air = {Unheld(c) : c \in acc.air}
  OBVIOUS
<1> HIDE DEF air
<1>4. b \in Accounts
  BY <1>2 DEF Accounts
<1>5. b.air = air /\ SameSession(acc, b)
  BY <1>2 DEF Accounts, SameSession
<1>6. /\ b.up = acc.up /\ b.left = acc.left /\ b.trips = acc.trips /\ b.keptLeft = acc.keptLeft
      /\ b.keptTrips = acc.keptTrips /\ b.owed = acc.owed /\ b.refusals = acc.refusals
  BY <1>2 DEF Accounts
<1> HIDE DEF b
<1>7. Owing(b)
  BY <1>2, <1>6 DEF Owing
<1>8. Sound(b) /\ Cardinality(Out(b)) <= Cardinality(Out(acc)) /\ b.jar = acc.jar
  BY <1>3, <1>4, <1>5, <1>7, UnheldSound
<1> QED
  BY <1>1, <1>8, Enough

LEMMA MinutePassesStep ==
    ASSUME Sound(acc), MinutePasses PROVE Kept
<1>1. acc' = Later(acc)
  BY DEF MinutePasses
<1>2. acc \in Accounts /\ Owing(acc) /\ {Unheld(c) : c \in acc.air} \in SUBSET Calls
  BY SoundParts, UnheldIs
<1>3. /\ acc' \in Accounts /\ SameSession(acc, acc') /\ acc'.air = {Unheld(c) : c \in acc.air}
      /\ acc'.left = acc.left /\ acc'.trips = acc.trips /\ acc'.keptLeft = acc.keptLeft
      /\ acc'.keptTrips = acc.keptTrips /\ acc'.owed = acc.owed /\ acc'.refusals = acc.refusals
  BY <1>1, <1>2, LaterIs
<1>4. Owing(acc')
  BY <1>2, <1>3 DEF Owing, SameSession
<1>5. Sound(acc') /\ Cardinality(Out(acc')) <= Cardinality(Out(acc)) /\ acc'.jar = acc.jar
  BY <1>3, <1>4, UnheldSound
<1> QED
  BY <1>5, Enough

LEMMA TenMinutesPassStep ==
    ASSUME Sound(acc), TenMinutesPass PROVE Kept
<1> DEFINE l == Later(acc)
           b == [l EXCEPT !.doubted = FALSE]
<1>1. acc' = b
  BY DEF TenMinutesPass
<1>2. acc \in Accounts /\ Owing(acc) /\ {Unheld(c) : c \in acc.air} \in SUBSET Calls
  BY SoundParts, UnheldIs
<1>3. /\ l \in Accounts /\ SameSession(acc, l) /\ l.air = {Unheld(c) : c \in acc.air}
      /\ l.left = acc.left /\ l.trips = acc.trips /\ l.keptLeft = acc.keptLeft
      /\ l.keptTrips = acc.keptTrips /\ l.owed = acc.owed /\ l.refusals = acc.refusals
  BY <1>2, LaterIs
<1> HIDE DEF l
<1>4. b \in Accounts
  BY <1>3 DEF Accounts
<1>5. SameGuard(l, b) /\ b.air = l.air
  BY <1>3 DEF Accounts, SameGuard
<1>6. SameSession(l, b)
  BY <1>3 DEF Accounts, SameSession
<1> HIDE DEF b
<1>7. SameSession(acc, b)
  BY <1>3, <1>6 DEF SameSession
<1>8. Owing(l)
  BY <1>2, <1>3 DEF Owing, SameSession
<1>9. Owing(b)
  BY <1>5, <1>8, GuardKeeps
<1>10. Sound(b) /\ Cardinality(Out(b)) <= Cardinality(Out(acc)) /\ b.jar = acc.jar
  BY <1>3, <1>4, <1>5, <1>7, <1>9, UnheldSound
<1> QED
  BY <1>1, <1>10, Enough

LEMMA HourPassesStep ==
    ASSUME Sound(acc), HourPasses PROVE Kept
<1> DEFINE l == Later(acc)
           left == Larger(l.left - 1, 0)
           over == l.over \/ acc.left = 1
           kept == Larger(l.keptLeft - 1, 0)
           owed == Larger(l.owed - 1, 0)
           b == [l EXCEPT !.doubted = FALSE, !.left = left, !.over = over, !.keptLeft = kept, !.owed = owed]
<1>1. acc' = b
  BY DEF HourPasses
<1>2. acc \in Accounts /\ Owing(acc) /\ {Unheld(c) : c \in acc.air} \in SUBSET Calls
  BY SoundParts, UnheldIs
<1>3. /\ l \in Accounts /\ SameSession(acc, l) /\ l.air = {Unheld(c) : c \in acc.air}
      /\ l.left = acc.left /\ l.trips = acc.trips /\ l.keptLeft = acc.keptLeft
      /\ l.keptTrips = acc.keptTrips /\ l.owed = acc.owed /\ l.refusals = acc.refusals
  BY <1>2, LaterIs
<1> HIDE DEF l
<1>4. l.left \in Hours /\ l.keptLeft \in Hours /\ l.owed \in Hours
  BY <1>3 DEF Accounts
<1>5. left \in Hours /\ kept \in Hours /\ owed \in Hours
  BY <1>4, AccountAssumption DEF Hours, Larger
<1>6. over \in BOOLEAN
  BY <1>3 DEF Accounts
<1>7. (l.owed <= l.keptLeft => owed <= kept) /\ (l.left = l.keptLeft => left = kept)
  <2>1. l.left \in Nat /\ l.keptLeft \in Nat /\ l.owed \in Nat
    BY <1>4, NumbersAre
  <2> QED
    BY <2>1 DEF Larger
<1> HIDE DEF left, kept, owed, over
<1>8. b \in Accounts
  BY <1>3, <1>5, <1>6 DEF Accounts
<1>9. /\ b.air = l.air /\ b.left = left /\ b.keptLeft = kept /\ b.owed = owed
      /\ b.up = l.up /\ b.trips = l.trips /\ b.keptTrips = l.keptTrips /\ b.refusals = l.refusals
  BY <1>3 DEF Accounts
<1>10. SameSession(l, b)
  BY <1>3 DEF Accounts, SameSession
<1> HIDE DEF b
<1>11. SameSession(acc, b)
  BY <1>3, <1>10 DEF SameSession
<1>12. l.up = acc.up
  BY <1>3 DEF SameSession
<1>13. Owing(b)
  BY <1>2, <1>3, <1>7, <1>9, <1>12 DEF Owing
<1>14. Sound(b) /\ Cardinality(Out(b)) <= Cardinality(Out(acc)) /\ b.jar = acc.jar
  BY <1>3, <1>8, <1>9, <1>11, <1>13, UnheldSound
<1> QED
  BY <1>1, <1>14, Enough

LEMMA RefusalForgottenStep ==
    ASSUME Sound(acc), RefusalForgotten PROVE Kept
<1> DEFINE refusals == acc.refusals - 1
           trips == Larger(acc.trips - 1, 0)
           kept == Larger(acc.keptTrips - 1, 0)
           b == [acc EXCEPT !.refusals = refusals, !.trips = trips, !.keptTrips = kept]
<1>1. acc' = b /\ acc.refusals > (IF acc.owed > 0 THEN 1 ELSE 0)
  BY DEF RefusalForgotten
<1>2. /\ acc \in Accounts /\ Owing(acc) /\ Turn(acc, acc.air) /\ IsFiniteSet(acc.air)
  BY SoundParts
<1>3. acc.refusals \in Hours /\ acc.trips \in Hours /\ acc.keptTrips \in Hours
  BY <1>2 DEF Accounts
<1>4. acc.refusals > 0
  BY <1>1, <1>3, NumbersAre
<1>5. refusals \in Hours /\ trips \in Hours /\ kept \in Hours
  BY <1>3, <1>4, AccountAssumption DEF Hours, Larger
<1>6. (acc.refusals <= acc.keptTrips => refusals <= kept) /\ (acc.trips = acc.keptTrips => trips = kept)
  <2>1. acc.refusals \in Nat /\ acc.trips \in Nat /\ acc.keptTrips \in Nat
    BY <1>3, NumbersAre
  <2> QED
    BY <2>1, <1>4 DEF Larger
<1> HIDE DEF refusals, trips, kept
<1>7. b \in Accounts
  BY <1>2, <1>5 DEF Accounts
<1>8. /\ b.air = acc.air /\ b.left = acc.left /\ b.keptLeft = acc.keptLeft /\ b.owed = acc.owed
      /\ b.up = acc.up /\ b.trips = trips /\ b.keptTrips = kept /\ b.refusals = refusals /\ b.busy = acc.busy
  BY <1>2 DEF Accounts
<1>9. SameSession(acc, b)
  BY <1>2 DEF Accounts, SameSession
<1> HIDE DEF b
<1>10. Owing(b)
  BY <1>2, <1>6, <1>8 DEF Owing
<1>11. Turn(b, b.air)
  BY <1>2, <1>8 DEF Turn
<1>12. Checking(b, b.air) /\ Owned(b, b.air) /\ Believed(b) /\ Stored(b) /\ Watched(b) /\ Unfinished(b)
  BY <1>8, <1>9, SoundParts, SessionKeeps
<1>13. Sound(b) /\ Out(b) = Out(acc) /\ b.jar = acc.jar
  BY <1>2, <1>7, <1>8, <1>9, <1>10, <1>11, <1>12 DEF Sound, Mid, Out, SameSession
<1> QED
  BY <1>1, <1>13, EnoughSame

-----------------------------------------------------------------------------
(* Calls that come and go *)

LEMMA Dropped ==
    ASSUME NEW a, NEW S, Checking(a, S), NEW c, ~(c.live /\ c.what \in Checks)
    PROVE  Checking(a, S \ {c})
<1>1. Waited(S \ {c}, "menu") = Waited(S, "menu") /\ Waited(S \ {c}, "home") = Waited(S, "home")
  BY DEF Waited, Checks
<1> QED
  BY <1>1 DEF Checking

LEMMA Swapped ==
    ASSUME NEW a, NEW S, Checking(a, S), NEW c \in S, NEW d, d.what = c.what, d.live = c.live
    PROVE  Checking(a, (S \ {c}) \union {d})
<1> DEFINE R == (S \ {c}) \union {d}
<1>1. ASSUME NEW what
      PROVE  /\ \A x \in Waited(R, what) : \E y \in Waited(S, what) : (x = d /\ y = c) \/ (x = y /\ y # c)
             /\ Waited(S, what) # {} => Waited(R, what) # {}
  BY DEF Waited
<1> HIDE DEF R
<1>2. /\ \A x \in Waited(R, "menu") : a.checking /\ a.menu = "none"
      /\ \A x \in Waited(R, "home") : a.checking /\ a.home = "none"
  BY <1>1 DEF Checking
<1>3. \A x1, x2 \in Waited(R, "menu") : x1 = x2
  BY <1>1 DEF Checking
<1>4. \A x1, x2 \in Waited(R, "home") : x1 = x2
  BY <1>1 DEF Checking
<1>5. /\ a.checking /\ a.menu = "none" => Waited(R, "menu") # {}
      /\ a.checking /\ a.home = "none" => Waited(R, "home") # {}
  BY <1>1 DEF Checking
<1>6. a.checking /\ (a.menu = "named" \/ a.home = "in") => a.proved
  BY DEF Checking
<1>7. Checking(a, R)
  BY <1>2, <1>3, <1>4, <1>5, <1>6 DEF Checking
<1> QED
  BY <1>7 DEF R

LEMMA Added ==
    ASSUME NEW a, NEW S, Checking(a, S), NEW d, d.what \notin Checks
    PROVE  Checking(a, S \union {d})
<1>1. Waited(S \union {d}, "menu") = Waited(S, "menu") /\ Waited(S \union {d}, "home") = Waited(S, "home")
  BY DEF Waited, Checks
<1> QED
  BY <1>1 DEF Checking

LEMMA TurnSwapped ==
    ASSUME NEW a, NEW T, Turn(a, T), NEW c \in T,
           NEW d, d.held = c.held, d.last = c.last, d.held => d.at = c.at
    PROVE  Turn(a, (T \ {c}) \union {d})
BY DEF Turn

LEMMA AirIs ==
    ASSUME NEW a \in Accounts, NEW air \in SUBSET Calls
    PROVE  LET b == [a EXCEPT !.air = air] IN
           /\ b \in Accounts /\ SameGuard(a, b) /\ SameSession(a, b)
           /\ b.air = air /\ b.jar = a.jar /\ b.signIns = a.signIns
<1>1. [a EXCEPT !.air = air] \in Accounts
  BY DEF Accounts
<1>2. SameGuard(a, [a EXCEPT !.air = air])
  BY DEF Accounts, SameGuard
<1>3. SameSession(a, [a EXCEPT !.air = air])
  BY DEF Accounts, SameSession
<1> QED
  BY <1>1, <1>2, <1>3 DEF Accounts

LEMMA AirSound ==
    ASSUME NEW a, NEW T, NEW S, Mid(a, T, S), Watched(a), Unfinished(a),
           NEW air \in SUBSET Calls, IsFiniteSet(air), Turn(a, air), Checking(a, air), Owned(a, air)
    PROVE  LET b == [a EXCEPT !.air = air] IN
           Sound(b) /\ b.air = air /\ b.jar = a.jar /\ b.signIns = a.signIns
<1> DEFINE b == [a EXCEPT !.air = air]
<1>1. /\ b \in Accounts /\ SameGuard(a, b) /\ SameSession(a, b)
      /\ b.air = air /\ b.jar = a.jar /\ b.signIns = a.signIns
  BY AirIs DEF Mid
<1> HIDE DEF b
<1>2. Mid(a, air, air)
  BY DEF Mid
<1>3. Sound(b)
  BY <1>1, <1>2, SameKeeps DEF Sound
<1> QED
  BY <1>1, <1>3 DEF b

LEMMA AskStep ==
    ASSUME Sound(acc), NEW what \in {"feed", "track"}, Ask(what) PROVE Kept
<1> DEFINE air == acc.air \union {Call(what)}
<1>1. acc' = [acc EXCEPT !.air = air] /\ acc.up
  BY DEF Ask
<1>2. /\ Mid(acc, acc.air, acc.air) /\ Watched(acc) /\ Unfinished(acc) /\ acc.air \subseteq Calls
      /\ IsFiniteSet(acc.air) /\ Turn(acc, acc.air) /\ Checking(acc, acc.air) /\ Owned(acc, acc.air)
  BY SoundParts
<1>3. /\ Call(what) \in Calls /\ Call(what).what \notin Checks /\ Call(what).at = "waiting"
      /\ ~Call(what).mine /\ ~Call(what).last /\ ~Call(what).held
  <2>1. what \in Checks \union {"feed", "track", "report", "lookup"} /\ what \notin Checks
    BY DEF Checks
  <2> QED
    BY <2>1, CallIs
<1>4. air \in SUBSET Calls /\ IsFiniteSet(air)
  BY <1>2, <1>3, FS_AddElement
<1>5. Turn(acc, air)
  BY <1>1, <1>2, <1>3, OneMore
<1>6. Checking(acc, air)
  BY <1>2, <1>3, Added
<1>7. Owned(acc, air)
  BY <1>2, <1>3 DEF Owned
<1>8. \A c \in air : c.at = "out" => c \in acc.air
  BY <1>3
<1> HIDE DEF air
<1>9. Sound(acc') /\ acc'.air = air /\ acc'.jar = acc.jar
  BY <1>1, <1>2, <1>4, <1>5, <1>6, <1>7, AirSound
<1>10. Out(acc') \subseteq Out(acc)
  BY <1>8, <1>9 DEF Out
<1> QED
  BY <1>9, <1>10, EnoughSame

LEMMA RefusalToldStep ==
    ASSUME Sound(acc), NEW c \in acc.air, RefusalTold(c) PROVE Kept
<1> DEFINE t == Told(acc, c, "nothing")
<1>1. acc' = t
  BY DEF RefusalTold
<1>2. /\ Mid(acc, acc.air, acc.air) /\ Watched(acc) /\ IsFiniteSet(acc.air) /\ c \in Calls
  BY SoundParts
<1>3. /\ acc.air \ {c} \subseteq acc.air /\ acc.air \subseteq acc.air \union {c} /\ (c.live => c \in acc.air)
      /\ Sayable(c.what, "nothing")
  BY DEF Sayable
<1>4. /\ Sound(t)
      /\ t.signIns = acc.signIns
      /\ t.jar = 0 \/ (t.jar = acc.jar /\ t.air = acc.air \ {c})
      /\ Cardinality(Out(t)) <= Cardinality(Out(acc))
  BY <1>2, <1>3, ToldIs
<1> HIDE DEF t
<1> QED
  BY <1>1, <1>4, Enough

LEMMA TurnPutOffStep ==
    ASSUME Sound(acc), NEW c \in acc.air, TurnPutOff(c) PROVE Kept
<1>1. acc' = Resumed(acc)
  BY DEF TurnPutOff
<1>2. /\ acc' \in Accounts /\ SameGuard(acc, acc') /\ SameSession(acc, acc') /\ acc'.air = acc.air
  BY <1>1, SoundParts, ResumedIs
<1>3. Sound(acc') /\ Out(acc') = Out(acc) /\ acc'.jar = acc.jar
  BY <1>2, SoundKeeps DEF Out, SameSession
<1> QED
  BY <1>3, EnoughSame

\* A call refused its turn: a check still has its caller to tell, and none else
\* waits for one.
LEMMA TurnRefusedStep ==
    ASSUME Sound(acc), NEW c \in acc.air, TurnRefused(c) PROVE Kept
<1> DEFINE a == IF Carries(c) /\ ~Withheld(c) THEN Resumed(acc) ELSE acc
           d == [c EXCEPT !.at = "refused"]
           told == (acc.air \ {c}) \union {d}
           gone == acc.air \ {c}
           told1 == Carries(c) /\ c.what \in Checks
<1>1. /\ acc' = IF told1 THEN [a EXCEPT !.air = (a.air \ {c}) \union {d}] ELSE [a EXCEPT !.air = a.air \ {c}]
      /\ c.at = "waiting"
  BY DEF TurnRefused
<1>2. /\ a \in Accounts /\ SameGuard(acc, a) /\ SameSession(acc, a) /\ a.air = acc.air
  <2>1. SameGuard(acc, acc) /\ SameSession(acc, acc)
    BY DEF SameGuard, SameSession
  <2> QED
    BY <2>1, SoundParts, ResumedIs
<1> HIDE DEF a
<1>3. Sound(a) /\ a.jar = acc.jar
  BY <1>2, SoundKeeps DEF SameSession
<1>4. /\ Mid(a, a.air, a.air) /\ Watched(a) /\ Unfinished(a) /\ a.air \subseteq Calls
      /\ IsFiniteSet(a.air) /\ Turn(a, a.air) /\ Checking(a, a.air) /\ Owned(a, a.air) /\ Believed(a)
      /\ a.jar > 0 <=> a.jar # 0
  BY <1>3, SoundParts
<1>5. c \in Calls /\ c \in a.air /\ ~c.held
  BY <1>1, <1>2, <1>4 DEF Turn
<1>6. CASE told1
  <2>1. /\ d \in Calls /\ d.what = c.what /\ d.live = c.live /\ d.at = "refused" /\ d.mine = c.mine
        /\ d.held = c.held /\ d.last = c.last
    BY <1>5 DEF Calls
  <2> HIDE DEF d
  <2> DEFINE air == (a.air \ {c}) \union {d}
  <2>2. air \in SUBSET Calls /\ IsFiniteSet(air)
    <3>1. IsFiniteSet(a.air \ {c})
      BY <1>4, FS_RemoveElement
    <3> QED
      BY <1>4, <2>1, <3>1, FS_AddElement
  <2>3. Turn(a, air)
    BY <1>4, <1>5, <2>1, TurnSwapped
  <2>4. Checking(a, air)
    BY <1>4, <1>5, <2>1, Swapped
  <2>5. Owned(a, air)
    BY <1>4, <1>5, <2>1 DEF Owned
  <2>6. \A x \in air : x.at = "out" => x \in acc.air
    BY <1>2, <2>1
  <2> HIDE DEF air
  <2>7. acc' = [a EXCEPT !.air = air]
    BY <1>1, <1>6 DEF air, d
  <2>8. Sound(acc') /\ acc'.air = air /\ acc'.jar = a.jar
    BY <1>4, <2>2, <2>3, <2>4, <2>5, <2>7, AirSound
  <2>9. Out(acc') \subseteq Out(acc)
    BY <2>6, <2>8 DEF Out
  <2> QED
    BY <1>3, <2>8, <2>9, EnoughSame
<1>7. CASE ~told1
  <2> DEFINE air == a.air \ {c}
  <2>1. ~(c.live /\ c.what \in Checks)
    <3> SUFFICES ASSUME c.live, c.what \in Checks PROVE FALSE
      OBVIOUS
    <3>1. c \in Waited(a.air, c.what) /\ c.what \in {"menu", "home"}
      BY <1>5 DEF Waited, Checks
    <3>2. a.jar > 0
      BY <1>4, <3>1 DEF Checking, Believed
    <3>3. Carries(c)
      BY <1>3, <3>2 DEF Carries
    <3> QED
      BY <1>7, <3>3
  <2>2. air \in SUBSET Calls /\ IsFiniteSet(air)
    BY <1>4, FS_RemoveElement
  <2>3. Turn(a, air) /\ Owned(a, air)
    BY <1>4 DEF Turn, Owned
  <2>4. Checking(a, air)
    BY <1>4, <2>1, Dropped
  <2>5. \A x \in air : x.at = "out" => x \in acc.air
    BY <1>2
  <2> HIDE DEF air
  <2>6. acc' = [a EXCEPT !.air = air]
    BY <1>1, <1>7 DEF air
  <2>7. Sound(acc') /\ acc'.air = air /\ acc'.jar = a.jar
    BY <1>4, <2>2, <2>3, <2>4, <2>6, AirSound
  <2>8. Out(acc') \subseteq Out(acc)
    BY <2>5, <2>7 DEF Out
  <2> QED
    BY <1>3, <2>7, <2>8, EnoughSame
<1> QED
  BY <1>6, <1>7

LEMMA RotatesStep ==
    ASSUME Sound(acc), NEW c \in acc.air, Rotates(c) PROVE Kept
<1> DEFINE top == acc.top + 1
           d == [c EXCEPT !.brought = top]
           air == (acc.air \ {c}) \union {d}
           b == [acc EXCEPT !.top = top, !.air = air]
<1>1. acc' = b /\ c.at = "out" /\ acc.top <= MaxRotations
  BY DEF Rotates
<1>2. /\ acc \in Accounts /\ acc.air \subseteq Calls
      /\ IsFiniteSet(acc.air) /\ Turn(acc, acc.air) /\ Checking(acc, acc.air) /\ Owned(acc, acc.air)
      /\ Owing(acc) /\ Believed(acc) /\ Stored(acc) /\ Watched(acc) /\ Unfinished(acc)
  BY SoundParts
<1>3. c \in Calls /\ top \in Jars
  BY <1>1, <1>2, NumbersAre DEF Accounts, Jars
<1> HIDE DEF top
<1>4. /\ d \in Calls /\ d.what = c.what /\ d.live = c.live /\ d.at = c.at /\ d.mine = c.mine
      /\ d.held = c.held /\ d.last = c.last
  BY <1>3 DEF Calls
<1> HIDE DEF d
<1>5. air \in SUBSET Calls /\ IsFiniteSet(air)
  <2>1. IsFiniteSet(acc.air \ {c})
    BY <1>2, FS_RemoveElement
  <2> QED
    BY <1>2, <1>4, <2>1, FS_AddElement
<1>6. Turn(acc, air)
  BY <1>2, <1>4, TurnSwapped
<1>7. Checking(acc, air)
  BY <1>2, <1>4, Swapped
<1>8. Owned(acc, air)
  BY <1>2, <1>4 DEF Owned
<1>9. \A x \in air : x = d \/ (x # c /\ x \in acc.air)
  OBVIOUS
<1> HIDE DEF air
<1>10. b \in Accounts
  BY <1>2, <1>3, <1>5 DEF Accounts
<1>11. SameGuard(acc, b) /\ b.air = air /\ b.jar = acc.jar
  BY <1>2 DEF Accounts, SameGuard
<1>12. SameSession(acc, b)
  BY <1>2 DEF Accounts, SameSession
<1> HIDE DEF b
<1>13. Turn(b, air) /\ Owing(b)
  BY <1>2, <1>6, <1>11, GuardKeeps
<1>14. Checking(b, air) /\ Owned(b, air) /\ Believed(b) /\ Stored(b) /\ Watched(b) /\ Unfinished(b)
  BY <1>2, <1>7, <1>8, <1>12, SessionKeeps
<1>15. Sound(b)
  BY <1>5, <1>10, <1>11, <1>13, <1>14 DEF Sound, Mid
<1>16. Cardinality(Out(b)) <= Cardinality(Out(acc))
  <2> DEFINE f == [x \in Out(acc) |-> IF x = c THEN d ELSE x]
  <2>1. f = [x \in Out(acc) |-> f[x]]
    OBVIOUS
  <2>2. \A y \in Out(b) : \E x \in Out(acc) : y = f[x]
    BY <1>1, <1>9, <1>11 DEF Out
  <2> HIDE DEF f
  <2> QED
    BY <1>2, <2>1, <2>2, FewerOut
<1> QED
  BY <1>1, <1>11, <1>15, <1>16, Enough

\* A call that takes the turn carries the session held, and nobody's answer is lost.
LEMMA SentSound ==
    ASSUME NEW a, Sound(a), a.up, a.jar > 0, a.left = 0, a.busy # "held",
           NEW c \in Calls, c \in a.air \/ c.what \notin Checks
    PROVE  LET b == Sent(a, c) IN Sound(b) /\ b.jar = a.jar /\ b.signIns = a.signIns
<1> DEFINE b == Sent(a, c)
           old(x) == [x EXCEPT !.last = FALSE]
           d == [c EXCEPT !.at = "out", !.mine = TRUE, !.last = TRUE, !.held = TRUE]
<1>1. /\ a \in Accounts /\ IsFiniteSet(a.air) /\ Turn(a, a.air) /\ Owing(a) /\ Checking(a, a.air)
      /\ Owned(a, a.air) /\ Believed(a) /\ Stored(a) /\ Watched(a) /\ Unfinished(a)
  BY SoundParts
<1>2. /\ b \in Accounts /\ SameSession(a, b) /\ b.signIns = a.signIns
      /\ Owing(b) /\ Turn(b, b.air) /\ IsFiniteSet(b.air)
      /\ d \in b.air /\ d.what = c.what /\ d.live = c.live /\ d.mine
      /\ \A x \in a.air : x # c => \E y \in b.air : y.what = x.what /\ y.live = x.live
      /\ \A y \in b.air : y # d => \E x \in a.air : x # c /\ y = old(x)
      /\ \A y \in b.air : y # d => \E x \in a.air : x # c
            /\ y.what = x.what /\ y.live = x.live /\ y.at = x.at
            /\ y.mine = x.mine
  BY <1>1, SentIs
<1>3. ASSUME NEW x \in a.air PROVE old(x).what = x.what /\ old(x).live = x.live
  <2>1. x \in Calls
    BY <1>1 DEF Accounts
  <2> QED
    BY <2>1 DEF Calls
<1> HIDE DEF b, d, old
<1>4. ASSUME NEW what \in Checks
      PROVE  /\ \A y \in Waited(b.air, what) : \E x \in Waited(a.air, what) :
                   (y = d /\ x = c) \/ (x # c /\ y = old(x))
             /\ Waited(a.air, what) # {} => Waited(b.air, what) # {}
  <2>1. ASSUME NEW y \in Waited(b.air, what)
        PROVE  \E x \in Waited(a.air, what) : (y = d /\ x = c) \/ (x # c /\ y = old(x))
    <3>1. CASE y = d
      BY <1>2, <3>1 DEF Waited
    <3>2. CASE y # d
      <4>1. PICK x \in a.air : x # c /\ y = old(x)
        BY <1>2, <3>2 DEF Waited
      <4>2. x \in Waited(a.air, what)
        BY <1>3, <4>1 DEF Waited
      <4> QED
        BY <4>1, <4>2
    <3> QED
      BY <3>1, <3>2
  <2>2. ASSUME NEW x \in Waited(a.air, what) PROVE Waited(b.air, what) # {}
    BY <1>2 DEF Waited
  <2> QED
    BY <2>1, <2>2
<1>5. "menu" \in Checks /\ "home" \in Checks
  BY DEF Checks
<1>6. /\ \A y \in Waited(b.air, "menu") : a.checking /\ a.menu = "none"
      /\ \A y \in Waited(b.air, "home") : a.checking /\ a.home = "none"
  BY <1>1, <1>4, <1>5 DEF Checking
<1>7. \A y1, y2 \in Waited(b.air, "menu") : y1 = y2
  BY <1>1, <1>4, <1>5 DEF Checking
<1>8. \A y1, y2 \in Waited(b.air, "home") : y1 = y2
  BY <1>1, <1>4, <1>5 DEF Checking
<1>9. /\ a.checking /\ a.menu = "none" => Waited(b.air, "menu") # {}
      /\ a.checking /\ a.home = "none" => Waited(b.air, "home") # {}
  BY <1>1, <1>4, <1>5 DEF Checking
<1>10. Checking(a, b.air)
  BY <1>1, <1>6, <1>7, <1>8, <1>9 DEF Checking
<1>11. Owned(a, b.air)
  BY <1>1, <1>2 DEF Owned
<1>12. Checking(b, b.air) /\ Owned(b, b.air) /\ Believed(b) /\ Stored(b) /\ Watched(b) /\ Unfinished(b)
  BY <1>1, <1>2, <1>10, <1>11, SessionKeeps
<1>13. Sound(b)
  BY <1>2, <1>12 DEF Sound, Mid
<1>14. b.jar = a.jar
  BY <1>2 DEF SameSession
<1> QED
  BY <1>2, <1>13, <1>14 DEF b

\* None is sent while a rest is owed: the guard rests as long, and asks itself.
LEMMA SentStep ==
    ASSUME Sound(acc), acc.up, acc.jar > 0, acc.left = 0, acc.busy # "held",
           NEW c \in Calls, c \in acc.air \/ c.what \notin Checks,
           acc' = Sent(Resumed(acc), c)
    PROVE  Kept
<1> DEFINE a == Resumed(acc)
<1>1. acc \in Accounts /\ Owing(acc) /\ acc.owed \in Nat /\ acc.keptLeft \in Nat
  BY SoundParts
<1>2. a \in Accounts /\ SameGuard(acc, a) /\ SameSession(acc, a) /\ a.air = acc.air /\ a.signIns = acc.signIns
  BY <1>1, ResumedIs
<1>3. acc' = Sent(a, c)
  OBVIOUS
<1> HIDE DEF a
<1>4. Sound(a) /\ a.up /\ a.jar = acc.jar /\ a.left = 0 /\ a.busy # "held"
  BY <1>2, SoundKeeps DEF SameSession, SameGuard
<1>5. Sound(acc') /\ acc'.jar = a.jar
  BY <1>2, <1>3, <1>4, SentSound
<1>6. acc.owed = 0
  BY <1>1 DEF Owing
<1>7. RestIsKept /\ CookiesAreTheNewest
  BY <1>4, <1>5, <1>6 DEF RestIsKept, CookiesAreTheNewest
<1> QED
  BY <1>5, <1>7 DEF Kept

LEMMA TurnComesStep ==
    ASSUME Sound(acc), NEW c \in acc.air, TurnComes(c) PROVE Kept
<1>1. acc.jar > 0 /\ acc.left = 0 /\ acc.busy # "held" /\ acc' = Sent(Resumed(acc), c)
  BY DEF TurnComes, Carries
<1>2. c \in Calls /\ acc.up
  BY SoundParts
<1> QED
  BY <1>1, <1>2, SentStep

LEMMA LendStep ==
    ASSUME Sound(acc), Lend PROVE Kept
<1> DEFINE c == [Call("lookup") EXCEPT !.lent = acc.jar]
<1>1. acc.up /\ acc.jar > 0 /\ acc.left = 0 /\ acc.busy # "held" /\ acc' = Sent(Resumed(acc), c)
  BY DEF Lend
<1>2. acc.jar \in Jars
  BY SoundParts DEF Accounts
<1>3. Call("lookup") \in Calls /\ Call("lookup").what = "lookup"
  BY CallIs
<1>4. c \in Calls /\ c.what \notin Checks
  BY <1>2, <1>3 DEF Calls, Checks
<1> HIDE DEF c
<1> QED
  BY <1>1, <1>4, SentStep

-----------------------------------------------------------------------------
(* An answer, and what is done before its caller is told *)

\* c has been answered: it is not on its way any more, but somebody waits for it.
Half(x, c) ==
    /\ Mid(x, x.air, x.air \union {c}) /\ Watched(x) /\ Unfinished(x) /\ IsFiniteSet(x.air)
    /\ c \notin x.air /\ Out(x) = Out(acc) \ {c}
    /\ x.up /\ x.signIns = acc.signIns
    /\ x.jar = acc.jar \/ (c.mine /\ x.jar = c.brought)

\* The same, before the call itself is forgotten.
Hearing(x, c) ==
    /\ Mid(x, acc.air \ {c}, acc.air) /\ Watched(x) /\ Unfinished(x)
    /\ x.air = acc.air /\ x.up /\ x.signIns = acc.signIns
    /\ x.jar = acc.jar \/ (c.mine /\ x.jar = c.brought)

LEMMA EnoughFor ==
    ASSUME Sound(acc), Sound(acc'), Cardinality(Out(acc')) <= Cardinality(Out(acc)),
           NEW c,
           acc'.jar = 0 \/ acc'.jar = acc.jar
              \/ (c.mine /\ acc'.jar = c.brought /\ Out(acc) \ {c} \subseteq Out(acc'))
    PROVE  Kept
<1>1. Cardinality(Out(acc')) \in Nat /\ Cardinality(Out(acc)) \in Nat
  BY OutFinite DEF Sound
<1>2. RestIsKept
  BY <1>1 DEF RestIsKept
<1>3. CookiesAreTheNewest
  BY DEF CookiesAreTheNewest
<1> QED
  BY <1>2, <1>3 DEF Kept

LEMMA HalfEnds ==
    ASSUME Sound(acc), NEW c, NEW x, Half(x, c), Sound(acc'),
           Cardinality(Out(acc')) <= Cardinality(Out(x)),
           acc'.jar = 0 \/ (acc'.jar = x.jar /\ Out(x) \subseteq Out(acc'))
    PROVE  Kept
<1>1. Out(x) \subseteq Out(acc) /\ Out(x) = Out(acc) \ {c}
  BY DEF Half
<1>2. Cardinality(Out(x)) <= Cardinality(Out(acc))
  BY <1>1, NoneAddedOut DEF Sound
<1>3. Cardinality(Out(x)) \in Nat /\ Cardinality(Out(acc)) \in Nat /\ Cardinality(Out(acc')) \in Nat
  BY OutFinite DEF Sound, Half
<1>4. Cardinality(Out(acc')) <= Cardinality(Out(acc))
  BY <1>2, <1>3
<1>5. acc'.jar = 0 \/ acc'.jar = acc.jar
        \/ (c.mine /\ acc'.jar = c.brought /\ Out(acc) \ {c} \subseteq Out(acc'))
  BY <1>1 DEF Half
<1> QED
  BY <1>4, <1>5, EnoughFor

LEMMA FreedHearing ==
    ASSUME Sound(acc), NEW c \in acc.air
    PROVE  Hearing(Freed(acc, c), c)
<1> DEFINE b == Freed(acc, c)
<1>1. /\ acc \in Accounts /\ Turn(acc, acc.air) /\ Owing(acc) /\ Checking(acc, acc.air)
      /\ Owned(acc, acc.air) /\ Believed(acc) /\ Stored(acc) /\ Watched(acc) /\ Unfinished(acc)
      /\ acc.up
  BY SoundParts
<1>2. /\ b \in Accounts /\ SameSession(acc, b) /\ b.air = acc.air /\ b.signIns = acc.signIns
      /\ b.up = acc.up /\ Owing(b) /\ Turn(b, acc.air \ {c})
  BY <1>1, FreedIs
<1> HIDE DEF b
<1>3. /\ Checking(b, acc.air) /\ Owned(b, acc.air) /\ Believed(b) /\ Stored(b)
      /\ Watched(b) /\ Unfinished(b) /\ b.jar = acc.jar
  BY <1>1, <1>2, SessionKeeps DEF SameSession
<1>4. Hearing(b, c)
  BY <1>1, <1>2, <1>3 DEF Hearing, Mid
<1> QED
  BY <1>4 DEF b

\* A rest told of disturbs neither.
LEMMA RestedMid ==
    ASSUME NEW a, NEW T, NEW S, Mid(a, T, S), Watched(a), Unfinished(a), a.up, NEW named \in Hours
    PROVE  LET b == Rested(a, named) IN
           /\ Mid(b, T, S) /\ Watched(b) /\ Unfinished(b)
           /\ b.air = a.air /\ b.up /\ b.signIns = a.signIns /\ b.jar = a.jar
<1> DEFINE b == Rested(a, named)
<1>1. a \in Accounts /\ Owing(a) /\ Turn(a, T) /\ Checking(a, S) /\ Owned(a, S) /\ Believed(a) /\ Stored(a)
  BY DEF Mid
<1>2. /\ b \in Accounts /\ SameSession(a, b) /\ b.air = a.air /\ b.signIns = a.signIns
      /\ Owing(b) /\ Turn(b, T)
  BY <1>1, RestedIs
<1> HIDE DEF b
<1>3. /\ Checking(b, S) /\ Owned(b, S) /\ Believed(b) /\ Stored(b)
      /\ Watched(b) /\ Unfinished(b)
  BY <1>1, <1>2, SessionKeeps
<1>4. b.jar = a.jar /\ b.up
  BY <1>2 DEF SameSession
<1>5. Mid(b, T, S)
  BY <1>2, <1>3 DEF Mid
<1> QED
  BY <1>2, <1>3, <1>4, <1>5 DEF b

LEMMA HeardHearing ==
    ASSUME Sound(acc), NEW c \in acc.air, NEW said, NEW named \in Hours
    PROVE  Hearing(Heard(c, said, named), c)
<1> DEFINE a == Freed(acc, c)
           b == IF said \in {"403", "slow"} THEN Rested(a, named) ELSE a
           h == IF c.mine /\ c.brought > 0 THEN Absorbed(b, c.brought) ELSE b
<1>1. Heard(c, said, named) = h
  BY DEF Heard
<1>2. Hearing(a, c) /\ a.jar = acc.jar
  <2>1. a.jar = acc.jar
    BY SoundParts, FreedIs DEF SameSession
  <2> QED
    BY <2>1, FreedHearing
<1> HIDE DEF a
<1>3. Hearing(b, c) /\ b.jar = acc.jar
  <2>1. CASE said \in {"403", "slow"}
    <3>1. b = Rested(a, named)
      BY <2>1
    <3> HIDE DEF b
    <3>2. /\ Mid(b, acc.air \ {c}, acc.air) /\ Watched(b) /\ Unfinished(b)
          /\ b.air = a.air /\ b.up /\ b.signIns = a.signIns /\ b.jar = a.jar
      BY <1>2, <3>1, RestedMid DEF Hearing
    <3> QED
      BY <1>2, <3>2 DEF Hearing
  <2>2. CASE said \notin {"403", "slow"}
    BY <1>2, <2>2
  <2> QED
    BY <2>1, <2>2
<1> HIDE DEF b
<1>4. CASE c.mine /\ c.brought > 0
  <2>1. h = Absorbed(b, c.brought)
    BY <1>4
  <2> HIDE DEF h
  <2>2. c \in Calls
    BY SoundParts
  <2>3. c.brought \in Jars
    BY <2>2 DEF Calls
  <2>4. Mid(b, acc.air \ {c}, acc.air) /\ b.jar > 0
    BY <1>3, <1>4 DEF Hearing, Mid, Owned
  <2>5. /\ Mid(h, acc.air \ {c}, acc.air)
        /\ Watched(b) => Watched(h)
        /\ Unfinished(b) => Unfinished(h)
        /\ h.air = b.air /\ h.jar = c.brought /\ h.up = b.up /\ h.signIns = b.signIns
    BY <1>4, <2>1, <2>3, <2>4, AbsorbedIs
  <2>6. Hearing(h, c)
    BY <1>3, <1>4, <2>5 DEF Hearing
  <2> QED
    BY <1>1, <2>6
<1>5. CASE ~(c.mine /\ c.brought > 0)
  BY <1>1, <1>3, <1>5
<1> QED
  BY <1>4, <1>5

LEMMA HearingHalf ==
    ASSUME Sound(acc), NEW c \in acc.air, NEW a, Hearing(a, c),
           NEW proved \in BOOLEAN, a.proved => proved
    PROVE  LET b == [a EXCEPT !.air = @ \ {c}, !.proved = proved] IN
           Half(b, c) /\ b.proved = proved /\ b.jar = a.jar
<1> DEFINE air == a.air \ {c}
           b == [a EXCEPT !.air = air, !.proved = proved]
<1>1. /\ a \in Accounts /\ Turn(a, acc.air \ {c}) /\ Owing(a) /\ Checking(a, acc.air)
      /\ Owned(a, acc.air) /\ Believed(a) /\ Stored(a) /\ Watched(a) /\ Unfinished(a)
      /\ a.air = acc.air
  BY DEF Hearing, Mid
<1>2. air \in SUBSET Calls /\ air = acc.air \ {c}
  BY <1>1 DEF Accounts
<1>3. air \union {c} = acc.air /\ c \notin air
  BY <1>2
<1>4. IsFiniteSet(air)
  BY <1>2, FS_RemoveElement DEF Sound
<1> HIDE DEF air
<1>5. b \in Accounts
  BY <1>1, <1>2 DEF Accounts
<1>6. SameGuard(a, b)
  BY <1>1 DEF Accounts, SameGuard
<1>7. /\ b.air = air /\ b.proved = proved /\ b.signIns = a.signIns /\ b.jar = a.jar /\ b.up = a.up
      /\ b.state = a.state /\ b.checking = a.checking /\ b.menu = a.menu /\ b.home = a.home
      /\ b.dirty = a.dirty /\ b.keptAt = a.keptAt /\ b.timer = a.timer
  BY <1>1 DEF Accounts
<1> HIDE DEF b
<1>8. Turn(b, b.air) /\ Owing(b)
  BY <1>1, <1>2, <1>6, <1>7, GuardKeeps
<1>9. Checking(b, acc.air)
  BY <1>1, <1>7 DEF Checking
<1>10. Owned(b, acc.air) /\ Believed(b) /\ Stored(b) /\ Watched(b) /\ Unfinished(b)
  BY <1>1, <1>7 DEF Owned, Believed, Stored, Watched, Unfinished
<1>11. Mid(b, b.air, b.air \union {c})
  BY <1>3, <1>5, <1>7, <1>8, <1>9, <1>10 DEF Mid
<1>12. Out(b) = Out(acc) \ {c}
  BY <1>2, <1>7 DEF Out
<1>13. Half(b, c)
  BY <1>3, <1>4, <1>7, <1>10, <1>11, <1>12 DEF Half, Hearing
<1> QED
  BY <1>7, <1>13 DEF b, air

LEMMA RestedHalf ==
    ASSUME NEW c, NEW x, Half(x, c), NEW named \in Hours
    PROVE  Half(Rested(x, named), c)
<1> DEFINE b == Rested(x, named)
<1>1. /\ Mid(b, x.air, x.air \union {c}) /\ Watched(b) /\ Unfinished(b)
      /\ b.air = x.air /\ b.up /\ b.signIns = x.signIns /\ b.jar = x.jar
  BY RestedMid DEF Half
<1> HIDE DEF b
<1>2. Half(b, c)
  BY <1>1 DEF Half, Out
<1> QED
  BY <1>2 DEF b

LEMMA DoubtedHalf ==
    ASSUME NEW c, c.at = "out", NEW x, Half(x, c)
    PROVE  Half(Doubted(x), c)
<1> DEFINE b == Doubted(x)
           S == x.air \union {c}
<1>1. Mid(x, x.air, S) /\ Watched(x)
  BY DEF Half
<1>2. PICK New \in SUBSET {Call("menu"), Call("home")} :
              /\ b.air = x.air \union New
              /\ Mid(b, x.air \union New, S \union New)
              /\ Watched(b)
              /\ Unfinished(x) => Unfinished(b)
              /\ b.jar = x.jar /\ b.up = x.up /\ b.signIns = x.signIns /\ b.left = x.left
              /\ x.checking => New = {}
  BY <1>1, DoubtedIs
<1>3. \A d \in New : d.at = "waiting"
  BY CallIs DEF Checks
<1> HIDE DEF b
<1>4. S \union New = b.air \union {c}
  BY <1>2
<1>5. c \notin b.air
  BY <1>2, <1>3 DEF Half
<1>6. Out(b) = Out(x)
  BY <1>2, <1>3 DEF Out
<1>7. IsFiniteSet(b.air)
  <2>1. IsFiniteSet(New)
    <3>1. {Call("menu"), Call("home")} = {Call("menu")} \union {Call("home")}
      OBVIOUS
    <3>2. IsFiniteSet({Call("menu")})
      BY FS_Singleton
    <3>3. IsFiniteSet({Call("menu")} \union {Call("home")})
      BY <3>2, FS_AddElement
    <3> QED
      BY <3>1, <3>3, FS_Subset
  <2>2. IsFiniteSet(x.air)
    BY DEF Half
  <2> QED
    BY <1>2, <2>1, <2>2, FS_Union, ZenonT(40)
<1> HIDE DEF S
<1>8. Mid(b, b.air, b.air \union {c})
  BY <1>2, <1>4
<1>9. Half(b, c)
  BY <1>2, <1>5, <1>6, <1>7, <1>8 DEF Half
<1> QED
  BY <1>9 DEF b

LEMMA ReturnedHalf ==
    ASSUME NEW c \in Calls, NEW x, Half(x, c)
    PROVE  Half(Returned(x, c), c)
<1> DEFINE b == Absorbed(x, c.brought)
<1>1. CASE c.mine /\ GivenBack(c) # c.lent
  <2>1. c.brought > 0 /\ Returned(x, c) = b
    BY <1>1 DEF Returned, GivenBack
  <2>2. c.brought \in Jars
    BY DEF Calls
  <2>3. Mid(x, x.air, x.air \union {c}) /\ x.jar > 0
    BY <1>1 DEF Half, Mid, Owned
  <2>4. /\ Mid(b, x.air, x.air \union {c})
        /\ Watched(x) => Watched(b)
        /\ Unfinished(x) => Unfinished(b)
        /\ b.air = x.air /\ b.jar = c.brought /\ b.up = x.up /\ b.signIns = x.signIns
    BY <2>1, <2>2, <2>3, AbsorbedIs
  <2> HIDE DEF b
  <2>5. Half(b, c)
    BY <1>1, <2>4 DEF Half, Out
  <2> QED
    BY <2>1, <2>5
<1>2. CASE ~(c.mine /\ GivenBack(c) # c.lent)
  BY <1>2 DEF Returned
<1> QED
  BY <1>1, <1>2

\* Nobody has to be told but the callers of checks.
LEMMA HalfDone ==
    ASSUME NEW c, NEW x, Half(x, c), ~(c.live /\ c.what \in Checks)
    PROVE  Sound(x)
<1>1. /\ Mid(x, x.air, x.air \union {c}) /\ Watched(x) /\ Unfinished(x) /\ IsFiniteSet(x.air) /\ c \notin x.air
  BY DEF Half
<1>2. (x.air \union {c}) \ {c} = x.air
  BY <1>1
<1>3. Checking(x, x.air)
  BY <1>1, <1>2, Dropped DEF Mid
<1>4. Owned(x, x.air)
  BY <1>1 DEF Mid, Owned
<1>5. Mid(x, x.air, x.air)
  BY <1>1, <1>3, <1>4 DEF Mid
<1> QED
  BY <1>1, <1>5 DEF Sound

LEMMA HalfStep ==
    ASSUME Sound(acc), NEW c, Half(acc', c), ~(c.live /\ c.what \in Checks)
    PROVE  Kept
<1>1. Sound(acc')
  BY HalfDone
<1>2. Cardinality(Out(acc')) <= Cardinality(Out(acc'))
  BY <1>1, OutFinite DEF Sound
<1> QED
  BY <1>1, <1>2, HalfEnds

LEMMA RejectedStep ==
    ASSUME Sound(acc), NEW c, NEW x, Half(x, c), acc' = Rejected(x)
    PROVE  Kept
<1> DEFINE r == Rejected(x)
<1>1. x \in Accounts /\ Turn(x, x.air) /\ Owing(x) /\ IsFiniteSet(x.air)
  BY DEF Half, Mid
<1>2. /\ r.jar = 0
      /\ Mid(r, r.air, r.air)
      /\ Watched(r) /\ Unfinished(r)
      /\ IsFiniteSet(r.air) /\ Cardinality(Out(r)) <= Cardinality(Out(x))
  BY <1>1, RejectedIs
<1>3. Sound(r)
  BY <1>2 DEF Sound
<1>4. acc' = r
  OBVIOUS
<1> HIDE DEF r
<1> QED
  BY <1>2, <1>3, <1>4, HalfEnds

\* The caller told: of a check of the session held.
LEMMA ToldHalf ==
    ASSUME Sound(acc), NEW c \in Calls, NEW x, Half(x, c),
           NEW said, Sayable(c.what, said),
           c.live /\ said \in {"named", "in"} => x.proved,
           acc' = Told(x, c, said)
    PROVE  Kept
<1> DEFINE S == x.air \union {c}
           t == Told(x, c, said)
<1>1. Mid(x, x.air, S) /\ IsFiniteSet(x.air) /\ Watched(x) /\ c \notin x.air
  BY DEF Half
<1>2. x.air \ {c} \subseteq S /\ S \subseteq x.air \union {c} /\ (c.live => c \in S)
  OBVIOUS
<1> HIDE DEF S
<1>3. /\ Sound(t)
      /\ t.signIns = x.signIns
      /\ t.jar = 0 \/ (t.jar = x.jar /\ t.air = x.air \ {c})
      /\ Cardinality(Out(t)) <= Cardinality(Out(x))
  BY <1>1, <1>2, ToldIs
<1>4. acc' = t
  OBVIOUS
<1> HIDE DEF t
<1>5. t.jar = 0 \/ (t.jar = x.jar /\ Out(x) \subseteq Out(t))
  BY <1>1, <1>3 DEF Out
<1> QED
  BY <1>3, <1>4, <1>5, HalfEnds

\* The caller told after the session has been given up: a check no longer current.
LEMMA ToldRejected ==
    ASSUME Sound(acc), NEW c, NEW x, Half(x, c), NEW d \in Calls, ~d.live,
           NEW said, Sayable(d.what, said),
           acc' = Told(Rejected(x), d, said)
    PROVE  Kept
<1> DEFINE r == Rejected(x)
           t == Told(r, d, said)
<1>1. x \in Accounts /\ Turn(x, x.air) /\ Owing(x) /\ IsFiniteSet(x.air)
  BY DEF Half, Mid
<1>2. /\ r.jar = 0
      /\ Mid(r, r.air, r.air)
      /\ Watched(r) /\ Unfinished(r)
      /\ IsFiniteSet(r.air) /\ Cardinality(Out(r)) <= Cardinality(Out(x))
  BY <1>1, RejectedIs
<1>3. acc' = t
  OBVIOUS
<1> HIDE DEF r
<1>4. r.air \ {d} \subseteq r.air /\ r.air \subseteq r.air \union {d}
  OBVIOUS
<1>5. /\ Sound(t)
      /\ t.signIns = r.signIns
      /\ t.jar = 0 \/ (t.jar = r.jar /\ t.air = r.air \ {d})
      /\ Cardinality(Out(t)) <= Cardinality(Out(r))
  BY <1>2, <1>4, ToldIs
<1> HIDE DEF t
<1>6. t.jar = 0
  BY <1>2, <1>5
<1>7. Cardinality(Out(t)) <= Cardinality(Out(x))
  <2>1. Cardinality(Out(t)) \in Nat /\ Cardinality(Out(r)) \in Nat /\ Cardinality(Out(x)) \in Nat
    BY <1>1, <1>2, <1>5, OutFinite DEF Sound
  <2> QED
    BY <1>2, <1>5, <2>1
<1> QED
  BY <1>3, <1>5, <1>6, <1>7, HalfEnds

LEMMA LookupEndsStep ==
    ASSUME Sound(acc), NEW c \in acc.air, LookupEnds(c) PROVE Kept
<1> DEFINE f == Freed(acc, c)
           a == [f EXCEPT !.air = @ \ {c}]
           closed == {a, Returned(a, c)} \union (IF c.mine THEN {Doubted(a)} ELSE {})
           warned == closed \union {Doubted(b) : b \in closed}
<1>1. c.at = "out" /\ c.what = "lookup" /\ acc' \in warned \union {Rested(b, 0) : b \in warned}
  BY DEF LookupEnds
<1>2. c \in Calls
  BY SoundParts
<1>3. Half(a, c)
  <2>1. Hearing(f, c)
    BY FreedHearing
  <2> HIDE DEF f
  <2>2. f \in Accounts
    BY <2>1 DEF Hearing, Mid
  <2>3. f.proved \in BOOLEAN /\ a = [f EXCEPT !.air = @ \ {c}, !.proved = f.proved]
    BY <2>2 DEF Accounts
  <2>4. Half([f EXCEPT !.air = @ \ {c}, !.proved = f.proved], c)
    BY <2>1, <2>3, HearingHalf
  <2> QED
    BY <2>3, <2>4
<1> HIDE DEF a
<1>4. \A b \in closed : Half(b, c)
  BY <1>1, <1>2, <1>3, ReturnedHalf, DoubtedHalf
<1> HIDE DEF closed
<1>5. \A b \in warned : Half(b, c)
  BY <1>1, <1>4, DoubtedHalf
<1> HIDE DEF warned
<1>6. Half(acc', c)
  BY <1>1, <1>5, NumbersAre, RestedHalf
<1>7. c.what \notin Checks
  BY <1>1 DEF Checks
<1> QED
  BY <1>6, <1>7, HalfStep

\* Asked once more: the new call is waited for in the old one's place.
LEMMA AgainStep ==
    ASSUME Sound(acc), NEW c \in Calls, NEW x, Half(x, c), c.what \in Checks \union {"feed"},
           acc' = [x EXCEPT !.air = @ \union {[Call(c.what) EXCEPT !.live = c.live]}]
    PROVE  Kept
<1> DEFINE d == [Call(c.what) EXCEPT !.live = c.live]
           air == x.air \union {d}
<1>1. /\ Mid(x, x.air, x.air \union {c}) /\ Watched(x) /\ Unfinished(x) /\ IsFiniteSet(x.air)
      /\ c \notin x.air /\ x.up
  BY DEF Half
<1>2. Call(c.what) \in Calls /\ Call(c.what).what = c.what /\ Call(c.what).at = "waiting"
      /\ ~Call(c.what).mine /\ ~Call(c.what).last /\ ~Call(c.what).held
  <2>1. c.what \in Checks \union {"feed", "track", "report", "lookup"}
    OBVIOUS
  <2> QED
    BY <2>1, CallIs
<1>3. /\ d \in Calls /\ d.what = c.what /\ d.live = c.live /\ d.at = "waiting"
      /\ ~d.mine /\ ~d.last /\ ~d.held
  <2>1. c.live \in BOOLEAN
    BY DEF Calls
  <2> QED
    BY <1>2, <2>1 DEF Calls
<1> HIDE DEF d
<1>4. air \in SUBSET Calls /\ IsFiniteSet(air)
  <2>1. x.air \subseteq Calls
    BY <1>1 DEF Mid, Accounts
  <2> QED
    BY <1>1, <1>3, <2>1, FS_AddElement
<1>5. Turn(x, air)
  BY <1>1, <1>3, OneMore DEF Mid
<1>6. ((x.air \union {c}) \ {c}) \union {d} = air
  BY <1>1
<1>7. Checking(x, air)
  <2>1. Checking(x, x.air \union {c}) /\ c \in x.air \union {c}
    BY <1>1 DEF Mid
  <2> QED
    BY <1>3, <1>6, <2>1, Swapped
<1>8. Owned(x, air)
  BY <1>1, <1>3 DEF Mid, Owned
<1>9. /\ \A y \in air : y.at = "out" => y \in x.air
      /\ \A y \in x.air : y \in air
  BY <1>3
<1> DEFINE t == [x EXCEPT !.air = air]
<1>10. acc' = t
  BY DEF d
<1> HIDE DEF air
<1>11. Sound(t) /\ t.air = air /\ t.jar = x.jar
  BY <1>1, <1>4, <1>5, <1>7, <1>8, AirSound
<1> HIDE DEF t
<1>12. Sound(acc') /\ acc'.air = air /\ acc'.jar = x.jar
  BY <1>10, <1>11
<1>13. Out(acc') = Out(x)
  BY <1>9, <1>12 DEF Out
<1>14. Cardinality(Out(acc')) <= Cardinality(Out(x))
  BY <1>1, <1>13, OutFinite
<1> QED
  BY <1>12, <1>13, <1>14, HalfEnds

\* The listen's address has come: it is reported there.
LEMMA ReportStep ==
    ASSUME Sound(acc), NEW c, NEW x, Half(x, c), c.what \notin Checks,
           acc' = [x EXCEPT !.air = @ \union {Call("report")}]
    PROVE  Kept
<1> DEFINE air == x.air \union {Call("report")}
<1>1. Sound(x) /\ x.up
  BY HalfDone DEF Half
<1>2. /\ Mid(x, x.air, x.air) /\ Watched(x) /\ Unfinished(x) /\ x.air \subseteq Calls
      /\ IsFiniteSet(x.air) /\ Turn(x, x.air) /\ Checking(x, x.air) /\ Owned(x, x.air)
  BY <1>1, SoundParts
<1>3. /\ Call("report") \in Calls /\ Call("report").what \notin Checks /\ Call("report").at = "waiting"
      /\ ~Call("report").mine /\ ~Call("report").last /\ ~Call("report").held
  BY CallIs DEF Checks
<1>4. air \in SUBSET Calls /\ IsFiniteSet(air)
  BY <1>2, <1>3, FS_AddElement
<1>5. Turn(x, air)
  BY <1>1, <1>2, <1>3, OneMore
<1>6. Checking(x, air)
  BY <1>2, <1>3, Added
<1>7. Owned(x, air)
  BY <1>2, <1>3 DEF Owned
<1>8. /\ \A y \in air : y.at = "out" => y \in x.air
      /\ \A y \in x.air : y \in air
  BY <1>3
<1> DEFINE t == [x EXCEPT !.air = air]
<1>9. acc' = t
  OBVIOUS
<1> HIDE DEF air
<1>10. Sound(t) /\ t.air = air /\ t.jar = x.jar
  BY <1>2, <1>4, <1>5, <1>6, <1>7, AirSound
<1> HIDE DEF t
<1>11. Sound(acc') /\ acc'.air = air /\ acc'.jar = x.jar
  BY <1>9, <1>10
<1>12. Out(acc') = Out(x)
  BY <1>8, <1>11 DEF Out
<1>13. Cardinality(Out(acc')) <= Cardinality(Out(x))
  BY <1>2, <1>12, OutFinite
<1> QED
  BY <1>11, <1>12, <1>13, HalfEnds

\* What the check's caller is told, and that what YouTube confirmed is known.
LEMMA AnswersStep ==
    ASSUME Sound(acc), NEW c \in acc.air, Answers(c) PROVE Kept
<1>1. c.at = "out" /\ c.what # "lookup" /\ c \in Calls /\ Owned(acc, acc.air)
  BY SoundParts DEF Answers
<1>2. PICK said \in Payload(c) \union Again(c) \union {"401", "403", "slow"} :
      \E named \in IF said \in {"403", "slow"} THEN {0, Longest} ELSE {0} :
        LET a == Heard(c, said, named)
            b == [a EXCEPT !.air = @ \ {c}, !.proved = @ \/ (c.mine /\ said \in {"in", "named"})]
            refused == Refused(b, c, said)
        IN  acc' = IF said = "again"
                   THEN [b EXCEPT !.air = @ \union {[Call(c.what) EXCEPT !.live = c.live]}]
                   ELSE IF c.what \in Checks
                   THEN Told(refused, [c EXCEPT !.live = @ /\ refused.jar > 0],
                             IF said \in Payload(c) THEN said ELSE "nothing")
                   ELSE IF c.what = "track" /\ said = "in" /\ c.live
                   THEN [b EXCEPT !.air = @ \union {Call("report")}]
                   ELSE refused
  BY DEF Answers
<1>3. PICK named \in (IF said \in {"403", "slow"} THEN {0, Longest} ELSE {0}) :
        LET a == Heard(c, said, named)
            b == [a EXCEPT !.air = @ \ {c}, !.proved = @ \/ (c.mine /\ said \in {"in", "named"})]
            refused == Refused(b, c, said)
        IN  acc' = IF said = "again"
                   THEN [b EXCEPT !.air = @ \union {[Call(c.what) EXCEPT !.live = c.live]}]
                   ELSE IF c.what \in Checks
                   THEN Told(refused, [c EXCEPT !.live = @ /\ refused.jar > 0],
                             IF said \in Payload(c) THEN said ELSE "nothing")
                   ELSE IF c.what = "track" /\ said = "in" /\ c.live
                   THEN [b EXCEPT !.air = @ \union {Call("report")}]
                   ELSE refused
  BY <1>2
<1> DEFINE a == Heard(c, said, named)
           proved == a.proved \/ (c.mine /\ said \in {"in", "named"})
           b == [a EXCEPT !.air = @ \ {c}, !.proved = proved]
           r == Refused(b, c, said)
           d == [c EXCEPT !.live = c.live /\ r.jar > 0]
           told == IF said \in Payload(c) THEN said ELSE "nothing"
<1>4. acc' = IF said = "again"
             THEN [b EXCEPT !.air = @ \union {[Call(c.what) EXCEPT !.live = c.live]}]
             ELSE IF c.what \in Checks THEN Told(r, d, told)
             ELSE IF c.what = "track" /\ said = "in" /\ c.live
             THEN [b EXCEPT !.air = @ \union {Call("report")}]
             ELSE r
  BY <1>3
<1>5. named \in Hours
  BY NumbersAre
<1>6. Hearing(a, c)
  BY <1>5, HeardHearing
<1> HIDE DEF a
<1>7. a.proved \in BOOLEAN
  BY <1>6 DEF Hearing, Mid, Accounts
<1>8. proved \in BOOLEAN /\ (a.proved => proved) /\ (c.mine /\ said \in {"in", "named"} => proved)
  BY <1>7
<1> HIDE DEF proved
<1>9. Half(b, c) /\ b.proved = proved
  <2>1. Half(b, c)
    BY <1>6, <1>8, HearingHalf
  <2>2. a \in Accounts
    BY <1>6 DEF Hearing, Mid
  <2>3. b.proved = proved
    BY <2>2 DEF Accounts
  <2> QED
    BY <2>1, <2>3
<1> HIDE DEF b
<1>10. Sayable(c.what, told) /\ (told \in {"named", "in"} => told = said)
  BY DEF Payload, Sayable
<1>11. c.live /\ told \in {"named", "in"} => b.proved
  BY <1>1, <1>8, <1>9, <1>10 DEF Owned
<1> HIDE DEF told
<1>12. r = b \/ r = Rejected(b) \/ r = Doubted(b)
  BY DEF Refused
<1>13. CASE said = "again"
  <2>1. c.what \in Checks \union {"feed"}
    BY <1>13 DEF Payload, Again
  <2>2. acc' = [b EXCEPT !.air = @ \union {[Call(c.what) EXCEPT !.live = c.live]}]
    BY <1>4, <1>13
  <2> QED
    BY <1>1, <1>9, <2>1, <2>2, AgainStep
<1>14. CASE said # "again" /\ c.what \notin Checks /\ c.what = "track" /\ said = "in" /\ c.live
  <2>1. acc' = [b EXCEPT !.air = @ \union {Call("report")}]
    BY <1>4, <1>14
  <2> QED
    BY <1>9, <1>14, <2>1, ReportStep
<1>15. CASE said # "again" /\ c.what \notin Checks /\ ~(c.what = "track" /\ said = "in" /\ c.live)
  <2>1. acc' = r
    BY <1>4, <1>15
  <2>2. CASE r = b
    BY <1>9, <1>15, <2>1, <2>2, HalfStep
  <2>3. CASE r = Rejected(b)
    BY <1>9, <2>1, <2>3, RejectedStep
  <2>4. CASE r = Doubted(b)
    BY <1>1, <1>9, <1>15, <2>1, <2>4, DoubtedHalf, HalfStep
  <2> QED
    BY <1>12, <2>2, <2>3, <2>4
<1>16. CASE said # "again" /\ c.what \in Checks
  <2>1. acc' = Told(r, d, told)
    BY <1>4, <1>16
  <2>2. CASE r = Rejected(b)
    <3>1. r.jar = 0
      BY <1>9, <2>2, RejectedIs DEF Half, Mid
    <3>2. d \in Calls /\ ~d.live /\ d.what = c.what
      <4> DEFINE live == c.live /\ r.jar > 0
      <4>1. live \in BOOLEAN /\ ~live
        BY <3>1
      <4> HIDE DEF live
      <4>2. [c EXCEPT !.live = live] \in Calls /\ ~[c EXCEPT !.live = live].live
            /\ [c EXCEPT !.live = live].what = c.what
        BY <1>1, <4>1 DEF Calls
      <4> QED
        BY <4>2 DEF live
    <3> HIDE DEF d, r
    <3>3. Sayable(d.what, told) /\ acc' = Told(Rejected(b), d, told)
      BY <1>10, <2>1, <2>2, <3>2
    <3> QED
      BY <1>9, <3>2, <3>3, ToldRejected
  <2>3. ASSUME Half(r, c), b.proved => r.proved PROVE Kept
    <3>1. c.live => r.jar > 0
      BY <1>1, <2>3 DEF Half, Mid, Owned
    <3>2. d = c
      <4> DEFINE live == c.live /\ r.jar > 0
      <4>1. live = c.live
        BY <1>1, <3>1 DEF Calls
      <4> HIDE DEF live
      <4>2. [c EXCEPT !.live = live] = c
        BY <1>1, <4>1 DEF Calls
      <4> QED
        BY <4>2 DEF live
    <3> HIDE DEF d, r
    <3>3. acc' = Told(r, c, told)
      BY <2>1, <3>2
    <3>4. c.live /\ told \in {"named", "in"} => r.proved
      BY <1>11, <2>3
    <3> QED
      BY <1>1, <1>10, <2>3, <3>3, <3>4, ToldHalf
  <2>4. CASE r = b
    BY <1>9, <2>3, <2>4
  <2>5. CASE r = Doubted(b)
    <3>1. Half(r, c)
      BY <1>1, <1>9, <2>5, DoubtedHalf
    <3>2. Doubted(b).proved = b.proved
      <4>1. b \in Accounts
        BY <1>9 DEF Half, Mid
      <4> QED
        BY <4>1 DEF Doubted, Checked, Accounts
    <3> HIDE DEF r
    <3> QED
      BY <2>3, <2>5, <3>1, <3>2
  <2> QED
    BY <1>12, <2>2, <2>4, <2>5
<1> QED
  BY <1>13, <1>14, <1>15, <1>16

-----------------------------------------------------------------------------
(* The specification *)

LEMMA NextStep ==
    ASSUME Sound(acc), [Next]_acc
    PROVE  Sound(acc') /\ [RestIsKept]_acc /\ [CookiesAreTheNewest]_acc
<1>1. CASE UNCHANGED acc
  BY <1>1
<1>2. CASE Launch
  BY <1>2, LaunchStep DEF Kept
<1>3. CASE Quit
  BY <1>3, QuitStep DEF Kept
<1>4. CASE Crash
  BY <1>4, CrashStep DEF Kept
<1>5. CASE SignIn
  BY <1>5, SignInStep DEF Kept
<1>6. CASE SignOut
  BY <1>6, SignOutStep DEF Kept
<1>7. CASE CheckNow
  BY <1>7, CheckNowStep DEF Kept
<1>8. CASE CheckDue
  BY <1>8, CheckDueStep DEF Kept
<1>9. CASE SaveDue
  BY <1>9, SaveDueStep DEF Kept
<1>10. CASE RestEnds
  BY <1>10, RestEndsStep DEF Kept
<1>11. CASE OutlivesTurn
  BY <1>11, OutlivesTurnStep DEF Kept
<1>12. CASE MinutePasses
  BY <1>12, MinutePassesStep DEF Kept
<1>13. CASE TenMinutesPass
  BY <1>13, TenMinutesPassStep DEF Kept
<1>14. CASE HourPasses
  BY <1>14, HourPassesStep DEF Kept
<1>15. CASE RefusalForgotten
  BY <1>15, RefusalForgottenStep DEF Kept
<1>16. CASE Feed
  BY <1>16, AskStep DEF Feed, Kept
<1>17. CASE Listen
  BY <1>17, AskStep DEF Listen, Kept
<1>18. CASE Lend
  BY <1>18, LendStep DEF Kept
<1>19. ASSUME NEW c \in acc.air, CallSteps(c) PROVE Kept
  <2>1. CASE TurnRefused(c)
    BY <2>1, TurnRefusedStep
  <2>2. CASE TurnPutOff(c)
    BY <2>2, TurnPutOffStep
  <2>3. CASE TurnComes(c)
    BY <2>3, TurnComesStep
  <2>4. CASE RefusalTold(c)
    BY <2>4, RefusalToldStep
  <2>5. CASE Rotates(c)
    BY <2>5, RotatesStep
  <2>6. CASE Answers(c)
    BY <2>6, AnswersStep
  <2>7. CASE LookupEnds(c)
    BY <2>7, LookupEndsStep
  <2> QED
    BY <1>19, <2>1, <2>2, <2>3, <2>4, <2>5, <2>6, <2>7 DEF CallSteps
<1> QED
  BY <1>1, <1>2, <1>3, <1>4, <1>5, <1>6, <1>7, <1>8, <1>9, <1>10, <1>11, <1>12, <1>13, <1>14,
     <1>15, <1>16, <1>17, <1>18, <1>19 DEF Next, Kept

\* The calls that hold the turn are all the newest, and so are one.
LEMMA SoundIsOne == ASSUME Sound(acc) PROVE OneAtATime
<1> DEFINE H == {c \in Out(acc) : c.held}
<1>1. Turn(acc, acc.air)
  BY SoundParts
<1>2. \A c, d \in H : c = d
  BY <1>1 DEF Turn, Out
<1>3. CASE H = {}
  <2>1. Cardinality(H) = 0
    BY <1>3, FS_EmptySet
  <2> HIDE DEF H
  <2>2. Cardinality(H) <= 1
    BY <2>1
  <2> QED
    BY <2>2 DEF H, OneAtATime
<1>4. CASE H # {}
  <2>1. PICK c : c \in H
    BY <1>4
  <2>2. H = {c}
    BY <1>2, <2>1
  <2>3. Cardinality(H) = 1
    BY <2>2, FS_Singleton
  <2> HIDE DEF H
  <2>4. Cardinality(H) <= 1
    BY <2>3
  <2> QED
    BY <2>4 DEF H, OneAtATime
<1> QED
  BY <1>3, <1>4

LEMMA SoundIsChecked == ASSUME Sound(acc) PROVE SessionIsChecked /\ StoredIsHeld
<1>1. Checking(acc, acc.air) /\ Believed(acc) /\ Stored(acc) /\ Watched(acc)
  BY SoundParts
<1>2. StoredIsHeld
  BY <1>1 DEF Stored, StoredIsHeld
<1>3. SessionIsChecked
  BY <1>1 DEF Checking, Waited, Believed, Watched, SessionIsChecked
<1> QED
  BY <1>2, <1>3

\* The guard and the session are sound in every state of every run (accountguard.cpp,
\* ytmsession.cpp, InnerTube::send).
THEOREM AlwaysSound == Spec => []Sound(acc)
<1>1. Sound(acc) /\ [Next]_acc => Sound(acc)'
  BY NextStep
<1> QED
  BY <1>1, InitIs, PTL DEF Spec

\* Every member of the session and of the guard keeps to its values, and no rest
\* or count of refusals passes the longest (ytmsession.h, accountguard.h).
THEOREM AccountTypes == Spec => []TypeOK
<1>1. Sound(acc) => TypeOK
  <2> SUFFICES ASSUME Sound(acc) PROVE TypeOK
    OBVIOUS
  <2>1. acc \in Accounts
    BY SoundParts
  <2>2. \A c \in acc.air : c.what \in Checks \union {"feed", "track", "report", "lookup"}
    <3>1. acc.air \subseteq Calls
      BY SoundParts
    <3> QED
      BY <3>1 DEF Calls
  <2> QED
    BY <2>1, <2>2 DEF Accounts, Hours, Jars, TypeOK
<1> QED
  BY <1>1, AlwaysSound, PTL

\* The account has one call at a time, however many outlive their turn, and none
\* in a rest YouTube is owed, whatever order answers come in and however often
\* the program is started (accountguard.cpp's admit, finished and trip).
THEOREM AccountGuardKeepsItsPromise == Spec => AccountIsSpared
<1>1. Sound(acc) => OneAtATime
  BY SoundIsOne
<1>2. Sound(acc) /\ [Next]_acc => [RestIsKept]_acc
  BY NextStep
<1> QED
  BY <1>1, <1>2, AlwaysSound, PTL DEF Spec, AccountIsSpared

\* A session is confirmed before it is used and always being checked, the secret
\* store keeps it, and no answer to another touches its cookies (ytmsession.cpp).
THEOREM SessionKeepsItself == Spec => SessionIsItsOwn
<1>1. Sound(acc) => SessionIsChecked /\ StoredIsHeld
  BY SoundIsChecked
<1>2. Sound(acc) /\ [Next]_acc => [CookiesAreTheNewest]_acc
  BY NextStep
<1> QED
  BY <1>1, <1>2, AlwaysSound, PTL DEF Spec, SessionIsItsOwn
=============================================================================
