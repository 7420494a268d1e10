------------------------------ MODULE MCAround ------------------------------
(***************************************************************************)
(* What goes on around the song playing: its lyrics, and the YouTube Music *)
(* account. A behaviour is about one part, the others staying as they      *)
(* begin. Of the lyrics: one song over months of launches; two songs in a  *)
(* queue, the first's length not listed; one song asked of the providers   *)
(* in turn; and a third provider, asked last and only for the view, that   *)
(* answers at once. Of the account: every kind of call, rests and two      *)
(* launches; and rotated cookies, lent to yt-dlp, across a new sign-in.    *)
(***************************************************************************)
EXTENDS Account

CONSTANTS lrc, ytm, more, s1, s2, NoSong, Nobody

VARIABLES part, ly, player, truth

Said(kind) == [kind |-> kind, gap |-> "near"]
Off(kind) == [kind |-> kind, gap |-> "off"]
Two(x, y) == [p \in {lrc, ytm} |-> IF p = lrc THEN x ELSE y]
Three(x, y, z) == [p \in {lrc, ytm, more} |-> IF p = more THEN z ELSE Two(x, y)[p]]

Both == <<lrc, ytm>>
All == <<lrc, ytm, more>>
BothReach == Two(3, 2)
AllReach == Three(3, 2, 3)
Alone == [s \in {s1} |-> NoSong]
Album == [s \in {s1, s2} |-> IF s = s1 THEN s2 ELSE NoSong]
Twice == {Two(Said("timed"), Said("plain")), Two(Off("timed"), Said("missed"))}
Four == Twice \union {Two(Off("timed"), Said("plain")), Two(Said("missed"), Said("missed"))}
One == {Two(Said("instrumental"), Said("plain"))}
Twelve == {Three(Said(x), Said(y), Said(z)) : x \in {"timed", "missed"}, y \in {"plain", "missed"},
                                              z \in {"timed", "plain", "failed"}}

Months == INSTANCE Lyrics WITH
    Preferred <- Both, Reach <- BothReach, Lazy <- {}, Instant <- {}, Serial <- FALSE, Patience <- "some",
    Songs <- {s1}, Listed <- {s1}, After <- Alone, Behind <- Both, Truths <- Twice, Launches <- {1, 2}
Pair == INSTANCE Lyrics WITH
    Preferred <- Both, Reach <- BothReach, Lazy <- {}, Instant <- {}, Serial <- FALSE, Patience <- "none",
    Songs <- {s1, s2}, Listed <- {s2}, After <- Album, Behind <- Both, Truths <- One, Launches <- {}
Turns == INSTANCE Lyrics WITH
    Preferred <- Both, Reach <- BothReach, Lazy <- {}, Instant <- {}, Serial <- TRUE, Patience <- "some",
    Songs <- {s1}, Listed <- {s1}, After <- Alone, Behind <- Both, Truths <- Four, Launches <- {0}
Third == INSTANCE Lyrics WITH
    Preferred <- All, Reach <- AllReach, Lazy <- {more}, Instant <- {more}, Serial <- FALSE, Patience <- "some",
    Songs <- {s1}, Listed <- {s1}, After <- Alone, Behind <- Both, Truths <- Twelve, Launches <- {}

\* The account's other runs have the module's own constants.
Cookies == INSTANCE Account WITH
    Others <- {"lookup"}, Longest <- 1, MaxRotations <- 1,
    SignIns <- 1, MaxLeft <- 1, Launches <- 1

lyrics == <<ly, player, truth>>
all == <<part, lyrics, acc>>

AroundInit ==
    \/ part = "months" /\ Months!Init /\ acc = Blank
    \/ part = "pair" /\ Pair!Init /\ acc = Blank
    \/ part = "turns" /\ Turns!Init /\ acc = Blank
    \/ part = "third" /\ Third!Init /\ acc = Blank
    \/ part = "rests" /\ Init /\ Months!Init /\ truth = Two(Said("timed"), Said("plain"))
    \/ part = "cookies" /\ Cookies!Init /\ Months!Init /\ truth = Two(Said("timed"), Said("plain"))

AroundNext ==
    \/ part = "months" /\ Months!Next /\ UNCHANGED <<part, acc>>
    \/ part = "pair" /\ Pair!Next /\ UNCHANGED <<part, acc>>
    \/ part = "turns" /\ Turns!Next /\ UNCHANGED <<part, acc>>
    \/ part = "third" /\ Third!Next /\ UNCHANGED <<part, acc>>
    \/ part = "rests" /\ Next /\ UNCHANGED <<part, lyrics>>
    \/ part = "cookies" /\ Cookies!Next /\ UNCHANGED <<part, lyrics>>

AroundSpec == AroundInit /\ [][AroundNext]_all

\* The shapes of every part's variables (the members of lyrics.h, ytmsession.h and
\* accountguard.h).
AroundTypeOK ==
    /\ CASE part = "pair" -> Pair!TypeOK [] part = "turns" -> Turns!TypeOK
         [] part = "third" -> Third!TypeOK [] OTHER -> Months!TypeOK
    /\ IF part = "cookies" THEN Cookies!TypeOK ELSE TypeOK

\* The view never waits on a lookup nobody makes, nor is one made for nobody,
\* whatever is shown, called off, joined or asked again (lyrics.cpp's m_pending).
LyricsAreLookedFor ==
    CASE part = "pair" -> Pair!NobodyWaitsInVain [] part = "turns" -> Turns!NobodyWaitsInVain
      [] part = "third" -> Third!NobodyWaitsInVain [] OTHER -> Months!NobodyWaitsInVain

\* With the program's two providers: what is kept for good is the best that any of
\* them has, in the listener's order, and lines being read are not taken away
\* (lyricsrace.cpp's decide, lyrics.cpp's display).
BestLyricsAreKept ==
    [][/\ part = "months" => Months!OnlyTheBestIsKept /\ Months!LinesBeingReadStay
       /\ part = "pair" => Pair!OnlyTheBestIsKept /\ Pair!LinesBeingReadStay]_all
=============================================================================
