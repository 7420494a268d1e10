---------------------------- MODULE MCLibraries ----------------------------
(***************************************************************************)
(* One listener's library on two computers, checked together: the file of  *)
(* it in Google Drive; and the merge, for each kind of thing a library     *)
(* holds, none of which another touches.  A behaviour is about one of      *)
(* them, the others staying as they begin.                                 *)
(***************************************************************************)
EXTENDS DriveSync, TLC

CONSTANTS c1, c2

VARIABLES part, books, file, clock, ahead

MCComputers == {c1, c2}

MCLikes == {<<"like", 1>>}

\* Songs played too, with fewer writes of the file and nothing failing.
Both == INSTANCE DriveSync WITH MaxPlays <- 1, MaxVersion <- 2, MaxFaults <- 0

Kept == INSTANCE LibraryMerge WITH Things <- MCLikes, lib <- books,
    Computers <- {1, 2}, Songs <- {1}, Does <- {"keep"}, Fast <- {2}, Aheads <- {1, 2}, Slack <- 1,
    EndOfTime <- 3
Downs == INSTANCE LibraryMerge WITH Things <- MCLikes, lib <- books,
    Computers <- {1, 2}, Songs <- {1}, Does <- {"down"}, Fast <- {2}, Aheads <- {1}, Slack <- 1,
    EndOfTime <- 2
Plays == INSTANCE LibraryMerge WITH Things <- MCLikes, lib <- books,
    Computers <- {1, 2}, Songs <- {1}, Does <- {"play"}, Fast <- {}, Aheads <- {}, Slack <- 1,
    EndOfTime <- 2
Order == INSTANCE LibraryMerge WITH Things <- MCLikes, lib <- books,
    Computers <- {1, 2}, Songs <- {1, 2}, Does <- {"list", "order"}, Fast <- {}, Aheads <- {}, Slack <- 1,
    EndOfTime <- 1
Lists == INSTANCE LibraryMerge WITH Things <- MCLikes, lib <- books,
    Computers <- {1, 2}, Songs <- {1}, Does <- {"list", "order"}, Fast <- {2}, Aheads <- {3}, Slack <- 1,
    EndOfTime <- 2

library == <<books, file, clock, ahead>>
all == <<part, library, sync>>

LibrariesInit ==
    /\ \/ part = "kept" /\ Kept!Init
       \/ part = "downs" /\ Downs!Init
       \/ part = "plays" /\ Plays!Init
       \/ part \in {"order", "edits", "both"} /\ Order!Init
       \/ part = "lists" /\ Lists!Init
    /\ Init

LibrariesNext ==
    \/ part = "kept" /\ Kept!Next /\ UNCHANGED <<part, sync>>
    \/ part = "downs" /\ Downs!Next /\ UNCHANGED <<part, sync>>
    \/ part = "plays" /\ Plays!Next /\ UNCHANGED <<part, sync>>
    \/ part = "order" /\ Order!Next /\ UNCHANGED <<part, sync>>
    \/ part = "lists" /\ Lists!Next /\ UNCHANGED <<part, sync>>
    \/ part = "edits" /\ Next /\ UNCHANGED <<part, library>>
    \/ part = "both" /\ Both!Next /\ UNCHANGED <<part, library>>

LibrariesSpec == LibrariesInit /\ [][LibrariesNext]_all

Symmetric == Permutations(MCComputers)

\* The shapes of the variables, of the part the behaviour is about.
LibrariesTypeOK ==
    /\ part = "kept" => Kept!TypeOK
    /\ part = "downs" => Downs!TypeOK
    /\ part = "plays" => Plays!TypeOK
    /\ part = "order" => Order!TypeOK
    /\ part = "lists" => Lists!TypeOK
    /\ part = "edits" => TypeOK
    /\ part = "both" => Both!TypeOK

\* Merging both ways leaves both libraries the same (librarybackup.h), and a file
\* merged twice changes nothing the second time; of a playlist's songs, unless
\* two were added in the same second.
MergesAgree ==
    /\ part = "kept" => Kept!BothWaysTheSame /\ Kept!TwiceIsOnce
    /\ part = "downs" => Downs!BothWaysTheSame /\ Downs!TwiceIsOnce
    /\ part = "plays" => Plays!BothWaysTheSame /\ Plays!TwiceIsOnce
    /\ part = "order" => Order!BothWaysTheSame /\ Order!TwiceIsOnceUnlessTied
    /\ part = "lists" => Lists!BothWaysTheSame /\ Lists!TwiceIsOnceUnlessTied


\* A song added on one computer is never lost to an edit made on another, and a
\* turn-down taken back is not brought back by a file; what a sync takes for sent
\* is in Drive; and a computer that found the file unreadable leaves it alone
\* until told.
NothingIsUndone ==
    /\ [][/\ part = "order" => Order!EntriesStay
          /\ part = "lists" => Lists!EntriesStay
          /\ part = "downs" => Downs!TakenBackStaysOut]_all
    /\ SentIsAll /\ HeldIsLeftAlone
=============================================================================
