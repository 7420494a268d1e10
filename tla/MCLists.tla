------------------------------ MODULE MCLists ------------------------------
(***************************************************************************)
(* The listener's lists, checked together: the play queue, and playlists   *)
(* imported.  A behaviour is about one part, the others staying as they    *)
(* begin.  Of the queue: small ones of songs without a video, so that the  *)
(* two the radio may add are all that pruning and repeats can meet.  Of    *)
(* the imports: one pasted list of four songs, one of them in it twice,    *)
(* reviewed in every order; one read in pages before a pasted list; one    *)
(* before a YouTube list; and two YouTube lists, their playlists deleted.  *)
(***************************************************************************)
EXTENDS PlayQueue

CONSTANTS v1, v2, s1, s2, s3, None

VARIABLES part, imp

MCVideos == {v1, v2}

MCLists == {<<NoVideo>>, <<NoVideo, NoVideo, NoVideo>>}

MCRadioLists == {<<v1>>, <<v1, v2>>}

ASong == {s1, s2, s3}

Review == INSTANCE Imports WITH
    Kinds <- <<"list">>, Lists <- <<<<s1, s2, s1, s3>>>>, Songs <- ASong, Owned <- {},
    MaxAsked <- 1, PerHour <- 1, Longest <- 0, Does <- {"review"}, Launches <- 0
Turns == INSTANCE Imports WITH
    Kinds <- <<"source", "list">>, Lists <- <<<<s1, s2>>, <<s3>>>>, Songs <- ASong, Owned <- {s2},
    MaxAsked <- 2, PerHour <- 2, Longest <- 2, Does <- {}, Launches <- 1
Beside == INSTANCE Imports WITH
    Kinds <- <<"source", "youtube">>, Lists <- <<<<s1, s2>>, <<s3>>>>, Songs <- ASong, Owned <- {},
    MaxAsked <- 2, PerHour <- 2, Longest <- 2, Does <- {"preview"}, Launches <- 1
Pages == INSTANCE Imports WITH
    Kinds <- <<"youtube", "youtube">>, Lists <- <<<<s1, s2>>, <<s3>>>>, Songs <- ASong, Owned <- {},
    MaxAsked <- 1, PerHour <- 1, Longest <- 2, Does <- {"preview", "delete"}, Launches <- 1

all == <<part, vars, imp>>

ListsInit ==
    /\ Init
    /\ \/ part \in {"queue", "turns"} /\ Turns!ImportsInit
       \/ part = "review" /\ Review!ImportsInit
       \/ part = "beside" /\ Beside!ImportsInit
       \/ part = "pages" /\ Pages!ImportsInit

ListsNext ==
    \/ part = "queue" /\ Next /\ UNCHANGED <<part, imp>>
    \/ part = "review" /\ Review!ImportsNext /\ UNCHANGED <<part, vars>>
    \/ part = "turns" /\ Turns!ImportsNext /\ UNCHANGED <<part, vars>>
    \/ part = "beside" /\ Beside!ImportsNext /\ UNCHANGED <<part, vars>>
    \/ part = "pages" /\ Pages!ImportsNext /\ UNCHANGED <<part, vars>>

ListsSpec == ListsInit /\ [][ListsNext]_all

\* An import asks one thing at a time and never while YouTube rests, goes on until
\* it is paused or over, and leaves its playlist in the source's order
\* (playlistimport.cpp).
ImportsKeepTheirRules ==
    /\ [][/\ part = "turns" => Turns!ImportsAreGentle
          /\ part = "beside" => Beside!ImportsAreGentle
          /\ part = "pages" => Pages!ImportsAreGentle]_imp
    /\ [](CASE part = "review" -> Review!ImportsAreSound
            [] part = "beside" -> Beside!ImportsAreSound
            [] part = "pages" -> Pages!ImportsAreSound
            [] OTHER -> Turns!ImportsAreSound)
=============================================================================
