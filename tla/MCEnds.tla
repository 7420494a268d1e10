------------------------------- MODULE MCEnds -------------------------------
(***************************************************************************)
(* What must come about once everyone is left to it, checked together: of  *)
(* the transport, the links it asks for, the downloads, an update and the  *)
(* library in Google Drive.  A behaviour is about one of them, the others  *)
(* staying as they begin.                                                  *)
(***************************************************************************)
EXTENDS UpNext

CONSTANTS d1, d2, f, NoFile, s1, s2, NoSong, c1, c2

VARIABLES part, ladder, dl, disk, db, resolving,
          lib, app, saved, drive, faults, version

MCKinds == {"streamed", "file"}
MCLists == UNION {[1 .. size -> MCKinds] : size \in 1 .. 2}

Links == INSTANCE StreamLadder WITH
    Songs <- {s1, s2}, AccountLimit <- 1, Deadline <- FALSE, MaxUses <- 2

Queue == INSTANCE Downloads WITH
    Ids <- {d1, d2}, Titled <- {}, Folders <- {f}, Kinds <- {"part", "done"},
    MaxConcurrent <- 1, Surprises <- {}

Sync == INSTANCE DriveSync WITH
    Computers <- {c1, c2}, MaxDone <- 1, MaxPlays <- 0, MaxVersion <- 4, MaxFaults <- 0

downloads == <<dl, disk, db, resolving>>
sync == <<lib, app, saved, drive, faults, version>>
all == <<part, vars, ladder, downloads, sync>>

EndsInit ==
    /\ part \in {"transport", "links", "downloads", "sync"}
    /\ Init /\ Links!Init /\ Queue!DownloadsInit /\ Sync!Init
    /\ part # "downloads" => \A x \in {d1, d2} : disk[f][x] = {}

InTransport(A) == part = "transport" /\ A /\ UNCHANGED <<part, ladder, downloads, sync>>
InLinks(A) == part = "links" /\ A /\ UNCHANGED <<part, vars, downloads, sync>>
InDownloads(A) == part = "downloads" /\ A /\ UNCHANGED <<part, vars, ladder, sync>>
InSync(A) == part = "sync" /\ A /\ UNCHANGED <<part, vars, ladder, downloads>>

EndsNext ==
    \/ InTransport(Next) \/ InLinks(Links!Next) \/ InDownloads(Queue!DownloadsNext)
    \/ InSync(Sync!Next)

\* The fairness of each, as its module states it.
EndsFairness ==
    /\ WF_all(InTransport(HandleResolved \/ HandleResolveFailed))
    /\ WF_all(InTransport(RadioReady \/ RadioFailed))
    /\ WF_all(InTransport(HandleAudioStarted \/ LoadFailed))
    /\ WF_all(InTransport(HandleEndOfFile))
    /\ WF_all(InTransport(PauseReported))
    /\ \A s \in {s1, s2} : WF_all(InLinks(Links!Succeed(s) \/ \E wanting \in BOOLEAN : Links!Fail(s, wanting)))
    /\ WF_all(InLinks(Links!PumpPosted))
    /\ \A id \in {d1, d2} :
          /\ WF_all(InDownloads(\E has \in BOOLEAN : Queue!SaavnAnswered(id, has)))
          /\ WF_all(InDownloads(Queue!YtdlpFinished(id, TRUE, TRUE) \/ Queue!YtdlpFailed(id)))
          /\ WF_all(InDownloads(Queue!SaavnFails(id)))
    /\ WF_all(InDownloads(Queue!PlaybackResolved))
    /\ \A c \in {c1, c2} :
          /\ WF_all(InSync(Sync!SyncTimer(c))) /\ WF_all(InSync(Sync!EditTimer(c)))
          /\ WF_all(InSync(Sync!Period(c))) /\ WF_all(InSync(Sync!Answers(c)))
          /\ WF_all(InSync(Sync!SignIn(c)))

EndsSpec == EndsInit /\ [][EndsNext]_all /\ EndsFairness

Elsewhere(p) == []<>(part # p)

\* A step under way ends: the player plays, waits for nothing, or says it failed.
PlayerSettles == BusyEnds \/ Elsewhere("transport")

\* Each song asked for is found, or said not to be.
LinksAreAnswered == Links!AskedIsAnswered \/ Elsewhere("links")

\* Once the songs being played are found for good, no download waits for ever.
EverySongStarts == Queue!EverySongStarts \/ Elsewhere("downloads")

\* Every computer comes to hold all that was done on any, and so does Drive.
AllTheSame == Sync!AllTheSame \/ Elsewhere("sync")
=============================================================================
