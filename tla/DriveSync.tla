------------------------------ MODULE DriveSync ------------------------------
(***************************************************************************)
(* The library's backup in Google Drive (drivesync.cpp): one file, found,  *)
(* read, merged and written again by every computer signed in, each on its *)
(* own time and none locking out another.  A library is the set of things  *)
(* that were done to it, what was taken out among them: a merge is their   *)
(* union (LibraryMerge says of the merge itself that it is one).           *)
(***************************************************************************)
EXTENDS Integers, Sequences, FiniteSets

CONSTANTS
    Computers,
    MaxDone,    \* bound: things done to the library, plays not counted
    MaxPlays,   \* bound: songs played
    MaxVersion, \* bound: how often the files in Drive are written
    MaxFaults   \* bound: presses of SYNC NOW, sign-outs, launches and what goes wrong

ASSUME DriveSyncAssumption ==
    MaxDone \in Nat /\ MaxPlays \in Nat /\ MaxVersion \in Nat /\ MaxFaults \in Nat

VARIABLES
    lib,        \* each computer's library
    app,        \* each computer's DriveSync
    saved,      \* what it keeps in the settings (backup.fileId, .remote, .hash)
    drive,      \* the files in Drive's hidden folder, by id
    faults,     \* how many of those there were
    version     \* the last version Drive gave

sync == <<lib, app, saved, drive, faults, version>>

Ids == 1 .. MaxVersion
NoRun == [step |-> "none", forced |-> FALSE, periodic |-> FALSE, refound |-> FALSE, files |-> <<>>,
          next |-> 1, keptRead |-> FALSE, kept |-> {}, snapshotted |-> FALSE, hash |-> {},
          changed |-> FALSE, id |-> 0, version |-> 0, extra |-> 2]
Launched == [signedIn |-> FALSE, held |-> FALSE, edited |-> FALSE, played |-> FALSE, synced |-> FALSE,
             periodDue |-> FALSE, syncTimer |-> FALSE, editTimer |-> FALSE, again |-> FALSE,
             againForced |-> FALSE, run |-> NoRun]
NothingSaved == [id |-> 0, version |-> 0, hash |-> {}]

Running(a) == a.run.step # "none"

Init ==
    /\ lib = [c \in Computers |-> {}]
    /\ app = [c \in Computers |-> Launched]
    /\ saved = [c \in Computers |-> NothingSaved]
    /\ drive = <<>>
    /\ faults = 0
    /\ version = 0

Fault == faults < MaxFaults /\ faults' = faults + 1

-----------------------------------------------------------------------------
(* When a sync starts.                                                      *)

\* requestSync: the timer armed, or another once the one running ends.
Requested(a) ==
    IF ~a.signedIn \/ a.held THEN a
    ELSE IF Running(a) THEN [a EXCEPT !.again = TRUE] ELSE [a EXCEPT !.syncTimer = TRUE]

\* startRun and find.
Started(a, forced) ==
    IF Running(a) \/ ~a.signedIn \/ (a.held /\ ~forced) THEN [a EXCEPT !.syncTimer = @ /\ Running(a)]
    ELSE [a EXCEPT !.held = FALSE, !.syncTimer = FALSE, !.again = FALSE, !.againForced = FALSE,
                   !.periodDue = FALSE,
                   !.run = [NoRun EXCEPT !.step = "listing", !.forced = forced, !.periodic = a.periodDue]]

Found(run) == [run EXCEPT !.step = "listing", !.files = <<>>, !.next = 1, !.keptRead = FALSE, !.kept = {}]

\* endRun: another at once when SYNC NOW was pressed meanwhile (startRun from the
\* event loop, which nothing comes before).
Ended(a) ==
    LET over == [a EXCEPT !.run = NoRun, !.again = FALSE, !.againForced = FALSE] IN
    IF a.againForced THEN Started(over, TRUE) ELSE IF a.again THEN Requested(over) ELSE over

\* stopRun, and the timers a signed-out DriveSync has none of.
SignedOut(a) ==
    [a EXCEPT !.signedIn = FALSE, !.run = NoRun, !.again = FALSE, !.againForced = FALSE,
              !.syncTimer = FALSE, !.editTimer = FALSE]

\* (slip: retried, though the file cannot be read)
FailedAlways(a, held) == [Ended([a EXCEPT !.held = held, !.syncTimer = TRUE]) EXCEPT !.run = IF held THEN Found(NoRun) ELSE NoRun]

\* failRun: tried again by itself, unless the file cannot be read.
Failed(a, held) ==
    Ended([a EXCEPT !.held = held, !.periodDue = @ \/ a.run.periodic,
                    !.syncTimer = IF held THEN @ ELSE TRUE])

Only(c, a) == app' = [app EXCEPT ![c] = a]

SyncTimer(c) ==
    /\ app[c].syncTimer
    /\ Only(c, Started(app[c], FALSE))
    /\ UNCHANGED <<lib, saved, drive, faults, version>>

EditTimer(c) ==
    /\ app[c].editTimer
    /\ Only(c, Requested([app[c] EXCEPT !.editTimer = FALSE]))
    /\ UNCHANGED <<lib, saved, drive, faults, version>>

\* (slip: looked at again every half hour, as if SYNC NOW were pressed)
PeriodAsPressed(c) ==
    /\ app[c].signedIn
    /\ Only(c, Started([app[c] EXCEPT !.periodDue = TRUE], TRUE))
    /\ UNCHANGED <<lib, saved, drive, faults, version>>

\* Every half hour.
Period(c) ==
    /\ app[c].signedIn
    /\ Only(c, Requested([app[c] EXCEPT !.periodDue = TRUE]))
    /\ UNCHANGED <<lib, saved, drive, faults, version>>

\* SYNC NOW.
SyncNow(c) ==
    /\ app[c].signedIn /\ Fault
    /\ Only(c, IF Running(app[c]) THEN [app[c] EXCEPT !.againForced = TRUE] ELSE Started(app[c], TRUE))
    /\ UNCHANGED <<lib, saved, drive, version>>

\* signedInNow: nothing the last account's syncs left is taken for this one's.
SignIn(c) ==
    /\ ~app[c].signedIn
    /\ saved' = [saved EXCEPT ![c] = NothingSaved]
    /\ Only(c, Started([app[c] EXCEPT !.signedIn = TRUE, !.held = FALSE, !.synced = FALSE], TRUE))
    /\ UNCHANGED <<lib, drive, faults, version>>

\* SIGN OUT, or a sign-in that has ended (what it synced is kept then).
SignOut(c) ==
    /\ app[c].signedIn /\ Fault
    /\ \/ /\ Only(c, [SignedOut(app[c]) EXCEPT !.held = FALSE, !.synced = FALSE])
          /\ saved' = [saved EXCEPT ![c] = NothingSaved]
       \/ Only(c, SignedOut(app[c])) /\ UNCHANGED saved
    /\ UNCHANGED <<lib, drive, version>>

\* Quitting waits for nothing, a crash for less; the launch's sync comes after.
Relaunch(c) ==
    /\ Fault
    /\ Only(c, Requested([Launched EXCEPT !.signedIn = app[c].signedIn, !.held = app[c].held]))
    /\ UNCHANGED <<lib, saved, drive, version>>

-----------------------------------------------------------------------------
(* What changes the library here.                                           *)

Done == UNION {lib[c] : c \in Computers}
OfKind(kind) == {d \in Done : d[1] = kind}

\* noteLibraryEdited: a like, a playlist changed, a file imported.
Edit(c) ==
    LET a == app[c]
        done == <<"edit", 1 + Cardinality(OfKind("edit"))>> IN
    /\ done[2] <= MaxDone
    /\ lib' = [lib EXCEPT ![c] = @ \union {done}]
    /\ Only(c, [a EXCEPT !.edited = TRUE, !.run.changed = Running(a),
                         !.editTimer = @ \/ (a.signedIn /\ ~a.held)])
    /\ UNCHANGED <<saved, drive, faults, version>>

\* notePlayed, as a listen begins.
Play(c) ==
    LET a == app[c]
        done == <<"play", 1 + Cardinality(OfKind("play"))>> IN
    /\ done[2] <= MaxPlays
    /\ lib' = [lib EXCEPT ![c] = @ \union {done}]
    /\ Only(c, [a EXCEPT !.played = TRUE, !.run.changed = Running(a)])
    /\ UNCHANGED <<saved, drive, faults, version>>

\* writePlayEvents, as it ends: how it was heard, of which nobody is told.
PlayEnds(c) ==
    /\ \E n \in 1 .. MaxPlays :
          /\ <<"play", n>> \in lib[c] /\ <<"heard", n>> \notin Done
          /\ lib' = [lib EXCEPT ![c] = @ \union {<<"heard", n>>}]
    /\ UNCHANGED <<app, saved, drive, faults, version>>

-----------------------------------------------------------------------------
(* A sync: its requests, each answered by Drive as it then is.              *)

\* (slip: what was edited while it ran taken for sent)
FinishedQuiet(c, run) ==
    LET a == app[c] IN
    /\ saved' = [saved EXCEPT ![c] = [id |-> run.id, version |-> run.version, hash |-> run.hash]]
    /\ Only(c, Ended([a EXCEPT !.held = FALSE, !.synced = TRUE, !.edited = FALSE,
                               !.played = FALSE, !.editTimer = FALSE, !.run = run]))

\* finishRun.
Finished(c, run) ==
    LET a == app[c]
        quiet == run.snapshotted /\ ~run.changed
    IN /\ saved' = [saved EXCEPT ![c] = [id |-> run.id, version |-> run.version, hash |-> run.hash]]
       /\ Only(c, Ended([a EXCEPT !.held = FALSE, !.synced = TRUE, !.edited = @ /\ ~quiet,
                                  !.played = @ /\ ~quiet, !.editTimer = @ /\ ~quiet,
                                  !.run = run]))

\* removeExtras: deleted once what they held is in the file kept.
Removing(c, run) ==
    IF Len(run.files) >= run.extra /\ run.keptRead
    THEN Only(c, [app[c] EXCEPT !.run = [run EXCEPT !.step = "deleting"]]) /\ UNCHANGED saved
    ELSE Finished(c, run)

\* mergeAndUpload: nothing to send and nothing new, or nothing new to send, or
\* the library as it now is.
MergeAndUpload(c, run, mine) ==
    LET a == app[c]
        kept == run.files[1]
        snapped == [run EXCEPT !.snapshotted = TRUE, !.hash = {mine}, !.changed = FALSE]
    IN IF /\ ~run.forced /\ ~run.keptRead /\ Len(run.files) = 1
          /\ a.synced /\ ~a.edited /\ (~a.played \/ ~run.periodic) /\ saved[c].hash # {}
       THEN Removing(c, [run EXCEPT !.id = kept.id, !.version = kept.version, !.hash = saved[c].hash])
       ELSE IF run.files # <<>> /\ {mine} = (IF run.keptRead THEN run.kept ELSE saved[c].hash)
       THEN Removing(c, [snapped EXCEPT !.id = kept.id, !.version = kept.version])
       ELSE /\ Only(c, [a EXCEPT !.run = [snapped EXCEPT !.step = "sending"]])
            /\ UNCHANGED saved

\* The files there are, the first by id first.
Listings ==
    {ids \in [1 .. Cardinality(DOMAIN drive) -> DOMAIN drive] :
        \A i, j \in DOMAIN ids : i < j => ids[i] < ids[j]}

\* found: the file unchanged since it was last seen is not read again.
Listed(c, files) ==
    LET run == app[c].run
        found == [run EXCEPT !.files = files]
    IN IF files = <<>>
          \/ /\ ~run.forced /\ Len(files) = 1 /\ saved[c].hash # {}
             /\ files[1] = [id |-> saved[c].id, version |-> saved[c].version]
       THEN MergeAndUpload(c, found, lib[c])
       ELSE Only(c, [app[c] EXCEPT !.run = [found EXCEPT !.step = "reading"]]) /\ UNCHANGED saved

List(c) ==
    /\ app[c].run.step = "listing"
    /\ \E ids \in Listings : Listed(c, [i \in DOMAIN ids |-> [id |-> ids[i], version |-> drive[ids[i]].version]])
    /\ UNCHANGED <<lib, drive, faults, version>>

\* A file that went is looked for again, once.
Gone(c) ==
    LET a == app[c] IN
    Only(c, IF a.run.refound THEN Failed(a, FALSE) ELSE [a EXCEPT !.run = [Found(@) EXCEPT !.refound = TRUE]])

\* downloaded and downloadNext.
Download(c) ==
    LET run == app[c].run
        id == run.files[run.next].id
        mine == lib[c] \union drive[id].holds
        read == [run EXCEPT !.next = @ + 1, !.keptRead = TRUE,
                            !.kept = IF run.next = 1 THEN {drive[id].holds} ELSE @]
    IN /\ run.step = "reading"
       /\ IF id \notin DOMAIN drive THEN Gone(c) /\ UNCHANGED <<lib, saved>>
          ELSE IF drive[id].newer THEN Only(c, Failed(app[c], TRUE)) /\ UNCHANGED <<lib, saved>>
          ELSE /\ lib' = [lib EXCEPT ![c] = mine]
               /\ IF run.next < Len(run.files)
                  THEN Only(c, [app[c] EXCEPT !.run = read]) /\ UNCHANGED saved
                  ELSE MergeAndUpload(c, read, mine)
       /\ UNCHANGED <<drive, faults, version>>

Written(id, holds, newer) ==
    [i \in DOMAIN drive \union {id} |->
        IF i = id THEN [version |-> version + 1, holds |-> holds, newer |-> newer] ELSE drive[i]]

\* Drive takes an upload: a file made, or the one kept written over.
Upload(c) ==
    LET run == app[c].run
        holds == CHOOSE s \in run.hash : TRUE
        into(id) ==
            /\ version < MaxVersion
            /\ version' = version + 1
            /\ drive' = Written(id, holds, FALSE)
            /\ Only(c, [app[c] EXCEPT !.run = [run EXCEPT !.step = "sent", !.id = id, !.version = version + 1]])
    IN /\ run.step = "sending"
       /\ IF run.files = <<>> THEN \E id \in Ids \ DOMAIN drive : into(id)
          ELSE IF run.files[1].id \in DOMAIN drive THEN into(run.files[1].id)
          ELSE Gone(c) /\ UNCHANGED <<drive, version>>
       /\ UNCHANGED <<lib, saved, faults>>

\* (slip: the version recorded as the answer came, not as it was written)
UploadedNewest(c) ==
    /\ app[c].run.step = "sent"
    /\ Removing(c, [app[c].run EXCEPT !.version =
                        IF @ > 0 /\ app[c].run.id \in DOMAIN drive THEN drive[app[c].run.id].version ELSE @])
    /\ UNCHANGED <<lib, drive, faults, version>>

\* uploaded: and its answer arrives.
Uploaded(c) ==
    /\ app[c].run.step = "sent"
    /\ Removing(c, app[c].run)
    /\ UNCHANGED <<lib, drive, faults, version>>

\* A second copy is deleted, or cannot be now.
Delete(c) ==
    LET run == app[c].run
        id == run.files[run.extra].id
    IN /\ run.step = "deleting"
       /\ \/ drive' = [i \in DOMAIN drive \ {id} |-> drive[i]] /\ UNCHANGED faults
          \/ Fault /\ UNCHANGED drive
       /\ Removing(c, [run EXCEPT !.extra = @ + 1])
       /\ UNCHANGED <<lib, version>>

\* No network, Drive busy, a clock found wrong, the library refusing the merge.
Fails(c) ==
    /\ Running(app[c]) /\ app[c].run.step # "deleting" /\ Fault
    /\ Only(c, Failed(app[c], FALSE))
    /\ UNCHANGED <<lib, saved, drive, version>>

\* The power goes as finishRun writes its settings one by one.
FinishCut(c) ==
    LET run == app[c].run IN
    /\ run.step = "sent" /\ Fault
    /\ saved' = [saved EXCEPT ![c].id = run.id, ![c].version = run.version]
    /\ Only(c, Requested([Launched EXCEPT !.signedIn = TRUE]))
    /\ UNCHANGED <<lib, drive, version>>

\* The listener deletes the hidden app data; a newer Monolist writes the file.
DriveEmptied ==
    /\ Fault /\ DOMAIN drive # {}
    /\ drive' = <<>>
    /\ UNCHANGED <<lib, app, saved, version>>

NewerWrites ==
    /\ Fault /\ version < MaxVersion
    /\ version' = version + 1
    /\ \E id \in DOMAIN drive : drive' = Written(id, drive[id].holds, TRUE)
    /\ UNCHANGED <<lib, app, saved>>

-----------------------------------------------------------------------------

Answers(c) == List(c) \/ Download(c) \/ Upload(c) \/ Uploaded(c) \/ Delete(c)

Next ==
    \/ \E c \in Computers :
          \/ SyncTimer(c) \/ EditTimer(c) \/ Period(c) \/ SyncNow(c)
          \/ SignIn(c) \/ SignOut(c) \/ Relaunch(c)
          \/ Edit(c) \/ Play(c) \/ PlayEnds(c)
          \/ Answers(c) \/ Fails(c) \/ FinishCut(c)
    \/ DriveEmptied \/ NewerWrites

Spec == Init /\ [][Next]_sync

\* Timers fire, requests are answered, the half hours go by and a computer signed
\* out is signed in again.
Fairness ==
    \A c \in Computers :
        /\ WF_sync(SyncTimer(c)) /\ WF_sync(EditTimer(c)) /\ WF_sync(Period(c))
        /\ WF_sync(Answers(c)) /\ WF_sync(SignIn(c))

FairSpec == Spec /\ Fairness

-----------------------------------------------------------------------------

\* The shapes of the variables.
Things == ({"edit"} \X (1 .. MaxDone)) \union ({"play", "heard"} \X (1 .. MaxPlays))
TypeOK ==
    /\ faults \in 0 .. MaxFaults /\ version \in 0 .. MaxVersion
    /\ DOMAIN drive \subseteq Ids
    /\ \A id \in DOMAIN drive :
          drive[id] \in [version : 1 .. version, holds : SUBSET Things, newer : BOOLEAN]
    /\ \A c \in Computers :
          /\ lib[c] \subseteq Things
          /\ saved[c].version \in 0 .. version
          /\ app[c].run.step \in {"none", "listing", "reading", "sending", "sent", "deleting"}
          /\ Running(app[c]) => app[c].signedIn
          /\ app[c].held => ~Running(app[c])

\* What was recorded of the file is what it holds for as long as it is the
\* version recorded: not reading it again loses nothing.
SavedIsTrue ==
    \A c \in Computers : \A id \in DOMAIN drive :
        saved[c].id = id /\ saved[c].version = drive[id].version =>
            /\ drive[id].holds \subseteq lib[c]
            /\ \A known \in saved[c].hash : known \subseteq drive[id].holds

\* "Nothing edited while it ran: what is in Drive is the library" (finishRun): a
\* sync that takes what was done here for sent has all of this library in the file
\* recorded, how its plays ended aside, unless that was written since, or a file
\* went while it ran (find() looks again, but keeps what was snapshotted before).
SentIsAll ==
    [][\A c \in Computers :
          /\ (app[c].edited \/ app[c].played) /\ ~app[c].run.refound
          /\ app'[c].synced /\ ~app'[c].edited /\ ~app'[c].played
          /\ saved'[c].id \in DOMAIN drive' /\ saved'[c].version = drive'[saved'[c].id].version
          => \A d \in lib'[c] : d[1] # "heard" => d \in drive'[saved'[c].id].holds]_sync

\* And of two computers, for as long as there is nothing to send: all of this
\* library is in Drive.  (Of three, another may delete a copy that was written
\* after it read it.)
AtRest(c) ==
    /\ ~Running(app[c]) /\ app[c].synced /\ ~app[c].edited /\ ~app[c].played
    /\ saved[c].id \in DOMAIN drive /\ saved[c].version = drive[saved[c].id].version
InDrive == UNION {drive[id].holds : id \in DOMAIN drive}
WhatIsInDriveIsTheLibrary ==
    \A c \in Computers : AtRest(c) => \A d \in lib[c] : d[1] # "heard" => d \in InDrive

\* The same of everything the file is to hold, how each play was heard included.
EveryPlayIsInDrive == \A c \in Computers : AtRest(c) => lib[c] \subseteq InDrive

\* "A file that cannot be read is never overwritten".
NeverOverwritten ==
    [][\A id \in DOMAIN drive \intersect DOMAIN drive' :
          drive[id].newer => drive'[id].newer]_sync

\* A computer that found the file unreadable goes on knowing so, through launches
\* and whatever timers were running or are armed since, and writes and deletes
\* nothing, until the listener says: SYNC NOW, signing out or in again.
LeftAlone(a) == a.held /\ ~Running(a)
HeldIsLeftAlone ==
    [][\A c \in Computers :
          app[c].held => LeftAlone(app'[c]) \/ SyncNow(c) \/ SignIn(c) \/ SignOut(c)]_sync

\* Left alone, every computer comes to hold all that was done on any, and so does
\* the one file in Drive.
Everywhere ==
    \A d \in Done : d[1] # "heard" =>
        /\ \A c \in Computers : d \in lib[c]
        /\ \A id \in DOMAIN drive : d \in drive[id].holds
AllTheSame == <>[](Everywhere /\ Cardinality(DOMAIN drive) = 1)
=============================================================================
