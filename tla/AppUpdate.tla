----------------------------- MODULE AppUpdate -----------------------------
(***************************************************************************)
(* The in-app update (appupdater.cpp, appupdater_win.cpp, appupdater_mac.mm*)
(* and AppInfo's use of them): a release downloaded, checked and made ready*)
(* beside this copy; RESTART, which hands it to a helper and quits; the    *)
(* helper, which swaps the copies once Monolist is gone and waits for the  *)
(* new one to start; and the launch that reads what came of it.  One       *)
(* library is open in one Monolist at a time (instanceguard.cpp).          *)
(***************************************************************************)
EXTENDS Integers

CONSTANTS
    Targets,  \* the copies it may be: on a Mac or a portable one on Windows, and
              \* such as can or cannot be replaced where they are
    Meddles,  \* may Monolist be opened by hand while the helper is at work
    Cuts      \* may the helper be ended half way: a power cut, a log-out

ASSUME UpdateAssumption ==
    /\ Targets \subseteq [mac : BOOLEAN, blocked : BOOLEAN]
    /\ Meddles \in BOOLEAN /\ Cuts \in BOOLEAN

VARIABLES
    copies,   \* which Monolist is in place, which got ready, which put aside; and
              \* whether on a Mac, and in a place it cannot be replaced in
    program,  \* the Monolist running, and its AppUpdater
    helper,   \* where the helper of a RESTART is
    note,     \* pending.json, started and result.txt
    files     \* the download, its .part, and threads still hashing for nobody

update == <<copies, program, helper, note, files>>

Mac == copies.mac
Blocked == copies.blocked

NotRunning == [version |-> "none", at |-> "app", window |-> FALSE, phase |-> "Idle",
               task |-> "none", handed |-> FALSE, refused |-> FALSE, due |-> FALSE]

Running == program.version # "none"

\* What an older round's answers are measured against is `task`, this round's;
\* a checksum thread cannot be stopped and ends as nobody's.
Working == helper # "none"

Busy == program.handed \/ program.phase \in {"Downloading", "Preparing", "Ready", "Manual"}

\* QDir(m_stagingRoot).removeRecursively(): on the Mac the copy put aside is in
\* the same folder.
Unstaged(c) == [c EXCEPT !.staged = "none", !.aside = IF Mac THEN "none" ELSE @]

\* stopNetwork and stopPlatform: the part goes, processes are killed, and what
\* was got ready goes, unless a RESTART has given it to the helper.
\* m_stagingRoot is set from stagePlatform on.
HasStaging == program.phase \in {"Preparing", "Ready"}
\* (slip: the staged copy deleted, whoever has it)
StoppedAnyway(c) == IF HasStaging THEN Unstaged(c) ELSE c

Stopped(c) == IF HasStaging /\ ~program.handed THEN Unstaged(c) ELSE c
NoPart == [files EXCEPT !.part = FALSE, !.hashing = @ \/ program.task = "hash"]

Init ==
    /\ \E target \in Targets :
          copies = [mac |-> target.mac, blocked |-> target.blocked,
                    app |-> "old", staged |-> "none", aside |-> "none"]
    /\ program = NotRunning
    /\ helper = "none"
    /\ note = [pending |-> FALSE, started |-> "none", result |-> "none"]
    /\ files = [part |-> FALSE, file |-> "none", hashing |-> FALSE]

-----------------------------------------------------------------------------

\* A Monolist started from its place, by the listener or the helper.  With one
\* running already it brings that one's window forward and ends.
Opened == IF Running THEN program ELSE [NotRunning EXCEPT !.version = copies.app]

Open ==
    /\ ~Running
    /\ copies.app # "none"
    /\ Working => Meddles
    /\ program' = Opened
    /\ UNCHANGED <<copies, helper, note, files>>

\* noteStarted, once the window is up: the word the helper waits for, which does
\* not say whose it is.
WindowUp ==
    /\ Running /\ ~program.window
    /\ program' = [program EXCEPT !.window = TRUE, !.due = TRUE]
    /\ note' = [note EXCEPT !.started = IF note.pending THEN program.version ELSE @]
    /\ UNCHANGED <<copies, helper, files>>

\* A new copy with a part of it missing ends before its window: in an error, or
\* of itself, which the helper on Windows tells apart by the exit code it has a
\* handle to ("exited": the code was 0).
DiesStarting(ofItself) ==
    /\ program.version = "new" /\ ~program.window
    /\ program' = NotRunning
    /\ helper' = IF ofItself /\ helper = "starting" /\ ~Mac THEN "exited" ELSE helper
    /\ UNCHANGED <<copies, note, files>>

\* startUpdateHousekeeping: while the helper of a RESTART is at work it is waited
\* for, longer than it takes; one that was killed leaves no word.
HelperDone == ~note.pending \/ note.result # "none"

Housekeeping ==
    LET updated == program.version = "new" IN
    /\ program.due
    /\ HelperDone \/ ~Working
    /\ program' = [program EXCEPT !.due = FALSE]
    /\ IF Busy THEN UNCHANGED <<copies, note, files>>
       ELSE /\ note' = [pending |-> FALSE, started |-> "none", result |-> "none"]
            /\ copies' = Unstaged(copies)
            /\ files' = [files EXCEPT !.part = FALSE, !.file = IF updated THEN "none" ELSE @]
    /\ UNCHANGED helper

\* AppInfo checks again, and so may start again, while nothing is on its way: not
\* of a copy got ready, unless its RESTART was refused.
Startable ==
    \/ program.phase \in {"Idle", "Failed", "Manual"}
    \/ program.phase = "Ready" /\ program.refused

\* start(): only the old copy finds a newer release.  A new round, what was under
\* way or ready stopped, and the published checksum asked for.
Start ==
    /\ program.version = "old" /\ program.window /\ ~program.handed
    /\ Startable
    /\ program' = [program EXCEPT !.phase = "Downloading", !.task = "checksum", !.refused = FALSE]
    /\ copies' = Stopped(copies)
    /\ files' = NoPart
    /\ UNCHANGED <<helper, note>>

\* fail() and reject(), in any round's handler.
Fail(file) ==
    /\ program' = [program EXCEPT !.phase = "Failed", !.task = "none"]
    /\ copies' = Stopped(copies)
    /\ files' = [NoPart EXCEPT !.file = file]
    /\ UNCHANGED <<helper, note>>

\* checkExisting: a file of this release downloaded before is hashed again.
ChecksumArrived ==
    /\ program.task = "checksum"
    /\ IF files.file = "none"
       THEN /\ program' = [program EXCEPT !.task = "download"]
            /\ files' = [files EXCEPT !.part = TRUE]
       ELSE /\ program' = [program EXCEPT !.task = "hash"]
            /\ UNCHANGED files
    /\ UNCHANGED <<copies, helper, note>>

\* downloaded() and stage(): the folder it is made ready in is emptied first.
Stage(p) == [p EXCEPT !.phase = IF Blocked /\ ~Mac THEN "Manual" ELSE "Preparing",
                      !.task = IF Blocked /\ ~Mac THEN "none" ELSE "stage"]

Hashed ==
    /\ program.task = "hash"
    /\ IF files.file = "good"
       THEN /\ program' = Stage(program)
            /\ copies' = IF Stage(program).task = "stage" THEN Unstaged(copies) ELSE copies
            /\ UNCHANGED files
       ELSE /\ program' = [program EXCEPT !.task = "download"]
            /\ files' = [files EXCEPT !.file = "none", !.part = TRUE]
            /\ UNCHANGED copies
    /\ UNCHANGED <<helper, note>>

\* (slip: an older round's checksum heeded)
HashedForThis ==
    /\ files.hashing
    /\ files' = [files EXCEPT !.hashing = FALSE]
    /\ program' = IF Running /\ files.file # "good" THEN [program EXCEPT !.task = "download"] ELSE program
    /\ UNCHANGED <<copies, helper, note>>

\* What an older round's thread has hashed is not listened to.
HashedForNobody ==
    /\ files.hashing
    /\ files' = [files EXCEPT !.hashing = FALSE]
    /\ UNCHANGED <<copies, program, helper, note>>

\* (slip: the download kept without comparing it)
DownloadedUnchecked(matches) ==
    /\ program.task = "download"
    /\ program' = Stage(program)
    /\ copies' = IF Stage(program).task = "stage" THEN Unstaged(copies) ELSE copies
    /\ files' = [files EXCEPT !.part = FALSE, !.file = IF matches THEN "good" ELSE "bad"]
    /\ UNCHANGED <<helper, note>>

\* Renamed from its .part only when it matches the published SHA-256.
Downloaded(matches) ==
    /\ program.task = "download"
    /\ IF matches
       THEN /\ program' = Stage(program)
            /\ copies' = IF Stage(program).task = "stage" THEN Unstaged(copies) ELSE copies
            /\ files' = [files EXCEPT !.part = FALSE, !.file = "good"]
            /\ UNCHANGED <<helper, note>>
       ELSE Fail(files.file)

\* What has been downloaded may rot where it is kept.
Rot ==
    /\ files.file = "good" /\ program.phase \notin {"Preparing", "Ready", "Manual"}
    /\ files' = [files EXCEPT !.file = "bad"]
    /\ UNCHANGED <<copies, program, helper, note>>

\* stagePlatform's end: unpacked, or copied out of the disk image and verified.
\* A copy the listener is to put in place is only checked.
Staged ==
    /\ program.task = "stage"
    /\ program' = [program EXCEPT !.task = "none", !.phase = IF Blocked THEN "Manual" ELSE "Ready"]
    /\ copies' = IF Blocked THEN Unstaged(copies) ELSE [copies EXCEPT !.staged = "new"]
    /\ UNCHANGED <<helper, note, files>>

\* Or it is not what it should be, and is deleted with its download.
StageFails(rejected) ==
    /\ program.task = "stage"
    /\ Fail(IF rejected THEN "none" ELSE files.file)

AskFails ==
    /\ program.task \in {"checksum", "download"}
    /\ Fail(files.file)

Cancel ==
    /\ ~program.handed
    /\ program.phase \in {"Downloading", "Preparing"}
    /\ program' = [program EXCEPT !.phase = "Idle", !.task = "none"]
    /\ copies' = Stopped(copies)
    /\ files' = NoPart
    /\ UNCHANGED <<helper, note>>

\* RESTART: handOver and launchHelper, after which Monolist quits.
HandOver ==
    /\ program.phase = "Ready" /\ ~program.handed /\ ~program.refused
    /\ copies.staged # "none"
    /\ program' = [program EXCEPT !.handed = TRUE]
    /\ helper' = "waiting"
    /\ copies' = [copies EXCEPT !.aside = IF Mac THEN "none" ELSE @]
    /\ note' = [pending |-> TRUE, started |-> "none", result |-> "none"]
    /\ UNCHANGED files

\* The helper could not be started: what was written for it goes again, and
\* RESTART is offered no more.
HandOverFails ==
    /\ program.phase = "Ready" /\ ~program.handed /\ ~program.refused
    /\ program' = [program EXCEPT !.refused = TRUE]
    /\ note' = [pending |-> FALSE, started |-> "none", result |-> "none"]
    /\ UNCHANGED <<copies, helper, files>>

Quit ==
    /\ Running /\ program.window
    /\ program' = NotRunning
    /\ copies' = Stopped(copies)
    /\ files' = [NoPart EXCEPT !.hashing = FALSE]
    /\ UNCHANGED <<helper, note>>

Crash ==
    /\ Running
    /\ program' = NotRunning
    /\ files' = [files EXCEPT !.hashing = FALSE]
    /\ UNCHANGED <<copies, helper, note>>

-----------------------------------------------------------------------------
(* The helper: runSwapHelper on a Mac, update-helper.ps1 on Windows.        *)

Ends(result) == helper' = "none" /\ note' = [note EXCEPT !.result = result]

\* (slip: ended without starting Monolist again)
EndsUnopened(result) ==
    /\ Ends(result)
    /\ UNCHANGED <<copies, program, files>>

\* What it gives up on, it says, and starts again the copy in place.
EndsAsItWas(result) ==
    /\ Ends(result)
    /\ UNCHANGED <<copies, files>>
    /\ program' = Opened

NeverQuit ==
    /\ helper = "waiting" /\ program.handed
    /\ Ends("stayed")
    /\ UNCHANGED <<copies, program, files>>

\* Monolist has gone; what is to go in is looked at once more.
HasQuit ==
    /\ helper = "waiting" /\ ~program.handed
    /\ \/ /\ copies.staged # "none"
          /\ helper' = "moving aside"
          /\ UNCHANGED <<copies, program, note, files>>
       \/ EndsAsItWas("unchanged")

\* Windows lets no folder be moved that a program runs from.
InUse == ~Mac /\ Running /\ program.at = "app"

MoveAside ==
    /\ helper = "moving aside"
    /\ \/ /\ copies.app # "none" /\ ~InUse
          /\ copies' = [copies EXCEPT !.aside = copies.app, !.app = "none"]
          /\ program' = [program EXCEPT !.at = IF Running THEN "aside" ELSE @]
          /\ helper' = "moving in"
          /\ UNCHANGED <<note, files>>
       \/ EndsAsItWas("unchanged")

\* The way back: the copy put aside to its place again, or word of where it is.
WayBack(from) ==
    \/ /\ from.app = "none" /\ from.aside # "none"
       /\ copies' = [from EXCEPT !.app = from.aside, !.aside = "none"]
       /\ program' = IF Running THEN program ELSE [NotRunning EXCEPT !.version = from.aside]
       /\ Ends("back")
    \/ /\ copies' = from
       /\ Ends("lost")
       /\ UNCHANGED program

MoveIn ==
    /\ helper = "moving in"
    /\ \/ /\ copies.staged # "none"
          /\ copies' = [copies EXCEPT !.app = copies.staged, !.staged = "none"]
          /\ helper' = "opening"
          /\ UNCHANGED <<program, note>>
       \/ WayBack(copies)
    /\ UNCHANGED files

\* (slip: "put back" said where it could not be)
PutBackSaid ==
    \/ /\ copies.staged = "none"
       /\ WayBack([copies EXCEPT !.staged = copies.app, !.app = "none"])
    \/ /\ Ends("back")
       /\ UNCHANGED <<copies, program>>

\* putBack: the new copy out of the way again first.
PutBack ==
    \/ /\ copies.staged = "none"
       /\ WayBack([copies EXCEPT !.staged = copies.app, !.app = "none"])
    \/ /\ Ends("lost")
       /\ UNCHANGED <<copies, program>>

\* With a Monolist running the one started brings its window forward, and ends
\* of itself.
OpenNew ==
    /\ helper = "opening"
    /\ \/ /\ program' = Opened
          /\ helper' = IF Running /\ ~Mac THEN "exited" ELSE "starting"
          /\ note' = [note EXCEPT !.started = IF Mac THEN "none" ELSE @]
          /\ UNCHANGED copies
       \/ PutBack
    /\ UNCHANGED files

\* It has left its word, or still runs when the time is up; or, on Windows, has
\* ended with exit code 0, word or no word.
StillRuns == Running /\ program.at = "app"
TakenForStarted ==
    \/ helper = "starting" /\ (note.started # "none" \/ StillRuns)
    \/ helper = "exited"

NewStarted ==
    /\ TakenForStarted
    /\ \E keep \in {FALSE, ~Mac} :
          copies' = [copies EXCEPT !.aside = IF keep THEN @ ELSE "none"]
    /\ Ends("ok")
    /\ UNCHANGED <<program, files>>

\* (slip: the copy put aside deleted before the new one is known to run)
NewPresumed ==
    /\ helper = "starting"
    /\ note.started = "none" /\ ~StillRuns
    /\ copies' = [copies EXCEPT !.aside = "none"]
    /\ Ends("ok")
    /\ UNCHANGED <<program, files>>

NewDidNotStart ==
    /\ helper = "starting"
    /\ note.started = "none" /\ ~StillRuns
    /\ PutBack
    /\ UNCHANGED files

HelperDies ==
    /\ Cuts /\ Working
    /\ helper' = "none"
    /\ UNCHANGED <<copies, program, note, files>>

-----------------------------------------------------------------------------

HelperSteps ==
    NeverQuit \/ HasQuit \/ MoveAside \/ MoveIn \/ OpenNew \/ NewStarted \/ NewDidNotStart

Next ==
    \/ Open \/ WindowUp \/ Housekeeping
    \/ \E ofItself \in BOOLEAN : DiesStarting(ofItself)
    \/ Start \/ ChecksumArrived \/ Hashed \/ HashedForNobody
    \/ \E yes \in BOOLEAN : Downloaded(yes) \/ StageFails(yes)
    \/ Rot \/ Staged \/ AskFails \/ Cancel
    \/ HandOver \/ HandOverFails \/ Quit \/ Crash
    \/ HelperSteps \/ HelperDies

Spec == Init /\ [][Next]_update

-----------------------------------------------------------------------------

\* The shapes of the variables.
TypeOK ==
    /\ copies \in [mac : BOOLEAN, blocked : BOOLEAN, app : {"none", "old", "new"},
                   staged : {"none", "old", "new"}, aside : {"none", "old", "new"}]
    /\ program \in [version : {"none", "old", "new"}, at : {"app", "aside"}, window : BOOLEAN,
                    phase : {"Idle", "Downloading", "Preparing", "Ready", "Manual", "Failed"},
                    task : {"none", "checksum", "hash", "download", "stage"},
                    handed : BOOLEAN, refused : BOOLEAN, due : BOOLEAN]
    /\ helper \in {"none", "waiting", "moving aside", "moving in", "opening", "starting", "exited"}
    /\ note \in [pending : BOOLEAN, started : {"none", "old", "new"},
                 result : {"none", "ok", "back", "unchanged", "stayed", "lost"}]
    /\ files \in [part : BOOLEAN, file : {"none", "good", "bad"}, hashing : BOOLEAN]

\* Something is under way exactly while the phase says so: no answer of a round
\* cancelled or failed since starts anything (m_round).
PhaseIsTrue ==
    /\ program.task \in {"checksum", "hash", "download"} <=> program.phase = "Downloading"
    /\ program.task = "stage" <=> program.phase = "Preparing"

\* RESTART is offered only of a copy that is there, made from a file that
\* matched its checksum.
ReadyIsReal == program.phase = "Ready" /\ ~program.handed => copies.staged = "new" /\ files.file = "good"

\* The last old copy goes only once a new one runs or has left its word: the swap
\* helper "waits for it to start (the word it leaves, "started")"
\* (appupdater.h:148).  Test-Started on Windows has one more way, left out by name:
\* a new copy that ended with exit code 0 and left no word.
HasOld(c) == "old" \in {c.app, c.staged, c.aside}
OldUntilNewStarts ==
    [][HasOld(copies) /\ ~HasOld(copies') =>
          "new" \in {program.version, note.started} \/ helper = "exited"]_update

\* From RESTART on the staged copy is the helper's: no cancel, quit, failure or
\* housekeeping takes it, only the helper's own moves.
HelperOwnsStaged ==
    [][Working /\ copies.staged = "new" /\ copies'.staged # "new" => helper' # helper]_update

\* The word the helper leaves is what the next launch finds in place.
ResultIsTrue ==
    /\ note.result = "ok" => copies.app = "new"
    /\ note.result \in {"unchanged", "back", "stayed"} => copies.app = "old"
    /\ note.result = "lost" => copies.aside = "old"

\* After RESTART Monolist comes back: the helper ends with one running again, or
\* one having left its word, unless Monolist would not quit or neither copy could
\* be put in place (appupdater_win.cpp: "puts the new copy in place and starts
\* Monolist again"); or unless, on Windows, the new one ended with exit code 0,
\* which is all the helper asks of one that has ended.
RestartComesBack ==
    [][Working /\ helper' = "none" /\ note'.result \notin {"none", "stayed", "lost"}
          => Running' \/ note'.started # "none" \/ helper = "exited"]_update

\* An update's task is the one its phase shows, RESTART is offered only of a
\* verified copy that is there, and the helper's last word is what the next
\* launch finds.
UpdateIsTrue == PhaseIsTrue /\ ReadyIsReal /\ ResultIsTrue

\* The old copy goes only once a new one has started, from RESTART on only the
\* helper moves the staged copy, and Monolist comes back, the new one or the old:
\* but for a new copy on Windows that ends of itself (see both).
UpdateNeverStrands == OldUntilNewStarts /\ HelperOwnsStaged /\ RestartComesBack
=============================================================================
