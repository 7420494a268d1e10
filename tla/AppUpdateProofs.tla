-------------------------- MODULE AppUpdateProofs --------------------------
(***************************************************************************)
(* What AppUpdate promises, proved for any set of copies it may be and     *)
(* whether or not the helper may be ended half way, while nobody opens     *)
(* Monolist by hand with the helper at work (Meddles = FALSE).             *)
(***************************************************************************)
EXTENDS AppUpdate, TLAPS

\* The types, named.
Copy == {"none", "old", "new"}
CopiesType == [mac : BOOLEAN, blocked : BOOLEAN, app : Copy, staged : Copy, aside : Copy]
ProgramType ==
    [version : Copy, at : {"app", "aside"}, window : BOOLEAN,
     phase : {"Idle", "Downloading", "Preparing", "Ready", "Manual", "Failed"},
     task : {"none", "checksum", "hash", "download", "stage"},
     handed : BOOLEAN, refused : BOOLEAN, due : BOOLEAN]
HelperType == {"none", "waiting", "moving aside", "moving in", "opening", "starting", "exited"}
Results == {"none", "ok", "back", "unchanged", "stayed", "lost"}
NoteType == [pending : BOOLEAN, started : Copy, result : Results]
FilesType == [part : BOOLEAN, file : {"none", "good", "bad"}, hashing : BOOLEAN]

\* Only a new copy is ever got ready.
StagedIsNew == copies.staged # "old"

\* A program just started, or none.
Fresh(p) ==
    /\ p.at = "app" /\ p.phase = "Idle" /\ p.task = "none"
    /\ ~p.window /\ ~p.handed /\ ~p.due

\* A program that is not running has nothing under way; only the old copy updates
\* itself, from its window; and what runs is the copy in place.
ProgramIsWhole ==
    /\ program.version = "none" => Fresh(program)
    /\ program.at = "app"
    /\ program.phase # "Idle" => program.version = "old" /\ program.window
    /\ program.handed => program.phase = "Ready"
    /\ program.version # "none" => copies.app = program.version

\* The file on disk matched its checksum for as long as it is used.
FileIsGood ==
    /\ program.phase \in {"Preparing", "Ready"} /\ ~program.handed => files.file = "good"
    /\ program.phase = "Ready" /\ ~program.handed => copies.staged = "new"

\* The helper's last word, with where the copies are.
ResultStands ==
    /\ note.result = "ok" => copies.app = "new"
    /\ note.result \in {"unchanged", "back", "stayed"} => copies.app = "old"
    /\ note.result = "lost" => copies.app # "old" /\ copies.aside = "old"

\* Where the copies are at each step of the helper, and that nothing runs while
\* it moves them.
HelperStands ==
    /\ helper # "none" => note.pending /\ note.result = "none" /\ note.started # "old"
    /\ helper = "waiting" =>
          /\ copies.app = "old" /\ copies.staged = "new"
          /\ program.version # "none" => program.handed
    /\ helper = "moving aside" =>
          copies.app = "old" /\ copies.staged = "new" /\ program.version = "none"
    /\ helper = "moving in" =>
          /\ copies.app = "none" /\ copies.staged = "new" /\ copies.aside = "old"
          /\ program.version = "none"
    /\ helper = "opening" =>
          /\ copies.app = "new" /\ copies.staged = "none" /\ copies.aside = "old"
          /\ program.version = "none"
    /\ helper \in {"starting", "exited"} =>
          copies.app = "new" /\ copies.staged = "none" /\ copies.aside = "old"

IInv ==
    /\ TypeOK /\ StagedIsNew /\ PhaseIsTrue /\ ProgramIsWhole
    /\ FileIsGood /\ ResultStands /\ HelperStands

-----------------------------------------------------------------------------
(* What the helpers of the model return.                                    *)

LEMMA Types ==
    TypeOK <=> /\ copies \in CopiesType /\ program \in ProgramType /\ helper \in HelperType
               /\ note \in NoteType /\ files \in FilesType
BY DEF TypeOK, CopiesType, ProgramType, HelperType, NoteType, FilesType, Copy, Results

LEMMA TypesPrimed ==
    TypeOK' <=> /\ copies' \in CopiesType /\ program' \in ProgramType /\ helper' \in HelperType
                /\ note' \in NoteType /\ files' \in FilesType
BY DEF TypeOK, CopiesType, ProgramType, HelperType, NoteType, FilesType, Copy, Results

\* What a step may not change of where the copies are.
SamePlace(c, d) == d \in CopiesType /\ d.app = c.app

LEMMA UnstagedDoes ==
    ASSUME TypeOK, NEW c \in CopiesType
    PROVE  /\ SamePlace(c, Unstaged(c)) /\ Unstaged(c).staged = "none"
           /\ Unstaged(c).aside \in {c.aside, "none"}
<1>1. Mac \in BOOLEAN
    BY Types DEF Mac, CopiesType
<1>2. CASE Mac
    BY <1>2 DEF Unstaged, SamePlace, CopiesType, Copy
<1>3. CASE ~Mac
    BY <1>3 DEF Unstaged, SamePlace, CopiesType, Copy
<1> QED BY <1>1, <1>2, <1>3

LEMMA StoppedDoes ==
    ASSUME IInv
    PROVE  /\ SamePlace(copies, Stopped(copies))
           /\ program.handed \/ program.phase \notin {"Preparing", "Ready"} => Stopped(copies) = copies
           /\ Stopped(copies).staged \in {copies.staged, "none"}
           /\ Stopped(copies).aside \in {copies.aside, "none"}
<1>1. copies \in CopiesType /\ TypeOK
    BY Types DEF IInv
<1>2. CASE HasStaging /\ ~program.handed
    BY <1>1, <1>2, UnstagedDoes DEF Stopped, HasStaging
<1>3. CASE ~(HasStaging /\ ~program.handed)
    BY <1>1, <1>3 DEF Stopped, HasStaging, SamePlace
<1> QED BY <1>2, <1>3

LEMMA NotRunningIs == NotRunning \in ProgramType /\ NotRunning.version = "none" /\ Fresh(NotRunning)
BY DEF NotRunning, ProgramType, Copy, Fresh

LEMMA StartedIs ==
    ASSUME NEW v \in Copy
    PROVE  LET p == [NotRunning EXCEPT !.version = v]
           IN  p \in ProgramType /\ p.version = v /\ Fresh(p)
BY DEF NotRunning, ProgramType, Copy, Fresh

\* A program as it was, or one started from the copy in place.
LEMMA OpenedDoes ==
    ASSUME IInv
    PROVE  /\ Opened \in ProgramType
           /\ program.version # "none" => Opened = program
           /\ program.version = "none" => Opened.version = copies.app /\ Fresh(Opened)
<1>1. copies.app \in Copy /\ program \in ProgramType
    BY Types DEF IInv, CopiesType
<1>2. CASE program.version = "none"
    BY <1>1, <1>2, StartedIs DEF Opened, Running
<1>3. CASE program.version # "none"
    BY <1>1, <1>3 DEF Opened, Running
<1> QED BY <1>2, <1>3

\* What a round's step may not change of the program.
SameProgram(p, q) ==
    /\ q \in ProgramType /\ q.version = p.version /\ q.at = p.at
    /\ q.window = p.window /\ q.handed = p.handed

LEMMA StageDoes ==
    ASSUME IInv
    PROVE  /\ SameProgram(program, Stage(program))
           /\ \/ Stage(program).phase = "Manual" /\ Stage(program).task = "none"
              \/ Stage(program).phase = "Preparing" /\ Stage(program).task = "stage"
<1>1. program \in ProgramType
    BY Types DEF IInv
<1>2. CASE Blocked /\ ~Mac
    BY <1>1, <1>2 DEF Stage, SameProgram, ProgramType
<1>3. CASE ~(Blocked /\ ~Mac)
    BY <1>1, <1>3 DEF Stage, SameProgram, ProgramType
<1> QED BY <1>2, <1>3

LEMMA NoPartIs ==
    ASSUME IInv PROVE NoPart \in FilesType /\ NoPart.file = files.file
<1>1. files \in FilesType /\ (program.task = "hash") \in BOOLEAN
    BY Types DEF IInv
<1>2. PICK h \in BOOLEAN : h = (files.hashing \/ program.task = "hash")
    BY <1>1
<1>3. NoPart = [files EXCEPT !.part = FALSE, !.hashing = h]
    BY <1>2 DEF NoPart
<1> QED BY <1>1, <1>3 DEF FilesType

\* A note with nothing in it but whether an update is pending.
Blank(n, p) == n \in NoteType /\ n.pending = p /\ n.started = "none" /\ n.result = "none"

LEMMA BlankIs ==
    ASSUME NEW p \in BOOLEAN PROVE Blank([pending |-> p, started |-> "none", result |-> "none"], p)
BY DEF Blank, NoteType, Copy, Results

LEMMA EndsDoes ==
    ASSUME IInv, NEW r \in Results, Ends(r)
    PROVE  /\ helper' = "none" /\ note' \in NoteType
           /\ note'.result = r /\ note'.started = note.started /\ note'.pending = note.pending
BY Types DEF IInv, Ends, NoteType

-----------------------------------------------------------------------------
(* Each step keeps the invariant.                                          *)

LEMMA OpenKeeps ==
    ASSUME IInv, Meddles = FALSE, Open
    PROVE  IInv'
<1>1. copies \in CopiesType /\ program \in ProgramType /\ helper \in HelperType
      /\ note \in NoteType /\ files \in FilesType
    BY Types DEF IInv
<1>2. UNCHANGED <<copies, helper, note, files>> /\ program' = Opened
      /\ program.version = "none" /\ copies.app # "none" /\ helper = "none"
    BY DEF Open, Working, Running
<1>3. program' \in ProgramType /\ program'.version = copies.app /\ Fresh(program')
    BY <1>2, OpenedDoes
<1>4. TypeOK'
    BY <1>1, <1>2, <1>3, TypesPrimed
<1>5. StagedIsNew' /\ PhaseIsTrue' /\ ProgramIsWhole' /\ FileIsGood'
    BY <1>1, <1>2, <1>3
    DEF IInv, StagedIsNew, PhaseIsTrue, ProgramIsWhole, FileIsGood, Fresh
<1>6. ResultStands' /\ HelperStands'
    BY <1>1, <1>2, <1>3
    DEF IInv, ResultStands, HelperStands, Fresh
<1> QED BY <1>4, <1>5, <1>6 DEF IInv

LEMMA WindowUpKeeps ==
    ASSUME IInv, WindowUp
    PROVE  IInv'
<1>1. copies \in CopiesType /\ program \in ProgramType /\ helper \in HelperType
      /\ note \in NoteType /\ files \in FilesType
    BY Types DEF IInv
<1>2. UNCHANGED <<copies, helper, files>> /\ program.version # "none" /\ ~program.window
      /\ program.phase = "Idle" /\ ~program.handed
      /\ helper \notin {"waiting", "moving aside", "moving in", "opening"}
    BY DEF IInv, ProgramIsWhole, HelperStands, WindowUp, Running
<1>3. /\ program' \in ProgramType /\ program'.window = TRUE
      /\ program'.version = program.version /\ program'.at = program.at
      /\ program'.phase = program.phase /\ program'.task = program.task
      /\ program'.handed = program.handed
    BY <1>1 DEF WindowUp, ProgramType
<1>4. /\ note' \in NoteType /\ note'.pending = note.pending /\ note'.result = note.result
      /\ note'.started \in {program.version, note.started}
    BY <1>1 DEF WindowUp, NoteType, ProgramType
<1>5. TypeOK'
    BY <1>1, <1>2, <1>3, <1>4, TypesPrimed
<1>6. StagedIsNew' /\ PhaseIsTrue' /\ ProgramIsWhole' /\ FileIsGood'
    BY <1>1, <1>2, <1>3, <1>4
    DEF IInv, StagedIsNew, PhaseIsTrue, ProgramIsWhole, FileIsGood, Fresh
<1>7. ResultStands' /\ HelperStands'
    BY <1>1, <1>2, <1>3, <1>4
    DEF IInv, ResultStands, HelperStands, ProgramIsWhole, StagedIsNew, Fresh, CopiesType,
        ProgramType, HelperType, NoteType, FilesType, Copy, Results
<1> QED BY <1>5, <1>6, <1>7 DEF IInv

LEMMA DiesStartingKeeps ==
    ASSUME IInv, NEW ofItself \in BOOLEAN, DiesStarting(ofItself)
    PROVE  IInv'
<1>1. copies \in CopiesType /\ program \in ProgramType /\ helper \in HelperType
      /\ note \in NoteType /\ files \in FilesType
    BY Types DEF IInv
<1>2. /\ UNCHANGED <<copies, note, files>> /\ program' = NotRunning
      /\ program.version = "new"
      /\ \/ helper' = helper
         \/ helper = "starting" /\ helper' = "exited"
    BY DEF DiesStarting
<1>3. program' \in ProgramType /\ program'.version = "none" /\ Fresh(program')
    BY <1>2, NotRunningIs
<1>4. TypeOK'
    BY <1>1, <1>2, <1>3, TypesPrimed DEF HelperType
<1>5. StagedIsNew' /\ PhaseIsTrue' /\ ProgramIsWhole' /\ FileIsGood'
    BY <1>1, <1>2, <1>3
    DEF IInv, StagedIsNew, PhaseIsTrue, ProgramIsWhole, FileIsGood, Fresh
<1>6. ResultStands' /\ HelperStands'
    BY <1>1, <1>2, <1>3
    DEF IInv, ResultStands, HelperStands, Fresh
<1> QED BY <1>4, <1>5, <1>6 DEF IInv

LEMMA HousekeepingKeeps ==
    ASSUME IInv, Housekeeping
    PROVE  IInv'
<1>1. copies \in CopiesType /\ program \in ProgramType /\ helper \in HelperType
      /\ note \in NoteType /\ files \in FilesType
    BY Types DEF IInv
<1>2. UNCHANGED helper /\ helper = "none" /\ program.due
    BY DEF Housekeeping, HelperDone, Working, IInv, HelperStands
<1>3. SameProgram(program, program') /\ ~program'.due
      /\ program'.phase = program.phase /\ program'.task = program.task
    BY <1>1 DEF Housekeeping, ProgramType, SameProgram
<1>4. \/ UNCHANGED <<copies, note, files>>
      \/ /\ program.phase \notin {"Preparing", "Ready"} /\ Blank(note', FALSE)
         /\ SamePlace(copies, copies') /\ copies'.staged = "none"
         /\ files' \in FilesType
    BY <1>1, UnstagedDoes, BlankIs DEF IInv, Housekeeping, Busy, FilesType
<1>5. TypeOK'
    BY <1>1, <1>2, <1>3, <1>4, TypesPrimed DEF SamePlace, SameProgram, Blank
<1>6. StagedIsNew' /\ PhaseIsTrue' /\ ProgramIsWhole' /\ FileIsGood'
    BY <1>1, <1>2, <1>3, <1>4
    DEF IInv, StagedIsNew, PhaseIsTrue, ProgramIsWhole, FileIsGood, Fresh, SamePlace,
        SameProgram, Blank
<1>7. ResultStands' /\ HelperStands'
    BY <1>1, <1>2, <1>3, <1>4
    DEF IInv, ResultStands, HelperStands, SamePlace, SameProgram, Blank
<1> QED BY <1>5, <1>6, <1>7 DEF IInv

LEMMA StartKeeps ==
    ASSUME IInv, Start
    PROVE  IInv'
<1>1. copies \in CopiesType /\ program \in ProgramType /\ helper \in HelperType
      /\ note \in NoteType /\ files \in FilesType
    BY Types DEF IInv
<1>2. UNCHANGED <<helper, note>> /\ helper = "none" /\ ~program.handed /\ copies.app = "old"
      /\ program.version = "old" /\ program.window
    BY <1>1 DEF IInv, ProgramIsWhole, HelperStands, HelperType, Start
<1>3. SameProgram(program, program') /\ program'.phase = "Downloading" /\ program'.task = "checksum"
    BY <1>1 DEF Start, ProgramType, SameProgram
<1>4. SamePlace(copies, copies') /\ copies'.staged \in {copies.staged, "none"}
    BY StoppedDoes DEF Start
<1>5. files' \in FilesType
    BY NoPartIs DEF Start
<1>6. TypeOK'
    BY <1>1, <1>2, <1>3, <1>4, <1>5, TypesPrimed DEF SamePlace, SameProgram
<1>7. StagedIsNew' /\ PhaseIsTrue' /\ ProgramIsWhole' /\ FileIsGood'
    BY <1>1, <1>2, <1>3, <1>4, <1>5
    DEF IInv, StagedIsNew, PhaseIsTrue, ProgramIsWhole, FileIsGood, Fresh, SamePlace,
        SameProgram
<1>8. ResultStands' /\ HelperStands'
    BY <1>1, <1>2, <1>3, <1>4, <1>5
    DEF IInv, ResultStands, HelperStands, SamePlace, SameProgram
<1> QED BY <1>6, <1>7, <1>8 DEF IInv

LEMMA ChecksumArrivedKeeps ==
    ASSUME IInv, ChecksumArrived
    PROVE  IInv'
<1>1. copies \in CopiesType /\ program \in ProgramType /\ helper \in HelperType
      /\ note \in NoteType /\ files \in FilesType
    BY Types DEF IInv
<1>2. UNCHANGED <<copies, helper, note>> /\ program.task = "checksum"
    BY DEF ChecksumArrived
<1>3. SameProgram(program, program') /\ program'.phase = program.phase
      /\ program'.task \in {"download", "hash"}
    BY <1>1 DEF ChecksumArrived, ProgramType, SameProgram
<1>4. files' \in FilesType /\ files'.file = files.file
    BY <1>1 DEF ChecksumArrived, FilesType
<1>5. TypeOK'
    BY <1>1, <1>2, <1>3, <1>4, TypesPrimed DEF SameProgram
<1>6. StagedIsNew' /\ PhaseIsTrue' /\ ProgramIsWhole' /\ FileIsGood'
    BY <1>1, <1>2, <1>3, <1>4
    DEF IInv, StagedIsNew, PhaseIsTrue, ProgramIsWhole, FileIsGood, Fresh, SameProgram
<1>7. ResultStands' /\ HelperStands'
    BY <1>1, <1>2, <1>3, <1>4
    DEF IInv, ResultStands, HelperStands, SameProgram
<1> QED BY <1>5, <1>6, <1>7 DEF IInv

\* A round whose file has matched its checksum goes on to make the copy ready.
LEMMA StageKeeps ==
    ASSUME IInv, program.task \in {"hash", "download"}, UNCHANGED <<helper, note>>,
           program' = Stage(program),
           copies' = IF Stage(program).task = "stage" THEN Unstaged(copies) ELSE copies,
           files' \in FilesType, files'.file = "good"
    PROVE  IInv'
<1>1. copies \in CopiesType /\ program \in ProgramType /\ helper \in HelperType
      /\ note \in NoteType /\ files \in FilesType
    BY Types DEF IInv
<1>2. /\ SameProgram(program, program')
      /\ \/ program'.phase = "Manual" /\ program'.task = "none" /\ copies' = copies
         \/ /\ program'.phase = "Preparing" /\ program'.task = "stage"
            /\ SamePlace(copies, copies') /\ copies'.staged = "none"
    BY <1>1, StageDoes, UnstagedDoes DEF IInv
<1>3. helper = "none" /\ ~program.handed /\ copies.app = "old"
      /\ program.version = "old" /\ program.window
    BY <1>1 DEF IInv, PhaseIsTrue, ProgramIsWhole, HelperStands, HelperType
<1>4. TypeOK'
    BY <1>1, <1>2, <1>3, TypesPrimed DEF SamePlace, SameProgram
<1>5. StagedIsNew' /\ PhaseIsTrue' /\ ProgramIsWhole' /\ FileIsGood'
    BY <1>1, <1>2, <1>3
    DEF IInv, StagedIsNew, PhaseIsTrue, ProgramIsWhole, FileIsGood, Fresh, SamePlace,
        SameProgram
<1>6. ResultStands' /\ HelperStands'
    BY <1>1, <1>2, <1>3
    DEF IInv, ResultStands, HelperStands, SamePlace, SameProgram
<1> QED BY <1>4, <1>5, <1>6 DEF IInv

LEMMA HashedAnewKeeps ==
    ASSUME IInv, program.task = "hash", UNCHANGED <<copies, helper, note>>, files' \in FilesType,
           program' = [program EXCEPT !.task = "download"]
    PROVE  IInv'
<1>1. copies \in CopiesType /\ program \in ProgramType /\ helper \in HelperType
      /\ note \in NoteType /\ files \in FilesType
    BY Types DEF IInv
<1>2. SameProgram(program, program') /\ program'.phase = program.phase /\ program'.task = "download"
    BY <1>1 DEF SameProgram, ProgramType
<1>3. helper = "none" /\ ~program.handed /\ copies.app = "old"
      /\ program.version = "old" /\ program.window /\ program.phase = "Downloading"
    BY <1>1 DEF IInv, PhaseIsTrue, ProgramIsWhole, HelperStands, HelperType
<1>4. TypeOK'
    BY <1>1, <1>2, <1>3, TypesPrimed DEF SameProgram
<1>5. StagedIsNew' /\ PhaseIsTrue' /\ ProgramIsWhole' /\ FileIsGood'
    BY <1>1, <1>2, <1>3
    DEF IInv, StagedIsNew, PhaseIsTrue, ProgramIsWhole, FileIsGood, Fresh, SameProgram
<1>6. ResultStands' /\ HelperStands'
    BY <1>1, <1>2, <1>3
    DEF IInv, ResultStands, HelperStands, SameProgram
<1> QED BY <1>4, <1>5, <1>6 DEF IInv

LEMMA HashedKeeps ==
    ASSUME IInv, Hashed PROVE IInv'
<1>0. files \in FilesType
    BY Types DEF IInv
<1>1. CASE files.file = "good"
    BY <1>0, <1>1, StageKeeps DEF Hashed
<1>2. CASE files.file # "good"
  <2>1. files' \in FilesType
    BY <1>0, <1>2 DEF Hashed, FilesType
  <2> QED BY <1>2, <2>1, HashedAnewKeeps DEF Hashed
<1> QED BY <1>1, <1>2

LEMMA HashedForNobodyKeeps ==
    ASSUME IInv, HashedForNobody
    PROVE  IInv'
<1>1. copies \in CopiesType /\ program \in ProgramType /\ helper \in HelperType
      /\ note \in NoteType /\ files \in FilesType
    BY Types DEF IInv
<1>2. UNCHANGED <<copies, program, helper, note>>
    BY DEF HashedForNobody
<1>3. files' \in FilesType /\ files'.file = files.file
    BY <1>1 DEF HashedForNobody, FilesType
<1>4. TypeOK'
    BY <1>1, <1>2, <1>3, TypesPrimed
<1>5. StagedIsNew' /\ PhaseIsTrue' /\ ProgramIsWhole' /\ FileIsGood'
    BY <1>1, <1>2, <1>3
    DEF IInv, StagedIsNew, PhaseIsTrue, ProgramIsWhole, FileIsGood, Fresh
<1>6. ResultStands' /\ HelperStands'
    BY <1>1, <1>2, <1>3
    DEF IInv, ResultStands, HelperStands
<1> QED BY <1>4, <1>5, <1>6 DEF IInv

LEMMA FailKeeps ==
    ASSUME IInv, program.task # "none", NEW file \in {"none", "good", "bad"}, Fail(file)
    PROVE  IInv'
<1>1. copies \in CopiesType /\ program \in ProgramType /\ helper \in HelperType
      /\ note \in NoteType /\ files \in FilesType
    BY Types DEF IInv
<1>2. helper = "none" /\ ~program.handed /\ copies.app = "old"
      /\ program.version = "old" /\ program.window /\ UNCHANGED <<helper, note>>
    BY <1>1 DEF IInv, PhaseIsTrue, ProgramIsWhole, HelperStands, HelperType, ProgramType, Fail
<1>3. SameProgram(program, program') /\ program'.phase = "Failed" /\ program'.task = "none"
    BY <1>1 DEF Fail, ProgramType, SameProgram
<1>4. SamePlace(copies, copies') /\ copies'.staged \in {copies.staged, "none"}
    BY StoppedDoes DEF Fail
<1>5. files' \in FilesType
    BY NoPartIs DEF Fail, FilesType
<1>6. TypeOK'
    BY <1>1, <1>2, <1>3, <1>4, <1>5, TypesPrimed DEF SamePlace, SameProgram
<1>7. StagedIsNew' /\ PhaseIsTrue' /\ ProgramIsWhole' /\ FileIsGood'
    BY <1>1, <1>2, <1>3, <1>4, <1>5
    DEF IInv, StagedIsNew, PhaseIsTrue, ProgramIsWhole, FileIsGood, Fresh, SamePlace,
        SameProgram
<1>8. ResultStands' /\ HelperStands'
    BY <1>1, <1>2, <1>3, <1>4, <1>5
    DEF IInv, ResultStands, HelperStands, SamePlace, SameProgram
<1> QED BY <1>6, <1>7, <1>8 DEF IInv

LEMMA DownloadedKeeps ==
    ASSUME IInv, NEW matches \in BOOLEAN, Downloaded(matches) PROVE IInv'
<1>0. files \in FilesType
    BY Types DEF IInv
<1>1. CASE matches
  <2>1. files' \in FilesType /\ files'.file = "good"
    BY <1>0, <1>1 DEF Downloaded, FilesType
  <2> QED BY <1>1, <2>1, StageKeeps DEF Downloaded
<1>2. CASE ~matches
  <2>1. Fail(files.file) /\ program.task # "none"
    BY <1>2 DEF Downloaded
  <2>2. files.file \in {"none", "good", "bad"}
    BY <1>0 DEF FilesType
  <2> QED BY <2>1, <2>2, FailKeeps
<1> QED BY <1>1, <1>2

LEMMA OtherwiseFailsKeeps ==
    ASSUME IInv, AskFails \/ (\E rejected \in BOOLEAN : StageFails(rejected)) PROVE IInv'
<1>1. files.file \in {"none", "good", "bad"}
    BY Types DEF IInv, FilesType
<1>2. CASE AskFails
  <2>1. Fail(files.file) /\ program.task # "none"
    BY <1>2 DEF AskFails
  <2> QED BY <1>1, <2>1, FailKeeps
<1>3. ASSUME NEW rejected \in BOOLEAN, StageFails(rejected) PROVE IInv'
  <2>1. PICK file \in {"none", "good", "bad"} : file = (IF rejected THEN "none" ELSE files.file)
    BY <1>1
  <2>2. Fail(file) /\ program.task # "none"
    BY <1>3, <2>1 DEF StageFails
  <2> QED BY <2>2, FailKeeps
<1> QED BY <1>2, <1>3

LEMMA RotKeeps ==
    ASSUME IInv, Rot
    PROVE  IInv'
<1>1. copies \in CopiesType /\ program \in ProgramType /\ helper \in HelperType
      /\ note \in NoteType /\ files \in FilesType
    BY Types DEF IInv
<1>2. UNCHANGED <<copies, program, helper, note>> /\ program.phase \notin {"Preparing", "Ready"}
    BY DEF Rot
<1>3. files' \in FilesType
    BY <1>1 DEF Rot, FilesType
<1>4. TypeOK'
    BY <1>1, <1>2, <1>3, TypesPrimed
<1>5. StagedIsNew' /\ PhaseIsTrue' /\ ProgramIsWhole' /\ FileIsGood'
    BY <1>1, <1>2, <1>3
    DEF IInv, StagedIsNew, PhaseIsTrue, ProgramIsWhole, FileIsGood, Fresh
<1>6. ResultStands' /\ HelperStands'
    BY <1>1, <1>2, <1>3
    DEF IInv, ResultStands, HelperStands
<1> QED BY <1>4, <1>5, <1>6 DEF IInv

LEMMA StagedKeeps ==
    ASSUME IInv, Staged
    PROVE  IInv'
<1>1. copies \in CopiesType /\ program \in ProgramType /\ helper \in HelperType
      /\ note \in NoteType /\ files \in FilesType
    BY Types DEF IInv
<1>2. UNCHANGED <<helper, note, files>> /\ helper = "none" /\ ~program.handed /\ copies.app = "old"
      /\ program.version = "old" /\ program.window
      /\ files.file = "good"
    BY <1>1 DEF IInv, PhaseIsTrue, ProgramIsWhole, HelperStands, HelperType, FileIsGood, Staged
<1>3. SameProgram(program, program') /\ program'.task = "none"
      /\ program'.phase = IF Blocked THEN "Manual" ELSE "Ready"
    BY <1>1 DEF Staged, SameProgram, ProgramType, CopiesType, Blocked
<1>4. SamePlace(copies, copies')
      /\ copies'.staged = IF Blocked THEN "none" ELSE "new"
    BY <1>1, UnstagedDoes DEF IInv, Staged, SamePlace, CopiesType, Copy
<1>5. TypeOK'
    BY <1>1, <1>2, <1>3, <1>4, TypesPrimed DEF SamePlace, SameProgram
<1>6. StagedIsNew' /\ PhaseIsTrue' /\ ProgramIsWhole' /\ FileIsGood'
    BY <1>1, <1>2, <1>3, <1>4
    DEF IInv, StagedIsNew, PhaseIsTrue, ProgramIsWhole, FileIsGood, Fresh, SamePlace,
        SameProgram
<1>7. ResultStands' /\ HelperStands'
    BY <1>1, <1>2, <1>3, <1>4
    DEF IInv, ResultStands, HelperStands, SamePlace, SameProgram
<1> QED BY <1>5, <1>6, <1>7 DEF IInv

LEMMA CancelKeeps ==
    ASSUME IInv, Cancel
    PROVE  IInv'
<1>1. copies \in CopiesType /\ program \in ProgramType /\ helper \in HelperType
      /\ note \in NoteType /\ files \in FilesType
    BY Types DEF IInv
<1>2. UNCHANGED <<helper, note>> /\ helper = "none" /\ ~program.handed /\ copies.app = "old"
      /\ program.version = "old" /\ program.window
    BY <1>1 DEF IInv, PhaseIsTrue, ProgramIsWhole, HelperStands, HelperType, Cancel
<1>3. SameProgram(program, program') /\ program'.phase = "Idle" /\ program'.task = "none"
    BY <1>1 DEF Cancel, SameProgram, ProgramType
<1>4. SamePlace(copies, copies') /\ copies'.staged \in {copies.staged, "none"}
    BY StoppedDoes DEF Cancel
<1>5. files' \in FilesType
    BY NoPartIs DEF Cancel
<1>6. TypeOK'
    BY <1>1, <1>2, <1>3, <1>4, <1>5, TypesPrimed DEF SamePlace, SameProgram
<1>7. StagedIsNew' /\ PhaseIsTrue' /\ ProgramIsWhole' /\ FileIsGood'
    BY <1>1, <1>2, <1>3, <1>4, <1>5
    DEF IInv, StagedIsNew, PhaseIsTrue, ProgramIsWhole, FileIsGood, Fresh, SamePlace,
        SameProgram
<1>8. ResultStands' /\ HelperStands'
    BY <1>1, <1>2, <1>3, <1>4, <1>5
    DEF IInv, ResultStands, HelperStands, SamePlace, SameProgram
<1> QED BY <1>6, <1>7, <1>8 DEF IInv

LEMMA HandOverKeeps ==
    ASSUME IInv, HandOver
    PROVE  IInv'
<1>1. copies \in CopiesType /\ program \in ProgramType /\ helper \in HelperType
      /\ note \in NoteType /\ files \in FilesType
    BY Types DEF IInv
<1>2. /\ UNCHANGED files /\ helper' = "waiting" /\ copies.staged = "new" /\ program.phase = "Ready"
      /\ copies.app = "old"
    BY <1>1 DEF IInv, FileIsGood, ProgramIsWhole, HandOver
<1>3. /\ program' \in ProgramType /\ program'.handed = TRUE
      /\ program'.version = program.version /\ program'.at = program.at
      /\ program'.window = program.window /\ program'.phase = program.phase
      /\ program'.task = program.task
    BY <1>1 DEF HandOver, ProgramType
<1>4. SamePlace(copies, copies') /\ copies'.staged = copies.staged
    BY <1>1 DEF HandOver, SamePlace, CopiesType, Copy
<1>5. Blank(note', TRUE)
    BY BlankIs DEF HandOver
<1>6. TypeOK'
    BY <1>1, <1>2, <1>3, <1>4, <1>5, TypesPrimed DEF SamePlace, Blank, HelperType
<1>7. StagedIsNew' /\ PhaseIsTrue' /\ ProgramIsWhole' /\ FileIsGood'
    BY <1>1, <1>2, <1>3, <1>4, <1>5
    DEF IInv, StagedIsNew, PhaseIsTrue, ProgramIsWhole, FileIsGood, Fresh, SamePlace, Blank
<1>8. ResultStands' /\ HelperStands'
    BY <1>1, <1>2, <1>3, <1>4, <1>5
    DEF IInv, ResultStands, HelperStands, SamePlace, Blank
<1> QED BY <1>6, <1>7, <1>8 DEF IInv

LEMMA HandOverFailsKeeps ==
    ASSUME IInv, HandOverFails
    PROVE  IInv'
<1>1. copies \in CopiesType /\ program \in ProgramType /\ helper \in HelperType
      /\ note \in NoteType /\ files \in FilesType
    BY Types DEF IInv
<1>2. UNCHANGED <<copies, helper, files>> /\ helper = "none" /\ ~program.handed /\ copies.app = "old"
      /\ program.version = "old" /\ program.window
    BY <1>1 DEF IInv, PhaseIsTrue, ProgramIsWhole, HelperStands, HelperType, HandOverFails
<1>3. SameProgram(program, program') /\ program'.phase = program.phase /\ program'.task = program.task
    BY <1>1 DEF HandOverFails, ProgramType, SameProgram
<1>4. Blank(note', FALSE)
    BY BlankIs DEF HandOverFails
<1>5. TypeOK'
    BY <1>1, <1>2, <1>3, <1>4, TypesPrimed DEF Blank, SameProgram
<1>6. StagedIsNew' /\ PhaseIsTrue' /\ ProgramIsWhole' /\ FileIsGood'
    BY <1>1, <1>2, <1>3, <1>4
    DEF IInv, StagedIsNew, PhaseIsTrue, ProgramIsWhole, FileIsGood, Fresh, Blank, SameProgram
<1>7. ResultStands' /\ HelperStands'
    BY <1>1, <1>2, <1>3, <1>4
    DEF IInv, ResultStands, HelperStands, Blank, SameProgram
<1> QED BY <1>5, <1>6, <1>7 DEF IInv

LEMMA QuitKeeps ==
    ASSUME IInv, Quit
    PROVE  IInv'
<1>1. copies \in CopiesType /\ program \in ProgramType /\ helper \in HelperType
      /\ note \in NoteType /\ files \in FilesType
    BY Types DEF IInv
<1>2. UNCHANGED <<helper, note>> /\ program' = NotRunning
    BY DEF Quit
<1>3. program' \in ProgramType /\ program'.version = "none" /\ Fresh(program')
    BY <1>2, NotRunningIs
<1>4. /\ SamePlace(copies, copies') /\ copies'.staged \in {copies.staged, "none"}
      /\ program.handed \/ program.phase \notin {"Preparing", "Ready"} => copies' = copies
    BY StoppedDoes DEF Quit
<1>5. files' \in FilesType
    BY NoPartIs DEF Quit, FilesType
<1>6. TypeOK'
    BY <1>1, <1>2, <1>3, <1>4, <1>5, TypesPrimed DEF SamePlace
<1>7. StagedIsNew' /\ PhaseIsTrue' /\ ProgramIsWhole' /\ FileIsGood'
    BY <1>1, <1>2, <1>3, <1>4, <1>5
    DEF IInv, StagedIsNew, PhaseIsTrue, ProgramIsWhole, FileIsGood, Fresh, SamePlace
<1>8. ResultStands' /\ HelperStands'
    BY <1>1, <1>2, <1>3, <1>4, <1>5
    DEF IInv, ResultStands, HelperStands, ProgramIsWhole, StagedIsNew, Fresh, SamePlace
<1> QED BY <1>6, <1>7, <1>8 DEF IInv

LEMMA CrashKeeps ==
    ASSUME IInv, Crash
    PROVE  IInv'
<1>1. copies \in CopiesType /\ program \in ProgramType /\ helper \in HelperType
      /\ note \in NoteType /\ files \in FilesType
    BY Types DEF IInv
<1>2. UNCHANGED <<copies, helper, note>> /\ program' = NotRunning
    BY DEF Crash
<1>3. program' \in ProgramType /\ program'.version = "none" /\ Fresh(program')
    BY <1>2, NotRunningIs
<1>4. files' \in FilesType
    BY <1>1 DEF Crash, FilesType
<1>5. TypeOK'
    BY <1>1, <1>2, <1>3, <1>4, TypesPrimed
<1>6. StagedIsNew' /\ PhaseIsTrue' /\ ProgramIsWhole' /\ FileIsGood'
    BY <1>1, <1>2, <1>3, <1>4
    DEF IInv, StagedIsNew, PhaseIsTrue, ProgramIsWhole, FileIsGood, Fresh
<1>7. ResultStands' /\ HelperStands'
    BY <1>1, <1>2, <1>3, <1>4
    DEF IInv, ResultStands, HelperStands, Fresh
<1> QED BY <1>5, <1>6, <1>7 DEF IInv

LEMMA NeverQuitKeeps ==
    ASSUME IInv, NeverQuit
    PROVE  IInv'
<1>1. copies \in CopiesType /\ program \in ProgramType /\ helper \in HelperType
      /\ note \in NoteType /\ files \in FilesType
    BY Types DEF IInv
<1>2. UNCHANGED <<copies, program, files>> /\ helper = "waiting"
    BY DEF NeverQuit
<1>3. /\ helper' = "none" /\ note' \in NoteType
      /\ note'.result = "stayed" /\ note'.started = note.started /\ note'.pending = note.pending
    BY EndsDoes DEF NeverQuit, Results
<1>4. TypeOK'
    BY <1>1, <1>2, <1>3, TypesPrimed DEF HelperType
<1>5. StagedIsNew' /\ PhaseIsTrue' /\ ProgramIsWhole' /\ FileIsGood'
    BY <1>1, <1>2, <1>3
    DEF IInv, StagedIsNew, PhaseIsTrue, ProgramIsWhole, FileIsGood, Fresh
<1>6. ResultStands' /\ HelperStands'
    BY <1>1, <1>2, <1>3
    DEF IInv, ResultStands, HelperStands
<1> QED BY <1>4, <1>5, <1>6 DEF IInv

\* What the helper gives up on before it has moved anything.
LEMMA EndsAsItWasKeeps ==
    ASSUME IInv, EndsAsItWas("unchanged"), program.version = "none", copies.app = "old"
    PROVE  IInv'
<1>1. copies \in CopiesType /\ program \in ProgramType /\ helper \in HelperType
      /\ note \in NoteType /\ files \in FilesType
    BY Types DEF IInv
<1>2. UNCHANGED <<copies, files>> /\ program' = Opened
    BY DEF EndsAsItWas
<1>3. program' \in ProgramType /\ program'.version = copies.app /\ Fresh(program')
    BY <1>2, OpenedDoes
<1>4. /\ helper' = "none" /\ note' \in NoteType
      /\ note'.result = "unchanged" /\ note'.started = note.started /\ note'.pending = note.pending
    BY EndsDoes DEF EndsAsItWas, Results
<1>5. TypeOK'
    BY <1>1, <1>2, <1>3, <1>4, TypesPrimed DEF HelperType
<1>6. StagedIsNew' /\ PhaseIsTrue' /\ ProgramIsWhole' /\ FileIsGood'
    BY <1>1, <1>2, <1>3, <1>4
    DEF IInv, StagedIsNew, PhaseIsTrue, ProgramIsWhole, FileIsGood, Fresh
<1>7. ResultStands' /\ HelperStands'
    BY <1>1, <1>2, <1>3, <1>4
    DEF IInv, ResultStands, HelperStands, Fresh
<1> QED BY <1>5, <1>6, <1>7 DEF IInv

LEMMA LookedAtOnceMoreKeeps ==
    ASSUME IInv, helper = "waiting", ~program.handed, helper' = "moving aside",
           UNCHANGED <<copies, program, note, files>>
    PROVE  IInv'
<1>1. copies \in CopiesType /\ program \in ProgramType /\ helper \in HelperType
      /\ note \in NoteType /\ files \in FilesType
    BY Types DEF IInv
<1>2. program.version = "none" /\ copies.app = "old" /\ copies.staged = "new"
    BY DEF IInv, HelperStands
<1>3. TypeOK'
    BY <1>1, <1>2, TypesPrimed DEF HelperType
<1>4. StagedIsNew' /\ PhaseIsTrue' /\ ProgramIsWhole' /\ FileIsGood'
    BY <1>1, <1>2
    DEF IInv, StagedIsNew, PhaseIsTrue, ProgramIsWhole, FileIsGood, Fresh
<1>5. ResultStands' /\ HelperStands'
    BY <1>1, <1>2
    DEF IInv, ResultStands, HelperStands
<1> QED BY <1>3, <1>4, <1>5 DEF IInv

LEMMA HasQuitKeeps ==
    ASSUME IInv, HasQuit PROVE IInv'
<1>1. helper = "waiting" /\ ~program.handed /\ program.version = "none" /\ copies.app = "old"
    BY DEF IInv, HelperStands, HasQuit
<1>2. CASE EndsAsItWas("unchanged")
    BY <1>1, <1>2, EndsAsItWasKeeps
<1>3. CASE ~EndsAsItWas("unchanged")
    BY <1>1, <1>3, LookedAtOnceMoreKeeps DEF HasQuit
<1> QED BY <1>2, <1>3

LEMMA MovedAsideKeeps ==
    ASSUME IInv, helper = "moving aside", helper' = "moving in", UNCHANGED <<note, files>>,
           copies' = [copies EXCEPT !.aside = copies.app, !.app = "none"],
           program' = [program EXCEPT !.at = IF Running THEN "aside" ELSE @]
    PROVE  IInv'
<1>1. copies \in CopiesType /\ program \in ProgramType /\ helper \in HelperType
      /\ note \in NoteType /\ files \in FilesType
    BY Types DEF IInv
<1>2. UNCHANGED <<note, files>> /\ helper = "moving aside" /\ helper' = "moving in"
      /\ program.version = "none" /\ program.phase = "Idle" /\ copies.app = "old"
    BY DEF IInv, ProgramIsWhole, Fresh, HelperStands
<1>3. UNCHANGED program
    BY <1>1, <1>2 DEF IInv, ProgramIsWhole, Running, ProgramType
<1>4. /\ copies' \in CopiesType /\ copies'.app = "none" /\ copies'.aside = "old"
      /\ copies'.staged = "new"
    BY <1>1, <1>2 DEF IInv, HelperStands, CopiesType, Copy
<1>5. TypeOK'
    BY <1>1, <1>2, <1>3, <1>4, TypesPrimed DEF HelperType
<1>6. StagedIsNew' /\ PhaseIsTrue' /\ ProgramIsWhole' /\ FileIsGood'
    BY <1>1, <1>2, <1>3, <1>4
    DEF IInv, StagedIsNew, PhaseIsTrue, ProgramIsWhole, FileIsGood, Fresh
<1>7. ResultStands' /\ HelperStands'
    BY <1>1, <1>2, <1>3, <1>4
    DEF IInv, ResultStands, HelperStands
<1> QED BY <1>5, <1>6, <1>7 DEF IInv

LEMMA MoveAsideKeeps ==
    ASSUME IInv, MoveAside PROVE IInv'
<1>1. helper = "moving aside" /\ program.version = "none" /\ copies.app = "old"
    BY DEF IInv, HelperStands, MoveAside
<1>2. CASE EndsAsItWas("unchanged")
    BY <1>1, <1>2, EndsAsItWasKeeps
<1>3. CASE ~EndsAsItWas("unchanged")
    BY <1>1, <1>3, MovedAsideKeeps DEF MoveAside
<1> QED BY <1>2, <1>3

\* The old copy is back in its place, and started.
LEMMA BackKeeps ==
    ASSUME IInv, program.version = "none", UNCHANGED files, NEW from \in CopiesType,
           from.aside = "old", from.staged # "old", Ends("back"),
           copies' = [from EXCEPT !.app = from.aside, !.aside = "none"],
           program' = [NotRunning EXCEPT !.version = "old"]
    PROVE  IInv'
<1>1. copies \in CopiesType /\ program \in ProgramType /\ helper \in HelperType
      /\ note \in NoteType /\ files \in FilesType
    BY Types DEF IInv
<1>2. /\ helper' = "none" /\ note' \in NoteType /\ note'.result = "back"
      /\ note'.started = note.started /\ note'.pending = note.pending
    BY EndsDoes DEF Results
<1>3. /\ program' \in ProgramType /\ program'.version = "old" /\ Fresh(program')
    BY StartedIs DEF Copy
<1>4. /\ copies' \in CopiesType /\ copies'.app = "old" /\ copies'.staged = from.staged
    BY DEF CopiesType, Copy
<1>5. TypeOK'
    BY <1>1, <1>2, <1>3, <1>4, TypesPrimed DEF HelperType
<1>6. StagedIsNew' /\ PhaseIsTrue' /\ ProgramIsWhole' /\ FileIsGood'
    BY <1>1, <1>2, <1>3, <1>4
    DEF IInv, StagedIsNew, PhaseIsTrue, ProgramIsWhole, FileIsGood, Fresh
<1>7. ResultStands' /\ HelperStands'
    BY <1>1, <1>2, <1>3, <1>4
    DEF IInv, ResultStands, HelperStands, Fresh
<1> QED BY <1>5, <1>6, <1>7 DEF IInv

\* Neither copy could be put in place: it says where the old one is.
LEMMA LostKeeps ==
    ASSUME IInv, program.version = "none", UNCHANGED <<program, files>>, NEW from \in CopiesType,
           from.app # "old", from.aside = "old", from.staged # "old", Ends("lost"), copies' = from
    PROVE  IInv'
<1>1. copies \in CopiesType /\ program \in ProgramType /\ helper \in HelperType
      /\ note \in NoteType /\ files \in FilesType
    BY Types DEF IInv
<1>2. /\ helper' = "none" /\ note' \in NoteType /\ note'.result = "lost"
      /\ note'.started = note.started /\ note'.pending = note.pending
    BY EndsDoes DEF Results
<1>3. TypeOK'
    BY <1>1, <1>2, TypesPrimed DEF HelperType
<1>4. StagedIsNew' /\ PhaseIsTrue' /\ ProgramIsWhole' /\ FileIsGood'
    BY <1>1, <1>2
    DEF IInv, StagedIsNew, PhaseIsTrue, ProgramIsWhole, FileIsGood, Fresh
<1>5. ResultStands' /\ HelperStands'
    BY <1>1, <1>2
    DEF IInv, ResultStands, HelperStands
<1> QED BY <1>3, <1>4, <1>5 DEF IInv

LEMMA WayBackKeeps ==
    ASSUME IInv, program.version = "none", UNCHANGED files, NEW from \in CopiesType,
           from.app = "none", from.aside = "old", from.staged # "old", WayBack(from)
    PROVE  IInv'
<1>1. CASE copies' = from /\ Ends("lost") /\ UNCHANGED program
    BY <1>1, LostKeeps
<1>2. CASE ~(copies' = from /\ Ends("lost") /\ UNCHANGED program)
  <2>1. /\ copies' = [from EXCEPT !.app = from.aside, !.aside = "none"] /\ Ends("back")
        /\ program' = [NotRunning EXCEPT !.version = "old"]
    BY <1>2 DEF WayBack, Running
  <2> QED BY <2>1, BackKeeps
<1> QED BY <1>1, <1>2

LEMMA MovedInKeeps ==
    ASSUME IInv, helper = "moving in", helper' = "opening", UNCHANGED <<program, note, files>>,
           copies' = [copies EXCEPT !.app = copies.staged, !.staged = "none"]
    PROVE  IInv'
<1>1. copies \in CopiesType /\ program \in ProgramType /\ helper \in HelperType
      /\ note \in NoteType /\ files \in FilesType
    BY Types DEF IInv
<1>2. program.version = "none"
    BY DEF IInv, HelperStands
<1>3. /\ copies' \in CopiesType /\ copies'.app = "new" /\ copies'.aside = "old"
      /\ copies'.staged = "none"
    BY <1>1 DEF IInv, HelperStands, CopiesType, Copy
<1>4. TypeOK'
    BY <1>1, <1>2, <1>3, TypesPrimed DEF HelperType
<1>5. StagedIsNew' /\ PhaseIsTrue' /\ ProgramIsWhole' /\ FileIsGood'
    BY <1>1, <1>2, <1>3
    DEF IInv, StagedIsNew, PhaseIsTrue, ProgramIsWhole, FileIsGood, Fresh
<1>6. ResultStands' /\ HelperStands'
    BY <1>1, <1>2, <1>3
    DEF IInv, ResultStands, HelperStands
<1> QED BY <1>4, <1>5, <1>6 DEF IInv

LEMMA MoveInKeeps ==
    ASSUME IInv, MoveIn PROVE IInv'
<1>1. helper = "moving in" /\ program.version = "none" /\ UNCHANGED files
    BY DEF IInv, HelperStands, MoveIn
<1>2. copies \in CopiesType /\ copies.app = "none" /\ copies.aside = "old" /\ copies.staged # "old"
    BY Types, <1>1 DEF IInv, HelperStands, StagedIsNew
<1>3. CASE WayBack(copies)
    BY <1>1, <1>2, <1>3, WayBackKeeps
<1>4. CASE ~WayBack(copies)
    BY <1>1, <1>4, MovedInKeeps DEF MoveIn
<1> QED BY <1>3, <1>4

LEMMA PutBackKeeps ==
    ASSUME IInv, program.version = "none", copies.app = "new", copies.aside = "old",
           UNCHANGED files, PutBack
    PROVE  IInv'
<1>1. copies \in CopiesType
    BY Types DEF IInv
<1>2. CASE WayBack([copies EXCEPT !.staged = copies.app, !.app = "none"])
  <2> DEFINE from == [copies EXCEPT !.staged = copies.app, !.app = "none"]
  <2>1. from \in CopiesType
    BY <1>1 DEF CopiesType, Copy
  <2>2. from.app = "none" /\ from.aside = "old" /\ from.staged = "new"
    BY <1>1 DEF CopiesType
  <2>3. WayBack(from)
    BY <1>2
  <2> HIDE DEF from
  <2> QED BY <2>1, <2>2, <2>3, WayBackKeeps
<1>3. CASE Ends("lost") /\ UNCHANGED <<copies, program>>
    BY <1>1, <1>3, LostKeeps DEF IInv, StagedIsNew
<1> QED BY <1>2, <1>3 DEF PutBack

LEMMA NewOpenedKeeps ==
    ASSUME IInv, helper = "opening", helper' = "starting", UNCHANGED <<copies, files>>,
           program' = Opened, note' = [note EXCEPT !.started = IF Mac THEN "none" ELSE @]
    PROVE  IInv'
<1>1. copies \in CopiesType /\ program \in ProgramType /\ helper \in HelperType
      /\ note \in NoteType /\ files \in FilesType
    BY Types DEF IInv
<1>2. copies.app = "new" /\ program.version = "none"
    BY DEF IInv, HelperStands
<1>3. program' \in ProgramType /\ program'.version = "new" /\ Fresh(program')
    BY <1>2, OpenedDoes
<1>4. /\ note' \in NoteType /\ note'.result = note.result /\ note'.pending = note.pending
      /\ note'.started \in {note.started, "none"}
    BY <1>1 DEF NoteType, Copy
<1>5. TypeOK'
    BY <1>1, <1>2, <1>3, <1>4, TypesPrimed DEF HelperType
<1>6. StagedIsNew' /\ PhaseIsTrue' /\ ProgramIsWhole' /\ FileIsGood'
    BY <1>1, <1>2, <1>3, <1>4
    DEF IInv, StagedIsNew, PhaseIsTrue, ProgramIsWhole, FileIsGood, Fresh
<1>7. ResultStands' /\ HelperStands'
    BY <1>1, <1>2, <1>3, <1>4
    DEF IInv, ResultStands, HelperStands, Fresh
<1> QED BY <1>5, <1>6, <1>7 DEF IInv

LEMMA OpenNewKeeps ==
    ASSUME IInv, OpenNew PROVE IInv'
<1>1. /\ helper = "opening" /\ program.version = "none" /\ UNCHANGED files
      /\ copies.app = "new" /\ copies.aside = "old"
    BY DEF IInv, HelperStands, OpenNew
<1>2. CASE PutBack
    BY <1>1, <1>2, PutBackKeeps
<1>3. CASE ~PutBack
    BY <1>1, <1>3, NewOpenedKeeps DEF OpenNew, Running
<1> QED BY <1>2, <1>3

LEMMA NewStartedKeeps ==
    ASSUME IInv, NewStarted
    PROVE  IInv'
<1>1. copies \in CopiesType /\ program \in ProgramType /\ helper \in HelperType
      /\ note \in NoteType /\ files \in FilesType
    BY Types DEF IInv
<1>2. UNCHANGED <<program, files>> /\ helper \in {"starting", "exited"} /\ copies.app = "new"
    BY DEF IInv, HelperStands, NewStarted, TakenForStarted
<1>3. SamePlace(copies, copies') /\ copies'.staged = copies.staged
    BY <1>1 DEF NewStarted, SamePlace, CopiesType, Copy
<1>4. /\ helper' = "none" /\ note' \in NoteType /\ note'.result = "ok"
      /\ note'.started = note.started /\ note'.pending = note.pending
    BY EndsDoes DEF NewStarted, Results
<1>5. TypeOK'
    BY <1>1, <1>2, <1>3, <1>4, TypesPrimed DEF SamePlace, HelperType
<1>6. StagedIsNew' /\ PhaseIsTrue' /\ ProgramIsWhole' /\ FileIsGood'
    BY <1>1, <1>2, <1>3, <1>4
    DEF IInv, StagedIsNew, PhaseIsTrue, ProgramIsWhole, FileIsGood, Fresh, SamePlace
<1>7. ResultStands' /\ HelperStands'
    BY <1>1, <1>2, <1>3, <1>4
    DEF IInv, ResultStands, HelperStands, SamePlace
<1> QED BY <1>5, <1>6, <1>7 DEF IInv

LEMMA NewDidNotStartKeeps ==
    ASSUME IInv, NewDidNotStart PROVE IInv'
<1>1. program \in ProgramType
    BY Types DEF IInv
<1>2. /\ program.version = "none" /\ UNCHANGED files
      /\ copies.app = "new" /\ copies.aside = "old"
    BY <1>1 DEF IInv, ProgramIsWhole, HelperStands, NewDidNotStart, StillRuns, Running
<1> QED BY <1>2, PutBackKeeps DEF NewDidNotStart

LEMMA HelperDiesKeeps ==
    ASSUME IInv, HelperDies
    PROVE  IInv'
<1>1. copies \in CopiesType /\ program \in ProgramType /\ helper \in HelperType
      /\ note \in NoteType /\ files \in FilesType
    BY Types DEF IInv
<1>2. UNCHANGED <<copies, program, note, files>> /\ helper' = "none"
    BY DEF HelperDies
<1>3. TypeOK'
    BY <1>1, <1>2, TypesPrimed DEF HelperType
<1>4. StagedIsNew' /\ PhaseIsTrue' /\ ProgramIsWhole' /\ FileIsGood'
    BY <1>1, <1>2
    DEF IInv, StagedIsNew, PhaseIsTrue, ProgramIsWhole, FileIsGood, Fresh
<1>5. ResultStands' /\ HelperStands'
    BY <1>1, <1>2
    DEF IInv, ResultStands, HelperStands
<1> QED BY <1>3, <1>4, <1>5 DEF IInv

LEMMA StutterKeeps ==
    ASSUME IInv, UNCHANGED update
    PROVE  IInv'
<1>1. copies \in CopiesType /\ program \in ProgramType /\ helper \in HelperType
      /\ note \in NoteType /\ files \in FilesType
    BY Types DEF IInv
<1>2. UNCHANGED <<copies, program, helper, note, files>>
    BY DEF update
<1>3. TypeOK'
    BY <1>1, <1>2, TypesPrimed
<1>4. StagedIsNew' /\ PhaseIsTrue' /\ ProgramIsWhole' /\ FileIsGood'
    BY <1>1, <1>2
    DEF IInv, StagedIsNew, PhaseIsTrue, ProgramIsWhole, FileIsGood, Fresh
<1>5. ResultStands' /\ HelperStands'
    BY <1>1, <1>2
    DEF IInv, ResultStands, HelperStands
<1> QED BY <1>3, <1>4, <1>5 DEF IInv

LEMMA InitIsWhole ==
    ASSUME Init PROVE IInv
<1> USE UpdateAssumption
<1>1. PICK target \in Targets :
          copies = [mac |-> target.mac, blocked |-> target.blocked,
                    app |-> "old", staged |-> "none", aside |-> "none"]
    BY DEF Init
<1>2. copies \in CopiesType /\ copies.app = "old" /\ copies.staged = "none"
    BY <1>1 DEF CopiesType, Copy
<1>3. program \in ProgramType /\ program.version = "none" /\ Fresh(program)
    BY NotRunningIs DEF Init
<1>4. Blank(note, FALSE)
    BY BlankIs DEF Init
<1>5. files \in FilesType /\ helper = "none"
    BY DEF Init, FilesType
<1> QED BY <1>2, <1>3, <1>4, <1>5, Types
    DEF IInv, StagedIsNew, PhaseIsTrue, ProgramIsWhole, FileIsGood, ResultStands, HelperStands,
        Fresh, Blank, HelperType

LEMMA NextKeeps ==
    ASSUME IInv, Meddles = FALSE, [Next]_update PROVE IInv'
<1>1. CASE Open \/ WindowUp \/ Housekeeping \/ (\E ofItself \in BOOLEAN : DiesStarting(ofItself))
    BY <1>1, OpenKeeps, WindowUpKeeps, DiesStartingKeeps, HousekeepingKeeps
<1>2. CASE Start \/ ChecksumArrived \/ Hashed \/ HashedForNobody
    BY <1>2, StartKeeps, ChecksumArrivedKeeps, HashedKeeps, HashedForNobodyKeeps
<1>3. CASE \E yes \in BOOLEAN : Downloaded(yes) \/ StageFails(yes)
    BY <1>3, DownloadedKeeps, OtherwiseFailsKeeps
<1>4. CASE Rot \/ Staged \/ AskFails \/ Cancel
    BY <1>4, RotKeeps, StagedKeeps, OtherwiseFailsKeeps, CancelKeeps
<1>5. CASE HandOver \/ HandOverFails \/ Quit \/ Crash
    BY <1>5, HandOverKeeps, HandOverFailsKeeps, QuitKeeps, CrashKeeps
<1>6. CASE HelperSteps \/ HelperDies
    BY <1>6, NeverQuitKeeps, HasQuitKeeps, MoveAsideKeeps, MoveInKeeps, OpenNewKeeps,
       NewStartedKeeps, NewDidNotStartKeeps, HelperDiesKeeps DEF HelperSteps
<1>7. CASE UNCHANGED update
    BY <1>7, StutterKeeps
<1> QED BY <1>1, <1>2, <1>3, <1>4, <1>5, <1>6, <1>7 DEF Next

-----------------------------------------------------------------------------
(* What one step may not do.                                                *)

KeepsOld ==
    HasOld(copies) /\ ~HasOld(copies') =>
        "new" \in {program.version, note.started} \/ helper = "exited"
KeepsStaged == Working /\ copies.staged = "new" /\ copies'.staged # "new" => helper' # helper
ComesBack ==
    Working /\ helper' = "none" /\ note'.result \notin {"none", "stayed", "lost"}
        => Running' \/ note'.started # "none" \/ helper = "exited"

StepIsSafe == KeepsOld /\ KeepsStaged /\ ComesBack

\* A step of the program's own: it takes what was got ready or put aside only
\* while it runs and no helper has them.
Quiet ==
    /\ helper' = helper
    /\ \/ copies' = copies
       \/ copies'.app = copies.app /\ program.version # "none" /\ helper = "none"

LEMMA QuietIsSafe ==
    ASSUME IInv, Quiet PROVE StepIsSafe
<1>1. program \in ProgramType
    BY Types DEF IInv
<1>2. program.version # "none" => copies.app = program.version
    BY DEF IInv, ProgramIsWhole
<1>3. KeepsOld
    BY <1>1, <1>2 DEF KeepsOld, HasOld, Quiet, ProgramType, Copy
<1>4. KeepsStaged
    BY DEF KeepsStaged, Working, Quiet
<1>5. ComesBack
    BY DEF ComesBack, Working, Quiet
<1> QED BY <1>3, <1>4, <1>5 DEF StepIsSafe

\* In a round the old copy runs, and no helper is at work.
LEMMA InRound ==
    ASSUME IInv, program.task # "none" \/ program.phase \in {"Downloading", "Preparing"}
    PROVE  helper = "none" /\ program.version = "old"
<1>1. helper \in HelperType /\ program \in ProgramType
    BY Types DEF IInv
<1>2. program.phase \in {"Downloading", "Preparing"}
    BY <1>1 DEF IInv, PhaseIsTrue, ProgramType
<1>3. ~program.handed /\ program.version = "old" /\ copies.app = "old"
    BY <1>2 DEF IInv, ProgramIsWhole
<1> QED BY <1>1, <1>3 DEF IInv, HelperStands, HelperType

LEMMA RoundStepsAreQuiet ==
    ASSUME IInv, \/ Hashed \/ Staged \/ Cancel \/ AskFails
                 \/ \E yes \in BOOLEAN : Downloaded(yes) \/ StageFails(yes)
    PROVE  Quiet
<1>1. copies \in CopiesType /\ TypeOK
    BY Types DEF IInv
<1>2. program.task # "none" \/ program.phase \in {"Downloading", "Preparing"}
    BY DEF Hashed, Staged, Cancel, AskFails, Downloaded, StageFails
<1>3. helper = "none" /\ program.version = "old"
    BY <1>2, InRound
<1>4. ASSUME NEW file, Fail(file) PROVE helper' = helper /\ copies' = Stopped(copies)
    BY <1>4 DEF Fail
<1>5. helper' = helper
    BY <1>4 DEF Hashed, Staged, Cancel, AskFails, Downloaded, StageFails, Fail
<1>6. Unstaged(copies).app = copies.app /\ Stopped(copies).app = copies.app
    BY <1>1, UnstagedDoes, StoppedDoes DEF SamePlace
<1>7. [copies EXCEPT !.staged = "new"].app = copies.app
    BY <1>1 DEF CopiesType
<1>8. copies' \in {copies, Unstaged(copies), Stopped(copies), [copies EXCEPT !.staged = "new"]}
    BY DEF Hashed, Staged, Cancel, AskFails, Downloaded, StageFails, Fail
<1> QED BY <1>3, <1>5, <1>6, <1>7, <1>8 DEF Quiet

LEMMA OtherStepsAreQuiet ==
    ASSUME IInv, \/ Open \/ WindowUp \/ ChecksumArrived
                 \/ HashedForNobody \/ Rot \/ HandOverFails \/ Crash
    PROVE  Quiet
BY DEF Quiet, Open, WindowUp, ChecksumArrived, HashedForNobody, Rot, HandOverFails, Crash

\* A round is begun by the old copy, with no helper at work: the copy got ready
\* for a RESTART that was refused is nobody's.
LEMMA StartIsQuiet ==
    ASSUME IInv, Start PROVE Quiet
<1>1. helper' = helper /\ program.version = "old" /\ copies' = Stopped(copies)
    BY DEF Start
<1>2. helper \in HelperType /\ ~program.handed /\ copies.app = "old"
    BY <1>1, Types DEF IInv, ProgramIsWhole, Start
<1>3. helper = "none"
    BY <1>1, <1>2 DEF IInv, HelperStands, HelperType
<1> QED BY <1>1, <1>3, StoppedDoes DEF Quiet, SamePlace

\* A new copy that ends before its window moves nothing.
LEMMA DiesStartingIsSafe ==
    ASSUME IInv, NEW ofItself \in BOOLEAN, DiesStarting(ofItself) PROVE StepIsSafe
<1>1. copies' = copies /\ (helper # "none" => helper' # "none")
    BY DEF DiesStarting
<1> QED BY <1>1 DEF StepIsSafe, KeepsOld, KeepsStaged, ComesBack, Working

LEMMA HousekeepingIsQuiet ==
    ASSUME IInv, Housekeeping PROVE Quiet
<1>1. copies \in CopiesType /\ TypeOK
    BY Types DEF IInv
<1>2. helper' = helper /\ helper = "none"
    BY DEF Housekeeping, HelperDone, Working, IInv, HelperStands
<1>3. program.version # "none"
    BY DEF Housekeeping, IInv, ProgramIsWhole, Fresh
<1>4. copies' \in {copies, Unstaged(copies)}
    BY DEF Housekeeping
<1> QED BY <1>1, <1>2, <1>3, <1>4, UnstagedDoes DEF Quiet, SamePlace

LEMMA QuitIsQuiet ==
    ASSUME IInv, Quit PROVE Quiet
<1>1. helper' = helper /\ program.version # "none" /\ copies' = Stopped(copies)
    BY DEF Quit, Running
<1>2. CASE copies' = copies
    BY <1>1, <1>2 DEF Quiet
<1>3. CASE copies' # copies
  <2>1. ~program.handed /\ program.phase \in {"Preparing", "Ready"}
    BY <1>1, <1>3, StoppedDoes
  <2>2. program.version = "old" /\ copies.app = "old"
    BY <1>1, <2>1 DEF IInv, ProgramIsWhole
  <2>3. helper \in HelperType
    BY Types DEF IInv
  <2>4. helper = "none"
    BY <1>1, <2>1, <2>2, <2>3 DEF IInv, HelperStands, HelperType
  <2> QED BY <1>1, <2>4, StoppedDoes DEF Quiet, SamePlace
<1> QED BY <1>2, <1>3

\* A step of the helper's that leaves the old copy where it can be found, and
\* ends, if it ends with word of a swap, with Monolist running.
LEMMA HelperIsSafe ==
    ASSUME IInv, helper' # helper, HasOld(copies'),
           helper' # "none" \/ note'.result \in {"none", "stayed", "lost"} \/ Running'
    PROVE  StepIsSafe
BY DEF StepIsSafe, KeepsOld, KeepsStaged, ComesBack

LEMMA EndsAsItWasIsSafe ==
    ASSUME IInv, EndsAsItWas("unchanged"), helper # "none",
           program.version = "none", copies.app = "old"
    PROVE  StepIsSafe
<1>1. copies' = copies /\ program' = Opened /\ helper' = "none"
    BY DEF EndsAsItWas, Ends
<1>2. Running'
    BY <1>1, OpenedDoes DEF Running
<1> QED BY <1>1, <1>2, HelperIsSafe DEF HasOld

LEMMA WayBackIsSafe ==
    ASSUME IInv, helper # "none", program.version = "none", NEW from \in CopiesType,
           from.app = "none", from.aside = "old", WayBack(from)
    PROVE  StepIsSafe
<1>1. CASE copies' = from /\ Ends("lost") /\ UNCHANGED program
  <2>1. HasOld(copies') /\ helper' = "none" /\ note'.result = "lost"
    BY <1>1, EndsDoes DEF HasOld, Results
  <2> QED BY <2>1, HelperIsSafe
<1>2. CASE ~(copies' = from /\ Ends("lost") /\ UNCHANGED program)
  <2>1. /\ copies' = [from EXCEPT !.app = from.aside, !.aside = "none"] /\ Ends("back")
        /\ program' = [NotRunning EXCEPT !.version = "old"]
    BY <1>2 DEF WayBack, Running
  <2>2. copies'.app = "old" /\ helper' = "none"
    BY <2>1 DEF CopiesType, Ends
  <2>3. Running'
    BY <2>1, StartedIs DEF Running, Copy
  <2> QED BY <2>2, <2>3, HelperIsSafe DEF HasOld
<1> QED BY <1>1, <1>2

LEMMA PutBackIsSafe ==
    ASSUME IInv, helper # "none", program.version = "none", copies.aside = "old", PutBack
    PROVE  StepIsSafe
<1>1. copies \in CopiesType
    BY Types DEF IInv
<1>2. CASE WayBack([copies EXCEPT !.staged = copies.app, !.app = "none"])
  <2> DEFINE from == [copies EXCEPT !.staged = copies.app, !.app = "none"]
  <2>1. from \in CopiesType
    BY <1>1 DEF CopiesType, Copy
  <2>2. from.app = "none" /\ from.aside = "old"
    BY <1>1 DEF CopiesType
  <2>3. WayBack(from)
    BY <1>2
  <2> HIDE DEF from
  <2> QED BY <2>1, <2>2, <2>3, WayBackIsSafe
<1>3. CASE Ends("lost") /\ UNCHANGED <<copies, program>>
  <2>1. helper' = "none" /\ note'.result = "lost"
    BY <1>3, EndsDoes DEF Results
  <2> QED BY <1>3, <2>1, HelperIsSafe DEF HasOld
<1> QED BY <1>2, <1>3 DEF PutBack

LEMMA SwapIsSafe ==
    ASSUME IInv, NeverQuit \/ HasQuit \/ MoveAside \/ MoveIn \/ OpenNew PROVE StepIsSafe
<1>0. copies \in CopiesType
    BY Types DEF IInv
<1>1. CASE NeverQuit
  <2>1. copies' = copies /\ copies.app = "old" /\ helper = "waiting"
    BY <1>1 DEF IInv, HelperStands, NeverQuit
  <2>2. helper' = "none" /\ note'.result = "stayed"
    BY <1>1, EndsDoes DEF NeverQuit, Results
  <2> QED BY <2>1, <2>2, HelperIsSafe DEF HasOld
<1>2. CASE HasQuit
  <2>1. helper = "waiting" /\ program.version = "none" /\ copies.app = "old"
    BY <1>2 DEF IInv, HelperStands, HasQuit
  <2>2. CASE EndsAsItWas("unchanged")
    BY <2>1, <2>2, EndsAsItWasIsSafe
  <2>3. CASE ~EndsAsItWas("unchanged")
    BY <1>2, <2>1, <2>3, HelperIsSafe DEF HasQuit, HasOld
  <2> QED BY <2>2, <2>3
<1>3. CASE MoveAside
  <2>1. helper = "moving aside" /\ program.version = "none" /\ copies.app = "old"
    BY <1>3 DEF IInv, HelperStands, MoveAside
  <2>2. CASE EndsAsItWas("unchanged")
    BY <2>1, <2>2, EndsAsItWasIsSafe
  <2>3. CASE ~EndsAsItWas("unchanged")
    <3>1. copies' = [copies EXCEPT !.aside = copies.app, !.app = "none"] /\ helper' = "moving in"
      BY <1>3, <2>3 DEF MoveAside
    <3>2. copies'.aside = "old"
      BY <1>0, <2>1, <3>1 DEF CopiesType
    <3> QED BY <2>1, <3>1, <3>2, HelperIsSafe DEF HasOld
  <2> QED BY <2>2, <2>3
<1>4. CASE MoveIn
  <2>1. /\ helper = "moving in" /\ program.version = "none"
        /\ copies.app = "none" /\ copies.aside = "old"
    BY <1>4 DEF IInv, HelperStands, MoveIn
  <2>2. CASE WayBack(copies)
    BY <1>0, <2>1, <2>2, WayBackIsSafe
  <2>3. CASE ~WayBack(copies)
    <3>1. copies' = [copies EXCEPT !.app = copies.staged, !.staged = "none"] /\ helper' = "opening"
      BY <1>4, <2>3 DEF MoveIn
    <3>2. copies'.aside = "old"
      BY <1>0, <2>1, <3>1 DEF CopiesType
    <3> QED BY <2>1, <3>1, <3>2, HelperIsSafe DEF HasOld
  <2> QED BY <2>2, <2>3
<1>5. CASE OpenNew
  <2>1. helper = "opening" /\ program.version = "none" /\ copies.aside = "old"
    BY <1>5 DEF IInv, HelperStands, OpenNew
  <2>2. CASE PutBack
    BY <2>1, <2>2, PutBackIsSafe
  <2>3. CASE ~PutBack
    BY <1>5, <2>1, <2>3, HelperIsSafe DEF OpenNew, HasOld
  <2> QED BY <2>2, <2>3
<1> QED BY <1>1, <1>2, <1>3, <1>4, <1>5

LEMMA SwapEndsSafely ==
    ASSUME IInv, NewStarted \/ NewDidNotStart \/ HelperDies PROVE StepIsSafe
<1>1. copies \in CopiesType /\ program \in ProgramType /\ note \in NoteType
    BY Types DEF IInv
<1>2. CASE NewStarted
  <2>1. /\ helper \in {"starting", "exited"} /\ copies.app = "new" /\ copies.staged = "none"
        /\ note.started # "old" /\ program' = program
    BY <1>2 DEF IInv, HelperStands, NewStarted, TakenForStarted
  <2>2. program.version # "none" => program.version = "new"
    BY <2>1 DEF IInv, ProgramIsWhole
  <2>3. note'.started = note.started /\ helper' = "none"
    BY <1>2, EndsDoes DEF NewStarted, Results
  <2>4. note.started # "none" \/ program.version # "none" \/ helper = "exited"
    BY <1>2 DEF NewStarted, TakenForStarted, StillRuns, Running
  <2>5. "new" \in {program.version, note.started} \/ helper = "exited"
    BY <1>1, <2>1, <2>2, <2>4 DEF NoteType, Copy
  <2> QED BY <2>1, <2>3, <2>4, <2>5
        DEF StepIsSafe, KeepsOld, KeepsStaged, ComesBack, Running
<1>3. CASE NewDidNotStart
  <2>1. helper # "none" /\ program.version = "none" /\ copies.aside = "old" /\ PutBack
    BY <1>1, <1>3 DEF IInv, ProgramIsWhole, HelperStands, NewDidNotStart, StillRuns, Running
  <2> QED BY <2>1, PutBackIsSafe
<1>4. CASE HelperDies
    BY <1>4 DEF HelperDies, IInv, HelperStands, Working, StepIsSafe, KeepsOld, KeepsStaged, ComesBack
<1> QED BY <1>2, <1>3, <1>4

LEMMA HandOverIsSafe ==
    ASSUME IInv, HandOver PROVE StepIsSafe
<1>1. copies \in CopiesType /\ program \in ProgramType /\ helper \in HelperType
    BY Types DEF IInv
<1>2. /\ copies' = [copies EXCEPT !.aside = IF Mac THEN "none" ELSE @] /\ helper' = "waiting"
      /\ program.phase = "Ready" /\ ~program.handed
    BY DEF HandOver
<1>3. copies.app = "old" /\ program.version = "old"
    BY <1>2 DEF IInv, ProgramIsWhole
<1>4. helper = "none"
    BY <1>1, <1>2, <1>3 DEF IInv, HelperStands, HelperType
<1>5. copies'.app = "old"
    BY <1>1, <1>2, <1>3 DEF CopiesType
<1> QED BY <1>2, <1>4, <1>5, HelperIsSafe DEF HasOld

LEMMA EveryStepIsSafe ==
    ASSUME IInv, Meddles = FALSE, [Next]_update PROVE StepIsSafe
<1>1. CASE Open \/ WindowUp \/ Housekeeping \/ (\E ofItself \in BOOLEAN : DiesStarting(ofItself))
    BY <1>1, OtherStepsAreQuiet, HousekeepingIsQuiet, DiesStartingIsSafe, QuietIsSafe
<1>2. CASE Start \/ ChecksumArrived \/ Hashed \/ HashedForNobody
    BY <1>2, StartIsQuiet, OtherStepsAreQuiet, RoundStepsAreQuiet, QuietIsSafe
<1>3. CASE \E yes \in BOOLEAN : Downloaded(yes) \/ StageFails(yes)
    BY <1>3, RoundStepsAreQuiet, QuietIsSafe
<1>4. CASE Rot \/ Staged \/ AskFails \/ Cancel
    BY <1>4, OtherStepsAreQuiet, RoundStepsAreQuiet, QuietIsSafe
<1>5. CASE HandOver \/ HandOverFails \/ Quit \/ Crash
    BY <1>5, HandOverIsSafe, OtherStepsAreQuiet, QuitIsQuiet, QuietIsSafe
<1>6. CASE HelperSteps \/ HelperDies
    BY <1>6, SwapIsSafe, SwapEndsSafely DEF HelperSteps
<1>7. CASE UNCHANGED update
    BY <1>7, QuietIsSafe DEF Quiet, update
<1> QED BY <1>1, <1>2, <1>3, <1>4, <1>5, <1>6, <1>7 DEF Next

-----------------------------------------------------------------------------

\* The shapes of the update's variables, through every step of the program, the
\* helper and the launches after it.
THEOREM UpdateTypes ==
    ASSUME Meddles = FALSE PROVE Spec => []TypeOK
<1>1. Init => IInv
    BY InitIsWhole
<1>2. IInv /\ [Next]_update => IInv'
    BY NextKeeps
<1>3. IInv => TypeOK
    BY DEF IInv
<1> QED BY <1>1, <1>2, <1>3, PTL DEF Spec

\* What AppUpdater shows is what it does, RESTART is offered only of a verified
\* copy that is there (appupdater.cpp, stage and restart), and the word the swap
\* helper leaves is what the next launch finds (runSwapHelper, update-helper.ps1),
\* the helper cut short or not.
THEOREM UpdateIsTrueThroughout ==
    ASSUME Meddles = FALSE PROVE Spec => []UpdateIsTrue
<1>1. Init => IInv
    BY InitIsWhole
<1>2. IInv /\ [Next]_update => IInv'
    BY NextKeeps
<1>3. IInv => UpdateIsTrue
    BY DEF IInv, FileIsGood, ResultStands, UpdateIsTrue, ReadyIsReal, ResultIsTrue
<1> QED BY <1>1, <1>2, <1>3, PTL DEF Spec

\* The old copy goes only once a new one runs or has left its word; cancel, quit,
\* failure and housekeeping leave the helper's copy alone; and a helper that ends
\* leaves Monolist running, or having started, but for the ends it says: all of it
\* but where, on Windows, the new copy ended with exit code 0 and left no word
\* (Test-Started, appupdater_win.cpp:142).
THEOREM UpdateStrandsNobody ==
    ASSUME Meddles = FALSE PROVE Spec => UpdateNeverStrands
<1>1. Init => IInv
    BY InitIsWhole
<1>2. IInv /\ [Next]_update => IInv'
    BY NextKeeps
<1>3. IInv /\ [Next]_update =>
         /\ [HasOld(copies) /\ ~HasOld(copies') =>
               "new" \in {program.version, note.started} \/ helper = "exited"]_update
         /\ [Working /\ copies.staged = "new" /\ copies'.staged # "new" => helper' # helper]_update
         /\ [Working /\ helper' = "none" /\ note'.result \notin {"none", "stayed", "lost"}
               => Running' \/ note'.started # "none" \/ helper = "exited"]_update
    BY EveryStepIsSafe DEF StepIsSafe, KeepsOld, KeepsStaged, ComesBack
<1> QED BY <1>1, <1>2, <1>3, PTL
      DEF Spec, UpdateNeverStrands, OldUntilNewStarts, HelperOwnsStaged, RestartComesBack
=============================================================================
