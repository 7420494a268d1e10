----------------------------- MODULE Downloads -----------------------------
(***************************************************************************)
(* Downloads (downloadmanager.cpp, with saavndownload.cpp and the download *)
(* side of ytdlp.cpp): a queue that runs a few songs at a time, each first *)
(* as JioSaavn's copy where it has one and through yt-dlp otherwise; the   *)
(* folder they are written to, which is the listener's as much as the      *)
(* program's; and what is kept of both across a quit or a crash.           *)
(***************************************************************************)
EXTENDS Integers, FiniteSets, SequencesExt

CONSTANTS
    Ids,
    Titled,         \* the songs whose title is known, which JioSaavn is asked for
    Folders,
    Kinds,          \* what a song's files in a folder may be, see below
    NoFile,
    MaxConcurrent,  \* kMaxConcurrent
    Surprises       \* of "carried" (files moved or deleted by hand), "unreported" (yt-dlp
                    \* ends well without naming its file), "tools" (yt-dlp comes and
                    \* goes) and "crash": those that happen

ASSUME DownloadsAssumption ==
    /\ IsFiniteSet(Ids) /\ Titled \subseteq Ids /\ Folders # {}
    /\ Kinds \subseteq {"part", "temp", "done", "other"} /\ "done" \in Kinds
    /\ NoFile \notin [folder : Folders, kind : Kinds]
    /\ MaxConcurrent \in Nat \ {0}

VARIABLES
    dl,        \* the DownloadManager's members
    disk,      \* the files of each song in each folder, by kind
    db,        \* the downloads and download_queue tables, and the setting download_dir
    resolving  \* YtDlp::playbackResolving

downloads == <<dl, disk, db, resolving>>

\* A song's files: "part" (.part, .ytdl, a thumbnail), "temp" (.temp.<ext>,
\* .f<format>.<ext>), "done" (the name its download ends under), and "other" (a
\* finished file under another name, an earlier format's).
Finished == Kinds \cap {"done", "other"}
Unfinished == Kinds \cap {"part", "temp"}

Files == [folder : Folders, kind : Kinds]

Exists(d, id, file) == file # NoFile /\ file.kind \in d[file.folder][id]

\* A row of download_queue.
QueueRows == [id : Ids, failed : BOOLEAN]

\* The members of a sequence that are in a set, in their order.
Only(s, wanted) ==
    LET places  == {i \in DOMAIN s : s[i] \in wanted}
        rank(i) == Cardinality({k \in places : k <= i})
    IN  [n \in 1 .. Cardinality(places) |-> s[CHOOSE i \in places : rank(i) = n]]

Without(s, id) == Only(s, Ids \ {id})

Active(m) == {id \in Ids : m.job[id] # "none"}

\* The handlers work on these three together; the rest of db changes seldom.
Now == [m |-> dl, disk |-> disk, rows |-> db.rows]

Becomes(s) ==
    /\ dl' = s.m
    /\ disk' = s.disk
    /\ db' = [db EXCEPT !.rows = s.rows]
    /\ UNCHANGED resolving

-----------------------------------------------------------------------------

\* (slip: the save not armed)
TouchNothing(m) == m

\* Every change of state arms the save, once the last launch's queue is back.
Touch(m) == [m EXCEPT !.saveDue = @ \/ m.restored]

\* DownloadQueueModel::upsert and remove.
Upsert(m, id, state) ==
    [m EXCEPT !.rows = IF m.state[id] = "none" THEN Append(@, id) ELSE @, !.state[id] = state]

Drop(m, id) == [m EXCEPT !.rows = Without(@, id), !.state[id] = "none"]

\* pump() and begin().  m_waitingOnPlayback is a callback left with YtDlp
\* ("set"), which the end of the last lookup posts ("posted").  m_before is
\* taken as an attempt begins; with no record of it every file counts as having
\* been there.
Begin(m, d, ids) ==
    [m EXCEPT !.state = [id \in Ids |-> IF id \in ids THEN "downloading" ELSE @[id]],
              !.job = [id \in Ids |-> IF id \notin ids THEN @[id]
                                      ELSE IF id \in Titled THEN "asking" ELSE "ytdlp"],
              !.before = [id \in Ids |-> IF id \in ids THEN d[db.folder][id] ELSE @[id]]]

\* (slip: three at a time, whoever runs already)
PumpBeside(s) ==
    LET m == s.m
        count == IF MaxConcurrent < Len(m.pending) THEN MaxConcurrent ELSE Len(m.pending)
    IN  IF count = 0 \/ resolving THEN s
        ELSE [s EXCEPT !.m = Touch([Begin(m, s.disk, ToSet(SubSeq(m.pending, 1, count)))
                                    EXCEPT !.pending = SubSeq(@, count + 1, Len(@))])]

Pump(s) ==
    LET m == s.m
        room == MaxConcurrent - Cardinality(Active(m))
        count == IF room < Len(m.pending) THEN room ELSE Len(m.pending)
    IN  CASE count <= 0 -> s
          [] count > 0 /\ resolving ->
               [s EXCEPT !.m.waiting = IF @ = "no" THEN "set" ELSE @]
          [] OTHER ->
               [s EXCEPT !.m = Touch([Begin(m, s.disk, ToSet(SubSeq(m.pending, 1, count)))
                                      EXCEPT !.pending = SubSeq(@, count + 1, Len(@))])]

\* (slip: whatever is finished under the song's name taken for this attempt's)
ClearedAll(names, before, kept) == names \cap kept

\* removeLeftovers: what is not finished goes, and what is only if this attempt
\* wrote it; never the file the database holds.
Cleared(names, before, kept) == {k \in names : k \in kept \/ (k \in Finished /\ k \in before)}

KindsKept(m, id) == IF m.stored[id] # NoFile /\ m.stored[id].folder = db.folder
                    THEN {m.stored[id].kind} ELSE {}

\* removePartialFiles.
WithoutPartials(s, id) ==
    [s EXCEPT !.disk[db.folder][id] = Cleared(@, s.m.before[id], KindsKept(s.m, id)),
              !.m.before[id] = Kinds]

\* (slip: the next one not started)
FailDownloadAlone(s, id) ==
    LET clean == WithoutPartials([s EXCEPT !.m.job[id] = "none"], id)
        told == IF id \in clean.m.cancelling THEN Drop(clean.m, id) ELSE Upsert(clean.m, id, "failed")
    IN  [clean EXCEPT !.m = Touch([told EXCEPT !.cancelling = @ \ {id}])]

FailDownload(s, id) ==
    LET clean == WithoutPartials([s EXCEPT !.m.job[id] = "none"], id)
        told == IF id \in clean.m.cancelling THEN Drop(clean.m, id) ELSE Upsert(clean.m, id, "failed")
    IN  Pump([clean EXCEPT !.m = Touch([told EXCEPT !.cancelling = @ \ {id}])])

\* complete() and recordStored(), once the file is known.
Complete(s, id, kind) ==
    LET file == [folder |-> db.folder, kind |-> kind]
        stored == [s.m EXCEPT !.job[id] = "none", !.before[id] = Kinds, !.stored[id] = file]
    IN  Pump([m |-> Touch(Drop(stored, id)),
              disk |-> [s.disk EXCEPT ![db.folder][id] = Cleared(@, @, {kind})],
              rows |-> [s.rows EXCEPT ![id] = file]])

\* startYtDlp, where JioSaavn has no copy or its copy fell through.
SaavnFailed(s, id) ==
    IF id \in s.m.cancelling
    THEN FailDownload(s, id)
    ELSE [s EXCEPT !.disk[db.folder][id] = Cleared(@, s.m.before[id], KindsKept(s.m, id)),
                   !.m = Touch([@ EXCEPT !.job[id] = "ytdlp"])]

\* stopProcess waits for yt-dlp to end and is told of its end meanwhile: one
\* that had just finished is completed, and its failed() never comes.
CancelRequest(s, id, finished) ==
    LET asked == [s EXCEPT !.m.cancelling = @ \cup {id}]
    IN  IF s.m.job[id] = "saavn" THEN SaavnFailed(asked, id)
        ELSE IF finished THEN Complete(asked, id, "done")
        ELSE FailDownload(asked, id)

CancelSong(s, id, finished) ==
    LET m == s.m IN
    IF Contains(m.pending, id) THEN [s EXCEPT !.m = Touch(Drop([m EXCEPT !.pending = Without(@, id)], id))]
    ELSE IF m.job[id] = "asking"
    THEN Pump([s EXCEPT !.m = Touch(Drop([@ EXCEPT !.job[id] = "none", !.before[id] = Kinds], id))])
    ELSE IF m.job[id] \in {"saavn", "ytdlp"} THEN CancelRequest(s, id, finished)
    ELSE [s EXCEPT !.m = Touch(Drop(@, id))]

-----------------------------------------------------------------------------

Closed == [running |-> FALSE, available |-> FALSE, restored |-> FALSE,
           rows |-> <<>>, state |-> [id \in Ids |-> "none"], pending |-> <<>>,
           job |-> [id \in Ids |-> "none"], before |-> [id \in Ids |-> Kinds],
           cancelling |-> {}, waiting |-> "no", saveDue |-> FALSE,
           stored |-> [id \in Ids |-> NoFile]]

\* A folder may hold finished songs the database knows nothing of.
DownloadsInit ==
    /\ dl = Closed
    /\ disk \in [Folders -> [Ids -> SUBSET Finished]]
    /\ db = [rows |-> [id \in Ids |-> NoFile], queue |-> <<>>,
             folder |-> CHOOSE f \in Folders : TRUE]
    /\ resolving = FALSE

\* loadStored: a missing file is not a download, but its row stays.
LoadStored(d, rows) == [id \in Ids |-> IF Exists(d, id, rows[id]) THEN rows[id] ELSE NoFile]

\* restoreQueue, which puts the last launch's queue back once.
RestoreQueue(s) ==
    LET left == Only(db.queue, {q \in QueueRows : s.m.stored[q.id] = NoFile})
        ids(qs) == [i \in DOMAIN qs |-> qs[i].id]
        back == [s.m EXCEPT
                    !.restored = TRUE,
                    !.rows = ids(left),
                    !.state = [id \in Ids |-> CASE [id |-> id, failed |-> TRUE] \in ToSet(left) -> "failed"
                                                [] [id |-> id, failed |-> FALSE] \in ToSet(left) -> "queued"
                                                [] OTHER -> "none"],
                    !.pending = ids(Only(left, {q \in QueueRows : ~q.failed}))]
    IN  IF s.m.restored \/ ~s.m.available THEN s
        ELSE IF left = <<>> THEN [s EXCEPT !.m.restored = TRUE]
        ELSE Pump([s EXCEPT !.m = Touch(back)])

MayBe(available) == available \/ "tools" \in Surprises

Launch(available) ==
    /\ ~dl.running
    /\ MayBe(available)
    /\ Becomes(RestoreQueue([Now EXCEPT !.m = [Closed EXCEPT
           !.running = TRUE, !.available = available, !.stored = LoadStored(disk, db.rows)]]))

\* refreshTools.
ToolsFound(s, available) == RestoreQueue([s EXCEPT !.m.available = available])

RefreshTools ==
    /\ dl.running
    /\ MayBe(~dl.available)
    /\ Becomes(ToolsFound(Now, ~dl.available))

\* (slip: one waiting already queued again)
WantedAgain(m) == {id \in Ids : m.available /\ m.stored[id] = NoFile /\ m.job[id] = "none"}

\* What queueOne lets through.
Wanted(m) ==
    {id \in Ids : /\ m.available /\ m.stored[id] = NoFile
                  /\ m.job[id] = "none" /\ ~Contains(m.pending, id)}

\* enqueue and enqueueAll, of a list that names each song once.
Enqueue(ids, available) ==
    LET s == ToolsFound(Now, available)
        new == Only(ids, Wanted(s.m))
        queued == [s.m EXCEPT
                      !.rows = @ \o Only(new, {id \in Ids : s.m.state[id] = "none"}),
                      !.state = [id \in Ids |-> IF Contains(new, id) THEN "queued" ELSE @[id]],
                      !.pending = @ \o new]
    IN  /\ dl.running
        /\ MayBe(available)
        /\ Becomes(IF new = <<>> THEN s ELSE Pump([s EXCEPT !.m = Touch(queued)]))

\* retry and retryFailed.
Retry(ids) ==
    LET again == Only(ids, {id \in Ids : dl.state[id] = "failed"})
        queued == [dl EXCEPT !.state = [id \in Ids |-> IF Contains(again, id) THEN "queued" ELSE @[id]],
                             !.pending = @ \o again]
    IN  /\ dl.running
        /\ again # <<>>
        /\ Becomes(Pump([Now EXCEPT !.m = Touch(queued)]))

\* A request that has just finished is one whose file is there.
MayHaveFinished(id, finished) ==
    finished => dl.job[id] = "ytdlp" /\ "done" \in disk[db.folder][id]

CancelIt(id, finished) ==
    /\ dl.state[id] # "none"
    /\ MayHaveFinished(id, finished)
    /\ Becomes(CancelSong(Now, id, finished))

\* remove: the file and its row, the song's download stopped first.
RemoveIt(id, finished) ==
    LET s == IF dl.state[id] = "none" THEN Now ELSE CancelSong(Now, id, finished)
        file == IF s.m.stored[id] # NoFile THEN s.m.stored[id] ELSE s.rows[id]
    IN  /\ dl.running
        /\ MayHaveFinished(id, finished)
        /\ file # NoFile
        /\ Becomes([m |-> Touch([s.m EXCEPT !.stored[id] = NoFile]),
                    disk |-> [s.disk EXCEPT ![file.folder][id] = @ \ {file.kind}],
                    rows |-> [s.rows EXCEPT ![id] = NoFile]])

\* The finder's answer, once; one for a download cancelled meanwhile is dropped.
SaavnAnswered(id, has) ==
    /\ dl.job[id] = "asking"
    /\ Becomes([Now EXCEPT !.m.job[id] = IF has THEN "saavn" ELSE "ytdlp"])

\* The file named by yt-dlp, or (findWrittenFile) whichever file of the song
\* that is not a .part or a picture was written last.
Findable(names) == names \ {"part"}

YtdlpFinished(id, wrote, reported) ==
    /\ dl.job[id] = "ytdlp"
    /\ reported => wrote
    /\ \E left \in SUBSET (disk[db.folder][id] \cap Unfinished) :
          LET names == (disk[db.folder][id] \ Unfinished) \cup left \cup (IF wrote THEN {"done"} ELSE {})
              s == [Now EXCEPT !.disk[db.folder][id] = names]
          IN  IF wrote /\ reported THEN Becomes(Complete(s, id, "done"))
              ELSE IF Findable(names) = {} THEN Becomes(FailDownload(s, id))
              ELSE \E kind \in (IF wrote THEN {"done"} ELSE Findable(names)) :
                      Becomes(Complete(s, id, kind))

YtdlpFailed(id) ==
    /\ dl.job[id] = "ytdlp"
    /\ Becomes(FailDownload(Now, id))

\* SaavnDownload: a .part, a .temp that FFmpeg tags, and the song's own name
\* only once it is whole.  finish() first removes a file that has that name,
\* then renames the new one to it, or copies it there.
SaavnFinished(id) ==
    /\ dl.job[id] = "saavn"
    /\ "part" \in disk[db.folder][id]
    /\ Becomes(Complete([Now EXCEPT !.disk[db.folder][id] = (@ \ Unfinished) \cup {"done"}], id, "done"))

\* Its link, FFmpeg or the time limit; or finish(), refused the first step.
SaavnFails(id) ==
    /\ dl.job[id] = "saavn"
    /\ Becomes(SaavnFailed(Now, id))

\* finish() removed the file that had the name, and neither renamed nor copied
\* its own there.
SaavnNotPlaced(id) ==
    /\ dl.job[id] = "saavn"
    /\ "part" \in disk[db.folder][id]
    /\ Becomes(SaavnFailed([Now EXCEPT !.disk[db.folder][id] = @ \ {"done"}], id))

\* The program ends inside finish(): between the two steps, or with the file
\* in its place and some of the working ones still there.
SaavnCut(id) ==
    LET names == disk[db.folder][id]
        placed(left) == (names \ Unfinished) \cup left \cup {"done"}
    IN  /\ "crash" \in Surprises
        /\ dl.job[id] = "saavn"
        /\ "part" \in names
        /\ \E after \in {names \ {"done"}} \cup {placed(left) : left \in SUBSET (names \cap Unfinished)} :
              disk' = [disk EXCEPT ![db.folder][id] = after]
        /\ dl' = Closed
        /\ resolving' = FALSE
        /\ UNCHANGED db

\* What either writes on the way: yt-dlp the song's own name too, which it then
\* converts and tags.
Writes(id, kind) ==
    /\ \/ dl.job[id] = "ytdlp"
       \/ dl.job[id] = "saavn" /\ kind \in Unfinished
    /\ kind # "other"
    /\ kind = "part" \/ "part" \in disk[db.folder][id]
    /\ kind \notin disk[db.folder][id]
    /\ disk' = [disk EXCEPT ![db.folder][id] = @ \cup {kind}]
    /\ UNCHANGED <<dl, db, resolving>>

\* setDownloadDirectory, with relinkStored.
SetDownloadDirectory(folder) ==
    LET moved == folder # db.folder
        clear == [id \in Ids |-> IF moved /\ Contains(dl.pending, id)
                                 THEN disk[db.folder][id] \cap Finished
                                 ELSE disk[db.folder][id]]
        d == [disk EXCEPT ![db.folder] = clear]
        missing(id) == db.rows[id] # NoFile /\ ~Exists(d, id, db.rows[id])
        choices(id) == IF missing(id) /\ Findable(d[folder][id]) # {}
                       THEN {[folder |-> folder, kind |-> k] : k \in Findable(d[folder][id])}
                       ELSE {db.rows[id]}
    IN  /\ dl.running
        /\ Active(dl) = {}
        /\ \E rows \in [Ids -> Files \cup {NoFile}] :
              /\ \A id \in Ids : rows[id] \in choices(id)
              /\ db' = [db EXCEPT !.rows = rows, !.folder = folder]
              /\ dl' = Touch([dl EXCEPT !.stored = LoadStored(d, rows)])
        /\ disk' = d
        /\ UNCHANGED resolving

-----------------------------------------------------------------------------

\* saveQueue: those running, then the queue as it stands, then the failed ones.
QueueOf(m) ==
    LET all(ids, failed) == [i \in DOMAIN ids |-> [id |-> ids[i], failed |-> failed]]
        running == Only(m.rows, {id \in Ids : m.state[id] # "failed" /\ ~Contains(m.pending, id)})
        failed == Only(m.rows, {id \in Ids : m.state[id] = "failed"})
    IN  all(running \o m.pending, FALSE) \o all(failed, TRUE)

SaveTimer ==
    /\ dl.saveDue
    /\ dl' = [dl EXCEPT !.saveDue = FALSE]
    /\ db' = [db EXCEPT !.queue = QueueOf(dl)]
    /\ UNCHANGED <<disk, resolving>>

\* (slip: the queue saved whether it was put back or not)
DownloadsQuitSaving ==
    /\ dl.running
    /\ dl' = Closed
    /\ db' = [db EXCEPT !.queue = QueueOf(dl)]
    /\ disk' = [disk EXCEPT ![db.folder] = [id \in Ids |->
                  IF dl.job[id] = "saavn" \/ (dl.job[id] = "ytdlp" /\ ~dl.restored)
                  THEN Cleared(@[id], dl.before[id], KindsKept(dl, id)) ELSE @[id]]]
    /\ resolving' = FALSE

\* The destructor: JioSaavn's part-files go, yt-dlp's stay to be carried on.
DownloadsQuit ==
    /\ dl.running
    /\ dl' = Closed
    /\ db' = [db EXCEPT !.queue = IF dl.restored THEN QueueOf(dl) ELSE @]
    /\ disk' = [disk EXCEPT ![db.folder] = [id \in Ids |->
                  IF dl.job[id] = "saavn" \/ (dl.job[id] = "ytdlp" /\ ~dl.restored)
                  THEN Cleared(@[id], dl.before[id], KindsKept(dl, id)) ELSE @[id]]]
    /\ resolving' = FALSE

DownloadsCrash ==
    /\ "crash" \in Surprises
    /\ dl.running
    /\ dl' = Closed
    /\ resolving' = FALSE
    /\ UNCHANGED <<disk, db>>

\* A song someone waits for, looked up (StreamLadder.tla).
ResolveStarts ==
    /\ dl.running /\ ~resolving
    /\ resolving' = TRUE
    /\ UNCHANGED <<dl, disk, db>>

\* (slip: the callback left with YtDlp forgotten)
ResolveEndsUntold ==
    /\ resolving
    /\ resolving' = FALSE
    /\ UNCHANGED <<dl, disk, db>>

ResolveEnds ==
    /\ resolving
    /\ resolving' = FALSE
    /\ dl' = [dl EXCEPT !.waiting = IF @ = "set" THEN "posted" ELSE @]
    /\ UNCHANGED <<disk, db>>

PlaybackResolved ==
    /\ dl.waiting = "posted"
    /\ Becomes(Pump([Now EXCEPT !.m.waiting = "no"]))

\* Files are moved from folder to folder, or deleted, by hand.
Carried(id, from) ==
    /\ "carried" \in Surprises
    /\ \E kind \in disk[from][id] \cap Finished : \E to \in SUBSET (Folders \ {from}) :
          /\ Cardinality(to) <= 1
          /\ disk' = [f \in Folders |-> [disk[f] EXCEPT ![id] = IF f = from THEN @ \ {kind}
                                                     ELSE IF f \in to THEN @ \cup {kind} ELSE @]]
    /\ UNCHANGED <<dl, db, resolving>>

Listener ==
    \/ \E id \in Ids : \E av \in BOOLEAN : Enqueue(<<id>>, av)
    \/ \E ids \in SetToSeqs(Ids) : Enqueue(ids, dl.available) \/ Retry(ids)
    \/ \E id \in Ids : Retry(<<id>>)
    \/ \E id \in Ids : \E f \in BOOLEAN : CancelIt(id, f) \/ RemoveIt(id, f)
    \/ \E folder \in Folders : SetDownloadDirectory(folder)
    \/ DownloadsQuit
    \/ \E av \in BOOLEAN : Launch(av)

Transfer(id) ==
    \/ \E has \in BOOLEAN : SaavnAnswered(id, has)
    \/ YtdlpFinished(id, TRUE, TRUE)
    \/ "unreported" \in Surprises /\ \E wrote \in BOOLEAN : YtdlpFinished(id, wrote, FALSE)
    \/ YtdlpFailed(id) \/ SaavnFinished(id) \/ SaavnFails(id)
    \/ SaavnNotPlaced(id) \/ SaavnCut(id)

World ==
    \/ \E id \in Ids : Transfer(id) \/ \E kind \in Kinds : Writes(id, kind)
    \/ \E id \in Ids : \E from \in Folders : Carried(id, from)
    \/ RefreshTools \/ SaveTimer \/ DownloadsCrash
    \/ ResolveStarts \/ ResolveEnds \/ PlaybackResolved

DownloadsNext == Listener \/ World

DownloadsSpec == DownloadsInit /\ [][DownloadsNext]_downloads

\* Every transfer ends (JioSaavn's and FFmpeg's on time limits, yt-dlp on its
\* retries), JioSaavn's finder answers, and the event loop runs.
Fairness ==
    /\ \A id \in Ids : WF_downloads(\E has \in BOOLEAN : SaavnAnswered(id, has))
    /\ \A id \in Ids : WF_downloads(YtdlpFinished(id, TRUE, TRUE) \/ YtdlpFailed(id))
    /\ \A id \in Ids : WF_downloads(SaavnFails(id))
    /\ WF_downloads(PlaybackResolved)

FairSpec == DownloadsSpec /\ Fairness

-----------------------------------------------------------------------------

\* The shapes of the variables; no more than kMaxConcurrent songs download.
DownloadsTypeOK ==
    /\ dl \in [running : BOOLEAN, available : BOOLEAN, restored : BOOLEAN,
               rows : Seq(Ids), state : [Ids -> {"none", "queued", "downloading", "failed"}],
               pending : Seq(Ids), job : [Ids -> {"none", "asking", "saavn", "ytdlp"}],
               before : [Ids -> SUBSET Kinds], cancelling : SUBSET Ids,
               waiting : {"no", "set", "posted"}, saveDue : BOOLEAN,
               stored : [Ids -> Files \cup {NoFile}]]
    /\ Cardinality(Active(dl)) <= MaxConcurrent
    /\ disk \in [Folders -> [Ids -> SUBSET Kinds]]
    /\ db \in [rows : [Ids -> Files \cup {NoFile}],
               queue : Seq(QueueRows), folder : Folders]
    /\ resolving \in BOOLEAN

\* What a row shows is so: a song waits exactly when it is in m_pending, once,
\* and downloads exactly when one of the three ways runs it, no more than
\* kMaxConcurrent at a time (isPending, activeCount and the rows agree through
\* every fall-back, cancel and retry).
RowsAreHonest ==
    /\ \A id \in Ids :
          /\ (dl.state[id] = "queued") = Contains(dl.pending, id)
          /\ (dl.state[id] = "downloading") = (dl.job[id] # "none")
          /\ (dl.state[id] # "none") = Contains(dl.rows, id)
    /\ IsInjective(dl.pending) /\ IsInjective(dl.rows)

\* A song waiting while there is room has a callback coming that pumps: every
\* way a download ends calls pump(), and one put off by playback has left word.
SomebodyPumps ==
    dl.pending # <<>> /\ Cardinality(Active(dl)) < MaxConcurrent => dl.waiting # "no"

\* With no save due, download_queue holds the queue as it stands, in the order
\* it will run, songs stored since aside: no change of state goes without
\* touch(), so a crash costs no more than the last second.
SavedIsCurrent ==
    dl.running /\ dl.restored /\ ~dl.saveDue =>
        LET unstored(queue) == Only(queue, {q \in QueueRows : dl.stored[q.id] = NoFile})
        IN  unstored(QueueOf(dl)) = unstored(db.queue)

\* Before the last queue is put back nothing is written over it: a launch
\* without yt-dlp, however it ends, leaves it as it was (downloadmanager.h's
\* word on saveQueue and restoreQueue).
QueueWaitsForTools == [][dl.running /\ ~dl.restored => db'.queue = db.queue]_downloads

\* JioSaavn's own copy failing, or the program ending, as it is put in place.
Replacing(id) == SaavnNotPlaced(id) \/ SaavnCut(id)

\* A finished file goes only with its song's removal, or if it came since the
\* attempt now failing began: not with an earlier attempt's failure, a cancel, a
\* quit, a change of folder, or because the database has forgotten it.  One way
\* of losing it is the code's own, and is left out by name: a file under the
\* song's name "is replaced only by this complete one" (saavndownload.cpp:338),
\* but finish() removes it before the complete one is in its place.
FinishedFilesStay ==
    [][\A f \in Folders : \A id \in Ids : \A kind \in Finished :
          kind \in disk[f][id] \ disk'[f][id] =>
              \/ f = db.folder /\ dl.job[id] # "none" /\ kind \notin dl.before[id]
              \/ \E finished \in BOOLEAN : RemoveIt(id, finished)
              \/ Carried(id, f)
              \/ f = db.folder /\ kind = "done" /\ Replacing(id)]_downloads

\* All that is promised of the rows and of the queue on disk.
RowsAreKept == RowsAreHonest /\ SomebodyPumps /\ SavedIsCurrent

\* And of what is the listener's: the finished files, and the last launch's queue.
NothingIsThrownAway == FinishedFilesStay /\ QueueWaitsForTools

\* The failed() handler clears the mark a cancel leaves (cancel(), on both
\* requests), so that a later failure of the song is not taken for a cancel.
CancelIsOver == \A id \in dl.cancelling : dl.job[id] # "none"

\* Once the songs being played are found for good, no song waits for ever.
EverySongStarts ==
    <>[](dl.running /\ ~resolving) => \A id \in Ids : []<>~Contains(dl.pending, id)
=============================================================================
