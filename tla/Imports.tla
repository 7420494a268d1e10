------------------------------ MODULE Imports ------------------------------
(***************************************************************************)
(* Importing playlists (playlistimport.cpp): the jobs and their rows as    *)
(* the database keeps them, the pump that works on one at a time, the      *)
(* requests it has out, YouTube Music's refusals, and the playlists the    *)
(* songs go into (Library::addImported).                                   *)
(*                                                                         *)
(* Hours are units of time: `left` is how long until a job's resumeAt and  *)
(* `rest` until m_restUntilMs. The gaps between requests are not counted:  *)
(* the timer, once started, may fire at any time. A page of a source holds *)
(* one song. The hour's and the day's caps are one. A song that is found   *)
(* is found as itself; sure and likely are one. `owed` and `turned` are    *)
(* what YouTube asked for, whatever the program made of it. A YouTube list *)
(* is previewed before it is started; a preview that was superseded does   *)
(* nothing and is not kept. Left out: the warnings, the counts shown, and  *)
(* the clipboard.                                                          *)
(***************************************************************************)
EXTENDS Integers, Sequences, FiniteSetsExt, SequencesExt

CONSTANTS Kinds,     \* of each job: "list", "source" (read in pages) or "youtube"
          Lists,     \* the songs of each
          Songs, None,
          Owned,     \* the songs the library held before
          MaxAsked,  \* searches for one song
          PerHour,   \* searches in an hour
          Longest,   \* the hours of the longest rest, and the refusals counted
          Does,      \* what the listener does besides: "review", "delete", "preview"
          Launches   \* times the program is started again

VARIABLE imp

Jobs == DOMAIN Kinds
Places(j) == DOMAIN Lists[j]
Over == {"done", "cancelled"}
Unfinished(m) == {j \in Jobs : m.state[j] \in {"running", "resting", "paused"}}
\* Those that go on by themselves: not the ones the listener paused.
Going(m) == {j \in Jobs : m.state[j] \in {"running", "resting"}}
AllRead(m, j) == m.read[j] = Len(Lists[j]) \/ m.cut[j]
Rows(m, j, which) == {p \in Places(j) : m.status[j][p] \in which}
NoRun == [job |-> 0, place |-> 0, index |-> 0, best |-> "none"]
Smaller(x, y) == IF x < y THEN x ELSE y

Rejected(m, song) == IF song \in m.rejected THEN {song} ELSE {}

Scheduled(m) == [m EXCEPT !.timer = TRUE]

-----------------------------------------------------------------------------
(* The playlist.                                                           *)

\* Library::addImported, of one song.
Appended(list, v) == IF v \in Range(list) THEN list ELSE Append(list, v)

PlacedLast(m, j, p, v) == Appended(m.list[j], v)

\* addAt: behind the last song of an earlier row.
Placed(m, j, p, v) ==
    LET list == m.list[j]
        earlier == {m.video[j][q] : q \in Rows(m, j, {"found"}) \cap 1 .. p - 1}
        place == Max({0} \union {n \in DOMAIN list : list[n] \in earlier})
    IN  IF v \in Range(list) THEN list ELSE InsertAt(list, place + 1, v)

-----------------------------------------------------------------------------
(* What YouTube Music says.                                                *)

\* refusedBy: an hour's rest, then longer, saved at once.
Refused(m) ==
    LET n == Smaller(m.refusals + 1, Longest) IN [m EXCEPT !.refusals = n, !.rest = n]

\* answered
Answered(m) == [m EXCEPT !.refusals = 0, !.rest = 0]

\* failed
Failed(m, j, youtube) ==
    LET n == Smaller(m.failures[j] + 1, Longest)
        r == Refused(m)
    IN  IF youtube
        THEN [r EXCEPT !.failures[j] = r.refusals, !.left[j] = r.rest, !.state[j] = "resting"]
        ELSE [m EXCEPT !.failures[j] = n, !.left[j] = n, !.state[j] = "resting"]

\* What it asked for, of whoever hears it.
Says(m, refusal) ==
    LET n == Smaller(m.turned + 1, Longest)
    IN  IF refusal THEN [m EXCEPT !.turned = n, !.owed = n] ELSE [m EXCEPT !.turned = 0, !.owed = 0]

-----------------------------------------------------------------------------
(* A job's end, and its songs.                                             *)

\* What is out is another epoch's.
Dropped(m) ==
    [m EXCEPT !.active = 0, !.run = NoRun, !.air = [n \in DOMAIN @ |-> [@[n] EXCEPT !.live = FALSE]]]

\* finishJob
Finished(m, j, state) ==
    LET d == IF m.active = j THEN Dropped(m) ELSE m
    IN  [d EXCEPT !.state[j] = state, !.left[j] = 0,
                  !.run = IF @.job = j THEN NoRun ELSE @,
                  !.status[j] = [p \in Places(j) |->
                                    IF state = "cancelled" /\ @[p] = "pending" THEN "stopped" ELSE @[p]]]

\* settle, of a row found and of one that is not.
Found(m, j, p, v) ==
    IF j \in m.gone THEN Finished(m, j, "cancelled")
    ELSE [m EXCEPT !.list[j] = Placed(m, j, p, v), !.status[j][p] = "found", !.video[j][p] = v]

Settled(m, j, p, status) == [m EXCEPT !.status[j][p] = status]

\* remember
Remembered(m, j, p, v) == [m EXCEPT !.known[Lists[j][p]] = v]

\* settleFromSource: the songs of a YouTube list, in at once.
FromSource(m, j) ==
    LET rows == Rows(m, j, {"pending"})
        songs == [n \in DOMAIN SetToSortSeq(rows, <) |-> Lists[j][SetToSortSeq(rows, <)[n]]]
    IN  IF Kinds[j] # "youtube" \/ rows = {} THEN m
        ELSE IF j \in m.gone THEN Finished(m, j, "cancelled")
        ELSE [m EXCEPT !.list[j] = FoldLeft(Appended, @, songs),
                       !.status[j] = [p \in Places(j) |-> IF p \in rows THEN "found" ELSE @[p]],
                       !.video[j] = [p \in Places(j) |-> IF p \in rows THEN Lists[j][p] ELSE @[p]]]

\* insertRows: a place already kept is left as it is.
Inserted(m, j, places) ==
    [m EXCEPT !.status[j] = [p \in Places(j) |-> IF p \in places /\ @[p] = "unread" THEN "pending" ELSE @[p]]]

\* conclude
Concluded(m) ==
    LET j == m.run.job
        p == m.run.place
        r == [m EXCEPT !.run = NoRun]
    IN  Scheduled(IF m.run.best = "sure" THEN Remembered(Found(r, j, p, Lists[j][p]), j, p, Lists[j][p])
                  ELSE Settled(r, j, p, IF m.run.best = "check" THEN "check" ELSE "notfound"))

-----------------------------------------------------------------------------
(* The pump.                                                               *)

Asks(m, what, j) == [m EXCEPT !.inFlight = TRUE, !.air = Append(@, [what |-> what, job |-> j, live |-> TRUE])]

\* runSearch
SearchRun(m) ==
    LET j == m.run.job
        r == [m EXCEPT !.run = NoRun]
    IN  IF m.state[j] # "running" \/ m.rest > 0 THEN Scheduled(r)
        ELSE IF m.asked >= PerHour THEN Scheduled([r EXCEPT !.state[j] = "resting", !.left[j] = 1])
        ELSE Asks([m EXCEPT !.asked = @ + 1], "search", j)

\* findNext: what the library has and what was matched before is not searched for.
Sought(m, j) ==
    LET p == Min(Rows(m, j, {"pending"}))
        song == Lists[j][p]
    IN  IF Rows(m, j, {"pending"}) = {} THEN Scheduled(Finished(m, j, "done"))
        ELSE IF Kinds[j] = "youtube" THEN Scheduled(FromSource(m, j))
        ELSE IF song \in Owned THEN Scheduled(Found(m, j, p, song))
        ELSE IF m.known[song] \notin {None} \union Rejected(m, song) THEN Scheduled(Found(m, j, p, m.known[song]))
        ELSE SearchRun([m EXCEPT !.run = [NoRun EXCEPT !.job = j, !.place = p]])

WorkedOn(m, j) ==
    LET r == [m EXCEPT !.state[j] = "running", !.left[j] = 0, !.active = j, !.busy = TRUE]
    IN  IF j \in m.gone THEN Scheduled(Finished(r, j, "cancelled"))
        ELSE IF AllRead(m, j) THEN Sought(r, j)
        ELSE Asks(r, "page", j)

\* nextJob: in the order they were started, one waiting holding those after it,
\* and YouTube Music's rest all of them.
Pumped(m) ==
    LET j == Min(Going(m))
        own == IF m.state[j] = "running" THEN 0 ELSE m.left[j]
        idle == [m EXCEPT !.active = 0]
        wait == Scheduled([idle EXCEPT !.busy = TRUE])
    IN  IF Going(m) = {} THEN IF m.rest > 0 THEN wait ELSE [idle EXCEPT !.busy = FALSE]
        ELSE IF m.rest > own THEN [wait EXCEPT !.state[j] = "resting", !.left[j] = m.rest]
        ELSE IF own > 0 THEN wait
        ELSE WorkedOn(m, j)

Step ==
    /\ imp.up /\ imp.timer
    /\ LET m == [imp EXCEPT !.timer = FALSE]
       IN  imp' = IF m.inFlight THEN m ELSE IF m.run # NoRun THEN SearchRun(m) ELSE Pumped(m)

Taken(m, n) == [m EXCEPT !.inFlight = FALSE, !.air = RemoveAt(@, n)]

OverheardDeaf(m, refusal) == Scheduled(m)

\* An answer to what a pause or a stop left out counts for every import.
Overheard(m, refusal) == Scheduled(IF refusal THEN Refused(m) ELSE Answered(m))

\* The answer to a search; `better` what the best of it is.
Searched(m, said) ==
    LET j == m.run.job
        heard == [Answered(m) EXCEPT !.failures[j] = 0]
        best == IF said = "sure" \/ m.run.best = "none" THEN said ELSE m.run.best
        r == [heard EXCEPT !.run.index = @ + 1, !.run.best = best]
    IN  IF said = "refusal" THEN Scheduled(Failed([m EXCEPT !.run = NoRun], j, TRUE))
        ELSE IF best = "sure" \/ r.run.index >= MaxAsked THEN Concluded(r)
        ELSE Scheduled(r)

SearchAnswered(n, said) ==
    /\ imp.up /\ n \in DOMAIN imp.air /\ imp.air[n].what = "search"
    /\ LET m == Says(Taken(imp, n), said = "refusal")
           heard == imp.air[n].live /\ m.run # NoRun
       IN  /\ said \in {"sure", "check"} =>
                 heard /\ Lists[m.run.job][m.run.place] \notin m.rejected
           /\ imp' = IF heard THEN Searched(m, said) ELSE Overheard(m, said = "refusal")

\* A page read: its rows are kept, then the job, then the songs go in; the program
\* may end between any two of these.
Read(m, j, upTo) ==
    LET p == m.read[j] + 1
        rows == Inserted(m, j, {p})
        kept == [rows EXCEPT !.read[j] = p, !.failures[j] = 0]
    IN  CASE upTo = "rows" -> rows
          [] upTo = "job" -> kept
          [] upTo = "added" -> [kept EXCEPT !.list[j] = FromSource(kept, j).list[j]]
          [] upTo = "all" -> Scheduled(FromSource(kept, j))

Down(m) ==
    [m EXCEPT !.up = FALSE, !.inFlight = FALSE, !.air = <<>>, !.run = NoRun, !.active = 0, !.timer = FALSE,
              !.busy = FALSE, !.preview = "none", !.launches = @ + 1]

PageAnswered(n, said) ==
    /\ imp.up /\ n \in DOMAIN imp.air /\ imp.air[n].what = "page"
    /\ LET j == imp.air[n].job
           youtube == Kinds[j] = "youtube"
           m == IF youtube THEN Says(Taken(imp, n), said = "refusal") ELSE Taken(imp, n)
           heard == IF youtube THEN Answered(m) ELSE m
       IN  IF ~imp.air[n].live \/ m.state[j] # "running"
           THEN imp' = Scheduled(IF youtube /\ said = "refusal" THEN Refused(m) ELSE m)
           ELSE \/ said = "refusal" /\ imp' = Scheduled(Failed(m, j, youtube))
                \/ said = "lost" /\ imp' = Scheduled([m EXCEPT !.cut[j] = TRUE])
                \/ said = "page" /\ imp' = Read(heard, j, "all")
                \/ /\ said = "page" /\ imp.launches < Launches
                   /\ \E upTo \in {"rows", "job", "added"} : imp' = Down(Read(heard, j, upTo))

-----------------------------------------------------------------------------
(* The listener.                                                           *)

\* preview, of a YouTube list: not while YouTube Music's rest lasts. It waits its
\* turn, is sent, and its answer is as good as any.
Preview ==
    /\ "preview" \in Does /\ imp.up /\ imp.rest = 0
    /\ imp' = [imp EXCEPT !.preview = "out"]

PreviewAnswered(refusal) ==
    /\ imp.up /\ imp.preview = "out"
    /\ imp' = IF refusal THEN [imp EXCEPT !.preview = "none"]
              ELSE Says(Answered([imp EXCEPT !.preview = "ready"]), FALSE)

\* start: jobs are numbered in the order they are started.
Start(j) ==
    /\ imp.up /\ imp.state[j] = "none" /\ (j > 1 => imp.state[j - 1] # "none")
    /\ Kinds[j] = "youtube" => imp.preview = "ready"
    /\ LET first == IF Kinds[j] = "list" THEN Places(j) ELSE {1}
           m == Inserted([imp EXCEPT !.state[j] = "running", !.read[j] = Max(first), !.preview = "none",
                                     !.busy = TRUE], j, first)
       IN  imp' = Scheduled(FromSource(m, j))

PauseForgetful(j) ==
    /\ imp.up /\ j \in Unfinished(imp)
    /\ LET m == IF imp.active = j THEN [Dropped(imp) EXCEPT !.inFlight = FALSE] ELSE imp
       IN  imp' = Scheduled([m EXCEPT !.state[j] = "paused", !.left[j] = 0])

Pause(j) ==
    /\ imp.up /\ j \in Unfinished(imp)
    /\ LET m == IF imp.active = j THEN Dropped(imp) ELSE imp
       IN  imp' = Scheduled([m EXCEPT !.state[j] = "paused", !.left[j] = 0])

Resume(j) ==
    /\ imp.up /\ imp.state[j] \in {"paused", "resting"}
    /\ imp' = Scheduled([imp EXCEPT !.state[j] = "running", !.left[j] = 0, !.failures[j] = 0, !.busy = TRUE])

Cancel(j) ==
    /\ imp.up /\ j \in Unfinished(imp)
    /\ imp' = Scheduled(Finished(imp, j, "cancelled"))

\* lookForStopped: a YouTube list not read to its end is read from its first page.
LookForStopped(j) ==
    /\ imp.up /\ imp.state[j] \in Over /\ j \notin imp.gone
    /\ Rows(imp, j, {"stopped"}) # {} \/ ~AllRead(imp, j)
    /\ LET m == [imp EXCEPT !.status[j] = [p \in Places(j) |-> IF @[p] = "stopped" THEN "pending" ELSE @[p]],
                            !.read[j] = IF Kinds[j] = "youtube" /\ ~AllRead(imp, j) THEN 0 ELSE @,
                            !.state[j] = "running", !.left[j] = 0, !.failures[j] = 0, !.busy = TRUE]
       IN  imp' = Scheduled(FromSource(m, j))

DismissStopped(j) ==
    /\ imp.up /\ Rows(imp, j, {"stopped"}) # {}
    /\ imp' = [imp EXCEPT !.status[j] = [p \in Places(j) |-> IF @[p] = "stopped" THEN "dismissed" ELSE @[p]]]

\* The review's USE THIS, of a song to check, and a song found in Search, of one
\* not found: nothing is done once the playlist is gone.
Chosen(j, p, v) ==
    /\ imp.up /\ j \notin imp.gone
    /\ imp' = Remembered(Found(imp, j, p, v), j, p, v)

UseCandidate(j, p) == imp.status[j][p] = "check" /\ Chosen(j, p, Lists[j][p])

UseSong(j, p, v) == imp.status[j][p] \in {"notfound", "stopped"} /\ Chosen(j, p, v)

NotThis(j, p) ==
    /\ imp.up /\ imp.status[j][p] = "check"
    /\ LET song == Lists[j][p]
       IN  imp' = [Settled(imp, j, p, "notfound") EXCEPT
                       !.rejected = @ \union {song}, !.known[song] = IF @ = song THEN None ELSE @]

Dismiss(j, p) ==
    /\ imp.up /\ imp.status[j][p] \in {"notfound", "stopped"}
    /\ imp' = Settled(imp, j, p, "dismissed")

DeletePlaylist(j) ==
    /\ "delete" \in Does /\ imp.up /\ imp.state[j] # "none" /\ j \notin imp.gone
    /\ imp' = [imp EXCEPT !.gone = @ \union {j}, !.list[j] = <<>>]

-----------------------------------------------------------------------------
(* Time, and the program's ends.                                           *)

Less(n) == IF n > 0 THEN n - 1 ELSE 0

HourPasses ==
    /\ imp.rest > 0 \/ imp.owed > 0 \/ imp.asked > 0 \/ \E j \in Jobs : imp.left[j] > 0
    /\ imp' = [imp EXCEPT !.rest = Less(@), !.owed = Less(@), !.asked = 0,
                          !.left = [j \in Jobs |-> Less(@[j])]]

Quit == imp.up /\ imp.launches < Launches /\ imp' = Down(imp)

LeftToDoOfJobs(m) == Unfinished(m) # {}

LeftToDo(m) == Unfinished(m) # {} \/ m.rest > 0

\* load
Launch ==
    /\ ~imp.up
    /\ LET on == LeftToDo(imp)
       IN  imp' = [imp EXCEPT !.up = TRUE, !.busy = on, !.timer = on,
                              !.read = [j \in Jobs |-> IF Kinds[j] = "youtube" /\ j \in Unfinished(imp)
                                                           /\ ~AllRead(imp, j) THEN 0 ELSE @[j]]]

-----------------------------------------------------------------------------

Blank ==
    [up |-> TRUE, state |-> [j \in Jobs |-> "none"], left |-> [j \in Jobs |-> 0],
     failures |-> [j \in Jobs |-> 0], read |-> [j \in Jobs |-> 0], cut |-> [j \in Jobs |-> FALSE],
     status |-> [j \in Jobs |-> [p \in Places(j) |-> "unread"]],
     video |-> [j \in Jobs |-> [p \in Places(j) |-> None]],
     list |-> [j \in Jobs |-> <<>>], gone |-> {}, known |-> [s \in Songs |-> None],
     rejected |-> {}, inFlight |-> FALSE, air |-> <<>>, run |-> NoRun, active |-> 0,
     timer |-> FALSE, busy |-> FALSE, rest |-> 0, refusals |-> 0, asked |-> 0, preview |-> "none",
     owed |-> 0, turned |-> 0, launches |-> 0]

ImportsInit == imp = Blank

\* Somebody asked answers, and somebody asked refuses.
Served ==
    \E n \in DOMAIN imp.air :
        \/ \E said \in {"sure", "check", "none"} : SearchAnswered(n, said)
        \/ \E said \in {"page", "lost"} : PageAnswered(n, said)

Refuses == \E n \in DOMAIN imp.air : SearchAnswered(n, "refusal") \/ PageAnswered(n, "refusal")

Listener ==
    \/ Preview
    \/ \E j \in Jobs :
          \/ Start(j) \/ Pause(j) \/ Resume(j) \/ Cancel(j) \/ LookForStopped(j) \/ DismissStopped(j)
          \/ DeletePlaylist(j)
          \/ /\ "review" \in Does
             /\ \E p \in Places(j) : \/ UseCandidate(j, p) \/ NotThis(j, p) \/ Dismiss(j, p)
                                     \/ \E v \in Songs : UseSong(j, p, v)

ImportsNext ==
    \/ Step \/ Served \/ Refuses \/ HourPasses \/ Quit \/ Launch \/ Listener
    \/ \E refusal \in BOOLEAN : PreviewAnswered(refusal)

ImportsSpec == ImportsInit /\ [][ImportsNext]_imp

-----------------------------------------------------------------------------

\* The shapes of the members of playlistimport.h and of what the database keeps.
ImportsTypeOK ==
    /\ imp.state \in [Jobs -> {"none", "running", "resting", "paused"} \union Over]
    /\ imp.left \in [Jobs -> 0 .. Max({1, Longest})] /\ imp.rest \in 0 .. Longest /\ imp.asked \in 0 .. PerHour
    /\ \A j \in Jobs : imp.status[j] \in
          [Places(j) -> {"unread", "pending", "found", "check", "notfound", "stopped", "dismissed"}]
    /\ imp.active \in Jobs \union {0} /\ (imp.run # NoRun => imp.run.job = imp.active)

\* However imports are paused, stopped, started again and answered late: one
\* request is out at a time, none goes to YouTube while a rest it asked for lasts,
\* and none is made for an import that is paused or over (playlistimport.h's rules
\* of a job).
ImportsAreGentle ==
    Len(imp'.air) > Len(imp.air) =>
          LET r == Last(imp'.air)
          IN  /\ imp.air = <<>>
              /\ r.what = "search" \/ Kinds[r.job] = "youtube" => imp.owed = 0
              /\ imp'.state[r.job] = "running"

\* An import that is neither paused by the listener nor over is going on or will be
\* gone on with, and while one asks YouTube anything, or YouTube rests, the
\* recommender's covers are told to wait or are about to be (step, busy).
ImportsGoOn ==
    imp.up => /\ Going(imp) # {} => imp.timer \/ imp.air # <<>>
              /\ imp.inFlight <=> imp.air # <<>>
              /\ imp.rest > 0 \/ imp.air # <<>> => imp.busy \/ imp.timer

\* Each song found is in its import's playlist once, and two of them are in the
\* source's order, whatever order they were found, chosen or looked for again in;
\* unless one song is that of two rows with others between them, which `addAt` puts
\* behind it even where it stands for the later row.
FollowsTheSource(m, j) ==
    LET list == m.list[j]
        video == m.video[j]
        found == Rows(m, j, {"found"})
        twice == \E p, q, r, s \in found : video[p] = video[q] /\ p < r /\ r < s /\ s < q
    IN  /\ IsInjective(list)
        /\ \A p \in found : video[p] \in Range(list)
        /\ twice \/ \A i, k \in DOMAIN list :
              i < k /\ {list[i], list[k]} \subseteq {video[p] : p \in found} =>
                  \E p, q \in found : video[p] = list[i] /\ video[q] = list[k] /\ p < q

PlaylistFollowsTheSource == \A j \in Jobs \ imp.gone : FollowsTheSource(imp, j)

ImportsAreSound == ImportsTypeOK /\ ImportsGoOn /\ PlaylistFollowsTheSource
=============================================================================
