# Monolist Player, specified

TLA+ modules of Monolist Player's own logic (`src/Monolist Player/src`), the
TLC runs that check them on small instances, and TLAPS proofs that hold for
every instance. Everything below names the C++ it stands for; PROJECT.json maps
each definition to its lines.

## The system

One Qt process, one event loop. QML calls C++ objects; the objects call each
other and are called back by signals, timers, network answers, child processes
and mpv's event queue. Nothing runs in parallel inside an object, so the
hazards are not data races but *order*: a handler runs when its answer comes,
and by then the listener may have done anything. Beside the process there are
three other actors: the helper that swaps an update in, a second computer with
the same library, and the listener moving files about.

| Component | State | Operations | Talks to | What must be right | Module |
|---|---|---|---|---|---|
| Play queue (`queuemodel`) | rows, current row, kept order, next uid | insert, remove, move, clear, shuffle, restore | controller | the current row is the song playing; the kept order stays about the queue | `PlayQueue` |
| Playback controller | what resolves, whether sound is wanted, flags, failures, radio, picture, session | transport, queue calls, ~25 answers | all of the below | an answer acts only for the song it is for; a failing queue stops; a pause lasts | `UpNext`, `Session`, `Rescue` |
| mpv engine | load request, entry, last pause told, effects, takeover phase | load, stop, pause, seek, drainEvents | libmpv | events of a replaced file go nowhere; a move is not heard | `MpvEngine`, `Takeover` |
| Stream resolver | cache, jobs per tier, rescue links, refusals | resolve, resolveVia, prefetch, cancel | InnerTube, yt-dlp, JioSaavn | one answer per asking; a refused link is not served again | `StreamLadder`, `Rescue` |
| InnerTube | slots with generations, retries | send, search, radio, browse, cancel | network, account | an old retry never replaces a newer request | partly in `Account` |
| Listens and scrobbling | heard time, queue of scrobbles | begin, heard, flush, retry | controller, Last.fm, database | each listen sent once, none lost by a crash | `Scrobbler` |
| Downloads | jobs, their attempts and files | start, cancel, finish, retry | resolver, disk | a row tells the truth; no finished file is thrown away | `Downloads` |
| App updater | found, downloaded, verified, staged; the helper | check, download, install | network, a second process | only a verified copy is run; Monolist comes back | `AppUpdate` |
| Library and backup | tables, tombstones, files of them | edit, write, merge | disk | merges agree, and nothing done is undone | `LibraryMerge` |
| Drive sync | what is recorded of the file, local changes | list, read, merge, send, tidy | Google Drive | no computer's change is lost | `DriveSync` |
| Lyrics | races of providers, jobs, store, view | look up, answer, keep, show | network, database | the best answer is the one kept, and nobody waits in vain | `LyricsRace`, `Lyrics` |
| Account (guard, session, cookies) | session, rests, turn, lent cookies | sign in, check, call, lend | YouTube Music | rests are kept; an answer touches its own session only | `Account` |
| Imports (`playlistimport`) | jobs and rows, the request out, the rest | start, pause, resume, cancel, review | YouTube Music, sources, library | one request at a time, none in a rest; the source's order in the playlist | `Imports` |
| Sleep timer, instance guard, just played, artwork cache | deadline; lock; kept radios; requests | | | | planned |
| Recommender, alignment, sound effects, list models, desktop integration, QML | numbers, formatting and views | | | | not modelled |

The hard behaviours: links that arrive and are then refused; mpv's flag and
property that lag each other; a radio answer that comes after the listener has
gone elsewhere; a shuffle laid over a queue that goes on being edited; retries
that outlive what they were for; a crash between two writes; two computers
writing one file; a lookup joined, called off and asked again by two parties.

## Modules

Constants are parameters with the bounds among them; a module's state is one or
a few records named after the object whose members they hold, and its actions
are the object's handlers. Where the code's helpers call one another the
operators take and return the whole record. Numbers that grow in the code
(uids, generations, entries) are bounded, or stood for by something a model can
compare: a request outlives the generation it was sent under exactly when its
`live`, `mine` or rung says so.

### The music playing

- `QueueModel` - the queue as a record and one operator per `QueueModel`
  method. `std::shuffle` and the stable sort of `restoreOrder` are given as the
  set of results they can have. Rows count from 1; 0 is the code's -1.
- `PlayQueue` - one action per controller call that changes the queue
  (`startQueue`, `playNext`, `addAllToQueue`, `removeFromQueue`, `moveInQueue`,
  `pruneRadio`, `clearUpcoming`, `setShuffle`, `playIndex`, the radio's answer
  in `radioReady`), over `queue`, `shuffle` and `track`.
- `PlayOrder` - the queue as the listener thinks of it: the song playing
  (`now`), those still to come (`ahead`), which of them comes before which with
  shuffle off (`before`), and the uids given out (`used`). Songs start, are
  listened to, queued together, dropped, or moved one at a time; shuffling and
  unshuffling are no step of it. `PlayQueue` is proved to implement it.
- `UpNext` - the transport, a row being only where its sound comes from.
  `player` holds the controller's members, mpv's pause property, what the engine
  last heard of it, and what mpv does with the file last asked for. mpv's
  reports are steps of their own (`PauseReported`, `RunsOut` before
  `HandleEndOfFile`), so a press can come between what mpv did and what the
  controller knows. The rungs of the source ladder are one (`rescued`).
- `Session` - `PlayQueue` together with what the settings hold of it: the queue
  (`saveQueue`, two seconds behind), the place in the song (every five seconds
  heard) and the shuffle flag (at once). Quitting writes all three, a crash
  none; `Launch` is `restoreSession` and then the library's load.
- `Rescue` - what `UpNext` leaves out: one song's plays, the link each plays
  from, links mpv refuses (`retryRefused`), the stream that stops short
  (`resumeEarlyEnd`), the resolver's cache, rescue links and memory of refusals,
  and the move to JioSaavn's copy once it is found, compared and offered.
- `MpvEngine` - loads numbered as `m_loadRequest` does, libmpv as a queue of
  commands and a queue of events (external), each event handled as `drainEvents`
  handles it; and the effects' chain: written before a load, verified, given up,
  and a song it may have failed played again without. `PlayerPromise` is what
  the header promises of it - every word is of the file last asked for - and
  `MpvEngine` is proved to implement it.
- `Takeover` - the second player of `startUpgrade`: opened ahead, aligned, faded
  in and settled, over the listener's pauses, seeks and volume. `m_paused` lags
  the song's own pause property by a step.

### What is fetched

- `StreamLadder` - `StreamResolver`'s walks: `ladder.job` holds each song's,
  `holder` and `waiting` the turn at yt-dlp, `asked` the one song the
  controller waits for. `Exhausted` (a rung failed) may enter a rung, which may
  preempt, which may launch. A stale answer is no step, since the code drops it
  by its generation, and the model's rung stands for the generation.
- `Downloads` - `dl` the manager's members, `disk` the files of each song in
  each folder, by kind (parts, intermediates, finished ones), `db` the two
  tables. JioSaavn's copy first, then yt-dlp; every cancel, fall-back, retry,
  removal, change of folder, lost or returning yt-dlp, quit and crash; and the
  listener, who carries files off.
- `AppUpdate` - the copies in place, staged and put aside; the program with its
  phase and what is under way for it; the helper of either system, one state per
  move it makes, ended at any of them; and what is left in files between them.

### The library on several computers

- `LibraryMerge` - `librarybackup.cpp`'s merge of each kind of thing: kept ones
  (liked songs, saved albums and playlists merge alike), a playlist's songs and
  their order, plays and the History made of them, turn-downs, and tombstones,
  with clocks that may run ahead. `Merge` is the function of the code; the
  listener's edits are the actions.
- `DriveSync` - every computer's sync as a run of steps, each one request of
  Drive's, over one file that others read and write between any two of them. A
  library is the set of things done to it, a merge their union: `LibraryMerge`
  is where the merge is shown to agree with itself.

### Around the song

- `Scrobbler` - each listen that counts is a row; `rows` is the table, `app` the
  object's members, `saved` the two stores a session is kept in, `air` the
  requests out and `lastfm` what Last.fm has answered for. A request is sent,
  answered at Last.fm, and the answer arrives or does not, and any of these may
  come after its session is over or the program was started again.
- `LyricsRace` - one race as a record, and the race's own functions: what each
  provider has answered, the patience window, decide, offer, abandon. `Lyrics`
  starts races and takes their events: the view (`display`, `checkAgain`), the
  queue's lookups, joins, and the store with its provisional rows. What the
  providers have is `truth`, so that "the best" means something.
- `Account` - the guard (`accountguard.cpp`), the session (`ytmsession.cpp`) and
  InnerTube's `send` between them. `acc.air` are the calls waiting or out; a
  call remembers whether the session it was asked for, and the one it carries,
  is still held. `owed`, `refusals`, `proved` and `top` are what YouTube asked
  for and gave, kept apart from what the program believes.
- `Imports` - `imp` is the database's jobs and rows with the object's members:
  the timer, the request out, the song searched for, the rest YouTube Music is
  given. `Step` is `step` with all it calls; a page's rows, its job and its
  songs are three writes, and the program may end between any two. `owed` and
  `turned` are what YouTube asked for. The review's choices, and a playlist
  deleted under its import, are the listener's.

### Checked together

`MCLists`, `MCPlaying`, `MCFiles`, `MCEnds`, `MCLibraries` and `MCAround` each check
several modules in one run: `part` picks which of them a behaviour is about, and
the others stay as they begin. No behaviour mixes two parts, so each is checked
as it would be alone; a property of such a module is the conjunction of its
parts'. `MCFiles` holds two instances of `Downloads`: the one it extends has two
songs and one folder, `Moved` one song and two folders. Where two parts do meet in the program, one module holds both:
`Session` extends `PlayQueue`, `Lyrics` extends `LyricsRace`, `Rescue` has the
resolver's side of a song beside the controller's, and `Account` holds the
guard, the session and the calls. Each of them extends a module that has
theorems, so that TLC evaluates the assumption those theorems make and checks the
very property they state.

## Runs

| Run | Instance | Shows |
|---|---|---|
| `lists` | queue: 4 rows, 5 uids; imports: 4 songs with a repeat, reviewed; two imports one after the other, of each kind, over a restart | the queue's invariants and action properties over every sequence of calls, and that it implements `PlayOrder`; imports ask gently, go on, and keep the source's order |
| `playing` | session: 3 rows, 2 kept; transport: 3 rows, 2 failures; `Rescue`: 2 plays; mpv: 3 loads, 1 seek; takeover: a song of 5 steps, 3 aims | no quit loses the session; a queue that fails is not walked through; a play ends over its links; events of older files go nowhere; a move neither skips, repeats nor changes the volume |
| `files` | links: 3 songs, one lookup an hour; downloads: 2 songs and tools that come and go, or 1 song over 2 folders; an update on either system | turns, rows, files and the update's hand-over |
| `ends` | 2 songs each, 2 computers, fairness | what sounds is what was asked for; the player settles, links are answered, downloads start, the libraries come to agree |
| `libraries` | 2 computers, 1-2 songs, 1-3 seconds; Drive's file written 2-3 times, 1 fault | merges agree and undo nothing; what is recorded of Drive is true |
| `scrobbler` | 2 accounts, 3 listens, a queue of 2, 2 requests out, fairness | nothing heard is lost or sent as someone else; nothing sleeps; the queue runs empty |
| `around` | lyrics: 2 providers over months of launches, 2 songs in a queue, in turn, or with a third; account: 2 launches, rests of up to 2 hours; rotated cookies over a new sign-in | nobody waits in vain, the best is kept; rests are kept, one call at a time, one session at a time |
| `stop_is_kept`, `flag_follows_mpv` | 2-3 rows | what the code does against what its comments say (findings) |
| `no_order_without_shuffle` | 3 rows | a crash between two writes (finding) |
| `backlog_goes_elsewhere` | `scrobbler`'s with sign-ins cut | a crash between two writes (finding) |
| `cancel_is_over` | 1 song | a download that ends as it is cancelled (finding) |

### Bounds, and why they are enough

*Queue.* Four rows hold one song before the current one, the current one and two
to come, which is what shuffle, move and the radio's marker tell apart; the uid
bound cuts off long histories only. Songs chosen have no video, so that the two
the radio may add are all that pruning and repeats can meet.

*Imports.* Four songs, one of them twice, are settled in every order the review
allows. Of two jobs one holds the other, is passed by it when paused, and may be
refused while the other waits; one search an hour, or two, meets the cap and a
refusal both. One restart falls anywhere, in the middle of a page's writes too.
An import's end is not among the liveness properties: a listener who resumes a
refused import for ever forgets its refusals each time, and no fairness the code
gives ends that. `ImportsGoOn` is the invariant behind it.

*Transport.* Three rows and a limit of two failures (the code's is three) let a
queue be walked past its limit if it could be. The radio's batch is 2 rather
than 25: one song and more than one is all the controller distinguishes.
Songs kept on disk come in the lists played; the listener queues ones to resolve.

*One song's links.* Two plays: a link remembered of the first meets the second.
`MostLinks` (10) bounds nothing in the model; it is the property.

*mpv.* Three loads leave two older files whose events can be still unread. The
bound counts the engine's own reload without effects too. `film` and `noise` are
left out of this instance, see below.

*Takeover.* Five steps of a song with a lead of two: a seek can pass the point
aimed at, come before it, or leave no room for another; three aims is one more
than a seek's and a pause's.

*Links.* Three songs are the one playing, the one fetched ahead and one whose
lookup is in the way. An hour's limit of one lookup, counted up to two, is
enough to exceed it.

*Downloads.* Two songs under one slot, one of which JioSaavn is asked for: every
way the first ends must start the second. Folders need only one song.

*Update.* `Meddles` (opening Monolist by hand while the helper works) is off,
see below; the helper may be cut off at every step.

*Library.* Merging is shown kind by kind, for no kind's tables touch another's.
Two seconds are an edit and a later one, three an edit, its undoing and a redo;
ids break ties, so two songs need one second only. What a time may be ahead and
still count (`Slack`, the code's `kFutureSlackSecs`) is one second; a clock ahead
is ahead by that second, and what it writes is taken by the other computer, or by
more, and it is left out until due (`Aheads`): things kept have both, turn-downs
the first, a playlist the second. It is set right at some time. Plays, and the
order of a playlist of two songs, are of right clocks.

*Drive.* Two computers, one thing done, and the file written as often as both
can answer each other. Faults are counted together, and one is enough for each
to fall between any two steps of a sync.

*Scrobbles.* A queue of two under three listens has to be trimmed while a
request is out; two requests let a late answer of an ended session meet a live
one; the second listen is one Last.fm never takes, so that a batch holds a good
row and a bad one.

*Lyrics.* The program has two providers, one reaching timed lines, one plain
text; the third stands for one asked only when the others have nothing. Launches
come soon, days or months after: the ages the store tells apart.

*Account.* One call of the listener's besides the two of a check may be out, an
outlived one and the next; the longest rest is two hours, so that the second
refusal's is longer than the first's. Rests and cookies are checked apart: what
a session's cookies are does not depend on a rest.

### Fairness

In `ends`, and the same is stated in the modules:
the resolver and the radio answer or fail (each request has a timeout), mpv
opens a file or fails it (its network timeout), and the event loop delivers what
is queued. The listener is under no fairness, and the property is about one who
has stopped pressing. A song's end is not assumed: a stream may be endless. Each
song's rung answers or fails while it is being asked (every rung has its own
limit: 8 s for the public instances, 12 s for yt-dlp), and the posted
`pumpYtDlp` runs. JioSaavn's finder answers and a transfer ends (its own time
limits, yt-dlp's retries). Drive's timers fire, its requests are answered or
fail by timeout, and a listener signed out signs in again - `AllTheSame` says
nothing of a computer that never does.

In `scrobbler`: timers fire, a pause ends, and a request is answered or given up
(it has a timeout); and, strongly fair, requests sent again and again are now and
then answered for good and the answer gets through. Without that Last.fm may
refuse everything for ever, and the queue rightly waits. The property is about a
listener who leaves the settings alone, with a session Last.fm accepts.

## Proofs

Each theorem holds for every value of the constants that meets the module's
named assumption, which TLC evaluates on the run's values. Each rests on an
inductive invariant, named below, because what a run checks is seldom inductive
as it stands.

### The queue

`QueueProofs` goes from the queue's operators to the launches of the app, in four
parts. Part 1 states each queue operator's effect as lemmas, which part 2 uses,
for every set of videos, every list and every bound:

- `TypeCorrect`, `TheCurrentRowPlays`, `OneRowPerUid`, `TheOrderIsOfTheQueue`:
  the safety invariants of run `lists`;
- `ShufflingRearranges`: an action property of the same run.

`IInv` joins the invariants with: uids are below `m_nextUid` and distinct, the
kept order's uids are distinct and of rows, and the current row is a row
exactly when there are rows. Distinctness is needed because insertion and
removal look rows up by uid; the bound because a new uid must differ from those
in use. It is kept in two parts, because only the first outlives a crash
(finding `no_order_without_shuffle`): `Standing`, all of that, and
`OrderIfShuffled`, that there is an order only while shuffled. `NextKeeps` says
each call keeps the first by itself.

Part 3, from the same invariant:

- `ThePlanIsKept`: `PlanIsKept`, both that no call but a move swaps two songs to
  come, and that "play next" is next;
- `QueueKeepsItsPromise`: `ImplementsPlayOrder`.

`Comes(q, u, v)` says by uids what `PlaysBefore` says by rows: u is known to the
kept order and v is not or comes later in it, or both are unknown and u's row is
above v's. One lemma per operation says what it does to `Comes`
(`KeepsOrder`: nothing, among the songs that stay), and the refinement takes
from it which step of `PlayOrder` each call is. That shuffling is none rests on
`StableSorts` giving back exactly the order noted.

### The session

Part 4 of `QueueProofs`, for every library, every number of rows kept and every
crash:

- `TheSessionIsKept`: `SessionIsKept` of run `playing`, both that a launch after
  quitting opens on what was left, and that no launch opens in the middle of a
  song that was not heard that far;
- `SessionTypes`: the session's part of that run's type invariant.

`SessionInv` joins `Standing` with what the disk is owed: a place in the middle
of a song is one heard of it (`Heard`); and unless the app crashed, the flag on
disk is the one in use, and the snapshot, if no timer is to write it, is either
of this queue or what this queue was launched from (`Saved`). The second case is
needed because a launch counts its rows afresh and writes nothing. What the
snapshot and the launch do to the rows is said by `SnapshotIs` and `LaunchedIs`:
a window of rows that holds the current one, and an order that names the rows
the queue's did, in the same order. So rows sort alike in the two queues
(`SameSorts`), rows sort in one way (`OneSort`), and turning shuffle off brings
the same songs back in the same places (`SamePlan`).

### The transport

Part 1 of `PlayerProofs`, for every list of rows, whatever the radio brings and
every limit:

- `OnlyWhatIsAskedSounds`: `SoundsAsAsked` of run `ends` - nothing else is loaded
  while a song is looked for or has failed, the bar never says playing after mpv
  told of a pause, and what the sleep timer stopped stays stopped, unless the
  radio's answer starts the next song: with `m_waitingForRadio` left set it does,
  which is finding `stop_is_kept`;
- `TheWalkStops`: `UpNext!WalkStops`, which run `playing` checks beside the
  rescues' end in `NothingGoesRound`: no more than `MaxFailures` songs that will
  not play are gone through by themselves;
- `PlayerTypes`: the transport's part of that run's type invariant.

`IInv` joins them with: a file or a search is for a row of the queue; while the
timer's stop lasts nothing is wanted and what is loaded is paused (`Quiet`: a
late link, a rescue or a failure asks `m_autoPlayAfterResolve` before it sounds;
the radio's answer does not, and `asleep` says when it has ended a stop); and no more songs
were skipped since a sound or a press than have failed, which is less than the
limit each time one is skipped. `BegunIs`, `AdvancedIs` and `FailedIs` say what
each of the controller's three ways on to another song leaves of a player.

### mpv

Part 2 of `PlayerProofs`, for every number of loads and seeks:

- `EngineKeepsItsPromise`: `KeepsPromise` of run `playing`, that is, every step
  of `MpvEngine` is one of `PlayerPromise` or says nothing, and no song mpv can
  decode is failed for its effects while they are wanted;
- `EngineTypes`: the engine's part of that run's type invariant.

What makes it true is the order libmpv reports in, and `EngineInv` is that order:
what is told of one file lies between its start and its end and before the next
one's start (`InTurn`), a load is answered after all told before and before its
start (`Answered`), what the engine has read as started is no later than what it
has still to read (`BegunBefore`), the file open is the latest to have started
(`Open`), and files still to come are later than all of it (`Coming`). Hence the
entry the engine matches by is known before its file's first event is read
(`Known`); and whatever is left of the latest entry is of what was last asked,
and is not over (`Latest`). For the effects: until a file has sounded, a load
without them is left to try (`Unheard`), the filters given are those wanted
(`Given`), and a sound that can be decoded is set up before it can fail
(`SetUpFirst`), which is what `chainCouldFail` goes by.

### The second player

`SongProofs`, for songs of any length, any lead, room and number of aims, and
crossfades of any number of steps (`Bounds`, the engine's own numbers, is a
hypothesis of each theorem):

- `TheVolumeIsTheListeners` and `TheyKeepInPlace`: `Takeover!VolumeIsTheListeners`
  and `Takeover!SwapsInPlace`, which run `playing` checks in `MoveIsSound`;
- `TheSwapIsNotHeard`: the step that swaps the players leaves volume, and the
  place of a song that plays, as they were;
- `TakeoverTypes`: the takeover's part of that run's type invariant.

`Good` joins the two invariants, said of the song, the engine and the second
player together, with: the one step scheduled is that of the phase, and a
crossfade has its last step left; the new player sounds from some time in its
alignment on, when its seeks are answered, and beside a song that was not paused;
and seeks not yet answered are no more than aims. It is stated of a record, not
of the variables, because one step runs several of the engine's functions:
`Unheard` is what holds of a takeover between them.

### One song's links

The second part of `SongProofs`, for any number of plays of the song:

- `LabelsAreTrue`, `OffsetsAreTheLinks` and `StandardIsKept`: `Rescue!LabelIsTrue`,
  `Rescue!OffsetIsTheLinks` and `Rescue!StandardStays`, which run `playing` checks
  in `MoveIsSound`;
- `LinksAreFew`: one play is given twelve links at most;
- `RescueTypes`: this part of that run's type invariant.

The label and the offset are inductive as they stand; that Standard stays is so
with what stops a move, that one under way is the controller's (`moving`). The
rest of `PlayInv` is what the number of links rests on: a walk is of the song, of
the ladder or of rungs with InnerTube first if at all, and a link of a rung is not
waited for while it plays (`Asking`); the move is offered once a play, from a link
of YouTube's, and not after JioSaavn's was refused (`MovesOnce`); and JioSaavn's
link is refused once a play, being asked for again only after it played and
stopped short (`SaavnIsSpared`).

`LinksAreFew` is by a measure, `LinksLeft`: what a play may still be given, which
each link given, refused or cut short pays for. Beside the rungs not refused yet
it counts the walk under way or the link playing - InnerTube's own may be asked
for again once, a link from memory may be refused in vain, and so may one of a
rung refused before - three links for the one early end a play is carried on
after, three for JioSaavn's one refusal, and one for a link being prefetched,
which may put back into memory what a refusal took out. A play begins with all of
it, which is twelve. `MostLinks`, the ten `NothingGoesRound` checks, is the exact
number for two plays and stays with the run: the measure counts some links that
exclude each other.

### Last.fm

The first part of `RequestProofs`, for every number of accounts, listens and
requests and every size of queue and batch:

- `NothingIsLost`: `NothingHeardIsLost` of run `scrobbler`. `LossInv` joins it
  with: rows have their ids to themselves, and what a pending answer will remove
  Last.fm has answered for. That a trimmed row has a whole queue after it rests
  on `FewBetween`: there are no more rows above an id than ids.
- `NothingSentAsSomeoneElse`: `SentAsItsOwn`, assuming that no sign-in is cut in
  two, which `backlog_goes_elsewhere` shows to be needed. `OwnInv` joins it
  with: a key held or kept opens the account named beside it, and a request
  carries rows of the account its key opens.
- `QueueIsBounded`: `TypeOK`, with the queue never above `MaxQueued` (`SizeInv`:
  each listen written is trimmed for in the same call).
- `NothingIsLeftAsleep`: `NothingSleeps`. `WakesInv` joins it with: keys are not
  given out again while a request carries one (`KeysInUse`), at most one request
  can still be answered to the object (`OneOut`), and listens that could go wait
  for a timer, the network or an answer (`NothingWaits`).

### Imports

The second part of `RequestProofs`, for any number of imports and rows, of any
kinds, and any limits of searches and rests. `ImportsBounds` is all it assumes of
the constants: jobs are numbered from 1, as `import_jobs` numbers them, and the
limits are numbers. The invariant is `Good`:

- `Steady`: the request out is counted (`OneAtATime`), a run is the active job's
  (`RunIsActive`), and the program is busy while it asks (`BusyWhileAsking`).
- `Counted`: the rest that is kept is as long as the one YouTube asked for, and
  as many refusals are counted. It is what makes a search during YouTube's rest
  impossible: an answer is heard by whoever asked, or else by every import
  (`Overheard`), so neither count is ever behind.
- `DownIsOff`: nothing is out while the program is down. A launch starts from
  this.
- `GoesOn`: what goes on by itself has the timer, or an answer to come that
  starts it.

From it follow `ImportsStayGentle` (`ImportsAreGentle`), `ImportsAlwaysGoOn`
(`ImportsGoOn`) and `ImportsTypes`, the three that run `lists` checks of its
sources.

`ImportsFollowTheirSources` is `FollowsTheSource` of every import whose songs are
searched for, when sources list songs (`SourcesListSongs`). Its invariant,
`Ordered`, has a playlist hold the songs of the rows found, once each and in
order, unless one is that of two rows with others between them (`Follows`), and
the row searched for still be pending (`Waits`): a song is never found for a row
twice. `PlacedFollows` is the step that counts: behind the last song of an
earlier row is the right place. A YouTube list's songs are put in by a fold and
stay with the run.

### The account

`AccountProofs`, for rests and launches of any number and length and any number
of rotations:

- `AccountGuardKeepsItsPromise`: `AccountIsSpared` of run `around`;
- `SessionKeepsItself`: `SessionIsItsOwn` of the same run;
- `AccountTypes`: every member keeps to its values.

`Sound` is the invariant between handlers and `Mid` the one inside them, since
an answer is taken in several calls of the object and what holds of a handler's
end does not hold half way. `Half` and `Hearing` are the states of a guard that
has answered while its caller has not yet been told.

### Downloads

`DownloadsProofs`, for any number of songs and folders, any kinds of file and any
limit of downloads at a time, with every surprise of `Surprises`:

- `RowsStayKept`: `RowsAreKept` of run `files` - rows, `m_pending`, the running
  jobs and the saved queue tell one story, and a song that waits while there is
  room has somebody to start it;
- `NothingGoes`: `NothingIsThrownAway` of the same run, two action properties - a
  finished file goes with its song's removal, by the listener's hand, or with the
  failed attempt it came from, and otherwise stays; and nothing is written over a
  queue that has not been put back. JioSaavn's `finish()` is left out by name
  (`Replacing`): it removes the file that has the song's name before its own is
  there, and refused the rename and the copy, or cut off between, it leaves none;
- `DownloadsTypes`: the downloads' part of that run's type invariant, with no more
  than `kMaxConcurrent` running.

`MovedIsKept` of that run is the same of an instance with two folders, which the
theorems cover.

`IInv` joins the invariant with: each song's state says where it is, `m_pending`
and the rows name no song twice, and nothing is there before the last queue is put
back (`Whole`); and the queue on disk names each song once (`Keyed`), since it
becomes the rows of the next launch. That the queue on disk is the queue as it
stands (`Current`) holds only while no save is due, and every `Touch` makes one
due. The handlers call one another, so the invariant is said of the record they
hand on (`Handled`): a helper takes a manager that is whole but for one song and
settles that song (`SettledIsWhole`), and `PumpDoes` says what `pump` leaves of
it. `Spared` is what a clearing of a song's files may take of the finished ones.
The places a queue's rows have among those not yet stored are counted by `Only`;
`OnlyPicks` says that it picks each once, in their order.

### An update

`AppUpdateProofs`, for either system, and wherever program, download or helper
are cut off, assuming that Monolist is not opened by hand while the helper works
(`Meddles = FALSE`; with it two of the properties are false, see below):

- `UpdateIsTrueThroughout`: `UpdateIsTrue` of run `files`;
- `UpdateStrandsNobody`: `UpdateNeverStrands` of the same run, three action
  properties. Two of them leave out by name a new copy on Windows that ended with
  exit code 0, which its helper takes for started (`helper = "exited"`);
- `UpdateTypes`: the update's part of that run's type invariant.

`IInv` joins `PhaseIsTrue` with: what is staged is a new copy; the program that
runs is the copy in place, and only an old one with its window up updates itself
(`ProgramIsWhole`); the file being got ready, or ready, matched its checksum and
is staged (`FileIsGood`); the last word left fits the copies as they stand
(`ResultStands`); and of each state of the helper, which copy is in place, staged
and aside, and that nothing runs while it moves them (`HelperStands`) - that is
what lets it be ended after any move. The action properties are proved of each
step by what it keeps: the old copy, the staged copy, and a way back.

### Drive

`DriveSyncProofs`, for any number of computers, things done, versions written and
faults:

- `WhatIsSavedIsTrue`: `SavedIsTrue` of run `libraries`. What a computer has
  recorded of the file is what the file holds for as long as it is that version;
- `WhatIsTakenForSentIsSent` and `WhatIsHeldIsLeftAlone`: `SentIsAll` and
  `HeldIsLeftAlone`, which that run checks in `NothingIsUndone`. The second says
  that only SYNC NOW, signing out and signing in end what an unreadable file
  began: no timer, edit, launch or other computer clears it or starts a sync;
- `SyncTypes`: the sync's part of that run's type invariant.

A version once given is never given again, so another computer's step leaves a
file as it was or makes a version nobody has recorded (`Benign`), and what is
remembered of an older one stays true of it. `IInv` says of each computer by
itself, half way through a sync too: what is saved is in the library and, while
its version is there, in the file (`Remembered`); what was read of the file kept
is what that version holds (`ReadIsTrue`); what is sent is the library as it was
noted, how plays ended aside, unless an edit was told of since (`SendsAll`); and
the version an upload was answered with holds what was sent (`Landed`). That a
held computer stays so needs no more than that it does not run (`HeldIs`):
`requestSync` arms no timer then and `startRun` starts nothing unless told to.

## Model-checked only

- Liveness: the properties of `ends`, and the queue of scrobbles running empty.
  The prover does not reason about fairness.
- `StreamLadder` (run `files`): its walks are recursive operators, which cannot
  be proved about.
- `LibraryMerge` (run `libraries`): merging is a fold over the tables, and what a
  fold computes for every table is an induction over data.
- `DriveSync!WhatIsInDriveIsTheLibrary` is checked for two computers and one thing
  done, and is claimed of no more than two: of three it is false, see below.
- That a play is given ten links and not twelve (`Rescue!RescuesEnd`, run
  `playing`).
- Of `lists`: the playlist of a YouTube list, whose songs `Imports!FromSource` puts
  in by a fold (an induction over data).
- Of `around`: the lyrics. `LyricsRace` decides and gives up by folds over its
  providers (`Pass`, `Passed`), so what a race does is an induction over data.

## Seen while modelling

Besides the findings of the runs, each met in the model or beside it. Where a
module states it as a definition no run checks, it is named.

*The queue and the transport.*

- A song moved while shuffled to just after one the kept order does not know is
  remembered at the end (`queuemodel.cpp:267`), and comes back before it.
- A song queued while shuffled is remembered after the radio's (`queuemodel.cpp:190`),
  though "what you queue goes ahead of what autoplay found".
- `UpNext!WaitingAtTheEnd`: `playIndex`, `previous` and a song queued leave
  `m_waitingForRadio` set (`playbackcontroller.cpp:1315`); the radio's answer then
  plays the row after the current one, cutting off the song the listener picked.
- `setAutoplay(false)` cancels the radio a queue waits for and leaves it waiting
  (`playbackcontroller.cpp:2816`).
- The radio's answer starts its song aloud for a listener who has paused
  (`playbackcontroller.cpp:670`); so does `resumeEarlyEnd`, which wants sound
  whatever was pressed meanwhile (around `playbackcontroller.cpp:2415`).
- After the sleep timer's stop, Next before the next link arrives plays the song
  after it (`playbackcontroller.cpp:2538`).

*mpv.*

- `Takeover!NothingBesideAPause`: `beginTakeover` reads `m_paused`, which mpv's
  word on a pause just made has not reached, and the second player sounds beside
  the paused song for a moment.
- An end with an error of the old file while it is being faded out is told of as
  a failure although the new player goes on.
- `MpvEngine!EffectsAtFault`: a film with a picture and no sound, tried without
  effects, plays, and the effects are switched off for the session as if they had
  been at fault.
- If the effects are switched off while the failure they caused is unread, the
  song is not tried again; hence the condition in `ChainNeverCostsTheSong`.

*What is fetched.*

- `launchSignedIn` counts a lookup without asking the hour's limit
  (`streamresolver.cpp:883`): stopped and started again, it exceeds it.
- JioSaavn's `finish()` removes a song's file before its own is in place
  (`saavndownload.cpp:345`), though "a copy of the same song already under that
  name ... is replaced only by this complete one": both can be gone.
- A new copy on Windows that ends with exit code 0, having opened no window, is
  taken for started and the old one cleared away (`appupdater_win.cpp:142`), though
  the helper waits for "the word it leaves" (`appupdater.h:149`).
- With `Meddles`, an old copy opened by hand while the helper waits leaves the
  word "started" that the helper takes for the new one's: `OldUntilNewStarts`
  fails, and so does `HelperOwnsStaged`, the housekeeping of that copy's launch
  taking the staged one.

*The library.*

- `LibraryMerge!TwiceIsOnce`: of two edits of one playlist in the same second,
  merging the same file again can change the order again (`librarybackup.h:28`).
- A turn-down made again in the second of its undo is dropped by the next merge:
  its tombstone is not withdrawn (`recommender.cpp:1215`). One dated ahead by a
  clock since set right, and taken back before that date, has a tombstone earlier
  than itself and comes back with the next merge (`librarybackup.cpp:1380`).
- Of the guards of `requestSync` and `startRun` on a held file each is enough
  alone, no timer being armed while it is held (`drivesync.cpp:714`, `736`).
- `DriveSync!EveryPlayIsInDrive`: how long a play was heard is written without
  telling Drive sync (`main.cpp:912`), and waits for the next edit or play.
- Of three computers, one at rest may hold what is not in Drive: the first lists
  and reads both of two copies, the second writes one of them, the third merges
  that and fails to send, and the first deletes it (`drivesync.cpp:969`). The third
  still sends when its timer comes. `WhatIsInDriveIsTheLibrary` is of two.
- A file that goes while a sync runs is looked for again, but what was noted of
  the library before is kept (`find`, `drivesync.cpp:760`). `SentIsAll` leaves
  such a run out.
- `DriveSync!NeverOverwritten`: a newer Monolist that writes the file between an
  older one's listing and its upload is overwritten (`drivesync.h:37`).

*Last.fm.*

- The daily limit is not kept across a launch, and a row refused alone for
  another reason than 6 holds back those behind it (`scrobbler.cpp:887`).

*Lyrics.*

- One at a time (`lyrics.race=serial`), `checkAgain` hands the race what is on
  show as the answer kept, and a row kept for good can give way to a stand-in.
- With a third provider that the queue's lookups may not ask, what they keep "for
  good" was never asked of it; `BestLyricsAreKept` is of the program's two.
- Another recording's words are read back from the database as plain text.

*Imports.*

- A preview's refusal is not counted as one, and its answer, asked before a
  search was refused, ends that refusal's rest (`playlistimport.cpp:437`).
- A crash between `addAt`'s two writes leaves the song at the playlist's end.
- A song the source has twice, around two others, or that two rows around two
  others are both given: found for the later row first, it stands there in the
  playlist and counts for the earlier row, and the first of the two others then
  goes in behind the second. "Into the playlist at the song's place in the
  source's order" (`playlistimport.cpp:2070`) does not hold then;
  `FollowsTheSource` says when, and the proof needs no more.
- A song already in the library is matched again after NOT THIS (`findNext`).

*The account.*

- After a rest that ended while the computer slept, `admit`
  (`ytmsession.cpp:1081`) looks at `m_needsCheck` before the guard notices that
  the rest is over: one call goes before the check that was to come first
  (`ytmsession.cpp:150`).
- A doubt while a check is under way starts none, and that older check's answer
  clears it.
- `checkAccountWarning` (`streamresolver.cpp:988`) doubts the session held, not
  the one whose cookies were lent.
- An answer that rotated the cookies, outlived and overtaken, puts back the older
  rotation.
- `ytmsession.h:74` speaks of 120 songs an hour, `accountguard.h` of 15.

## Plan

1. Proofs: the ten links of `Rescue`.
2. InnerTube's slots and hedged player requests; the instance guard's lock and
   hand-over; the sleep timer and its fade in front of `UpNext`; the time heard
   of a song (`ListenTracker`) in front of `Scrobbler`.
3. Just played's kept radios; the artwork cache.

## Not modelled

Titles, artwork, wording and logging; numerical code (loudness, alignment,
embeddings, scores); page parsers; the operating system's windows, key stores
and media keys; QML. More than a quarter of the
implementation's lines are self-tests (`*selftest.cpp`, and `main.cpp`'s
switches for them), and much of the rest reads YouTube's pages, matches titles,
formats or computes: none of it is a protocol, so the share of all lines that
has a model stays small. Components
still planned are listed as such in PROJECT.json.
