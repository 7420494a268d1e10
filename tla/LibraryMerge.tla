---------------------------- MODULE LibraryMerge ----------------------------
(***************************************************************************)
(* The library kept the same on several computers (librarybackup.cpp): a   *)
(* file of it written on one and merged on another, what is taken out kept *)
(* as a tombstone with its time, and what the listener does in between     *)
(* (library.cpp, and the controller's and recommender's records of plays). *)
(* Times are whole seconds of the computer's own clock, 0 standing for     *)
(* never; two things may bear the same second.                             *)
(***************************************************************************)
EXTENDS Integers, Sequences, SequencesExt, FiniteSets

CONSTANTS
    Computers, \* the computers with a copy of the library
    Songs,     \* songs, as numbers: some orders are by their ids
    Things,    \* liked songs and saved albums and playlists, which merge alike
    Does,      \* what the listener does here: of {"keep", "list", "order", "play", "down"}
    Fast,      \* the computers whose clock runs ahead until it is set
    Aheads,    \* by how much it may
    Slack,     \* how far ahead a time may be and still count (kFutureSlackSecs)
    EndOfTime  \* bound: the clock's last second

VARIABLES
    lib,       \* each computer's library
    file,      \* the file last written, on Drive or carried across
    clock,     \* the right time
    ahead      \* how far ahead each computer's clock is

library == <<lib, file, clock, ahead>>

Later(a, b) == IF a > b THEN a ELSE b
At(times, k) == IF k \in DOMAIN times THEN times[k] ELSE 0
Without(times, ks) == [k \in DOMAIN times \ ks |-> times[k]]
With(times, k, value) == [j \in DOMAIN times \union {k} |-> IF j = k THEN value ELSE times[j]]

\* The computer's time, and latestTrueTime: the latest that counts as true there.
Now(c) == clock + ahead[c]
Latest(c) == Now(c) + Slack

NoList == [at |-> 0, name |-> 0, entries |-> <<>>]

Nothing == [kept |-> <<>>, list |-> NoList, plays |-> <<>>, downs |-> {},
            removed |-> <<>>, recent |-> <<>>]

Init ==
    /\ lib = [c \in Computers |-> [Nothing EXCEPT !.list =
                  IF "list" \in Does THEN [at |-> 1, name |-> 1, entries |-> <<>>] ELSE NoList]]
    /\ file = Nothing
    /\ clock = 1
    /\ \E by \in [Fast -> Aheads] :
          ahead = [c \in Computers |-> IF c \in Fast THEN by[c] ELSE 0]

-----------------------------------------------------------------------------
(* The tombstones.                                                          *)

\* recordRemoval: now, or later if it is there as later, unless that is later
\* than can be true.
Removal(c, l, k) ==
    With(l.removed, k, IF At(l.removed, k) > Latest(c) THEN Now(c) ELSE Later(At(l.removed, k), Now(c)))

\* withdrawRemoval: one of this very second goes.
Withdrawal(c, l, k) == IF At(l.removed, k) >= Now(c) THEN Without(l.removed, {k}) ELSE l.removed

-----------------------------------------------------------------------------
(* What a file holds, and two copies made one.                              *)

\* (slip: what is dated later than can be true left in)
DueOrNot(l, ceiling) == [l EXCEPT !.recent = <<>>]

\* snapshot: without what is dated later than can be true.  parse leaves the same
\* out of a file read.
DueOnly(l, ceiling) ==
    [l EXCEPT
        !.kept = [k \in {j \in DOMAIN @ : @[j].at <= ceiling} |-> @[k]],
        !.list = IF @.at > ceiling THEN NoList
                 ELSE [@ EXCEPT !.entries = SelectSeq(@, LAMBDA e : e.at <= ceiling)],
        !.plays = [p \in {q \in DOMAIN @ : q[2] <= ceiling} |-> @[p]],
        !.downs = {d \in @ : d[2] <= ceiling},
        !.removed = [k \in {j \in DOMAIN @ : @[j] <= ceiling} |-> @[k]],
        !.recent = <<>>]

\* (slip: of two as late, the one already here)
ReplacesIfLater(theirs, mine) == theirs.at > mine.at

\* replaces: the later, and of two as late the greater in content.
Replaces(theirs, mine) ==
    IF theirs.at # mine.at THEN theirs.at > mine.at ELSE theirs.form > mine.form

\* A list's form is its JSON: its entries, each by its time and then its song,
\* then its name.  A comma sorts before the bracket that ends the entries, but
\* an empty list's bracket before any entry.
EntryGreater(e, f) == IF e.at # f.at THEN e.at > f.at ELSE e.id > f.id
FormGreater(theirs, mine) ==
    LET a == theirs.entries
        b == mine.entries
        differ == {i \in 1 .. Later(Len(a), Len(b)) : i > Len(a) \/ i > Len(b) \/ a[i] # b[i]}
        i == CHOOSE j \in differ : \A k \in differ : j <= k
    IN IF differ = {} THEN theirs.name > mine.name
       ELSE IF i > Len(a) THEN a # <<>>
       ELSE IF i > Len(b) THEN b = <<>>
       ELSE EntryGreater(a[i], b[i])
ReplacesList(theirs, mine) ==
    IF theirs.at # mine.at THEN theirs.at > mine.at ELSE FormGreater(theirs, mine)

\* (slip: the winner's songs alone)
MergedListOfOne(winner, other, gone) ==
    [winner EXCEPT !.entries = SelectSeq(@, LAMBDA e : e.at > At(gone, <<"entry", e.id>>))]

\* mergedPlaylist: the songs of both as a set, less those taken out since they
\* were added; the winner's name and order, a song only the other has going in
\* behind the one it followed there.
MergedList(winner, other, gone) ==
    LET times(s) == {e.at : e \in {f \in ToSet(winner.entries \o other.entries) : f.id = s}}
        latest(s) == CHOOSE t \in times(s) : \A u \in times(s) : u <= t
        stays(e) == latest(e.id) > At(gone, <<"entry", e.id>>)
        first == SelectSeq(winner.entries, stays)
        ids(s) == {s[i].id : i \in DOMAIN s}
        place(acc, e) ==
            IF e.id \in ids(acc.order) THEN [acc EXCEPT !.previous = e.id]
            ELSE IF ~stays(e) THEN acc
            ELSE [order |-> IF acc.previous = 0 THEN <<e>> \o acc.order
                            ELSE InsertAt(acc.order, 1 + (CHOOSE i \in DOMAIN acc.order :
                                                              acc.order[i].id = acc.previous), e),
                  previous |-> e.id]
        order == FoldLeft(place, [order |-> first, previous |-> 0], other.entries).order
    IN [winner EXCEPT !.entries = [i \in DOMAIN order |-> [order[i] EXCEPT !.at = latest(order[i].id)]]]

\* What was taken out: the later time of each, one here from the future giving
\* way to one that can be true.
MergedRemoved(mine, theirs, ceiling) ==
    [k \in DOMAIN mine \union DOMAIN theirs |->
        IF At(theirs, k) > (IF At(mine, k) > ceiling THEN 0 ELSE At(mine, k))
        THEN theirs[k] ELSE At(mine, k)]

\* (slip: the newest, whatever was taken out since)
MergedKeptAlways(mine, theirs, gone) ==
    [k \in DOMAIN mine \union DOMAIN theirs |->
        IF k \in DOMAIN theirs /\ (k \in DOMAIN mine => Replaces(theirs[k], mine[k])) THEN theirs[k] ELSE mine[k]]

\* Likes, and saved albums and playlists: the newest of the two copies, if newer
\* than its tombstone.
MergedKept(mine, theirs, gone) ==
    LET wins(k) == /\ k \in DOMAIN theirs
                   /\ k \in DOMAIN mine => Replaces(theirs[k], mine[k])
        winner == [k \in DOMAIN mine \union DOMAIN theirs |-> IF wins(k) THEN theirs[k] ELSE mine[k]]
    IN [k \in {j \in DOMAIN winner : At(gone, j) = 0 \/ winner[j].at > At(gone, j)} |-> winner[k]]

\* The playlist: gone if deleted since either copy's last change.
MergedLists(mine, theirs, gone) ==
    LET newest == Later(mine.at, theirs.at)
        deleted == At(gone, <<"list", 0>>)
    IN IF deleted # 0 /\ deleted >= newest THEN NoList
       ELSE IF theirs.at # 0 /\ (mine.at = 0 \/ ReplacesList(theirs, mine))
            THEN MergedList(theirs, mine, gone)
            ELSE MergedList(mine, theirs, gone)

\* (slip: what either heard of a play added up)
MergedPlaysSum(mine, theirs) ==
    [p \in DOMAIN mine \union DOMAIN theirs |-> At(mine, p) + At(theirs, p)]

\* Plays: each once, the most of it that either heard.
MergedPlays(mine, theirs) ==
    [p \in DOMAIN mine \union DOMAIN theirs |-> Later(At(mine, p), At(theirs, p))]

\* (slip: all of either's, taken back or not)
MergedDownsAll(mine, theirs, gone) == mine \union theirs

\* The turn-downs not taken back once they were made.
DownKey(d) == <<"down", d[1], d[2]>>
MergedDowns(mine, theirs, gone) ==
    {d \in mine \union theirs : DownKey(d) \in DOMAIN gone => gone[DownKey(d)] < d[2]}

\* (slip: History told of every play in the file)
MergedRecentAgain(mine, new, gone, brought) ==
    [s \in {p[1] : p \in new} \union DOMAIN mine |->
        [at |-> IF s \in DOMAIN mine THEN mine[s].at
                ELSE (CHOOSE p \in new : p[1] = s /\ \A q \in new : q[1] = s => q[2] <= p[2])[2],
         count |-> (IF s \in DOMAIN mine THEN mine[s].count ELSE 0)
                      + 2 * Cardinality({p \in new : p[1] = s})]]

\* History: emptied by the tombstones this merge brought, and told of the plays
\* it brought that are newer than those there are.
MergedRecent(mine, new, gone, brought) ==
    LET cleared == IF <<"cleared", 0>> \in brought THEN At(gone, <<"cleared", 0>>) ELSE 0
        forgotten(s) == IF <<"history", s>> \in brought THEN At(gone, <<"history", s>>) ELSE 0
        stay == {s \in DOMAIN mine : mine[s].at > Later(cleared, forgotten(s))}
        heard(s) == {p \in new : p[1] = s /\ p[2] > Later(At(gone, <<"cleared", 0>>), At(gone, <<"history", s>>))}
        come == {s \in Songs : heard(s) # {}}
        newest(s) == (CHOOSE p \in heard(s) : \A q \in heard(s) : q[2] <= p[2])[2]
    IN [s \in stay \union come |->
            [at |-> Later(IF s \in stay THEN mine[s].at ELSE 0, IF s \in come THEN newest(s) ELSE 0),
             count |-> (IF s \in stay THEN mine[s].count ELSE 0) + Cardinality(heard(s))]]

\* merge, in one transaction.
Merge(mine, theirs, ceiling) ==
    LET removed == MergedRemoved(mine.removed, theirs.removed, ceiling)
        gone == [k \in {j \in DOMAIN removed : removed[j] <= ceiling} |-> removed[k]]
        brought == {k \in DOMAIN removed : removed[k] # At(mine.removed, k)}
    IN [kept |-> MergedKept(mine.kept, theirs.kept, gone),
        list |-> MergedLists(mine.list, theirs.list, gone),
        plays |-> MergedPlays(mine.plays, theirs.plays),
        downs |-> MergedDowns(mine.downs, theirs.downs, gone),
        removed |-> removed,
        recent |-> MergedRecent(mine.recent, DOMAIN theirs.plays \ DOMAIN mine.plays, gone, brought)]

\* Export, or a sync's upload.
Write(c) ==
    /\ file' = DueOnly(lib[c], Latest(c))
    /\ UNCHANGED <<lib, clock, ahead>>

\* Import, or a sync's read.
Read(c) ==
    /\ lib' = [lib EXCEPT ![c] = Merge(@, DueOnly(file, Latest(c)), Latest(c))]
    /\ UNCHANGED <<file, clock, ahead>>

-----------------------------------------------------------------------------
(* What the listener does on one computer.                                  *)

Change(c, l) == lib' = [lib EXCEPT ![c] = l] /\ UNCHANGED <<file, clock, ahead>>

\* storeLike and setSaved.  The form is what this computer knows of it.
Keep(c, k, form) ==
    /\ k \notin DOMAIN lib[c].kept
    /\ Change(c, [lib[c] EXCEPT !.kept = With(@, k, [at |-> Now(c), form |-> form]),
                                !.removed = Withdrawal(c, lib[c], k)])

Unkeep(c, k) ==
    /\ k \in DOMAIN lib[c].kept
    /\ Change(c, [lib[c] EXCEPT !.kept = Without(@, {k}), !.removed = Removal(c, lib[c], k)])

HasList(c) == lib[c].list.at # 0

\* addToPlaylist, addAllToPlaylist and addImported.
Add(c, s) ==
    /\ HasList(c)
    /\ \A i \in DOMAIN lib[c].list.entries : lib[c].list.entries[i].id # s
    /\ Change(c, [lib[c] EXCEPT !.list.entries = Append(@, [id |-> s, at |-> Now(c)]),
                                !.list.at = Now(c),
                                !.removed = Withdrawal(c, lib[c], <<"entry", s>>)])

\* removeFromPlaylist, and removeFromLibrary's part of it.
TakeOut(c, i) ==
    /\ i \in DOMAIN lib[c].list.entries
    /\ Change(c, [lib[c] EXCEPT !.list.entries = RemoveAt(@, i),
                                !.list.at = Now(c),
                                !.removed = Removal(c, lib[c], <<"entry", lib[c].list.entries[i].id>>)])

\* renamePlaylist and setPlaylistPinned.
Rename(c, name) ==
    /\ HasList(c) /\ name # lib[c].list.name
    /\ Change(c, [lib[c] EXCEPT !.list.name = name, !.list.at = Now(c)])

\* movePlaylistEntry.
Move(c, i, to) ==
    LET entries == lib[c].list.entries IN
    /\ i \in DOMAIN entries /\ to \in DOMAIN entries /\ i # to
    /\ Change(c, [lib[c] EXCEPT !.list.entries = InsertAt(RemoveAt(entries, i), to, entries[i]),
                                !.list.at = Now(c)])

DeleteList(c) ==
    /\ HasList(c)
    /\ Change(c, [lib[c] EXCEPT !.list = NoList, !.removed = Removal(c, lib[c], <<"list", 0>>)])

\* recordHistory and openPlayEvent: a listen that has begun.
Play(c, s) ==
    /\ <<s, Now(c)>> \notin DOMAIN lib[c].plays
    /\ Change(c, [lib[c] EXCEPT
           !.plays = With(@, <<s, Now(c)>>, 0),
           !.recent = With(@, s, [at |-> Now(c), count |-> 1 + IF s \in DOMAIN @ THEN @[s].count ELSE 0])])

\* closePlayEvent and writePlayEvents: and how it was heard.
Heard(c, p) ==
    /\ p \in DOMAIN lib[c].plays /\ lib[c].plays[p] = 0
    /\ Change(c, [lib[c] EXCEPT !.plays[p] = 1])

\* notInterested and dontSuggestArtist, which look at no tombstone; and
\* undoNotInterested.
TurnDown(c, s) ==
    /\ <<s, Now(c)>> \notin lib[c].downs
    /\ Change(c, [lib[c] EXCEPT !.downs = @ \union {<<s, Now(c)>>}])

TakeBack(c, d) ==
    /\ d \in lib[c].downs
    /\ Change(c, [lib[c] EXCEPT !.downs = @ \ {d}, !.removed = Removal(c, lib[c], DownKey(d))])

ClearHistory(c) ==
    Change(c, [lib[c] EXCEPT !.recent = <<>>, !.removed = Removal(c, lib[c], <<"cleared", 0>>)])

RemoveFromHistory(c, s) ==
    /\ s \in DOMAIN lib[c].recent
    /\ Change(c, [lib[c] EXCEPT !.recent = Without(@, {s}), !.removed = Removal(c, lib[c], <<"history", s>>)])

Tick ==
    /\ clock < EndOfTime
    /\ clock' = clock + 1
    /\ UNCHANGED <<lib, file, ahead>>

SetClock(c) ==
    /\ ahead[c] # 0
    /\ ahead' = [ahead EXCEPT ![c] = 0]
    /\ UNCHANGED <<lib, file, clock>>

Listener(c) ==
    \/ /\ "keep" \in Does
       /\ \E k \in Things : Unkeep(c, k) \/ \E form \in 1 .. 2 : Keep(c, k, form)
    \/ /\ "list" \in Does
       /\ \/ \E s \in Songs : Add(c, s)
          \/ \E i \in DOMAIN lib[c].list.entries : TakeOut(c, i)
          \/ \E name \in 1 .. 2 : Rename(c, name)
    \/ /\ "order" \in Does
       /\ DeleteList(c) \/ \E i, to \in DOMAIN lib[c].list.entries : Move(c, i, to)
    \/ /\ "play" \in Does
       /\ \/ \E s \in Songs : Play(c, s) \/ RemoveFromHistory(c, s)
          \/ \E p \in DOMAIN lib[c].plays : Heard(c, p)
          \/ ClearHistory(c)
    \/ /\ "down" \in Does
       /\ \/ \E s \in Songs : TurnDown(c, s)
          \/ \E d \in lib[c].downs : TakeBack(c, d)

Next == Tick \/ \E c \in Computers : Listener(c) \/ Write(c) \/ Read(c) \/ SetClock(c)

Spec == Init /\ [][Next]_library

-----------------------------------------------------------------------------

\* The shapes of the variables; a playlist holds each song once.
Time == UNION {0 .. EndOfTime + by : by \in Aheads \union {0}}
TypeOK ==
    /\ clock \in 1 .. EndOfTime /\ ahead \in [Computers -> Aheads \union {0}]
    /\ \A l \in {file} \union {lib[c] : c \in Computers} :
          /\ DOMAIN l.kept \subseteq Things
          /\ \A k \in DOMAIN l.kept : l.kept[k] \in [at : Time, form : 1 .. 2]
          /\ l.list \in [at : Time, name : 0 .. 2, entries : Seq([id : Songs, at : Time])]
          /\ \A i, j \in DOMAIN l.list.entries : l.list.entries[i].id = l.list.entries[j].id => i = j
          /\ DOMAIN l.plays \subseteq Songs \X Time /\ l.downs \subseteq Songs \X Time
          /\ \A p \in DOMAIN l.plays : l.plays[p] \in 0 .. 1
          /\ \A k \in DOMAIN l.removed : l.removed[k] \in Time
          /\ DOMAIN l.recent \subseteq Songs

\* "merging both ways leaves both libraries the same", of two computers whose
\* clocks agree and who hold nothing that cannot be true yet.
TimesOf(l) ==
    {l.kept[k].at : k \in DOMAIN l.kept} \union {l.list.at}
        \union {l.list.entries[i].at : i \in DOMAIN l.list.entries}
        \union {p[2] : p \in DOMAIN l.plays} \union {d[2] : d \in l.downs}
        \union {l.removed[k] : k \in DOMAIN l.removed}
InTime(c) == \A t \in TimesOf(lib[c]) : t <= Latest(c)
BothWaysTheSame ==
    \A c \in Computers : \A d \in Computers \ {c} :
        Now(c) = Now(d) /\ InTime(c) /\ InTime(d) =>
            DueOnly(Merge(lib[c], DueOnly(lib[d], Latest(d)), Latest(c)), Latest(c))
              = DueOnly(Merge(lib[d], DueOnly(lib[c], Latest(c)), Latest(d)), Latest(d))

\* "a song added on one computer is never lost to an edit made on another that
\* had not seen it yet": unless its list was deleted, every song of either copy
\* added later than anyone took it out is in what a merge makes of the two.
EntriesStay ==
    \A c \in Computers :
        LET theirs == DueOnly(file, Latest(c))
            gone(k) == {l.removed[k] : l \in {m \in {lib[c], theirs} : k \in DOMAIN m.removed}}
            lists == {lib[c].list, theirs.list}
            merges == /\ UNCHANGED <<file, clock, ahead>>
                      /\ \A d \in Computers \ {c} : lib'[d] = lib[d]
                      /\ lib'[c] = Merge(lib[c], theirs, Latest(c))
        IN lib'[c].list.at # 0 /\ merges =>
           \A l \in lists : \A i \in DOMAIN l.entries :
               (\A t \in gone(<<"entry", l.entries[i].id>>) : l.entries[i].at > t) =>
                   \E j \in DOMAIN lib'[c].list.entries :
                       lib'[c].list.entries[j].id = l.entries[i].id
AddedSongsStay == [][EntriesStay]_library

\* What History says was played was played, then, and no oftener than it was:
\* a play merged twice, or heard of by two ways, counts once.
HistoryIsThePlays ==
    \A c \in Computers : \A s \in DOMAIN lib[c].recent :
        /\ <<s, lib[c].recent[s].at>> \in DOMAIN lib[c].plays
        /\ lib[c].recent[s].count <= Cardinality({p \in DOMAIN lib[c].plays : p[1] = s})

\* What has been taken out is not brought back by a file written before, on a
\* computer whose own clock was always right, whatever the others' say: what is
\* there is newer than its tombstone.  (A computer whose clock was ahead heeds its
\* own tombstones when they are due.)
RemovedStaysOut ==
    \A c \in Computers \ Fast :
        /\ \A k \in DOMAIN lib[c].kept : lib[c].kept[k].at > At(lib[c].removed, k)
        /\ \A i \in DOMAIN lib[c].list.entries :
              lib[c].list.entries[i].at > At(lib[c].removed, <<"entry", lib[c].list.entries[i].id>>)

\* A turn-down taken back once it was made comes back neither from a file nor by
\* a merge here, again on a computer whose clock was always right: only the
\* listener makes it again, in the second it is known by.
TakenBackStaysOut ==
    \A c \in Computers \ Fast : \A d \in lib'[c].downs \ lib[c].downs :
        At(lib[c].removed, DownKey(d)) >= d[2] =>
            d[2] = Now(c) /\ lib'[c] = [lib[c] EXCEPT !.downs = @ \union {d}]

\* "No time can be from the future of the computer reading it", but for the slack:
\* one whose clock was always right never holds a time later than can be true.
NothingFromTheFuture == \A c \in Computers \ Fast : InTime(c)

\* "merging the same file twice changes nothing the second time".
TwiceIsOnce ==
    \A c, d \in Computers :
        LET theirs == DueOnly(lib[d], Latest(c))
            once == Merge(lib[c], theirs, Latest(c))
        IN Merge(once, theirs, Latest(c)) = once

\* The same of all but a playlist that both changed in one second.
TwiceIsOnceUnlessTied ==
    \A c, d \in Computers :
        LET theirs == DueOnly(lib[d], Latest(c))
            once == Merge(lib[c], theirs, Latest(c))
        IN lib[c].list.at # lib[d].list.at \/ lib[c].list = lib[d].list =>
               Merge(once, theirs, Latest(c)) = once
=============================================================================
