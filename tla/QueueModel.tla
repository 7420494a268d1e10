----------------------------- MODULE QueueModel -----------------------------
(***************************************************************************)
(* The play queue (queuemodel.h, queuemodel.cpp) as a value and the        *)
(* operators its methods compute.  A queue is a record                     *)
(*                                                                         *)
(*    items    m_items, a sequence of tracks [uid, video, radio]           *)
(*    current  m_current, counted from 1; 0 stands for the code's -1       *)
(*    order    m_originalOrder, uids; empty when not shuffled              *)
(*    next     m_nextUid                                                   *)
(*                                                                         *)
(* Rows are counted from 1.  What a method leaves to chance (std::shuffle) *)
(* and what a sort computes are given as the set of queues that may come   *)
(* of it.  Titles, artwork and the model's change signals are left out.    *)
(***************************************************************************)
EXTENDS Integers, Sequences, FiniteSets, SequencesExt

CONSTANTS
    Videos,      \* the YouTube ids a row may have
    NoVideo      \* a row with a file or a link of its own and no id

ASSUME NoVideoAssumption == NoVideo \notin Videos

Track == [uid : Nat, video : Videos \cup {NoVideo}, radio : BOOLEAN]

\* A row as QueueTrack::fromMap makes it: uid is 0 until the queue stamps it.
TrackOf(video, radio) == [uid |-> 0, video |-> video, radio |-> radio]

EmptyQueue == [items |-> <<>>, current |-> 0, order |-> <<>>, next |-> 1]

\* The queue with other rows: no new song, so no uid is used up.
Rearranged(q, items, current, order) ==
    [items |-> items, current |-> current, order |-> order, next |-> q.next]

Queue == [items : Seq(Track), current : Nat, order : Seq(Nat), next : Nat \ {0}]

Count(q) == Len(q.items)

Upcoming(q) == (q.current + 1) .. Count(q)

UpcomingCount(q) == Count(q) - q.current

Uids(tracks) == [n \in DOMAIN tracks |-> tracks[n].uid]

DistinctUids(tracks) ==
    \A m, n \in DOMAIN tracks : tracks[m].uid = tracks[n].uid => m = n

HasUid(tracks, uid) == \E song \in Range(tracks) : song.uid = uid

UpcomingUids(q) == Uids(SubSeq(q.items, q.current + 1, Count(q)))

CurrentUid(q) == IF q.current = 0 THEN 0 ELSE q.items[q.current].uid

ContainsVideo(q, video) == \E n \in DOMAIN q.items : q.items[n].video = video

\* The first upcoming row autoplay added, 0 when there is none.
RadioStart(q) ==
    LET found == {n \in Upcoming(q) : q.items[n].radio}
    IN  IF found = {} THEN 0 ELSE CHOOSE n \in found : \A m \in found : n <= m

Clamp(low, n, high) == IF n < low THEN low ELSE IF n > high THEN high ELSE n

-----------------------------------------------------------------------------

\* (slip: one uid for the whole batch)
StampAlike(tracks, next) == [n \in DOMAIN tracks |-> [tracks[n] EXCEPT !.uid = next]]

Stamp(tracks, next) ==
    [n \in DOMAIN tracks |-> [tracks[n] EXCEPT !.uid = next + n - 1]]

Replaced(q, tracks, row) ==
    [items   |-> Stamp(tracks, q.next),
     current |-> IF tracks = <<>> THEN 0 ELSE Clamp(1, row, Len(tracks)),
     order   |-> <<>>,
     next    |-> q.next + Len(tracks)]

WithCurrent(q, row) == Rearranged(q, q.items, Clamp(0, row, Count(q)), q.order)

\* (slip: "play next" at the end of the order like anything else)
InsertedOrderLast(q, row, uids) == IF q.order = <<>> THEN <<>> ELSE q.order \o uids

\* While shuffled, "play next" goes to the front of the order that turning
\* shuffle off brings back, and anything else to its end.
InsertedOrder(q, row, uids) ==
    IF q.order = <<>> THEN <<>>
    ELSE IF row = q.current + 1 THEN uids \o q.order
    ELSE q.order \o uids

Splice(s, row, t) == SubSeq(s, 1, row - 1) \o t \o SubSeq(s, row, Len(s))

Inserted(q, row, tracks) ==
    LET new == Stamp(tracks, q.next)
    IN  [items   |-> Splice(q.items, row, new),
         current |-> IF q.current >= row THEN q.current + Len(tracks) ELSE q.current,
         order   |-> InsertedOrder(q, row, Uids(new)),
         next    |-> q.next + Len(tracks)]

\* (slip: the current row moves up whichever row goes)
RemovedAtMovedUp(q, row) ==
    Rearranged(q, RemoveAt(q.items, row), q.current - 1, RemoveFirst(q.order, q.items[row].uid))

\* (slip: the order still names the song)
RemovedAtRemembered(q, row) ==
    Rearranged(q,
               RemoveAt(q.items, row),
               IF row < q.current THEN q.current - 1 ELSE q.current,
               q.order)

RemovedAt(q, row) ==
    Rearranged(q,
               RemoveAt(q.items, row),
               IF row < q.current THEN q.current - 1 ELSE q.current,
               RemoveFirst(q.order, q.items[row].uid))

-----------------------------------------------------------------------------

MovedItems(q, from, to) == InsertAt(RemoveAt(q.items, from), to, q.items[from])

MovedCurrent(q, from, to) ==
    CASE from = q.current                    -> to
      [] from < q.current /\ q.current <= to -> q.current - 1
      [] from > q.current /\ q.current >= to -> q.current + 1
      [] OTHER                               -> q.current

\* Where the moved song belongs once shuffle is off: straight after the song
\* it was put after, at the end when the order does not know that song, and
\* first when it was put straight after the one playing.
MovedOrder(q, items, current, to) ==
    LET uid   == items[to].uid
        known == RemoveFirst(q.order, uid)
        place == IF to - 1 <= current THEN 1
                 ELSE IF \E n \in DOMAIN known : known[n] = items[to - 1].uid
                 THEN 1 + CHOOSE n \in 1 .. Len(known) : known[n] = items[to - 1].uid
                 ELSE Len(known) + 1
    IN  IF q.order = <<>> THEN <<>>
        ELSE IF to <= current THEN known
        ELSE InsertAt(known, place, uid)

\* A song autoplay added, put up among the chosen ones, counts as chosen.
Moved(q, from, to) ==
    LET items   == MovedItems(q, from, to)
        current == MovedCurrent(q, from, to)
        chosen  == to > current /\ (to - 1 <= current \/ ~items[to - 1].radio)
    IN  Rearranged(q,
                   [items EXCEPT ![to].radio = @ /\ ~chosen],
                   current,
                   MovedOrder(q, items, current, to))

\* What is left of s with only the rows in `keep`.
InOrder(keep) ==
    {f \in [1 .. Cardinality(keep) -> keep] : \A m, n \in DOMAIN f : m < n => f[m] < f[n]}

Subsequences(s, keep) == {[n \in DOMAIN f |-> s[f[n]]] : f \in InOrder(keep)}

\* The places of the order whose song is in none of `rows`.
StillKnown(q, rows) ==
    {n \in DOMAIN q.order : \A m \in rows : q.items[m].uid # q.order[n]}

\* Several upcoming rows taken out one after another, the last one first.
RemovedRows(q, rows) ==
    {Rearranged(q, items, q.current, order) :
        items \in Subsequences(q.items, DOMAIN q.items \ rows),
        order \in Subsequences(q.order, StillKnown(q, rows))}

\* (slip: the current row goes with the rest)
ClearedFromCurrent(q) ==
    IF Upcoming(q) = {} THEN q
    ELSE Rearranged(q, SubSeq(q.items, 1, q.current - 1), q.current, <<>>)

ClearedUpcoming(q) ==
    IF Upcoming(q) = {} THEN q
    ELSE Rearranged(q, SubSeq(q.items, 1, q.current), q.current, <<>>)

-----------------------------------------------------------------------------

\* The upcoming rows in another order: row n shows what row p[n] did.
Arranged(q, p) ==
    [n \in DOMAIN q.items |-> IF n > q.current THEN q.items[p[n]] ELSE q.items[n]]

\* (slip: the order noted once the rows have been shuffled)
ShuffledThenNoted(q) ==
    IF UpcomingCount(q) < 2 THEN {q}
    ELSE {Rearranged(q, rows, q.current, Uids(SubSeq(rows, q.current + 1, Count(q)))) :
             rows \in {Arranged(q, p) : p \in Bijection(Upcoming(q), Upcoming(q))}}

\* (slip: the last row lost on the way)
ShuffledShort(q) ==
    IF UpcomingCount(q) < 2 THEN {q}
    ELSE {Rearranged(q, SubSeq(Arranged(q, p), 1, Count(q) - 1), q.current, UpcomingUids(q)) :
             p \in Bijection(Upcoming(q), Upcoming(q))}

Shuffled(q) ==
    IF UpcomingCount(q) < 2 THEN {q}
    ELSE {Rearranged(q, Arranged(q, p), q.current, UpcomingUids(q)) :
             p \in Bijection(Upcoming(q), Upcoming(q))}

\* std::stable_sort by the place the order gives a song, songs the order does
\* not know last.
Rank(q, row) ==
    IF \E n \in DOMAIN q.order : q.order[n] = q.items[row].uid
    THEN CHOOSE n \in DOMAIN q.order : q.order[n] = q.items[row].uid
    ELSE Len(q.order) + 1

SortsBefore(q, m, n) ==
    \/ Rank(q, m) < Rank(q, n)
    \/ Rank(q, m) = Rank(q, n) /\ m < n

StableSorts(q) ==
    {p \in Bijection(Upcoming(q), Upcoming(q)) :
        \A m, n \in Upcoming(q) : m < n => SortsBefore(q, p[m], p[n])}

\* (slip: the order forgotten before the rows are put back)
RestoredNothing(q) == {Rearranged(q, q.items, q.current, <<>>)}

Restored(q) ==
    IF q.order = <<>> THEN {q}
    ELSE {Rearranged(q, Arranged(q, p), q.current, <<>>) : p \in StableSorts(q)}

\* The songs still to come, and which plays before which with shuffle off:
\* as restoreOrder would leave them.
Ahead(q) == {q.items[n].uid : n \in Upcoming(q)}

PlaysBefore(q) ==
    {<<q.items[p[1]].uid, q.items[p[2]].uid>> :
        p \in {r \in Upcoming(q) \X Upcoming(q) : SortsBefore(q, r[1], r[2])}}

-----------------------------------------------------------------------------

\* What the next launch is given: at most `limit` rows around the current one,
\* the shuffle's order as rows, since the uids are this queue's alone.
NoSnapshot == [tracks |-> <<>>, current |-> 0, order |-> <<>>]

SnapshotFirst(q, limit) ==
    LET wanted == Clamp(1, q.current - limit \div 5, Count(q))
    IN  Clamp(1, Clamp(1, wanted + limit - 1, Count(q)) - limit + 1, Count(q))

\* (slip: the order as uids, which mean nothing to the next launch)
SnapshotsByUid(q, limit) ==
    LET first  == SnapshotFirst(q, limit)
        tracks == SubSeq(q.items, first, Clamp(1, first + limit - 1, Count(q)))
    IN  IF q.current = 0 THEN {NoSnapshot}
        ELSE {[tracks  |-> [n \in DOMAIN tracks |-> TrackOf(tracks[n].video, tracks[n].radio)],
               current |-> q.current - first + 1,
               order   |-> q.order]}

Snapshots(q, limit) ==
    LET first    == SnapshotFirst(q, limit)
        tracks   == SubSeq(q.items, first, Clamp(1, first + limit - 1, Count(q)))
        RowOf(u) == {n \in DOMAIN tracks : tracks[n].uid = u}
        known    == {n \in DOMAIN q.order : RowOf(q.order[n]) # {}}
    IN  IF q.current = 0 THEN {NoSnapshot}
        ELSE {[tracks  |-> [n \in DOMAIN tracks |-> TrackOf(tracks[n].video, tracks[n].radio)],
               current |-> q.current - first + 1,
               order   |-> [n \in DOMAIN kept |-> CHOOSE r \in RowOf(kept[n]) : TRUE]] :
                  kept \in Subsequences(q.order, known)}

\* The rows get new uids, and of the order only the upcoming rows are kept.
FromSnapshots(q, s) ==
    LET fresh == Replaced(q, s.tracks, s.current)
        ahead == {n \in DOMAIN s.order : s.order[n] > s.current}
    IN  {[fresh EXCEPT !.order = [n \in DOMAIN rows |-> fresh.items[rows[n]].uid]] :
            rows \in Subsequences(s.order, ahead)}
=============================================================================
