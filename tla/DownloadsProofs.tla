--------------------------- MODULE DownloadsProofs ---------------------------
(***************************************************************************)
(* What Downloads promises, proved for any number of songs and folders and *)
(* any limit of downloads at a time.  The manager's members are Whole from *)
(* one handler to the next: a song waits, runs or has failed in one place, *)
(* and nothing is there before the last launch's queue is put back.  What  *)
(* each helper makes of them is said once; a handler is Whole again when   *)
(* it has settled its song (Settles) and pumped (PumpDoes).                *)
(***************************************************************************)
EXTENDS Downloads, FiniteSetTheorems, TLAPS

StateNames == {"none", "queued", "downloading", "failed"}
JobNames == {"none", "asking", "saavn", "ytdlp"}
StoredType == [Ids -> Files \cup {NoFile}]
MType ==
    [running : BOOLEAN, available : BOOLEAN, restored : BOOLEAN, rows : Seq(Ids),
     state : [Ids -> StateNames], pending : Seq(Ids), job : [Ids -> JobNames],
     before : [Ids -> SUBSET Kinds], cancelling : SUBSET Ids,
     waiting : {"no", "set", "posted"}, saveDue : BOOLEAN, stored : StoredType]
DiskType == [Folders -> [Ids -> SUBSET Kinds]]
DbType == [rows : StoredType, queue : Seq(QueueRows), folder : Folders]

\* What the handlers take and return.
Hands == [m : MType, disk : DiskType, rows : StoredType]

Honest(m) ==
    /\ \A id \in Ids :
          /\ m.state[id] = "queued" <=> Contains(m.pending, id)
          /\ m.state[id] = "downloading" <=> m.job[id] # "none"
          /\ m.state[id] # "none" <=> Contains(m.rows, id)
    /\ IsInjective(m.pending) /\ IsInjective(m.rows)

\* The manager's members between two handlers.
Whole(m) ==
    /\ m \in MType /\ Honest(m)
    /\ Cardinality(Active(m)) <= MaxConcurrent
    /\ m.saveDue => m.restored
    /\ m.restored => m.running
    /\ ~m.restored => m.rows = <<>>

Pumped(m) == m.pending # <<>> /\ Cardinality(Active(m)) < MaxConcurrent => m.waiting # "no"

\* The queue on disk is the queue as it stands, songs stored since aside.
Unstored(m, queue) == Only(queue, {q \in QueueRows : m.stored[q.id] = NoFile})
Current(m, queue) ==
    m.running /\ m.restored /\ ~m.saveDue => Unstored(m, QueueOf(m)) = Unstored(m, queue)

\* download_queue's key is the song.
Keyed(queue) == \A i, j \in DOMAIN queue : queue[i].id = queue[j].id => i = j

IInv ==
    /\ Whole(dl) /\ Pumped(dl) /\ Current(dl, db.queue)
    /\ disk \in DiskType /\ db \in DbType /\ resolving \in BOOLEAN
    /\ Keyed(db.queue)

Handled(t) == t \in Hands /\ Whole(t.m) /\ Pumped(t.m) /\ Current(t.m, db.queue)

-----------------------------------------------------------------------------
(* Sequences.                                                               *)

LEMMA ContainsIs ==
    ASSUME NEW S, NEW s \in Seq(S), NEW x
    PROVE  Contains(s, x) <=> \E i \in DOMAIN s : s[i] = x
BY DEF Contains

\* A sequence that picks places of s, each once and all whose member is wanted.
Picks(S, s, wanted, o) ==
    /\ o \in Seq(S)
    /\ \E h \in [DOMAIN o -> DOMAIN s] :
          /\ \A n \in DOMAIN o : o[n] = s[h[n]] /\ s[h[n]] \in wanted
          /\ \A n, k \in DOMAIN o : h[n] = h[k] => n = k
          /\ \A i \in DOMAIN s : s[i] \in wanted => \E n \in DOMAIN o : h[n] = i

LEMMA OnlyPicks ==
    ASSUME NEW S, NEW s \in Seq(S), NEW wanted
    PROVE  Picks(S, s, wanted, Only(s, wanted))
<1> DEFINE places == {i \in DOMAIN s : s[i] \in wanted}
           upTo(i) == {k \in places : k <= i}
           size == Cardinality(places)
           r == [i \in places |-> Cardinality(upTo(i))]
           at(n) == CHOOSE i \in places : Cardinality(upTo(i)) = n
           h == [n \in 1 .. size |-> at(n)]
           o == [n \in 1 .. size |-> s[at(n)]]
<1>1. DOMAIN s = 1 .. Len(s) /\ Len(s) \in Nat /\ places \subseteq DOMAIN s /\ places \in SUBSET Nat
  OBVIOUS
<1>2. IsFiniteSet(places) /\ size \in Nat
  <2>1. IsFiniteSet(1 .. Len(s))
    BY <1>1, FS_Interval
  <2>2. places \subseteq 1 .. Len(s)
    BY <1>1
  <2> QED BY <2>1, <2>2, FS_Subset, FS_CardinalityType
<1>3. \A i \in places : /\ upTo(i) \subseteq places /\ i \in upTo(i)
                        /\ \A k \in places : k < i => upTo(k) \subseteq upTo(i) /\ i \notin upTo(k)
  BY <1>1
<1>a. \A i \in places : r[i] = Cardinality(upTo(i))
  OBVIOUS
<1>b. \A n \in 1 .. size : h[n] = at(n) /\ o[n] = s[at(n)]
  OBVIOUS
<1>c. DOMAIN o = 1 .. size /\ o = Only(s, wanted)
  BY DEF Only
<1>d. \A n \in 1 .. size : (\E i \in places : Cardinality(upTo(i)) = n)
                              => at(n) \in places /\ Cardinality(upTo(at(n))) = n
  OBVIOUS
<1>e. \A i \in DOMAIN s : s[i] \in wanted <=> i \in places
  OBVIOUS
<1>f. h \in [1 .. size -> places] <=> \A n \in 1 .. size : at(n) \in places
  OBVIOUS
<1>g. r \in [places -> 1 .. size] <=> \A i \in places : r[i] \in 1 .. size
  OBVIOUS
<1>h. o \in [1 .. size -> S] <=> \A n \in 1 .. size : o[n] \in S
  OBVIOUS
<1> HIDE DEF places, upTo, size, r, at, h, o
<1>4. \A i \in places : /\ IsFiniteSet(upTo(i)) /\ r[i] \in 1 .. size
                        /\ \A k \in places : k < i => r[k] < r[i]
  <2> SUFFICES ASSUME NEW i \in places
               PROVE  /\ IsFiniteSet(upTo(i)) /\ r[i] \in 1 .. size
                      /\ \A k \in places : k < i => r[k] < r[i]
    OBVIOUS
  <2>1. IsFiniteSet(upTo(i)) /\ Cardinality(upTo(i)) <= size
    BY <1>3, <1>2, FS_Subset DEF size
  <2>2. Cardinality(upTo(i)) \in Nat /\ Cardinality(upTo(i)) # 0
    BY <1>3, <2>1, FS_CardinalityType, FS_EmptySet
  <2>3. r[i] \in 1 .. size
    BY <1>a, <2>1, <2>2, <1>2
  <2>4. ASSUME NEW k \in places, k < i
        PROVE  r[k] < r[i]
    <3>1. upTo(k) \subseteq upTo(i) /\ upTo(k) # upTo(i)
      BY <2>4, <1>3
    <3>2. /\ IsFiniteSet(upTo(k))
          /\ Cardinality(upTo(k)) <= Cardinality(upTo(i))
          /\ Cardinality(upTo(k)) # Cardinality(upTo(i))
      BY <3>1, <2>1, FS_Subset
    <3>3. Cardinality(upTo(k)) \in Nat
      BY <3>2, FS_CardinalityType
    <3> QED BY <3>2, <3>3, <2>2, <1>a
  <2> QED BY <2>1, <2>3, <2>4
<1>5. \A i, k \in places : r[i] = r[k] => i = k
  <2> SUFFICES ASSUME NEW i \in places, NEW k \in places, i # k
               PROVE  r[i] # r[k]
    OBVIOUS
  <2>1. i \in Nat /\ k \in Nat
    BY <1>1
  <2>2. r[i] \in Nat /\ r[k] \in Nat
    BY <1>4, <1>2
  <2>3. CASE i < k
    BY <2>3, <2>2, <1>4
  <2>4. CASE k < i
    BY <2>4, <2>2, <1>4
  <2> QED BY <2>1, <2>3, <2>4
<1>6. \A n \in 1 .. size : \E i \in places : r[i] = n
  <2>1. IsFiniteSet(1 .. size) /\ Cardinality(1 .. size) = size
    BY <1>2, FS_Interval
  <2>2. r \in Injection(places, 1 .. size)
    BY <1>4, <1>5, <1>g DEF Injection, IsInjective
  <2>3. r \in Surjection(places, 1 .. size)
    BY <1>2, <2>1, <2>2, FS_Injection DEF size
  <2> QED BY <2>3 DEF Surjection
<1>7. \A n \in 1 .. size : at(n) \in places /\ r[at(n)] = n
  BY <1>6, <1>a, <1>d
<1>8. o \in Seq(S)
  <2>1. \A n \in 1 .. size : o[n] \in S
    BY <1>7, <1>b, <1>1
  <2>2. o \in [1 .. size -> S]
    BY <2>1, <1>h
  <2> QED BY <2>2, <1>2
<1>9. h \in [DOMAIN o -> DOMAIN s]
  BY <1>7, <1>f, <1>c, <1>1
<1>10. \A n \in DOMAIN o : o[n] = s[h[n]] /\ s[h[n]] \in wanted
  <2> TAKE n \in DOMAIN o
  <2>1. n \in 1 .. size /\ at(n) \in places /\ at(n) \in DOMAIN s
    BY <1>c, <1>7, <1>1
  <2> QED BY <2>1, <1>b, <1>e
<1>11. \A n, k \in DOMAIN o : h[n] = h[k] => n = k
  BY <1>7, <1>b, <1>c
<1>12. \A i \in DOMAIN s : s[i] \in wanted => \E n \in DOMAIN o : h[n] = i
  <2> SUFFICES ASSUME NEW i \in DOMAIN s, s[i] \in wanted
               PROVE  \E n \in DOMAIN o : h[n] = i
    OBVIOUS
  <2>1. i \in places /\ r[i] \in 1 .. size
    BY <1>e, <1>4
  <2>2. at(r[i]) \in places /\ r[at(r[i])] = r[i]
    BY <2>1, <1>7
  <2>3. at(r[i]) = i
    BY <2>1, <2>2, <1>5
  <2> QED BY <2>1, <2>3, <1>b, <1>c
<1>13. Picks(S, s, wanted, o)
  <2>1. \E g \in [DOMAIN o -> DOMAIN s] :
          /\ \A n \in DOMAIN o : o[n] = s[g[n]] /\ s[g[n]] \in wanted
          /\ \A n, k \in DOMAIN o : g[n] = g[k] => n = k
          /\ \A i \in DOMAIN s : s[i] \in wanted => \E n \in DOMAIN o : g[n] = i
    <3> USE <1>9
    <3> WITNESS h \in [DOMAIN o -> DOMAIN s]
    <3> QED BY <1>10, <1>11, <1>12
  <2> QED BY <1>8, <2>1 DEF Picks
<1> QED BY <1>13, <1>c

\* Only keeps the members that are wanted, and no other.
LEMMA OnlyIs ==
    ASSUME NEW S, NEW s \in Seq(S), NEW wanted
    PROVE  /\ Only(s, wanted) \in Seq(S)
           /\ \A x : Contains(Only(s, wanted), x) <=> x \in wanted /\ Contains(s, x)
           /\ IsInjective(s) => IsInjective(Only(s, wanted))
           /\ s = <<>> => Only(s, wanted) = <<>>
<1> DEFINE o == Only(s, wanted)
<1>1. Picks(S, s, wanted, o)
  BY OnlyPicks
<1> HIDE DEF o
<1>2. o \in Seq(S)
  BY <1>1 DEF Picks
<1>3. PICK h \in [DOMAIN o -> DOMAIN s] :
          /\ \A n \in DOMAIN o : o[n] = s[h[n]] /\ s[h[n]] \in wanted
          /\ \A n, k \in DOMAIN o : h[n] = h[k] => n = k
          /\ \A i \in DOMAIN s : s[i] \in wanted => \E n \in DOMAIN o : h[n] = i
  BY <1>1 DEF Picks
<1>4. ASSUME NEW x
      PROVE  Contains(o, x) <=> x \in wanted /\ Contains(s, x)
  <2>1. Contains(o, x) <=> \E n \in DOMAIN o : o[n] = x
    BY <1>2, ContainsIs
  <2>2. Contains(s, x) <=> \E i \in DOMAIN s : s[i] = x
    BY ContainsIs
  <2>3. ASSUME NEW n \in DOMAIN o, o[n] = x
        PROVE  x \in wanted /\ Contains(s, x)
    <3>1. h[n] \in DOMAIN s
      OBVIOUS
    <3> QED BY <1>3, <2>3, <3>1, <2>2
  <2>4. ASSUME NEW i \in DOMAIN s, s[i] = x, x \in wanted
        PROVE  \E n \in DOMAIN o : o[n] = x
    BY <2>4, <1>3
  <2> QED BY <2>1, <2>2, <2>3, <2>4
<1>5. ASSUME IsInjective(s)
      PROVE  IsInjective(o)
  <2> SUFFICES ASSUME NEW n \in DOMAIN o, NEW k \in DOMAIN o, o[n] = o[k]
               PROVE  n = k
    BY DEF IsInjective
  <2>1. h[n] \in DOMAIN s /\ h[k] \in DOMAIN s /\ s[h[n]] = s[h[k]]
    BY <1>3
  <2>2. h[n] = h[k]
    BY <2>1, <1>5 DEF IsInjective
  <2> QED BY <2>2, <1>3
<1>6. ASSUME s = <<>>
      PROVE  o = <<>>
  <2>1. ~\E n \in DOMAIN o : TRUE
    <3> SUFFICES ASSUME NEW n \in DOMAIN o
                 PROVE  FALSE
      OBVIOUS
    <3>1. h[n] \in DOMAIN s
      OBVIOUS
    <3> QED BY <3>1, <1>6
  <2> QED BY <2>1, <1>2
<1>7. \A x : Contains(o, x) <=> x \in wanted /\ Contains(s, x)
  BY <1>4
<1> QED BY <1>2, <1>5, <1>6, <1>7 DEF o

\* And of a queue it keeps the key.
LEMMA OnlyKeyed ==
    ASSUME NEW s \in Seq(QueueRows), NEW wanted, Keyed(s)
    PROVE  Keyed(Only(s, wanted))
<1> DEFINE o == Only(s, wanted)
<1>1. Picks(QueueRows, s, wanted, o)
  BY OnlyPicks
<1> HIDE DEF o
<1>2. PICK h \in [DOMAIN o -> DOMAIN s] :
          /\ \A n \in DOMAIN o : o[n] = s[h[n]] /\ s[h[n]] \in wanted
          /\ \A n, k \in DOMAIN o : h[n] = h[k] => n = k
          /\ \A i \in DOMAIN s : s[i] \in wanted => \E n \in DOMAIN o : h[n] = i
  BY <1>1 DEF Picks
<1>3. ASSUME NEW n \in DOMAIN o, NEW k \in DOMAIN o, o[n].id = o[k].id
      PROVE  n = k
  <2>1. h[n] \in DOMAIN s /\ h[k] \in DOMAIN s /\ s[h[n]].id = s[h[k]].id
    BY <1>2, <1>3
  <2>2. h[n] = h[k]
    BY <2>1 DEF Keyed
  <2> QED BY <2>2, <1>2
<1>4. Keyed(o)
  BY <1>3 DEF Keyed
<1> QED BY <1>4 DEF o

LEMMA AppendIs ==
    ASSUME NEW S, NEW s \in Seq(S), NEW x \in S
    PROVE  /\ Append(s, x) \in Seq(S)
           /\ \A y : Contains(Append(s, x), y) <=> Contains(s, y) \/ y = x
           /\ IsInjective(s) /\ ~Contains(s, x) => IsInjective(Append(s, x))
<1> DEFINE t == Append(s, x)
<1>1. /\ t \in Seq(S) /\ Len(s) \in Nat /\ DOMAIN s = 1 .. Len(s) /\ DOMAIN t = 1 .. Len(s) + 1
      /\ \A i \in 1 .. Len(s) : t[i] = s[i]
      /\ t[Len(s) + 1] = x
  OBVIOUS
<1> HIDE DEF t
<1>2. \A y : Contains(t, y) <=> \E i \in 1 .. Len(s) + 1 : t[i] = y
  BY <1>1, ContainsIs
<1>3. \A y : Contains(s, y) <=> \E i \in 1 .. Len(s) : s[i] = y
  BY <1>1, ContainsIs
<1>4. \A i : i \in 1 .. Len(s) + 1 <=> i \in 1 .. Len(s) \/ i = Len(s) + 1
  BY <1>1
<1>5. \A y : Contains(t, y) <=> Contains(s, y) \/ y = x
  BY <1>1, <1>2, <1>3, <1>4
<1>6. ASSUME IsInjective(s), ~Contains(s, x)
      PROVE  IsInjective(t)
  <2> SUFFICES ASSUME NEW i \in 1 .. Len(s) + 1, NEW j \in 1 .. Len(s) + 1, t[i] = t[j]
               PROVE  i = j
    BY <1>1 DEF IsInjective
  <2>1. \A k \in 1 .. Len(s) : s[k] # x
    BY <1>6, <1>3
  <2>2. \A k, l \in 1 .. Len(s) : s[k] = s[l] => k = l
    BY <1>6, <1>1 DEF IsInjective
  <2> QED BY <1>1, <1>4, <2>1, <2>2
<1> QED BY <1>1, <1>5, <1>6 DEF t

LEMMA ConcatIs ==
    ASSUME NEW S, NEW s \in Seq(S), NEW t \in Seq(S)
    PROVE  /\ s \o t \in Seq(S)
           /\ \A y : Contains(s \o t, y) <=> Contains(s, y) \/ Contains(t, y)
           /\ IsInjective(s) /\ IsInjective(t) /\ (\A y : ~(Contains(s, y) /\ Contains(t, y)))
                => IsInjective(s \o t)
           /\ s \o t = <<>> <=> s = <<>> /\ t = <<>>
<1> DEFINE c == s \o t
           ls == Len(s)
           lt == Len(t)
<1>1. /\ c \in Seq(S) /\ ls \in Nat /\ lt \in Nat /\ Len(c) = ls + lt
      /\ DOMAIN s = 1 .. ls /\ DOMAIN t = 1 .. lt /\ DOMAIN c = 1 .. (ls + lt)
      /\ \A i \in 1 .. ls : c[i] = s[i]
  OBVIOUS
<1>2. \A i \in 1 .. lt : c[ls + i] = t[i]
  OBVIOUS
<1>e. /\ c = <<>> <=> Len(c) = 0
      /\ s = <<>> <=> ls = 0
      /\ t = <<>> <=> lt = 0
  BY <1>1
<1> HIDE DEF c, ls, lt
<1>3. \A i \in 1 .. (ls + lt) : i \in 1 .. ls \/ (i - ls \in 1 .. lt /\ i = ls + (i - ls))
  BY <1>1
<1>4. \A y : /\ Contains(c, y) <=> \E i \in 1 .. (ls + lt) : c[i] = y
             /\ Contains(s, y) <=> \E i \in 1 .. ls : s[i] = y
             /\ Contains(t, y) <=> \E i \in 1 .. lt : t[i] = y
  BY <1>1, ContainsIs
<1>5. ASSUME NEW y
      PROVE  Contains(c, y) <=> Contains(s, y) \/ Contains(t, y)
  <2>1. ASSUME NEW i \in 1 .. (ls + lt), c[i] = y
        PROVE  Contains(s, y) \/ Contains(t, y)
    <3>1. CASE i \in 1 .. ls
      BY <3>1, <2>1, <1>1, <1>4
    <3>2. CASE i - ls \in 1 .. lt /\ i = ls + (i - ls)
      <4> DEFINE k == i - ls
      <4>1. k \in 1 .. lt /\ i = ls + k
        BY <3>2
      <4> HIDE DEF k
      <4> QED BY <4>1, <2>1, <1>2, <1>4
    <3> QED BY <3>1, <3>2, <1>3
  <2>2. ASSUME NEW i \in 1 .. ls, s[i] = y
        PROVE  Contains(c, y)
    <3>1. i \in 1 .. (ls + lt)
      BY <1>1
    <3> QED BY <2>2, <3>1, <1>1, <1>4
  <2>3. ASSUME NEW i \in 1 .. lt, t[i] = y
        PROVE  Contains(c, y)
    <3>1. ls + i \in 1 .. (ls + lt)
      BY <1>1
    <3> QED BY <2>3, <3>1, <1>2, <1>4
  <2> QED BY <2>1, <2>2, <2>3, <1>4
<1>6. ASSUME IsInjective(s), IsInjective(t), \A y : ~(Contains(s, y) /\ Contains(t, y))
      PROVE  IsInjective(c)
  <2> SUFFICES ASSUME NEW i \in 1 .. (ls + lt), NEW j \in 1 .. (ls + lt), c[i] = c[j]
               PROVE  i = j
    BY <1>1 DEF IsInjective
  <2>1. \A k, l \in 1 .. ls : s[k] = s[l] => k = l
    BY <1>6, <1>1 DEF IsInjective
  <2>2. \A k, l \in 1 .. lt : t[k] = t[l] => k = l
    BY <1>6, <1>1 DEF IsInjective
  <2>3. \A k \in 1 .. ls : \A l \in 1 .. lt : s[k] # t[l]
    BY <1>6, <1>4
  <2>4. CASE i \in 1 .. ls /\ j \in 1 .. ls
    BY <2>4, <1>1, <2>1
  <2>5. CASE i - ls \in 1 .. lt /\ i = ls + (i - ls) /\ j \in 1 .. ls
    BY <2>5, <1>1, <1>2, <2>3
  <2>6. CASE i \in 1 .. ls /\ j - ls \in 1 .. lt /\ j = ls + (j - ls)
    BY <2>6, <1>1, <1>2, <2>3
  <2>7. CASE i - ls \in 1 .. lt /\ i = ls + (i - ls) /\ j - ls \in 1 .. lt /\ j = ls + (j - ls)
    <3>1. c[i] = t[i - ls] /\ c[j] = t[j - ls]
      BY <2>7, <1>2
    <3>2. i - ls = j - ls
      BY <3>1, <2>7, <2>2
    <3> QED BY <3>2, <2>7
  <2> QED BY <1>3, <2>4, <2>5, <2>6, <2>7
<1>7. c = <<>> <=> s = <<>> /\ t = <<>>
  BY <1>1, <1>e
<1>8. \A y : Contains(c, y) <=> Contains(s, y) \/ Contains(t, y)
  BY <1>5
<1> QED BY <1>1, <1>6, <1>7, <1>8 DEF c

\* A sequence cut in two.
LEMMA CutIs ==
    ASSUME NEW S, NEW s \in Seq(S), NEW c \in 0 .. Len(s)
    PROVE  LET first == ToSet(SubSeq(s, 1, c))
               rest  == SubSeq(s, c + 1, Len(s))
           IN  /\ rest \in Seq(S) /\ first \subseteq S /\ IsFiniteSet(first)
               /\ \A y : Contains(s, y) <=> y \in first \/ Contains(rest, y)
               /\ IsInjective(s) => /\ IsInjective(rest) /\ Cardinality(first) = c
                                   /\ \A y \in first : ~Contains(rest, y)
               /\ rest = <<>> <=> c = Len(s)
<1> DEFINE head == SubSeq(s, 1, c)
           first == ToSet(head)
           rest == SubSeq(s, c + 1, Len(s))
           l == Len(s)
<1>1. /\ c \in Nat /\ l \in Nat /\ c <= l /\ DOMAIN s = 1 .. l
      /\ DOMAIN head = 1 .. c /\ \A i \in 1 .. c : head[i] = s[i] /\ head[i] \in S
  OBVIOUS
<1>2. first = {head[i] : i \in 1 .. c}
  BY <1>1 DEF ToSet
<1>3. rest \in Seq(S) /\ Len(rest) = l - c /\ DOMAIN rest = 1 .. (l - c)
  <2>1. rest \in Seq(S)
    BY <1>1
  <2>2. Len(rest) = IF c + 1 <= l THEN l - (c + 1) + 1 ELSE 0
    BY <1>1
  <2> HIDE DEF rest, l, head, first
  <2>3. Len(rest) = l - c
    BY <2>2, <1>1
  <2>4. DOMAIN rest = 1 .. Len(rest)
    BY <2>1
  <2> QED BY <2>1, <2>3, <2>4
<1>4. \A i \in 1 .. (l - c) : rest[i] = s[c + i]
  <2> SUFFICES ASSUME NEW i \in 1 .. (l - c)
               PROVE  rest[i] = s[c + i]
    OBVIOUS
  <2>1. rest[i] = s[i + (c + 1) - 1]
    BY <1>1
  <2> QED BY <2>1, <1>1
<1>e. rest = <<>> <=> Len(rest) = 0
  BY <1>3
<1> HIDE DEF head, first, rest, l
<1>5. \A i \in 1 .. l : i \in 1 .. c \/ (i - c \in 1 .. (l - c) /\ i = c + (i - c))
  BY <1>1
<1>6. \A y : /\ y \in first <=> \E i \in 1 .. c : s[i] = y
             /\ Contains(s, y) <=> \E i \in 1 .. l : s[i] = y
             /\ Contains(rest, y) <=> \E i \in 1 .. (l - c) : rest[i] = y
  BY <1>1, <1>2, <1>3, ContainsIs
<1>7. ASSUME NEW y
      PROVE  Contains(s, y) <=> y \in first \/ Contains(rest, y)
  <2>1. ASSUME NEW i \in 1 .. l, s[i] = y
        PROVE  y \in first \/ Contains(rest, y)
    BY <2>1, <1>4, <1>5, <1>6
  <2>2. ASSUME NEW i \in 1 .. c, s[i] = y
        PROVE  Contains(s, y)
    <3>1. i \in 1 .. l
      BY <1>1
    <3> QED BY <2>2, <3>1, <1>6
  <2>3. ASSUME NEW i \in 1 .. (l - c), rest[i] = y
        PROVE  Contains(s, y)
    <3>1. c + i \in 1 .. l
      BY <1>1
    <3> QED BY <2>3, <3>1, <1>4, <1>6
  <2> QED BY <2>1, <2>2, <2>3, <1>6
<1>a. head \in [1 .. c -> first]
  <2>1. [i \in 1 .. c |-> head[i]] \in [1 .. c -> first]
    BY <1>2
  <2>2. head = [i \in 1 .. c |-> head[i]]
    BY <1>1 DEF head
  <2> QED BY <2>1, <2>2
<1>8. IsFiniteSet(first) /\ first \subseteq S
  <2>1. IsFiniteSet(1 .. c)
    BY <1>1, FS_Interval
  <2>2. head \in Surjection(1 .. c, first)
    BY <1>2, <1>a DEF Surjection
  <2>3. IsFiniteSet(first)
    BY <2>1, <2>2, FS_Surjection
  <2> QED BY <2>3, <1>1, <1>2
<1>9. ASSUME IsInjective(s)
      PROVE  /\ IsInjective(rest) /\ Cardinality(first) = c
             /\ \A y \in first : ~Contains(rest, y)
  <2>1. \A i, j \in 1 .. l : s[i] = s[j] => i = j
    BY <1>9, <1>1 DEF IsInjective
  <2>2. IsInjective(rest)
    <3> SUFFICES ASSUME NEW i \in 1 .. (l - c), NEW j \in 1 .. (l - c), rest[i] = rest[j]
                 PROVE  i = j
      BY <1>3 DEF IsInjective
    <3>1. c + i \in 1 .. l /\ c + j \in 1 .. l
      BY <1>1
    <3>2. c + i = c + j
      BY <3>1, <1>4, <2>1
    <3> QED BY <3>2, <1>1
  <2>3. Cardinality(first) = c
    <3>1. \A i \in 1 .. c : i \in 1 .. l
      BY <1>1
    <3>2. head \in Injection(1 .. c, first)
      BY <3>1, <1>a, <1>1, <2>1 DEF Injection, IsInjective
    <3>3. head \in Surjection(1 .. c, first)
      BY <1>2, <1>a DEF Surjection
    <3>4. IsFiniteSet(1 .. c) /\ Cardinality(1 .. c) = c
      BY <1>1, FS_Interval
    <3> QED BY <3>2, <3>3, <3>4, FS_Surjection
  <2>4. ASSUME NEW y \in first, Contains(rest, y)
        PROVE  FALSE
    <3>1. PICK i \in 1 .. c : s[i] = y
      BY <1>6
    <3>2. PICK j \in 1 .. (l - c) : rest[j] = y
      BY <2>4, <1>6
    <3>3. i \in 1 .. l /\ c + j \in 1 .. l /\ i # c + j
      BY <1>1
    <3> QED BY <3>1, <3>2, <3>3, <1>4, <2>1
  <2> QED BY <2>2, <2>3, <2>4
<1>10. rest = <<>> <=> c = l
  BY <1>1, <1>3, <1>e
<1>11. \A y : Contains(s, y) <=> y \in first \/ Contains(rest, y)
  BY <1>7
<1> QED BY <1>3, <1>8, <1>9, <1>10, <1>11 DEF head, first, rest, l

LEMMA EmptyHasNone ==
    ASSUME NEW S
    PROVE  /\ <<>> \in Seq(S) /\ IsInjective(<<>>) /\ \A x : ~Contains(<<>>, x)
           /\ \A s \in Seq(S) : (\A x \in S : ~Contains(s, x)) => s = <<>>
<1>1. <<>> \in Seq(S) /\ DOMAIN <<>> = {}
  OBVIOUS
<1>2. IsInjective(<<>>) /\ \A x : ~Contains(<<>>, x)
  BY <1>1, ContainsIs DEF IsInjective
<1>3. ASSUME NEW s \in Seq(S), s # <<>>
      PROVE  \E x \in S : Contains(s, x)
  <2>1. 1 \in DOMAIN s /\ s[1] \in S
    BY <1>3
  <2> QED BY <2>1, ContainsIs
<1> QED BY <1>1, <1>2, <1>3

-----------------------------------------------------------------------------
(* The rows, their jobs and the queue.                                      *)

LEMMA ActiveIs ==
    ASSUME NEW m \in MType, NEW id
    PROVE  id \in Active(m) <=> id \in Ids /\ m.job[id] # "none"
BY DEF Active

LEMMA ActiveIsFinite ==
    ASSUME NEW m
    PROVE  IsFiniteSet(Active(m)) /\ Cardinality(Active(m)) \in Nat
<1>1. Active(m) \subseteq Ids
  BY DEF Active
<1>2. IsFiniteSet(Ids)
  BY DownloadsAssumption
<1> QED BY <1>1, <1>2, FS_Subset, FS_CardinalityType

\* Touch arms the save and does nothing else.
LEMMA TouchDoes ==
    ASSUME NEW m \in MType, NEW queue
    PROVE  /\ Touch(m) \in MType
           /\ Touch(m) = [m EXCEPT !.saveDue = m.saveDue \/ m.restored]
           /\ Current(Touch(m), queue)
           /\ Active(Touch(m)) = Active(m)
           /\ Whole(m) => Whole(Touch(m))
           /\ Pumped(m) => Pumped(Touch(m))
<1> DEFINE t == Touch(m)
<1>1. /\ t \in MType
      /\ t.running = m.running /\ t.available = m.available /\ t.restored = m.restored
      /\ t.rows = m.rows /\ t.state = m.state /\ t.pending = m.pending /\ t.job = m.job
      /\ t.before = m.before /\ t.cancelling = m.cancelling /\ t.waiting = m.waiting
      /\ t.stored = m.stored /\ t.saveDue = (m.saveDue \/ m.restored)
  BY DEF Touch, MType
<1>2. t = [m EXCEPT !.saveDue = m.saveDue \/ m.restored]
  BY DEF Touch
<1> HIDE DEF t
<1>3. Current(t, queue)
  BY <1>1 DEF Current, MType
<1>4. Active(t) = Active(m)
  BY <1>1 DEF Active
<1>5. Whole(m) => Whole(t)
  BY <1>1, <1>4 DEF Whole, Honest, MType
<1>6. Pumped(m) => Pumped(t)
  BY <1>1, <1>4 DEF Pumped
<1> QED BY <1>1, <1>2, <1>3, <1>4, <1>5, <1>6 DEF t

\* What is read of the members by what is saved of them.
LEMMA SavedSame ==
    ASSUME NEW m \in MType, NEW n \in MType, NEW queue,
           n.rows = m.rows, n.state = m.state, n.pending = m.pending, n.stored = m.stored
    PROVE  QueueOf(n) = QueueOf(m) /\ Unstored(n, queue) = Unstored(m, queue)
BY DEF QueueOf, Unstored

LEMMA CurrentSame ==
    ASSUME NEW m \in MType, NEW n \in MType, NEW queue, Current(m, queue),
           n.rows = m.rows, n.state = m.state, n.pending = m.pending, n.stored = m.stored,
           n.running = m.running, n.restored = m.restored, n.saveDue = m.saveDue
    PROVE  Current(n, queue)
<1>1. QueueOf(n) = QueueOf(m)
  BY SavedSame
<1>2. \A q : Unstored(n, q) = Unstored(m, q)
  BY SavedSame
<1> QED BY <1>1, <1>2 DEF Current

\* A step that leaves rows, states, jobs and queue as they are.
LEMMA WholeSame ==
    ASSUME NEW m \in MType, NEW n \in MType, Whole(m),
           n.rows = m.rows, n.state = m.state, n.pending = m.pending, n.job = m.job,
           n.running = m.running, n.restored = m.restored, n.saveDue => m.saveDue
    PROVE  Whole(n) /\ Active(n) = Active(m)
<1>1. Active(n) = Active(m)
  BY DEF Active
<1> QED BY <1>1 DEF Whole, Honest

\* pump() starts as many as there is room for, and where it cannot leaves word.
LEMMA PumpDoes ==
    ASSUME NEW s \in Hands, Whole(s.m), Current(s.m, db.queue), db \in DbType, resolving \in BOOLEAN
    PROVE  /\ Handled(Pump(s))
           /\ Pump(s).disk = s.disk /\ Pump(s).rows = s.rows
           /\ Pump(s).m.stored = s.m.stored /\ Pump(s).m.restored = s.m.restored
<1> DEFINE m == s.m
           room == MaxConcurrent - Cardinality(Active(m))
           count == IF room < Len(m.pending) THEN room ELSE Len(m.pending)
           started == ToSet(SubSeq(m.pending, 1, count))
           rest == SubSeq(m.pending, count + 1, Len(m.pending))
           begun == Begin(m, s.disk, started)
           n == [begun EXCEPT !.pending = rest]
           w == [m EXCEPT !.waiting = IF @ = "no" THEN "set" ELSE @]
<1>1. /\ m \in MType /\ s.disk \in DiskType /\ s.rows \in StoredType
      /\ m.pending \in Seq(Ids) /\ Len(m.pending) \in Nat
      /\ Cardinality(Active(m)) \in Nat /\ Cardinality(Active(m)) <= MaxConcurrent
      /\ MaxConcurrent \in Nat /\ room \in Nat
  BY ActiveIsFinite, DownloadsAssumption DEF Hands, MType, Whole
<1>n. count \in Int
  BY <1>1
<1>p. Pump(s) = CASE count <= 0 -> s
                  [] count > 0 /\ resolving -> [s EXCEPT !.m.waiting = IF @ = "no" THEN "set" ELSE @]
                  [] OTHER -> [s EXCEPT !.m = Touch([begun EXCEPT !.pending = SubSeq(@, count + 1, Len(@))])]
  BY DEF Pump
<1>2. CASE count <= 0
  <2>1. Pump(s) = s
    <3> HIDE DEF count, begun
    <3>1. ~(count > 0)
      BY <1>2, <1>n
    <3> QED BY <1>p, <1>2, <3>1
  <2>2. Pumped(m)
    <3>1. Len(m.pending) = 0 => m.pending = <<>>
      BY <1>1
    <3> QED BY <1>1, <1>2, <3>1 DEF Pumped
  <2> QED BY <2>1, <2>2 DEF Handled
<1>3. CASE count > 0 /\ resolving
  <2>1. Pump(s) = [s EXCEPT !.m = w]
    <3> HIDE DEF count, begun
    <3>1. ~(count <= 0)
      BY <1>n, <1>3
    <3>2. Pump(s) = [s EXCEPT !.m.waiting = IF @ = "no" THEN "set" ELSE @]
      BY <1>p, <1>3, <3>1
    <3> QED BY <3>2 DEF Hands
  <2>2. /\ w \in MType /\ w.waiting # "no"
        /\ w.running = m.running /\ w.restored = m.restored /\ w.saveDue = m.saveDue
        /\ w.rows = m.rows /\ w.state = m.state /\ w.pending = m.pending /\ w.job = m.job
        /\ w.stored = m.stored
    BY <1>1 DEF MType
  <2> HIDE DEF m, w, count
  <2>3. Whole(w)
    BY <1>1, <2>2, WholeSame DEF m
  <2>4. Current(w, db.queue)
    BY <1>1, <2>2, CurrentSame DEF m
  <2>5. Pumped(w)
    BY <2>2 DEF Pumped
  <2>6. [s EXCEPT !.m = w] \in Hands
    BY <1>1, <2>2 DEF Hands
  <2>7. /\ [s EXCEPT !.m = w].m = w
        /\ [s EXCEPT !.m = w].disk = s.disk /\ [s EXCEPT !.m = w].rows = s.rows
    BY DEF Hands
  <2> QED BY <2>1, <2>2, <2>3, <2>4, <2>5, <2>6, <2>7 DEF Handled, m
<1>4. CASE count > 0 /\ ~resolving
  <2>1. Pump(s) = [s EXCEPT !.m = Touch(n)]
    <3> HIDE DEF count
    <3>1. ~(count <= 0) /\ ~(count > 0 /\ resolving)
      BY <1>n, <1>4
    <3>2. begun.pending = m.pending
      BY <1>1 DEF Begin, MType
    <3> HIDE DEF begun
    <3>3. Pump(s) = [s EXCEPT !.m = Touch([begun EXCEPT !.pending = SubSeq(@, count + 1, Len(@))])]
      BY <1>p, <3>1
    <3> QED BY <3>2, <3>3
  <2>2. count \in 0 .. Len(m.pending) /\ count <= room
    BY <1>1, <1>4
  <2>3. /\ rest \in Seq(Ids) /\ started \subseteq Ids /\ IsFiniteSet(started)
        /\ \A y : Contains(m.pending, y) <=> y \in started \/ Contains(rest, y)
        /\ IsInjective(rest) /\ Cardinality(started) = count
        /\ \A y \in started : ~Contains(rest, y)
        /\ rest = <<>> <=> count = Len(m.pending)
    <3>1. IsInjective(m.pending)
      BY DEF Whole, Honest
    <3> HIDE DEF count, room, m
    <3> QED BY <1>1, <2>2, <3>1, CutIs
  <2> DEFINE states == [id \in Ids |-> IF id \in started THEN "downloading" ELSE m.state[id]]
             jobs == [id \in Ids |-> IF id \notin started THEN m.job[id]
                                     ELSE IF id \in Titled THEN "asking" ELSE "ytdlp"]
             befores == [id \in Ids |-> IF id \in started THEN s.disk[db.folder][id] ELSE m.before[id]]
  <2>b. begun = [m EXCEPT !.state = states, !.job = jobs, !.before = befores]
    <3> HIDE DEF count, room, started
    <3> QED BY <1>1 DEF Begin, MType
  <2>c. /\ states \in [Ids -> StateNames] /\ jobs \in [Ids -> JobNames]
        /\ befores \in [Ids -> SUBSET Kinds]
    <3> HIDE DEF count, room, started
    <3>1. db.folder \in Folders
      BY DEF DbType
    <3>2. \A id \in Ids : m.state[id] \in StateNames /\ "downloading" \in StateNames
      BY <1>1 DEF MType, StateNames
    <3>3. \A id \in Ids : m.job[id] \in JobNames /\ "asking" \in JobNames /\ "ytdlp" \in JobNames
      BY <1>1 DEF MType, JobNames
    <3>4. \A id \in Ids : m.before[id] \in SUBSET Kinds /\ s.disk[db.folder][id] \in SUBSET Kinds
      BY <1>1, <3>1 DEF MType, DiskType
    <3> HIDE DEF m
    <3>5. \A id \in Ids : states[id] \in StateNames /\ befores[id] \in SUBSET Kinds
      BY <3>2, <3>4
    <3>6. \A id \in Ids : jobs[id] \in JobNames
      BY <3>3
    <3> QED BY <3>5, <3>6
  <2>d. ASSUME NEW id \in Ids
        PROVE  /\ id \in started => states[id] = "downloading" /\ jobs[id] # "none"
               /\ id \notin started => states[id] = m.state[id] /\ jobs[id] = m.job[id]
    <3> HIDE DEF m, count, room, started
    <3> QED OBVIOUS
  <2> HIDE DEF begun, started, states, jobs, befores, rest, w
  <2>4. /\ n \in MType
        /\ n.running = m.running /\ n.restored = m.restored /\ n.rows = m.rows
        /\ n.pending = rest /\ n.state = states /\ n.job = jobs
        /\ n.waiting = m.waiting /\ n.saveDue = m.saveDue /\ n.stored = m.stored
    BY <1>1, <2>3, <2>b, <2>c DEF MType
  <2> HIDE DEF n
  <2>5. n \in MType
    BY <2>4
  <2>6. \A id \in started : m.state[id] = "queued" /\ m.job[id] = "none"
    BY <2>3, <1>1 DEF Whole, Honest, MType
  <2>7. Active(n) = Active(m) \cup started /\ Active(m) \cap started = {}
    <3>1. \A id \in Ids : n.job[id] # "none" <=> id \in started \/ m.job[id] # "none"
      BY <2>4, <2>d
    <3> HIDE DEF m, count, room
    <3> QED BY <3>1, <2>3, <2>6 DEF Active
  <2>8. Cardinality(Active(n)) = Cardinality(Active(m)) + count
    <3>1. Cardinality(Active(m) \cup started)
            = Cardinality(Active(m)) + Cardinality(started) - Cardinality(Active(m) \cap started)
      BY <2>3, ActiveIsFinite, FS_Union
    <3>2. Cardinality(Active(m) \cap started) = 0
      BY <2>7, FS_EmptySet
    <3>3. Cardinality(Active(m)) \in Nat /\ count \in Nat
      BY <1>1, <2>2
    <3> HIDE DEF m, count, room
    <3> QED BY <2>3, <2>7, <3>1, <3>2, <3>3
  <2>9. Honest(n)
    <3>1. ASSUME NEW id \in Ids
          PROVE  /\ n.state[id] = "queued" <=> Contains(n.pending, id)
                 /\ n.state[id] = "downloading" <=> n.job[id] # "none"
                 /\ n.state[id] # "none" <=> Contains(n.rows, id)
      <4>1. /\ m.state[id] = "queued" <=> Contains(m.pending, id)
            /\ m.state[id] = "downloading" <=> m.job[id] # "none"
            /\ m.state[id] # "none" <=> Contains(m.rows, id)
        BY DEF Whole, Honest
      <4> HIDE DEF m, count, room
      <4>4. CASE id \in started
        <5>1. n.state[id] = "downloading" /\ n.job[id] # "none"
          BY <4>4, <2>4, <2>d
        <5> QED BY <5>1, <4>1, <4>4, <2>3, <2>4, <2>6
      <4>5. CASE id \notin started
        <5>1. n.state[id] = m.state[id] /\ n.job[id] = m.job[id]
          BY <4>5, <2>4, <2>d
        <5> QED BY <5>1, <4>1, <4>5, <2>3, <2>4
      <4> QED BY <4>4, <4>5
    <3> QED BY <3>1, <2>3, <2>4 DEF Whole, Honest
  <2>10. Whole(n)
    <3>1. Cardinality(Active(n)) <= MaxConcurrent
      BY <1>1, <2>2, <2>8
    <3> QED BY <2>4, <2>5, <2>9, <3>1 DEF Whole
  <2>11. Pumped(n)
    <3>1. ASSUME n.pending # <<>>
          PROVE  Cardinality(Active(n)) = MaxConcurrent
      <4>1. count # Len(m.pending)
        BY <3>1, <2>3, <2>4
      <4>2. count = room
        BY <4>1
      <4> QED BY <4>2, <2>8, <1>1
    <3> QED BY <3>1, <1>1 DEF Pumped
  <2>12. Whole(Touch(n)) /\ Pumped(Touch(n)) /\ Current(Touch(n), db.queue) /\ Touch(n) \in MType
    BY <2>5, <2>10, <2>11, TouchDoes
  <2>13. Touch(n).stored = m.stored /\ Touch(n).restored = m.restored
    BY <2>4, <2>5 DEF Touch, MType
  <2> HIDE DEF m, count, room
  <2>14. /\ [s EXCEPT !.m = Touch(n)] \in Hands
         /\ [s EXCEPT !.m = Touch(n)].m = Touch(n)
         /\ [s EXCEPT !.m = Touch(n)].disk = s.disk /\ [s EXCEPT !.m = Touch(n)].rows = s.rows
    BY <1>1, <2>12 DEF Hands
  <2> QED BY <2>1, <2>12, <2>13, <2>14 DEF Handled, m
<1> QED
  <2>1. count \in Int
    BY <1>1
  <2>2. count <= 0 \/ count > 0
    BY <2>1
  <2> QED BY <1>2, <1>3, <1>4, <2>2

LEMMA WithoutIs ==
    ASSUME NEW s \in Seq(Ids), NEW id
    PROVE  /\ Without(s, id) \in Seq(Ids)
           /\ \A x \in Ids : Contains(Without(s, id), x) <=> x # id /\ Contains(s, x)
           /\ IsInjective(s) => IsInjective(Without(s, id))
           /\ s = <<>> => Without(s, id) = <<>>
<1>1. /\ Only(s, Ids \ {id}) \in Seq(Ids)
      /\ \A x : Contains(Only(s, Ids \ {id}), x) <=> x \in Ids \ {id} /\ Contains(s, x)
      /\ IsInjective(s) => IsInjective(Only(s, Ids \ {id}))
      /\ s = <<>> => Only(s, Ids \ {id}) = <<>>
  BY OnlyIs
<1> QED BY <1>1 DEF Without

\* A song settled, gone or failed, leaves the members whole.
LEMMA SettledIsWhole ==
    ASSUME NEW m \in MType, NEW n \in MType, NEW id \in Ids, Whole(m),
           n.running = m.running, n.restored = m.restored, n.saveDue => m.saveDue,
           ~Contains(n.pending, id), IsInjective(n.pending),
           n.job[id] = "none", n.state[id] \in {"none", "failed"},
           \A j \in Ids : j # id => /\ Contains(n.pending, j) <=> Contains(m.pending, j)
                                    /\ n.job[j] = m.job[j] /\ n.state[j] = m.state[j]
                                    /\ Contains(n.rows, j) <=> Contains(m.rows, j),
           Contains(n.rows, id) <=> n.state[id] # "none",
           IsInjective(n.rows), ~n.restored => n.rows = <<>>
    PROVE  Whole(n) /\ Active(n) = Active(m) \ {id}
<1>1. Active(n) = Active(m) \ {id}
  BY DEF Active
<1>2. Cardinality(Active(n)) <= MaxConcurrent
  <2>1. Cardinality(Active(n)) <= Cardinality(Active(m))
    BY <1>1, ActiveIsFinite, FS_Subset
  <2> QED BY <2>1, ActiveIsFinite, DownloadsAssumption DEF Whole
<1>3. ASSUME NEW j \in Ids
      PROVE  /\ n.state[j] = "queued" <=> Contains(n.pending, j)
             /\ n.state[j] = "downloading" <=> n.job[j] # "none"
             /\ n.state[j] # "none" <=> Contains(n.rows, j)
  <2>1. /\ m.state[j] = "queued" <=> Contains(m.pending, j)
        /\ m.state[j] = "downloading" <=> m.job[j] # "none"
        /\ m.state[j] # "none" <=> Contains(m.rows, j)
    BY DEF Whole, Honest
  <2>2. CASE j = id
    BY <2>2
  <2>3. CASE j # id
    BY <2>1, <2>3
  <2> QED BY <2>2, <2>3
<1> QED BY <1>1, <1>2, <1>3 DEF Whole, Honest

\* What a clearing of a song's files takes of the finished ones.
Spared(d, e, id, before) ==
    \A f \in Folders : \A j \in Ids : \A kind \in Finished :
       kind \in d[f][j] \ e[f][j] => f = db.folder /\ j = id /\ kind \notin before

LEMMA ClearedSpares ==
    ASSUME NEW d \in DiskType, NEW id \in Ids, NEW before, NEW kept, db \in DbType
    PROVE  LET e == [d EXCEPT ![db.folder][id] = Cleared(@, before, kept)]
           IN  e \in DiskType /\ Spared(d, e, id, before)
<1> DEFINE g == db.folder
           e == [d EXCEPT ![g][id] = Cleared(@, before, kept)]
           c == Cleared(d[g][id], before, kept)
<1>1. g \in Folders /\ d[g][id] \in SUBSET Kinds
  BY DEF DbType, DiskType
<1>2. c \subseteq d[g][id] /\ \A kind \in Finished : kind \in d[g][id] \ c => kind \notin before
  BY DEF Cleared
<1>3. e = [d EXCEPT ![g][id] = c]
  BY <1>1 DEF DiskType
<1> HIDE DEF e, c, g
<1>4. e \in DiskType
  BY <1>1, <1>2, <1>3 DEF DiskType
<1>5. \A f \in Folders : \A j \in Ids : e[f][j] = IF f = g /\ j = id THEN c ELSE d[f][j]
  BY <1>1, <1>2, <1>3 DEF DiskType
<1>6. Spared(d, e, id, before)
  BY <1>2, <1>5 DEF Spared, g
<1> QED BY <1>4, <1>6 DEF e, g

\* failed(): the song's own part-files go, it is gone or has failed, and the
\* next one starts.
LEMMA FailDoes ==
    ASSUME NEW s \in Hands, NEW id \in Ids, Whole(s.m), s.m.job[id] # "none",
           db \in DbType, resolving \in BOOLEAN
    PROVE  LET t == FailDownload(s, id) IN
           Handled(t) /\ t.rows = s.rows /\ Spared(s.disk, t.disk, id, s.m.before[id])
<1> DEFINE m == s.m
           c == [m EXCEPT !.job[id] = "none", !.before[id] = Kinds]
           e == [s.disk EXCEPT ![db.folder][id] = Cleared(@, m.before[id], KindsKept(m, id))]
           gone == id \in m.cancelling
           told == IF gone THEN Drop(c, id) ELSE Upsert(c, id, "failed")
           n == [told EXCEPT !.cancelling = @ \ {id}]
           p == [s EXCEPT !.m = Touch(n), !.disk = e]
<1>1. m \in MType /\ s.disk \in DiskType /\ s.rows \in StoredType
  BY DEF Hands
<1>2. WithoutPartials([s EXCEPT !.m.job[id] = "none"], id) = [s EXCEPT !.m = c, !.disk = e]
  BY <1>1 DEF WithoutPartials, KindsKept, Hands, MType
<1>3. c.cancelling = m.cancelling /\ c.state = m.state /\ c.rows = m.rows /\ c \in MType
  BY <1>1 DEF MType, JobNames
<1>4. FailDownload(s, id) = Pump(p)
  <2> DEFINE w == [s EXCEPT !.m = c, !.disk = e]
  <2>1. w.m = c
    BY DEF Hands
  <2>2. FailDownload(s, id)
          = LET told2 == IF id \in w.m.cancelling THEN Drop(w.m, id) ELSE Upsert(w.m, id, "failed")
            IN  Pump([w EXCEPT !.m = Touch([told2 EXCEPT !.cancelling = @ \ {id}])])
    BY <1>2 DEF FailDownload
  <2>3. [w EXCEPT !.m = Touch(n)] = p
    <3> HIDE DEF n, c, e
    <3> QED BY DEF Hands
  <2> HIDE DEF w, c, e, p
  <2> QED BY <1>3, <2>1, <2>2, <2>3
<1>5. /\ m.state[id] = "downloading" /\ ~Contains(m.pending, id) /\ Contains(m.rows, id)
      /\ IsInjective(m.pending) /\ IsInjective(m.rows)
      /\ m.restored /\ m.rows # <<>>
  <2>1. m.state[id] = "downloading" /\ ~Contains(m.pending, id) /\ Contains(m.rows, id)
    BY DEF Whole, Honest
  <2>2. m.rows # <<>>
    BY <2>1, EmptyHasNone
  <2> QED BY <2>1, <2>2 DEF Whole, Honest
<1>6. /\ e \in DiskType /\ Spared(s.disk, e, id, m.before[id])
  BY <1>1, ClearedSpares
<1> DEFINE rows == IF gone THEN Without(m.rows, id) ELSE m.rows
           end == IF gone THEN "none" ELSE "failed"
<1>7. /\ rows \in Seq(Ids) /\ IsInjective(rows)
      /\ \A j \in Ids : j # id => (Contains(rows, j) <=> Contains(m.rows, j))
      /\ Contains(rows, id) <=> ~gone
      /\ end \in {"none", "failed"} /\ (end = "none" <=> gone) /\ end \in StateNames
  <2>1. m.rows \in Seq(Ids)
    BY <1>1 DEF MType
  <2> HIDE DEF m
  <2> QED BY <1>5, <2>1, WithoutIs DEF StateNames
<1>8. told = [c EXCEPT !.rows = rows, !.state[id] = end]
  <2>1. CASE gone
    BY <2>1, <1>3, <1>5 DEF Drop, MType
  <2>2. CASE ~gone
    BY <2>2, <1>3, <1>5 DEF Upsert, MType
  <2> QED BY <2>1, <2>2
<1> HIDE DEF rows, end, told
<1>9. /\ n \in MType
      /\ n.running = m.running /\ n.restored = m.restored /\ n.saveDue = m.saveDue
      /\ n.pending = m.pending /\ n.rows = rows
      /\ n.job = [m.job EXCEPT ![id] = "none"] /\ n.state = [m.state EXCEPT ![id] = end]
  BY <1>1, <1>7, <1>8 DEF MType, JobNames
<1>10. /\ m.job \in [Ids -> JobNames] /\ m.state \in [Ids -> StateNames]
  BY <1>1 DEF MType
<1> HIDE DEF n, m, c, e, gone
<1>11. Whole(n)
  <2>1. \A j \in Ids : j # id => /\ Contains(n.pending, j) <=> Contains(m.pending, j)
                                 /\ n.job[j] = m.job[j] /\ n.state[j] = m.state[j]
                                 /\ Contains(n.rows, j) <=> Contains(m.rows, j)
    BY <1>7, <1>9, <1>10
  <2>2. /\ n.job[id] = "none" /\ n.state[id] \in {"none", "failed"}
        /\ Contains(n.rows, id) <=> n.state[id] # "none"
        /\ n.saveDue => m.saveDue
        /\ ~Contains(n.pending, id) /\ IsInjective(n.pending)
        /\ IsInjective(n.rows) /\ (~n.restored => n.rows = <<>>)
    BY <1>5, <1>7, <1>9, <1>10
  <2>3. Whole(m)
    BY DEF m
  <2> QED BY <1>1, <1>9, <2>1, <2>2, <2>3, SettledIsWhole
<1>12. Whole(Touch(n)) /\ Current(Touch(n), db.queue) /\ Touch(n) \in MType
  BY <1>9, <1>11, TouchDoes
<1>13. p \in Hands /\ p.m = Touch(n) /\ p.disk = e /\ p.rows = s.rows
  BY <1>1, <1>6, <1>12 DEF Hands
<1> HIDE DEF p
<1>14. Handled(Pump(p)) /\ Pump(p).disk = e /\ Pump(p).rows = s.rows
  BY <1>12, <1>13, PumpDoes
<1> QED BY <1>4, <1>6, <1>14 DEF m

\* complete(): the file is the song's, the rest of its attempt goes, the row
\* with it, and the next one starts.
LEMMA CompleteDoes ==
    ASSUME NEW s \in Hands, NEW id \in Ids, NEW kind \in Kinds,
           Whole(s.m), s.m.job[id] # "none", db \in DbType, resolving \in BOOLEAN
    PROVE  LET t == Complete(s, id, kind) IN
           Handled(t) /\ Spared(s.disk, t.disk, id, Kinds)
<1> DEFINE m == s.m
           file == [folder |-> db.folder, kind |-> kind]
           c == [m EXCEPT !.job[id] = "none", !.before[id] = Kinds, !.stored[id] = file]
           e == [s.disk EXCEPT ![db.folder][id] = Cleared(@, @, {kind})]
           n == Drop(c, id)
           p == [m |-> Touch(n), disk |-> e, rows |-> [s.rows EXCEPT ![id] = file]]
<1>1. /\ m \in MType /\ s.disk \in DiskType /\ s.rows \in StoredType
      /\ db.folder \in Folders /\ file \in Files
  BY DEF Hands, DbType, Files
<1>2. Complete(s, id, kind) = Pump(p)
  BY DEF Complete
<1>3. e \in DiskType /\ Spared(s.disk, e, id, Kinds)
  <2> DEFINE names == s.disk[db.folder][id]
  <2>1. e = [s.disk EXCEPT ![db.folder][id] = Cleared(@, names, {kind})]
    BY <1>1 DEF DiskType
  <2>2. /\ [s.disk EXCEPT ![db.folder][id] = Cleared(@, names, {kind})] \in DiskType
        /\ Spared(s.disk, [s.disk EXCEPT ![db.folder][id] = Cleared(@, names, {kind})], id, names)
    <3> HIDE DEF names
    <3> QED BY <1>1, ClearedSpares
  <2>3. e \in DiskType /\ Spared(s.disk, e, id, names)
    BY <2>1, <2>2
  <2> HIDE DEF e
  <2>4. Spared(s.disk, e, id, Kinds)
    BY <2>3 DEF Spared
  <2> QED BY <2>3, <2>4
<1>4. [s.rows EXCEPT ![id] = file] \in StoredType
  BY <1>1 DEF StoredType
<1>5. /\ m.state[id] = "downloading" /\ ~Contains(m.pending, id) /\ IsInjective(m.pending)
      /\ IsInjective(m.rows) /\ (~m.restored => m.rows = <<>>)
  BY DEF Whole, Honest
<1>6. c \in MType /\ c.rows = m.rows /\ c.state = m.state /\ c.job = [m.job EXCEPT ![id] = "none"]
      /\ c.running = m.running /\ c.restored = m.restored /\ c.saveDue = m.saveDue
      /\ c.pending = m.pending
  BY <1>1 DEF MType, JobNames, StoredType
<1> DEFINE rows == Without(m.rows, id)
<1>7. /\ rows \in Seq(Ids)
      /\ \A x \in Ids : Contains(rows, x) <=> x # id /\ Contains(m.rows, x)
      /\ IsInjective(rows) /\ (~m.restored => rows = <<>>)
  <2>1. m.rows \in Seq(Ids)
    BY <1>1 DEF MType
  <2> HIDE DEF m
  <2> QED BY <1>5, <2>1, WithoutIs
<1> HIDE DEF c, rows, file, e
<1>8. /\ n \in MType
      /\ n.running = m.running /\ n.restored = m.restored /\ n.saveDue = m.saveDue
      /\ n.pending = m.pending /\ n.rows = rows
      /\ n.job = [m.job EXCEPT ![id] = "none"] /\ n.state = [m.state EXCEPT ![id] = "none"]
  <2>1. n = [c EXCEPT !.rows = rows, !.state[id] = "none"]
    BY <1>6 DEF Drop, rows
  <2> HIDE DEF n
  <2> QED BY <1>6, <1>7, <2>1 DEF MType, StateNames
<1>9. /\ m.job \in [Ids -> JobNames] /\ m.state \in [Ids -> StateNames]
  BY <1>1 DEF MType
<1> HIDE DEF n, m
<1>10. Whole(n)
  <2>1. \A j \in Ids : j # id => /\ Contains(n.pending, j) <=> Contains(m.pending, j)
                                 /\ n.job[j] = m.job[j] /\ n.state[j] = m.state[j]
                                 /\ Contains(n.rows, j) <=> Contains(m.rows, j)
    BY <1>7, <1>8, <1>9
  <2>2. /\ n.job[id] = "none" /\ n.state[id] \in {"none", "failed"}
        /\ Contains(n.rows, id) <=> n.state[id] # "none"
        /\ n.saveDue => m.saveDue
        /\ ~Contains(n.pending, id) /\ IsInjective(n.pending)
        /\ IsInjective(n.rows) /\ (~n.restored => n.rows = <<>>)
    BY <1>5, <1>7, <1>8, <1>9
  <2>3. Whole(m)
    BY DEF m
  <2> QED BY <1>1, <1>8, <2>1, <2>2, <2>3, SettledIsWhole
<1>11. Whole(Touch(n)) /\ Current(Touch(n), db.queue) /\ Touch(n) \in MType
  BY <1>8, <1>10, TouchDoes
<1>12. p \in Hands /\ p.m = Touch(n) /\ p.disk = e
  BY <1>3, <1>4, <1>11 DEF Hands
<1> HIDE DEF p
<1>13. Handled(Pump(p)) /\ Pump(p).disk = e
  BY <1>11, <1>12, PumpDoes
<1> QED BY <1>2, <1>3, <1>13

LEMMA SparedMore ==
    ASSUME NEW d, NEW e, NEW id, NEW before, Spared(d, e, id, Kinds)
    PROVE  Spared(d, e, id, before)
BY DEF Spared, Finished

LEMMA SameSpared ==
    ASSUME NEW d, NEW id, NEW before
    PROVE  Spared(d, d, id, before)
BY DEF Spared

\* JioSaavn's copy fell through: yt-dlp's turn, or, the song cancelled, the end.
LEMMA SaavnFailedDoes ==
    ASSUME NEW s \in Hands, NEW id \in Ids, Whole(s.m), Pumped(s.m), s.m.job[id] = "saavn",
           db \in DbType, resolving \in BOOLEAN
    PROVE  LET t == SaavnFailed(s, id) IN
           Handled(t) /\ Spared(s.disk, t.disk, id, s.m.before[id])
<1> DEFINE m == s.m
           n == [m EXCEPT !.job[id] = "ytdlp"]
           e == [s.disk EXCEPT ![db.folder][id] = Cleared(@, m.before[id], KindsKept(m, id))]
           p == [s EXCEPT !.disk = e, !.m = Touch(n)]
<1>1. m \in MType /\ s.disk \in DiskType /\ s.rows \in StoredType
  BY DEF Hands
<1>2. CASE id \in m.cancelling
  <2>1. SaavnFailed(s, id) = FailDownload(s, id)
    BY <1>2 DEF SaavnFailed
  <2> QED BY <2>1, FailDoes
<1>3. CASE id \notin m.cancelling
  <2>1. SaavnFailed(s, id) = p
    <3>1. SaavnFailed(s, id) = [s EXCEPT !.disk[db.folder][id] = Cleared(@, m.before[id], KindsKept(m, id)),
                                         !.m = Touch([@ EXCEPT !.job[id] = "ytdlp"])]
      BY <1>3 DEF SaavnFailed
    <3> QED BY <3>1 DEF Hands
  <2>2. e \in DiskType /\ Spared(s.disk, e, id, m.before[id])
    BY <1>1, ClearedSpares
  <2>3. /\ n \in MType /\ n.running = m.running /\ n.restored = m.restored /\ n.saveDue = m.saveDue
        /\ n.rows = m.rows /\ n.state = m.state /\ n.pending = m.pending /\ n.waiting = m.waiting
        /\ n.job = [m.job EXCEPT ![id] = "ytdlp"] /\ m.job \in [Ids -> JobNames]
    BY <1>1 DEF MType, JobNames
  <2> HIDE DEF n, e
  <2>4. \A j \in Ids : n.job[j] # "none" <=> m.job[j] # "none"
    BY <2>3
  <2>5. Active(n) = Active(m)
    BY <2>4 DEF Active
  <2>6. Whole(n) /\ Pumped(n)
    <3>1. \A j \in Ids : m.state[j] = "downloading" <=> m.job[j] # "none"
      BY DEF Whole, Honest
    <3> QED BY <2>3, <2>4, <2>5, <3>1 DEF Whole, Honest, Pumped
  <2>7. Whole(Touch(n)) /\ Pumped(Touch(n)) /\ Current(Touch(n), db.queue) /\ Touch(n) \in MType
    BY <2>3, <2>6, TouchDoes
  <2>8. p \in Hands /\ p.m = Touch(n) /\ p.disk = e
    BY <1>1, <2>2, <2>7 DEF Hands
  <2> HIDE DEF p
  <2> QED BY <2>1, <2>2, <2>7, <2>8 DEF Handled
<1> QED BY <1>2, <1>3

LEMMA CancelRequestDoes ==
    ASSUME NEW s \in Hands, NEW id \in Ids, NEW finished \in BOOLEAN, Whole(s.m), Pumped(s.m),
           s.m.job[id] # "none", finished => "done" \in Kinds, db \in DbType, resolving \in BOOLEAN
    PROVE  LET t == CancelRequest(s, id, finished) IN
           Handled(t) /\ Spared(s.disk, t.disk, id, s.m.before[id])
<1> DEFINE m == s.m
           n == [m EXCEPT !.cancelling = @ \cup {id}]
           asked == [s EXCEPT !.m = n]
           t == CancelRequest(s, id, finished)
<1>1. m \in MType /\ s.disk \in DiskType /\ s.rows \in StoredType
  BY DEF Hands
<1>2. t = IF m.job[id] = "saavn" THEN SaavnFailed(asked, id)
          ELSE IF finished THEN Complete(asked, id, "done")
          ELSE FailDownload(asked, id)
  <2>1. [s EXCEPT !.m.cancelling = @ \cup {id}] = asked
    BY DEF Hands
  <2> QED BY <2>1 DEF CancelRequest
<1>3. /\ n \in MType /\ n.running = m.running /\ n.restored = m.restored /\ n.saveDue = m.saveDue
      /\ n.rows = m.rows /\ n.state = m.state /\ n.pending = m.pending /\ n.waiting = m.waiting
      /\ n.job = m.job /\ n.before = m.before
  BY <1>1 DEF MType
<1> HIDE DEF n
<1>4. Whole(n) /\ Active(n) = Active(m)
  BY <1>1, <1>3, WholeSame
<1>5. Pumped(n)
  BY <1>3, <1>4 DEF Pumped
<1>6. asked \in Hands /\ asked.m = n /\ asked.disk = s.disk
  BY <1>1, <1>3 DEF Hands
<1> HIDE DEF asked, t
<1>7. CASE m.job[id] = "saavn"
  <2>1. Handled(SaavnFailed(asked, id))
        /\ Spared(asked.disk, SaavnFailed(asked, id).disk, id, asked.m.before[id])
    BY <1>3, <1>4, <1>5, <1>6, <1>7, SaavnFailedDoes
  <2>2. t = SaavnFailed(asked, id)
    BY <1>2, <1>7
  <2> QED BY <1>3, <1>6, <2>1, <2>2 DEF t
<1>8. CASE m.job[id] # "saavn" /\ finished
  <2>1. Handled(Complete(asked, id, "done"))
        /\ Spared(asked.disk, Complete(asked, id, "done").disk, id, Kinds)
    BY <1>3, <1>4, <1>6, <1>8, CompleteDoes
  <2>2. t = Complete(asked, id, "done")
    BY <1>2, <1>8
  <2>3. Spared(s.disk, t.disk, id, m.before[id])
    BY <1>6, <2>1, <2>2, SparedMore
  <2> QED BY <2>1, <2>2, <2>3 DEF t
<1>9. CASE m.job[id] # "saavn" /\ ~finished
  <2>1. Handled(FailDownload(asked, id))
        /\ Spared(asked.disk, FailDownload(asked, id).disk, id, asked.m.before[id])
    BY <1>3, <1>4, <1>6, <1>9, FailDoes
  <2>2. t = FailDownload(asked, id)
    BY <1>2, <1>9
  <2> QED BY <1>3, <1>6, <2>1, <2>2 DEF t
<1> QED BY <1>7, <1>8, <1>9

\* A song dropped from the rows.
LEMMA DropDoes ==
    ASSUME NEW m \in MType, NEW c \in MType, NEW id \in Ids, Whole(m), m.state[id] # "downloading" \/ c.job[id] = "none",
           c.running = m.running, c.restored = m.restored, c.saveDue = m.saveDue,
           c.rows = m.rows, c.state = m.state,
           ~Contains(c.pending, id), IsInjective(c.pending),
           \A j \in Ids : j # id => (Contains(c.pending, j) <=> Contains(m.pending, j)) /\ c.job[j] = m.job[j],
           c.job[id] \in {"none", m.job[id]}
    PROVE  LET n == Drop(c, id) IN
           /\ n \in MType /\ Whole(n) /\ Active(n) = Active(m) \ {id}
           /\ n.pending = c.pending /\ n.waiting = c.waiting /\ n.stored = c.stored
<1> DEFINE rows == Without(m.rows, id)
           n == Drop(c, id)
<1>1. /\ m.rows \in Seq(Ids) /\ m.state \in [Ids -> StateNames] /\ m.job \in [Ids -> JobNames]
      /\ c.job \in [Ids -> JobNames]
  BY DEF MType
<1>2. /\ rows \in Seq(Ids)
      /\ \A x \in Ids : Contains(rows, x) <=> x # id /\ Contains(m.rows, x)
      /\ IsInjective(rows) /\ (~m.restored => rows = <<>>)
  <2>1. IsInjective(m.rows) /\ (~m.restored => m.rows = <<>>)
    BY DEF Whole, Honest
  <2> QED BY <1>1, <2>1, WithoutIs
<1>3. n = [c EXCEPT !.rows = rows, !.state[id] = "none"]
  BY DEF Drop
<1> HIDE DEF n, rows
<1>4. /\ n \in MType
      /\ n.running = m.running /\ n.restored = m.restored /\ n.saveDue = m.saveDue
      /\ n.pending = c.pending /\ n.rows = rows /\ n.job = c.job
      /\ n.state = [m.state EXCEPT ![id] = "none"]
      /\ n.waiting = c.waiting /\ n.stored = c.stored
  BY <1>2, <1>3 DEF MType, StateNames
<1>5. c.job[id] = "none"
  BY DEF Whole, Honest
<1>6. \A j \in Ids : j # id => /\ Contains(n.pending, j) <=> Contains(m.pending, j)
                               /\ n.job[j] = m.job[j] /\ n.state[j] = m.state[j]
                               /\ Contains(n.rows, j) <=> Contains(m.rows, j)
  BY <1>1, <1>2, <1>4
<1>7. /\ n.job[id] = "none" /\ n.state[id] \in {"none", "failed"}
      /\ Contains(n.rows, id) <=> n.state[id] # "none"
      /\ n.saveDue => m.saveDue
      /\ ~Contains(n.pending, id) /\ IsInjective(n.pending)
      /\ IsInjective(n.rows) /\ (~n.restored => n.rows = <<>>)
  BY <1>1, <1>2, <1>4, <1>5
<1>8. Whole(n) /\ Active(n) = Active(m) \ {id}
  BY <1>4, <1>6, <1>7, SettledIsWhole
<1> QED BY <1>4, <1>8 DEF n

\* cancel(), wherever the song is.
LEMMA CancelSongDoes ==
    ASSUME NEW s \in Hands, NEW id \in Ids, NEW finished \in BOOLEAN, Whole(s.m), Pumped(s.m),
           finished => "done" \in Kinds, db \in DbType, resolving \in BOOLEAN
    PROVE  LET t == CancelSong(s, id, finished) IN
           Handled(t) /\ Spared(s.disk, t.disk, id, s.m.before[id])
                      /\ (s.m.job[id] = "none" => t.disk = s.disk)
<1> DEFINE m == s.m
           t == CancelSong(s, id, finished)
<1>1. /\ m \in MType /\ s.disk \in DiskType /\ s.rows \in StoredType
      /\ m.job \in [Ids -> JobNames] /\ m.pending \in Seq(Ids)
  BY DEF Hands, MType
<1>2. /\ Contains(m.pending, id) => m.job[id] = "none" /\ m.state[id] # "downloading"
      /\ m.state[id] = "downloading" <=> m.job[id] # "none"
      /\ IsInjective(m.pending)
  BY DEF Whole, Honest
<1>3. /\ Contains(m.pending, id) =>
           t = [s EXCEPT !.m = Touch(Drop([m EXCEPT !.pending = Without(@, id)], id))]
      /\ m.job[id] = "asking" =>
           t = Pump([s EXCEPT !.m = Touch(Drop([@ EXCEPT !.job[id] = "none", !.before[id] = Kinds], id))])
      /\ m.job[id] \in {"saavn", "ytdlp"} => t = CancelRequest(s, id, finished)
      /\ m.job[id] = "none" /\ ~Contains(m.pending, id) => t = [s EXCEPT !.m = Touch(Drop(@, id))]
  BY <1>2 DEF CancelSong
<1> HIDE DEF t
<1>4. CASE Contains(m.pending, id)
  <2> DEFINE w == Without(m.pending, id)
             c == [m EXCEPT !.pending = Without(@, id)]
             n == Drop(c, id)
  <2>1. t = [s EXCEPT !.m = Touch(n)]
    BY <1>3, <1>4
  <2>2. /\ w \in Seq(Ids) /\ IsInjective(w)
        /\ \A x \in Ids : Contains(w, x) <=> x # id /\ Contains(m.pending, x)
        /\ w # <<>> => m.pending # <<>>
    <3> HIDE DEF m
    <3> QED BY <1>1, <1>2, WithoutIs
  <2>c. c = [m EXCEPT !.pending = w]
    BY <1>1 DEF MType
  <2> HIDE DEF w, c
  <2>3. /\ c \in MType /\ c.running = m.running /\ c.restored = m.restored /\ c.saveDue = m.saveDue
        /\ c.rows = m.rows /\ c.state = m.state /\ c.pending = w /\ c.job = m.job
        /\ c.waiting = m.waiting /\ c.stored = m.stored
    BY <1>1, <2>2, <2>c DEF MType
  <2> HIDE DEF m
  <2>4. /\ n \in MType /\ Whole(n) /\ Active(n) = Active(m) \ {id}
        /\ n.pending = c.pending /\ n.waiting = c.waiting /\ n.stored = c.stored
    <3>1. Whole(m)
      BY DEF m
    <3> QED BY <1>1, <1>2, <1>4, <2>2, <2>3, <3>1, DropDoes
  <2> HIDE DEF n
  <2>5. Active(n) = Active(m)
    BY <1>2, <1>4, <2>4 DEF Active
  <2>6. Pumped(n)
    <3>1. Pumped(m)
      BY DEF m
    <3> QED BY <2>2, <2>3, <2>4, <2>5, <3>1 DEF Pumped
  <2>7. Whole(Touch(n)) /\ Pumped(Touch(n)) /\ Current(Touch(n), db.queue) /\ Touch(n) \in MType
    BY <2>4, <2>6, TouchDoes
  <2>8. t \in Hands /\ t.m = Touch(n) /\ t.disk = s.disk
    BY <1>1, <2>1, <2>7 DEF Hands
  <2> QED BY <2>7, <2>8, SameSpared DEF Handled, t
<1>5. CASE m.job[id] = "asking"
  <2> DEFINE c == [m EXCEPT !.job[id] = "none", !.before[id] = Kinds]
             n == Drop(c, id)
             p == [s EXCEPT !.m = Touch(n)]
  <2>1. t = Pump(p)
    BY <1>3, <1>5
  <2>3. /\ c \in MType /\ c.running = m.running /\ c.restored = m.restored /\ c.saveDue = m.saveDue
        /\ c.rows = m.rows /\ c.state = m.state /\ c.pending = m.pending
        /\ c.job = [m.job EXCEPT ![id] = "none"]
    BY <1>1 DEF MType, JobNames
  <2> HIDE DEF c, m
  <2>4. n \in MType /\ Whole(n)
    <3>1. Whole(m) /\ ~Contains(m.pending, id)
      BY <1>2, <1>5 DEF m
    <3> QED BY <1>1, <1>2, <1>5, <2>3, <3>1, DropDoes
  <2> HIDE DEF n
  <2>5. Whole(Touch(n)) /\ Current(Touch(n), db.queue) /\ Touch(n) \in MType
    BY <2>4, TouchDoes
  <2>6. p \in Hands /\ p.m = Touch(n) /\ p.disk = s.disk
    BY <1>1, <2>5 DEF Hands
  <2> HIDE DEF p
  <2>7. Handled(Pump(p)) /\ Pump(p).disk = s.disk
    BY <2>5, <2>6, PumpDoes
  <2> QED BY <2>1, <2>7, SameSpared DEF t
<1>6. CASE m.job[id] \in {"saavn", "ytdlp"}
  <2>1. t = CancelRequest(s, id, finished)
    BY <1>3, <1>6
  <2>2. s.m.job[id] # "none"
    BY <1>6
  <2>3. Handled(CancelRequest(s, id, finished))
        /\ Spared(s.disk, CancelRequest(s, id, finished).disk, id, s.m.before[id])
    BY <2>2, CancelRequestDoes
  <2> QED BY <2>1, <2>2, <2>3 DEF t
<1>7. CASE m.job[id] = "none" /\ ~Contains(m.pending, id)
  <2> DEFINE n == Drop(m, id)
  <2>1. t = [s EXCEPT !.m = Touch(n)]
    BY <1>3, <1>7
  <2> HIDE DEF m
  <2>4. /\ n \in MType /\ Whole(n) /\ Active(n) = Active(m) \ {id}
        /\ n.pending = m.pending /\ n.waiting = m.waiting
    <3>1. Whole(m)
      BY DEF m
    <3> QED BY <1>1, <1>2, <1>7, <3>1, DropDoes
  <2> HIDE DEF n
  <2>5. Active(n) = Active(m)
    BY <1>7, <2>4 DEF Active
  <2>6. Pumped(n)
    <3>1. Pumped(m)
      BY DEF m
    <3> QED BY <2>4, <2>5, <3>1 DEF Pumped
  <2>7. Whole(Touch(n)) /\ Pumped(Touch(n)) /\ Current(Touch(n), db.queue) /\ Touch(n) \in MType
    BY <2>4, <2>6, TouchDoes
  <2>8. t \in Hands /\ t.m = Touch(n) /\ t.disk = s.disk
    BY <1>1, <2>1, <2>7 DEF Hands
  <2> QED BY <2>7, <2>8, SameSpared DEF Handled, t
<1> QED
  <2>1. m.job[id] \in {"none", "asking", "saavn", "ytdlp"}
    BY <1>1 DEF JobNames
  <2> QED BY <1>4, <1>5, <1>6, <1>7, <2>1

-----------------------------------------------------------------------------
(* The queue on disk.                                                       *)

LEMMA RowsIs ==
    ASSUME NEW s \in Seq(Ids), NEW b \in BOOLEAN
    PROVE  LET a == [i \in DOMAIN s |-> [id |-> s[i], failed |-> b]]
           IN  /\ a \in Seq(QueueRows) /\ DOMAIN a = DOMAIN s /\ Len(a) = Len(s)
               /\ \A i \in DOMAIN s : a[i].id = s[i]
               /\ s = <<>> => a = <<>>
<1> DEFINE a == [i \in DOMAIN s |-> [id |-> s[i], failed |-> b]]
<1>1. DOMAIN s = 1 .. Len(s) /\ Len(s) \in Nat /\ \A i \in DOMAIN s : s[i] \in Ids
  OBVIOUS
<1>2. DOMAIN a = DOMAIN s /\ \A i \in DOMAIN s : a[i] = [id |-> s[i], failed |-> b] /\ a[i].id = s[i]
  OBVIOUS
<1>3. \A i \in DOMAIN s : [id |-> s[i], failed |-> b] \in QueueRows
  BY <1>1 DEF QueueRows
<1>4. a \in [1 .. Len(s) -> QueueRows]
  BY <1>1, <1>3
<1> HIDE DEF a
<1>5. a \in Seq(QueueRows)
  BY <1>1, <1>4
<1>6. Len(a) = Len(s)
  BY <1>1, <1>2, <1>5
<1>7. s = <<>> => a = <<>>
  BY <1>5, <1>6
<1> QED BY <1>2, <1>5, <1>6, <1>7 DEF a

\* What is saved is a queue, each song once, and empty when nothing is there.
LEMMA QueueIs ==
    ASSUME NEW m \in MType, Honest(m)
    PROVE  /\ QueueOf(m) \in Seq(QueueRows) /\ Keyed(QueueOf(m))
           /\ m.rows = <<>> /\ m.pending = <<>> => QueueOf(m) = <<>>
<1> DEFINE going == {id \in Ids : m.state[id] # "failed" /\ ~Contains(m.pending, id)}
           lost == {id \in Ids : m.state[id] = "failed"}
           running == Only(m.rows, going)
           failed == Only(m.rows, lost)
           first == running \o m.pending
           a == [i \in DOMAIN first |-> [id |-> first[i], failed |-> FALSE]]
           b == [i \in DOMAIN failed |-> [id |-> failed[i], failed |-> TRUE]]
<1>1. m.rows \in Seq(Ids) /\ m.pending \in Seq(Ids) /\ IsInjective(m.rows) /\ IsInjective(m.pending)
  BY DEF MType, Honest
<1>2. QueueOf(m) = a \o b
  BY DEF QueueOf
<1>3. /\ \A id : id \in going => id \in Ids /\ m.state[id] # "failed" /\ ~Contains(m.pending, id)
      /\ \A id : id \in lost => id \in Ids /\ m.state[id] = "failed"
  OBVIOUS
<1> HIDE DEF going, lost
<1>4. /\ running \in Seq(Ids) /\ IsInjective(running) /\ (m.rows = <<>> => running = <<>>)
      /\ \A x : Contains(running, x) <=> x \in going /\ Contains(m.rows, x)
  BY <1>1, OnlyIs
<1>5. /\ failed \in Seq(Ids) /\ IsInjective(failed) /\ (m.rows = <<>> => failed = <<>>)
      /\ \A x : Contains(failed, x) <=> x \in lost /\ Contains(m.rows, x)
  BY <1>1, OnlyIs
<1> HIDE DEF running, failed
<1>6. /\ first \in Seq(Ids)
      /\ \A y : Contains(first, y) <=> Contains(running, y) \/ Contains(m.pending, y)
      /\ first = <<>> <=> running = <<>> /\ m.pending = <<>>
  BY <1>1, <1>4, ConcatIs
<1>7. IsInjective(first)
  <2>1. \A y : ~(Contains(running, y) /\ Contains(m.pending, y))
    BY <1>3, <1>4
  <2> QED BY <1>1, <1>4, <2>1, ConcatIs
<1> HIDE DEF first
<1>8. \A y : ~(Contains(first, y) /\ Contains(failed, y))
  <2> SUFFICES ASSUME NEW y, Contains(first, y), Contains(failed, y)
               PROVE  FALSE
    OBVIOUS
  <2>1. y \in Ids /\ m.state[y] = "failed"
    BY <1>3, <1>5
  <2>2. Contains(m.pending, y)
    BY <1>3, <1>4, <1>6, <2>1
  <2> QED BY <2>1, <2>2 DEF Honest
<1>9. IsInjective(first \o failed) /\ first \o failed \in Seq(Ids)
  BY <1>5, <1>6, <1>7, <1>8, ConcatIs
<1>10. /\ a \in Seq(QueueRows) /\ DOMAIN a = DOMAIN first /\ Len(a) = Len(first)
       /\ (\A i \in DOMAIN first : a[i].id = first[i]) /\ (first = <<>> => a = <<>>)
  BY <1>6, RowsIs
<1>11. /\ b \in Seq(QueueRows) /\ DOMAIN b = DOMAIN failed /\ Len(b) = Len(failed)
       /\ (\A i \in DOMAIN failed : b[i].id = failed[i]) /\ (failed = <<>> => b = <<>>)
  BY <1>5, RowsIs
<1> HIDE DEF a, b
<1>12. a \o b \in Seq(QueueRows) /\ (a \o b = <<>> <=> a = <<>> /\ b = <<>>)
  BY <1>10, <1>11, ConcatIs
<1>13. /\ DOMAIN (a \o b) = DOMAIN (first \o failed)
       /\ \A i \in DOMAIN (a \o b) : (a \o b)[i].id = (first \o failed)[i]
  <2> DEFINE la == Len(a)
             lb == Len(b)
  <2>1. /\ la \in Nat /\ lb \in Nat /\ DOMAIN a = 1 .. la /\ DOMAIN b = 1 .. lb
        /\ Len(first) = la /\ Len(failed) = lb
        /\ DOMAIN (a \o b) = 1 .. (la + lb) /\ DOMAIN (first \o failed) = 1 .. (la + lb)
    <3>1. /\ la \in Nat /\ lb \in Nat /\ DOMAIN a = 1 .. la /\ DOMAIN b = 1 .. lb
          /\ Len(first) = la /\ Len(failed) = lb
      BY <1>5, <1>6, <1>10, <1>11
    <3>2. DOMAIN (a \o b) = 1 .. (Len(a) + Len(b))
      BY <1>10, <1>11
    <3>3. DOMAIN (first \o failed) = 1 .. (Len(first) + Len(failed))
      BY <1>5, <1>6
    <3> QED BY <3>1, <3>2, <3>3
  <2>2. \A i \in 1 .. (la + lb) :
           /\ (a \o b)[i] = IF i <= la THEN a[i] ELSE b[i - la]
           /\ (first \o failed)[i] = IF i <= la THEN first[i] ELSE failed[i - la]
    BY <1>5, <1>6, <1>10, <1>11, <2>1
  <2> HIDE DEF la, lb
  <2>3. ASSUME NEW i \in 1 .. (la + lb)
        PROVE  (a \o b)[i].id = (first \o failed)[i]
    <3>1. CASE i <= la
      <4>1. i \in DOMAIN first
        BY <2>1, <1>10, <3>1
      <4> QED BY <3>1, <4>1, <2>2, <1>10
    <3>2. CASE ~(i <= la)
      <4>1. i - la \in DOMAIN failed
        BY <2>1, <1>11, <3>2
      <4> QED BY <3>2, <4>1, <2>2, <1>11
    <3> QED BY <3>1, <3>2
  <2> QED BY <2>1, <2>3
<1>14. Keyed(a \o b)
  <2>1. \A i, j \in DOMAIN (first \o failed) : (first \o failed)[i] = (first \o failed)[j] => i = j
    BY <1>9 DEF IsInjective
  <2> QED BY <1>13, <2>1 DEF Keyed
<1>15. m.rows = <<>> /\ m.pending = <<>> => a \o b = <<>>
  BY <1>4, <1>5, <1>6, <1>10, <1>11, <1>12
<1> QED BY <1>2, <1>12, <1>14, <1>15

\* The songs of a queue.
SongsOf(qs) == [i \in DOMAIN qs |-> qs[i].id]

LEMMA SongsAre ==
    ASSUME NEW qs \in Seq(QueueRows), Keyed(qs)
    PROVE  /\ SongsOf(qs) \in Seq(Ids) /\ IsInjective(SongsOf(qs))
           /\ \A x : Contains(SongsOf(qs), x) <=> \E i \in DOMAIN qs : qs[i].id = x
<1> DEFINE o == SongsOf(qs)
<1>1. /\ DOMAIN qs = 1 .. Len(qs) /\ Len(qs) \in Nat /\ DOMAIN o = DOMAIN qs
      /\ \A i \in DOMAIN qs : o[i] = qs[i].id /\ qs[i].id \in Ids
  <2>1. DOMAIN qs = 1 .. Len(qs) /\ Len(qs) \in Nat /\ \A i \in DOMAIN qs : qs[i] \in QueueRows
    OBVIOUS
  <2>2. DOMAIN o = DOMAIN qs /\ \A i \in DOMAIN qs : o[i] = qs[i].id
    BY DEF SongsOf
  <2> QED BY <2>1, <2>2 DEF QueueRows
<1>2. o \in [1 .. Len(qs) -> Ids]
  BY <1>1 DEF SongsOf
<1> HIDE DEF o
<1>3. o \in Seq(Ids)
  BY <1>1, <1>2
<1>4. \A x : Contains(o, x) <=> \E i \in DOMAIN qs : qs[i].id = x
  BY <1>1, <1>3, ContainsIs
<1>5. IsInjective(o)
  BY <1>1 DEF IsInjective, Keyed
<1> QED BY <1>3, <1>4, <1>5 DEF o

\* A manager that has restored nothing has nothing.
LEMMA NothingYet ==
    ASSUME NEW m \in MType, Whole(m), m.rows = <<>>
    PROVE  /\ m.pending = <<>> /\ Active(m) = {}
           /\ \A id \in Ids : m.state[id] = "none" /\ m.job[id] = "none"
<1>1. \A id \in Ids : m.state[id] = "none" /\ m.job[id] = "none" /\ ~Contains(m.pending, id)
  BY EmptyHasNone DEF Whole, Honest
<1>2. m.pending = <<>>
  BY <1>1, EmptyHasNone DEF MType
<1> QED BY <1>1, <1>2 DEF Active

\* restoreQueue: the last launch's queue, back once and whole.
LEMMA RestoreQueueDoes ==
    ASSUME NEW s \in Hands, Whole(s.m), Pumped(s.m), Current(s.m, db.queue), s.m.running,
           db \in DbType, Keyed(db.queue), resolving \in BOOLEAN
    PROVE  LET t == RestoreQueue(s) IN
           /\ Handled(t) /\ t.disk = s.disk /\ t.rows = s.rows /\ t.m.stored = s.m.stored
           /\ t.m.available => t.m.restored
<1> DEFINE m == s.m
           t == RestoreQueue(s)
           left == Only(db.queue, {q \in QueueRows : m.stored[q.id] = NoFile})
           wait == Only(left, {q \in QueueRows : ~q.failed})
           states == [id \in Ids |-> CASE [id |-> id, failed |-> TRUE] \in ToSet(left) -> "failed"
                                       [] [id |-> id, failed |-> FALSE] \in ToSet(left) -> "queued"
                                       [] OTHER -> "none"]
           back == [m EXCEPT !.restored = TRUE, !.rows = SongsOf(left), !.state = states,
                             !.pending = SongsOf(wait)]
           n == [m EXCEPT !.restored = TRUE]
           p == [s EXCEPT !.m = Touch(back)]
<1>1. /\ m \in MType /\ s.disk \in DiskType /\ s.rows \in StoredType
      /\ db.queue \in Seq(QueueRows)
  BY DEF Hands, DbType
<1>2. t = IF m.restored \/ ~m.available THEN s
          ELSE IF left = <<>> THEN [s EXCEPT !.m = n] ELSE Pump(p)
  <2>1. [s EXCEPT !.m.restored = TRUE] = [s EXCEPT !.m = n]
    BY DEF Hands
  <2> QED BY <2>1 DEF RestoreQueue, SongsOf
<1> HIDE DEF t
<1>3. CASE m.restored \/ ~m.available
  BY <1>2, <1>3 DEF Handled, t
<1>4. ASSUME ~m.restored
      PROVE  /\ m.rows = <<>> /\ m.pending = <<>> /\ Active(m) = {} /\ ~m.saveDue
             /\ \A id \in Ids : m.state[id] = "none" /\ m.job[id] = "none"
  BY <1>1, <1>4, NothingYet DEF Whole
<1>5. CASE ~m.restored /\ left = <<>> /\ m.available
  <2>1. t = [s EXCEPT !.m = n]
    BY <1>2, <1>5
  <2>2. /\ n \in MType /\ n.running = m.running /\ n.restored = TRUE /\ n.saveDue = m.saveDue
        /\ n.rows = m.rows /\ n.state = m.state /\ n.pending = m.pending /\ n.job = m.job
        /\ n.waiting = m.waiting /\ n.stored = m.stored
    BY <1>1 DEF MType
  <2> HIDE DEF n
  <2>3. Honest(n) /\ Active(n) = Active(m)
    BY <2>2 DEF Whole, Honest, Active
  <2>4. Whole(n) /\ Pumped(n)
    BY <1>4, <1>5, <2>2, <2>3 DEF Whole, Pumped
  <2>5. QueueOf(n) = <<>>
    BY <1>4, <1>5, <2>2, <2>3, QueueIs
  <2>6. Unstored(n, QueueOf(n)) = <<>>
    BY <2>5, OnlyIs, EmptyHasNone DEF Unstored
  <2>7. Unstored(n, db.queue) = <<>>
    BY <1>5, <2>2 DEF Unstored
  <2>8. Current(n, db.queue)
    BY <2>6, <2>7 DEF Current
  <2>9. t \in Hands /\ t.m = n /\ t.disk = s.disk /\ t.rows = s.rows
    BY <1>1, <2>1, <2>2 DEF Hands
  <2> QED BY <2>2, <2>4, <2>8, <2>9 DEF Handled, t
<1>6. CASE ~m.restored /\ left # <<>> /\ m.available
  <2>1. t = Pump(p)
    BY <1>2, <1>6
  <2>2. left \in Seq(QueueRows) /\ Keyed(left)
    <3> HIDE DEF m
    <3> QED BY <1>1, OnlyIs, OnlyKeyed
  <2>3. \A q : q \in ToSet(left) <=> \E i \in DOMAIN left : left[i] = q
    BY DEF ToSet
  <2> HIDE DEF left
  <2>4. wait \in Seq(QueueRows) /\ Keyed(wait)
    BY <2>2, OnlyIs, OnlyKeyed
  <2>5. \A q : Contains(wait, q) <=> q \in QueueRows /\ ~q.failed /\ q \in ToSet(left)
    <3>1. \A q : Contains(wait, q) <=> q \in {r \in QueueRows : ~r.failed} /\ Contains(left, q)
      BY <2>2, OnlyIs
    <3>2. \A q : Contains(left, q) <=> q \in ToSet(left)
      BY <2>2, <2>3, ContainsIs
    <3> HIDE DEF wait
    <3> QED BY <3>1, <3>2
  <2>6. \A q : Contains(wait, q) <=> \E i \in DOMAIN wait : wait[i] = q
    BY <2>4, ContainsIs
  <2> HIDE DEF wait
  <2>7. /\ SongsOf(left) \in Seq(Ids) /\ IsInjective(SongsOf(left))
        /\ \A x : Contains(SongsOf(left), x) <=> \E i \in DOMAIN left : left[i].id = x
    BY <2>2, SongsAre
  <2>8. /\ SongsOf(wait) \in Seq(Ids) /\ IsInjective(SongsOf(wait))
        /\ \A x : Contains(SongsOf(wait), x) <=> \E i \in DOMAIN wait : wait[i].id = x
    BY <2>4, SongsAre
  <2>9. ASSUME NEW x \in Ids
        PROVE  LET yes == [id |-> x, failed |-> TRUE] \in ToSet(left)
                   no == [id |-> x, failed |-> FALSE] \in ToSet(left)
               IN  /\ ~(yes /\ no)
                   /\ Contains(SongsOf(left), x) <=> yes \/ no
                   /\ Contains(SongsOf(wait), x) <=> no
    <3> DEFINE y == [id |-> x, failed |-> TRUE]
               z == [id |-> x, failed |-> FALSE]
    <3>1. y \in QueueRows /\ z \in QueueRows /\ y # z /\ y.id = x /\ z.id = x /\ y.failed /\ ~z.failed
      BY DEF QueueRows
    <3>2. \A q \in QueueRows : q.id = x => q = y \/ q = z
      BY DEF QueueRows
    <3>3. \A q \in QueueRows : q.id = x /\ ~q.failed => q = z
      BY DEF QueueRows
    <3>4. \A i \in DOMAIN left : left[i] \in QueueRows
      BY <2>2
    <3>5. \A i \in DOMAIN wait : wait[i] \in QueueRows
      BY <2>4
    <3> HIDE DEF y, z
    <3>6. ~(y \in ToSet(left) /\ z \in ToSet(left))
      BY <2>2, <2>3, <3>1 DEF Keyed
    <3>7. Contains(SongsOf(left), x) <=> y \in ToSet(left) \/ z \in ToSet(left)
      BY <2>3, <2>7, <3>1, <3>2, <3>4
    <3>8. Contains(SongsOf(wait), x) <=> z \in ToSet(left)
      <4>1. Contains(SongsOf(wait), x) => z \in ToSet(left)
        BY <2>5, <2>6, <2>8, <3>3
      <4>2. z \in ToSet(left) => Contains(SongsOf(wait), x)
        BY <2>5, <2>6, <2>8, <3>1
      <4> QED BY <4>1, <4>2
    <3> QED BY <3>6, <3>7, <3>8 DEF y, z
  <2>10. ASSUME NEW x \in Ids
         PROVE  /\ states[x] \in {"none", "queued", "failed"}
                /\ states[x] = "queued" <=> Contains(SongsOf(wait), x)
                /\ states[x] # "none" <=> Contains(SongsOf(left), x)
    <3>1. CASE [id |-> x, failed |-> TRUE] \in ToSet(left)
      BY <2>9, <3>1
    <3>2. CASE [id |-> x, failed |-> FALSE] \in ToSet(left)
      BY <2>9, <3>2
    <3>3. CASE /\ [id |-> x, failed |-> TRUE] \notin ToSet(left)
               /\ [id |-> x, failed |-> FALSE] \notin ToSet(left)
      BY <2>9, <3>3
    <3> QED BY <3>1, <3>2, <3>3
  <2>11. states \in [Ids -> StateNames]
    <3>1. states = [x \in Ids |-> states[x]]
      OBVIOUS
    <3> HIDE DEF states
    <3>2. \A x \in Ids : states[x] \in StateNames
      BY <2>10 DEF StateNames
    <3> QED BY <3>1, <3>2
  <2> HIDE DEF states
  <2>12. /\ back \in MType /\ back.running = m.running /\ back.restored = TRUE
         /\ back.saveDue = m.saveDue /\ back.rows = SongsOf(left) /\ back.state = states
         /\ back.pending = SongsOf(wait) /\ back.job = m.job /\ back.stored = m.stored
    BY <1>1, <2>7, <2>8, <2>11 DEF MType
  <2> HIDE DEF back
  <2>13. \A x \in Ids : back.job[x] = "none"
    BY <1>4, <1>6, <2>12
  <2>14. Active(back) = {}
    BY <2>13 DEF Active
  <2>15. Cardinality(Active(back)) <= MaxConcurrent
    BY <2>14, FS_EmptySet, DownloadsAssumption
  <2>16. Honest(back)
    BY <2>7, <2>8, <2>10, <2>12, <2>13 DEF Honest
  <2>17. Whole(back)
    BY <2>12, <2>15, <2>16 DEF Whole
  <2>18. Whole(Touch(back)) /\ Current(Touch(back), db.queue) /\ Touch(back) \in MType
    BY <2>12, <2>17, TouchDoes
  <2>19. Touch(back).stored = m.stored /\ Touch(back).restored
    BY <2>12 DEF Touch, MType
  <2>20. p \in Hands /\ p.m = Touch(back) /\ p.disk = s.disk /\ p.rows = s.rows
    BY <1>1, <2>18 DEF Hands
  <2> HIDE DEF p
  <2>21. Handled(Pump(p)) /\ Pump(p).disk = p.disk /\ Pump(p).rows = p.rows
         /\ Pump(p).m.stored = p.m.stored /\ Pump(p).m.restored = p.m.restored
    BY <2>18, <2>20, PumpDoes
  <2> QED BY <2>1, <2>19, <2>20, <2>21 DEF t
<1> QED
  <2>1. m.restored \in BOOLEAN /\ m.available \in BOOLEAN
    BY <1>1 DEF MType
  <2> QED BY <1>3, <1>5, <1>6, <2>1

-----------------------------------------------------------------------------
(* The steps.                                                               *)

\* What NothingIsThrownAway says of a step.
FilesStay ==
    \A f \in Folders : \A id \in Ids : \A kind \in Finished :
       kind \in disk[f][id] \ disk'[f][id] =>
           \/ f = db.folder /\ dl.job[id] # "none" /\ kind \notin dl.before[id]
           \/ \E finished \in BOOLEAN : RemoveIt(id, finished)
           \/ Carried(id, f)
           \/ f = db.folder /\ kind = "done" /\ Replacing(id)

StepIsSafe == FilesStay /\ (dl.running /\ ~dl.restored => db'.queue = db.queue)

LEMMA NowIs ==
    ASSUME IInv
    PROVE  /\ Now \in Hands /\ Now.m = dl /\ Now.disk = disk /\ Now.rows = db.rows
           /\ dl \in MType /\ db \in DbType /\ disk \in DiskType /\ resolving \in BOOLEAN
           /\ Whole(dl) /\ Pumped(dl) /\ Current(dl, db.queue) /\ Keyed(db.queue)
           /\ db.rows \in StoredType /\ db.folder \in Folders /\ db.queue \in Seq(QueueRows)
BY DEF IInv, Now, Hands, Whole, DbType

\* A handler that leaves the members whole keeps everything.
LEMMA Becoming ==
    ASSUME IInv, NEW t, Becomes(t), Handled(t)
    PROVE  IInv' /\ db'.queue = db.queue /\ disk' = t.disk /\ dl' = t.m
<1>1. /\ dl' = t.m /\ disk' = t.disk /\ resolving' = resolving
      /\ t.m \in MType /\ t.disk \in DiskType /\ t.rows \in StoredType
      /\ Whole(t.m) /\ Pumped(t.m) /\ Current(t.m, db.queue)
  BY DEF Becomes, Handled, Hands
<1>2. db' \in DbType /\ db'.queue = db.queue
  <2>1. db' = [db EXCEPT !.rows = t.rows] /\ db \in DbType
    BY NowIs DEF Becomes
  <2> QED BY <1>1, <2>1 DEF DbType
<1>3. Keyed(db'.queue) /\ resolving' \in BOOLEAN
  BY <1>1, <1>2, NowIs
<1> QED BY <1>1, <1>2, <1>3 DEF IInv

LEMMA NothingLost ==
    ASSUME NEW id \in Ids, Spared(disk, disk', id, Kinds)
    PROVE  FilesStay
BY DEF Spared, FilesStay, Finished

LEMMA AttemptLost ==
    ASSUME NEW id \in Ids, dl.job[id] # "none", Spared(disk, disk', id, dl.before[id])
    PROVE  FilesStay
BY DEF Spared, FilesStay

LEMMA DiskSame ==
    ASSUME disk' = disk
    PROVE  FilesStay
BY DEF FilesStay

\* Songs put in the queue, those new to the rows behind the others.
LEMMA QueuedIsWhole ==
    ASSUME NEW m \in MType, NEW n \in MType, NEW new \in Seq(Ids), Whole(m), m.restored,
           IsInjective(new),
           \A x \in Ids : Contains(new, x) => /\ ~Contains(m.pending, x)
                                              /\ m.job[x] = "none",
           n.running = m.running, n.restored = m.restored, n.saveDue = m.saveDue,
           n.job = m.job, n.pending = m.pending \o new,
           \A x \in Ids : n.state[x] = IF Contains(new, x) THEN "queued" ELSE m.state[x],
           IsInjective(n.rows),
           \A x \in Ids : Contains(n.rows, x) <=> Contains(m.rows, x) \/ Contains(new, x)
    PROVE  Whole(n)
<1>1. /\ m.pending \in Seq(Ids) /\ IsInjective(m.pending)
  BY DEF MType, Whole, Honest
<1>2. \A x : Contains(new, x) => x \in Ids
  BY ContainsIs
<1>3. \A y : Contains(n.pending, y) <=> Contains(m.pending, y) \/ Contains(new, y)
  BY <1>1, ConcatIs
<1>4. IsInjective(n.pending)
  <2>1. \A y : ~(Contains(m.pending, y) /\ Contains(new, y))
    BY <1>2
  <2> QED BY <1>1, <2>1, ConcatIs
<1>5. ASSUME NEW x \in Ids
      PROVE  /\ n.state[x] = "queued" <=> Contains(n.pending, x)
             /\ n.state[x] = "downloading" <=> n.job[x] # "none"
             /\ n.state[x] # "none" <=> Contains(n.rows, x)
  <2>1. /\ m.state[x] = "queued" <=> Contains(m.pending, x)
        /\ m.state[x] = "downloading" <=> m.job[x] # "none"
        /\ m.state[x] # "none" <=> Contains(m.rows, x)
    BY DEF Whole, Honest
  <2>2. CASE Contains(new, x)
    BY <2>1, <2>2, <1>3
  <2>3. CASE ~Contains(new, x)
    BY <2>1, <2>3, <1>3
  <2> QED BY <2>2, <2>3
<1>6. Active(n) = Active(m)
  BY DEF Active
<1> QED BY <1>4, <1>5, <1>6 DEF Whole, Honest

LEMMA ToolsFoundDoes ==
    ASSUME IInv, dl.running, NEW available \in BOOLEAN
    PROVE  LET t == ToolsFound(Now, available) IN
           /\ Handled(t) /\ t.disk = disk /\ t.rows = db.rows /\ t.m.stored = dl.stored
           /\ t.m.available => t.m.restored
<1> DEFINE n == [dl EXCEPT !.available = available]
           s == [Now EXCEPT !.m = n]
<1>1. ToolsFound(Now, available) = RestoreQueue(s)
  <2>1. [Now EXCEPT !.m.available = available] = s
    BY DEF Now
  <2> QED BY <2>1 DEF ToolsFound
<1>2. /\ n \in MType /\ n.available = available /\ n.running = dl.running
      /\ n.restored = dl.restored /\ n.saveDue = dl.saveDue /\ n.rows = dl.rows
      /\ n.state = dl.state /\ n.pending = dl.pending /\ n.job = dl.job
      /\ n.stored = dl.stored /\ n.waiting = dl.waiting
  BY NowIs DEF MType
<1> HIDE DEF n
<1>3. Whole(n) /\ Active(n) = Active(dl)
  BY <1>2, NowIs, WholeSame
<1>4. Pumped(n)
  BY <1>2, <1>3, NowIs DEF Pumped
<1>5. Current(n, db.queue)
  BY <1>2, NowIs, CurrentSame
<1>6. s \in Hands /\ s.m = n /\ s.disk = disk /\ s.rows = db.rows
  BY <1>2, NowIs DEF Now, Hands
<1> HIDE DEF s
<1> DEFINE t == RestoreQueue(s)
<1>7. /\ Handled(t) /\ t.disk = s.disk /\ t.rows = s.rows /\ t.m.stored = s.m.stored
      /\ t.m.available => t.m.restored
  BY <1>2, <1>3, <1>4, <1>5, <1>6, NowIs, RestoreQueueDoes
<1> QED BY <1>1, <1>2, <1>6, <1>7

LEMMA RefreshToolsStep ==
    ASSUME IInv, RefreshTools
    PROVE  IInv' /\ StepIsSafe
<1> DEFINE t == ToolsFound(Now, ~dl.available)
<1>1. Becomes(t) /\ dl.running
  BY DEF RefreshTools
<1>2. (~dl.available) \in BOOLEAN
  BY NowIs DEF MType
<1>3. Handled(t) /\ t.disk = disk
  BY <1>1, <1>2, ToolsFoundDoes
<1> HIDE DEF t
<1> QED BY <1>1, <1>3, Becoming, DiskSame DEF StepIsSafe

\* enqueue and enqueueAll.
LEMMA EnqueueStep ==
    ASSUME IInv, NEW ids \in Seq(Ids), IsInjective(ids), NEW available \in BOOLEAN,
           Enqueue(ids, available)
    PROVE  IInv' /\ StepIsSafe
<1> DEFINE s == ToolsFound(Now, available)
           m == s.m
           new == Only(ids, Wanted(m))
           fresh == Only(new, {id \in Ids : m.state[id] = "none"})
           states == [id \in Ids |-> IF Contains(new, id) THEN "queued" ELSE m.state[id]]
           queued == [m EXCEPT !.rows = @ \o fresh, !.state = states, !.pending = @ \o new]
           p == [s EXCEPT !.m = Touch(queued)]
<1>1. dl.running /\ Becomes(IF new = <<>> THEN s ELSE Pump(p))
  <2>1. queued = [m EXCEPT !.rows = @ \o fresh,
                           !.state = [id \in Ids |-> IF Contains(new, id) THEN "queued" ELSE @[id]],
                           !.pending = @ \o new]
    OBVIOUS
  <2> QED BY <2>1 DEF Enqueue
<1>2. Handled(s) /\ s.disk = disk /\ (m.available => m.restored)
  BY <1>1, ToolsFoundDoes
<1> HIDE DEF s
<1>3. CASE new = <<>>
  BY <1>1, <1>2, <1>3, Becoming, DiskSame DEF StepIsSafe
<1>4. CASE new # <<>>
  <2>1. Becomes(Pump(p))
    BY <1>1, <1>4
  <2>2. m \in MType /\ s \in Hands /\ Whole(m)
    BY <1>2 DEF Handled, Hands
  <2>3. \A x : x \in Wanted(m) <=> /\ x \in Ids /\ m.available /\ m.stored[x] = NoFile
                                   /\ m.job[x] = "none" /\ ~Contains(m.pending, x)
    BY DEF Wanted
  <2>4. /\ new \in Seq(Ids) /\ IsInjective(new)
        /\ \A x : Contains(new, x) <=> x \in Wanted(m) /\ Contains(ids, x)
    BY OnlyIs
  <2> HIDE DEF new
  <2>5. m.restored
    <3>1. \E x \in Ids : Contains(new, x)
      BY <1>4, <2>4, EmptyHasNone
    <3>2. m.available
      BY <3>1, <2>3, <2>4
    <3> QED BY <3>2, <1>2
  <2>6. /\ fresh \in Seq(Ids) /\ IsInjective(fresh)
        /\ \A x : Contains(fresh, x) <=> x \in Ids /\ m.state[x] = "none" /\ Contains(new, x)
    <3> DEFINE none == {id \in Ids : m.state[id] = "none"}
    <3>1. \A x : x \in none <=> x \in Ids /\ m.state[x] = "none"
      OBVIOUS
    <3> HIDE DEF none
    <3>2. /\ Only(new, none) \in Seq(Ids) /\ IsInjective(Only(new, none))
          /\ \A x : Contains(Only(new, none), x) <=> x \in none /\ Contains(new, x)
      BY <2>4, OnlyIs
    <3> QED BY <3>1, <3>2 DEF none
  <2> HIDE DEF fresh
  <2>7. states \in [Ids -> StateNames]
    BY <2>2 DEF MType, StateNames
  <2>8. \A x \in Ids : states[x] = IF Contains(new, x) THEN "queued" ELSE m.state[x]
    OBVIOUS
  <2> DEFINE rows == m.rows \o fresh
             pending == m.pending \o new
  <2>9. /\ m.rows \in Seq(Ids) /\ m.pending \in Seq(Ids) /\ IsInjective(m.rows)
        /\ \A x \in Ids : m.state[x] # "none" <=> Contains(m.rows, x)
    BY <2>2 DEF MType, Whole, Honest
  <2>10. /\ rows \in Seq(Ids) /\ pending \in Seq(Ids)
         /\ \A y : Contains(rows, y) <=> Contains(m.rows, y) \/ Contains(fresh, y)
    <3> HIDE DEF m
    <3> QED BY <2>4, <2>6, <2>9, ConcatIs
  <2>11. IsInjective(rows)
    <3>1. \A y : ~(Contains(m.rows, y) /\ Contains(fresh, y))
      BY <2>6, <2>9
    <3> HIDE DEF m
    <3> QED BY <2>6, <2>9, <3>1, ConcatIs
  <2>12. queued = [m EXCEPT !.rows = rows, !.state = states, !.pending = pending]
    OBVIOUS
  <2> HIDE DEF states, rows, queued
  <2>13. /\ queued \in MType /\ queued.running = m.running /\ queued.restored = m.restored
         /\ queued.saveDue = m.saveDue /\ queued.job = m.job /\ queued.pending = pending
         /\ queued.state = states /\ queued.rows = rows
    <3> HIDE DEF pending
    <3> QED BY <2>2, <2>7, <2>10, <2>12 DEF MType
  <2>14. \A x \in Ids : Contains(rows, x) <=> Contains(m.rows, x) \/ Contains(new, x)
    BY <2>6, <2>9, <2>10
  <2>15. \A x \in Ids : Contains(new, x) => ~Contains(m.pending, x) /\ m.job[x] = "none"
    BY <2>3, <2>4
  <2>16. Whole(queued)
    <3> HIDE DEF m
    <3> QED BY <2>2, <2>4, <2>5, <2>8, <2>11, <2>13, <2>14, <2>15, QueuedIsWhole
  <2>17. Whole(Touch(queued)) /\ Current(Touch(queued), db.queue) /\ Touch(queued) \in MType
    BY <2>13, <2>16, TouchDoes
  <2>18. p \in Hands /\ p.m = Touch(queued) /\ p.disk = disk
    BY <1>2, <2>2, <2>17 DEF Hands
  <2> HIDE DEF p
  <2>19. Handled(Pump(p)) /\ Pump(p).disk = disk
    BY <2>17, <2>18, NowIs, PumpDoes
  <2> QED BY <2>1, <2>19, Becoming, DiskSame DEF StepIsSafe
<1> QED BY <1>3, <1>4

\* retry and retryFailed.
LEMMA RetryStep ==
    ASSUME IInv, NEW ids \in Seq(Ids), IsInjective(ids), Retry(ids)
    PROVE  IInv' /\ StepIsSafe
<1> DEFINE lost == {id \in Ids : dl.state[id] = "failed"}
           again == Only(ids, lost)
           states == [id \in Ids |-> IF Contains(again, id) THEN "queued" ELSE dl.state[id]]
           queued == [dl EXCEPT !.state = states, !.pending = @ \o again]
           p == [Now EXCEPT !.m = Touch(queued)]
<1>1. dl.running /\ again # <<>> /\ Becomes(Pump(p))
  <2>1. queued = [dl EXCEPT !.state = [id \in Ids |-> IF Contains(again, id) THEN "queued" ELSE @[id]],
                            !.pending = @ \o again]
    OBVIOUS
  <2> QED BY <2>1 DEF Retry
<1>2. \A x : x \in lost <=> x \in Ids /\ dl.state[x] = "failed"
  OBVIOUS
<1> HIDE DEF lost
<1>3. /\ again \in Seq(Ids) /\ IsInjective(again)
      /\ \A x : Contains(again, x) <=> x \in lost /\ Contains(ids, x)
  BY OnlyIs
<1> HIDE DEF again
<1>4. /\ dl \in MType /\ Whole(dl) /\ dl.pending \in Seq(Ids) /\ dl.state \in [Ids -> StateNames]
  BY NowIs DEF MType
<1>5. /\ \A x \in Ids : /\ dl.state[x] = "queued" <=> Contains(dl.pending, x)
                        /\ dl.state[x] = "downloading" <=> dl.job[x] # "none"
                        /\ dl.state[x] # "none" <=> Contains(dl.rows, x)
      /\ IsInjective(dl.rows) /\ (~dl.restored => dl.rows = <<>>)
  BY <1>4 DEF Whole, Honest
<1>6. dl.restored
  <2>1. PICK x \in Ids : Contains(again, x)
    BY <1>1, <1>3, EmptyHasNone
  <2>2. Contains(dl.rows, x)
    BY <1>2, <1>3, <1>5, <2>1
  <2> QED BY <1>5, <2>2, EmptyHasNone
<1>7. states \in [Ids -> StateNames]
  BY <1>4 DEF StateNames
<1>8. \A x \in Ids : states[x] = IF Contains(again, x) THEN "queued" ELSE dl.state[x]
  OBVIOUS
<1> DEFINE pending == dl.pending \o again
<1>9. pending \in Seq(Ids)
  BY <1>3, <1>4
<1>10. queued = [dl EXCEPT !.state = states, !.pending = pending]
  OBVIOUS
<1> HIDE DEF states, queued
<1>11. /\ queued \in MType /\ queued.running = dl.running /\ queued.restored = dl.restored
       /\ queued.saveDue = dl.saveDue /\ queued.job = dl.job /\ queued.pending = pending
       /\ queued.state = states /\ queued.rows = dl.rows
  <2> HIDE DEF pending
  <2> QED BY <1>4, <1>7, <1>9, <1>10 DEF MType
<1>12. \A x \in Ids : Contains(dl.rows, x) <=> Contains(dl.rows, x) \/ Contains(again, x)
  BY <1>2, <1>3, <1>5
<1>13. \A x \in Ids : Contains(again, x) => ~Contains(dl.pending, x) /\ dl.job[x] = "none"
  BY <1>2, <1>3, <1>5
<1>14. Whole(queued)
  BY <1>3, <1>4, <1>5, <1>6, <1>8, <1>11, <1>12, <1>13, QueuedIsWhole
<1>15. Whole(Touch(queued)) /\ Current(Touch(queued), db.queue) /\ Touch(queued) \in MType
  BY <1>11, <1>14, TouchDoes
<1>16. p \in Hands /\ p.m = Touch(queued) /\ p.disk = disk
  BY <1>15, NowIs DEF Hands
<1> HIDE DEF p
<1>17. Handled(Pump(p)) /\ Pump(p).disk = disk
  BY <1>15, <1>16, NowIs, PumpDoes
<1> QED BY <1>1, <1>17, Becoming, DiskSame DEF StepIsSafe

LEMMA CancelItStep ==
    ASSUME IInv, NEW id \in Ids, NEW finished \in BOOLEAN, CancelIt(id, finished)
    PROVE  IInv' /\ StepIsSafe
<1> DEFINE t == CancelSong(Now, id, finished)
<1>1. Becomes(t)
  BY DEF CancelIt
<1>2. finished => "done" \in Kinds
  BY DownloadsAssumption
<1>3. /\ Handled(t) /\ Spared(disk, t.disk, id, dl.before[id])
      /\ dl.job[id] = "none" => t.disk = disk
  BY <1>2, NowIs, CancelSongDoes
<1> HIDE DEF t
<1>4. IInv' /\ db'.queue = db.queue /\ disk' = t.disk
  BY <1>1, <1>3, Becoming
<1>5. FilesStay
  <2>1. CASE dl.job[id] = "none"
    BY <1>3, <1>4, <2>1, DiskSame
  <2>2. CASE dl.job[id] # "none"
    BY <1>3, <1>4, <2>2, AttemptLost
  <2> QED BY <2>1, <2>2
<1> QED BY <1>4, <1>5 DEF StepIsSafe

\* remove: only its own file goes, and what its download had begun.
LEMMA RemoveItStep ==
    ASSUME IInv, NEW id \in Ids, NEW finished \in BOOLEAN, RemoveIt(id, finished)
    PROVE  IInv' /\ StepIsSafe
<1> DEFINE s == IF dl.state[id] = "none" THEN Now ELSE CancelSong(Now, id, finished)
           file == IF s.m.stored[id] # NoFile THEN s.m.stored[id] ELSE s.rows[id]
           n == [s.m EXCEPT !.stored[id] = NoFile]
           e == [s.disk EXCEPT ![file.folder][id] = @ \ {file.kind}]
           rows == [s.rows EXCEPT ![id] = NoFile]
           t == [m |-> Touch(n), disk |-> e, rows |-> rows]
<1>1. file # NoFile /\ Becomes(t)
  BY DEF RemoveIt
<1>2. Handled(s) /\ Spared(disk, s.disk, id, dl.before[id])
  <2>1. CASE dl.state[id] = "none"
    BY <2>1, NowIs, SameSpared DEF Handled
  <2>2. CASE dl.state[id] # "none"
    <3>1. finished => "done" \in Kinds
      BY DownloadsAssumption
    <3>2. /\ Handled(CancelSong(Now, id, finished))
          /\ Spared(disk, CancelSong(Now, id, finished).disk, id, dl.before[id])
      BY <3>1, NowIs, CancelSongDoes
    <3> QED BY <2>2, <3>2
  <2> QED BY <2>1, <2>2
<1> HIDE DEF s
<1>3. /\ s.m \in MType /\ s.disk \in DiskType /\ s.rows \in StoredType
      /\ s.m.stored \in StoredType /\ Whole(s.m) /\ Pumped(s.m)
  BY <1>2 DEF Handled, Hands, MType
<1>4. file \in Files
  BY <1>1, <1>3 DEF StoredType
<1> HIDE DEF file
<1>5. file.folder \in Folders /\ file.kind \in Kinds
  BY <1>4 DEF Files
<1>6. e \in DiskType /\ \A f \in Folders : \A j \in Ids : j # id => e[f][j] = s.disk[f][j]
  BY <1>3, <1>5 DEF DiskType
<1>7. rows \in StoredType
  BY <1>3 DEF StoredType
<1>8. /\ n \in MType /\ n.running = s.m.running /\ n.restored = s.m.restored
      /\ n.saveDue = s.m.saveDue /\ n.rows = s.m.rows /\ n.state = s.m.state
      /\ n.pending = s.m.pending /\ n.job = s.m.job /\ n.waiting = s.m.waiting
  BY <1>3 DEF MType, StoredType
<1> HIDE DEF n, e, rows
<1>9. Whole(n) /\ Active(n) = Active(s.m)
  BY <1>3, <1>8, WholeSame
<1>10. Pumped(n)
  BY <1>3, <1>8, <1>9 DEF Pumped
<1>11. Whole(Touch(n)) /\ Pumped(Touch(n)) /\ Current(Touch(n), db.queue) /\ Touch(n) \in MType
  BY <1>8, <1>9, <1>10, TouchDoes
<1>12. Handled(t) /\ t.disk = e
  BY <1>6, <1>7, <1>11 DEF Handled, Hands
<1> HIDE DEF t
<1>13. IInv' /\ db'.queue = db.queue /\ disk' = e
  BY <1>1, <1>12, Becoming
<1>14. FilesStay
  <2> SUFFICES ASSUME NEW f \in Folders, NEW j \in Ids, NEW kind \in Finished,
                      kind \in disk[f][j] \ disk'[f][j]
               PROVE  \E x \in BOOLEAN : RemoveIt(j, x)
    BY DEF FilesStay
  <2>1. CASE j = id
    BY <2>1
  <2>2. CASE j # id
    <3>1. kind \in disk[f][j] \ s.disk[f][j]
      BY <1>6, <1>13, <2>2
    <3> QED BY <1>2, <2>2, <3>1 DEF Spared
  <2> QED BY <2>1, <2>2
<1> QED BY <1>13, <1>14 DEF StepIsSafe

\* The finder's answer moves the song on, and nothing else.
LEMMA SaavnAnsweredStep ==
    ASSUME IInv, NEW id \in Ids, NEW has \in BOOLEAN, SaavnAnswered(id, has)
    PROVE  IInv' /\ StepIsSafe
<1> DEFINE job == IF has THEN "saavn" ELSE "ytdlp"
           n == [dl EXCEPT !.job[id] = job]
           t == [Now EXCEPT !.m = n]
<1>1. dl.job[id] = "asking" /\ Becomes(t)
  <2>1. [Now EXCEPT !.m.job[id] = IF has THEN "saavn" ELSE "ytdlp"] = t
    BY DEF Now
  <2> QED BY <2>1 DEF SaavnAnswered
<1>2. job \in {"saavn", "ytdlp"}
  OBVIOUS
<1> HIDE DEF job
<1>3. /\ n \in MType /\ n.running = dl.running /\ n.restored = dl.restored
      /\ n.saveDue = dl.saveDue /\ n.rows = dl.rows /\ n.state = dl.state
      /\ n.pending = dl.pending /\ n.waiting = dl.waiting /\ n.stored = dl.stored
      /\ n.job = [dl.job EXCEPT ![id] = job] /\ dl.job \in [Ids -> JobNames]
  BY <1>2, NowIs DEF MType, JobNames
<1> HIDE DEF n
<1>4. \A j \in Ids : n.job[j] # "none" <=> dl.job[j] # "none"
  BY <1>1, <1>2, <1>3
<1>5. Active(n) = Active(dl)
  BY <1>4 DEF Active
<1>6. Whole(n)
  <2>1. \A j \in Ids : dl.state[j] = "downloading" <=> dl.job[j] # "none"
    BY NowIs DEF Whole, Honest
  <2> QED BY <1>3, <1>4, <1>5, <2>1, NowIs DEF Whole, Honest
<1>7. Pumped(n)
  BY <1>3, <1>5, NowIs DEF Pumped
<1>8. Current(n, db.queue)
  BY <1>3, NowIs, CurrentSame
<1>9. Handled(t) /\ t.disk = disk
  BY <1>3, <1>6, <1>7, <1>8, NowIs DEF Handled, Hands
<1> HIDE DEF t
<1> QED BY <1>1, <1>9, Becoming, DiskSame DEF StepIsSafe

\* A song's files as yt-dlp or SaavnDownload leaves them, its finished ones kept.
LEMMA WrittenDoes ==
    ASSUME IInv, NEW id \in Ids, NEW names \in SUBSET Kinds,
           disk[db.folder][id] \ Unfinished \subseteq names
    PROVE  LET s == [Now EXCEPT !.disk[db.folder][id] = names] IN
           s \in Hands /\ s.m = dl /\ s.rows = db.rows /\ Spared(disk, s.disk, id, Kinds)
<1> DEFINE e == [disk EXCEPT ![db.folder][id] = names]
           s == [Now EXCEPT !.disk[db.folder][id] = names]
<1>1. s = [Now EXCEPT !.disk = e]
  BY NowIs DEF Now
<1>2. e \in DiskType
  BY NowIs DEF DiskType
<1>3. \A f \in Folders : \A j \in Ids : e[f][j] = IF f = db.folder /\ j = id THEN names ELSE disk[f][j]
  BY NowIs DEF DiskType
<1> HIDE DEF e, s
<1>4. \A kind \in Finished : kind \notin Unfinished
  BY DEF Finished, Unfinished
<1>5. Spared(disk, e, id, Kinds)
  BY <1>3, <1>4 DEF Spared
<1>6. s \in Hands /\ s.m = dl /\ s.rows = db.rows /\ s.disk = e
  BY <1>1, <1>2, NowIs DEF Now, Hands
<1> QED BY <1>5, <1>6 DEF s

LEMMA SparedThen ==
    ASSUME NEW d, NEW e, NEW g, NEW id, NEW before, Spared(d, e, id, Kinds), Spared(e, g, id, before)
    PROVE  Spared(d, g, id, before)
BY DEF Spared, Finished

\* What follows what was written: the song completes, or it fails.
LEMMA CompletesStep ==
    ASSUME IInv, NEW id \in Ids, dl.job[id] # "none", NEW s \in Hands, s.m = dl,
           Spared(disk, s.disk, id, Kinds), NEW kind \in Kinds, Becomes(Complete(s, id, kind))
    PROVE  IInv' /\ StepIsSafe
<1> DEFINE t == Complete(s, id, kind)
<1>1. Handled(t) /\ Spared(s.disk, t.disk, id, Kinds)
  BY NowIs, CompleteDoes
<1> HIDE DEF t
<1>2. IInv' /\ db'.queue = db.queue /\ disk' = t.disk
  BY <1>1, Becoming DEF t
<1>3. Spared(disk, disk', id, Kinds)
  BY <1>1, <1>2, SparedThen
<1> QED BY <1>2, <1>3, NothingLost DEF StepIsSafe

LEMMA FailsStep ==
    ASSUME IInv, NEW id \in Ids, dl.job[id] # "none", NEW s \in Hands, s.m = dl,
           Spared(disk, s.disk, id, Kinds), Becomes(FailDownload(s, id))
    PROVE  IInv' /\ StepIsSafe
<1> DEFINE t == FailDownload(s, id)
<1>1. Handled(t) /\ Spared(s.disk, t.disk, id, dl.before[id])
  BY NowIs, FailDoes
<1> HIDE DEF t
<1>2. IInv' /\ db'.queue = db.queue /\ disk' = t.disk
  BY <1>1, Becoming DEF t
<1>3. Spared(disk, disk', id, dl.before[id])
  BY <1>1, <1>2, SparedThen
<1> QED BY <1>2, <1>3, AttemptLost DEF StepIsSafe

LEMMA YtdlpFinishedStep ==
    ASSUME IInv, NEW id \in Ids, NEW wrote \in BOOLEAN, NEW reported \in BOOLEAN,
           YtdlpFinished(id, wrote, reported)
    PROVE  IInv' /\ StepIsSafe
<1>1. dl.job[id] # "none"
  BY DEF YtdlpFinished
<1>2. PICK left \in SUBSET (disk[db.folder][id] \cap Unfinished) :
          LET names == (disk[db.folder][id] \ Unfinished) \cup left \cup (IF wrote THEN {"done"} ELSE {})
              s == [Now EXCEPT !.disk[db.folder][id] = names]
          IN  IF wrote /\ reported THEN Becomes(Complete(s, id, "done"))
              ELSE IF Findable(names) = {} THEN Becomes(FailDownload(s, id))
              ELSE \E kind \in (IF wrote THEN {"done"} ELSE Findable(names)) :
                      Becomes(Complete(s, id, kind))
  BY DEF YtdlpFinished
<1> DEFINE names == (disk[db.folder][id] \ Unfinished) \cup left \cup (IF wrote THEN {"done"} ELSE {})
           s == [Now EXCEPT !.disk[db.folder][id] = names]
<1>3. \/ Becomes(Complete(s, id, "done"))
      \/ Becomes(FailDownload(s, id))
      \/ \E kind \in (IF wrote THEN {"done"} ELSE Findable(names)) : Becomes(Complete(s, id, kind))
  BY <1>2
<1>4. names \in SUBSET Kinds /\ disk[db.folder][id] \ Unfinished \subseteq names
  <2>1. disk[db.folder][id] \subseteq Kinds
    BY NowIs DEF DiskType
  <2>2. "done" \in Kinds
    BY DownloadsAssumption
  <2> QED BY <2>1, <2>2
<1>5. \A kind \in (IF wrote THEN {"done"} ELSE Findable(names)) : kind \in Kinds
  BY <1>4, DownloadsAssumption DEF Findable
<1> HIDE DEF names
<1>6. s \in Hands /\ s.m = dl /\ Spared(disk, s.disk, id, Kinds)
  BY <1>4, WrittenDoes
<1> HIDE DEF s
<1>7. CASE Becomes(Complete(s, id, "done"))
  BY <1>1, <1>6, <1>7, CompletesStep, DownloadsAssumption
<1>8. CASE Becomes(FailDownload(s, id))
  BY <1>1, <1>6, <1>8, FailsStep
<1>9. ASSUME NEW kind \in (IF wrote THEN {"done"} ELSE Findable(names)), Becomes(Complete(s, id, kind))
      PROVE  IInv' /\ StepIsSafe
  BY <1>1, <1>5, <1>6, <1>9, CompletesStep
<1> QED BY <1>3, <1>7, <1>8, <1>9

LEMMA YtdlpFailedStep ==
    ASSUME IInv, NEW id \in Ids, YtdlpFailed(id)
    PROVE  IInv' /\ StepIsSafe
<1>1. dl.job[id] # "none" /\ Becomes(FailDownload(Now, id))
  BY DEF YtdlpFailed
<1>2. Spared(disk, Now.disk, id, Kinds)
  BY NowIs, SameSpared
<1> QED BY <1>1, <1>2, NowIs, FailsStep

LEMMA SaavnFinishedStep ==
    ASSUME IInv, NEW id \in Ids, SaavnFinished(id)
    PROVE  IInv' /\ StepIsSafe
<1> DEFINE names == (disk[db.folder][id] \ Unfinished) \cup {"done"}
           s == [Now EXCEPT !.disk[db.folder][id] = names]
<1>1. dl.job[id] # "none"
  BY DEF SaavnFinished
<1>2. Becomes(Complete(s, id, "done"))
  <2>1. [Now EXCEPT !.disk[db.folder][id] = (@ \ Unfinished) \cup {"done"}] = s
    BY DEF Now
  <2> QED BY <2>1 DEF SaavnFinished
<1>3. names \in SUBSET Kinds /\ disk[db.folder][id] \ Unfinished \subseteq names
  <2>1. disk[db.folder][id] \subseteq Kinds
    BY NowIs DEF DiskType
  <2> QED BY <2>1, DownloadsAssumption
<1> HIDE DEF names
<1>4. s \in Hands /\ s.m = dl /\ Spared(disk, s.disk, id, Kinds)
  BY <1>3, WrittenDoes
<1> HIDE DEF s
<1> QED BY <1>1, <1>2, <1>4, CompletesStep, DownloadsAssumption

LEMMA SaavnFailsStep ==
    ASSUME IInv, NEW id \in Ids, SaavnFails(id)
    PROVE  IInv' /\ StepIsSafe
<1> DEFINE t == SaavnFailed(Now, id)
<1>1. dl.job[id] = "saavn" /\ Becomes(t)
  BY DEF SaavnFails
<1>2. Handled(t) /\ Spared(disk, t.disk, id, dl.before[id])
  BY <1>1, NowIs, SaavnFailedDoes
<1> HIDE DEF t
<1>3. IInv' /\ db'.queue = db.queue /\ disk' = t.disk
  BY <1>1, <1>2, Becoming
<1> QED BY <1>1, <1>2, <1>3, AttemptLost DEF StepIsSafe

\* The song's files in the folder with some of them gone, or come.
LEMMA PlacedIs ==
    ASSUME IInv, NEW id \in Ids, NEW names \in SUBSET Kinds
    PROVE  LET e == [disk EXCEPT ![db.folder][id] = names] IN
           /\ e \in DiskType
           /\ \A f \in Folders : \A j \in Ids :
                 e[f][j] = IF f = db.folder /\ j = id THEN names ELSE disk[f][j]
  BY NowIs DEF DiskType

\* The file that had the name is gone, the attempt fails besides.
LEMMA SaavnNotPlacedStep ==
    ASSUME IInv, NEW id \in Ids, SaavnNotPlaced(id)
    PROVE  IInv' /\ StepIsSafe
<1> DEFINE names == disk[db.folder][id] \ {"done"}
           e == [disk EXCEPT ![db.folder][id] = names]
           s == [Now EXCEPT !.disk = e]
           t == SaavnFailed(s, id)
<1>1. dl.job[id] = "saavn" /\ Becomes(t)
  <2>1. [Now EXCEPT !.disk[db.folder][id] = @ \ {"done"}] = s
    BY NowIs DEF Now
  <2> QED BY <2>1 DEF SaavnNotPlaced
<1>2. names \in SUBSET Kinds
  BY NowIs DEF DiskType
<1> HIDE DEF names
<1>3. /\ e \in DiskType
      /\ \A f \in Folders : \A j \in Ids :
            e[f][j] = IF f = db.folder /\ j = id THEN names ELSE disk[f][j]
  BY <1>2, PlacedIs
<1> HIDE DEF e
<1>4. s \in Hands /\ s.m = dl /\ s.disk = e
  BY <1>3, NowIs DEF Now, Hands
<1> HIDE DEF s
<1>5. Handled(t) /\ Spared(e, t.disk, id, dl.before[id])
  BY <1>1, <1>4, NowIs, SaavnFailedDoes
<1> HIDE DEF t
<1>6. IInv' /\ db'.queue = db.queue /\ disk' = t.disk
  BY <1>1, <1>5, Becoming
<1>7. FilesStay
  <2> SUFFICES ASSUME NEW f \in Folders, NEW j \in Ids, NEW kind \in Finished,
                      kind \in disk[f][j] \ disk'[f][j]
               PROVE  \/ f = db.folder /\ dl.job[j] # "none" /\ kind \notin dl.before[j]
                      \/ f = db.folder /\ kind = "done" /\ Replacing(j)
    BY DEF FilesStay
  <2>1. CASE kind \in e[f][j]
    <3>1. f = db.folder /\ j = id /\ kind \notin dl.before[id]
      BY <1>5, <1>6, <2>1 DEF Spared
    <3> QED BY <1>1, <3>1
  <2>2. CASE kind \notin e[f][j]
    <3>1. f = db.folder /\ j = id /\ kind = "done"
      BY <1>3, <2>2 DEF names
    <3> QED BY <3>1 DEF Replacing
  <2> QED BY <2>1, <2>2
<1> QED BY <1>6, <1>7 DEF StepIsSafe

LEMMA WritesStep ==
    ASSUME IInv, NEW id \in Ids, NEW kind \in Kinds, Writes(id, kind)
    PROVE  IInv' /\ StepIsSafe
<1>1. /\ disk' = [disk EXCEPT ![db.folder][id] = @ \cup {kind}]
      /\ dl' = dl /\ db' = db /\ resolving' = resolving
  BY DEF Writes
<1>2. disk' \in DiskType
  BY <1>1, NowIs DEF DiskType
<1>3. IInv'
  BY <1>1, <1>2, NowIs DEF IInv
<1>4. \A f \in Folders : \A j \in Ids : disk[f][j] \subseteq disk'[f][j]
  BY <1>1, NowIs DEF DiskType
<1>5. FilesStay
  BY <1>4 DEF FilesStay
<1> QED BY <1>1, <1>3, <1>5 DEF StepIsSafe

LEMMA StoredIs ==
    ASSUME NEW d, NEW rows \in StoredType
    PROVE  LoadStored(d, rows) \in StoredType
BY DEF LoadStored, StoredType

\* A change of folder: what waits loses its part-files, and no finished one goes.
LEMMA SetDownloadDirectoryStep ==
    ASSUME IInv, NEW folder \in Folders, SetDownloadDirectory(folder)
    PROVE  IInv' /\ StepIsSafe
<1> DEFINE moved == folder # db.folder
           clear == [id \in Ids |-> IF moved /\ Contains(dl.pending, id)
                                    THEN disk[db.folder][id] \cap Finished
                                    ELSE disk[db.folder][id]]
           d == [disk EXCEPT ![db.folder] = clear]
<1>1. disk' = d /\ resolving' = resolving
  BY DEF SetDownloadDirectory
<1>2. PICK rows \in [Ids -> Files \cup {NoFile}] :
          /\ db' = [db EXCEPT !.rows = rows, !.folder = folder]
          /\ dl' = Touch([dl EXCEPT !.stored = LoadStored(d, rows)])
  BY DEF SetDownloadDirectory
<1>3. /\ clear \in [Ids -> SUBSET Kinds]
      /\ \A id \in Ids : disk[db.folder][id] \cap Finished \subseteq clear[id]
  BY NowIs DEF DiskType
<1> HIDE DEF clear
<1>4. d \in DiskType /\ \A f \in Folders : \A j \in Ids : disk[f][j] \cap Finished \subseteq d[f][j]
  BY <1>3, NowIs DEF DiskType
<1> HIDE DEF d
<1>5. FilesStay
  BY <1>1, <1>4 DEF FilesStay
<1> DEFINE stored == LoadStored(d, rows)
           n == [dl EXCEPT !.stored = stored]
<1>6. rows \in StoredType /\ stored \in StoredType
  BY StoredIs DEF StoredType
<1> HIDE DEF stored
<1>7. /\ n \in MType /\ n.running = dl.running /\ n.restored = dl.restored
      /\ n.saveDue = dl.saveDue /\ n.rows = dl.rows /\ n.state = dl.state
      /\ n.pending = dl.pending /\ n.job = dl.job /\ n.waiting = dl.waiting
  BY <1>6, NowIs DEF MType
<1>8. dl' = Touch(n)
  BY <1>2 DEF stored
<1> HIDE DEF n
<1>9. Whole(n) /\ Active(n) = Active(dl)
  BY <1>7, NowIs, WholeSame
<1>10. Pumped(n)
  BY <1>7, <1>9, NowIs DEF Pumped
<1>11. Whole(dl') /\ Pumped(dl') /\ Current(dl', db'.queue)
  BY <1>7, <1>8, <1>9, <1>10, TouchDoes
<1>12. db' \in DbType /\ db'.queue = db.queue
  BY <1>2, <1>6, NowIs DEF DbType
<1>13. IInv'
  BY <1>1, <1>4, <1>11, <1>12, NowIs DEF IInv
<1> QED BY <1>5, <1>12, <1>13 DEF StepIsSafe

LEMMA SaveTimerStep ==
    ASSUME IInv, SaveTimer
    PROVE  IInv' /\ StepIsSafe
<1>1. /\ dl' = [dl EXCEPT !.saveDue = FALSE] /\ db' = [db EXCEPT !.queue = QueueOf(dl)]
      /\ disk' = disk /\ resolving' = resolving /\ dl.saveDue
  BY DEF SaveTimer
<1>2. QueueOf(dl) \in Seq(QueueRows) /\ Keyed(QueueOf(dl))
  BY NowIs, QueueIs DEF Whole
<1>3. /\ dl' \in MType /\ dl'.running = dl.running /\ dl'.restored = dl.restored
      /\ dl'.saveDue = FALSE /\ dl'.rows = dl.rows /\ dl'.state = dl.state
      /\ dl'.pending = dl.pending /\ dl'.job = dl.job /\ dl'.waiting = dl.waiting
      /\ dl'.stored = dl.stored
  BY <1>1, NowIs DEF MType
<1>4. db' \in DbType /\ db'.queue = QueueOf(dl)
  BY <1>1, <1>2, NowIs DEF DbType
<1>5. Whole(dl') /\ Active(dl') = Active(dl)
  BY <1>3, NowIs, WholeSame
<1>6. Pumped(dl')
  BY <1>3, <1>5, NowIs DEF Pumped
<1>7. QueueOf(dl') = QueueOf(dl)
  BY <1>3, NowIs, SavedSame
<1>8. Current(dl', db'.queue)
  BY <1>4, <1>7 DEF Current
<1>9. IInv'
  BY <1>1, <1>2, <1>4, <1>5, <1>6, <1>8, NowIs DEF IInv
<1>10. dl.restored
  BY <1>1, NowIs DEF Whole
<1> QED BY <1>1, <1>9, <1>10, DiskSame DEF StepIsSafe

\* Not running, there is nothing to be wrong.
LEMMA ClosedIsWhole ==
    /\ Closed \in MType /\ Whole(Closed) /\ Pumped(Closed)
    /\ \A queue : Current(Closed, queue)
<1>1. <<>> \in Seq(Ids)
  BY EmptyHasNone
<1>2. Closed \in MType
  BY <1>1 DEF Closed, MType, StateNames, JobNames, StoredType
<1>3. Active(Closed) = {}
  BY DEF Active, Closed
<1>4. Honest(Closed)
  BY EmptyHasNone DEF Honest, Closed
<1>5. Cardinality(Active(Closed)) <= MaxConcurrent
  BY <1>3, FS_EmptySet, DownloadsAssumption
<1>6. ~Closed.saveDue /\ ~Closed.restored /\ Closed.rows = <<>> /\ ~Closed.running
      /\ Closed.pending = <<>>
  BY DEF Closed
<1>7. Whole(Closed) /\ Pumped(Closed)
  BY <1>2, <1>4, <1>5, <1>6 DEF Whole, Pumped
<1>8. \A queue : Current(Closed, queue)
  BY <1>6 DEF Current
<1> QED BY <1>2, <1>7, <1>8

LEMMA SaavnCutStep ==
    ASSUME IInv, NEW id \in Ids, SaavnCut(id)
    PROVE  IInv' /\ StepIsSafe
<1> DEFINE names == disk[db.folder][id]
           placed(left) == (names \ Unfinished) \cup left \cup {"done"}
<1>1. dl' = Closed /\ resolving' = FALSE /\ db' = db
  BY DEF SaavnCut
<1>2. PICK after \in {names \ {"done"}} \cup {placed(left) : left \in SUBSET (names \cap Unfinished)} :
          disk' = [disk EXCEPT ![db.folder][id] = after]
  BY DEF SaavnCut
<1>3. names \in SUBSET Kinds
  BY NowIs DEF DiskType
<1>4. after \in SUBSET Kinds /\ names \cap Finished \subseteq after \cup {"done"}
  <2>1. CASE after = names \ {"done"}
    BY <1>3, <2>1
  <2>2. ASSUME NEW left \in SUBSET (names \cap Unfinished), after = placed(left)
        PROVE  after \in SUBSET Kinds /\ names \cap Finished \subseteq after \cup {"done"}
    BY <1>3, <2>2, DownloadsAssumption DEF Finished, Unfinished
  <2> QED BY <1>2, <2>1, <2>2
<1> HIDE DEF placed
<1>5. /\ disk' \in DiskType
      /\ \A f \in Folders : \A j \in Ids :
            disk'[f][j] = IF f = db.folder /\ j = id THEN after ELSE disk[f][j]
  BY <1>2, <1>4, NowIs DEF DiskType
<1>6. IInv'
  BY <1>1, <1>5, ClosedIsWhole, NowIs DEF IInv
<1>7. FilesStay
  <2> SUFFICES ASSUME NEW f \in Folders, NEW j \in Ids, NEW kind \in Finished,
                      kind \in disk[f][j] \ disk'[f][j]
               PROVE  f = db.folder /\ kind = "done" /\ Replacing(j)
    BY DEF FilesStay
  <2>1. f = db.folder /\ j = id /\ kind = "done"
    BY <1>4, <1>5
  <2> QED BY <2>1 DEF Replacing
<1> QED BY <1>1, <1>6, <1>7 DEF StepIsSafe

\* The destructor: only JioSaavn's attempts are cleared, and a queue not yet put
\* back is left as it was.
LEMMA DownloadsQuitStep ==
    ASSUME IInv, DownloadsQuit
    PROVE  IInv' /\ StepIsSafe
<1> DEFINE swept(id) == dl.job[id] = "saavn" \/ (dl.job[id] = "ytdlp" /\ ~dl.restored)
           clear == [id \in Ids |-> IF swept(id)
                                    THEN Cleared(disk[db.folder][id], dl.before[id], KindsKept(dl, id))
                                    ELSE disk[db.folder][id]]
<1>1. /\ dl' = Closed /\ resolving' = FALSE
      /\ db' = [db EXCEPT !.queue = IF dl.restored THEN QueueOf(dl) ELSE @]
      /\ disk' = [disk EXCEPT ![db.folder] = clear]
  BY DEF DownloadsQuit
<1>2. \A id \in Ids : /\ clear[id] \subseteq disk[db.folder][id]
                      /\ \A kind \in Finished : kind \in disk[db.folder][id] \ clear[id] =>
                            dl.job[id] # "none" /\ kind \notin dl.before[id]
  BY DEF Cleared
<1>3. clear \in [Ids -> SUBSET Kinds]
  <2>1. clear = [id \in Ids |-> clear[id]]
    OBVIOUS
  <2>2. \A id \in Ids : disk[db.folder][id] \subseteq Kinds
    BY NowIs DEF DiskType
  <2> HIDE DEF clear
  <2>3. \A id \in Ids : clear[id] \in SUBSET Kinds
    BY <1>2, <2>2
  <2> QED BY <2>1, <2>3
<1> HIDE DEF clear
<1>4. disk' \in DiskType
  BY <1>1, <1>3, NowIs DEF DiskType
<1>5. FilesStay
  <2> SUFFICES ASSUME NEW f \in Folders, NEW id \in Ids, NEW kind \in Finished,
                      kind \in disk[f][id] \ disk'[f][id]
               PROVE  f = db.folder /\ dl.job[id] # "none" /\ kind \notin dl.before[id]
    BY DEF FilesStay
  <2>1. f = db.folder /\ disk'[f][id] = clear[id]
    BY <1>1, NowIs DEF DiskType
  <2> QED BY <1>2, <2>1
<1>6. /\ db' \in DbType /\ Keyed(db'.queue)
      /\ ~dl.restored => db'.queue = db.queue
  <2>1. QueueOf(dl) \in Seq(QueueRows) /\ Keyed(QueueOf(dl))
    BY NowIs, QueueIs DEF Whole
  <2> DEFINE queue == IF dl.restored THEN QueueOf(dl) ELSE db.queue
  <2>2. queue \in Seq(QueueRows) /\ Keyed(queue) /\ (~dl.restored => queue = db.queue)
    BY <2>1, NowIs
  <2>3. db' = [db EXCEPT !.queue = queue]
    BY <1>1
  <2> HIDE DEF queue
  <2>4. db' \in DbType /\ db'.queue = queue
    BY <2>2, <2>3, NowIs DEF DbType
  <2> QED BY <2>2, <2>4
<1>7. IInv'
  BY <1>1, <1>4, <1>6, ClosedIsWhole DEF IInv
<1> QED BY <1>5, <1>6, <1>7 DEF StepIsSafe

LEMMA DownloadsCrashStep ==
    ASSUME IInv, DownloadsCrash
    PROVE  IInv' /\ StepIsSafe
<1>1. dl' = Closed /\ resolving' = FALSE /\ disk' = disk /\ db' = db
  BY DEF DownloadsCrash
<1>2. IInv'
  BY <1>1, ClosedIsWhole, NowIs DEF IInv
<1> QED BY <1>1, <1>2, DiskSame DEF StepIsSafe

LEMMA LaunchStep ==
    ASSUME IInv, NEW available \in BOOLEAN, Launch(available)
    PROVE  IInv' /\ StepIsSafe
<1> DEFINE stored == LoadStored(disk, db.rows)
           n == [Closed EXCEPT !.running = TRUE, !.available = available, !.stored = stored]
           s == [Now EXCEPT !.m = n]
           t == RestoreQueue(s)
<1>1. Becomes(t)
  BY DEF Launch
<1>2. stored \in StoredType
  BY NowIs, StoredIs
<1> HIDE DEF stored
<1>3. /\ n \in MType /\ n.running /\ n.restored = Closed.restored /\ n.saveDue = Closed.saveDue
      /\ n.rows = Closed.rows /\ n.state = Closed.state /\ n.pending = Closed.pending
      /\ n.job = Closed.job
  BY <1>2, ClosedIsWhole DEF MType
<1>4. ~Closed.saveDue /\ ~Closed.restored /\ Closed.pending = <<>>
  BY DEF Closed
<1> HIDE DEF n
<1>5. Honest(n) /\ Active(n) = Active(Closed)
  BY <1>3, ClosedIsWhole DEF Whole, Honest, Active
<1>6. Whole(n) /\ Pumped(n) /\ Current(n, db.queue)
  BY <1>3, <1>4, <1>5, ClosedIsWhole DEF Whole, Pumped, Current
<1>7. s \in Hands /\ s.m = n /\ s.disk = disk
  BY <1>3, NowIs DEF Now, Hands
<1> HIDE DEF s
<1>8. Handled(t) /\ t.disk = s.disk
  BY <1>3, <1>6, <1>7, NowIs, RestoreQueueDoes
<1> HIDE DEF t
<1> QED BY <1>1, <1>7, <1>8, Becoming, DiskSame DEF StepIsSafe

LEMMA ResolveStartsStep ==
    ASSUME IInv, ResolveStarts
    PROVE  IInv' /\ StepIsSafe
<1>1. dl' = dl /\ db' = db /\ disk' = disk /\ resolving' = TRUE
  BY DEF ResolveStarts
<1> QED BY <1>1, NowIs, DiskSame DEF IInv, StepIsSafe

\* The end of a lookup posts the callback it was left.
LEMMA ResolveEndsStep ==
    ASSUME IInv, ResolveEnds
    PROVE  IInv' /\ StepIsSafe
<1> DEFINE waiting == IF dl.waiting = "set" THEN "posted" ELSE dl.waiting
<1>1. /\ dl' = [dl EXCEPT !.waiting = waiting]
      /\ db' = db /\ disk' = disk /\ resolving' = FALSE
  BY DEF ResolveEnds
<1>2. waiting \in {"no", "set", "posted"} /\ (dl.waiting # "no" => waiting # "no")
  BY NowIs DEF MType
<1> HIDE DEF waiting
<1>3. /\ dl' \in MType /\ dl'.running = dl.running /\ dl'.restored = dl.restored
      /\ dl'.saveDue = dl.saveDue /\ dl'.rows = dl.rows /\ dl'.state = dl.state
      /\ dl'.pending = dl.pending /\ dl'.job = dl.job /\ dl'.waiting = waiting
      /\ dl'.stored = dl.stored
  BY <1>1, <1>2, NowIs DEF MType
<1>4. Whole(dl') /\ Active(dl') = Active(dl)
  BY <1>3, NowIs, WholeSame
<1>5. Pumped(dl')
  BY <1>2, <1>3, <1>4, NowIs DEF Pumped
<1>6. Current(dl', db.queue)
  BY <1>3, NowIs, CurrentSame
<1>7. IInv'
  BY <1>1, <1>4, <1>5, <1>6, NowIs DEF IInv
<1> QED BY <1>1, <1>7, DiskSame DEF StepIsSafe

LEMMA PlaybackResolvedStep ==
    ASSUME IInv, PlaybackResolved
    PROVE  IInv' /\ StepIsSafe
<1> DEFINE n == [dl EXCEPT !.waiting = "no"]
           s == [Now EXCEPT !.m = n]
           t == Pump(s)
<1>1. Becomes(t)
  <2>1. [Now EXCEPT !.m.waiting = "no"] = s
    BY DEF Now
  <2> QED BY <2>1 DEF PlaybackResolved
<1>2. /\ n \in MType /\ n.running = dl.running /\ n.restored = dl.restored
      /\ n.saveDue = dl.saveDue /\ n.rows = dl.rows /\ n.state = dl.state
      /\ n.pending = dl.pending /\ n.job = dl.job /\ n.stored = dl.stored
  BY NowIs DEF MType
<1> HIDE DEF n
<1>3. Whole(n)
  BY <1>2, NowIs, WholeSame
<1>4. Current(n, db.queue)
  BY <1>2, NowIs, CurrentSame
<1>5. s \in Hands /\ s.m = n /\ s.disk = disk
  BY <1>2, NowIs DEF Now, Hands
<1> HIDE DEF s
<1>6. Handled(t) /\ t.disk = s.disk
  BY <1>3, <1>4, <1>5, NowIs, PumpDoes
<1> HIDE DEF t
<1> QED BY <1>1, <1>5, <1>6, Becoming, DiskSame DEF StepIsSafe

LEMMA CarriedStep ==
    ASSUME IInv, NEW id \in Ids, NEW from \in Folders, Carried(id, from)
    PROVE  IInv' /\ StepIsSafe
<1>1. PICK kind \in disk[from][id] \cap Finished : \E to \in SUBSET (Folders \ {from}) :
          disk' = [f \in Folders |-> [disk[f] EXCEPT ![id] = IF f = from THEN @ \ {kind}
                                                     ELSE IF f \in to THEN @ \cup {kind} ELSE @]]
  BY DEF Carried
<1>2. PICK to \in SUBSET (Folders \ {from}) :
          disk' = [f \in Folders |-> [disk[f] EXCEPT ![id] = IF f = from THEN @ \ {kind}
                                                     ELSE IF f \in to THEN @ \cup {kind} ELSE @]]
  BY <1>1
<1>3. dl' = dl /\ db' = db /\ resolving' = resolving
  BY DEF Carried
<1>4. kind \in Kinds
  BY DEF Finished
<1> DEFINE now(f) == IF f = from THEN disk[f][id] \ {kind}
                     ELSE IF f \in to THEN disk[f][id] \cup {kind} ELSE disk[f][id]
<1>5. disk' = [f \in Folders |-> [disk[f] EXCEPT ![id] = now(f)]]
  BY <1>2
<1>6. \A f \in Folders : disk[f] \in [Ids -> SUBSET Kinds]
  BY NowIs DEF DiskType
<1>7. \A f \in Folders : now(f) \in SUBSET Kinds /\ (f # from => disk[f][id] \subseteq now(f))
  BY <1>4, <1>6
<1> HIDE DEF now
<1>8. \A f \in Folders : /\ disk'[f] \in [Ids -> SUBSET Kinds]
                         /\ \A j \in Ids : disk'[f][j] = IF j = id THEN now(f) ELSE disk[f][j]
  BY <1>5, <1>6, <1>7
<1>9. disk' \in DiskType
  <2>1. disk' = [f \in Folders |-> disk'[f]]
    BY <1>5
  <2> QED BY <1>8, <2>1 DEF DiskType
<1>10. IInv'
  BY <1>3, <1>9, NowIs DEF IInv
<1>11. FilesStay
  <2> SUFFICES ASSUME NEW f \in Folders, NEW j \in Ids, NEW k \in Finished,
                      k \in disk[f][j] \ disk'[f][j]
               PROVE  Carried(j, f)
    BY DEF FilesStay
  <2>1. j = id /\ f = from
    BY <1>7, <1>8
  <2> QED BY <2>1
<1> QED BY <1>3, <1>10, <1>11 DEF StepIsSafe

-----------------------------------------------------------------------------

LEMMA InitHolds ==
    ASSUME DownloadsInit
    PROVE  IInv
<1>1. /\ dl = Closed /\ disk \in [Folders -> [Ids -> SUBSET Finished]] /\ resolving = FALSE
      /\ db = [rows |-> [id \in Ids |-> NoFile], queue |-> <<>>, folder |-> CHOOSE f \in Folders : TRUE]
  BY DEF DownloadsInit
<1>2. disk \in DiskType
  BY <1>1 DEF DiskType, Finished
<1>3. db \in DbType /\ db.queue = <<>>
  <2>1. (CHOOSE f \in Folders : TRUE) \in Folders
    BY DownloadsAssumption
  <2>2. <<>> \in Seq(QueueRows)
    BY EmptyHasNone
  <2> QED BY <1>1, <2>1, <2>2 DEF DbType, StoredType
<1>4. Keyed(db.queue)
  BY <1>3 DEF Keyed
<1> QED BY <1>1, <1>2, <1>3, <1>4, ClosedIsWhole DEF IInv

LEMMA OneSong ==
    ASSUME NEW id \in Ids
    PROVE  <<id>> \in Seq(Ids) /\ IsInjective(<<id>>)
<1>1. <<id>> \in Seq(Ids) /\ DOMAIN <<id>> = 1 .. 1
  OBVIOUS
<1> QED BY <1>1 DEF IsInjective

LEMMA EverySong ==
    ASSUME NEW ids \in SetToSeqs(Ids)
    PROVE  ids \in Seq(Ids) /\ IsInjective(ids)
<1>1. Cardinality(Ids) \in Nat
  BY DownloadsAssumption, FS_CardinalityType
<1>2. /\ ids \in [1 .. Cardinality(Ids) -> Ids]
      /\ \A i, j \in 1 .. Cardinality(Ids) : i # j => ids[i] # ids[j]
  BY DEF SetToSeqs
<1>3. ids \in Seq(Ids)
  BY <1>1, <1>2
<1>4. IsInjective(ids)
  BY <1>2 DEF IsInjective
<1> QED BY <1>3, <1>4

LEMMA ListenerStep ==
    ASSUME IInv, Listener
    PROVE  IInv' /\ StepIsSafe
<1>1. ASSUME NEW id \in Ids, NEW av \in BOOLEAN, Enqueue(<<id>>, av)
      PROVE  IInv' /\ StepIsSafe
  BY <1>1, OneSong, EnqueueStep
<1>2. ASSUME NEW ids \in SetToSeqs(Ids), Enqueue(ids, dl.available)
      PROVE  IInv' /\ StepIsSafe
  <2>1. dl.available \in BOOLEAN
    BY NowIs DEF MType
  <2> QED BY <1>2, <2>1, EverySong, EnqueueStep
<1>3. ASSUME NEW ids \in SetToSeqs(Ids), Retry(ids)
      PROVE  IInv' /\ StepIsSafe
  BY <1>3, EverySong, RetryStep
<1>4. ASSUME NEW id \in Ids, Retry(<<id>>)
      PROVE  IInv' /\ StepIsSafe
  BY <1>4, OneSong, RetryStep
<1>5. ASSUME NEW id \in Ids, NEW f \in BOOLEAN, CancelIt(id, f) \/ RemoveIt(id, f)
      PROVE  IInv' /\ StepIsSafe
  BY <1>5, CancelItStep, RemoveItStep
<1>6. ASSUME NEW folder \in Folders, SetDownloadDirectory(folder)
      PROVE  IInv' /\ StepIsSafe
  BY <1>6, SetDownloadDirectoryStep
<1>7. ASSUME DownloadsQuit
      PROVE  IInv' /\ StepIsSafe
  BY <1>7, DownloadsQuitStep
<1>8. ASSUME NEW av \in BOOLEAN, Launch(av)
      PROVE  IInv' /\ StepIsSafe
  BY <1>8, LaunchStep
<1> QED BY <1>1, <1>2, <1>3, <1>4, <1>5, <1>6, <1>7, <1>8 DEF Listener

LEMMA TransferStep ==
    ASSUME IInv, NEW id \in Ids, Transfer(id)
    PROVE  IInv' /\ StepIsSafe
<1>1. ASSUME NEW has \in BOOLEAN, SaavnAnswered(id, has)
      PROVE  IInv' /\ StepIsSafe
  BY <1>1, SaavnAnsweredStep
<1>2. ASSUME NEW wrote \in BOOLEAN, NEW reported \in BOOLEAN, YtdlpFinished(id, wrote, reported)
      PROVE  IInv' /\ StepIsSafe
  BY <1>2, YtdlpFinishedStep
<1>3. ASSUME YtdlpFailed(id) \/ SaavnFinished(id) \/ SaavnFails(id)
      PROVE  IInv' /\ StepIsSafe
  BY <1>3, YtdlpFailedStep, SaavnFinishedStep, SaavnFailsStep
<1>4. ASSUME SaavnNotPlaced(id) \/ SaavnCut(id)
      PROVE  IInv' /\ StepIsSafe
  BY <1>4, SaavnNotPlacedStep, SaavnCutStep
<1> QED BY <1>1, <1>2, <1>3, <1>4 DEF Transfer

LEMMA WorldStep ==
    ASSUME IInv, World
    PROVE  IInv' /\ StepIsSafe
<1>1. ASSUME NEW id \in Ids, Transfer(id)
      PROVE  IInv' /\ StepIsSafe
  BY <1>1, TransferStep
<1>2. ASSUME NEW id \in Ids, NEW kind \in Kinds, Writes(id, kind)
      PROVE  IInv' /\ StepIsSafe
  BY <1>2, WritesStep
<1>3. ASSUME NEW id \in Ids, NEW from \in Folders, Carried(id, from)
      PROVE  IInv' /\ StepIsSafe
  BY <1>3, CarriedStep
<1>4. ASSUME RefreshTools \/ SaveTimer \/ DownloadsCrash
      PROVE  IInv' /\ StepIsSafe
  BY <1>4, RefreshToolsStep, SaveTimerStep, DownloadsCrashStep
<1>5. ASSUME ResolveStarts \/ ResolveEnds \/ PlaybackResolved
      PROVE  IInv' /\ StepIsSafe
  BY <1>5, ResolveStartsStep, ResolveEndsStep, PlaybackResolvedStep
<1> QED BY <1>1, <1>2, <1>3, <1>4, <1>5 DEF World

LEMMA NextStep ==
    ASSUME IInv, [DownloadsNext]_downloads
    PROVE  IInv' /\ (StepIsSafe \/ UNCHANGED downloads)
<1>1. CASE DownloadsNext
  BY <1>1, ListenerStep, WorldStep DEF DownloadsNext
<1>2. CASE UNCHANGED downloads
  BY <1>2 DEF downloads, IInv
<1> QED BY <1>1, <1>2

LEMMA Invariant == DownloadsSpec => []IInv
<1>1. DownloadsInit => IInv
  BY InitHolds
<1>2. IInv /\ [DownloadsNext]_downloads => IInv'
  BY NextStep
<1> QED BY <1>1, <1>2, PTL DEF DownloadsSpec

\* The shapes of the variables, and the limit: however downloads end, are
\* cancelled, fall through or are put off, no more than kMaxConcurrent run.
THEOREM DownloadsTypes == DownloadsSpec => []DownloadsTypeOK
<1>1. IInv => DownloadsTypeOK
  BY DEF IInv, Whole, MType, DiskType, DbType, StoredType, StateNames, JobNames, DownloadsTypeOK
<1> QED BY <1>1, Invariant, PTL

\* Rows, m_pending, the running jobs and the saved queue tell one story at every
\* moment (DownloadManager's handlers, each with its Touch and its pump).
THEOREM RowsStayKept == DownloadsSpec => []RowsAreKept
<1>1. IInv => RowsAreKept
  <2> SUFFICES ASSUME IInv PROVE RowsAreKept
    OBVIOUS
  <2>1. RowsAreHonest
    <3>1. ASSUME NEW id \in Ids
          PROVE  /\ (dl.state[id] = "queued") = Contains(dl.pending, id)
                 /\ (dl.state[id] = "downloading") = (dl.job[id] # "none")
                 /\ (dl.state[id] # "none") = Contains(dl.rows, id)
      <4>1. /\ dl.state[id] = "queued" <=> Contains(dl.pending, id)
            /\ dl.state[id] = "downloading" <=> dl.job[id] # "none"
            /\ dl.state[id] # "none" <=> Contains(dl.rows, id)
        BY NowIs DEF Whole, Honest
      <4> QED BY <4>1 DEF Contains
    <3>2. IsInjective(dl.pending) /\ IsInjective(dl.rows)
      BY NowIs DEF Whole, Honest
    <3> QED BY <3>1, <3>2 DEF RowsAreHonest
  <2>2. SomebodyPumps
    BY NowIs DEF Pumped, SomebodyPumps
  <2>3. SavedIsCurrent
    BY NowIs DEF Current, Unstored, SavedIsCurrent
  <2> QED BY <2>1, <2>2, <2>3 DEF RowsAreKept
<1> QED BY <1>1, Invariant, PTL

\* A finished file goes with its song's removal, by the listener's hand, with the
\* failed attempt it came from (removeLeftovers, m_before), or where JioSaavn's own
\* copy of it fails, or the program ends, inside finish() (Replacing, which removes
\* first and places after), and otherwise stays; and nothing is written over a queue
\* that has not been put back (saveQueue).
THEOREM NothingGoes == DownloadsSpec => NothingIsThrownAway
<1>1. IInv /\ [DownloadsNext]_downloads =>
         [\A f \in Folders : \A id \in Ids : \A kind \in Finished :
            kind \in disk[f][id] \ disk'[f][id] =>
                \/ f = db.folder /\ dl.job[id] # "none" /\ kind \notin dl.before[id]
                \/ \E finished \in BOOLEAN : RemoveIt(id, finished)
                \/ Carried(id, f)
                \/ f = db.folder /\ kind = "done" /\ Replacing(id)]_downloads
  BY NextStep DEF StepIsSafe, FilesStay
<1>2. IInv /\ [DownloadsNext]_downloads =>
         [dl.running /\ ~dl.restored => db'.queue = db.queue]_downloads
  BY NextStep DEF StepIsSafe
<1>3. DownloadsSpec => FinishedFilesStay
  BY <1>1, Invariant, PTL DEF DownloadsSpec, FinishedFilesStay
<1>4. DownloadsSpec => QueueWaitsForTools
  BY <1>2, Invariant, PTL DEF DownloadsSpec, QueueWaitsForTools
<1> QED BY <1>3, <1>4 DEF NothingIsThrownAway
=============================================================================
