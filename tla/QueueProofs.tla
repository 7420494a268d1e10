---------------------------- MODULE QueueProofs ----------------------------
(***************************************************************************)
(* What is proved of the queue, from the operators it is made of to the    *)
(* launches of the app.                                                    *)
(*                                                                         *)
(* Part 1.  The operators of QueueModel: a queue in good order comes out   *)
(*   of each of them in good order.  First the facts about sequences they  *)
(*   rest on, then one lemma per operator.                                 *)
(* Part 2.  PlayQueue, for every set of videos, every list and every       *)
(*   bound: an inductive invariant, one step per action, and the           *)
(*   properties that follow from it.                                       *)
(* Part 3.  PlayQueue implements PlayOrder: no call changes the order      *)
(*   songs will play in once shuffle is off, but for the songs it is about.*)
(* Part 4.  Session, for every library, every number of rows kept and      *)
(*   every crash: a launch after quitting opens on the song, the place,    *)
(*   the songs to come and the order behind the shuffle that were left.    *)
(***************************************************************************)
EXTENDS Session, SequenceTheorems, FiniteSetTheorems, TLAPS

-----------------------------------------------------------------------------
(***************************************************************************)
(* Part 1.  The operators of QueueModel                                    *)
(***************************************************************************)

(* Sequences spliced and cut *)

LEMMA SpliceFacts ==
    ASSUME NEW S, NEW s \in Seq(S), NEW t \in Seq(S), NEW row \in 1 .. Len(s) + 1
    PROVE  /\ Splice(s, row, t) \in Seq(S)
           /\ Len(Splice(s, row, t)) = Len(s) + Len(t)
           /\ \A n \in 1 .. Len(s) + Len(t) :
                 Splice(s, row, t)[n] = IF n < row THEN s[n]
                                        ELSE IF n < row + Len(t) THEN t[n - row + 1]
                                        ELSE s[n - Len(t)]
<1> DEFINE front == SubSeq(s, 1, row - 1)
           back  == SubSeq(s, row, Len(s))
           first == front \o t
           whole == first \o back
<1>0. Len(s) \in Nat /\ Len(t) \in Nat /\ row \in Nat
  OBVIOUS
<1>1. /\ front \in Seq(S) /\ Len(front) = row - 1
      /\ \A n \in 1 .. row - 1 : front[n] = s[n]
  BY <1>0, SubSeqProperties
<1>2. /\ back \in Seq(S) /\ Len(back) = Len(s) - row + 1
      /\ \A n \in 1 .. Len(s) - row + 1 : back[n] = s[row + n - 1]
  BY <1>0, SubSeqProperties
<1> HIDE DEF front, back
<1>3. /\ first \in Seq(S) /\ Len(first) = Len(front) + Len(t)
      /\ \A n \in 1 .. Len(front) + Len(t) :
            first[n] = IF n <= Len(front) THEN front[n] ELSE t[n - Len(front)]
  BY <1>1, ConcatProperties, Zenon
<1> HIDE DEF first
<1>a. first \in Seq(S) /\ back \in Seq(S)
  BY <1>2, <1>3
<1>4. /\ whole \in Seq(S) /\ Len(whole) = Len(first) + Len(back)
      /\ \A n \in 1 .. Len(first) + Len(back) :
            whole[n] = IF n <= Len(first) THEN first[n] ELSE back[n - Len(first)]
  BY <1>a, ConcatProperties, Zenon
<1> HIDE DEF whole
<1>5. Len(first) = row - 1 + Len(t) /\ Len(whole) = Len(s) + Len(t)
  BY <1>0, <1>1, <1>2, <1>3, <1>4, SMTT(20)
<1>6. ASSUME NEW n \in 1 .. Len(s) + Len(t)
      PROVE  whole[n] = IF n < row THEN s[n]
                        ELSE IF n < row + Len(t) THEN t[n - row + 1]
                        ELSE s[n - Len(t)]
  <2>1. CASE n < row
    <3>1. n \in 1 .. row - 1 /\ n <= Len(front) /\ n <= Len(first)
          /\ n \in 1 .. Len(front) + Len(t) /\ n \in 1 .. Len(first) + Len(back)
      BY <2>1, <1>0, <1>1, <1>2, <1>5
    <3> QED
      BY <2>1, <3>1, <1>1, <1>3, <1>4
  <2>2. CASE n >= row /\ n < row + Len(t)
    <3>1. ~ n <= Len(front) /\ n <= Len(first) /\ ~ n < row
          /\ n \in 1 .. Len(front) + Len(t) /\ n \in 1 .. Len(first) + Len(back)
      BY <2>2, <1>0, <1>1, <1>2, <1>5
    <3>2. n - Len(front) = n - row + 1
      BY <1>0, <1>1
    <3> QED
      BY <2>2, <3>1, <3>2, <1>3, <1>4
  <2>3. CASE n >= row + Len(t)
    <3>0. n \in Nat /\ n <= Len(s) + Len(t) /\ Len(first) = row - 1 + Len(t)
          /\ Len(back) = Len(s) - row + 1
      BY <1>0, <1>2, <1>5
    <3>1. /\ ~ n <= Len(first) /\ ~ n < row /\ ~ n < row + Len(t)
          /\ n \in 1 .. Len(first) + Len(back)
          /\ n - Len(first) \in 1 .. Len(s) - row + 1
      BY <2>3, <3>0, <1>0
    <3>2. row + (n - Len(first)) - 1 = n - Len(t)
      BY <1>0, <1>5
    <3> QED
      BY <3>1, <3>2, <1>2, <1>4
  <2> QED
    BY <2>1, <2>2, <2>3, <1>0
<1> QED
  BY <1>4, <1>5, <1>6 DEF Splice, whole, first, front, back

LEMMA CutFacts ==
    ASSUME NEW S, NEW s \in Seq(S), NEW row \in 1 .. Len(s)
    PROVE  /\ RemoveAt(s, row) \in Seq(S)
           /\ Len(RemoveAt(s, row)) = Len(s) - 1
           /\ \A n \in 1 .. Len(s) - 1 :
                 RemoveAt(s, row)[n] = IF n < row THEN s[n] ELSE s[n + 1]
<1> DEFINE front == SubSeq(s, 1, row - 1)
           back  == SubSeq(s, row + 1, Len(s))
           whole == front \o back
<1>0. Len(s) \in Nat /\ row \in Nat
  OBVIOUS
<1>1. /\ front \in Seq(S) /\ Len(front) = row - 1
      /\ \A n \in 1 .. row - 1 : front[n] = s[n]
  BY <1>0, SubSeqProperties
<1>2. /\ back \in Seq(S) /\ Len(back) = Len(s) - row
      /\ \A n \in 1 .. Len(s) - row : back[n] = s[row + 1 + n - 1]
  BY <1>0, SubSeqProperties
<1> HIDE DEF front, back
<1>3. /\ whole \in Seq(S) /\ Len(whole) = Len(front) + Len(back)
      /\ \A n \in 1 .. Len(front) + Len(back) :
            whole[n] = IF n <= Len(front) THEN front[n] ELSE back[n - Len(front)]
  BY <1>1, <1>2, ConcatProperties, Zenon
<1> HIDE DEF whole
<1>4. ASSUME NEW n \in 1 .. Len(s) - 1
      PROVE  whole[n] = IF n < row THEN s[n] ELSE s[n + 1]
  <2>1. CASE n < row
    <3>1. n \in 1 .. row - 1 /\ n <= Len(front) /\ n \in 1 .. Len(front) + Len(back)
      BY <2>1, <1>0, <1>1, <1>2
    <3> QED
      BY <2>1, <3>1, <1>1, <1>3
  <2>2. CASE n >= row
    <3>1. /\ n - Len(front) \in 1 .. Len(s) - row
          /\ n \in 1 .. Len(front) + Len(back)
          /\ ~ n <= Len(front) /\ ~ n < row
      BY <2>2, <1>0, <1>1, <1>2
    <3>2. row + 1 + (n - Len(front)) - 1 = n + 1
      BY <1>0, <1>1
    <3> QED
      BY <3>1, <3>2, <1>2, <1>3
  <2> QED
    BY <2>1, <2>2, <1>0
<1>5. Len(whole) = Len(s) - 1
  BY <1>0, <1>1, <1>2, <1>3
<1> QED
  BY <1>3, <1>4, <1>5 DEF RemoveAt, whole, front, back

LEMMA SpliceRange ==
    ASSUME NEW S, NEW s \in Seq(S), NEW t \in Seq(S), NEW row \in 1 .. Len(s) + 1
    PROVE  Range(Splice(s, row, t)) = Range(s) \cup Range(t)
<1> DEFINE r == Splice(s, row, t)
<1>0. Len(s) \in Nat /\ Len(t) \in Nat /\ row \in Nat /\ row >= 1 /\ row <= Len(s) + 1
  OBVIOUS
<1>1. r \in Seq(S) /\ Len(r) = Len(s) + Len(t)
  BY SpliceFacts
<1>2. \A n \in 1 .. Len(s) + Len(t) :
         r[n] = IF n < row THEN s[n] ELSE IF n < row + Len(t) THEN t[n - row + 1] ELSE s[n - Len(t)]
  BY SpliceFacts
<1> HIDE DEF r
<1>3. ASSUME NEW n \in 1 .. Len(r) PROVE r[n] \in Range(s) \cup Range(t)
  <2>1. CASE n < row
    BY <2>1, <1>0, <1>1, <1>2 DEF Range
  <2>2. CASE n >= row /\ n < row + Len(t)
    <3>1. n - row + 1 \in 1 .. Len(t) /\ ~ n < row /\ n \in 1 .. Len(s) + Len(t)
      BY <2>2, <1>0, <1>1
    <3>2. r[n] = t[n - row + 1]
      BY <2>2, <3>1, <1>2
    <3> QED
      BY <3>1, <3>2 DEF Range
  <2>3. CASE n >= row + Len(t)
    <3>1. n - Len(t) \in 1 .. Len(s) /\ ~ n < row /\ ~ n < row + Len(t)
      BY <2>3, <1>0, <1>1
    <3> QED
      BY <3>1, <1>1, <1>2 DEF Range
  <2> QED
    BY <2>1, <2>2, <2>3, <1>0, <1>1
<1>4. ASSUME NEW n \in 1 .. Len(s) PROVE s[n] \in Range(r)
  <2>1. CASE n < row
    <3>1. n \in 1 .. Len(r) /\ n \in 1 .. Len(s) + Len(t) /\ DOMAIN r = 1 .. Len(r)
      BY <1>0, <1>1
    <3>2. r[n] = s[n]
      BY <2>1, <3>1, <1>2
    <3> QED
      BY <3>1, <3>2 DEF Range
  <2>2. CASE n >= row
    <3>1. /\ n + Len(t) \in 1 .. Len(r) /\ n + Len(t) \in 1 .. Len(s) + Len(t)
          /\ ~ n + Len(t) < row /\ ~ n + Len(t) < row + Len(t) /\ (n + Len(t)) - Len(t) = n
      BY <2>2, <1>0, <1>1
    <3>2. r[n + Len(t)] = s[n]
      BY <3>1, <1>2
    <3> QED
      BY <3>1, <3>2, <1>1 DEF Range
  <2> QED
    BY <2>1, <2>2, <1>0
<1>5. ASSUME NEW n \in 1 .. Len(t) PROVE t[n] \in Range(r)
  <2> DEFINE k == n + row - 1
  <2>1. /\ k \in 1 .. Len(r) /\ k \in 1 .. Len(s) + Len(t)
        /\ ~ k < row /\ k < row + Len(t) /\ k - row + 1 = n
    BY <1>0, <1>1
  <2> HIDE DEF k
  <2>2. r[k] = t[n]
    BY <2>1, <1>2
  <2> QED
    BY <2>1, <2>2, <1>1 DEF Range
<1>6. DOMAIN r = 1 .. Len(r) /\ DOMAIN s = 1 .. Len(s) /\ DOMAIN t = 1 .. Len(t)
  BY <1>1
<1>7. Range(r) \subseteq Range(s) \cup Range(t)
  BY <1>3, <1>6 DEF Range
<1>8. Range(s) \subseteq Range(r) /\ Range(t) \subseteq Range(r)
  BY <1>4, <1>5, <1>6 DEF Range
<1> QED
  BY <1>7, <1>8 DEF r

LEMMA CutRange ==
    ASSUME NEW S, NEW s \in Seq(S), NEW row \in 1 .. Len(s)
    PROVE  /\ Range(RemoveAt(s, row)) \subseteq Range(s)
           /\ \A n \in 1 .. Len(s) : n # row => s[n] \in Range(RemoveAt(s, row))
<1> DEFINE r == RemoveAt(s, row)
<1>0. Len(s) \in Nat /\ row \in Nat /\ row >= 1 /\ row <= Len(s)
  OBVIOUS
<1>1. r \in Seq(S) /\ Len(r) = Len(s) - 1
  BY CutFacts
<1>2. \A n \in 1 .. Len(s) - 1 : r[n] = IF n < row THEN s[n] ELSE s[n + 1]
  BY CutFacts
<1> HIDE DEF r
<1>3. ASSUME NEW n \in 1 .. Len(r) PROVE r[n] \in Range(s)
  <2>1. n \in 1 .. Len(s) /\ n + 1 \in 1 .. Len(s) /\ n \in 1 .. Len(s) - 1
    BY <1>0, <1>1
  <2> QED
    BY <2>1, <1>2 DEF Range
<1>4. ASSUME NEW n \in 1 .. Len(s), n # row PROVE s[n] \in Range(r)
  <2>1. CASE n < row
    <3>1. n \in 1 .. Len(r) /\ n \in 1 .. Len(s) - 1
      BY <2>1, <1>0, <1>1
    <3> QED
      BY <2>1, <3>1, <1>1, <1>2 DEF Range
  <2>2. CASE n > row
    <3>1. n - 1 \in 1 .. Len(r) /\ n - 1 \in 1 .. Len(s) - 1 /\ ~ n - 1 < row /\ (n - 1) + 1 = n
      BY <2>2, <1>0, <1>1
    <3>2. r[n - 1] = s[n]
      BY <3>1, <1>2
    <3> QED
      BY <3>1, <3>2, <1>1 DEF Range
  <2> QED
    BY <2>1, <2>2, <1>0, <1>4
<1> QED
  BY <1>1, <1>3, <1>4 DEF Range, r

-----------------------------------------------------------------------------
(* Sequences whose members have different keys: the songs of a queue, whose *)
(* key is the uid, and the order from before a shuffle, its own keys.       *)

Distinct(s, key) == \A m, n \in DOMAIN s : key[s[m]] = key[s[n]] => m = n

LEMMA CutDistinct ==
    ASSUME NEW S, NEW s \in Seq(S), NEW key, Distinct(s, key), NEW row \in 1 .. Len(s)
    PROVE  /\ Distinct(RemoveAt(s, row), key)
           /\ \A x \in Range(RemoveAt(s, row)) : key[x] # key[s[row]]
<1> DEFINE r == RemoveAt(s, row)
           f(n) == IF n < row THEN n ELSE n + 1
<1>0. Len(s) \in Nat /\ row \in Nat
  OBVIOUS
<1>1. r \in Seq(S) /\ Len(r) = Len(s) - 1
  BY CutFacts
<1>2. \A n \in 1 .. Len(s) - 1 : r[n] = IF n < row THEN s[n] ELSE s[n + 1]
  BY CutFacts
<1> HIDE DEF r
<1>3. DOMAIN r = 1 .. Len(s) - 1 /\ DOMAIN s = 1 .. Len(s)
  BY <1>1
<1>4. ASSUME NEW n \in DOMAIN r
      PROVE  n \in Nat /\ f(n) \in DOMAIN s /\ f(n) # row /\ r[n] = s[f(n)]
  BY <1>0, <1>2, <1>3
<1>5. ASSUME NEW m \in DOMAIN r, NEW n \in DOMAIN r, key[r[m]] = key[r[n]]
      PROVE  m = n
  <2>1. f(m) = f(n)
    BY <1>4, <1>5 DEF Distinct
  <2> QED
    BY <2>1, <1>0, <1>4
<1>6. ASSUME NEW n \in DOMAIN r PROVE key[r[n]] # key[s[row]]
  BY <1>3, <1>4 DEF Distinct
<1> QED
  BY <1>5, <1>6 DEF Distinct, Range, r

LEMMA SpliceDistinct ==
    ASSUME NEW S, NEW s \in Seq(S), NEW t \in Seq(S), NEW key, NEW row \in 1 .. Len(s) + 1,
           Distinct(s, key), Distinct(t, key),
           \A x \in Range(s), y \in Range(t) : key[x] # key[y]
    PROVE  Distinct(Splice(s, row, t), key)
<1> DEFINE r      == Splice(s, row, t)
           New(n) == row <= n /\ n < row + Len(t)
           f(n)   == IF n < row THEN n ELSE n - Len(t)
<1>0. Len(s) \in Nat /\ Len(t) \in Nat /\ row \in Nat /\ row >= 1
  OBVIOUS
<1>1. r \in Seq(S) /\ Len(r) = Len(s) + Len(t)
  BY SpliceFacts
<1>2. \A n \in 1 .. Len(s) + Len(t) :
         r[n] = IF n < row THEN s[n] ELSE IF n < row + Len(t) THEN t[n - row + 1] ELSE s[n - Len(t)]
  BY SpliceFacts
<1> HIDE DEF r
<1>3. DOMAIN r = 1 .. Len(s) + Len(t) /\ DOMAIN s = 1 .. Len(s) /\ DOMAIN t = 1 .. Len(t)
  BY <1>1
<1>4. ASSUME NEW n \in DOMAIN r, New(n)
      PROVE  n - row + 1 \in DOMAIN t /\ r[n] = t[n - row + 1]
  <2>1. n \in Nat /\ n >= row /\ ~ n < row /\ n < row + Len(t)
    BY <1>0, <1>3, <1>4
  <2>2. n - row + 1 \in DOMAIN t
    BY <2>1, <1>0, <1>3
  <2> QED
    BY <2>1, <2>2, <1>2, <1>3
<1>5. ASSUME NEW n \in DOMAIN r, ~ New(n)
      PROVE  f(n) \in DOMAIN s /\ r[n] = s[f(n)]
  <2>1. n \in Nat /\ n <= Len(s) + Len(t) /\ n >= 1 /\ (n < row \/ (~ n < row /\ n >= row + Len(t)))
    BY <1>0, <1>3, <1>5
  <2>2. f(n) \in DOMAIN s
    BY <2>1, <1>0, <1>3
  <2> QED
    BY <2>1, <2>2, <1>0, <1>2, <1>3
<1>6. \A n \in DOMAIN r : n \in Nat
  BY <1>3
<1>7. ASSUME NEW m \in DOMAIN r, NEW n \in DOMAIN r, key[r[m]] = key[r[n]]
      PROVE  m = n
  <2>1. CASE New(m) /\ New(n)
    <3>1. m - row + 1 = n - row + 1
      BY <2>1, <1>4, <1>7 DEF Distinct
    <3> QED
      BY <3>1, <1>0, <1>6
  <2>2. CASE New(m) /\ ~ New(n)
    <3> HIDE DEF New, f
    <3> QED
      BY <2>2, <1>4, <1>5, <1>7 DEF Range
  <2>3. CASE ~ New(m) /\ New(n)
    <3> HIDE DEF New, f
    <3> QED
      BY <2>3, <1>4, <1>5, <1>7 DEF Range
  <2>4. CASE ~ New(m) /\ ~ New(n)
    <3>1. f(m) = f(n)
      <4> HIDE DEF New, f
      <4> QED
        BY <2>4, <1>5, <1>7 DEF Distinct
    <3>2. m \in Nat /\ n \in Nat
      BY <1>6
    <3>3. /\ m < row \/ m >= row + Len(t)
          /\ n < row \/ n >= row + Len(t)
      BY <2>4, <3>2, <1>0
    <3> QED
      BY <3>1, <3>2, <3>3, <1>0
  <2> QED
    BY <2>1, <2>2, <2>3, <2>4
<1> QED
  BY <1>7 DEF Distinct, r

\* Members taken from a sequence by different rows have different keys too.
LEMMA MappedDistinct ==
    ASSUME NEW s, NEW r, NEW key, NEW f, Distinct(s, key),
           \A n \in DOMAIN r : f[n] \in DOMAIN s /\ r[n] = s[f[n]],
           \A m, n \in DOMAIN r : f[m] = f[n] => m = n
    PROVE  Distinct(r, key) /\ Range(r) \subseteq Range(s)
BY DEF Distinct, Range

-----------------------------------------------------------------------------
(* Queues *)

UidOf == [song \in Track |-> song.uid]

Itself == [uid \in Nat |-> uid]

GoodItems(items, current, next) ==
    /\ items \in Seq(Track)
    /\ current \in 0 .. Len(items)
    /\ current = 0 <=> Len(items) = 0
    /\ Distinct(items, UidOf)
    /\ \A song \in Range(items) : song.uid \in 1 .. next - 1

GoodOrder(order, items) ==
    /\ order \in Seq(Nat)
    /\ Distinct(order, Itself)
    /\ \A uid \in Range(order) : HasUid(items, uid)

GoodQueue(q) ==
    /\ q \in Queue
    /\ GoodItems(q.items, q.current, q.next)
    /\ GoodOrder(q.order, q.items)

LEMMA QueueOf ==
    ASSUME NEW items, NEW current, NEW order, NEW next \in Nat \ {0},
           GoodItems(items, current, next), GoodOrder(order, items)
    PROVE  GoodQueue([items |-> items, current |-> current, order |-> order, next |-> next])
<1>1. current \in Nat /\ items \in Seq(Track) /\ order \in Seq(Nat)
  BY DEF GoodItems, GoodOrder
<1> QED
  BY <1>1 DEF GoodQueue, Queue

LEMMA GoodParts ==
    ASSUME NEW q, GoodQueue(q)
    PROVE  /\ q \in Queue
           /\ q.items \in Seq(Track) /\ Len(q.items) \in Nat
           /\ q.current \in 0 .. Len(q.items) /\ q.current \in Nat
           /\ q.current = 0 <=> Len(q.items) = 0
           /\ q.next \in Nat \ {0}
           /\ Distinct(q.items, UidOf)
           /\ \A song \in Range(q.items) : song \in Track /\ song.uid \in 1 .. q.next - 1
           /\ q.order \in Seq(Nat) /\ Distinct(q.order, Itself)
           /\ \A uid \in Range(q.order) : HasUid(q.items, uid)
           /\ q = [items |-> q.items, current |-> q.current, order |-> q.order, next |-> q.next]
<1>1. q \in Queue /\ q.items \in Seq(Track) /\ q.next \in Nat \ {0} /\ q.current \in Nat
      /\ q = [items |-> q.items, current |-> q.current, order |-> q.order, next |-> q.next]
  BY DEF GoodQueue, Queue
<1>2. \A song \in Range(q.items) : song \in Track
  BY <1>1 DEF Range
<1> QED
  BY <1>1, <1>2 DEF GoodQueue, GoodItems, GoodOrder

LEMMA NoOrder == ASSUME NEW items PROVE GoodOrder(<<>>, items)
BY DEF GoodOrder, Distinct, Range

LEMMA StampFacts ==
    ASSUME NEW tracks \in Seq(Track), NEW next \in Nat \ {0}
    PROVE  /\ Stamp(tracks, next) \in Seq(Track)
           /\ Len(Stamp(tracks, next)) = Len(tracks)
           /\ \A n \in 1 .. Len(tracks) : Stamp(tracks, next)[n].uid = next + n - 1
           /\ Distinct(Stamp(tracks, next), UidOf)
           /\ \A song \in Range(Stamp(tracks, next)) : song.uid \in next .. next + Len(tracks) - 1
<1> DEFINE new == Stamp(tracks, next)
<1>1. ASSUME NEW n \in DOMAIN tracks
      PROVE  /\ [tracks[n] EXCEPT !.uid = next + n - 1] \in Track
             /\ [tracks[n] EXCEPT !.uid = next + n - 1].uid = next + n - 1
  <2>1. tracks[n] \in Track /\ next + n - 1 \in Nat
    OBVIOUS
  <2> QED
    BY <2>1 DEF Track
<1>2. new \in Seq(Track) /\ Len(new) = Len(tracks)
  BY <1>1 DEF Stamp
<1>3. \A n \in 1 .. Len(tracks) : new[n].uid = next + n - 1
  BY <1>1 DEF Stamp
<1> HIDE DEF new
<1>4. DOMAIN new = 1 .. Len(tracks) /\ Len(tracks) \in Nat
  BY <1>2
<1>5. \A n \in DOMAIN new : new[n] \in Track /\ UidOf[new[n]] = next + n - 1
  BY <1>2, <1>3, <1>4 DEF UidOf
<1>6. Distinct(new, UidOf)
  BY <1>4, <1>5 DEF Distinct
<1>7. \A n \in DOMAIN new : new[n].uid \in next .. next + Len(tracks) - 1
  BY <1>3, <1>4
<1>8. \A song \in Range(new) : song.uid \in next .. next + Len(tracks) - 1
  BY <1>7 DEF Range
<1> QED
  BY <1>2, <1>3, <1>6, <1>8 DEF new

LEMMA ReplacedGood ==
    ASSUME NEW q \in Queue, NEW tracks \in Seq(Track), NEW row \in Nat
    PROVE  GoodQueue(Replaced(q, tracks, row))
<1> DEFINE new     == Stamp(tracks, q.next)
           current == IF tracks = <<>> THEN 0 ELSE Clamp(1, row, Len(tracks))
           next    == q.next + Len(tracks)
<1>1. q.next \in Nat \ {0} /\ Len(tracks) \in Nat
  BY DEF Queue
<1>2. /\ new \in Seq(Track)
      /\ Len(new) = Len(tracks)
      /\ Distinct(new, UidOf)
      /\ \A song \in Range(new) : song.uid \in q.next .. q.next + Len(tracks) - 1
  BY <1>1, StampFacts
<1>3. tracks = <<>> <=> Len(tracks) = 0
  OBVIOUS
<1>4. current \in 0 .. Len(tracks) /\ (current = 0 <=> Len(tracks) = 0)
  BY <1>1, <1>3 DEF Clamp
<1>5. next \in Nat \ {0}
  BY <1>1
<1> HIDE DEF new, current
<1>6. \A song \in Range(new) : song.uid \in 1 .. next - 1
  BY <1>1, <1>2
<1> HIDE DEF next
<1>7. GoodItems(new, current, next)
  BY <1>2, <1>4, <1>6 DEF GoodItems
<1>8. GoodQueue([items |-> new, current |-> current, order |-> <<>>, next |-> next])
  BY <1>5, <1>7, NoOrder, QueueOf
<1> QED
  BY <1>8 DEF Replaced, new, current, next

LEMMA InsertedGood ==
    ASSUME NEW q, GoodQueue(q), NEW tracks \in Seq(Track),
           NEW row \in 1 .. Len(q.items) + 1, q.current > 0
    PROVE  GoodQueue(Inserted(q, row, tracks))
<1> DEFINE old     == q.items
           new     == Stamp(tracks, q.next)
           items   == Splice(old, row, new)
           current == IF q.current >= row THEN q.current + Len(tracks) ELSE q.current
           uids    == Uids(new)
           order   == InsertedOrder(q, row, uids)
           next    == q.next + Len(tracks)
<1>1. /\ q.next \in Nat \ {0} /\ Len(tracks) \in Nat /\ Len(old) \in Nat
      /\ old \in Seq(Track) /\ Distinct(old, UidOf) /\ row \in 1 .. Len(old) + 1
      /\ q.current \in 1 .. Len(old)
  BY GoodParts
<1>2. \A song \in Range(old) : song \in Track /\ song.uid \in 1 .. q.next - 1
  BY GoodParts
<1>3. /\ new \in Seq(Track)
      /\ Len(new) = Len(tracks)
      /\ \A n \in 1 .. Len(tracks) : new[n].uid = q.next + n - 1
      /\ Distinct(new, UidOf)
  BY <1>1, StampFacts
<1>4. \A song \in Range(new) : song.uid \in q.next .. q.next + Len(tracks) - 1
  BY <1>1, StampFacts
<1> HIDE DEF old, new
<1>5. \A song \in Range(new) : song \in Track
  BY <1>3 DEF Range
<1>6. \A x \in Range(old), y \in Range(new) : UidOf[x] # UidOf[y]
  BY <1>1, <1>2, <1>4, <1>5 DEF UidOf
<1>7. items \in Seq(Track) /\ Len(items) = Len(old) + Len(tracks)
  <2>0. old \in Seq(Track) /\ new \in Seq(Track) /\ row \in 1 .. Len(old) + 1
    BY <1>1, <1>3
  <2>1. items \in Seq(Track)
    BY <2>0, SpliceFacts
  <2>2. Len(items) = Len(old) + Len(new)
    BY <2>0, SpliceFacts
  <2> QED
    BY <2>1, <2>2, <1>3
<1>8. Distinct(items, UidOf)
  BY <1>1, <1>3, <1>6, SpliceDistinct
<1>9. Range(items) = Range(old) \cup Range(new)
  BY <1>1, <1>3, SpliceRange
<1> HIDE DEF items
<1>10. \A song \in Range(items) : song.uid \in 1 .. next - 1
  BY <1>1, <1>2, <1>4, <1>9
<1>11. GoodItems(items, current, next)
  BY <1>1, <1>7, <1>8, <1>10 DEF GoodItems
<1>12. /\ uids \in Seq(Nat)
       /\ Distinct(uids, Itself)
       /\ \A uid \in Range(uids) : uid >= q.next /\ HasUid(new, uid)
  <2>1. uids = [n \in 1 .. Len(new) |-> new[n].uid] /\ Len(new) \in Nat
    BY <1>1, <1>3 DEF Uids
  <2>2. \A n \in 1 .. Len(new) : new[n].uid = q.next + n - 1 /\ new[n].uid \in Nat
    BY <1>1, <1>3
  <2>3. uids \in Seq(Nat) /\ DOMAIN uids = 1 .. Len(new)
    BY <2>1, <2>2
  <2>4. \A n \in 1 .. Len(new) : uids[n] = q.next + n - 1 /\ Itself[uids[n]] = q.next + n - 1
    BY <2>1, <2>2 DEF Itself
  <2>5. Distinct(uids, Itself)
    <3> HIDE DEF uids
    <3> QED
      BY <1>1, <2>3, <2>4, SMTT(20) DEF Distinct
  <2>6. \A n \in 1 .. Len(new) : uids[n] >= q.next /\ new[n] \in Range(new) /\ new[n].uid = uids[n]
    BY <1>1, <1>3, <2>1, <2>4 DEF Range
  <2>7. \A n \in 1 .. Len(new) : uids[n] >= q.next /\ HasUid(new, uids[n])
    <3> HIDE DEF uids
    <3> QED
      BY <2>6 DEF HasUid
  <2> HIDE DEF uids
  <2> QED
    BY <2>3, <2>5, <2>7 DEF Range
<1> HIDE DEF uids
<1>13. GoodOrder(order, items)
  <2>1. /\ q.order \in Seq(Nat) /\ Distinct(q.order, Itself)
        /\ \A uid \in Range(q.order) : uid \in Nat /\ HasUid(old, uid)
    <3>1. q.order \in Seq(Nat) /\ Distinct(q.order, Itself)
      BY GoodParts
    <3>2. \A uid \in Range(q.order) : HasUid(q.items, uid)
      BY GoodParts
    <3>3. \A uid \in Range(q.order) : uid \in Nat
      BY <3>1 DEF Range
    <3> QED
      BY <3>1, <3>2, <3>3 DEF old
  <2>2. \A uid \in Range(q.order) : uid <= q.next - 1
    BY <1>1, <1>2, <2>1, SMTT(20) DEF HasUid
  <2>3. \A x \in Range(q.order), y \in Range(uids) : Itself[x] # Itself[y]
    <3>1. \A y \in Range(uids) : y \in Nat /\ y >= q.next
      BY <1>12 DEF Range
    <3> QED
      BY <1>1, <2>1, <2>2, <3>1 DEF Itself
  <2>4. \A uid \in Range(q.order) \cup Range(uids) : HasUid(items, uid)
    BY <1>9, <1>12, <2>1 DEF HasUid
  <2>5. CASE q.order = <<>>
    BY <2>5, NoOrder DEF InsertedOrder
  <2>6. ASSUME NEW spot \in 1 .. Len(q.order) + 1
        PROVE  GoodOrder(Splice(q.order, spot, uids), items)
    <3>1. Splice(q.order, spot, uids) \in Seq(Nat)
      BY <1>12, <2>1, SpliceFacts
    <3>2. Distinct(Splice(q.order, spot, uids), Itself)
      BY <1>12, <2>1, <2>3, SpliceDistinct
    <3>3. Range(Splice(q.order, spot, uids)) = Range(q.order) \cup Range(uids)
      BY <1>12, <2>1, SpliceRange
    <3> QED
      BY <2>4, <3>1, <3>2, <3>3 DEF GoodOrder
  <2>7. /\ uids \o q.order = Splice(q.order, 1, uids)
        /\ q.order \o uids = Splice(q.order, Len(q.order) + 1, uids)
    <3>0. Len(q.order) \in Nat
      BY <2>1
    <3>1. SubSeq(q.order, 1, 1 - 1) = <<>> /\ SubSeq(q.order, Len(q.order) + 1, Len(q.order)) = <<>>
      BY <3>0, SubSeqEmpty
    <3>2. SubSeq(q.order, 1, Len(q.order)) = q.order
      BY <2>1, SubSeqFull
    <3>3. <<>> \o uids = uids /\ (q.order \o uids) \o <<>> = q.order \o uids
      BY <1>12, <2>1, ConcatEmptySeq, ConcatProperties
    <3>4. (Len(q.order) + 1) - 1 = Len(q.order)
      BY <3>0
    <3> QED
      BY <3>1, <3>2, <3>3, <3>4 DEF Splice
  <2>8. 1 \in 1 .. Len(q.order) + 1 /\ Len(q.order) + 1 \in 1 .. Len(q.order) + 1
    BY <2>1
  <2> QED
    BY <2>5, <2>6, <2>7, <2>8 DEF InsertedOrder
<1>14. next \in Nat \ {0}
  BY <1>1
<1> HIDE DEF current, order, next
<1>15. GoodQueue([items |-> items, current |-> current, order |-> order, next |-> next])
  BY <1>11, <1>13, <1>14, QueueOf
<1> QED
  BY <1>15 DEF Inserted, items, current, order, next, new, uids, old

\* Taking a uid out of the order: what is left is still an order, without it.
LEMMA RemoveFirstFacts ==
    ASSUME NEW order \in Seq(Nat), Distinct(order, Itself), NEW uid \in Nat
    PROVE  /\ RemoveFirst(order, uid) \in Seq(Nat)
           /\ Distinct(RemoveFirst(order, uid), Itself)
           /\ Range(RemoveFirst(order, uid)) \subseteq Range(order) \ {uid}
<1>1. CASE ~ \E n \in 1 .. Len(order) : order[n] = uid
  <2>1. RemoveFirst(order, uid) = order
    BY <1>1 DEF RemoveFirst
  <2>2. uid \notin Range(order)
    BY <1>1 DEF Range
  <2> QED
    BY <2>1, <2>2
<1>2. ASSUME NEW n \in 1 .. Len(order), order[n] = uid
      PROVE  /\ RemoveFirst(order, uid) \in Seq(Nat)
             /\ Distinct(RemoveFirst(order, uid), Itself)
             /\ Range(RemoveFirst(order, uid)) \subseteq Range(order) \ {uid}
  <2> DEFINE I == {m \in 1 .. Len(order) : order[m] = uid}
             r == RemoveAt(order, n)
  <2>1. \A m \in 1 .. Len(order) : order[m] \in Nat /\ Itself[order[m]] = order[m]
    BY DEF Itself
  <2>2. I = {n}
    BY <1>2, <2>1 DEF Distinct
  <2>3. Min(I) = n
    BY <2>2 DEF Min
  <2>4. RemoveFirst(order, uid) = r
    BY <1>2, <2>2, <2>3 DEF RemoveFirst, SelectInSeq
  <2>5. r \in Seq(Nat)
    BY CutFacts
  <2>6. Distinct(r, Itself) /\ \A x \in Range(r) : Itself[x] # Itself[order[n]]
    BY CutDistinct
  <2>7. Range(r) \subseteq Range(order)
    BY CutRange
  <2> HIDE DEF r
  <2>8. uid \notin Range(r)
    BY <1>2, <2>6
  <2> QED
    BY <2>4, <2>5, <2>6, <2>7, <2>8
<1> QED
  BY <1>1, <1>2

\* One row out, and the same rows with the same uids, leave a queue's rows good.
LEMMA CutItems ==
    ASSUME NEW items, NEW current, NEW next, GoodItems(items, current, next),
           NEW row \in 1 .. Len(items)
    PROVE  /\ RemoveAt(items, row) \in Seq(Track)
           /\ Len(RemoveAt(items, row)) = Len(items) - 1
           /\ Distinct(RemoveAt(items, row), UidOf)
           /\ \A song \in Range(RemoveAt(items, row)) : song.uid \in 1 .. next - 1 /\ song.uid # items[row].uid
           /\ \A uid : HasUid(items, uid) => uid = items[row].uid \/ HasUid(RemoveAt(items, row), uid)
<1> DEFINE r == RemoveAt(items, row)
<1>1. items \in Seq(Track) /\ Distinct(items, UidOf)
  BY DEF GoodItems
<1>2. r \in Seq(Track)
  BY <1>1, CutFacts
<1>3. Len(r) = Len(items) - 1
  BY <1>1, CutFacts
<1>4. Distinct(r, UidOf) /\ \A x \in Range(r) : UidOf[x] # UidOf[items[row]]
  BY <1>1, CutDistinct
<1>5. Range(r) \subseteq Range(items)
  BY <1>1, CutRange
<1>6. \A n \in 1 .. Len(items) : n # row => items[n] \in Range(r)
  BY <1>1, CutRange
<1> HIDE DEF r
<1>7. \A song \in Range(r) : song.uid \in 1 .. next - 1
  BY <1>5 DEF GoodItems
<1>8. \A x \in Range(items) : x \in Track
  BY <1>1 DEF Range
<1>9. items[row] \in Track
  BY <1>1
<1>10. \A song \in Range(r) : song.uid # items[row].uid
  BY <1>4, <1>5, <1>8, <1>9 DEF UidOf
<1>11. ASSUME NEW uid, HasUid(items, uid), uid # items[row].uid
       PROVE  HasUid(r, uid)
  <2>1. PICK n \in 1 .. Len(items) : items[n].uid = uid
    BY <1>1, <1>11 DEF HasUid, Range
  <2> QED
    BY <1>6, <1>11, <2>1 DEF HasUid
<1> QED
  BY <1>2, <1>3, <1>4, <1>7, <1>10, <1>11 DEF r

LEMMA RemovedAtGood ==
    ASSUME NEW q, GoodQueue(q), NEW row \in 1 .. Len(q.items), row # q.current
    PROVE  GoodQueue(RemovedAt(q, row))
<1> DEFINE uid     == q.items[row].uid
           items   == RemoveAt(q.items, row)
           current == IF row < q.current THEN q.current - 1 ELSE q.current
           order   == RemoveFirst(q.order, uid)
<1>1. /\ q.items \in Seq(Track) /\ Len(q.items) \in Nat /\ q.current \in 0 .. Len(q.items)
      /\ q.current = 0 <=> Len(q.items) = 0
      /\ q.next \in Nat \ {0}
  BY GoodParts
<1>2. q = [items |-> q.items, current |-> q.current, order |-> q.order, next |-> q.next]
  BY GoodParts
<1>3. GoodItems(q.items, q.current, q.next)
  BY DEF GoodQueue
<1>4. uid \in Nat
  <2>1. q.items[row] \in Track
    BY <1>1
  <2> QED
    BY <2>1 DEF Track
<1>5. /\ items \in Seq(Track)
      /\ Len(items) = Len(q.items) - 1
      /\ Distinct(items, UidOf)
      /\ \A song \in Range(items) : song.uid \in 1 .. q.next - 1 /\ song.uid # uid
      /\ \A u : HasUid(q.items, u) => u = uid \/ HasUid(items, u)
  BY <1>3, CutItems
<1>6. q.order \in Seq(Nat) /\ Distinct(q.order, Itself) /\ \A u \in Range(q.order) : HasUid(q.items, u)
  BY GoodParts
<1> HIDE DEF uid
<1>7. /\ order \in Seq(Nat)
      /\ Distinct(order, Itself)
      /\ Range(order) \subseteq Range(q.order) \ {uid}
  BY <1>4, <1>6, RemoveFirstFacts
<1> HIDE DEF items, order
<1>8. GoodOrder(order, items)
  BY <1>5, <1>6, <1>7 DEF GoodOrder
<1>9. GoodItems(items, current, q.next)
  <2>1. current \in 0 .. Len(items) /\ (current = 0 <=> Len(items) = 0)
    BY <1>1, <1>5
  <2> QED
    BY <1>5, <2>1 DEF GoodItems
<1> HIDE DEF current
<1>10. GoodQueue([items |-> items, current |-> current, order |-> order, next |-> q.next])
  BY <1>1, <1>8, <1>9, QueueOf
<1>11. RemovedAt(q, row) = [items |-> items, current |-> current, order |-> order, next |-> q.next]
  BY DEF RemovedAt, Rearranged, items, current, order, uid
<1> QED
  BY <1>10, <1>11

LEMMA WithCurrentGood ==
    ASSUME NEW q, GoodQueue(q), NEW row \in 1 .. Len(q.items)
    PROVE  GoodQueue(WithCurrent(q, row))
<1>1. /\ q.items \in Seq(Track) /\ Len(q.items) \in Nat /\ q.next \in Nat \ {0}
      /\ q = [items |-> q.items, current |-> q.current, order |-> q.order, next |-> q.next]
  BY GoodParts
<1>2. Clamp(0, row, Count(q)) = row
  BY <1>1 DEF Clamp, Count
<1>3. GoodItems(q.items, row, q.next) /\ GoodOrder(q.order, q.items)
  BY <1>1 DEF GoodQueue, GoodItems
<1>4. WithCurrent(q, row) = [items |-> q.items, current |-> row, order |-> q.order, next |-> q.next]
  BY <1>2 DEF WithCurrent, Rearranged
<1> QED
  BY <1>1, <1>3, <1>4, QueueOf

\* Rows with the same uids as those of a good queue are good.
LEMMA SameUidsGood ==
    ASSUME NEW items \in Seq(Track), NEW rows \in Seq(Track), Len(rows) = Len(items),
           \A n \in 1 .. Len(items) : rows[n].uid = items[n].uid
    PROVE  /\ Distinct(items, UidOf) => Distinct(rows, UidOf)
           /\ \A song \in Range(rows) : HasUid(items, song.uid)
           /\ \A uid : HasUid(items, uid) => HasUid(rows, uid)
<1>1. DOMAIN items = 1 .. Len(items) /\ DOMAIN rows = 1 .. Len(items)
  OBVIOUS
<1>2. \A n \in 1 .. Len(items) : items[n] \in Track /\ rows[n] \in Track
  OBVIOUS
<1>3. Distinct(items, UidOf) => Distinct(rows, UidOf)
  BY <1>1, <1>2 DEF Distinct, UidOf
<1>4. \A song \in Range(rows) : HasUid(items, song.uid)
  BY <1>1 DEF HasUid, Range
<1>5. \A uid : HasUid(items, uid) => HasUid(rows, uid)
  BY <1>1 DEF HasUid, Range
<1> QED
  BY <1>3, <1>4, <1>5

\* A row taken out and put back elsewhere.
LEMMA MovedItemsGood ==
    ASSUME NEW items, NEW current, NEW next, GoodItems(items, current, next),
           NEW from \in 1 .. Len(items), NEW to \in 1 .. Len(items)
    PROVE  LET moved == InsertAt(RemoveAt(items, from), to, items[from])
           IN  /\ moved \in Seq(Track)
               /\ Len(moved) = Len(items)
               /\ moved[to] = items[from]
               /\ Distinct(moved, UidOf)
               /\ \A song \in Range(moved) : song.uid \in 1 .. next - 1
               /\ \A uid : HasUid(items, uid) => HasUid(moved, uid)
<1> DEFINE rest  == RemoveAt(items, from)
           song  == items[from]
           moved == Splice(rest, to, <<song>>)
<1>1. items \in Seq(Track) /\ Len(items) \in Nat /\ song \in Track
  BY DEF GoodItems
<1>2. /\ rest \in Seq(Track)
      /\ Len(rest) = Len(items) - 1
      /\ Distinct(rest, UidOf)
      /\ \A x \in Range(rest) : x.uid \in 1 .. next - 1 /\ x.uid # song.uid
      /\ \A uid : HasUid(items, uid) => uid = song.uid \/ HasUid(rest, uid)
  BY CutItems
<1>3. song.uid \in 1 .. next - 1
  BY <1>1 DEF GoodItems, Range
<1> HIDE DEF rest, song
<1>4. <<song>> \in Seq(Track) /\ Len(<<song>>) = 1 /\ to \in 1 .. Len(rest) + 1
  BY <1>1, <1>2
<1>5. Range(<<song>>) = {song} /\ Distinct(<<song>>, UidOf)
  BY DEF Range, Distinct
<1>6. \A x \in Range(rest), y \in Range(<<song>>) : UidOf[x] # UidOf[y]
  <2>1. \A x \in Range(rest) : x \in Track
    BY <1>2 DEF Range
  <2> QED
    BY <1>1, <1>2, <1>5, <2>1 DEF UidOf
<1>7. moved \in Seq(Track)
  BY <1>2, <1>4, SpliceFacts
<1>8. Len(moved) = Len(rest) + Len(<<song>>)
  BY <1>2, <1>4, SpliceFacts
<1>9. moved[to] = song
  <2>1. to \in 1 .. Len(rest) + Len(<<song>>) /\ ~ to < to /\ to < to + Len(<<song>>) /\ to - to + 1 = 1
    BY <1>4, <1>1, <1>2
  <2>2. moved[to] = <<song>>[to - to + 1]
    BY <1>2, <1>4, <2>1, SpliceFacts
  <2> QED
    BY <2>1, <2>2
<1>10. Distinct(moved, UidOf)
  BY <1>2, <1>4, <1>5, <1>6, SpliceDistinct
<1>11. Range(moved) = Range(rest) \cup Range(<<song>>)
  BY <1>2, <1>4, SpliceRange
<1>12. moved = InsertAt(rest, to, song)
  BY DEF Splice, InsertAt
<1> HIDE DEF moved
<1>13. \A x \in Range(moved) : x.uid \in 1 .. next - 1
  BY <1>2, <1>3, <1>5, <1>11
<1>14. \A uid : HasUid(items, uid) => HasUid(moved, uid)
  BY <1>2, <1>5, <1>11 DEF HasUid
<1>15. Len(moved) = Len(items)
  BY <1>1, <1>2, <1>4, <1>8
<1> QED
  BY <1>7, <1>9, <1>10, <1>12, <1>13, <1>14, <1>15 DEF rest, song

\* A uid put into an order that does not hold it.
LEMMA InsertUidFacts ==
    ASSUME NEW order \in Seq(Nat), Distinct(order, Itself), NEW uid \in Nat,
           uid \notin Range(order), NEW place \in 1 .. Len(order) + 1
    PROVE  /\ InsertAt(order, place, uid) \in Seq(Nat)
           /\ Distinct(InsertAt(order, place, uid), Itself)
           /\ Range(InsertAt(order, place, uid)) = Range(order) \cup {uid}
<1> DEFINE new == Splice(order, place, <<uid>>)
<1>1. <<uid>> \in Seq(Nat) /\ Range(<<uid>>) = {uid} /\ Distinct(<<uid>>, Itself)
  BY DEF Range, Distinct
<1>2. \A x \in Range(order), y \in Range(<<uid>>) : Itself[x] # Itself[y]
  BY <1>1 DEF Range, Itself
<1>3. new \in Seq(Nat)
  BY <1>1, SpliceFacts
<1>4. Distinct(new, Itself)
  BY <1>1, <1>2, SpliceDistinct
<1>5. Range(new) = Range(order) \cup Range(<<uid>>)
  BY <1>1, SpliceRange
<1>6. new = InsertAt(order, place, uid)
  BY DEF Splice, InsertAt
<1> QED
  BY <1>1, <1>3, <1>4, <1>5, <1>6

LEMMA MovedOrderGood ==
    ASSUME NEW q, GoodQueue(q), q.order # <<>>, NEW items, NEW current \in Nat,
           NEW to \in 1 .. Len(items), items \in Seq(Track),
           \A uid : HasUid(q.items, uid) => HasUid(items, uid)
    PROVE  GoodOrder(MovedOrder(q, items, current, to), items)
<1> DEFINE uid    == items[to].uid
           known  == RemoveFirst(q.order, uid)
           above  == items[to - 1].uid
           At     == CHOOSE n \in 1 .. Len(known) : known[n] = above
           place  == IF to - 1 <= current THEN 1
                     ELSE IF \E n \in DOMAIN known : known[n] = above THEN 1 + At
                     ELSE Len(known) + 1
<1>1. q.order \in Seq(Nat) /\ Distinct(q.order, Itself) /\ \A u \in Range(q.order) : HasUid(q.items, u)
  BY GoodParts
<1>2. uid \in Nat
  <2>1. items[to] \in Track
    OBVIOUS
  <2> QED
    BY <2>1 DEF Track
<1>3. HasUid(items, uid)
  BY DEF HasUid, Range
<1> HIDE DEF uid
<1>4. /\ known \in Seq(Nat)
      /\ Distinct(known, Itself)
      /\ Range(known) \subseteq Range(q.order) \ {uid}
  BY <1>1, <1>2, RemoveFirstFacts
<1> HIDE DEF known
<1>5. place \in 1 .. Len(known) + 1
  <2>1. Len(known) \in Nat /\ DOMAIN known = 1 .. Len(known)
    BY <1>4
  <2> HIDE DEF above
  <2>2. (\E n \in DOMAIN known : known[n] = above) => At \in 1 .. Len(known)
    BY <2>1
  <2> HIDE DEF At
  <2> QED
    BY <2>1, <2>2
<1> HIDE DEF place
<1>6. /\ InsertAt(known, place, uid) \in Seq(Nat)
      /\ Distinct(InsertAt(known, place, uid), Itself)
      /\ Range(InsertAt(known, place, uid)) = Range(known) \cup {uid}
  BY <1>2, <1>4, <1>5, InsertUidFacts
<1>7. \A u \in Range(known) : HasUid(items, u)
  BY <1>1, <1>4
<1>8. GoodOrder(known, items)
  BY <1>4, <1>7 DEF GoodOrder
<1>9. GoodOrder(InsertAt(known, place, uid), items)
  BY <1>3, <1>6, <1>7 DEF GoodOrder
<1>10. MovedOrder(q, items, current, to) = IF to <= current THEN known ELSE InsertAt(known, place, uid)
  BY DEF MovedOrder, place, known, uid, above, At
<1> QED
  BY <1>8, <1>9, <1>10

LEMMA MovedGood ==
    ASSUME NEW q, GoodQueue(q), NEW from \in 1 .. Len(q.items), NEW to \in 1 .. Len(q.items)
    PROVE  GoodQueue(Moved(q, from, to))
<1> DEFINE moved   == MovedItems(q, from, to)
           current == MovedCurrent(q, from, to)
           chosen  == to > current /\ (to - 1 <= current \/ ~moved[to - 1].radio)
           rows    == [moved EXCEPT ![to].radio = @ /\ ~chosen]
           order   == MovedOrder(q, moved, current, to)
<1>1. /\ q.items \in Seq(Track) /\ Len(q.items) \in Nat /\ q.current \in 0 .. Len(q.items)
      /\ q.current = 0 <=> Len(q.items) = 0
      /\ q.next \in Nat \ {0}
  BY GoodParts
<1>2. GoodItems(q.items, q.current, q.next)
  BY DEF GoodQueue
<1>3. /\ moved \in Seq(Track)
      /\ Len(moved) = Len(q.items)
      /\ Distinct(moved, UidOf)
      /\ \A song \in Range(moved) : song.uid \in 1 .. q.next - 1
      /\ \A uid : HasUid(q.items, uid) => HasUid(moved, uid)
  BY <1>2, MovedItemsGood DEF MovedItems
<1>4. current \in 1 .. Len(q.items)
  BY <1>1 DEF MovedCurrent
<1> HIDE DEF moved, current
<1>5. /\ rows \in Seq(Track)
      /\ Len(rows) = Len(moved)
      /\ \A n \in 1 .. Len(moved) : rows[n].uid = moved[n].uid
  <2> DEFINE song == [moved[to] EXCEPT !.radio = @ /\ ~chosen]
  <2>1. to \in 1 .. Len(moved) /\ moved[to] \in Track
    BY <1>3
  <2>2. song \in Track /\ song.uid = moved[to].uid
    <3> HIDE DEF chosen
    <3>1. (moved[to].radio /\ ~chosen) \in BOOLEAN
      BY Zenon
    <3> QED
      BY <2>1, <3>1 DEF Track
  <2>3. rows = [moved EXCEPT ![to] = song]
    OBVIOUS
  <2> HIDE DEF song, rows
  <2> QED
    BY <1>3, <2>1, <2>2, <2>3, ExceptSeq
<1> HIDE DEF rows
<1>6. Distinct(rows, UidOf)
  BY <1>3, <1>5, SameUidsGood
<1>7. \A song \in Range(rows) : HasUid(moved, song.uid)
  BY <1>3, <1>5, SameUidsGood
<1>8. \A uid : HasUid(moved, uid) => HasUid(rows, uid)
  BY <1>3, <1>5, SameUidsGood
<1>9. GoodItems(rows, current, q.next)
  <2>1. \A song \in Range(rows) : song.uid \in 1 .. q.next - 1
    BY <1>3, <1>7 DEF HasUid
  <2> QED
    BY <1>1, <1>3, <1>4, <1>5, <1>6, <2>1 DEF GoodItems
<1>10. GoodOrder(order, rows)
  <2>1. CASE q.order = <<>>
    BY <2>1, NoOrder DEF MovedOrder
  <2>2. CASE q.order # <<>>
    <3>1. GoodOrder(order, moved)
      <4>1. current \in Nat /\ to \in 1 .. Len(moved)
        BY <1>1, <1>3, <1>4
      <4> QED
        BY <1>3, <2>2, <4>1, MovedOrderGood
    <3> QED
      BY <1>8, <3>1 DEF GoodOrder
  <2> QED
    BY <2>1, <2>2
<1> HIDE DEF order
<1>11. GoodQueue([items |-> rows, current |-> current, order |-> order, next |-> q.next])
  BY <1>1, <1>9, <1>10, QueueOf
<1> QED
  BY <1>11 DEF Moved, Rearranged, moved, current, rows, order

LEMMA SubsequenceFacts ==
    ASSUME NEW S, NEW s \in Seq(S), NEW keep \in SUBSET (1 .. Len(s)), NEW key, Distinct(s, key),
           NEW r \in Subsequences(s, keep)
    PROVE  /\ r \in Seq(S)
           /\ IsFiniteSet(keep) /\ Len(r) = Cardinality(keep)
           /\ Distinct(r, key)
           /\ Range(r) \subseteq Range(s)
           /\ \A n \in keep : s[n] \in Range(r)
<1>1. PICK f \in InOrder(keep) : r = [n \in DOMAIN f |-> s[f[n]]]
  BY DEF Subsequences
<1> DEFINE size == Cardinality(keep)
<1>2. IsFiniteSet(keep) /\ size \in Nat
  <2>1. IsFiniteSet(1 .. Len(s))
    BY FS_Interval
  <2> QED
    BY <2>1, FS_Subset, FS_CardinalityType
<1>3. IsFiniteSet(1 .. size) /\ Cardinality(1 .. size) = size
  <2>1. 1 \in Int /\ size \in Int /\ (IF 1 > size THEN 0 ELSE size - 1 + 1) = size
    BY <1>2
  <2> HIDE DEF size
  <2> QED
    BY <2>1, FS_Interval
<1>4. f \in [1 .. size -> keep] /\ \A m, n \in DOMAIN f : m < n => f[m] < f[n]
  BY DEF InOrder
<1> HIDE DEF size
<1>k. \A x \in keep : x \in Int /\ x \in 1 .. Len(s) /\ s[x] \in S
  OBVIOUS
<1>5. \A m, n \in 1 .. size : f[m] = f[n] => m = n
  <2>1. ASSUME NEW m \in 1 .. size, NEW n \in 1 .. size, f[m] = f[n] PROVE m = n
    <3>0. f[m] \in Int /\ f[n] \in Int
      BY <1>4, <1>k
    <3>1. ~ f[m] < f[n] /\ ~ f[n] < f[m]
      BY <2>1, <3>0
    <3>2. ~ m < n /\ ~ n < m
      BY <1>4, <3>1
    <3> QED
      BY <1>2, <3>2
  <2> QED
    BY <2>1
<1>6. f \in Injection(1 .. size, keep)
  BY <1>4, <1>5 DEF Injection, IsInjective
<1>7. f \in Surjection(1 .. size, keep)
  BY <1>2, <1>3, <1>6, FS_Injection DEF size
<1>8. DOMAIN f = 1 .. size /\ \A n \in 1 .. size : f[n] \in 1 .. Len(s) /\ s[f[n]] \in S
  BY <1>4, <1>k
<1>9. r \in Seq(S) /\ Len(r) = size /\ DOMAIN r = 1 .. size
  BY <1>1, <1>2, <1>8
<1>10. \A n \in 1 .. size : r[n] = s[f[n]]
  BY <1>1, <1>8
<1>11. DOMAIN s = 1 .. Len(s)
  OBVIOUS
<1>12. Distinct(r, key) /\ Range(r) \subseteq Range(s)
  <2>1. \A n \in DOMAIN r : f[n] \in DOMAIN s /\ r[n] = s[f[n]]
    BY <1>8, <1>9, <1>10, <1>11
  <2>2. \A m, n \in DOMAIN r : f[m] = f[n] => m = n
    BY <1>5, <1>9
  <2> QED
    BY <2>1, <2>2, MappedDistinct, Zenon
<1>13. \A n \in keep : s[n] \in Range(r)
  BY <1>7, <1>9, <1>10 DEF Surjection, Range
<1> QED
  BY <1>2, <1>9, <1>12, <1>13 DEF size

LEMMA RemovedRowsGood ==
    ASSUME NEW q, GoodQueue(q), NEW rows \in SUBSET Upcoming(q), NEW r \in RemovedRows(q, rows)
    PROVE  GoodQueue(r)
<1> DEFINE kept  == DOMAIN q.items \ rows
           known == StillKnown(q, rows)
<1>1. PICK items \in Subsequences(q.items, kept), order \in Subsequences(q.order, known) :
         r = [items |-> items, current |-> q.current, order |-> order, next |-> q.next]
  BY DEF RemovedRows, Rearranged
<1>2. /\ q.items \in Seq(Track) /\ Len(q.items) \in Nat /\ q.current \in 0 .. Len(q.items)
      /\ q.current = 0 <=> Len(q.items) = 0
      /\ q.next \in Nat \ {0}
      /\ Distinct(q.items, UidOf)
  BY GoodParts
<1>3. \A song \in Range(q.items) : song.uid \in 1 .. q.next - 1
  BY GoodParts
<1>4. q.order \in Seq(Nat) /\ Distinct(q.order, Itself) /\ \A uid \in Range(q.order) : HasUid(q.items, uid)
  BY GoodParts
<1>5. kept \in SUBSET (1 .. Len(q.items)) /\ known \in SUBSET (1 .. Len(q.order))
  BY <1>2, <1>4 DEF StillKnown
<1>6. /\ items \in Seq(Track)
      /\ IsFiniteSet(kept) /\ Len(items) = Cardinality(kept)
      /\ Distinct(items, UidOf)
      /\ Range(items) \subseteq Range(q.items)
      /\ \A n \in kept : q.items[n] \in Range(items)
  <2> HIDE DEF kept
  <2> QED
    BY <1>2, <1>5, SubsequenceFacts
<1>7. /\ order \in Seq(Nat)
      /\ Distinct(order, Itself)
      /\ Range(order) \subseteq Range(q.order)
  <2> HIDE DEF known
  <2> QED
    BY <1>4, <1>5, SubsequenceFacts
<1>8. \A uid \in Range(order) : \A m \in rows : q.items[m].uid # uid
  <2>1. PICK f \in InOrder(known) : order = [n \in DOMAIN f |-> q.order[f[n]]]
    BY DEF Subsequences
  <2>2. \A n \in DOMAIN f : f[n] \in known
    BY <2>1 DEF InOrder
  <2>3. \A n \in DOMAIN order : \A m \in rows : q.items[m].uid # order[n]
    BY <2>1, <2>2 DEF StillKnown
  <2> QED
    BY <2>3 DEF Range
<1>9. ASSUME NEW uid \in Range(order) PROVE HasUid(items, uid)
  <2>1. PICK n \in DOMAIN q.items : q.items[n].uid = uid
    BY <1>4, <1>7 DEF HasUid, Range
  <2>2. n \in kept
    BY <1>8, <2>1
  <2> HIDE DEF kept
  <2> QED
    BY <1>6, <2>1, <2>2 DEF HasUid
<1>10. q.current \in 0 .. Len(items) /\ (q.current = 0 <=> Len(items) = 0)
  <2>1. 1 .. q.current \in SUBSET kept
    BY <1>2 DEF Upcoming, Count
  <2>2. kept \in SUBSET (1 .. Len(q.items))
    BY <1>5
  <2>3. Len(items) = Cardinality(kept) /\ IsFiniteSet(kept)
    BY <1>6
  <2> HIDE DEF kept
  <2>4. Cardinality(1 .. q.current) = q.current /\ IsFiniteSet(1 .. q.current)
    <3>1. 1 \in Int /\ q.current \in Int /\ (IF 1 > q.current THEN 0 ELSE q.current - 1 + 1) = q.current
      BY <1>2
    <3> QED
      BY <3>1, FS_Interval
  <2>5. Cardinality(1 .. q.current) <= Cardinality(kept)
    BY <2>1, <2>3, FS_Subset
  <2>6. CASE q.current = 0
    <3>1. kept = {}
      BY <1>2, <2>2, <2>6
    <3>2. Cardinality(kept) = 0
      BY <3>1, FS_EmptySet
    <3> QED
      BY <2>3, <2>6, <3>2
  <2>7. CASE q.current # 0
    <3>1. Len(items) \in Nat
      BY <1>6
    <3> QED
      BY <1>2, <2>3, <2>4, <2>5, <2>7, <3>1
  <2> QED
    BY <2>6, <2>7
<1>11. GoodItems(items, q.current, q.next)
  BY <1>3, <1>6, <1>10 DEF GoodItems
<1>12. GoodOrder(order, items)
  BY <1>7, <1>9 DEF GoodOrder
<1> QED
  BY <1>1, <1>2, <1>11, <1>12, QueueOf

LEMMA ClearedGood ==
    ASSUME NEW q, GoodQueue(q)
    PROVE  GoodQueue(ClearedUpcoming(q))
<1> DEFINE rows == SubSeq(q.items, 1, q.current)
<1>1. /\ q.items \in Seq(Track) /\ Len(q.items) \in Nat /\ q.current \in 0 .. Len(q.items)
      /\ q.current = 0 <=> Len(q.items) = 0
      /\ q.next \in Nat \ {0}
      /\ Distinct(q.items, UidOf)
  BY GoodParts
<1>2. \A song \in Range(q.items) : song.uid \in 1 .. q.next - 1
  BY GoodParts
<1>3. /\ rows \in Seq(Track)
      /\ Len(rows) = q.current
      /\ \A n \in 1 .. q.current : rows[n] = q.items[n]
  <2>1. \A n \in 1 .. q.current : q.items[n] \in Track /\ 1 + n - 1 = n
    BY <1>1
  <2>2. /\ rows \in Seq(Track)
        /\ Len(rows) = IF 1 <= q.current THEN q.current - 1 + 1 ELSE 0
        /\ \A n \in 1 .. q.current - 1 + 1 : rows[n] = q.items[1 + n - 1]
    BY <1>1, <2>1, SubSeqProperties
  <2>3. q.current - 1 + 1 = q.current
    BY <1>1
  <2> HIDE DEF rows
  <2> QED
    BY <1>1, <2>1, <2>2, <2>3
<1> HIDE DEF rows
<1>4. DOMAIN rows = 1 .. q.current /\ \A n \in 1 .. q.current : n \in DOMAIN q.items
  BY <1>1, <1>3
<1>5. Distinct(rows, UidOf) /\ Range(rows) \subseteq Range(q.items)
  BY <1>1, <1>3, <1>4 DEF Distinct, Range
<1>6. GoodItems(rows, q.current, q.next)
  BY <1>1, <1>2, <1>3, <1>5 DEF GoodItems
<1>7. GoodQueue([items |-> rows, current |-> q.current, order |-> <<>>, next |-> q.next])
  BY <1>1, <1>6, NoOrder, QueueOf
<1> QED
  BY <1>7 DEF ClearedUpcoming, Rearranged, rows

\* However the upcoming rows are arranged, the queue holds the same songs.
LEMMA ArrangedFacts ==
    ASSUME NEW q, GoodQueue(q), NEW p \in Bijection(Upcoming(q), Upcoming(q))
    PROVE  /\ GoodItems(Arranged(q, p), q.current, q.next)
           /\ Range(Arranged(q, p)) = Range(q.items)
           /\ Len(Arranged(q, p)) = Len(q.items)
           /\ \A uid : HasUid(q.items, uid) => HasUid(Arranged(q, p), uid)
<1> DEFINE rows == Arranged(q, p)
           f    == [n \in 1 .. Len(q.items) |-> IF n > q.current THEN p[n] ELSE n]
<1>1. /\ q.items \in Seq(Track) /\ Len(q.items) \in Nat /\ q.current \in 0 .. Len(q.items)
      /\ q.current = 0 <=> Len(q.items) = 0
      /\ Distinct(q.items, UidOf)
  BY GoodParts
<1>2. \A song \in Range(q.items) : song.uid \in 1 .. q.next - 1
  BY GoodParts
<1>3. /\ p \in [Upcoming(q) -> Upcoming(q)]
      /\ \A m, n \in Upcoming(q) : p[m] = p[n] => m = n
      /\ \A n \in Upcoming(q) : \E m \in Upcoming(q) : p[m] = n
  <2>1. p \in [Upcoming(q) -> Upcoming(q)]
    BY DEF Bijection, Injection
  <2>2. \A m, n \in DOMAIN p : p[m] = p[n] => m = n
    BY DEF Bijection, Injection, IsInjective
  <2>3. \A n \in Upcoming(q) : \E m \in Upcoming(q) : p[m] = n
    BY DEF Bijection, Surjection
  <2> QED
    BY <2>1, <2>2, <2>3
<1>4. \A n : n \in Upcoming(q) <=> n \in 1 .. Len(q.items) /\ n > q.current
  BY <1>1 DEF Upcoming, Count
<1>5. DOMAIN q.items = 1 .. Len(q.items) /\ DOMAIN rows = 1 .. Len(q.items)
  BY <1>1 DEF Arranged
<1>6. ASSUME NEW n \in 1 .. Len(q.items)
      PROVE  f[n] \in 1 .. Len(q.items) /\ rows[n] = q.items[f[n]] /\ (f[n] > q.current <=> n > q.current)
  BY <1>1, <1>3, <1>4, <1>5 DEF Arranged
<1>7. rows \in Seq(Track) /\ Len(rows) = Len(q.items)
  <2>1. rows \in [1 .. Len(q.items) -> Track]
    <3>1. \A n \in 1 .. Len(q.items) : rows[n] \in Track
      <4> HIDE DEF rows, f
      <4> QED
        BY <1>1, <1>6
    <3>2. rows = [n \in 1 .. Len(q.items) |-> rows[n]]
      BY <1>5 DEF Arranged
    <3> HIDE DEF rows, f
    <3> QED
      BY <3>1, <3>2
  <2> HIDE DEF rows, f
  <2> QED
    BY <1>1, <2>1
<1>8. ASSUME NEW m \in 1 .. Len(q.items), NEW n \in 1 .. Len(q.items), f[m] = f[n]
      PROVE  m = n
  <2>1. m > q.current <=> n > q.current
    BY <1>6, <1>8
  <2> QED
    BY <1>3, <1>4, <1>8, <2>1
<1>9. ASSUME NEW n \in 1 .. Len(q.items) PROVE \E m \in 1 .. Len(q.items) : f[m] = n
  BY <1>3, <1>4
<1> HIDE DEF rows, f
<1>10. Distinct(rows, UidOf) /\ Range(rows) \subseteq Range(q.items)
  <2>1. \A n \in DOMAIN rows : f[n] \in DOMAIN q.items /\ rows[n] = q.items[f[n]]
    BY <1>5, <1>6
  <2>2. \A m, n \in DOMAIN rows : f[m] = f[n] => m = n
    BY <1>5, <1>8
  <2> QED
    BY <1>1, <2>1, <2>2, MappedDistinct, Zenon
<1>11. Range(q.items) \subseteq Range(rows)
  <2>1. \A n \in 1 .. Len(q.items) : \E m \in DOMAIN rows : rows[m] = q.items[n]
    <3> SUFFICES ASSUME NEW n \in 1 .. Len(q.items)
                 PROVE  \E m \in DOMAIN rows : rows[m] = q.items[n]
      OBVIOUS
    <3>1. PICK m \in 1 .. Len(q.items) : f[m] = n
      BY <1>9
    <3> QED
      BY <1>5, <1>6, <3>1
  <2> QED
    BY <1>5, <2>1 DEF Range
<1>12. GoodItems(rows, q.current, q.next)
  BY <1>1, <1>2, <1>7, <1>10 DEF GoodItems
<1>13. \A uid : HasUid(q.items, uid) => HasUid(rows, uid)
  BY <1>11 DEF HasUid
<1> QED
  BY <1>7, <1>10, <1>11, <1>12, <1>13 DEF rows

LEMMA RestoredGood ==
    ASSUME NEW q, GoodQueue(q), NEW r \in Restored(q)
    PROVE  GoodQueue(r) /\ r.order = <<>>
<1>1. CASE q.order = <<>>
  BY <1>1 DEF Restored
<1>2. CASE q.order # <<>>
  <2>1. PICK p \in StableSorts(q) : r = [items |-> Arranged(q, p), current |-> q.current,
                                          order |-> <<>>, next |-> q.next]
    BY <1>2 DEF Restored, Rearranged
  <2>2. p \in Bijection(Upcoming(q), Upcoming(q))
    BY DEF StableSorts
  <2>3. GoodItems(Arranged(q, p), q.current, q.next)
    BY <2>2, ArrangedFacts
  <2>4. q.next \in Nat \ {0}
    BY GoodParts
  <2> QED
    BY <2>1, <2>3, <2>4, NoOrder, QueueOf
<1> QED
  BY <1>1, <1>2

LEMMA ShuffledGood ==
    ASSUME NEW q, GoodQueue(q), NEW r \in Shuffled(q)
    PROVE  GoodQueue(r)
<1> DEFINE ahead == SubSeq(q.items, q.current + 1, Count(q))
           uids  == Uids(ahead)
<1>1. /\ q.items \in Seq(Track) /\ Len(q.items) \in Nat /\ q.current \in 0 .. Len(q.items)
      /\ q.next \in Nat \ {0}
      /\ Distinct(q.items, UidOf)
  BY GoodParts
<1>2. CASE UpcomingCount(q) < 2
  BY <1>2 DEF Shuffled
<1>3. CASE ~ UpcomingCount(q) < 2
  <2> DEFINE size == Len(q.items) - q.current
  <2>1. PICK p \in Bijection(Upcoming(q), Upcoming(q)) :
           r = [items |-> Arranged(q, p), current |-> q.current, order |-> uids, next |-> q.next]
    BY <1>3 DEF Shuffled, Rearranged, UpcomingUids
  <2>2. size \in Nat /\ q.current + 1 <= Len(q.items) /\ Len(q.items) - (q.current + 1) + 1 = size
    BY <1>1, <1>3 DEF UpcomingCount, Count
  <2>3. /\ ahead \in Seq(Track)
        /\ Len(ahead) = size
        /\ \A n \in 1 .. size : ahead[n] = q.items[q.current + n]
    <3>1. \A n \in q.current + 1 .. Len(q.items) : q.items[n] \in Track
      BY <1>1
    <3>2. /\ ahead \in Seq(Track)
          /\ Len(ahead) = IF q.current + 1 <= Len(q.items) THEN Len(q.items) - (q.current + 1) + 1 ELSE 0
          /\ \A n \in 1 .. Len(q.items) - (q.current + 1) + 1 : ahead[n] = q.items[q.current + 1 + n - 1]
      BY <1>1, <3>1, SubSeqProperties DEF Count
    <3>3. \A n \in 1 .. size : q.current + 1 + n - 1 = q.current + n
      BY <1>1
    <3> HIDE DEF ahead, size
    <3> QED
      BY <2>2, <3>2, <3>3
  <2> HIDE DEF ahead
  <2>4. \A n \in 1 .. size : q.current + n \in DOMAIN q.items /\ q.items[q.current + n] \in Track
    BY <1>1
  <2>5. DOMAIN uids = 1 .. size /\ \A n \in 1 .. size : uids[n] = q.items[q.current + n].uid /\ uids[n] \in Nat
    <3>1. \A n \in 1 .. size : q.items[q.current + n].uid \in Nat
      BY <2>4 DEF Track
    <3> HIDE DEF size
    <3> QED
      BY <2>2, <2>3, <3>1 DEF Uids
  <2>6. uids \in Seq(Nat)
    <3>1. uids = [n \in 1 .. size |-> uids[n]]
      BY <2>5 DEF Uids
    <3> HIDE DEF uids, size
    <3> QED
      BY <2>2, <2>5, <3>1
  <2> HIDE DEF uids
  <2>7. Distinct(uids, Itself)
    <3>1. ASSUME NEW m \in 1 .. size, NEW n \in 1 .. size, uids[m] = uids[n] PROVE m = n
      <4>1. UidOf[q.items[q.current + m]] = UidOf[q.items[q.current + n]]
        BY <2>4, <2>5, <3>1 DEF UidOf
      <4>2. q.current + m = q.current + n
        BY <1>1, <2>4, <4>1 DEF Distinct
      <4> QED
        BY <1>1, <4>2
    <3> QED
      BY <2>5, <3>1 DEF Distinct, Itself
  <2>8. \A n \in 1 .. size : HasUid(q.items, uids[n])
    BY <2>4, <2>5 DEF HasUid, Range
  <2>9. GoodItems(Arranged(q, p), q.current, q.next)
    BY ArrangedFacts
  <2>10. \A uid : HasUid(q.items, uid) => HasUid(Arranged(q, p), uid)
    BY ArrangedFacts
  <2>11. GoodOrder(uids, Arranged(q, p))
    BY <2>5, <2>6, <2>7, <2>8, <2>10 DEF GoodOrder, Range
  <2> QED
    BY <1>1, <2>1, <2>9, <2>11, QueueOf
<1> QED
  BY <1>2, <1>3

-----------------------------------------------------------------------------
(* The song playing stays the current one *)

\* The row stood on is of the same song as before.
StaysOn(q, r) == q.current # 0 => r.current # 0 /\ r.items[r.current] = q.items[q.current]

LEMMA InsertedCurrent ==
    ASSUME NEW q, GoodQueue(q), NEW tracks \in Seq(Track),
           NEW row \in 1 .. Len(q.items) + 1, q.current > 0
    PROVE  CurrentUid(Inserted(q, row, tracks)) = CurrentUid(q) /\ StaysOn(q, Inserted(q, row, tracks))
<1> DEFINE new     == Stamp(tracks, q.next)
           items   == Splice(q.items, row, new)
           current == IF q.current >= row THEN q.current + Len(tracks) ELSE q.current
<1>1. /\ q.items \in Seq(Track) /\ Len(q.items) \in Nat /\ q.current \in 1 .. Len(q.items)
      /\ q.next \in Nat \ {0} /\ Len(tracks) \in Nat
  BY GoodParts
<1>2. new \in Seq(Track) /\ Len(new) = Len(tracks)
  BY <1>1, StampFacts
<1> HIDE DEF new
<1>3. \A n \in 1 .. Len(q.items) + Len(new) :
         items[n] = IF n < row THEN q.items[n]
                    ELSE IF n < row + Len(new) THEN new[n - row + 1]
                    ELSE q.items[n - Len(new)]
  <2> DEFINE old == q.items
  <2>1. old \in Seq(Track) /\ new \in Seq(Track) /\ row \in 1 .. Len(old) + 1
    BY <1>1, <1>2
  <2> HIDE DEF old
  <2>2. \A n \in 1 .. Len(old) + Len(new) :
           Splice(old, row, new)[n] = IF n < row THEN old[n]
                                      ELSE IF n < row + Len(new) THEN new[n - row + 1]
                                      ELSE old[n - Len(new)]
    BY <2>1, SpliceFacts
  <2> QED
    BY <2>2 DEF old
<1> HIDE DEF items
<1>4. items[current] = q.items[q.current] /\ current # 0
  <2>1. CASE q.current >= row
    <3>1. /\ current = q.current + Len(new) /\ current \in 1 .. Len(q.items) + Len(new)
          /\ ~ current < row /\ ~ current < row + Len(new) /\ current - Len(new) = q.current
      BY <1>1, <1>2, <2>1
    <3> HIDE DEF current
    <3> QED
      BY <1>1, <1>3, <3>1, SMTT(20)
  <2>2. CASE q.current < row
    BY <1>1, <1>2, <1>3, <2>2
  <2> QED
    BY <1>1, <2>1, <2>2
<1> HIDE DEF current
<1>5. Inserted(q, row, tracks).items = items /\ Inserted(q, row, tracks).current = current
  BY DEF Inserted, items, current, new
<1> QED
  BY <1>1, <1>4, <1>5 DEF CurrentUid, StaysOn

LEMMA RemovedAtCurrent ==
    ASSUME NEW q, GoodQueue(q), NEW row \in 1 .. Len(q.items), row # q.current
    PROVE  CurrentUid(RemovedAt(q, row)) = CurrentUid(q) /\ StaysOn(q, RemovedAt(q, row))
<1> DEFINE items   == RemoveAt(q.items, row)
           current == IF row < q.current THEN q.current - 1 ELSE q.current
<1>1. q.items \in Seq(Track) /\ Len(q.items) \in Nat /\ q.current \in 1 .. Len(q.items) /\ row \in Nat
  BY GoodParts
<1>2. \A n \in 1 .. Len(q.items) - 1 : items[n] = IF n < row THEN q.items[n] ELSE q.items[n + 1]
  BY <1>1, CutFacts
<1> HIDE DEF items
<1>3. items[current] = q.items[q.current] /\ current # 0
  <2>1. CASE row < q.current
    <3>1. current = q.current - 1 /\ current \in 1 .. Len(q.items) - 1 /\ ~ current < row /\ current + 1 = q.current
      BY <1>1, <2>1
    <3> HIDE DEF current
    <3> QED
      BY <1>1, <1>2, <3>1
  <2>2. CASE row > q.current
    <3>1. current = q.current /\ current \in 1 .. Len(q.items) - 1 /\ current < row
      BY <1>1, <2>2
    <3> HIDE DEF current
    <3> QED
      BY <1>1, <1>2, <3>1
  <2> QED
    BY <1>1, <2>1, <2>2
<1> HIDE DEF current
<1>4. RemovedAt(q, row).items = items /\ RemovedAt(q, row).current = current
  BY DEF RemovedAt, Rearranged, items, current
<1> QED
  BY <1>1, <1>3, <1>4 DEF CurrentUid, StaysOn

LEMMA MovedCurrentStays ==
    ASSUME NEW q, GoodQueue(q), NEW from \in Upcoming(q), NEW to \in Upcoming(q)
    PROVE  CurrentUid(Moved(q, from, to)) = CurrentUid(q) /\ StaysOn(q, Moved(q, from, to))
<1> DEFINE rest  == RemoveAt(q.items, from)
           moved == MovedItems(q, from, to)
<1>1. /\ q.items \in Seq(Track) /\ Len(q.items) \in Nat /\ q.current \in 1 .. Len(q.items)
      /\ from \in 1 .. Len(q.items) /\ to \in 1 .. Len(q.items) /\ q.current < from /\ q.current < to
  BY GoodParts DEF Upcoming, Count
<1>2. MovedCurrent(q, from, to) = q.current
  BY <1>1 DEF MovedCurrent
<1>3. rest[q.current] = q.items[q.current]
  <2>1. q.current \in 1 .. Len(q.items) - 1 /\ from \in Nat
    BY <1>1
  <2> QED
    BY <1>1, <2>1, CutFacts
<1>4. rest \in Seq(Track)
  BY <1>1, CutFacts
<1>5. Len(rest) = Len(q.items) - 1
  BY <1>1, CutFacts
<1>6. moved = Splice(rest, to, <<q.items[from]>>)
  BY DEF MovedItems, Splice, InsertAt
<1> HIDE DEF rest, moved
<1>7. moved[q.current] = rest[q.current]
  <2>1. /\ <<q.items[from]>> \in Seq(Track) /\ Len(<<q.items[from]>>) = 1 /\ to \in 1 .. Len(rest) + 1
        /\ q.current \in 1 .. Len(rest) + Len(<<q.items[from]>>)
    BY <1>1, <1>4, <1>5
  <2> QED
    BY <1>1, <1>4, <1>6, <2>1, SpliceFacts
<1>8. Moved(q, from, to).current = q.current
  BY <1>2 DEF Moved, Rearranged
<1>9. Moved(q, from, to).items[q.current] = moved[q.current]
  <2>1. \A x : [moved EXCEPT ![to].radio = x][q.current] = moved[q.current]
    BY <1>1
  <2> QED
    BY <1>1 DEF Moved, Rearranged, moved
<1> QED
  BY <1>1, <1>3, <1>7, <1>8, <1>9 DEF CurrentUid, StaysOn

\* A set of numbers has a least one.
LEMMA LeastNumber ==
    ASSUME NEW T \in SUBSET Nat, T # {}
    PROVE  \E x \in T : \A y \in T : x <= y
<1>1. IsWellFoundedOn(OpToRel(<, Nat), Nat)
  BY NatLessThanWellFounded
<1>2. PICK x \in T : \A y \in T : <<y, x>> \notin OpToRel(<, Nat)
  BY <1>1, WFMin
<1>3. \A y \in T : ~ y < x
  BY <1>2 DEF OpToRel
<1>4. x \in Nat /\ \A y \in T : y \in Nat
  OBVIOUS
<1>5. \A y \in T : x <= y
  BY <1>3, <1>4
<1> QED
  BY <1>5

\* Rising rows that include the first ones begin with them.
LEMMA RisingFromOne ==
    ASSUME NEW limit \in Nat, NEW keep \in SUBSET (1 .. limit), NEW f \in InOrder(keep),
           NEW row \in Nat, 1 .. row \subseteq keep, NEW n \in 1 .. row
    PROVE  n \in DOMAIN f /\ f[n] = n
<1> DEFINE size == Cardinality(keep)
           T    == {m \in 1 .. row : ~ (m \in DOMAIN f /\ f[m] = m)}
<1>1. IsFiniteSet(keep) /\ size \in Nat
  <2>1. IsFiniteSet(1 .. limit)
    BY FS_Interval
  <2> QED
    BY <2>1, FS_Subset, FS_CardinalityType
<1>2. IsFiniteSet(1 .. size) /\ Cardinality(1 .. size) = size
  <2>1. 1 \in Int /\ size \in Int /\ (IF 1 > size THEN 0 ELSE size - 1 + 1) = size
    BY <1>1
  <2> HIDE DEF size
  <2> QED
    BY <2>1, FS_Interval
<1>3. f \in [1 .. size -> keep] /\ \A m, k \in DOMAIN f : m < k => f[m] < f[k]
  BY DEF InOrder
<1> HIDE DEF size
<1>4. \A x \in keep : x \in Nat /\ x >= 1
  OBVIOUS
<1>5. \A m \in 1 .. size : m \in Nat /\ m >= 1 /\ f[m] \in Nat /\ f[m] >= 1
  <2>1. \A m \in 1 .. size : f[m] \in keep
    BY <1>3
  <2>2. \A m \in 1 .. size : m \in Nat /\ m >= 1
    BY <1>1
  <2> HIDE DEF T
  <2> QED
    BY <1>4, <2>1, <2>2, Zenon
<1>6. \A m, k \in 1 .. size : (f[m] = f[k] => m = k) /\ (m < k => f[m] < f[k])
  <2>1. ASSUME NEW m \in 1 .. size, NEW k \in 1 .. size
        PROVE  (f[m] = f[k] => m = k) /\ (m < k => f[m] < f[k])
    <3>1. (m < k => f[m] < f[k]) /\ (k < m => f[k] < f[m])
      BY <1>3
    <3> QED
      BY <1>5, <3>1
  <2> QED
    BY <2>1
<1>7. f \in Injection(1 .. size, keep)
  BY <1>3, <1>6 DEF Injection, IsInjective
<1>8. \A x \in keep : \E m \in 1 .. size : f[m] = x
  <2>1. f \in Surjection(1 .. size, keep)
    BY <1>1, <1>2, <1>7, FS_Injection DEF size
  <2> QED
    BY <2>1 DEF Surjection
<1>9. ASSUME T # {} PROVE FALSE
  <2>1. T \in SUBSET Nat
    OBVIOUS
  <2> HIDE DEF T
  <2>2. PICK x \in T : \A y \in T : x <= y
    BY <1>9, <2>1, LeastNumber
  <2>3. x \in 1 .. row /\ ~ (x \in DOMAIN f /\ f[x] = x) /\ x \in keep /\ DOMAIN f = 1 .. size
    BY <1>3 DEF T
  <2>4. \A y \in 1 .. row : y < x => y \in 1 .. size /\ f[y] = y
    BY <2>2, <2>3 DEF T
  <2>5. PICK k \in 1 .. size : f[k] = x
    BY <1>8, <2>3
  <2>6. k >= x /\ k # x
    <3>1. CASE k < x
      <4>1. k \in 1 .. row
        BY <1>5, <2>3, <3>1
      <4> QED
        BY <1>5, <2>3, <2>4, <2>5, <3>1, <4>1
    <3> QED
      BY <1>5, <2>3, <2>5, <3>1
  <2>7. x \in 1 .. size /\ x < k
    BY <2>3, <2>6, <1>1, <1>5
  <2>8. f[x] < x /\ f[x] \in 1 .. row
    BY <1>5, <1>6, <2>3, <2>5, <2>7
  <2>9. f[x] \in 1 .. size /\ f[f[x]] = f[x]
    BY <2>4, <2>8
  <2>10. f[x] = x
    BY <1>6, <2>7, <2>9
  <2> QED
    BY <2>8, <2>10, <2>3
<1> QED
  BY <1>9

LEMMA RemovedRowsCurrent ==
    ASSUME NEW q, GoodQueue(q), NEW rows \in SUBSET Upcoming(q), NEW r \in RemovedRows(q, rows)
    PROVE  CurrentUid(r) = CurrentUid(q)
<1> DEFINE kept == DOMAIN q.items \ rows
<1>1. PICK items \in Subsequences(q.items, kept) : r.items = items /\ r.current = q.current
  BY DEF RemovedRows, Rearranged
<1>2. PICK f \in InOrder(kept) : items = [n \in DOMAIN f |-> q.items[f[n]]]
  BY <1>1 DEF Subsequences
<1>3. q.items \in Seq(Track) /\ Len(q.items) \in Nat /\ q.current \in 0 .. Len(q.items)
  BY GoodParts
<1>4. kept \in SUBSET (1 .. Len(q.items)) /\ 1 .. q.current \subseteq kept /\ q.current \in Nat
  BY <1>3 DEF Upcoming, Count
<1> HIDE DEF kept
<1>5. CASE q.current = 0
  BY <1>1, <1>5 DEF CurrentUid
<1>6. CASE q.current # 0
  <2>1. q.current \in 1 .. q.current
    BY <1>4, <1>6
  <2>2. q.current \in DOMAIN f /\ f[q.current] = q.current
    <3> DEFINE limit == Len(q.items)
           row   == q.current
    <3>1. limit \in Nat
      BY <1>3
    <3>2. kept \in SUBSET (1 .. limit)
      BY <1>4
    <3>3. row \in Nat /\ 1 .. row \subseteq kept /\ row \in 1 .. row
      BY <1>4, <2>1
    <3> HIDE DEF limit, row
    <3>4. row \in DOMAIN f /\ f[row] = row
      BY <3>1, <3>2, <3>3, RisingFromOne
    <3> QED
      BY <3>4 DEF row
  <2>3. items[q.current] = q.items[q.current]
    BY <1>2, <2>2
  <2> QED
    BY <1>1, <2>3 DEF CurrentUid
<1> QED
  BY <1>5, <1>6

LEMMA ClearedCurrent ==
    ASSUME NEW q, GoodQueue(q)
    PROVE  CurrentUid(ClearedUpcoming(q)) = CurrentUid(q) /\ StaysOn(q, ClearedUpcoming(q))
<1>1. q.items \in Seq(Track) /\ Len(q.items) \in Nat /\ q.current \in 0 .. Len(q.items)
  BY GoodParts
<1>2. CASE q.current = 0
  BY <1>2 DEF ClearedUpcoming, Rearranged, CurrentUid, StaysOn
<1>3. CASE q.current # 0
  <2> DEFINE rows == SubSeq(q.items, 1, q.current)
  <2>1. rows[q.current] = q.items[q.current]
    BY <1>1, <1>3
  <2> HIDE DEF rows
  <2>2. CASE Upcoming(q) = {}
    BY <2>2 DEF ClearedUpcoming, StaysOn
  <2>3. CASE Upcoming(q) # {}
    <3>1. ClearedUpcoming(q).items = rows /\ ClearedUpcoming(q).current = q.current
      BY <2>3 DEF ClearedUpcoming, Rearranged, rows
    <3> QED
      BY <2>1, <3>1 DEF CurrentUid, StaysOn
  <2> QED
    BY <2>2, <2>3
<1> QED
  BY <1>2, <1>3

\* Only what is to come is arranged anew.
LEMMA ArrangedFront ==
    ASSUME NEW q, GoodQueue(q), NEW p
    PROVE  /\ \A n \in 1 .. q.current : Arranged(q, p)[n] = q.items[n]
           /\ q.current # 0 => Arranged(q, p)[q.current] = q.items[q.current]
<1>1. q.items \in Seq(Track) /\ Len(q.items) \in Nat /\ q.current \in 0 .. Len(q.items)
  BY GoodParts
<1>2. \A n \in 1 .. q.current : n \in DOMAIN q.items /\ ~ n > q.current
  BY <1>1
<1>3. \A n \in 1 .. q.current : Arranged(q, p)[n] = q.items[n]
  BY <1>2 DEF Arranged
<1>4. q.current # 0 => q.current \in 1 .. q.current
  BY <1>1
<1> QED
  BY <1>3, <1>4

LEMMA ShuffledCurrent ==
    ASSUME NEW q, GoodQueue(q), NEW r \in Shuffled(q) \cup Restored(q)
    PROVE  CurrentUid(r) = CurrentUid(q) /\ StaysOn(q, r)
<1>1. r = q \/ \E p : r.items = Arranged(q, p) /\ r.current = q.current
  BY DEF Shuffled, Restored, Rearranged
<1>2. ASSUME NEW p, r.items = Arranged(q, p), r.current = q.current
      PROVE  CurrentUid(r) = CurrentUid(q) /\ StaysOn(q, r)
  BY <1>2, ArrangedFront DEF CurrentUid, StaysOn
<1> QED
  BY <1>1, <1>2 DEF StaysOn

-----------------------------------------------------------------------------
(* A queue that is not shuffled keeps no order *)

LEMMA NoOrderKept ==
    ASSUME NEW q, q.order = <<>>
    PROVE  /\ \A row, tracks : Inserted(q, row, tracks).order = <<>>
           /\ \A row : RemovedAt(q, row).order = <<>>
           /\ \A from, to : Moved(q, from, to).order = <<>>
           /\ \A rows : \A r \in RemovedRows(q, rows) : r.order = <<>>
           /\ ClearedUpcoming(q).order = <<>>
           /\ \A row : WithCurrent(q, row).order = <<>>
<1>1. \A row, tracks : Inserted(q, row, tracks).order = <<>>
  BY DEF Inserted, InsertedOrder
<1>2. \A row : RemovedAt(q, row).order = <<>>
  BY DEF RemovedAt, Rearranged, RemoveFirst
<1>3. \A from, to : Moved(q, from, to).order = <<>>
  BY DEF Moved, MovedOrder, Rearranged
<1>4. ASSUME NEW rows, NEW r \in RemovedRows(q, rows) PROVE r.order = <<>>
  <2>1. PICK order \in Subsequences(q.order, StillKnown(q, rows)) : r.order = order
    BY DEF RemovedRows, Rearranged
  <2>2. StillKnown(q, rows) = {}
    BY DEF StillKnown
  <2>3. PICK f \in InOrder({}) : order = [n \in DOMAIN f |-> q.order[f[n]]]
    BY <2>1, <2>2 DEF Subsequences
  <2>4. Cardinality({}) = 0
    BY FS_EmptySet
  <2>5. DOMAIN f = 1 .. 0
    BY <2>3, <2>4 DEF InOrder
  <2>6. 1 .. 0 = {}
    OBVIOUS
  <2>7. order = [n \in 1 .. 0 |-> q.order[f[n]]]
    BY <2>3, <2>5
  <2>8. order = <<>>
    BY <2>7, <2>6
  <2> QED
    BY <2>1, <2>8
<1>5. ClearedUpcoming(q).order = <<>>
  BY DEF ClearedUpcoming, Rearranged
<1>6. \A row : WithCurrent(q, row).order = <<>>
  BY DEF WithCurrent, Rearranged
<1> QED
  BY <1>1, <1>2, <1>3, <1>4, <1>5, <1>6


\* Where addAllToQueue puts what is queued: ahead of the first song autoplay
\* added.
LEMMA RadioStartIs ==
    ASSUME NEW q, GoodQueue(q)
    PROVE  RadioStart(q) = 0 \/ RadioStart(q) \in Upcoming(q)
<1> DEFINE found == {n \in Upcoming(q) : q.items[n].radio}
<1>1. CASE found = {}
  BY <1>1 DEF RadioStart
<1>2. CASE found # {}
  <2>1. found \in SUBSET Nat
    BY GoodParts DEF Upcoming, Count
  <2>2. found \subseteq Upcoming(q)
    OBVIOUS
  <2> HIDE DEF found
  <2>3. \E n \in found : \A m \in found : n <= m
    BY <1>2, <2>1, LeastNumber
  <2>4. (CHOOSE n \in found : \A m \in found : n <= m) \in found
    BY <2>3
  <2> QED
    BY <1>2, <2>2, <2>4 DEF RadioStart, found
<1> QED
  BY <1>1, <1>2

-----------------------------------------------------------------------------
(***************************************************************************)
(* Part 2.  PlayQueue                                                      *)
(***************************************************************************)

\* The queue in good order, and the row it stands on the song last begun.
Standing ==
    /\ GoodQueue(queue)
    /\ shuffle \in BOOLEAN
    /\ track = CurrentUid(queue)

\* An order from before a shuffle is there only while shuffled.
OrderIfShuffled == shuffle \/ queue.order = <<>>

IInv == Standing /\ OrderIfShuffled

\* A step that leaves both as they should be: the second if it was so before.
Keeps == Standing' /\ (OrderIfShuffled => OrderIfShuffled')

LEMMA ChosenTracks ==
    ASSUME NEW list \in Seq(Videos \cup {NoVideo})
    PROVE  /\ Chosen(list) \in Seq(Track) /\ Len(Chosen(list)) = Len(list)
           /\ FromRadio(list) \in Seq(Track) /\ Len(FromRadio(list)) = Len(list)
<1> DEFINE size     == Len(list)
           Tracks(b) == [n \in 1 .. size |-> TrackOf(list[n], b)]
<1>1. DOMAIN list = 1 .. size /\ size \in Nat
  OBVIOUS
<1>2. ASSUME NEW b \in BOOLEAN PROVE Tracks(b) \in Seq(Track) /\ Len(Tracks(b)) = size
  <2>1. \A n \in 1 .. size : TrackOf(list[n], b) \in Track
    BY DEF TrackOf, Track
  <2>2. Tracks(b) \in [1 .. size -> Track]
    <3> HIDE DEF size
    <3> QED
      BY <2>1
  <2> HIDE DEF Tracks, size
  <2> QED
    BY <1>1, <2>2
<1>3. Chosen(list) = Tracks(FALSE) /\ FromRadio(list) = Tracks(TRUE)
  BY <1>1 DEF Chosen, FromRadio
<1> HIDE DEF Tracks, size
<1> QED
  BY <1>2, <1>3 DEF size

LEMMA PickedFirstTracks ==
    ASSUME NEW tracks \in Seq(Track), NEW start \in 1 .. Len(tracks)
    PROVE  PickedFirst(tracks, start) \in Seq(Track)
<1>1. RemoveAt(tracks, start) \in Seq(Track)
  BY CutFacts
<1>2. <<tracks[start]>> \in Seq(Track)
  OBVIOUS
<1> QED
  BY <1>1, <1>2, ConcatProperties DEF PickedFirst

LEMMA InitIInv == Init => IInv
<1> SUFFICES ASSUME Init PROVE IInv
  OBVIOUS
<1>1. queue = [items |-> <<>>, current |-> 0, order |-> <<>>, next |-> 1]
  BY DEF Init, EmptyQueue
<1>2. GoodItems(<<>>, 0, 1)
  BY DEF GoodItems, Distinct, Range
<1>3. GoodQueue(queue)
  BY <1>1, <1>2, NoOrder, QueueOf
<1>4. CurrentUid(queue) = 0 /\ queue.order = <<>>
  BY <1>1 DEF CurrentUid
<1>5. shuffle = FALSE /\ track = 0
  BY DEF Init
<1> QED
  BY <1>3, <1>4, <1>5 DEF IInv, Standing, OrderIfShuffled

\* startQueue, however the list reached it, begins a good queue.
LEMMA StartQueueKeeps ==
    ASSUME Standing, NEW tracks \in Seq(Track), NEW start \in 1 .. Len(tracks), StartQueue(tracks, start)
    PROVE  Keeps
<1>1. queue \in Queue /\ shuffle \in BOOLEAN
  BY DEF Standing, Keeps, OrderIfShuffled, GoodQueue
<1>2. CASE shuffle
  <2> DEFINE picked == PickedFirst(tracks, start)
             fresh  == Replaced(queue, picked, 1)
  <2>1. PICK q \in Shuffled(fresh) : Begin(q)
    BY <1>2 DEF StartQueue
  <2>2. picked \in Seq(Track)
    BY PickedFirstTracks
  <2> HIDE DEF picked
  <2>3. GoodQueue(fresh)
    BY <1>1, <2>2, ReplacedGood
  <2> HIDE DEF fresh
  <2>4. GoodQueue(q)
    BY <2>1, <2>3, ShuffledGood
  <2> QED
    BY <1>2, <2>1, <2>4 DEF Begin, StartQueue, Standing, Keeps, OrderIfShuffled
<1>3. CASE ~ shuffle
  <2>1. Begin(Replaced(queue, tracks, start)) /\ shuffle' = shuffle
    BY <1>3 DEF StartQueue
  <2>2. GoodQueue(Replaced(queue, tracks, start))
    BY <1>1, ReplacedGood
  <2>3. Replaced(queue, tracks, start).order = <<>>
    BY DEF Replaced
  <2> QED
    BY <1>1, <2>1, <2>2, <2>3 DEF Begin, Standing, Keeps, OrderIfShuffled
<1> QED
  BY <1>2, <1>3

\* A queue that is put in place of another, with the same song current.
LEMMA SameSongKeeps ==
    ASSUME Standing, NEW q, GoodQueue(q), CurrentUid(q) = CurrentUid(queue),
           queue' = q, track' = track, shuffle' = shuffle,
           queue.order = <<>> => q.order = <<>>
    PROVE  Keeps
BY DEF Standing, Keeps, OrderIfShuffled

\* What is queued behind a song that is playing.
LEMMA InsertKeeps ==
    ASSUME Standing, NEW tracks \in Seq(Track), NEW row \in 1 .. Len(queue.items) + 1,
           Count(queue) # 0, queue' = Inserted(queue, row, tracks), UNCHANGED <<shuffle, track>>
    PROVE  Keeps
<1>1. GoodQueue(queue)
  BY DEF Standing, Keeps, OrderIfShuffled
<1>2. queue.current > 0
  BY <1>1, GoodParts DEF Count
<1>3. GoodQueue(Inserted(queue, row, tracks))
  BY <1>1, <1>2, InsertedGood
<1>4. CurrentUid(Inserted(queue, row, tracks)) = CurrentUid(queue)
  BY <1>1, <1>2, InsertedCurrent
<1>5. queue.order = <<>> => Inserted(queue, row, tracks).order = <<>>
  BY NoOrderKept
<1> QED
  BY <1>3, <1>4, <1>5, SameSongKeeps

LEMMA NextKeeps == Standing /\ [Next]_vars => Keeps
<1> SUFFICES ASSUME Standing, [Next]_vars PROVE Keeps
  OBVIOUS
<1> USE PlayQueueAssumption, NoVideoAssumption
<1>g. GoodQueue(queue) /\ shuffle \in BOOLEAN /\ track = CurrentUid(queue)
  BY DEF Standing
<1>n. Count(queue) = Len(queue.items) /\ Len(queue.items) \in Nat /\ queue.current \in 0 .. Len(queue.items)
      /\ DOMAIN queue.items = 1 .. Len(queue.items)
  BY <1>g, GoodParts DEF Count
<1>l. \A list \in Lists : list \in Seq(Videos \cup {NoVideo}) /\ Chosen(list) \in Seq(Track)
                             /\ Len(Chosen(list)) = Len(list)
  BY ChosenTracks
<1>1. ASSUME NEW list \in Lists, NEW start \in DOMAIN list, PlayTracks(list, start)
      PROVE  Keeps
  BY <1>1, <1>l, StartQueueKeeps DEF PlayTracks
<1>2. ASSUME NEW row \in DOMAIN queue.items, GoTo(row)
      PROVE  Keeps
  <2>1. GoodQueue(WithCurrent(queue, row))
    BY <1>g, <1>n, WithCurrentGood
  <2>2. queue.order = <<>> => WithCurrent(queue, row).order = <<>>
    BY NoOrderKept
  <2> QED
    BY <1>2, <1>g, <2>1, <2>2 DEF GoTo, Begin, Standing, Keeps, OrderIfShuffled
<1>3. ASSUME NEW video \in Videos \cup {NoVideo}, PlayNext(video)
      PROVE  Keeps
  <2>1. <<video>> \in Seq(Videos \cup {NoVideo}) /\ Len(<<video>>) = 1
    OBVIOUS
  <2>2. Chosen(<<video>>) \in Seq(Track) /\ 1 \in 1 .. Len(Chosen(<<video>>))
    <3> DEFINE list == <<video>>
    <3>1. list \in Seq(Videos \cup {NoVideo}) /\ Len(list) = 1
      BY <2>1
    <3> HIDE DEF list
    <3>2. Chosen(list) \in Seq(Track) /\ Len(Chosen(list)) = 1
      BY <3>1, ChosenTracks
    <3>3. 1 \in 1 .. 1
      OBVIOUS
    <3> QED
      BY <3>2, <3>3 DEF list
  <2>3. CASE Count(queue) = 0
    BY <1>3, <2>2, <2>3, StartQueueKeeps DEF PlayNext
  <2>4. CASE Count(queue) # 0
    <3>1. queue' = Inserted(queue, queue.current + 1, Chosen(<<video>>)) /\ UNCHANGED <<shuffle, track>>
      BY <1>3, <2>4 DEF PlayNext
    <3>2. queue.current + 1 \in 1 .. Len(queue.items) + 1
      BY <1>n
    <3> QED
      BY <2>2, <2>4, <3>1, <3>2, InsertKeeps
  <2> QED
    BY <2>3, <2>4
<1>4. ASSUME NEW list \in Lists, AddAllToQueue(list)
      PROVE  Keeps
  <2>1. Chosen(list) \in Seq(Track) /\ Len(Chosen(list)) = Len(list)
    BY <1>l
  <2>2. CASE Count(queue) = 0
    <3>1. list \in Seq(Videos \cup {NoVideo}) /\ list # <<>>
      BY <1>l
    <3>2. 1 \in 1 .. Len(Chosen(list))
      BY <2>1, <3>1
    <3> QED
      BY <1>4, <2>1, <2>2, <3>2, StartQueueKeeps DEF AddAllToQueue
  <2>3. CASE Count(queue) # 0
    <3> DEFINE row == IF RadioStart(queue) = 0 THEN Count(queue) + 1 ELSE RadioStart(queue)
    <3>1. queue' = Inserted(queue, row, Chosen(list)) /\ UNCHANGED <<shuffle, track>>
      BY <1>4, <2>3 DEF AddAllToQueue
    <3>2. row \in 1 .. Len(queue.items) + 1
      BY <1>g, <1>n, RadioStartIs DEF Upcoming
    <3> HIDE DEF row
    <3> QED
      BY <2>1, <2>3, <3>1, <3>2, InsertKeeps
  <2> QED
    BY <2>2, <2>3
<1>5. ASSUME NEW list \in RadioLists, RadioReady(list)
      PROVE  Keeps
  <2>1. list \in Seq(Videos \cup {NoVideo})
    OBVIOUS
  <2>2. FromRadio(list) \in Seq(Track)
    BY <2>1, ChosenTracks
  <2>3. Count(queue) # 0 /\ queue' = Inserted(queue, Count(queue) + 1, FromRadio(list))
        /\ UNCHANGED <<shuffle, track>>
    BY <1>5, <1>n DEF RadioReady
  <2>4. Count(queue) + 1 \in 1 .. Len(queue.items) + 1
    BY <1>n
  <2> QED
    BY <2>2, <2>3, <2>4, InsertKeeps
<1>6. ASSUME NEW row \in DOMAIN queue.items, RemoveFromQueue(row)
      PROVE  Keeps
  <2>1. row \in 1 .. Len(queue.items) /\ row # queue.current
    BY <1>6, <1>n DEF RemoveFromQueue
  <2>2. GoodQueue(RemovedAt(queue, row)) /\ CurrentUid(RemovedAt(queue, row)) = CurrentUid(queue)
    BY <1>g, <2>1, RemovedAtGood, RemovedAtCurrent
  <2>3. queue.order = <<>> => RemovedAt(queue, row).order = <<>>
    BY NoOrderKept
  <2> QED
    BY <1>6, <2>2, <2>3, SameSongKeeps DEF RemoveFromQueue
<1>7. ASSUME NEW from, NEW to, MoveInQueue(from, to)
      PROVE  Keeps
  <2>1. from \in Upcoming(queue) /\ to \in Upcoming(queue)
    BY <1>7 DEF MoveInQueue
  <2>2. from \in 1 .. Len(queue.items) /\ to \in 1 .. Len(queue.items)
    BY <1>n, <2>1 DEF Upcoming
  <2>3. GoodQueue(Moved(queue, from, to)) /\ CurrentUid(Moved(queue, from, to)) = CurrentUid(queue)
    BY <1>g, <2>1, <2>2, MovedGood, MovedCurrentStays
  <2>4. queue.order = <<>> => Moved(queue, from, to).order = <<>>
    BY NoOrderKept
  <2> QED
    BY <1>7, <2>3, <2>4, SameSongKeeps DEF MoveInQueue
<1>8. ASSUME NEW unwanted, PruneRadio(unwanted)
      PROVE  Keeps
  <2> DEFINE rows == {n \in Upcoming(queue) : queue.items[n].radio /\ queue.items[n].video \in unwanted}
  <2>1. queue' \in RemovedRows(queue, rows) /\ UNCHANGED <<shuffle, track>>
    BY <1>8 DEF PruneRadio
  <2>2. rows \in SUBSET Upcoming(queue)
    OBVIOUS
  <2> HIDE DEF rows
  <2>3. GoodQueue(queue') /\ CurrentUid(queue') = CurrentUid(queue)
    BY <1>g, <2>1, <2>2, RemovedRowsGood, RemovedRowsCurrent
  <2>4. queue.order = <<>> => queue'.order = <<>>
    BY <2>1, NoOrderKept
  <2> QED
    BY <2>1, <2>3, <2>4, SameSongKeeps
<1>9. CASE ClearUpcoming
  <2>1. GoodQueue(ClearedUpcoming(queue)) /\ CurrentUid(ClearedUpcoming(queue)) = CurrentUid(queue)
    BY <1>g, ClearedGood, ClearedCurrent
  <2>2. queue.order = <<>> => ClearedUpcoming(queue).order = <<>>
    BY NoOrderKept
  <2> QED
    BY <1>9, <2>1, <2>2, SameSongKeeps DEF ClearUpcoming
<1>10. ASSUME NEW on \in BOOLEAN, SetShuffle(on)
       PROVE  Keeps
  <2>1. queue' \in Shuffled(queue) \cup Restored(queue) /\ track' = track /\ shuffle' = on
    BY <1>10 DEF SetShuffle
  <2>2. CurrentUid(queue') = CurrentUid(queue)
    BY <1>g, <2>1, ShuffledCurrent
  <2>3. CASE on = TRUE
    <3>1. queue' \in Shuffled(queue)
      BY <1>10, <2>3 DEF SetShuffle
    <3>2. GoodQueue(queue')
      BY <1>g, <3>1, ShuffledGood
    <3> QED
      BY <1>g, <2>1, <2>2, <2>3, <3>2 DEF Standing, Keeps, OrderIfShuffled
  <2>4. CASE on = FALSE
    <3>1. queue' \in Restored(queue)
      BY <1>10, <2>4 DEF SetShuffle
    <3>2. GoodQueue(queue') /\ queue'.order = <<>>
      BY <1>g, <3>1, RestoredGood
    <3> QED
      BY <1>g, <2>1, <2>2, <2>4, <3>2 DEF Standing, Keeps, OrderIfShuffled
  <2> QED
    BY <2>3, <2>4
<1>11. CASE UNCHANGED vars
  BY <1>11, <1>g DEF vars, Standing, Keeps, OrderIfShuffled
<1>12. \A list \in Lists : Len(list) = 1 => list[1] \in Videos \cup {NoVideo}
  BY <1>l
<1> QED
  BY <1>1, <1>2, <1>3, <1>4, <1>5, <1>6, <1>7, <1>8, <1>9, <1>10, <1>11, <1>12 DEF Next

LEMMA StandingTypes == Standing => TypeOK
<1> SUFFICES ASSUME Standing PROVE TypeOK
  OBVIOUS
<1>1. queue \in Queue /\ queue.current \in 0 .. Len(queue.items) /\ Len(queue.items) \in Nat
      /\ queue.items \in Seq(Track)
  BY GoodParts DEF Standing
<1>2. CurrentUid(queue) \in Nat
  <2>1. CASE queue.current = 0
    BY <2>1 DEF CurrentUid
  <2>2. CASE queue.current # 0
    <3>1. queue.items[queue.current] \in Track
      BY <1>1, <2>2
    <3> QED
      BY <2>2, <3>1 DEF CurrentUid, Track
  <2> QED
    BY <2>1, <2>2
<1> QED
  BY <1>1, <1>2 DEF TypeOK, Standing, Count

LEMMA NextIInv == IInv /\ [Next]_vars => IInv'
BY NextKeeps DEF IInv, Keeps

LEMMA SpecIInv == Spec => []IInv
BY InitIInv, NextIInv, PTL DEF Spec

-----------------------------------------------------------------------------
(* Theorems *)

\* Every call leaves the queue, the shuffle flag and the song playing of their
\* types, and the current row inside the queue (queuemodel.h's members).
THEOREM TypeCorrect == Spec => []TypeOK
BY StandingTypes, SpecIInv, PTL DEF IInv

\* Whatever is inserted, removed, moved or shuffled, the current row stays the
\* song beginTrack was given.
THEOREM TheCurrentRowPlays == Spec => []CurrentIsTheSongPlaying
<1>1. IInv => CurrentIsTheSongPlaying
  BY GoodParts DEF IInv, Standing, CurrentIsTheSongPlaying, Count
<1> QED
  BY <1>1, SpecIInv, PTL

\* stamp() gives no uid twice, and none that is still to be given is in use.
THEOREM OneRowPerUid == Spec => []UidsNameOneRow
<1>1. IInv => UidsNameOneRow
  <2> SUFFICES ASSUME IInv PROVE UidsNameOneRow
    OBVIOUS
  <2>1. queue.items \in Seq(Track) /\ Distinct(queue.items, UidOf)
    BY GoodParts DEF IInv, Standing
  <2>2. \A song \in Range(queue.items) : song.uid \in 1 .. queue.next - 1
    BY GoodParts DEF IInv, Standing
  <2>3. \A n \in DOMAIN queue.items : UidOf[queue.items[n]] = queue.items[n].uid
    BY <2>1 DEF UidOf
  <2>4. DistinctUids(queue.items)
    BY <2>1, <2>3 DEF Distinct, DistinctUids
  <2> QED
    BY <2>2, <2>4 DEF UidsNameOneRow
<1> QED
  BY <1>1, SpecIInv, PTL

\* The order that turning shuffle off brings back names songs of the queue,
\* each once, and is gone when shuffle is off.
THEOREM TheOrderIsOfTheQueue == Spec => []OrderKnowsTheQueue
<1>1. IInv => OrderKnowsTheQueue
  <2> SUFFICES ASSUME IInv PROVE OrderKnowsTheQueue
    OBVIOUS
  <2>1. queue.order \in Seq(Nat) /\ Distinct(queue.order, Itself)
    BY GoodParts DEF IInv, Standing
  <2>2. \A uid \in Range(queue.order) : HasUid(queue.items, uid)
    BY GoodParts DEF IInv, Standing
  <2>3. \A n \in DOMAIN queue.order : Itself[queue.order[n]] = queue.order[n]
    BY <2>1 DEF Itself
  <2>4. IsInjective(queue.order)
    BY <2>1, <2>3 DEF Distinct, IsInjective
  <2> QED
    BY <2>2, <2>4 DEF OrderKnowsTheQueue, IInv, OrderIfShuffled
<1> QED
  BY <1>1, SpecIInv, PTL

\* shuffleUpcoming and restoreOrder keep every song and leave the ones played
\* where they are.
THEOREM ShufflingRearranges == Spec => ShuffleOnlyRearranges
<1> DEFINE Kept(q, r) == /\ SubSeq(r.items, 1, q.current) = SubSeq(q.items, 1, q.current)
                         /\ Range(r.items) = Range(q.items)
                         /\ Len(r.items) = Len(q.items)
<1>1. ASSUME NEW q, GoodQueue(q), NEW r \in Shuffled(q) \cup Restored(q)
      PROVE  Kept(q, r)
  <2>1. CASE r = q
    BY <2>1
  <2>2. ASSUME NEW p \in Bijection(Upcoming(q), Upcoming(q)), r.items = Arranged(q, p)
        PROVE  Kept(q, r)
    <3>1. Range(r.items) = Range(q.items) /\ Len(r.items) = Len(q.items) /\ r.items \in Seq(Track)
      BY <1>1, <2>2, ArrangedFacts DEF GoodItems
    <3>2. q.items \in Seq(Track) /\ Len(q.items) \in Nat /\ q.current \in 0 .. Len(q.items)
      BY <1>1, GoodParts
    <3>3. \A n \in 1 .. q.current : r.items[n] = q.items[n]
      BY <1>1, <2>2, ArrangedFront
    <3>4. SubSeq(r.items, 1, q.current) = SubSeq(q.items, 1, q.current)
      <4> DEFINE a == SubSeq(r.items, 1, q.current)
                 b == SubSeq(q.items, 1, q.current)
      <4>1. /\ a \in Seq(Track) /\ Len(a) = q.current
            /\ \A n \in 1 .. q.current : a[n] = r.items[n]
        BY <3>1, <3>2
      <4>2. /\ b \in Seq(Track) /\ Len(b) = q.current
            /\ \A n \in 1 .. q.current : b[n] = q.items[n]
        BY <3>2
      <4> HIDE DEF a, b
      <4>3. a = b
        BY <3>3, <4>1, <4>2, SeqEqual
      <4> QED
        BY <4>3 DEF a, b
    <3> QED
      BY <3>1, <3>4
  <2>3. r = q \/ \E p \in Bijection(Upcoming(q), Upcoming(q)) : r.items = Arranged(q, p)
    BY <1>1 DEF Shuffled, Restored, StableSorts, Rearranged
  <2> QED
    BY <2>1, <2>2, <2>3
<1>2. IInv /\ [Next]_vars =>
        [shuffle' # shuffle => Kept(queue, queue')]_vars
  <2> SUFFICES ASSUME IInv, Next, shuffle' # shuffle PROVE Kept(queue, queue')
    BY Zenon
  <2>1. \E on \in BOOLEAN : SetShuffle(on)
    BY DEF Next, PlayTracks, StartQueue, GoTo, PlayNext, AddAllToQueue, RadioReady, RemoveFromQueue,
           MoveInQueue, PruneRadio, ClearUpcoming
  <2>2. queue' \in Shuffled(queue) \cup Restored(queue)
    BY <2>1 DEF SetShuffle
  <2> QED
    BY <1>1, <2>2 DEF IInv, Standing
<1> QED
  BY <1>2, SpecIInv, PTL DEF Spec, ShuffleOnlyRearranges

-----------------------------------------------------------------------------
(***************************************************************************)
(* Part 3.  PlayQueue implements PlayOrder                                 *)
(*                                                                         *)
(* Which song comes first is put in terms of the songs (Comes), so that it *)
(* can be followed through the rows and the order, both of which an        *)
(* operation rebuilds: each carries the songs it is not about over in      *)
(* their order (Carried), and what is carried over in both keeps its place *)
(* (CarriedKeeps).  Then one lemma per operation, one step per action.     *)
(***************************************************************************)

(* The order of a queue, in terms of its songs *)

Knows(q, uid) == \E n \in DOMAIN q.order : q.order[n] = uid

OrderedBefore(q, u, v) == \E m, n \in DOMAIN q.order : m < n /\ q.order[m] = u /\ q.order[n] = v

ShownBefore(q, u, v) == \E m, n \in DOMAIN q.items : m < n /\ q.items[m].uid = u /\ q.items[n].uid = v

\* What std::stable_sort compares in restoreOrder.
Comes(q, u, v) ==
    \/ OrderedBefore(q, u, v)
    \/ Knows(q, u) /\ ~Knows(q, v)
    \/ ~Knows(q, u) /\ ~Knows(q, v) /\ ShownBefore(q, u, v)

\* A uid names one row of a good queue, and one place of its order.
LEMMA OneRow ==
    ASSUME NEW q, GoodQueue(q)
    PROVE  /\ DOMAIN q.items = 1 .. Len(q.items)
           /\ \A m, n \in DOMAIN q.items : q.items[m].uid = q.items[n].uid => m = n
           /\ \A n \in DOMAIN q.items : q.items[n] \in Track /\ q.items[n].uid \in 1 .. q.next - 1
           /\ DOMAIN q.order = 1 .. Len(q.order) /\ Len(q.order) \in Nat
           /\ \A m, n \in DOMAIN q.order : q.order[m] = q.order[n] => m = n
           /\ Upcoming(q) = q.current + 1 .. Len(q.items)
           /\ Upcoming(q) \subseteq DOMAIN q.items
<1>1. /\ q.items \in Seq(Track) /\ q.current \in Nat /\ Distinct(q.items, UidOf)
      /\ \A song \in Range(q.items) : song \in Track /\ song.uid \in 1 .. q.next - 1
      /\ q.order \in Seq(Nat) /\ Distinct(q.order, Itself)
  BY GoodParts
<1>2. DOMAIN q.items = 1 .. Len(q.items) /\ Len(q.items) \in Nat
      /\ DOMAIN q.order = 1 .. Len(q.order) /\ Len(q.order) \in Nat
  BY <1>1
<1>3. \A n \in DOMAIN q.items : q.items[n] \in Track /\ q.items[n].uid \in 1 .. q.next - 1
                                /\ UidOf[q.items[n]] = q.items[n].uid
  BY <1>1 DEF Range, UidOf
<1>4. \A n \in DOMAIN q.order : Itself[q.order[n]] = q.order[n]
  BY <1>1 DEF Itself
<1>5. Upcoming(q) = q.current + 1 .. Len(q.items) /\ Upcoming(q) \subseteq 1 .. Len(q.items)
  BY <1>1, <1>2 DEF Upcoming, Count
<1> QED
  BY <1>1, <1>2, <1>3, <1>4, <1>5 DEF Distinct

LEMMA RankIs ==
    ASSUME NEW q, GoodQueue(q), NEW row \in DOMAIN q.items
    PROVE  /\ Rank(q, row) \in Nat
           /\ Knows(q, q.items[row].uid) =>
                 Rank(q, row) \in DOMAIN q.order /\ q.order[Rank(q, row)] = q.items[row].uid
           /\ ~Knows(q, q.items[row].uid) => Rank(q, row) = Len(q.order) + 1
<1>1. DOMAIN q.order = 1 .. Len(q.order) /\ Len(q.order) \in Nat
  BY OneRow
<1>2. CASE Knows(q, q.items[row].uid)
  <2>1. Rank(q, row) = CHOOSE n \in DOMAIN q.order : q.order[n] = q.items[row].uid
    BY <1>2 DEF Rank, Knows
  <2>2. Rank(q, row) \in DOMAIN q.order /\ q.order[Rank(q, row)] = q.items[row].uid
    BY <1>2, <2>1, Zenon DEF Knows
  <2> QED
    BY <1>1, <1>2, <2>2
<1>3. CASE ~Knows(q, q.items[row].uid)
  <2>1. Rank(q, row) = Len(q.order) + 1
    BY <1>3 DEF Rank, Knows
  <2> QED
    BY <1>1, <1>3, <2>1
<1> QED
  BY <1>2, <1>3

LEMMA SortsBeforeIs ==
    ASSUME NEW q, GoodQueue(q), NEW m \in DOMAIN q.items, NEW n \in DOMAIN q.items
    PROVE  SortsBefore(q, m, n) <=> Comes(q, q.items[m].uid, q.items[n].uid)
<1> DEFINE u == q.items[m].uid
           v == q.items[n].uid
           i == Rank(q, m)
           j == Rank(q, n)
           size == Len(q.order)
<1>1. /\ DOMAIN q.order = 1 .. size /\ size \in Nat
      /\ \A a, b \in DOMAIN q.order : q.order[a] = q.order[b] => a = b
      /\ \A a, b \in DOMAIN q.items : q.items[a].uid = q.items[b].uid => a = b
      /\ m \in Int /\ n \in Int
  BY OneRow
<1>2. i \in Nat /\ (Knows(q, u) => i \in 1 .. size /\ q.order[i] = u) /\ (~Knows(q, u) => i = size + 1)
  BY <1>1, RankIs
<1>3. j \in Nat /\ (Knows(q, v) => j \in 1 .. size /\ q.order[j] = v) /\ (~Knows(q, v) => j = size + 1)
  BY <1>1, RankIs
<1>4. SortsBefore(q, m, n) <=> i < j \/ (i = j /\ m < n)
  BY DEF SortsBefore
<1>5. u = v => m = n
  BY <1>1
<1>6. ShownBefore(q, u, v) <=> m < n
  BY <1>1 DEF ShownBefore
<1>7. OrderedBefore(q, u, v) => Knows(q, u) /\ Knows(q, v) /\ i < j
  <2> SUFFICES ASSUME NEW a \in DOMAIN q.order, NEW b \in DOMAIN q.order, a < b,
                      q.order[a] = u, q.order[b] = v
               PROVE  Knows(q, u) /\ Knows(q, v) /\ i < j
    BY DEF OrderedBefore
  <2>1. Knows(q, u) /\ Knows(q, v)
    BY DEF Knows
  <2> HIDE DEF u, v, i, j, size
  <2>2. a = i /\ b = j
    BY <1>1, <1>2, <1>3, <2>1
  <2> QED
    BY <2>1, <2>2
<1>8. Knows(q, u) /\ Knows(q, v) /\ i < j => OrderedBefore(q, u, v)
  BY <1>1, <1>2, <1>3 DEF OrderedBefore
<1> HIDE DEF u, v, i, j, size
<1>9. CASE Knows(q, u) /\ Knows(q, v)
  <2>1. i = j => ~(m < n)
    BY <1>1, <1>2, <1>3, <1>5, <1>9
  <2> QED
    BY <1>4, <1>7, <1>8, <1>9, <2>1 DEF Comes, u, v
<1>10. CASE Knows(q, u) /\ ~Knows(q, v)
  BY <1>1, <1>2, <1>3, <1>4, <1>10 DEF Comes, u, v
<1>11. CASE ~Knows(q, u) /\ Knows(q, v)
  <2>1. ~(i < j) /\ i # j
    BY <1>1, <1>2, <1>3, <1>11
  <2> QED
    BY <1>4, <1>7, <1>11, <2>1 DEF Comes, u, v
<1>12. CASE ~Knows(q, u) /\ ~Knows(q, v)
  <2>1. ~(i < j) /\ i = j
    BY <1>1, <1>2, <1>3, <1>12
  <2> QED
    BY <1>4, <1>6, <1>7, <1>12, <2>1 DEF Comes, u, v
<1> QED
  BY <1>9, <1>10, <1>11, <1>12

\* The pairs of PlaysBefore are of songs still to come, and those that come so.
LEMMA PlaysBeforeIs ==
    ASSUME NEW q, GoodQueue(q)
    PROVE  /\ PlaysBefore(q) \subseteq Ahead(q) \X Ahead(q)
           /\ \A u, v \in Ahead(q) : <<u, v>> \in PlaysBefore(q) <=> Comes(q, u, v)
<1> DEFINE rows == {r \in Upcoming(q) \X Upcoming(q) : SortsBefore(q, r[1], r[2])}
<1>1. PlaysBefore(q) = {<<q.items[p[1]].uid, q.items[p[2]].uid>> : p \in rows}
  BY DEF PlaysBefore
<1>2. \A p \in rows : p[1] \in Upcoming(q) /\ p[2] \in Upcoming(q) /\ SortsBefore(q, p[1], p[2])
  OBVIOUS
<1>3. \A m, n \in Upcoming(q) : SortsBefore(q, m, n) => <<m, n>> \in rows
  OBVIOUS
<1> HIDE DEF rows
<1>4. PlaysBefore(q) \subseteq Ahead(q) \X Ahead(q)
  BY <1>1, <1>2 DEF Ahead
<1>5. ASSUME NEW u \in Ahead(q), NEW v \in Ahead(q)
      PROVE  <<u, v>> \in PlaysBefore(q) <=> Comes(q, u, v)
  <2>1. PICK m \in Upcoming(q) : q.items[m].uid = u
    BY DEF Ahead
  <2>2. PICK n \in Upcoming(q) : q.items[n].uid = v
    BY DEF Ahead
  <2>3. m \in DOMAIN q.items /\ n \in DOMAIN q.items
    BY OneRow
  <2>4. SortsBefore(q, m, n) <=> Comes(q, u, v)
    BY <2>1, <2>2, <2>3, SortsBeforeIs
  <2>5. SortsBefore(q, m, n) => <<u, v>> \in PlaysBefore(q)
    <3>1. SUFFICES ASSUME SortsBefore(q, m, n) PROVE <<u, v>> \in PlaysBefore(q)
      OBVIOUS
    <3>2. <<m, n>> \in rows
      BY <1>3, <3>1
    <3> QED
      BY <1>1, <2>1, <2>2, <3>2
  <2>6. <<u, v>> \in PlaysBefore(q) => SortsBefore(q, m, n)
    <3>1. SUFFICES ASSUME <<u, v>> \in PlaysBefore(q) PROVE SortsBefore(q, m, n)
      OBVIOUS
    <3>2. PICK p \in rows : <<u, v>> = <<q.items[p[1]].uid, q.items[p[2]].uid>>
      BY <1>1, <3>1
    <3>3. u = q.items[p[1]].uid /\ v = q.items[p[2]].uid
      BY <3>2
    <3>4. p[1] = m /\ p[2] = n
      BY <1>2, <2>1, <2>2, <2>3, <3>3, OneRow
    <3> QED
      BY <1>2, <3>4
  <2> QED
    BY <2>4, <2>5, <2>6
<1> QED
  BY <1>4, <1>5

\* Any two songs come one after the other, and never both ways.
LEMMA OneComesFirst ==
    ASSUME NEW q, GoodQueue(q), NEW u \in Ahead(q), NEW v \in Ahead(q)
    PROVE  /\ u # v => (Comes(q, u, v) <=> ~Comes(q, v, u))
           /\ ~Comes(q, u, u)
           /\ \A w \in Ahead(q) : Comes(q, u, v) /\ Comes(q, v, w) => Comes(q, u, w)
<1>1. PICK m \in Upcoming(q) : q.items[m].uid = u
  BY DEF Ahead
<1>2. PICK n \in Upcoming(q) : q.items[n].uid = v
  BY DEF Ahead
<1>3. m \in DOMAIN q.items /\ n \in DOMAIN q.items /\ m \in Int /\ n \in Int
  BY OneRow
<1>4. Rank(q, m) \in Nat /\ Rank(q, n) \in Nat
  BY <1>3, RankIs
<1>5. \A a, b \in DOMAIN q.items : SortsBefore(q, a, b) <=> Comes(q, q.items[a].uid, q.items[b].uid)
  BY SortsBeforeIs
<1>6. u # v => m # n
  BY <1>1, <1>2
<1>7. u # v => (Comes(q, u, v) <=> ~Comes(q, v, u))
  <2>1. m # n => (SortsBefore(q, m, n) <=> ~SortsBefore(q, n, m))
    BY <1>3, <1>4 DEF SortsBefore
  <2> QED
    BY <1>1, <1>2, <1>3, <1>5, <1>6, <2>1
<1>8. ~Comes(q, u, u)
  <2>1. ~SortsBefore(q, m, m)
    BY <1>3, <1>4 DEF SortsBefore
  <2> QED
    BY <1>1, <1>3, <1>5, <2>1
<1>9. ASSUME NEW w \in Ahead(q), Comes(q, u, v), Comes(q, v, w) PROVE Comes(q, u, w)
  <2>1. PICK o \in Upcoming(q) : q.items[o].uid = w
    BY DEF Ahead
  <2>2. o \in DOMAIN q.items /\ o \in Int
    BY OneRow
  <2>3. Rank(q, o) \in Nat
    BY <2>2, RankIs
  <2>4. SortsBefore(q, m, n) /\ SortsBefore(q, n, o)
    BY <1>1, <1>2, <1>3, <1>5, <1>9, <2>1, <2>2
  <2>5. SortsBefore(q, m, o)
    BY <1>3, <1>4, <2>2, <2>3, <2>4 DEF SortsBefore
  <2> QED
    BY <1>1, <1>3, <1>5, <2>1, <2>2, <2>5
<1> QED
  BY <1>7, <1>8, <1>9

\* The songs of a good queue are in one order.
LEMMA InOneOrder ==
    ASSUME NEW q, GoodQueue(q)
    PROVE  Order!Orders(PlaysBefore(q), Ahead(q))
<1> DEFINE pairs == PlaysBefore(q)
           songs == Ahead(q)
<1>1. pairs \subseteq songs \X songs
  BY PlaysBeforeIs
<1>2. \A u, v \in songs : <<u, v>> \in pairs <=> Comes(q, u, v)
  BY PlaysBeforeIs
<1>3. \A u, v \in songs : u # v => (Comes(q, u, v) <=> ~Comes(q, v, u))
  BY OneComesFirst
<1>4. \A u \in songs : ~Comes(q, u, u)
  BY OneComesFirst
<1>5. \A u, v, w \in songs : Comes(q, u, v) /\ Comes(q, v, w) => Comes(q, u, w)
  BY OneComesFirst
<1> HIDE DEF pairs, songs
<1>6. pairs \cup {<<p[2], p[1]>> : p \in pairs} \subseteq {p \in songs \X songs : p[1] # p[2]}
  <2>1. ASSUME NEW p \in pairs PROVE p[1] \in songs /\ p[2] \in songs /\ p = <<p[1], p[2]>> /\ p[1] # p[2]
    <3>1. p[1] \in songs /\ p[2] \in songs /\ p = <<p[1], p[2]>>
      BY <1>1
    <3> QED
      BY <1>2, <1>4, <3>1
  <2> QED
    BY <2>1
<1>7. {p \in songs \X songs : p[1] # p[2]} \subseteq pairs \cup {<<p[2], p[1]>> : p \in pairs}
  <2> SUFFICES ASSUME NEW u \in songs, NEW v \in songs, u # v
               PROVE  <<u, v>> \in pairs \cup {<<p[2], p[1]>> : p \in pairs}
    OBVIOUS
  <2>1. CASE <<u, v>> \in pairs
    BY <2>1
  <2>2. CASE <<v, u>> \in pairs
    BY <2>2
  <2> QED
    BY <1>2, <1>3, <2>1, <2>2
<1>8. \A p, r \in pairs : p[2] = r[1] => <<p[1], r[2]>> \in pairs
  <2> SUFFICES ASSUME NEW p \in pairs, NEW r \in pairs, p[2] = r[1] PROVE <<p[1], r[2]>> \in pairs
    OBVIOUS
  <2>1. /\ p[1] \in songs /\ p[2] \in songs /\ p = <<p[1], p[2]>>
        /\ r[1] \in songs /\ r[2] \in songs /\ r = <<r[1], r[2]>>
    BY <1>1
  <2> QED
    BY <1>2, <1>5, <2>1
<1> QED
  BY <1>6, <1>7, <1>8 DEF Order!Orders, pairs, songs

-----------------------------------------------------------------------------
(* Songs carried from one sequence to another in their order *)

\* The places `keep` of s are found again in r, in the same order.
Carried(s, r, keep) ==
    \E f \in [keep -> DOMAIN r] :
        /\ \A n \in keep : r[f[n]] = s[n]
        /\ \A m, n \in keep : m < n => f[m] < f[n]

LEMMA CarriedSelf == ASSUME NEW s, NEW keep \in SUBSET DOMAIN s PROVE Carried(s, s, keep)
<1>1. [n \in keep |-> n] \in [keep -> DOMAIN s]
  OBVIOUS
<1> QED
  BY <1>1 DEF Carried

LEMMA CarriedLess ==
    ASSUME NEW s, NEW r, NEW keep, NEW some \in SUBSET keep, Carried(s, r, keep)
    PROVE  Carried(s, r, some)
<1>1. PICK f \in [keep -> DOMAIN r] : /\ \A n \in keep : r[f[n]] = s[n]
                                      /\ \A m, n \in keep : m < n => f[m] < f[n]
  BY DEF Carried
<1>2. [n \in some |-> f[n]] \in [some -> DOMAIN r]
  OBVIOUS
<1> QED
  BY <1>1, <1>2 DEF Carried

LEMMA CarriedOn ==
    ASSUME NEW s, NEW r, NEW t, NEW keep, Carried(s, r, keep), Carried(r, t, DOMAIN r)
    PROVE  Carried(s, t, keep)
<1>1. PICK f \in [keep -> DOMAIN r] : /\ \A n \in keep : r[f[n]] = s[n]
                                      /\ \A m, n \in keep : m < n => f[m] < f[n]
  BY DEF Carried
<1>2. PICK g \in [DOMAIN r -> DOMAIN t] : /\ \A n \in DOMAIN r : t[g[n]] = r[n]
                                          /\ \A m, n \in DOMAIN r : m < n => g[m] < g[n]
  BY DEF Carried
<1> DEFINE h == [n \in keep |-> g[f[n]]]
<1>3. h \in [keep -> DOMAIN t]
  OBVIOUS
<1>4. \A n \in keep : t[h[n]] = s[n]
  BY <1>1, <1>2
<1>5. \A m, n \in keep : m < n => h[m] < h[n]
  BY <1>1, <1>2
<1> HIDE DEF h
<1> QED
  BY <1>3, <1>4, <1>5 DEF Carried

LEMMA CarriedBySplice ==
    ASSUME NEW S, NEW s \in Seq(S), NEW t \in Seq(S), NEW row \in 1 .. Len(s) + 1
    PROVE  Carried(s, Splice(s, row, t), DOMAIN s)
<1> DEFINE r == Splice(s, row, t)
           f == [n \in 1 .. Len(s) |-> IF n < row THEN n ELSE n + Len(t)]
<1>1. DOMAIN s = 1 .. Len(s) /\ Len(s) \in Nat /\ Len(t) \in Nat /\ row \in Nat
  OBVIOUS
<1>2. /\ r \in Seq(S) /\ Len(r) = Len(s) + Len(t)
      /\ \A n \in 1 .. Len(s) + Len(t) :
            r[n] = IF n < row THEN s[n] ELSE IF n < row + Len(t) THEN t[n - row + 1] ELSE s[n - Len(t)]
  BY SpliceFacts
<1> HIDE DEF r
<1>3. DOMAIN r = 1 .. Len(s) + Len(t)
  BY <1>2
<1>4. \A n \in 1 .. Len(s) : f[n] \in 1 .. Len(s) + Len(t) /\ r[f[n]] = s[n]
  <2> SUFFICES ASSUME NEW n \in 1 .. Len(s) PROVE f[n] \in 1 .. Len(s) + Len(t) /\ r[f[n]] = s[n]
    OBVIOUS
  <2>1. CASE n < row
    BY <1>1, <1>2, <2>1
  <2>2. CASE ~(n < row)
    <3>1. /\ n + Len(t) \in 1 .. Len(s) + Len(t) /\ ~(n + Len(t) < row) /\ ~(n + Len(t) < row + Len(t))
          /\ n + Len(t) - Len(t) = n
      BY <1>1, <2>2
    <3>2. r[n + Len(t)] = s[n + Len(t) - Len(t)]
      BY <1>2, <3>1
    <3> QED
      BY <2>2, <3>1, <3>2
  <2> QED
    BY <2>1, <2>2
<1>5. \A m, n \in 1 .. Len(s) : m < n => f[m] < f[n]
  BY <1>1
<1>6. f \in [DOMAIN s -> DOMAIN r]
  BY <1>1, <1>3, <1>4
<1> QED
  BY <1>1, <1>4, <1>5, <1>6 DEF Carried, r

LEMMA CarriedByCut ==
    ASSUME NEW S, NEW s \in Seq(S), NEW row \in 1 .. Len(s)
    PROVE  Carried(s, RemoveAt(s, row), DOMAIN s \ {row})
<1> DEFINE r == RemoveAt(s, row)
           keep == (1 .. Len(s)) \ {row}
           f == [n \in keep |-> IF n < row THEN n ELSE n - 1]
<1>1. DOMAIN s = 1 .. Len(s) /\ Len(s) \in Nat /\ row \in Nat
  OBVIOUS
<1>2. /\ r \in Seq(S) /\ Len(r) = Len(s) - 1
      /\ \A n \in 1 .. Len(s) - 1 : r[n] = IF n < row THEN s[n] ELSE s[n + 1]
  BY CutFacts
<1> HIDE DEF r
<1>3. DOMAIN r = 1 .. Len(s) - 1
  BY <1>2
<1>4. \A n \in keep : f[n] \in 1 .. Len(s) - 1 /\ r[f[n]] = s[n]
  <2> SUFFICES ASSUME NEW n \in keep PROVE f[n] \in 1 .. Len(s) - 1 /\ r[f[n]] = s[n]
    OBVIOUS
  <2>1. CASE n < row
    BY <1>1, <1>2, <2>1
  <2>2. CASE ~(n < row)
    <3>1. n - 1 \in 1 .. Len(s) - 1 /\ ~(n - 1 < row) /\ n - 1 + 1 = n
      BY <1>1, <2>2
    <3>2. r[n - 1] = s[n - 1 + 1]
      BY <1>2, <3>1
    <3> QED
      BY <2>2, <3>1, <3>2
  <2> QED
    BY <2>1, <2>2
<1>5. \A m, n \in keep : m < n => f[m] < f[n]
  BY <1>1
<1>6. f \in [keep -> DOMAIN r]
  BY <1>3, <1>4
<1> QED
  BY <1>1, <1>4, <1>5, <1>6 DEF Carried, r

LEMMA CarriedByFront ==
    ASSUME NEW S, NEW s \in Seq(S), NEW t \in Seq(S)
    PROVE  Carried(s, s \o t, DOMAIN s) /\ Carried(t, s \o t, DOMAIN t)
<1>1. /\ DOMAIN s = 1 .. Len(s) /\ DOMAIN t = 1 .. Len(t) /\ Len(s) \in Nat /\ Len(t) \in Nat
      /\ DOMAIN (s \o t) = 1 .. Len(s) + Len(t)
  OBVIOUS
<1> DEFINE f == [n \in 1 .. Len(s) |-> n]
           g == [n \in 1 .. Len(t) |-> n + Len(s)]
<1>2. f \in [DOMAIN s -> DOMAIN (s \o t)] /\ g \in [DOMAIN t -> DOMAIN (s \o t)]
  BY <1>1
<1>3. \A n \in DOMAIN s : (s \o t)[f[n]] = s[n]
  BY <1>1
<1>4. \A n \in DOMAIN t : (s \o t)[g[n]] = t[n]
  BY <1>1
<1>5. (\A m, n \in DOMAIN s : m < n => f[m] < f[n]) /\ (\A m, n \in DOMAIN t : m < n => g[m] < g[n])
  BY <1>1
<1> HIDE DEF f, g
<1> QED
  BY <1>2, <1>3, <1>4, <1>5 DEF Carried

\* The order without one uid.
LEMMA CarriedByRemoveFirst ==
    ASSUME NEW order \in Seq(Nat), Distinct(order, Itself), NEW uid \in Nat
    PROVE  Carried(order, RemoveFirst(order, uid), {n \in DOMAIN order : order[n] # uid})
<1> DEFINE keep == {n \in DOMAIN order : order[n] # uid}
<1>1. CASE ~ \E n \in 1 .. Len(order) : order[n] = uid
  <2>1. RemoveFirst(order, uid) = order
    BY <1>1 DEF RemoveFirst
  <2> QED
    BY <2>1, CarriedSelf
<1>2. ASSUME NEW n \in 1 .. Len(order), order[n] = uid
      PROVE  Carried(order, RemoveFirst(order, uid), keep)
  <2> DEFINE I == {m \in 1 .. Len(order) : order[m] = uid}
  <2>1. \A m \in 1 .. Len(order) : order[m] \in Nat /\ Itself[order[m]] = order[m]
    BY DEF Itself
  <2>2. I = {n}
    BY <1>2, <2>1 DEF Distinct
  <2>3. Min(I) = n
    BY <2>2 DEF Min
  <2>4. RemoveFirst(order, uid) = RemoveAt(order, n)
    BY <1>2, <2>2, <2>3 DEF RemoveFirst, SelectInSeq
  <2>5. Carried(order, RemoveAt(order, n), DOMAIN order \ {n})
    BY CarriedByCut
  <2>6. keep \in SUBSET (DOMAIN order \ {n})
    BY <1>2
  <2> QED
    BY <2>4, <2>5, <2>6, CarriedLess
<1> QED
  BY <1>1, <1>2

\* What is left of a sequence keeps its order.
LEMMA CarriedBySubsequence ==
    ASSUME NEW S, NEW s \in Seq(S), NEW keep \in SUBSET (1 .. Len(s)), NEW key, Distinct(s, key),
           NEW r \in Subsequences(s, keep)
    PROVE  Carried(s, r, keep)
<1>1. PICK f \in InOrder(keep) : r = [n \in DOMAIN f |-> s[f[n]]]
  BY DEF Subsequences
<1>2. r \in Seq(S) /\ IsFiniteSet(keep) /\ Len(r) = Cardinality(keep) /\ \A n \in keep : s[n] \in Range(r)
  BY SubsequenceFacts
<1>3. f \in [1 .. Cardinality(keep) -> keep] /\ \A m, n \in DOMAIN f : m < n => f[m] < f[n]
  BY DEF InOrder
<1>4. DOMAIN r = DOMAIN f /\ Cardinality(keep) \in Nat
  BY <1>1, <1>2, FS_CardinalityType
<1>5. \A n \in keep : n \in Int /\ n \in DOMAIN s
  OBVIOUS
<1>6. \A n \in keep : \E i \in DOMAIN f : f[i] = n
  <2> SUFFICES ASSUME NEW n \in keep PROVE \E i \in DOMAIN f : f[i] = n
    OBVIOUS
  <2>1. PICK i \in DOMAIN f : s[f[i]] = s[n]
    BY <1>1, <1>2, <1>4 DEF Range
  <2>2. f[i] \in keep
    BY <1>3
  <2>3. f[i] = n
    BY <1>5, <2>1, <2>2 DEF Distinct
  <2> QED
    BY <2>3
<1> DEFINE spot == [n \in keep |-> CHOOSE i \in DOMAIN f : f[i] = n]
<1>7. \A n \in keep : spot[n] \in DOMAIN f /\ f[spot[n]] = n
  BY <1>6
<1>8. spot \in [keep -> DOMAIN r]
  BY <1>4, <1>7
<1> HIDE DEF spot
<1>9. \A n \in keep : r[spot[n]] = s[n]
  BY <1>1, <1>7
<1>10. ASSUME NEW m \in keep, NEW n \in keep, m < n PROVE spot[m] < spot[n]
  <2>1. spot[m] \in Int /\ spot[n] \in Int
    BY <1>3, <1>4, <1>7
  <2>2. spot[m] # spot[n]
    BY <1>5, <1>7, <1>10
  <2>3. ~(spot[n] < spot[m])
    BY <1>3, <1>5, <1>7, <1>10
  <2> QED
    BY <2>1, <2>2, <2>3
<1> QED
  BY <1>8, <1>9, <1>10 DEF Carried

-----------------------------------------------------------------------------
(* Two queues that have songs in the same order *)

KeepsOrder(q, r, songs) ==
    LET both == songs \cap Ahead(q) \cap Ahead(r)
    IN  PlaysBefore(q) \cap (both \X both) = PlaysBefore(r) \cap (both \X both)

\* One direction is enough: in both queues one song of two comes first.
LEMMA SameOrder ==
    ASSUME NEW q, NEW r, GoodQueue(q), GoodQueue(r), NEW songs,
           \A u, v \in songs \cap Ahead(q) \cap Ahead(r) : Comes(q, u, v) => Comes(r, u, v)
    PROVE  KeepsOrder(q, r, songs)
<1> DEFINE both == songs \cap Ahead(q) \cap Ahead(r)
<1>1. \A u, v \in both : <<u, v>> \in PlaysBefore(q) <=> Comes(q, u, v)
  BY PlaysBeforeIs
<1>2. \A u, v \in both : <<u, v>> \in PlaysBefore(r) <=> Comes(r, u, v)
  BY PlaysBeforeIs
<1>3. \A u, v \in both : Comes(q, u, v) <=> Comes(r, u, v)
  <2> SUFFICES ASSUME NEW u \in both, NEW v \in both, Comes(r, u, v) PROVE Comes(q, u, v)
    OBVIOUS
  <2>1. u # v /\ ~Comes(r, v, u)
    BY OneComesFirst
  <2>2. ~Comes(q, v, u)
    BY <2>1
  <2> QED
    BY <2>1, <2>2, OneComesFirst
<1> HIDE DEF both
<1>4. PlaysBefore(q) \cap (both \X both) = PlaysBefore(r) \cap (both \X both)
  BY <1>1, <1>2, <1>3
<1> QED
  BY <1>4 DEF KeepsOrder, both

\* Songs that are carried over, in the list and in the order, keep their order.
LEMMA CarriedKeeps ==
    ASSUME NEW q, NEW r, GoodQueue(q), GoodQueue(r), NEW songs,
           Carried(q.items, r.items, {n \in DOMAIN q.items : q.items[n].uid \in songs}),
           Carried(q.order, r.order, {n \in DOMAIN q.order : q.order[n] \in songs}),
           \A u \in songs : Knows(r, u) => Knows(q, u)
    PROVE  KeepsOrder(q, r, songs)
<1> DEFINE rows   == {n \in DOMAIN q.items : q.items[n].uid \in songs}
           places == {n \in DOMAIN q.order : q.order[n] \in songs}
<1>1. PICK f \in [rows -> DOMAIN r.items] : /\ \A n \in rows : r.items[f[n]] = q.items[n]
                                            /\ \A m, n \in rows : m < n => f[m] < f[n]
  BY DEF Carried
<1>2. PICK g \in [places -> DOMAIN r.order] : /\ \A n \in places : r.order[g[n]] = q.order[n]
                                              /\ \A m, n \in places : m < n => g[m] < g[n]
  BY DEF Carried
<1>3. ASSUME NEW u \in songs, NEW v \in songs, ShownBefore(q, u, v) PROVE ShownBefore(r, u, v)
  <2>1. PICK m \in DOMAIN q.items, n \in DOMAIN q.items : m < n /\ q.items[m].uid = u /\ q.items[n].uid = v
    BY <1>3 DEF ShownBefore
  <2>2. m \in rows /\ n \in rows
    BY <2>1
  <2> HIDE DEF rows
  <2>3. /\ f[m] \in DOMAIN r.items /\ f[n] \in DOMAIN r.items /\ f[m] < f[n]
        /\ r.items[f[m]].uid = u /\ r.items[f[n]].uid = v
    BY <1>1, <2>1, <2>2
  <2> QED
    BY <2>3 DEF ShownBefore
<1>4. ASSUME NEW u \in songs, NEW v \in songs, OrderedBefore(q, u, v) PROVE OrderedBefore(r, u, v)
  <2>1. PICK m \in DOMAIN q.order, n \in DOMAIN q.order : m < n /\ q.order[m] = u /\ q.order[n] = v
    BY <1>4 DEF OrderedBefore
  <2>2. m \in places /\ n \in places
    BY <2>1
  <2> HIDE DEF places
  <2>3. /\ g[m] \in DOMAIN r.order /\ g[n] \in DOMAIN r.order /\ g[m] < g[n]
        /\ r.order[g[m]] = u /\ r.order[g[n]] = v
    BY <1>2, <2>1, <2>2
  <2> QED
    BY <2>3 DEF OrderedBefore
<1>5. ASSUME NEW u \in songs, Knows(q, u) PROVE Knows(r, u)
  <2>1. PICK n \in DOMAIN q.order : q.order[n] = u
    BY <1>5 DEF Knows
  <2>2. n \in places
    BY <2>1
  <2> HIDE DEF places
  <2> QED
    BY <1>2, <2>1, <2>2 DEF Knows
<1>6. \A u, v \in songs : Comes(q, u, v) => Comes(r, u, v)
  BY <1>3, <1>4, <1>5 DEF Comes
<1> QED
  BY <1>6, SameOrder

\* The same songs in the same order are the same pairs.
LEMMA SamePairs ==
    ASSUME NEW q, NEW r, GoodQueue(q), GoodQueue(r), Ahead(q) = Ahead(r), KeepsOrder(q, r, Ahead(q))
    PROVE  PlaysBefore(q) = PlaysBefore(r)
<1>1. PlaysBefore(q) \subseteq Ahead(q) \X Ahead(q) /\ PlaysBefore(r) \subseteq Ahead(q) \X Ahead(q)
  BY PlaysBeforeIs
<1>2. Ahead(q) \cap Ahead(q) \cap Ahead(r) = Ahead(q)
  OBVIOUS
<1> QED
  BY <1>1, <1>2 DEF KeepsOrder

\* Which songs are ahead, from where the rows of each queue are.
LEMMA AheadFrom ==
    ASSUME NEW q, NEW r, \A n \in Upcoming(r) : \E m \in Upcoming(q) : r.items[n].uid = q.items[m].uid
    PROVE  Ahead(r) \subseteq Ahead(q)
<1> SUFFICES ASSUME NEW u \in Ahead(r) PROVE u \in Ahead(q)
  OBVIOUS
<1>1. PICK n \in Upcoming(r) : u = r.items[n].uid
  BY DEF Ahead
<1> QED
  BY <1>1 DEF Ahead

-----------------------------------------------------------------------------
(* Each operation on the queue keeps the order of what it is not about *)

LEMMA WithCurrentKeeps ==
    ASSUME NEW q, GoodQueue(q), NEW row \in 1 .. Len(q.items)
    PROVE  LET r == WithCurrent(q, row)
           IN  /\ KeepsOrder(q, r, Ahead(q))
               /\ CurrentUid(r) \in 1 .. q.next - 1 /\ CurrentUid(r) \notin Ahead(r)
               /\ row > q.current => CurrentUid(r) \in Ahead(q) /\ Ahead(r) \subseteq Ahead(q)
               /\ row < q.current => Ahead(q) \cup {CurrentUid(q)} \subseteq Ahead(r)
               /\ row = q.current => r = q
               /\ Ahead(r) \subseteq 1 .. q.next - 1
<1> DEFINE r == WithCurrent(q, row)
<1>1. /\ q.items \in Seq(Track) /\ Len(q.items) \in Nat /\ q.current \in 0 .. Len(q.items)
      /\ q = [items |-> q.items, current |-> q.current, order |-> q.order, next |-> q.next]
  BY GoodParts
<1>2. r = [items |-> q.items, current |-> row, order |-> q.order, next |-> q.next]
  BY <1>1 DEF WithCurrent, Rearranged, Clamp, Count
<1>3. GoodQueue(r)
  BY WithCurrentGood
<1> HIDE DEF r
<1>4. /\ Upcoming(q) = q.current + 1 .. Len(q.items) /\ Upcoming(r) = row + 1 .. Len(q.items)
      /\ DOMAIN q.items = 1 .. Len(q.items)
      /\ \A m, n \in 1 .. Len(q.items) : q.items[m].uid = q.items[n].uid => m = n
      /\ \A n \in 1 .. Len(q.items) : q.items[n].uid \in 1 .. q.next - 1
  BY <1>2, <1>3, OneRow
<1>5. KeepsOrder(q, r, Ahead(q))
  <2>1. \A u, v : Comes(q, u, v) => Comes(r, u, v)
    BY <1>2 DEF Comes, Knows, OrderedBefore, ShownBefore
  <2> QED
    BY <1>3, <2>1, SameOrder
<1>6. CurrentUid(r) = q.items[row].uid
  BY <1>2 DEF CurrentUid
<1>7. CurrentUid(r) \notin Ahead(r)
  BY <1>2, <1>4, <1>6 DEF Ahead
<1>8. row > q.current => CurrentUid(r) \in Ahead(q) /\ Ahead(r) \subseteq Ahead(q)
  BY <1>1, <1>2, <1>4, <1>6, SMTT(20) DEF Ahead
<1>9. row < q.current => Ahead(q) \cup {CurrentUid(q)} \subseteq Ahead(r)
  <2> SUFFICES ASSUME row < q.current PROVE Ahead(q) \subseteq Ahead(r) /\ CurrentUid(q) \in Ahead(r)
    OBVIOUS
  <2>1. Upcoming(q) \subseteq Upcoming(r) /\ q.current \in Upcoming(r) /\ q.current # 0
    BY <1>1, <1>4
  <2> QED
    BY <1>2, <2>1 DEF Ahead, CurrentUid
<1>10. row = q.current => r = q
  BY <1>1, <1>2
<1>11. Ahead(r) \subseteq 1 .. q.next - 1 /\ CurrentUid(r) \in 1 .. q.next - 1
  BY <1>2, <1>4, <1>6 DEF Ahead
<1> QED
  BY <1>5, <1>7, <1>8, <1>9, <1>10, <1>11 DEF r

LEMMA RemovedAtKeeps ==
    ASSUME NEW q, GoodQueue(q), NEW row \in 1 .. Len(q.items), row # q.current
    PROVE  LET r == RemovedAt(q, row)
           IN  Ahead(r) \subseteq Ahead(q) /\ KeepsOrder(q, r, Ahead(r))
<1> DEFINE r     == RemovedAt(q, row)
           songs == Ahead(r)
           uid   == q.items[row].uid
<1>1. /\ q.items \in Seq(Track) /\ Len(q.items) \in Nat /\ q.current \in 0 .. Len(q.items)
      /\ q.order \in Seq(Nat) /\ Distinct(q.order, Itself) /\ q.current \in Nat
  BY GoodParts
<1>2. /\ r.items = RemoveAt(q.items, row) /\ r.order = RemoveFirst(q.order, uid)
      /\ r.current = IF row < q.current THEN q.current - 1 ELSE q.current
  BY DEF RemovedAt, Rearranged
<1>3. GoodQueue(r)
  BY RemovedAtGood
<1>4. /\ Len(r.items) = Len(q.items) - 1
      /\ \A n \in 1 .. Len(q.items) - 1 : r.items[n] = IF n < row THEN q.items[n] ELSE q.items[n + 1]
  BY <1>1, <1>2, CutFacts
<1>5. uid \in Nat
  BY <1>1, OneRow DEF Track
<1> HIDE DEF r
<1>6. Upcoming(r) = r.current + 1 .. Len(r.items) /\ Upcoming(q) = q.current + 1 .. Len(q.items)
  BY <1>3, OneRow
<1>7. \A n \in Upcoming(r) : \E m \in Upcoming(q) : m # row /\ r.items[n] = q.items[m]
  <2> SUFFICES ASSUME NEW n \in Upcoming(r)
               PROVE  \E m \in Upcoming(q) : m # row /\ r.items[n] = q.items[m]
    OBVIOUS
  <2>1. n \in 1 .. Len(q.items) - 1 /\ n > r.current
    BY <1>1, <1>2, <1>4, <1>6
  <2>2. CASE n < row
    <3>1. n \in Upcoming(q)
      BY <1>1, <1>2, <1>4, <1>6, <2>1, <2>2
    <3>2. r.items[n] = q.items[n] /\ n # row
      BY <1>4, <2>1, <2>2
    <3> QED
      BY <3>1, <3>2
  <2>3. CASE ~(n < row)
    <3>1. n + 1 \in Upcoming(q)
      BY <1>1, <1>2, <1>4, <1>6, <2>1, <2>3
    <3>2. r.items[n] = q.items[n + 1] /\ n + 1 # row
      BY <1>4, <2>1, <2>3
    <3> QED
      BY <3>1, <3>2
  <2> QED
    BY <2>2, <2>3
<1>8. songs \subseteq Ahead(q) /\ uid \notin songs
  <2>1. songs \subseteq Ahead(q)
    BY <1>7, AheadFrom
  <2>2. ASSUME uid \in songs PROVE FALSE
    <3>1. PICK n \in Upcoming(r) : r.items[n].uid = uid
      BY <2>2 DEF Ahead
    <3>2. PICK m \in Upcoming(q) : m # row /\ q.items[m].uid = uid
      BY <1>7, <3>1
    <3> QED
      BY <1>1, <3>2, OneRow
  <2> QED
    BY <2>1, <2>2
<1> HIDE DEF songs, uid
<1>9. Carried(q.items, r.items, {n \in DOMAIN q.items : q.items[n].uid \in songs})
  <2>1. Carried(q.items, r.items, DOMAIN q.items \ {row})
    BY <1>1, <1>2, CarriedByCut
  <2>2. {n \in DOMAIN q.items : q.items[n].uid \in songs} \in SUBSET (DOMAIN q.items \ {row})
    BY <1>8 DEF uid
  <2> QED
    BY <2>1, <2>2, CarriedLess
<1>10. Carried(q.order, r.order, {n \in DOMAIN q.order : q.order[n] \in songs})
  <2>1. Carried(q.order, r.order, {n \in DOMAIN q.order : q.order[n] # uid})
    BY <1>1, <1>2, <1>5, CarriedByRemoveFirst
  <2>2. {n \in DOMAIN q.order : q.order[n] \in songs} \in SUBSET {n \in DOMAIN q.order : q.order[n] # uid}
    BY <1>8
  <2> QED
    BY <2>1, <2>2, CarriedLess
<1>11. \A u : Knows(r, u) => Knows(q, u)
  <2>1. Range(r.order) \subseteq Range(q.order)
    BY <1>1, <1>2, <1>5, RemoveFirstFacts
  <2> QED
    BY <2>1 DEF Knows, Range
<1>12. KeepsOrder(q, r, songs)
  BY <1>3, <1>9, <1>10, <1>11, CarriedKeeps
<1> QED
  BY <1>8, <1>12 DEF r, songs

LEMMA RemovedRowsKeeps ==
    ASSUME NEW q, GoodQueue(q), NEW rows \in SUBSET Upcoming(q), NEW r \in RemovedRows(q, rows)
    PROVE  Ahead(r) \subseteq Ahead(q) /\ KeepsOrder(q, r, Ahead(r))
<1> DEFINE kept  == DOMAIN q.items \ rows
           known == StillKnown(q, rows)
           songs == Ahead(r)
<1>1. PICK items \in Subsequences(q.items, kept), order \in Subsequences(q.order, known) :
         r = Rearranged(q, items, q.current, order)
  BY DEF RemovedRows
<1>2. r.items = items /\ r.order = order /\ r.current = q.current
  BY <1>1 DEF Rearranged
<1>3. GoodQueue(r)
  BY RemovedRowsGood
<1>4. PICK f \in InOrder(kept) : items = [n \in DOMAIN f |-> q.items[f[n]]]
  BY <1>1 DEF Subsequences
<1>5. /\ q.items \in Seq(Track) /\ Len(q.items) \in Nat /\ q.current \in Nat /\ q.current \in 0 .. Len(q.items)
      /\ Distinct(q.items, UidOf) /\ q.order \in Seq(Nat) /\ Distinct(q.order, Itself)
  BY GoodParts
<1>6. /\ DOMAIN q.items = 1 .. Len(q.items) /\ Upcoming(q) = q.current + 1 .. Len(q.items)
      /\ \A m, n \in DOMAIN q.items : q.items[m].uid = q.items[n].uid => m = n
  BY OneRow
<1>7. kept \in SUBSET (1 .. Len(q.items)) /\ 1 .. q.current \subseteq kept
  BY <1>5, <1>6
<1>8. known \in SUBSET (1 .. Len(q.order))
  BY <1>5 DEF StillKnown
<1>9. DOMAIN f = DOMAIN items /\ (\A n \in DOMAIN f : f[n] \in kept) /\ \A m, n \in DOMAIN f : m < n => f[m] < f[n]
  BY <1>4 DEF InOrder
<1>10. Upcoming(r) = q.current + 1 .. Len(items) /\ Upcoming(r) \subseteq DOMAIN items
  BY <1>2, <1>3, OneRow
<1>11. ASSUME NEW n \in Upcoming(r) PROVE f[n] \in kept /\ f[n] \in Upcoming(q) /\ r.items[n] = q.items[f[n]]
  <2>1. n \in DOMAIN f /\ f[n] \in kept /\ r.items[n] = q.items[f[n]] /\ n > q.current
    BY <1>2, <1>4, <1>5, <1>9, <1>10
  <2>2. f[n] > q.current
    <3>1. CASE q.current = 0
      BY <1>7, <2>1, <3>1
    <3>2. CASE q.current # 0
      <4> DEFINE limit == Len(q.items)
                 row   == q.current
      <4>1. limit \in Nat /\ kept \in SUBSET (1 .. limit) /\ row \in Nat /\ 1 .. row \subseteq kept
            /\ row \in 1 .. row
        BY <1>5, <1>7, <3>2
      <4> HIDE DEF limit, row, kept
      <4>2. row \in DOMAIN f /\ f[row] = row
        BY <4>1, RisingFromOne, ZenonT(40)
      <4>3. f[row] < f[n]
        BY <1>9, <2>1, <4>2 DEF row
      <4> QED
        BY <4>1, <4>2, <4>3, <2>1 DEF row, limit
    <3> QED
      BY <3>1, <3>2
  <2> QED
    BY <1>5, <1>6, <1>7, <2>1, <2>2
<1>12. songs \subseteq Ahead(q)
  BY <1>11, AheadFrom
<1>13. ASSUME NEW u \in songs PROVE \E m \in kept : q.items[m].uid = u
  <2>1. PICK n \in Upcoming(r) : r.items[n].uid = u
    BY DEF Ahead
  <2> QED
    BY <1>11, <2>1
<1>14. Carried(q.items, r.items, {n \in DOMAIN q.items : q.items[n].uid \in songs})
  <2> DEFINE these == {n \in DOMAIN q.items : q.items[n].uid \in songs}
  <2>1. these \in SUBSET kept
    <3> SUFFICES ASSUME NEW n \in these PROVE n \in kept
      OBVIOUS
    <3>1. PICK m \in kept : q.items[m].uid = q.items[n].uid
      BY <1>13
    <3> QED
      BY <1>6, <3>1
  <2> HIDE DEF kept, these
  <2>2. Carried(q.items, r.items, kept)
    BY <1>1, <1>2, <1>5, <1>7, CarriedBySubsequence
  <2> QED
    BY <2>1, <2>2, CarriedLess DEF these
<1>15. Carried(q.order, r.order, {n \in DOMAIN q.order : q.order[n] \in songs})
  <2> DEFINE these == {n \in DOMAIN q.order : q.order[n] \in songs}
  <2>1. these \in SUBSET known
    <3> SUFFICES ASSUME NEW n \in these, NEW m \in rows PROVE q.items[m].uid # q.order[n]
      BY DEF StillKnown
    <3>1. PICK k \in kept : q.items[k].uid = q.order[n]
      BY <1>13
    <3>2. m # k /\ m \in DOMAIN q.items
      BY <1>5, <1>6
    <3> QED
      BY <1>6, <3>1, <3>2
  <2> HIDE DEF known, these
  <2>2. Carried(q.order, r.order, known)
    BY <1>1, <1>2, <1>5, <1>8, CarriedBySubsequence
  <2> QED
    BY <2>1, <2>2, CarriedLess DEF these
<1>16. \A u : Knows(r, u) => Knows(q, u)
  <2> HIDE DEF known
  <2>1. Range(r.order) \subseteq Range(q.order)
    BY <1>1, <1>2, <1>5, <1>8, SubsequenceFacts
  <2> QED
    BY <2>1 DEF Knows, Range
<1> HIDE DEF songs
<1>17. KeepsOrder(q, r, songs)
  BY <1>3, <1>14, <1>15, <1>16, CarriedKeeps
<1> QED
  BY <1>12, <1>17 DEF songs

LEMMA ClearedKeeps ==
    ASSUME NEW q, GoodQueue(q)
    PROVE  Ahead(ClearedUpcoming(q)) \subseteq Ahead(q) /\ KeepsOrder(q, ClearedUpcoming(q), Ahead(q))
<1> DEFINE r == ClearedUpcoming(q)
<1>1. CASE Upcoming(q) = {}
  <2>1. r = q
    BY <1>1 DEF ClearedUpcoming
  <2> QED
    BY <2>1 DEF KeepsOrder
<1>2. CASE Upcoming(q) # {}
  <2>1. r.items = SubSeq(q.items, 1, q.current) /\ r.current = q.current
    BY <1>2 DEF ClearedUpcoming, Rearranged
  <2>2. q.items \in Seq(Track) /\ q.current \in 0 .. Len(q.items)
    BY GoodParts
  <2>3. Len(r.items) = q.current
    BY <2>1, <2>2
  <2>4. Upcoming(r) = {}
    BY <2>1, <2>2, <2>3 DEF Upcoming, Count
  <2>5. Ahead(r) = {}
    BY <2>4 DEF Ahead
  <2> QED
    BY <2>5 DEF KeepsOrder
<1> QED
  BY <1>1, <1>2

LEMMA ArrangedAhead ==
    ASSUME NEW q, GoodQueue(q), NEW p \in Bijection(Upcoming(q), Upcoming(q)), NEW r,
           r.items = Arranged(q, p), r.current = q.current
    PROVE  Upcoming(r) = Upcoming(q) /\ Ahead(r) = Ahead(q)
<1>1. q.current \in Nat /\ Len(r.items) = Len(q.items)
  BY GoodParts, ArrangedFacts
<1>2. Upcoming(r) = Upcoming(q)
  BY <1>1 DEF Upcoming, Count
<1>3. \A n \in Upcoming(q) : n \in DOMAIN q.items /\ n > q.current
  BY <1>1, OneRow
<1>4. \A n \in Upcoming(q) : p[n] \in Upcoming(q) /\ r.items[n] = q.items[p[n]]
  BY <1>3 DEF Arranged, Bijection, Injection
<1>5. \A n \in Upcoming(q) : \E m \in Upcoming(q) : p[m] = n
  BY DEF Bijection, Surjection
<1> QED
  BY <1>2, <1>4, <1>5 DEF Ahead

LEMMA ShuffledKeeps ==
    ASSUME NEW q, GoodQueue(q), q.order = <<>>, NEW r \in Shuffled(q)
    PROVE  Ahead(r) = Ahead(q) /\ PlaysBefore(r) = PlaysBefore(q)
<1>1. CASE UpcomingCount(q) < 2
  BY <1>1 DEF Shuffled
<1>2. CASE ~(UpcomingCount(q) < 2)
  <2>1. PICK p \in Bijection(Upcoming(q), Upcoming(q)) :
           r = Rearranged(q, Arranged(q, p), q.current, UpcomingUids(q))
    BY <1>2 DEF Shuffled
  <2>2. r.items = Arranged(q, p) /\ r.current = q.current /\ r.order = UpcomingUids(q)
    BY <2>1 DEF Rearranged
  <2>3. Ahead(r) = Ahead(q)
    BY <2>2, ArrangedAhead
  <2>4. GoodQueue(r)
    BY ShuffledGood
  <2> DEFINE size == Len(q.items) - q.current
  <2>5. /\ q.items \in Seq(Track) /\ Len(q.items) \in Nat /\ q.current \in Nat
        /\ q.current \in 0 .. Len(q.items) /\ size \in Nat /\ size >= 2
    BY <1>2, GoodParts DEF UpcomingCount, Count
  <2>6. DOMAIN r.order = 1 .. size /\ \A n \in 1 .. size : r.order[n] = q.items[q.current + n].uid
    <3> DEFINE ahead == SubSeq(q.items, q.current + 1, Count(q))
    <3>0. \A n \in q.current + 1 .. Len(q.items) : q.items[n] \in Track
      BY <2>5
    <3>a. /\ ahead \in Seq(Track)
          /\ Len(ahead) = IF q.current + 1 <= Len(q.items) THEN Len(q.items) - (q.current + 1) + 1 ELSE 0
          /\ \A n \in 1 .. Len(q.items) - (q.current + 1) + 1 : ahead[n] = q.items[q.current + 1 + n - 1]
      BY <2>5, <3>0, SubSeqProperties, SMTT(20) DEF Count
    <3>b. /\ \A n \in 1 .. size : q.current + 1 + n - 1 = q.current + n
          /\ Len(q.items) - (q.current + 1) + 1 = size /\ q.current + 1 <= Len(q.items)
      BY <2>5
    <3>1. Len(ahead) = size /\ DOMAIN ahead = 1 .. size /\ \A n \in 1 .. size : ahead[n] = q.items[q.current + n]
      <4> HIDE DEF ahead, size
      <4> QED
        BY <2>5, <3>a, <3>b, SMTT(20)
    <3>2. r.order = [n \in DOMAIN ahead |-> ahead[n].uid]
      BY <2>2 DEF UpcomingUids, Uids
    <3> HIDE DEF ahead, size
    <3> QED
      BY <3>1, <3>2
  <2>7. ASSUME NEW u \in Ahead(q), NEW v \in Ahead(q), Comes(q, u, v) PROVE Comes(r, u, v)
    <3>1. ShownBefore(q, u, v)
      BY <2>7 DEF Comes, Knows, OrderedBefore
    <3>2. PICK m \in DOMAIN q.items, n \in DOMAIN q.items : m < n /\ q.items[m].uid = u /\ q.items[n].uid = v
      BY <3>1 DEF ShownBefore
    <3>3. m \in Upcoming(q) /\ n \in Upcoming(q)
      BY <3>2, OneRow DEF Ahead
    <3>4. m - q.current \in 1 .. size /\ n - q.current \in 1 .. size /\ m - q.current < n - q.current
          /\ q.current + (m - q.current) = m /\ q.current + (n - q.current) = n
      <4>1. m \in q.current + 1 .. Len(q.items) /\ n \in q.current + 1 .. Len(q.items) /\ m < n
        BY <3>2, <3>3, OneRow
      <4> QED
        BY <2>5, <4>1
    <3>5. r.order[m - q.current] = u /\ r.order[n - q.current] = v
      BY <2>6, <3>2, <3>4
    <3>6. OrderedBefore(r, u, v)
      BY <2>6, <3>4, <3>5 DEF OrderedBefore
    <3> QED
      BY <3>6 DEF Comes
  <2>8. KeepsOrder(q, r, Ahead(q))
    BY <2>4, <2>7, SameOrder
  <2> QED
    BY <2>3, <2>4, <2>8, SamePairs
<1> QED
  BY <1>1, <1>2

LEMMA RestoredKeeps ==
    ASSUME NEW q, GoodQueue(q), NEW r \in Restored(q)
    PROVE  Ahead(r) = Ahead(q) /\ PlaysBefore(r) = PlaysBefore(q)
<1>1. CASE q.order = <<>>
  BY <1>1 DEF Restored
<1>2. CASE q.order # <<>>
  <2>1. PICK p \in StableSorts(q) : r = Rearranged(q, Arranged(q, p), q.current, <<>>)
    BY <1>2 DEF Restored
  <2>2. r.items = Arranged(q, p) /\ r.current = q.current /\ r.order = <<>>
    BY <2>1 DEF Rearranged
  <2>3. /\ p \in Bijection(Upcoming(q), Upcoming(q))
        /\ \A m, n \in Upcoming(q) : m < n => SortsBefore(q, p[m], p[n])
    BY DEF StableSorts
  <2>4. Upcoming(r) = Upcoming(q) /\ Ahead(r) = Ahead(q)
    BY <2>2, <2>3, ArrangedAhead
  <2>5. GoodQueue(r)
    BY RestoredGood
  <2>6. ASSUME NEW u \in Ahead(q), NEW v \in Ahead(q), Comes(q, u, v) PROVE Comes(r, u, v)
    <3>1. PICK m \in Upcoming(r) : r.items[m].uid = u
      BY <2>4 DEF Ahead
    <3>2. PICK n \in Upcoming(r) : r.items[n].uid = v
      BY <2>4 DEF Ahead
    <3>3. m \in DOMAIN r.items /\ n \in DOMAIN r.items /\ m \in Int /\ n \in Int
      BY <2>5, OneRow
    <3>4. /\ m \in DOMAIN q.items /\ n \in DOMAIN q.items /\ m > q.current /\ n > q.current
      BY <2>4, OneRow, GoodParts
    <3>5. p[m] \in Upcoming(q) /\ p[n] \in Upcoming(q) /\ q.items[p[m]].uid = u /\ q.items[p[n]].uid = v
      BY <2>2, <2>3, <2>4, <3>1, <3>2, <3>4 DEF Arranged, Bijection, Injection
    <3>6. u # v /\ ~Comes(q, v, u)
      BY <2>6, OneComesFirst
    <3>7. ~(n < m)
      <4>1. SUFFICES ASSUME n < m PROVE FALSE
        OBVIOUS
      <4>2. SortsBefore(q, p[n], p[m])
        BY <2>3, <2>4, <4>1
      <4> QED
        BY <3>5, <3>6, <4>2, SortsBeforeIs, OneRow
    <3>8. m < n
      BY <3>1, <3>2, <3>3, <3>6, <3>7
    <3>9. ShownBefore(r, u, v)
      BY <3>1, <3>2, <3>3, <3>8 DEF ShownBefore
    <3> QED
      BY <2>2, <3>9 DEF Comes, Knows
  <2>7. KeepsOrder(q, r, Ahead(q))
    BY <2>5, <2>6, SameOrder
  <2> QED
    BY <2>4, <2>5, <2>7, SamePairs
<1> QED
  BY <1>1, <1>2

-----------------------------------------------------------------------------
(* Songs moved and songs put in *)

\* The songs ahead are those of the queue that are in none of its first rows.
LEMMA AheadIs ==
    ASSUME NEW q, GoodQueue(q), NEW u
    PROVE  u \in Ahead(q) <=> HasUid(q.items, u) /\ \A n \in 1 .. q.current : q.items[n].uid # u
<1>1. q.items \in Seq(Track) /\ Len(q.items) \in Nat /\ q.current \in 0 .. Len(q.items)
  BY GoodParts
<1>2. /\ DOMAIN q.items = 1 .. Len(q.items) /\ Upcoming(q) = q.current + 1 .. Len(q.items)
      /\ \A m, n \in DOMAIN q.items : q.items[m].uid = q.items[n].uid => m = n
  BY OneRow
<1>3. HasUid(q.items, u) <=> \E n \in 1 .. Len(q.items) : q.items[n].uid = u
  BY <1>2 DEF HasUid, Range
<1>4. u \in Ahead(q) <=> \E n \in q.current + 1 .. Len(q.items) : q.items[n].uid = u
  BY <1>2 DEF Ahead
<1>5. \A n \in 1 .. Len(q.items) : n \in 1 .. q.current \/ n \in q.current + 1 .. Len(q.items)
  BY <1>1
<1>6. \A n \in q.current + 1 .. Len(q.items) : n \in 1 .. Len(q.items) /\ n \notin 1 .. q.current
  BY <1>1
<1>7. \A n \in 1 .. q.current : n \in 1 .. Len(q.items)
  BY <1>1
<1> QED
  BY <1>2, <1>3, <1>4, <1>5, <1>6, <1>7

\* moveItem's rows: all but the moved one in their order, the first ones where
\* they were.
LEMMA MovedRows ==
    ASSUME NEW q, GoodQueue(q), NEW from \in Upcoming(q), NEW to \in Upcoming(q)
    PROVE  LET moved == MovedItems(q, from, to)
           IN  /\ Carried(q.items, moved, DOMAIN q.items \ {from})
               /\ moved[to] = q.items[from]
               /\ \A n \in 1 .. q.current : moved[n] = q.items[n]
               /\ \A u : HasUid(moved, u) <=> HasUid(q.items, u)
               /\ moved \in Seq(Track) /\ Len(moved) = Len(q.items)
<1> DEFINE rest  == RemoveAt(q.items, from)
           song  == q.items[from]
           moved == MovedItems(q, from, to)
<1>1. /\ q.items \in Seq(Track) /\ Len(q.items) \in Nat /\ q.current \in Nat /\ q.current < from /\ q.current < to
      /\ from \in 1 .. Len(q.items) /\ to \in 1 .. Len(q.items) /\ song \in Track
  BY GoodParts DEF Upcoming, Count
<1>2. GoodItems(q.items, q.current, q.next)
  BY DEF GoodQueue
<1>3. rest \in Seq(Track) /\ Len(rest) = Len(q.items) - 1
      /\ \A n \in 1 .. Len(q.items) - 1 : rest[n] = IF n < from THEN q.items[n] ELSE q.items[n + 1]
  BY <1>1, CutFacts
<1>4. Carried(q.items, rest, DOMAIN q.items \ {from})
  BY <1>1, CarriedByCut
<1>5. Range(rest) \subseteq Range(q.items)
  BY <1>1, CutRange
<1>6. moved = Splice(rest, to, <<song>>)
  BY DEF MovedItems, Splice, InsertAt
<1>7. /\ moved[to] = song /\ moved \in Seq(Track) /\ Len(moved) = Len(q.items)
      /\ \A u : HasUid(q.items, u) => HasUid(moved, u)
  BY <1>1, <1>2, MovedItemsGood DEF MovedItems
<1> HIDE DEF rest, moved
<1>8. <<song>> \in Seq(Track) /\ Len(<<song>>) = 1 /\ to \in 1 .. Len(rest) + 1
  BY <1>1, <1>3
<1>9. Carried(rest, moved, DOMAIN rest)
  BY <1>3, <1>6, <1>8, CarriedBySplice
<1>10. Carried(q.items, moved, DOMAIN q.items \ {from})
  BY <1>4, <1>9, CarriedOn
<1>11. ASSUME NEW n \in 1 .. q.current PROVE moved[n] = q.items[n]
  <2>1. /\ n \in 1 .. Len(q.items) - 1 /\ n < from /\ n < to
        /\ n \in 1 .. Len(rest) + Len(<<song>>)
    BY <1>1, <1>3, <1>8
  <2>2. rest[n] = q.items[n]
    BY <1>3, <2>1
  <2>3. moved[n] = rest[n]
    BY <1>3, <1>6, <1>8, <2>1, SpliceFacts
  <2> QED
    BY <2>2, <2>3
<1>12. \A u : HasUid(moved, u) => HasUid(q.items, u)
  <2>1. Range(moved) = Range(rest) \cup Range(<<song>>)
    BY <1>3, <1>6, <1>8, SpliceRange
  <2>2. Range(<<song>>) = {song}
    BY DEF Range
  <2>3. song \in Range(q.items)
    BY <1>1 DEF Range
  <2> QED
    BY <1>5, <2>1, <2>2, <2>3 DEF HasUid
<1> QED
  BY <1>7, <1>10, <1>11, <1>12 DEF moved, song

\* moveItem's order: all but the moved song in their order.
LEMMA MovedOrderKeeps ==
    ASSUME NEW q, GoodQueue(q), NEW items, NEW current, NEW to, items[to].uid \in Nat, ~(to <= current)
    PROVE  LET order == MovedOrder(q, items, current, to)
               uid   == items[to].uid
           IN  /\ Carried(q.order, order, {n \in DOMAIN q.order : q.order[n] # uid})
               /\ Range(order) \subseteq Range(q.order) \cup {uid}
<1> DEFINE uid   == items[to].uid
           known == RemoveFirst(q.order, uid)
           above == items[to - 1].uid
           At    == CHOOSE n \in 1 .. Len(known) : known[n] = above
           place == IF to - 1 <= current THEN 1
                    ELSE IF \E n \in DOMAIN known : known[n] = above THEN 1 + At
                    ELSE Len(known) + 1
           order == MovedOrder(q, items, current, to)
<1>1. q.order \in Seq(Nat) /\ Distinct(q.order, Itself) /\ uid \in Nat
  BY GoodParts
<1>2. CASE q.order = <<>>
  <2>1. order = q.order
    BY <1>2 DEF MovedOrder
  <2> HIDE DEF order
  <2> QED
    BY <2>1, CarriedSelf DEF order
<1>3. CASE q.order # <<>>
  <2>1. order = InsertAt(known, place, uid)
    BY <1>3 DEF MovedOrder
  <2> HIDE DEF uid
  <2>2. /\ known \in Seq(Nat) /\ Distinct(known, Itself) /\ Range(known) \subseteq Range(q.order) \ {uid}
    BY <1>1, RemoveFirstFacts
  <2>3. Carried(q.order, known, {n \in DOMAIN q.order : q.order[n] # uid})
    BY <1>1, CarriedByRemoveFirst
  <2> HIDE DEF known
  <2>4. place \in 1 .. Len(known) + 1
    <3>1. Len(known) \in Nat /\ DOMAIN known = 1 .. Len(known)
      BY <2>2
    <3> HIDE DEF above
    <3>2. (\E n \in DOMAIN known : known[n] = above) => At \in 1 .. Len(known)
      BY <3>1
    <3> HIDE DEF At
    <3> QED
      BY <3>1, <3>2
  <2> HIDE DEF place
  <2>5. order = Splice(known, place, <<uid>>)
    BY <2>1 DEF Splice, InsertAt
  <2> HIDE DEF order
  <2>6. <<uid>> \in Seq(Nat)
    BY <1>1
  <2>7. Carried(known, order, DOMAIN known)
    BY <2>2, <2>4, <2>5, <2>6, CarriedBySplice
  <2>8. Carried(q.order, order, {n \in DOMAIN q.order : q.order[n] # uid})
    BY <2>3, <2>7, CarriedOn
  <2>9. Range(order) = Range(known) \cup Range(<<uid>>)
    BY <2>2, <2>4, <2>5, <2>6, SpliceRange
  <2>10. Range(<<uid>>) = {uid}
    BY DEF Range
  <2> QED
    BY <2>2, <2>8, <2>9, <2>10 DEF order, uid
<1> QED
  BY <1>2, <1>3

LEMMA MovedKeeps ==
    ASSUME NEW q, GoodQueue(q), NEW from \in Upcoming(q), NEW to \in Upcoming(q)
    PROVE  LET r == Moved(q, from, to)
           IN  Ahead(r) = Ahead(q) /\ KeepsOrder(q, r, Ahead(q) \ {q.items[from].uid})
<1> DEFINE r      == Moved(q, from, to)
           moved  == MovedItems(q, from, to)
           chosen == to > q.current /\ (to - 1 <= q.current \/ ~moved[to - 1].radio)
           uid    == q.items[from].uid
           songs  == Ahead(q) \ {uid}
<1>1. /\ q.items \in Seq(Track) /\ Len(q.items) \in Nat /\ q.current \in 1 .. Len(q.items)
      /\ from \in 1 .. Len(q.items) /\ to \in 1 .. Len(q.items) /\ q.current < from /\ q.current < to
      /\ ~(to <= q.current) /\ q.order \in Seq(Nat)
  BY GoodParts DEF Upcoming, Count
<1>2. MovedCurrent(q, from, to) = q.current
  BY <1>1 DEF MovedCurrent
<1>3. /\ r.items = [moved EXCEPT ![to].radio = @ /\ ~chosen]
      /\ r.current = q.current /\ r.order = MovedOrder(q, moved, q.current, to)
  BY <1>2 DEF Moved, Rearranged
<1>4. GoodQueue(r)
  BY <1>1, MovedGood
<1>5. /\ Carried(q.items, moved, DOMAIN q.items \ {from})
      /\ moved[to] = q.items[from]
      /\ \A n \in 1 .. q.current : moved[n] = q.items[n]
      /\ \A u : HasUid(moved, u) <=> HasUid(q.items, u)
      /\ moved \in Seq(Track) /\ Len(moved) = Len(q.items)
  BY MovedRows
<1>6. uid \in Nat /\ moved[to] \in Track /\ moved[to].uid = uid
  BY <1>1, <1>5, OneRow DEF Track
<1> HIDE DEF r, moved, chosen
<1>7. /\ DOMAIN r.items = DOMAIN moved /\ DOMAIN moved = 1 .. Len(q.items)
      /\ \A n \in DOMAIN moved : n # to => r.items[n] = moved[n]
      /\ \A n \in DOMAIN moved : r.items[n].uid = moved[n].uid
  <2> DEFINE song == [moved[to] EXCEPT !.radio = @ /\ ~chosen]
  <2>1. song.uid = moved[to].uid
    BY <1>6 DEF Track
  <2>2. r.items = [moved EXCEPT ![to] = song]
    BY <1>3
  <2> HIDE DEF song
  <2> QED
    BY <1>1, <1>5, <2>1, <2>2
<1>8. Ahead(r) = Ahead(q)
  <2>1. \A u : HasUid(r.items, u) <=> HasUid(q.items, u)
    <3>1. \A u : HasUid(r.items, u) <=> \E n \in DOMAIN r.items : r.items[n].uid = u
      BY DEF HasUid, Range
    <3>2. \A u : HasUid(moved, u) <=> \E n \in DOMAIN moved : moved[n].uid = u
      BY DEF HasUid, Range
    <3>3. \A u : HasUid(r.items, u) <=> HasUid(moved, u)
      BY <1>7, <3>1, <3>2
    <3> QED
      BY <1>5, <3>3
  <2>2. \A n \in 1 .. q.current : r.items[n].uid = q.items[n].uid
    BY <1>1, <1>5, <1>7, SMTT(20)
  <2>3. ASSUME NEW u PROVE u \in Ahead(r) <=> u \in Ahead(q)
    <3>1. u \in Ahead(r) <=> HasUid(r.items, u) /\ \A n \in 1 .. r.current : r.items[n].uid # u
      BY <1>4, AheadIs
    <3>2. u \in Ahead(q) <=> HasUid(q.items, u) /\ \A n \in 1 .. q.current : q.items[n].uid # u
      BY AheadIs
    <3> QED
      BY <1>3, <2>1, <2>2, <3>1, <3>2
  <2> QED
    BY <2>3
<1>9. Carried(q.items, r.items, DOMAIN q.items \ {from})
  <2>1. PICK f \in [DOMAIN q.items \ {from} -> DOMAIN moved] :
           /\ \A n \in DOMAIN q.items \ {from} : moved[f[n]] = q.items[n]
           /\ \A m, n \in DOMAIN q.items \ {from} : m < n => f[m] < f[n]
    BY <1>5 DEF Carried
  <2>2. ASSUME NEW n \in DOMAIN q.items \ {from} PROVE f[n] # to
    <3>1. q.items[n].uid # q.items[from].uid /\ moved[f[n]] = q.items[n]
      BY <1>1, <2>1, OneRow
    <3> QED
      BY <1>5, <3>1
  <2>3. \A n \in DOMAIN q.items \ {from} : r.items[f[n]] = q.items[n]
    BY <1>7, <2>1, <2>2
  <2> QED
    BY <1>7, <2>1, <2>3 DEF Carried
<1>10. /\ Carried(q.order, r.order, {n \in DOMAIN q.order : q.order[n] # uid})
       /\ Range(r.order) \subseteq Range(q.order) \cup {uid}
  <2> DEFINE order == MovedOrder(q, moved, q.current, to)
  <2>1. /\ Carried(q.order, order, {n \in DOMAIN q.order : q.order[n] # moved[to].uid})
        /\ Range(order) \subseteq Range(q.order) \cup {moved[to].uid}
    BY <1>1, <1>6, MovedOrderKeeps
  <2> HIDE DEF order, uid
  <2>2. r.order = order
    BY <1>3 DEF order
  <2> QED
    BY <1>6, <2>1, <2>2
<1>11. Carried(q.items, r.items, {n \in DOMAIN q.items : q.items[n].uid \in songs})
  <2>1. {n \in DOMAIN q.items : q.items[n].uid \in songs} \in SUBSET (DOMAIN q.items \ {from})
    OBVIOUS
  <2> QED
    BY <1>9, <2>1, CarriedLess
<1>12. Carried(q.order, r.order, {n \in DOMAIN q.order : q.order[n] \in songs})
  <2>1. {n \in DOMAIN q.order : q.order[n] \in songs} \in SUBSET {n \in DOMAIN q.order : q.order[n] # uid}
    OBVIOUS
  <2> QED
    BY <1>10, <2>1, CarriedLess
<1>13. \A u \in songs : Knows(r, u) => Knows(q, u)
  BY <1>10 DEF Knows, Range
<1> HIDE DEF songs
<1>14. KeepsOrder(q, r, songs)
  BY <1>4, <1>11, <1>12, <1>13, CarriedKeeps
<1> QED
  BY <1>8, <1>14 DEF r, songs

\* The rows of a queue with new ones put in.
LEMMA InsertedRows ==
    ASSUME NEW q, GoodQueue(q), NEW tracks \in Seq(Track), NEW row \in q.current + 1 .. Len(q.items) + 1
    PROVE  LET r    == Inserted(q, row, tracks)
               size == Len(tracks)
           IN  /\ DOMAIN r.items = 1 .. Len(q.items) + size
               /\ r.current = q.current
               /\ \A n \in 1 .. Len(q.items) : n < row => r.items[n] = q.items[n]
               /\ \A n \in 1 .. Len(q.items) : n >= row => r.items[n + size] = q.items[n]
               /\ \A n \in 1 .. size : r.items[row + n - 1].uid = q.next + n - 1
               /\ \A u : HasUid(r.items, u) <=> HasUid(q.items, u) \/ u \in q.next .. q.next + size - 1
<1> DEFINE r     == Inserted(q, row, tracks)
           size  == Len(tracks)
           new   == Stamp(tracks, q.next)
           items == Splice(q.items, row, new)
<1>1. /\ q.items \in Seq(Track) /\ Len(q.items) \in Nat /\ q.current \in 0 .. Len(q.items)
      /\ q.next \in Nat \ {0} /\ size \in Nat /\ row \in 1 .. Len(q.items) + 1 /\ ~(q.current >= row)
      /\ q.next \in Int
  BY GoodParts
<1>2. /\ new \in Seq(Track) /\ Len(new) = size
      /\ \A n \in 1 .. size : new[n].uid = q.next + n - 1
  BY <1>1, StampFacts
<1>3. r.items = items /\ r.current = q.current
  BY <1>1 DEF Inserted
<1> HIDE DEF new, r
<1>4. /\ items \in Seq(Track) /\ Len(items) = Len(q.items) + size
      /\ \A n \in 1 .. Len(q.items) + size :
            items[n] = IF n < row THEN q.items[n] ELSE IF n < row + size THEN new[n - row + 1] ELSE q.items[n - size]
  <2> DEFINE old == q.items
  <2>1. old \in Seq(Track) /\ new \in Seq(Track) /\ row \in 1 .. Len(old) + 1
    BY <1>1, <1>2
  <2> HIDE DEF old
  <2>2. /\ Splice(old, row, new) \in Seq(Track) /\ Len(Splice(old, row, new)) = Len(old) + Len(new)
        /\ \A n \in 1 .. Len(old) + Len(new) :
              Splice(old, row, new)[n] = IF n < row THEN old[n]
                                         ELSE IF n < row + Len(new) THEN new[n - row + 1]
                                         ELSE old[n - Len(new)]
    BY <2>1, SpliceFacts
  <2> QED
    BY <1>2, <2>2 DEF old
<1>5. Range(items) = Range(q.items) \cup Range(new)
  BY <1>1, <1>2, SpliceRange
<1> HIDE DEF items, size
<1>6. DOMAIN r.items = 1 .. Len(q.items) + size
  BY <1>3, <1>4
<1>7. \A n \in 1 .. Len(q.items) : n < row => r.items[n] = q.items[n]
  <2> SUFFICES ASSUME NEW n \in 1 .. Len(q.items), n < row PROVE r.items[n] = q.items[n]
    OBVIOUS
  <2>1. n \in 1 .. Len(q.items) + size
    BY <1>1
  <2> QED
    BY <1>3, <1>4, <2>1
<1>8. \A n \in 1 .. Len(q.items) : n >= row => r.items[n + size] = q.items[n]
  <2> SUFFICES ASSUME NEW n \in 1 .. Len(q.items), n >= row PROVE r.items[n + size] = q.items[n]
    OBVIOUS
  <2>1. /\ n + size \in 1 .. Len(q.items) + size /\ ~(n + size < row) /\ ~(n + size < row + size)
        /\ (n + size) - size = n
    BY <1>1
  <2> QED
    BY <1>3, <1>4, <2>1
<1>9. \A n \in 1 .. size : r.items[row + n - 1].uid = q.next + n - 1
  <2> SUFFICES ASSUME NEW n \in 1 .. size PROVE r.items[row + n - 1].uid = q.next + n - 1
    OBVIOUS
  <2>1. /\ row + n - 1 \in 1 .. Len(q.items) + size /\ ~(row + n - 1 < row) /\ row + n - 1 < row + size
        /\ (row + n - 1) - row + 1 = n
    BY <1>1
  <2>2. r.items[row + n - 1] = new[n]
    BY <1>3, <1>4, <2>1
  <2> QED
    BY <1>2, <2>2
<1>10. ASSUME NEW u PROVE HasUid(r.items, u) <=> HasUid(q.items, u) \/ u \in q.next .. q.next + size - 1
  <2>1. HasUid(r.items, u) <=> HasUid(q.items, u) \/ HasUid(new, u)
    BY <1>3, <1>5 DEF HasUid
  <2>2. HasUid(new, u) <=> \E n \in 1 .. size : new[n].uid = u
    BY <1>2 DEF HasUid, Range
  <2>3. (\E n \in 1 .. size : new[n].uid = u) => u \in q.next .. q.next + size - 1
    BY <1>1, <1>2
  <2>4. u \in q.next .. q.next + size - 1 => \E n \in 1 .. size : new[n].uid = u
    <3> SUFFICES ASSUME u \in q.next .. q.next + size - 1 PROVE \E n \in 1 .. size : new[n].uid = u
      OBVIOUS
    <3>1. q.next \in Nat /\ size \in Nat /\ u \in Int /\ q.next <= u /\ u <= q.next + size - 1
      BY <1>1
    <3> HIDE DEF size
    <3>2. PICK n \in Int : u = q.next + n - 1
      <4>1. u - q.next + 1 \in Int /\ u = q.next + (u - q.next + 1) - 1
        BY <3>1
      <4> QED
        BY <4>1
    <3>3. n \in 1 .. size
      BY <3>1, <3>2
    <3> QED
      BY <1>2, <3>2, <3>3
  <2> QED
    BY <2>1, <2>2, <2>3, <2>4
<1> QED
  BY <1>3, <1>6, <1>7, <1>8, <1>9, <1>10 DEF r, size

LEMMA ConcatFacts ==
    ASSUME NEW S, NEW s \in Seq(S), NEW t \in Seq(S)
    PROVE  /\ DOMAIN (s \o t) = 1 .. Len(s) + Len(t)
           /\ \A n \in 1 .. Len(s) : (s \o t)[n] = s[n]
           /\ \A n \in 1 .. Len(t) : (s \o t)[n + Len(s)] = t[n]
           /\ Range(s \o t) = Range(s) \cup Range(t)
<1>1. /\ DOMAIN s = 1 .. Len(s) /\ DOMAIN t = 1 .. Len(t) /\ Len(s) \in Nat /\ Len(t) \in Nat
      /\ DOMAIN (s \o t) = 1 .. Len(s) + Len(t)
  OBVIOUS
<1>2. (\A n \in 1 .. Len(s) : (s \o t)[n] = s[n]) /\ (\A n \in 1 .. Len(t) : (s \o t)[n + Len(s)] = t[n])
  BY <1>1
<1> DEFINE r == s \o t
           i == Len(s)
           j == Len(t)
<1>3. /\ DOMAIN r = 1 .. i + j /\ i \in Nat /\ j \in Nat /\ DOMAIN s = 1 .. i /\ DOMAIN t = 1 .. j
      /\ \A n \in 1 .. i : r[n] = s[n]
      /\ \A n \in 1 .. j : r[n + i] = t[n]
  BY <1>1, <1>2
<1> HIDE DEF r, i, j
<1>4. ASSUME NEW n \in 1 .. i + j PROVE r[n] \in Range(s) \cup Range(t)
  <2>1. CASE n <= i
    <3>1. n \in 1 .. i
      BY <1>3, <2>1
    <3>2. r[n] = s[n] /\ n \in DOMAIN s
      BY <1>3, <3>1
    <3> QED
      BY <3>2 DEF Range
  <2>2. CASE ~(n <= i)
    <3>1. n - i \in 1 .. j /\ (n - i) + i = n
      BY <1>3, <2>2
    <3>2. r[n] = t[n - i] /\ n - i \in DOMAIN t
      BY <1>3, <3>1
    <3> QED
      BY <3>2 DEF Range
  <2> QED
    BY <2>1, <2>2
<1>5. (\A n \in 1 .. i : n \in 1 .. i + j) /\ (\A n \in 1 .. j : n + i \in 1 .. i + j)
  BY <1>3
<1>6. Range(r) = Range(s) \cup Range(t)
  <2>1. Range(r) \subseteq Range(s) \cup Range(t)
    BY <1>3, <1>4 DEF Range
  <2>2. ASSUME NEW n \in 1 .. i PROVE s[n] \in Range(r)
    BY <1>3, <1>5 DEF Range
  <2>3. ASSUME NEW n \in 1 .. j PROVE t[n] \in Range(r)
    <3>1. n + i \in DOMAIN r /\ r[n + i] = t[n]
      BY <1>3, <1>5
    <3> QED
      BY <3>1 DEF Range
  <2>4. Range(s) \subseteq Range(r) /\ Range(t) \subseteq Range(r)
    BY <1>3, <2>2, <2>3 DEF Range
  <2> QED
    BY <2>1, <2>4
<1> QED
  BY <1>1, <1>2, <1>6 DEF r

\* Where the new songs stand among the others: in their order, each of the
\* others before all of them or after all of them.
Placed(q, r, new, front) ==
    /\ \A m, n \in new : m < n => Comes(r, m, n)
    /\ \A u \in Ahead(q) : (\A n \in new : Comes(r, u, n)) \/ (\A n \in new : Comes(r, n, u))
    /\ front => \A u \in Ahead(q), n \in new : Comes(r, n, u)

LEMMA InsertedUnshuffled ==
    ASSUME NEW q, GoodQueue(q), q.current > 0, NEW tracks \in Seq(Track),
           NEW row \in q.current + 1 .. Len(q.items) + 1, q.order = <<>>
    PROVE  Placed(q, Inserted(q, row, tracks), q.next .. q.next + Len(tracks) - 1, row = q.current + 1)
<1> DEFINE r     == Inserted(q, row, tracks)
           size  == Len(tracks)
           rows  == Len(q.items)
           first == q.next
           new   == first .. first + size - 1
           spot(n) == row + (n - first)
<1>1. /\ rows \in Nat /\ q.current \in 1 .. rows /\ first \in Nat /\ size \in Nat
      /\ row \in Int /\ q.current + 1 <= row /\ row <= rows + 1
  BY GoodParts
<1>2. Upcoming(q) = q.current + 1 .. rows
  BY OneRow
<1>3. /\ DOMAIN r.items = 1 .. rows + size
      /\ \A n \in 1 .. rows : n < row => r.items[n] = q.items[n]
      /\ \A n \in 1 .. rows : n >= row => r.items[n + size] = q.items[n]
      /\ \A n \in 1 .. size : r.items[row + n - 1].uid = first + n - 1
  BY InsertedRows
<1>4. r.order = <<>>
  BY DEF Inserted, InsertedOrder
<1>5. \A u, v : ShownBefore(r, u, v) => Comes(r, u, v)
  BY <1>4 DEF Comes, Knows
<1> HIDE DEF r, size, rows, first
<1>6. ASSUME NEW n \in new PROVE n \in Int /\ spot(n) \in DOMAIN r.items /\ spot(n) >= row /\ spot(n) < row + size
                                 /\ r.items[spot(n)].uid = n
  <2>1. n \in Int /\ first <= n /\ n <= first + size - 1
    BY <1>1
  <2>2. n - first + 1 \in 1 .. size /\ row + (n - first + 1) - 1 = spot(n) /\ first + (n - first + 1) - 1 = n
    BY <1>1, <2>1
  <2>3. spot(n) \in 1 .. rows + size /\ spot(n) >= row /\ spot(n) < row + size
    BY <1>1, <2>1
  <2>4. r.items[row + (n - first + 1) - 1].uid = first + (n - first + 1) - 1
    BY <1>3, <2>2
  <2> QED
    BY <1>3, <2>1, <2>2, <2>3, <2>4
<1>7. ASSUME NEW m \in new, NEW n \in new, m < n PROVE spot(m) < spot(n)
  BY <1>1, <1>7
<1> HIDE DEF spot
<1>8. \A m, n \in new : m < n => ShownBefore(r, m, n)
  BY <1>6, <1>7 DEF ShownBefore
<1>9. ASSUME NEW u \in Ahead(q)
      PROVE  /\ (\A n \in new : ShownBefore(r, u, n)) \/ (\A n \in new : ShownBefore(r, n, u))
             /\ row = q.current + 1 => \A n \in new : ShownBefore(r, n, u)
  <2>1. PICK m \in q.current + 1 .. rows : q.items[m].uid = u
    BY <1>2 DEF Ahead
  <2>2. m \in 1 .. rows /\ m \in Int /\ m > q.current
    BY <1>1
  <2>3. CASE m < row
    <3>1. m \in DOMAIN r.items /\ r.items[m].uid = u
      BY <1>1, <1>3, <2>1, <2>2, <2>3
    <3>2. ASSUME NEW n \in new PROVE m < spot(n)
      <4>1. spot(n) \in Int /\ spot(n) >= row
        BY <1>3, <1>6
      <4> QED
        BY <1>1, <2>2, <2>3, <4>1
    <3>3. \A n \in new : ShownBefore(r, u, n)
      BY <1>6, <3>1, <3>2 DEF ShownBefore
    <3>4. row # q.current + 1
      BY <1>1, <2>2, <2>3
    <3> QED
      BY <3>3, <3>4
  <2>4. CASE m >= row
    <3>1. m + size \in DOMAIN r.items /\ r.items[m + size].uid = u
      BY <1>1, <1>3, <2>1, <2>2, <2>4
    <3>2. ASSUME NEW n \in new PROVE spot(n) < m + size
      <4>1. spot(n) \in Int /\ spot(n) < row + size
        BY <1>3, <1>6
      <4> QED
        BY <1>1, <2>2, <2>4, <4>1
    <3>3. \A n \in new : ShownBefore(r, n, u)
      BY <1>6, <3>1, <3>2 DEF ShownBefore
    <3> QED
      BY <3>3
  <2> QED
    BY <1>1, <2>2, <2>3, <2>4
<1>10. Placed(q, r, new, row = q.current + 1)
  <2> HIDE DEF new
  <2> QED
    BY <1>5, <1>8, <1>9 DEF Placed
<1> QED
  BY <1>10 DEF r, size, first

\* The uids given to new songs, none of which is in the order yet.
LEMMA NewUids ==
    ASSUME NEW q, GoodQueue(q), NEW tracks \in Seq(Track)
    PROVE  LET uids == Uids(Stamp(tracks, q.next))
               new  == q.next .. q.next + Len(tracks) - 1
           IN  /\ uids \in Seq(Nat) /\ DOMAIN uids = 1 .. Len(tracks) /\ Len(uids) = Len(tracks)
               /\ \A n \in 1 .. Len(tracks) : uids[n] = q.next + n - 1
               /\ Range(uids) = new
               /\ Range(q.order) \cap new = {}
               /\ Ahead(q) \cap new = {}
<1> DEFINE uids  == Uids(Stamp(tracks, q.next))
           size  == Len(tracks)
           first == q.next
           new   == first .. first + size - 1
<1>1. first \in Nat \ {0} /\ size \in Nat
  BY GoodParts
<1>2. /\ Stamp(tracks, first) \in Seq(Track) /\ Len(Stamp(tracks, first)) = size
      /\ \A n \in 1 .. size : Stamp(tracks, first)[n].uid = first + n - 1
  BY <1>1, StampFacts
<1>3. uids = [n \in 1 .. size |-> Stamp(tracks, first)[n].uid]
  BY <1>2 DEF Uids
<1>4. \A uid : HasUid(q.items, uid) => uid \in 1 .. first - 1
  BY OneRow DEF HasUid, Range
<1>5. \A uid \in Range(q.order) : HasUid(q.items, uid)
  BY GoodParts
<1>6. \A u \in Ahead(q) : HasUid(q.items, u)
  BY AheadIs
<1> HIDE DEF uids, size, first
<1>7. \A n \in 1 .. size : first + n - 1 \in Nat /\ first + n - 1 \in new
  BY <1>1
<1>8. uids \in Seq(Nat) /\ DOMAIN uids = 1 .. size /\ Len(uids) = size
      /\ \A n \in 1 .. size : uids[n] = first + n - 1
  BY <1>1, <1>2, <1>3, <1>7
<1>9. \A n \in new : n - first + 1 \in 1 .. size /\ first + (n - first + 1) - 1 = n
  BY <1>1
<1>10. \A n \in 1 .. first - 1 : n \notin new
  BY <1>1
<1> HIDE DEF new
<1>11. Range(uids) = new
  BY <1>7, <1>8, <1>9 DEF Range
<1>12. Range(q.order) \cap new = {} /\ Ahead(q) \cap new = {}
  BY <1>4, <1>5, <1>6, <1>10
<1> QED
  BY <1>8, <1>11, <1>12 DEF uids, size, first, new

LEMMA InsertedShuffled ==
    ASSUME NEW q, GoodQueue(q), NEW tracks \in Seq(Track), NEW row, q.order # <<>>
    PROVE  Placed(q, Inserted(q, row, tracks), q.next .. q.next + Len(tracks) - 1, row = q.current + 1)
<1> DEFINE r     == Inserted(q, row, tracks)
           size  == Len(tracks)
           known == Len(q.order)
           first == q.next
           new   == first .. first + size - 1
           uids  == Uids(Stamp(tracks, q.next))
           order == q.order
           front == row = q.current + 1
           spot(n) == n - first + 1 + (IF front THEN 0 ELSE known)
           on(n) == n + (IF front THEN size ELSE 0)
<1>1. first \in Nat \ {0} /\ size \in Nat /\ known \in Nat /\ order \in Seq(Nat) /\ DOMAIN order = 1 .. known
  BY GoodParts
<1>2. /\ uids \in Seq(Nat) /\ DOMAIN uids = 1 .. size /\ Len(uids) = size
      /\ \A n \in 1 .. size : uids[n] = first + n - 1
      /\ Range(uids) = new
      /\ Range(order) \cap new = {}
      /\ Ahead(q) \cap new = {}
  BY NewUids
<1>3. r.order = IF front THEN uids \o order ELSE order \o uids
  BY DEF Inserted, InsertedOrder
<1> HIDE DEF r, size, known, first, uids, front, order
<1>a. order \in Seq(Nat) /\ Len(order) = known
  BY <1>1 DEF known, order
<1>b. /\ DOMAIN (uids \o order) = 1 .. size + known
      /\ \A n \in 1 .. size : (uids \o order)[n] = uids[n]
      /\ \A n \in 1 .. known : (uids \o order)[n + size] = order[n]
      /\ Range(uids \o order) = Range(uids) \cup Range(order)
  <2>0. uids \in Seq(Nat) /\ order \in Seq(Nat)
    BY <1>2, <1>a
  <2>1. DOMAIN (uids \o order) = 1 .. Len(uids) + Len(order)
    BY <2>0, ConcatFacts
  <2>2. \A n \in 1 .. Len(uids) : (uids \o order)[n] = uids[n]
    BY <2>0, ConcatFacts
  <2>3. \A n \in 1 .. Len(order) : (uids \o order)[n + Len(uids)] = order[n]
    BY <2>0, ConcatFacts
  <2>4. Range(uids \o order) = Range(uids) \cup Range(order)
    BY <2>0, ConcatFacts
  <2> QED
    BY <1>2, <1>a, <2>1, <2>2, <2>3, <2>4
<1>c. /\ DOMAIN (order \o uids) = 1 .. known + size
      /\ \A n \in 1 .. known : (order \o uids)[n] = order[n]
      /\ \A n \in 1 .. size : (order \o uids)[n + known] = uids[n]
      /\ Range(order \o uids) = Range(order) \cup Range(uids)
  <2>0. uids \in Seq(Nat) /\ order \in Seq(Nat)
    BY <1>2, <1>a
  <2>1. DOMAIN (order \o uids) = 1 .. Len(order) + Len(uids)
    BY <2>0, ConcatFacts
  <2>2. \A n \in 1 .. Len(order) : (order \o uids)[n] = order[n]
    BY <2>0, ConcatFacts
  <2>3. \A n \in 1 .. Len(uids) : (order \o uids)[n + Len(order)] = uids[n]
    BY <2>0, ConcatFacts
  <2>4. Range(order \o uids) = Range(order) \cup Range(uids)
    BY <2>0, ConcatFacts
  <2> QED
    BY <1>2, <1>a, <2>1, <2>2, <2>3, <2>4
<1>d. known + size = size + known
  BY <1>1
<1>4. /\ DOMAIN r.order = 1 .. size + known
      /\ Range(r.order) = new \cup Range(order)
  BY <1>2, <1>3, <1>b, <1>c, <1>d
<1>5. /\ front => \A n \in 1 .. size : r.order[n] = uids[n]
      /\ front => \A n \in 1 .. known : r.order[n + size] = order[n]
      /\ ~front => \A n \in 1 .. size : r.order[n + known] = uids[n]
      /\ ~front => \A n \in 1 .. known : r.order[n] = order[n]
  BY <1>3, <1>b, <1>c
<1>6. ASSUME NEW n \in new PROVE n \in Int /\ spot(n) \in DOMAIN r.order /\ r.order[spot(n)] = n
  <2>1. n \in Int /\ n - first + 1 \in 1 .. size /\ first + (n - first + 1) - 1 = n
    BY <1>1
  <2>2. uids[n - first + 1] = n
    BY <1>2, <2>1
  <2>3. CASE front
    <3>1. spot(n) = n - first + 1 /\ n - first + 1 \in 1 .. size + known
      BY <1>1, <2>1, <2>3
    <3> HIDE DEF spot
    <3> QED
      BY <1>4, <1>5, <2>1, <2>2, <2>3, <3>1
  <2>4. CASE ~front
    <3>1. spot(n) = n - first + 1 + known /\ n - first + 1 + known \in 1 .. size + known
      BY <1>1, <2>1, <2>4
    <3> HIDE DEF spot
    <3> QED
      BY <1>4, <1>5, <2>1, <2>2, <2>4, <3>1
  <2> QED
    BY <2>3, <2>4
<1>7. ASSUME NEW n \in 1 .. known PROVE on(n) \in DOMAIN r.order /\ r.order[on(n)] = order[n]
  <2>1. CASE front
    <3>1. on(n) = n + size /\ n + size \in 1 .. size + known
      BY <1>1, <2>1
    <3> HIDE DEF on
    <3> QED
      BY <1>4, <1>5, <2>1, <3>1
  <2>2. CASE ~front
    <3>1. on(n) = n /\ n \in 1 .. size + known
      BY <1>1, <2>2
    <3> HIDE DEF on
    <3> QED
      BY <1>4, <1>5, <2>2, <3>1
  <2> QED
    BY <2>1, <2>2
<1>8. ASSUME NEW m \in new, NEW n \in new, m < n PROVE spot(m) < spot(n)
  BY <1>1, <1>8
<1>9. ASSUME NEW n \in new, NEW k \in 1 .. known PROVE IF front THEN spot(n) < on(k) ELSE on(k) < spot(n)
  BY <1>1
<1> HIDE DEF spot, on, new
<1>10. \A m, n \in new : m < n => Comes(r, m, n)
  BY <1>6, <1>8 DEF Comes, OrderedBefore
<1>11. ASSUME NEW u \in Ahead(q), ~Knows(q, u), NEW n \in new PROVE Comes(r, n, u)
  <2>1. Knows(r, n)
    BY <1>6 DEF Knows
  <2>2. u \notin Range(r.order)
    BY <1>2, <1>4, <1>11 DEF Knows, Range, order
  <2>3. ~Knows(r, u)
    BY <2>2 DEF Knows, Range
  <2> QED
    BY <2>1, <2>3 DEF Comes
<1>12. ASSUME NEW u \in Ahead(q), Knows(q, u), NEW n \in new
       PROVE  IF front THEN Comes(r, n, u) ELSE Comes(r, u, n)
  <2>1. PICK k \in 1 .. known : order[k] = u
    BY <1>1, <1>12 DEF Knows, order
  <2>2. on(k) \in DOMAIN r.order /\ r.order[on(k)] = u /\ spot(n) \in DOMAIN r.order /\ r.order[spot(n)] = n
    BY <1>6, <1>7, <2>1
  <2>3. IF front THEN spot(n) < on(k) ELSE on(k) < spot(n)
    BY <1>9
  <2> QED
    BY <2>2, <2>3 DEF Comes, OrderedBefore
<1>13. Placed(q, r, new, front)
  BY <1>10, <1>11, <1>12 DEF Placed
<1> QED
  BY <1>13 DEF r, new, size, first, front

\* insertTracks: the songs there keep their order, and the new ones go in
\* together, first when they are put in right behind the one playing.
LEMMA InsertedKeeps ==
    ASSUME NEW q, GoodQueue(q), q.current > 0, NEW tracks \in Seq(Track),
           NEW row \in q.current + 1 .. Len(q.items) + 1
    PROVE  LET r   == Inserted(q, row, tracks)
               new == q.next .. q.next + Len(tracks) - 1
           IN  /\ Ahead(r) = Ahead(q) \cup new
               /\ KeepsOrder(q, r, Ahead(q))
               /\ Placed(q, r, new, row = q.current + 1)
<1> DEFINE r     == Inserted(q, row, tracks)
           new   == q.next .. q.next + Len(tracks) - 1
           songs == Ahead(q)
           uids  == Uids(Stamp(tracks, q.next))
<1>1. /\ q.items \in Seq(Track) /\ Len(q.items) \in Nat /\ q.current \in 1 .. Len(q.items)
      /\ q.next \in Nat \ {0} /\ q.order \in Seq(Nat)
  BY GoodParts
<1>2. row \in 1 .. Len(q.items) + 1
  BY <1>1
<1>3. /\ r.current = q.current
      /\ \A n \in 1 .. Len(q.items) : n < row => r.items[n] = q.items[n]
      /\ \A u : HasUid(r.items, u) <=> HasUid(q.items, u) \/ u \in new
  BY InsertedRows
<1>4. GoodQueue(r)
  BY <1>2, InsertedGood
<1>5. r.items = Splice(q.items, row, Stamp(tracks, q.next)) /\ r.order = InsertedOrder(q, row, uids)
  BY DEF Inserted
<1>6. Stamp(tracks, q.next) \in Seq(Track)
  BY <1>1, StampFacts
<1>7. /\ uids \in Seq(Nat) /\ Range(uids) = new
      /\ Range(q.order) \cap new = {} /\ songs \cap new = {}
  BY NewUids
<1>8. Placed(q, r, new, row = q.current + 1)
  BY InsertedUnshuffled, InsertedShuffled
<1>9. \A n \in DOMAIN q.items : q.items[n].uid \in 1 .. q.next - 1
  BY OneRow
<1>10. \A n \in 1 .. q.current : n \in DOMAIN q.items /\ n \in 1 .. Len(q.items) /\ n < row
  BY <1>1
<1>11. \A n \in 1 .. q.next - 1 : n \notin new
  BY <1>1
<1> HIDE DEF r, uids, new
<1>12. ASSUME NEW u PROVE u \in Ahead(r) <=> u \in songs \/ u \in new
  <2>1. u \in Ahead(r) <=> HasUid(r.items, u) /\ \A n \in 1 .. r.current : r.items[n].uid # u
    BY <1>4, AheadIs
  <2>2. u \in songs <=> HasUid(q.items, u) /\ \A n \in 1 .. q.current : q.items[n].uid # u
    BY AheadIs
  <2>3. \A n \in 1 .. q.current : r.items[n] = q.items[n] /\ q.items[n].uid \notin new
    BY <1>3, <1>9, <1>10, <1>11
  <2> HIDE DEF songs
  <2> QED
    BY <1>3, <2>1, <2>2, <2>3
<1>13. q.order = <<>> => r.order = q.order
  BY <1>5 DEF InsertedOrder
<1>14. q.order # <<>> => r.order = uids \o q.order \/ r.order = q.order \o uids
  BY <1>5 DEF InsertedOrder
<1>15. Carried(q.items, r.items, {n \in DOMAIN q.items : q.items[n].uid \in songs})
  <2>1. Carried(q.items, r.items, DOMAIN q.items)
    BY <1>1, <1>2, <1>5, <1>6, CarriedBySplice
  <2> QED
    BY <2>1, CarriedLess
<1>16. Carried(q.order, r.order, {n \in DOMAIN q.order : q.order[n] \in songs})
  <2>1. Carried(q.order, r.order, DOMAIN q.order)
    BY <1>1, <1>7, <1>13, <1>14, CarriedSelf, CarriedByFront
  <2> QED
    BY <2>1, CarriedLess
<1>17. ASSUME NEW u \in songs, Knows(r, u) PROVE Knows(q, u)
  <2>1. Range(r.order) \subseteq Range(q.order) \cup new
    <3>1. Range(uids \o q.order) = Range(uids) \cup Range(q.order)
      BY <1>1, <1>7, ConcatFacts
    <3>2. Range(q.order \o uids) = Range(q.order) \cup Range(uids)
      BY <1>1, <1>7, ConcatFacts
    <3> QED
      BY <1>7, <1>13, <1>14, <3>1, <3>2
  <2>2. u \in Range(r.order)
    BY <1>17 DEF Knows, Range
  <2>3. u \in Range(q.order)
    BY <1>7, <2>1, <2>2
  <2> QED
    BY <2>3 DEF Knows, Range
<1> HIDE DEF songs
<1>18. KeepsOrder(q, r, songs)
  BY <1>4, <1>15, <1>16, <1>17, CarriedKeeps
<1>19. Ahead(r) = songs \cup new
  BY <1>12
<1> QED
  BY <1>8, <1>18, <1>19 DEF r, new, songs

\* A list that is played holds new songs only, shuffled or not.
LEMMA StartedAnew ==
    ASSUME NEW q \in Queue, NEW tracks \in Seq(Track), tracks # <<>>, NEW start \in Nat,
           NEW r \in Shuffled(Replaced(q, tracks, start)) \cup {Replaced(q, tracks, start)}, GoodQueue(r)
    PROVE  /\ r.next = q.next + Len(tracks) /\ r.next > q.next
           /\ CurrentUid(r) \in q.next .. r.next - 1
           /\ Ahead(r) \subseteq (q.next .. r.next - 1) \ {CurrentUid(r)}
<1> DEFINE fresh == Replaced(q, tracks, start)
           new   == q.next .. q.next + Len(tracks) - 1
<1>1. q.next \in Nat \ {0} /\ Len(tracks) \in Nat \ {0}
  <2>1. Len(tracks) # 0
    BY EmptySeq
  <2> QED
    BY <2>1 DEF Queue
<1>2. fresh.items = Stamp(tracks, q.next) /\ fresh.next = q.next + Len(tracks)
  BY DEF Replaced
<1>3. \A song \in Range(fresh.items) : song.uid \in new
  BY <1>1, <1>2, StampFacts
<1>4. GoodQueue(fresh)
  BY ReplacedGood
<1>5. Len(fresh.items) = Len(tracks)
  BY <1>1, <1>2, StampFacts
<1> HIDE DEF fresh
<1>6. r.next = fresh.next /\ Range(r.items) = Range(fresh.items) /\ Len(r.items) = Len(tracks)
  <2>1. CASE r = fresh
    BY <1>5, <2>1
  <2>2. ASSUME NEW p \in Bijection(Upcoming(fresh), Upcoming(fresh)),
               r = Rearranged(fresh, Arranged(fresh, p), fresh.current, UpcomingUids(fresh))
        PROVE  r.next = fresh.next /\ Range(r.items) = Range(fresh.items) /\ Len(r.items) = Len(tracks)
    <3>1. r.next = fresh.next /\ r.items = Arranged(fresh, p)
      BY <2>2 DEF Rearranged
    <3>2. Range(Arranged(fresh, p)) = Range(fresh.items) /\ Len(Arranged(fresh, p)) = Len(fresh.items)
      BY <1>4, ArrangedFacts
    <3> QED
      BY <1>5, <3>1, <3>2
  <2>3. r \in Shuffled(fresh) \cup {fresh}
    BY DEF fresh
  <2> QED
    BY <2>1, <2>2, <2>3 DEF Shuffled
<1>7. /\ r.current \in 1 .. Len(r.items) /\ DOMAIN r.items = 1 .. Len(r.items)
      /\ Upcoming(r) = r.current + 1 .. Len(r.items)
      /\ \A m, n \in DOMAIN r.items : r.items[m].uid = r.items[n].uid => m = n
  BY <1>1, <1>6, GoodParts, OneRow
<1>8. \A n \in DOMAIN r.items : r.items[n].uid \in new
  BY <1>3, <1>6 DEF Range
<1>9. CurrentUid(r) = r.items[r.current].uid
  BY <1>7 DEF CurrentUid
<1>10. \A n \in Upcoming(r) : n \in DOMAIN r.items /\ n # r.current
  BY <1>1, <1>6, <1>7
<1>11. CurrentUid(r) \in new /\ Ahead(r) \subseteq new \ {CurrentUid(r)}
  BY <1>7, <1>8, <1>9, <1>10 DEF Ahead
<1>12. r.next = q.next + Len(tracks) /\ r.next > q.next
  BY <1>1, <1>2, <1>6
<1>13. q.next .. r.next - 1 = new
  <2>1. r.next - 1 = q.next + Len(tracks) - 1
    BY <1>1, <1>12
  <2> QED
    BY <2>1
<1> HIDE DEF new
<1> QED
  BY <1>11, <1>12, <1>13

-----------------------------------------------------------------------------
(* Each action of PlayQueue is a step of PlayOrder, or none *)

\* startQueue, however the list reached it.
LEMMA StartStep ==
    ASSUME IInv, IInv', NEW tracks \in Seq(Track), NEW start \in 1 .. Len(tracks), StartQueue(tracks, start)
    PROVE  Order!Start
<1>1. queue \in Queue /\ GoodQueue(queue') /\ tracks # <<>> /\ start \in Nat
  BY DEF IInv, Standing, GoodQueue, StartQueue
<1>2. PICK some \in Seq(Track), first \in Nat :
         /\ some # <<>>
         /\ queue' \in Shuffled(Replaced(queue, some, first)) \cup {Replaced(queue, some, first)}
         /\ track' = CurrentUid(queue')
  <2>1. CASE shuffle
    <3> DEFINE picked == PickedFirst(tracks, start)
    <3>1. queue' \in Shuffled(Replaced(queue, picked, 1)) /\ track' = CurrentUid(queue')
      BY <2>1 DEF StartQueue, Begin
    <3>2. picked \in Seq(Track)
      BY PickedFirstTracks
    <3>3. picked # <<>>
      <4> DEFINE head == <<tracks[start]>>
                 rest == RemoveAt(tracks, start)
      <4>1. head \in Seq(Track) /\ Len(head) = 1
        OBVIOUS
      <4>2. rest \in Seq(Track)
        BY CutFacts
      <4> HIDE DEF head, rest
      <4>3. Len(head \o rest) = Len(head) + Len(rest) /\ Len(rest) \in Nat
        <5>1. Len(rest) \in Nat
          BY <4>2
        <5>2. Len(head \o rest) = Len(head) + Len(rest)
          BY <4>1, <4>2, ConcatProperties
        <5> QED
          BY <5>1, <5>2
      <4>4. Len(head \o rest) # 0
        BY <4>1, <4>3
      <4> QED
        BY <4>4 DEF PickedFirst, head, rest
    <3> QED
      BY <3>1, <3>2, <3>3
  <2>2. CASE ~shuffle
    BY <1>1, <2>2 DEF StartQueue, Begin
  <2> QED
    BY <2>1, <2>2
<1>3. /\ queue'.next > queue.next
      /\ CurrentUid(queue') \in queue.next .. queue'.next - 1
      /\ Ahead(queue') \subseteq (queue.next .. queue'.next - 1) \ {CurrentUid(queue')}
  BY <1>1, <1>2, StartedAnew
<1>4. queue.next \in Nat \ {0} /\ queue'.next \in Nat \ {0}
  BY <1>1, GoodParts DEF Queue
<1>5. queue.next - 1 + 1 = queue.next /\ queue'.next - 1 > queue.next - 1
  BY <1>3, <1>4
<1> QED
  BY <1>2, <1>3, <1>5 DEF Order!Start

\* playIndex.
LEMMA ListenStep ==
    ASSUME IInv, IInv', NEW row \in DOMAIN queue.items, GoTo(row)
    PROVE  Order!Listen \/ UNCHANGED <<queue, track>>
<1>1. /\ GoodQueue(queue) /\ queue.items \in Seq(Track) /\ row \in 1 .. Len(queue.items)
      /\ queue.current \in 1 .. Len(queue.items) /\ track = CurrentUid(queue)
  BY GoodParts DEF IInv, Standing
<1>2. queue' = WithCurrent(queue, row) /\ track' = CurrentUid(queue')
  BY DEF GoTo, Begin
<1>3. queue'.next = queue.next
  BY <1>2 DEF WithCurrent, Rearranged
<1>4. /\ KeepsOrder(queue, queue', Ahead(queue))
      /\ track' \in 1 .. queue.next - 1 /\ track' \notin Ahead(queue')
      /\ row > queue.current => track' \in Ahead(queue) /\ Ahead(queue') \subseteq Ahead(queue)
      /\ row < queue.current => Ahead(queue) \cup {track} \subseteq Ahead(queue')
      /\ row = queue.current => queue' = queue
      /\ Ahead(queue') \subseteq 1 .. queue.next - 1
  BY <1>1, <1>2, WithCurrentKeeps
<1>5. track # 0
  <2>1. queue.items[queue.current].uid \in 1 .. queue.next - 1
    BY <1>1, OneRow
  <2> QED
    BY <1>1, <2>1 DEF CurrentUid
<1>6. row > queue.current \/ row < queue.current \/ row = queue.current
  BY <1>1
<1>7. Order!Keeps(Ahead(queue))
  BY <1>4 DEF Order!Keeps, KeepsOrder
<1>8. row = queue.current => UNCHANGED <<queue, track>>
  BY <1>1, <1>2, <1>4
<1> QED
  BY <1>3, <1>4, <1>5, <1>6, <1>7, <1>8 DEF Order!Listen

\* insertTracks behind a song that is playing: playNext, addAllToQueue and the
\* radio's answer.
LEMMA QueueStep ==
    ASSUME IInv, IInv', NEW tracks \in Seq(Track), tracks # <<>>, Count(queue) # 0,
           NEW row \in queue.current + 1 .. Len(queue.items) + 1,
           queue' = Inserted(queue, row, tracks), track' = track
    PROVE  Order!Queue
<1> DEFINE new == queue.next .. queue'.next - 1
<1>1. /\ GoodQueue(queue) /\ queue.current \in 1 .. Len(queue.items) /\ queue.next \in Nat \ {0}
      /\ Len(tracks) \in Nat \ {0} /\ track = CurrentUid(queue) /\ GoodQueue(queue')
  <2>1. Len(tracks) # 0
    BY EmptySeq
  <2> QED
    BY <2>1, GoodParts DEF IInv, Standing, Count
<1>2. queue'.next = queue.next + Len(tracks)
  BY DEF Inserted
<1>3. /\ Ahead(queue') = Ahead(queue) \cup new
      /\ KeepsOrder(queue, queue', Ahead(queue))
      /\ Placed(queue, queue', new, row = queue.current + 1)
  BY <1>1, <1>2, InsertedKeeps
<1>4. track # 0
  <2>1. queue.items[queue.current].uid \in 1 .. queue.next - 1
    BY <1>1, OneRow
  <2> QED
    BY <1>1, <2>1 DEF CurrentUid
<1>5. queue.next - 1 + 1 = queue.next /\ queue'.next - 1 > queue.next - 1
  BY <1>1, <1>2
<1>6. Order!Keeps(Ahead(queue))
  BY <1>3 DEF Order!Keeps, KeepsOrder
<1>7. \A u, v \in Ahead(queue') : <<u, v>> \in PlaysBefore(queue') <=> Comes(queue', u, v)
  BY <1>1, PlaysBeforeIs
<1> HIDE DEF new
<1>8. \A m, n \in new : m < n => <<m, n>> \in PlaysBefore(queue')
  BY <1>3, <1>7 DEF Placed
<1>9. ASSUME NEW u \in Ahead(queue)
      PROVE  ({u} \X new) \subseteq PlaysBefore(queue') \/ (new \X {u}) \subseteq PlaysBefore(queue')
  <2>1. CASE \A n \in new : Comes(queue', u, n)
    <3>1. \A n \in new : <<u, n>> \in PlaysBefore(queue')
      BY <1>3, <1>7, <2>1
    <3> QED
      BY <3>1
  <2>2. CASE \A n \in new : Comes(queue', n, u)
    <3>1. \A n \in new : <<n, u>> \in PlaysBefore(queue')
      BY <1>3, <1>7, <2>2
    <3> QED
      BY <3>1
  <2> QED
    BY <1>3, <2>1, <2>2 DEF Placed
<1>10. queue.next - 1 + 1 .. queue'.next - 1 = new
  BY <1>5 DEF new
<1> QED
  BY <1>3, <1>4, <1>5, <1>6, <1>8, <1>9, <1>10 DEF Order!Queue

\* Songs taken out, by the listener or as not interesting, or all of them.
LEMMA DropStep ==
    ASSUME queue'.next = queue.next, track' = track, Ahead(queue') \subseteq Ahead(queue),
           KeepsOrder(queue, queue', Ahead(queue'))
    PROVE  Order!Drop
<1>1. Order!Keeps(Ahead(queue))
  BY DEF Order!Keeps, KeepsOrder
<1> QED
  BY <1>1 DEF Order!Drop

\* moveInQueue moves one song, and the others not past each other.
LEMMA MoveStep ==
    ASSUME IInv, NEW from, NEW to, MoveInQueue(from, to)
    PROVE  /\ from \in DOMAIN queue.items /\ to \in DOMAIN queue.items
           /\ queue.items[from].uid \in Ahead(queue)
           /\ track' = track /\ queue'.next = queue.next /\ Ahead(queue') = Ahead(queue)
           /\ KeepsOrder(queue, queue', Ahead(queue) \ {queue.items[from].uid})
<1>1. GoodQueue(queue) /\ from \in Upcoming(queue) /\ to \in Upcoming(queue)
      /\ queue' = Moved(queue, from, to) /\ track' = track
  BY DEF IInv, Standing, MoveInQueue
<1>2. queue'.next = queue.next
  BY <1>1 DEF Moved, Rearranged
<1>3. from \in DOMAIN queue.items /\ to \in DOMAIN queue.items
  BY <1>1, OneRow
<1>4. queue.items[from].uid \in Ahead(queue)
  BY <1>1 DEF Ahead
<1>5. Ahead(queue') = Ahead(queue) /\ KeepsOrder(queue, queue', Ahead(queue) \ {queue.items[from].uid})
  BY <1>1, MovedKeeps
<1> QED
  BY <1>1, <1>2, <1>3, <1>4, <1>5

Asked == \E from, to \in DOMAIN queue.items : MoveInQueue(from, to)

LEMMA Steps ==
    ASSUME IInv, IInv', Next
    PROVE  Order!Start \/ Order!Listen \/ Order!Queue \/ Order!Drop \/ Asked \/ UNCHANGED Order!vars
<1> DEFINE Step == Order!Start \/ Order!Listen \/ Order!Queue \/ Order!Drop \/ Asked \/ UNCHANGED Order!vars
<1> USE PlayQueueAssumption, NoVideoAssumption
<1>g. GoodQueue(queue) /\ (shuffle \/ queue.order = <<>>)
  BY DEF IInv, Standing, OrderIfShuffled
<1>n. Count(queue) = Len(queue.items) /\ Len(queue.items) \in Nat /\ queue.current \in 0 .. Len(queue.items)
      /\ DOMAIN queue.items = 1 .. Len(queue.items) /\ queue.items \in Seq(Track)
  BY <1>g, GoodParts DEF Count
<1>l. \A list \in Lists : list \in Seq(Videos \cup {NoVideo}) /\ list # <<>> /\ Chosen(list) \in Seq(Track)
                             /\ Len(Chosen(list)) = Len(list)
  BY ChosenTracks
<1>e. \A list \in Lists \cup RadioLists : list # <<>>
  OBVIOUS
<1>1. ASSUME NEW list \in Lists, NEW start \in DOMAIN list, PlayTracks(list, start)
      PROVE  Order!Start
  BY <1>1, <1>l, StartStep DEF PlayTracks
<1>2. ASSUME NEW row \in DOMAIN queue.items, GoTo(row)
      PROVE  Order!Listen \/ UNCHANGED Order!vars
  BY <1>2, ListenStep DEF Order!vars
<1>3. ASSUME NEW video \in Videos \cup {NoVideo}, PlayNext(video)
      PROVE  Order!Start \/ Order!Queue
  <2>1. Chosen(<<video>>) \in Seq(Track) /\ Len(Chosen(<<video>>)) = 1
    <3> DEFINE list == <<video>>
    <3>1. list \in Seq(Videos \cup {NoVideo}) /\ Len(list) = 1
      OBVIOUS
    <3> HIDE DEF list
    <3> QED
      BY <3>1, ChosenTracks DEF list
  <2>2. CASE Count(queue) = 0
    <3>1. 1 \in 1 .. Len(Chosen(<<video>>))
      BY <2>1
    <3> QED
      BY <1>3, <2>1, <2>2, <3>1, StartStep DEF PlayNext
  <2>3. CASE Count(queue) # 0
    <3>1. queue' = Inserted(queue, queue.current + 1, Chosen(<<video>>)) /\ track' = track
      BY <1>3, <2>3 DEF PlayNext
    <3>2. queue.current + 1 \in queue.current + 1 .. Len(queue.items) + 1
      BY <1>n
    <3>3. Chosen(<<video>>) # <<>>
      BY <2>1
    <3> QED
      BY <2>1, <2>3, <3>1, <3>2, <3>3, QueueStep
  <2> QED
    BY <2>2, <2>3
<1>4. ASSUME NEW list \in Lists, AddAllToQueue(list)
      PROVE  Order!Start \/ Order!Queue
  <2>1. Chosen(list) \in Seq(Track) /\ 1 \in 1 .. Len(Chosen(list)) /\ Chosen(list) # <<>>
    <3>1. list \in Seq(Videos \cup {NoVideo}) /\ list # <<>> /\ Len(Chosen(list)) = Len(list)
      BY <1>l
    <3>2. Len(list) \in Nat /\ Len(list) # 0
      BY <3>1
    <3>3. Chosen(list) \in Seq(Track)
      BY <1>l
    <3> QED
      BY <3>1, <3>2, <3>3
  <2>2. CASE Count(queue) = 0
    BY <1>4, <2>1, <2>2, StartStep DEF AddAllToQueue
  <2>3. CASE Count(queue) # 0
    <3> DEFINE row == IF RadioStart(queue) = 0 THEN Count(queue) + 1 ELSE RadioStart(queue)
    <3>1. queue' = Inserted(queue, row, Chosen(list)) /\ track' = track
      BY <1>4, <2>3 DEF AddAllToQueue
    <3>2. row \in queue.current + 1 .. Len(queue.items) + 1
      BY <1>g, <1>n, RadioStartIs DEF Upcoming
    <3> HIDE DEF row
    <3> QED
      BY <2>1, <2>3, <3>1, <3>2, QueueStep
  <2> QED
    BY <2>2, <2>3
<1>5. ASSUME NEW list \in RadioLists, RadioReady(list)
      PROVE  Order!Queue
  <2>1. list \in Seq(Videos \cup {NoVideo}) /\ list # <<>>
    BY <1>e
  <2>2. FromRadio(list) \in Seq(Track) /\ Len(FromRadio(list)) = Len(list)
    BY <2>1, ChosenTracks
  <2>3. FromRadio(list) # <<>>
    BY <2>1, <2>2
  <2>4. Count(queue) # 0 /\ queue' = Inserted(queue, Count(queue) + 1, FromRadio(list)) /\ track' = track
    BY <1>5, <1>n DEF RadioReady
  <2>5. Count(queue) + 1 \in queue.current + 1 .. Len(queue.items) + 1
    BY <1>n
  <2> QED
    BY <2>2, <2>3, <2>4, <2>5, QueueStep
<1>6. ASSUME NEW row \in DOMAIN queue.items, RemoveFromQueue(row)
      PROVE  Order!Drop
  <2>1. row \in 1 .. Len(queue.items) /\ row # queue.current /\ queue' = RemovedAt(queue, row) /\ track' = track
    BY <1>6, <1>n DEF RemoveFromQueue
  <2>2. queue'.next = queue.next
    BY <2>1 DEF RemovedAt, Rearranged
  <2>3. Ahead(queue') \subseteq Ahead(queue) /\ KeepsOrder(queue, queue', Ahead(queue'))
    BY <1>g, <2>1, RemovedAtKeeps
  <2> QED
    BY <2>1, <2>2, <2>3, DropStep
<1>7. ASSUME NEW unwanted, PruneRadio(unwanted)
      PROVE  Order!Drop
  <2> DEFINE rows == {n \in Upcoming(queue) : queue.items[n].radio /\ queue.items[n].video \in unwanted}
  <2>1. queue' \in RemovedRows(queue, rows) /\ track' = track
    BY <1>7 DEF PruneRadio
  <2>2. rows \in SUBSET Upcoming(queue)
    OBVIOUS
  <2> HIDE DEF rows
  <2>3. queue'.next = queue.next
    BY <2>1 DEF RemovedRows, Rearranged
  <2>4. Ahead(queue') \subseteq Ahead(queue) /\ KeepsOrder(queue, queue', Ahead(queue'))
    BY <1>g, <2>1, <2>2, RemovedRowsKeeps
  <2> QED
    BY <2>1, <2>3, <2>4, DropStep
<1>8. CASE ClearUpcoming
  <2>1. queue' = ClearedUpcoming(queue) /\ track' = track
    BY <1>8 DEF ClearUpcoming
  <2>2. queue'.next = queue.next
    BY <2>1 DEF ClearedUpcoming, Rearranged
  <2>3. Ahead(queue') \subseteq Ahead(queue) /\ KeepsOrder(queue, queue', Ahead(queue))
    BY <1>g, <2>1, ClearedKeeps
  <2>4. KeepsOrder(queue, queue', Ahead(queue'))
    BY <2>3 DEF KeepsOrder
  <2> QED
    BY <2>1, <2>2, <2>3, <2>4, DropStep
<1>9. ASSUME NEW on \in BOOLEAN, SetShuffle(on)
      PROVE  UNCHANGED Order!vars
  <2>1. queue' \in Shuffled(queue) \cup Restored(queue) /\ track' = track
    BY <1>9 DEF SetShuffle
  <2>2. queue'.next = queue.next
    BY <2>1 DEF Shuffled, Restored, Rearranged
  <2>3. Ahead(queue') = Ahead(queue) /\ PlaysBefore(queue') = PlaysBefore(queue)
    <3>1. CASE on = TRUE
      <4>1. queue' \in Shuffled(queue) /\ queue.order = <<>>
        BY <1>9, <1>g, <3>1 DEF SetShuffle
      <4> QED
        BY <1>g, <4>1, ShuffledKeeps
    <3>2. CASE on = FALSE
      <4>1. queue' \in Restored(queue)
        BY <1>9, <3>2 DEF SetShuffle
      <4> QED
        BY <1>g, <4>1, RestoredKeeps
    <3> QED
      BY <3>1, <3>2
  <2> QED
    BY <2>1, <2>2, <2>3 DEF Order!vars
<1>10. \A list \in Lists : Len(list) = 1 => list[1] \in Videos \cup {NoVideo}
  BY <1>l
<1>11. (\E from, to \in DOMAIN queue.items : MoveInQueue(from, to)) => Asked
  BY DEF Asked
<1> HIDE DEF Step
<1>12. Step
  BY <1>1, <1>2, <1>3, <1>4, <1>5, <1>6, <1>7, <1>8, <1>9, <1>10, <1>11 DEF Next, Step
<1> QED
  BY <1>12 DEF Step

-----------------------------------------------------------------------------
(* Theorems *)

\* The two songs of a pair that is no longer one have not been told apart by
\* any call but a move of one of them.
LEMMA PairsStay ==
    ASSUME IInv, IInv', [Next]_vars, NEW p \in PlaysBefore(queue) \ PlaysBefore(queue'),
           p[1] \in Ahead(queue'), p[2] \in Ahead(queue')
    PROVE  IsMoveOf(p[1]) \/ IsMoveOf(p[2])
<1>1. p[1] \in Ahead(queue) /\ p[2] \in Ahead(queue) /\ p = <<p[1], p[2]>>
  BY PlaysBeforeIs DEF IInv, Standing
<1>2. ASSUME NEW songs, KeepsOrder(queue, queue', songs)
      PROVE  p[1] \notin songs \/ p[2] \notin songs
  BY <1>1, <1>2 DEF KeepsOrder
<1>3. Next
  <2>1. vars' # vars
    BY DEF vars
  <2> QED
    BY <2>1
<1>4. ~Order!Start
  <2>1. p[1] \in 1 .. queue.next - 1
    BY <1>1, AheadIs, OneRow DEF IInv, Standing, HasUid, Range
  <2>2. queue.next \in Nat
    BY GoodParts DEF IInv, Standing
  <2> QED
    BY <2>1, <2>2 DEF Order!Start
<1>5. ~Order!Keeps(Ahead(queue))
  <2>1. ~KeepsOrder(queue, queue', Ahead(queue))
    BY <1>1, <1>2
  <2> QED
    BY <2>1 DEF Order!Keeps, KeepsOrder
<1>6. ~UNCHANGED Order!vars
  BY DEF Order!vars
<1>7. Asked
  BY <1>3, <1>4, <1>5, <1>6, Steps DEF Order!Listen, Order!Queue, Order!Drop
<1>8. PICK from \in DOMAIN queue.items, to \in DOMAIN queue.items : MoveInQueue(from, to)
  BY <1>7 DEF Asked
<1>9. KeepsOrder(queue, queue', Ahead(queue) \ {queue.items[from].uid})
  BY <1>8, MoveStep
<1>10. p[1] = queue.items[from].uid \/ p[2] = queue.items[from].uid
  BY <1>1, <1>2, <1>9
<1> QED
  BY <1>8, <1>10 DEF IsMoveOf

\* Queueing, removing, pruning, clearing, going to another song, shuffling and
\* unshuffling swap no two of the songs still to come, counted with shuffle
\* off: only moveInQueue does, and only past the song that was moved.
THEOREM ThePlanKeepsItsOrder == Spec => PlanKeepsItsOrder
<1>1. IInv /\ IInv' /\ [Next]_vars =>
        [\A p \in PlaysBefore(queue) \ PlaysBefore(queue') :
            p[1] \in Ahead(queue') /\ p[2] \in Ahead(queue') => IsMoveOf(p[1]) \/ IsMoveOf(p[2])]_vars
  BY PairsStay
<1> QED
  BY <1>1, SpecIInv, PTL DEF Spec, PlanKeepsItsOrder

\* playNext puts the song right behind the one playing, and first of all that
\* is to come once shuffle is off.
LEMMA NextIsNext ==
    ASSUME IInv, IInv', NEW video \in Videos \cup {NoVideo}, Count(queue) > 0, PlayNext(video)
    PROVE  /\ queue'.items[queue'.current + 1].uid = queue.next
           /\ {queue.next} \X (Ahead(queue') \ {queue.next}) \subseteq PlaysBefore(queue')
<1> DEFINE list == <<video>>
           row  == queue.current + 1
           new  == queue.next .. queue.next + 1 - 1
<1>1. Chosen(list) \in Seq(Track) /\ Len(Chosen(list)) = 1
  <2>1. list \in Seq(Videos \cup {NoVideo}) /\ Len(list) = 1
    OBVIOUS
  <2> HIDE DEF list
  <2> QED
    BY <2>1, ChosenTracks
<1>2. /\ GoodQueue(queue) /\ queue.current \in 1 .. Len(queue.items) /\ queue.next \in Nat
      /\ Len(queue.items) \in Nat /\ GoodQueue(queue')
  BY GoodParts DEF IInv, Standing, Count
<1>3. queue' = Inserted(queue, row, Chosen(list))
  BY <1>2 DEF PlayNext, Count
<1>4. row \in queue.current + 1 .. Len(queue.items) + 1
  BY <1>2
<1>5. 1 \in 1 .. 1 /\ row + 1 - 1 = row /\ queue.next + 1 - 1 = queue.next /\ new = {queue.next}
  BY <1>2
<1> HIDE DEF list
<1>6. queue'.current = queue.current /\ queue'.items[row].uid = queue.next
  <2>1. /\ queue'.current = queue.current
        /\ \A n \in 1 .. Len(Chosen(list)) : queue'.items[row + n - 1].uid = queue.next + n - 1
    BY <1>1, <1>2, <1>3, <1>4, InsertedRows
  <2> QED
    BY <1>1, <1>5, <2>1
<1>7. Ahead(queue') = Ahead(queue) \cup {queue.next} /\ Placed(queue, queue', {queue.next}, TRUE)
  <2> DEFINE added == queue.next .. queue.next + Len(Chosen(list)) - 1
  <2>0. added = new
    BY <1>1
  <2>1. /\ Ahead(queue') = Ahead(queue) \cup new
        /\ Placed(queue, queue', new, row = queue.current + 1)
    <3> HIDE DEF row
    <3>1. Chosen(list) \in Seq(Track) /\ queue.current > 0
      BY <1>1, <1>2
    <3>2. Ahead(Inserted(queue, row, Chosen(list))) = Ahead(queue) \cup added
      BY <1>2, <1>4, <3>1, InsertedKeeps
    <3>3. Placed(queue, Inserted(queue, row, Chosen(list)), added, row = queue.current + 1)
      BY <1>2, <1>4, <3>1, InsertedKeeps
    <3> HIDE DEF added, new
    <3> QED
      BY <1>3, <2>0, <3>2, <3>3
  <2>2. (row = queue.current + 1) = TRUE
    OBVIOUS
  <2> HIDE DEF row, new
  <2> QED
    BY <1>5, <2>1, <2>2
<1>8. \A u \in Ahead(queue) : <<queue.next, u>> \in PlaysBefore(queue')
  <2>1. \A u, v \in Ahead(queue') : <<u, v>> \in PlaysBefore(queue') <=> Comes(queue', u, v)
    BY <1>2, PlaysBeforeIs
  <2> QED
    BY <1>7, <2>1 DEF Placed
<1> QED
  BY <1>6, <1>7, <1>8

\* "Play next" is next, whether shuffle is on or has been turned off since.
THEOREM PlayNextGoesNext == Spec => PlayNextIsNext
<1>1. IInv /\ IInv' /\ [Next]_vars =>
        [\A video \in Videos \cup {NoVideo} :
            Count(queue) > 0 /\ PlayNext(video) =>
                /\ queue'.items[queue'.current + 1].uid = queue.next
                /\ {queue.next} \X (Ahead(queue') \ {queue.next}) \subseteq PlaysBefore(queue')]_vars
  BY NextIsNext
<1> QED
  BY <1>1, SpecIInv, PTL DEF Spec, PlayNextIsNext

\* The order restoreOrder would bring back: kept for what a call is not about,
\* and led by what is to be played next.
THEOREM ThePlanIsKept == Spec => PlanIsKept
BY ThePlanKeepsItsOrder, PlayNextGoesNext DEF PlanIsKept

\* QueueModel, as the controller drives it, is the queue PlayOrder describes:
\* songs in one order, of which every call changes only what it is about, and
\* in which shuffling and unshuffling change nothing.
THEOREM QueueKeepsItsPromise == Spec => ImplementsPlayOrder
<1>1. Init => Order!Init
  <2> SUFFICES ASSUME Init PROVE Order!Init
    OBVIOUS
  <2>1. queue = [items |-> <<>>, current |-> 0, order |-> <<>>, next |-> 1] /\ track = 0
    BY DEF Init, EmptyQueue
  <2>2. Upcoming(queue) = {}
    BY <2>1 DEF Upcoming, Count
  <2>3. Ahead(queue) = {} /\ PlaysBefore(queue) = {}
    BY <2>2 DEF Ahead, PlaysBefore
  <2> QED
    BY <2>1, <2>3 DEF Order!Init
<1>2. IInv /\ IInv' /\ [Next]_vars => [Order!Next]_(Order!vars)
  <2> SUFFICES ASSUME IInv, IInv', [Next]_vars PROVE [Order!Next]_(Order!vars)
    OBVIOUS
  <2>1. CASE UNCHANGED vars
    BY <2>1 DEF vars, Order!vars
  <2>2. CASE Next
    <3>1. Order!Orders(PlaysBefore(queue'), Ahead(queue'))
      BY InOneOrder DEF IInv, Standing
    <3>2. Asked => Order!Move
      <4> SUFFICES ASSUME Asked PROVE Order!Move
        OBVIOUS
      <4>1. PICK from \in DOMAIN queue.items, to \in DOMAIN queue.items : MoveInQueue(from, to)
        BY DEF Asked
      <4>2. /\ queue.items[from].uid \in Ahead(queue)
            /\ track' = track /\ queue'.next = queue.next /\ Ahead(queue') = Ahead(queue)
            /\ KeepsOrder(queue, queue', Ahead(queue) \ {queue.items[from].uid})
        BY <4>1, MoveStep
      <4>3. Order!Keeps(Ahead(queue) \ {queue.items[from].uid})
        BY <4>2 DEF Order!Keeps, KeepsOrder
      <4> QED
        BY <4>2, <4>3 DEF Order!Move
    <3> QED
      BY <2>2, <3>1, <3>2, Steps DEF Order!Next
  <2> QED
    BY <2>1, <2>2
<1> QED
  BY <1>1, <1>2, SpecIInv, PTL DEF Spec, ImplementsPlayOrder, Order!Spec

-----------------------------------------------------------------------------
(***************************************************************************)
(* Part 4.  Session                                                        *)
(*                                                                         *)
(* The rows of a launch have uids of their own, so nothing of the old      *)
(* queue can be compared by uid.  What is compared is which row sorts      *)
(* before which: a snapshot and the launch from it say the same of their   *)
(* rows as the queue did (SameSorts), and rows sort in one way only        *)
(* (OneSort), so that turning shuffle off gives the same songs (SamePlan). *)
(***************************************************************************)

(* One way to put things in order *)

OneWay(before, V) == \A x, y \in V : ~ (<<x, y>> \in before /\ <<y, x>> \in before)

\* f lists V, each member before the ones that follow it.
ListsAll(f, U, V, before) ==
    /\ f \in [U -> V]
    /\ \A v \in V : \E n \in U : f[n] = v
    /\ \A m, n \in U : m < n => <<f[m], f[n]>> \in before

\* Two lists of the same things, each thing before the next by a relation that
\* never holds both ways, are one list.
LEMMA OneOrder ==
    ASSUME NEW U \in SUBSET Nat, NEW V, NEW before, OneWay(before, V),
           NEW f, NEW g, ListsAll(f, U, V, before), ListsAll(g, U, V, before)
    PROVE  f = g
<1> USE DEF ListsAll, OneWay
<1> DEFINE T == {n \in U : f[n] # g[n]}
<1>1. SUFFICES ASSUME T # {} PROVE FALSE
  OBVIOUS
<1>2. T \in SUBSET Nat
  OBVIOUS
<1>3. PICK k \in T : \A m \in T : k <= m
  BY <1>1, <1>2, LeastNumber
<1>4. k \in U /\ f[k] # g[k] /\ \A m \in U : m < k => f[m] = g[m]
  BY <1>3
<1>5. PICK i \in U : f[i] = g[k]
  OBVIOUS
<1>6. PICK j \in U : g[j] = f[k]
  OBVIOUS
<1>7. ~ (i < k) /\ i # k
  BY <1>4, <1>5
<1>8. ~ (j < k) /\ j # k
  BY <1>4, <1>6
<1>9. k < i /\ k < j
  BY <1>4, <1>7, <1>8
<1>10. <<f[k], g[k]>> \in before /\ <<g[k], f[k]>> \in before
  BY <1>4, <1>5, <1>6, <1>9
<1> QED
  BY <1>4, <1>10

LEMMA RisingFacts ==
    ASSUME NEW limit \in Nat, NEW keep \in SUBSET (1 .. limit), NEW f \in InOrder(keep)
    PROVE  /\ f \in [1 .. Cardinality(keep) -> keep] /\ Cardinality(keep) \in Nat
           /\ \A m, n \in 1 .. Cardinality(keep) : m < n => f[m] < f[n]
           /\ \A v \in keep : \E n \in 1 .. Cardinality(keep) : f[n] = v
<1> DEFINE s == [n \in 1 .. limit |-> n]
<1>1. s \in Seq(Nat) /\ Len(s) = limit /\ \A n \in 1 .. limit : s[n] = n
  OBVIOUS
<1>2. Distinct(s, Itself)
  BY <1>1 DEF Distinct, Itself
<1>3. f \in [1 .. Cardinality(keep) -> keep] /\ \A m, n \in DOMAIN f : m < n => f[m] < f[n]
  BY DEF InOrder
<1>4. \A n \in DOMAIN f : s[f[n]] = f[n]
  BY <1>3
<1>5. f = [n \in DOMAIN f |-> s[f[n]]]
  BY <1>3, <1>4
<1> HIDE DEF s
<1>6. f \in Subsequences(s, keep)
  BY <1>5 DEF Subsequences
<1>7. IsFiniteSet(keep) /\ \A n \in keep : s[n] \in Range(f)
  BY <1>1, <1>2, <1>6, SubsequenceFacts
<1>8. Cardinality(keep) \in Nat
  BY <1>7, FS_CardinalityType
<1>9. \A v \in keep : \E n \in DOMAIN f : f[n] = v
  BY <1>1, <1>7 DEF Range
<1> QED
  BY <1>3, <1>8, <1>9

\* What is left of a sequence is one sequence.
LEMMA OneSubsequence ==
    ASSUME NEW limit \in Nat, NEW keep \in SUBSET (1 .. limit), NEW s,
           NEW a \in Subsequences(s, keep), NEW b \in Subsequences(s, keep)
    PROVE  a = b
<1>1. PICK f \in InOrder(keep) : a = [n \in DOMAIN f |-> s[f[n]]]
  BY DEF Subsequences
<1>2. PICK g \in InOrder(keep) : b = [n \in DOMAIN g |-> s[g[n]]]
  BY DEF Subsequences
<1> DEFINE U      == 1 .. Cardinality(keep)
           before == {p \in keep \X keep : p[1] < p[2]}
<1>3. f \in [U -> keep] /\ (\A m, n \in U : m < n => f[m] < f[n]) /\ \A v \in keep : \E n \in U : f[n] = v
  BY RisingFacts
<1>4. g \in [U -> keep] /\ (\A m, n \in U : m < n => g[m] < g[n]) /\ \A v \in keep : \E n \in U : g[n] = v
  BY RisingFacts
<1>5. U \in SUBSET Nat
  OBVIOUS
<1> HIDE DEF U
<1>6. OneWay(before, keep)
  BY DEF OneWay
<1>7. ListsAll(f, U, keep, before) /\ ListsAll(g, U, keep, before)
  BY <1>3, <1>4 DEF ListsAll
<1> HIDE DEF before
<1>8. f = g
  BY <1>5, <1>6, <1>7, OneOrder
<1> QED
  BY <1>1, <1>2, <1>8

\* restoreOrder's sort has one outcome.
LEMMA OneSort ==
    ASSUME NEW q, GoodQueue(q), NEW a \in StableSorts(q), NEW b \in StableSorts(q)
    PROVE  a = b
<1> DEFINE U      == Upcoming(q)
           before == {p \in U \X U : SortsBefore(q, p[1], p[2])}
<1>1. /\ a \in [U -> U] /\ \A v \in U : \E n \in U : a[n] = v
      /\ \A m, n \in U : m < n => SortsBefore(q, a[m], a[n])
  BY DEF StableSorts, Bijection, Surjection
<1>2. /\ b \in [U -> U] /\ \A v \in U : \E n \in U : b[n] = v
      /\ \A m, n \in U : m < n => SortsBefore(q, b[m], b[n])
  BY DEF StableSorts, Bijection, Surjection
<1>3. U \subseteq DOMAIN q.items /\ U \in SUBSET Nat
  BY OneRow
<1> HIDE DEF U
<1>4. \A x \in U : Rank(q, x) \in Nat /\ x \in Nat
  BY <1>3, RankIs
<1>5. \A x, y \in U : ~ (SortsBefore(q, x, y) /\ SortsBefore(q, y, x))
  BY <1>4 DEF SortsBefore
<1>6. OneWay(before, U)
  BY <1>5 DEF OneWay
<1>7. ListsAll(a, U, U, before) /\ ListsAll(b, U, U, before)
  BY <1>1, <1>2 DEF ListsAll
<1> HIDE DEF before
<1> QED
  BY <1>3, <1>6, <1>7, OneOrder

-----------------------------------------------------------------------------
(* Snapshots *)

\* The settings as the snapshot writes them: at most KeptRows rows, and an
\* order that names rows of them, each once.
GoodSnapshot(s) ==
    /\ s \in [tracks : Seq(Track), current : Nat, order : Seq(Nat)]
    /\ Len(s.tracks) <= KeptRows
    /\ s.current <= Len(s.tracks)
    /\ s.current = 0 <=> Len(s.tracks) = 0
    /\ Distinct(s.order, Itself)
    /\ Range(s.order) \subseteq 1 .. Len(s.tracks)

\* The rows of the snapshot are those of the queue from `first` on, the current
\* one among them.
RowsOf(s, q, first) ==
    /\ first \in 1 .. q.current
    /\ q.current - first + 1 <= Len(s.tracks)
    /\ first + Len(s.tracks) - 1 <= Len(q.items)
    /\ s.current = q.current - first + 1
    /\ \A n \in 1 .. Len(s.tracks) : s.tracks[n].video = q.items[first + n - 1].video
    /\ Len(q.items) <= KeptRows => first = 1 /\ Len(s.tracks) = Len(q.items)

\* Its order names the rows the queue's order does, and in the same order.
OrderOf(s, q, first) ==
    /\ \A n \in 1 .. Len(s.tracks) : n \in Range(s.order) <=> Knows(q, q.items[first + n - 1].uid)
    /\ \A i, j \in DOMAIN s.order :
          i < j => OrderedBefore(q, q.items[first + s.order[i] - 1].uid, q.items[first + s.order[j] - 1].uid)

\* The window of rows that is kept: as many as may be, the current one among
\* them, all of them when they are few enough.
LEMMA WindowFacts ==
    ASSUME NEW q, GoodQueue(q), q.current # 0, NEW limit \in Nat \ {0}
    PROVE  LET first == SnapshotFirst(q, limit)
               last  == Clamp(1, first + limit - 1, Count(q))
           IN  /\ first \in 1 .. q.current
               /\ last \in q.current .. Len(q.items)
               /\ last - first + 1 <= limit
               /\ Len(q.items) <= limit => first = 1 /\ last = Len(q.items)
<1> DEFINE n     == Len(q.items)
           row   == q.current
           share == limit \div 5
<1>1. n \in Nat /\ row \in 1 .. n
  BY GoodParts
<1>2. share \in Nat /\ share < limit
  OBVIOUS
<1> DEFINE wanted == Clamp(1, row - share, n)
           end    == Clamp(1, wanted + limit - 1, n)
           first  == Clamp(1, end - limit + 1, n)
           last   == Clamp(1, first + limit - 1, n)
<1>3. SnapshotFirst(q, limit) = first /\ Count(q) = n
  BY DEF SnapshotFirst, Count
<1> HIDE DEF n, row, share
<1>4. wanted \in 1 .. row /\ wanted >= row - share
  BY <1>1, <1>2 DEF Clamp
<1> HIDE DEF wanted
<1>5. end \in 1 .. n /\ (end = wanted + limit - 1 \/ (end = n /\ n < wanted + limit - 1))
  BY <1>1, <1>4 DEF Clamp
<1> HIDE DEF end
<1>6. first \in 1 .. row /\ (first = end - limit + 1 \/ (first = 1 /\ end - limit + 1 < 1))
  BY <1>1, <1>4, <1>5 DEF Clamp
<1>7. n <= limit => first = 1
  BY <1>1, <1>4, <1>5, <1>6
<1> HIDE DEF first
<1>8. last \in 1 .. n /\ last <= first + limit - 1
      /\ (last = first + limit - 1 \/ last = n)
  BY <1>1, <1>6 DEF Clamp
<1>9. last >= row
  BY <1>1, <1>2, <1>4, <1>5, <1>6, <1>8
<1>10. n <= limit => last = n
  BY <1>1, <1>6, <1>7, <1>8
<1> HIDE DEF last
<1> QED
  BY <1>1, <1>3, <1>6, <1>7, <1>8, <1>9, <1>10 DEF n, row, last

\* One way to leave out of the order what the snapshot does not hold.
LEMMA SnapshotIs ==
    ASSUME NEW q, GoodQueue(q), q.current # 0, NEW s \in Snapshots(q, KeptRows)
    PROVE  GoodSnapshot(s) /\ \E first : RowsOf(s, q, first) /\ OrderOf(s, q, first)
<1> USE SessionAssumption
<1> DEFINE first    == SnapshotFirst(q, KeptRows)
           last     == Clamp(1, first + KeptRows - 1, Count(q))
           size     == last - first + 1
           tracks   == SubSeq(q.items, first, last)
           RowOf(u) == {n \in DOMAIN tracks : tracks[n].uid = u}
           known    == {n \in DOMAIN q.order : RowOf(q.order[n]) # {}}
           plain    == [n \in DOMAIN tracks |-> TrackOf(tracks[n].video, tracks[n].radio)]
           row      == q.current - first + 1
<1>1. /\ first \in 1 .. q.current /\ last \in q.current .. Len(q.items) /\ last - first + 1 <= KeptRows
      /\ Len(q.items) <= KeptRows => first = 1 /\ last = Len(q.items)
  BY WindowFacts
<1>2. PICK kept \in Subsequences(q.order, known) :
         s = [tracks |-> plain, current |-> row, order |-> [n \in DOMAIN kept |-> CHOOSE r \in RowOf(kept[n]) : TRUE]]
  BY DEF Snapshots
<1> DEFINE order == [n \in DOMAIN kept |-> CHOOSE r \in RowOf(kept[n]) : TRUE]
<1>3. s = [tracks |-> plain, current |-> row, order |-> order]
  BY <1>2
<1> HIDE DEF first, last
<1>4. /\ q.items \in Seq(Track) /\ Len(q.items) \in Nat /\ q.current \in 1 .. Len(q.items)
      /\ q.order \in Seq(Nat) /\ Distinct(q.order, Itself) /\ Len(q.order) \in Nat
  BY GoodParts
<1>5. /\ DOMAIN q.items = 1 .. Len(q.items) /\ DOMAIN q.order = 1 .. Len(q.order)
      /\ \A m, n \in DOMAIN q.items : q.items[m].uid = q.items[n].uid => m = n
      /\ \A m, n \in DOMAIN q.order : q.order[m] = q.order[n] => m = n
      /\ \A n \in DOMAIN q.items : q.items[n] \in Track
  BY OneRow
<1>6. size \in Nat /\ first \in Nat /\ last \in Nat /\ row \in 1 .. size /\ first + size - 1 = last
  BY <1>1, <1>4
<1>7. tracks \in Seq(Track) /\ Len(tracks) = size /\ \A n \in 1 .. size : tracks[n] = q.items[first + n - 1]
  <2>1. \A n \in first .. last : q.items[n] \in Track
    BY <1>1, <1>4
  <2>2. first <= last /\ first \in Int /\ last \in Int /\ size = last - first + 1
    BY <1>1, <1>4
  <2> QED
    BY <2>1, <2>2, SubSeqProperties
<1>8. DOMAIN tracks = 1 .. size
  BY <1>7
<1> HIDE DEF tracks
<1>9. \A n \in 1 .. size : first + n - 1 \in DOMAIN q.items
  BY <1>1, <1>4, <1>5, <1>6
<1>10. \A m, n \in 1 .. size : tracks[m].uid = tracks[n].uid => m = n
  <2> SUFFICES ASSUME NEW m \in 1 .. size, NEW n \in 1 .. size, tracks[m].uid = tracks[n].uid PROVE m = n
    OBVIOUS
  <2>1. first + m - 1 = first + n - 1
    <3> DEFINE x == first + m - 1
               y == first + n - 1
    <3>1. q.items[x].uid = q.items[y].uid /\ x \in DOMAIN q.items /\ y \in DOMAIN q.items
      BY <1>7, <1>9
    <3> HIDE DEF x, y
    <3>2. x = y
      BY <1>5, <3>1
    <3> QED
      BY <3>2 DEF x, y
  <2> HIDE DEF size
  <2> QED
    BY <1>6, <2>1
<1>11. plain \in Seq(Track) /\ Len(plain) = size /\ \A n \in 1 .. size : plain[n].video = tracks[n].video
  <2>1. \A n \in 1 .. size : TrackOf(tracks[n].video, tracks[n].radio) \in Track
    <3>1. \A n \in 1 .. size : tracks[n] \in Track
      BY <1>5, <1>7, <1>9
    <3> QED
      BY <3>1 DEF Track, TrackOf
  <2>2. \A n \in 1 .. size : TrackOf(tracks[n].video, tracks[n].radio).video = tracks[n].video
    BY DEF TrackOf
  <2> HIDE DEF size
  <2>3. plain \in [1 .. size -> Track]
    BY <1>8, <2>1
  <2>4. \A n \in 1 .. size : plain[n].video = tracks[n].video
    BY <1>8, <2>2
  <2> HIDE DEF plain
  <2>5. plain \in Seq(Track) /\ Len(plain) = size
    BY <1>6, <2>3
  <2> QED
    BY <2>4, <2>5
<1> HIDE DEF plain, size
<1>12. PICK f \in InOrder(known) : kept = [n \in DOMAIN f |-> q.order[f[n]]]
  BY DEF Subsequences
<1>13. known \in SUBSET (1 .. Len(q.order)) /\ \A n \in known : RowOf(q.order[n]) # {} /\ n \in Nat
  BY <1>5
<1> HIDE DEF known
<1> DEFINE count == Cardinality(known)
<1>14. /\ f \in [1 .. count -> known] /\ count \in Nat
       /\ \A m, n \in 1 .. count : m < n => f[m] < f[n]
       /\ \A v \in known : \E n \in 1 .. count : f[n] = v
  BY <1>4, <1>13, RisingFacts
<1> HIDE DEF count
<1>15. DOMAIN kept = 1 .. count /\ \A n \in 1 .. count : kept[n] = q.order[f[n]] /\ f[n] \in known
  BY <1>12, <1>14
<1>16. \A n \in 1 .. count : order[n] \in RowOf(kept[n])
  <2>1. \A n \in 1 .. count : order[n] = CHOOSE r \in RowOf(kept[n]) : TRUE
    BY <1>15
  <2> HIDE DEF RowOf, order
  <2>2. \A n \in 1 .. count : RowOf(kept[n]) # {}
    BY <1>13, <1>15
  <2> QED
    BY <2>1, <2>2
<1>17. DOMAIN order = 1 .. count
  BY <1>15
<1> HIDE DEF order
<1>18. \A n \in 1 .. count : order[n] \in 1 .. size /\ tracks[order[n]].uid = q.order[f[n]]
  BY <1>8, <1>15, <1>16
<1>19. order \in Seq(Nat) /\ Range(order) \subseteq 1 .. size
  <2>1. order = [n \in 1 .. count |-> order[n]]
    <3>1. order = [n \in DOMAIN order |-> order[n]]
      BY DEF order
    <3> QED
      BY <1>17, <3>1
  <2>2. \A n \in 1 .. count : order[n] \in Nat
    BY <1>18
  <2> QED
    <3>1. order \in [1 .. count -> Nat]
      BY <2>1, <2>2
    <3>2. order \in Seq(Nat)
      BY <1>14, <3>1
    <3> QED
      BY <1>17, <1>18, <3>2 DEF Range
<1>20. \A i, j \in 1 .. count : order[i] = order[j] => i = j
  <2> SUFFICES ASSUME NEW i \in 1 .. count, NEW j \in 1 .. count, order[i] = order[j] PROVE i = j
    OBVIOUS
  <2>0. f[i] \in DOMAIN q.order /\ f[j] \in DOMAIN q.order /\ f[i] \in Nat /\ f[j] \in Nat
    BY <1>5, <1>13, <1>15
  <2>1. f[i] = f[j]
    BY <1>5, <1>18, <2>0, SMTT(20)
  <2>2. ~ (f[i] < f[j]) /\ ~ (f[j] < f[i])
    BY <2>0, <2>1
  <2> QED
    BY <1>14, <2>2
<1>21. GoodSnapshot(s)
  <2>1. Distinct(order, Itself)
    BY <1>17, <1>18, <1>20 DEF Distinct, Itself
  <2>2. size <= KeptRows
    BY <1>1 DEF size
  <2> QED
    BY <1>3, <1>6, <1>11, <1>19, <2>1, <2>2 DEF GoodSnapshot
<1>22. RowsOf(s, q, first)
  <2>1. first + size - 1 <= Len(q.items) /\ q.current - first + 1 <= size
    BY <1>1, <1>4, <1>6
  <2>2. Len(q.items) <= KeptRows => first = 1 /\ size = Len(q.items)
    BY <1>1, <1>4, <1>6
  <2>3. \A n \in 1 .. size : plain[n].video = q.items[first + n - 1].video
    BY <1>7, <1>11
  <2> QED
    BY <1>1, <1>3, <1>11, <2>1, <2>2, <2>3 DEF RowsOf
<1>23. \A n \in 1 .. size : n \in Range(order) <=> Knows(q, q.items[first + n - 1].uid)
  <2> SUFFICES ASSUME NEW n \in 1 .. size PROVE n \in Range(order) <=> Knows(q, tracks[n].uid)
    BY <1>7
  <2>1. ASSUME n \in Range(order) PROVE Knows(q, tracks[n].uid)
    <3>1. PICK i \in 1 .. count : order[i] = n
      BY <1>17, <2>1 DEF Range
    <3>2. tracks[n].uid = q.order[f[i]] /\ f[i] \in DOMAIN q.order
      BY <1>5, <1>13, <1>15, <1>18, <3>1
    <3> QED
      BY <3>2 DEF Knows
  <2>2. ASSUME Knows(q, tracks[n].uid) PROVE n \in Range(order)
    <3>1. PICK k \in DOMAIN q.order : q.order[k] = tracks[n].uid
      BY <2>2 DEF Knows
    <3>2. n \in RowOf(q.order[k])
      BY <1>8, <3>1
    <3>3. k \in known
      BY <3>2 DEF known
    <3>4. PICK i \in 1 .. count : f[i] = k
      BY <1>14, <3>3
    <3>5. order[i] = n
      BY <1>10, <1>18, <3>1, <3>4
    <3> QED
      BY <1>17, <3>5 DEF Range
  <2> QED
    BY <2>1, <2>2
<1>24. \A i, j \in 1 .. count : i < j => OrderedBefore(q, q.items[first + order[i] - 1].uid, q.items[first + order[j] - 1].uid)
  <2> SUFFICES ASSUME NEW i \in 1 .. count, NEW j \in 1 .. count, i < j
               PROVE  OrderedBefore(q, tracks[order[i]].uid, tracks[order[j]].uid)
    BY <1>7, <1>18
  <2>1. f[i] < f[j] /\ f[i] \in DOMAIN q.order /\ f[j] \in DOMAIN q.order
    BY <1>5, <1>13, <1>14, <1>15
  <2> QED
    BY <1>18, <2>1 DEF OrderedBefore
<1>25. OrderOf(s, q, first)
  BY <1>3, <1>11, <1>17, <1>23, <1>24 DEF OrderOf
<1> QED
  BY <1>21, <1>22, <1>25

-----------------------------------------------------------------------------
(* The queue a launch makes of a snapshot *)

\* Its rows are the snapshot's, counted afresh, and its order what the snapshot
\* keeps of the rows still to come.
LaunchedFrom(r, s) ==
    /\ Len(r.items) = Len(s.tracks) /\ r.current = s.current
    /\ \A n \in 1 .. Len(s.tracks) : r.items[n].uid = n /\ r.items[n].video = s.tracks[n].video
    /\ \A n \in Upcoming(r) : Knows(r, n) <=> n \in Range(s.order)
    /\ \A m, n : OrderedBefore(r, m, n) =>
          \E i, j \in DOMAIN s.order : i < j /\ s.order[i] = m /\ s.order[j] = n

LEMMA StampVideos ==
    ASSUME NEW tracks \in Seq(Track), NEW next \in Nat \ {0}, NEW n \in 1 .. Len(tracks)
    PROVE  Stamp(tracks, next)[n].video = tracks[n].video
<1>1. tracks[n] \in Track /\ n \in DOMAIN tracks
  OBVIOUS
<1>2. [tracks[n] EXCEPT !.uid = next + n - 1].video = tracks[n].video
  BY <1>1 DEF Track
<1> QED
  BY <1>1, <1>2 DEF Stamp

LEMMA LaunchedIs ==
    ASSUME NEW s, GoodSnapshot(s), NEW r \in FromSnapshots(EmptyQueue, s)
    PROVE  GoodQueue(r) /\ LaunchedFrom(r, s)
<1> DEFINE fresh == Replaced(EmptyQueue, s.tracks, s.current)
           ahead == {n \in DOMAIN s.order : s.order[n] > s.current}
           size  == Len(s.tracks)
<1>1. /\ s.tracks \in Seq(Track) /\ s.current \in Nat /\ s.order \in Seq(Nat) /\ size \in Nat
      /\ s.current <= size /\ (s.current = 0 <=> size = 0)
      /\ Distinct(s.order, Itself) /\ \A n \in DOMAIN s.order : s.order[n] \in 1 .. size
      /\ DOMAIN s.order = 1 .. Len(s.order) /\ Len(s.order) \in Nat
  BY DEF GoodSnapshot, Range
<1>2. EmptyQueue \in Queue /\ EmptyQueue.next = 1
  BY DEF EmptyQueue, Queue
<1>3. PICK rows \in Subsequences(s.order, ahead) :
         r = [fresh EXCEPT !.order = [n \in DOMAIN rows |-> fresh.items[rows[n]].uid]]
  BY DEF FromSnapshots
<1> DEFINE items == Stamp(s.tracks, 1)
<1>4. fresh.items = items /\ fresh.current = s.current /\ fresh.next = 1 + size
      /\ fresh = [items |-> items, current |-> s.current, order |-> <<>>, next |-> 1 + size]
  <2>1. (IF s.tracks = <<>> THEN 0 ELSE Clamp(1, s.current, Len(s.tracks))) = s.current
    BY <1>1 DEF Clamp
  <2> QED
    BY <1>2, <2>1 DEF Replaced
<1>5. GoodQueue(fresh)
  BY <1>1, <1>2, ReplacedGood
<1> HIDE DEF fresh
<1>6. /\ items \in Seq(Track) /\ Len(items) = size
      /\ \A n \in 1 .. size : items[n].uid = n /\ items[n].video = s.tracks[n].video
  <2>1. items \in Seq(Track) /\ Len(items) = size /\ \A n \in 1 .. size : items[n].uid = 1 + n - 1
    BY <1>1, StampFacts
  <2>2. \A n \in 1 .. size : items[n].video = s.tracks[n].video
    BY <1>1, StampVideos
  <2> QED
    BY <2>1, <2>2
<1> HIDE DEF items
<1>7. PICK f \in InOrder(ahead) : rows = [n \in DOMAIN f |-> s.order[f[n]]]
  BY DEF Subsequences
<1>8. ahead \in SUBSET (1 .. Len(s.order))
  BY <1>1
<1>9. /\ rows \in Seq(Nat) /\ Distinct(rows, Itself)
      /\ Range(rows) \subseteq Range(s.order) /\ \A n \in ahead : s.order[n] \in Range(rows)
  BY <1>1, <1>8, SubsequenceFacts
<1> DEFINE count == Cardinality(ahead)
<1>10. /\ f \in [1 .. count -> ahead] /\ count \in Nat
       /\ \A m, n \in 1 .. count : m < n => f[m] < f[n]
  <2> HIDE DEF ahead
  <2> QED
    BY <1>1, <1>8, RisingFacts
<1> HIDE DEF count
<1>11. /\ DOMAIN rows = 1 .. count
       /\ \A n \in 1 .. count : rows[n] = s.order[f[n]] /\ f[n] \in DOMAIN s.order /\ rows[n] \in 1 .. size
  BY <1>1, <1>7, <1>10
<1>12. [n \in DOMAIN rows |-> fresh.items[rows[n]].uid] = rows
  <2>1. \A n \in DOMAIN rows : fresh.items[rows[n]].uid = rows[n]
    BY <1>4, <1>6, <1>11
  <2>2. rows = [n \in DOMAIN rows |-> rows[n]]
    BY <1>9
  <2> QED
    BY <2>1, <2>2
<1>13. r = [items |-> items, current |-> s.current, order |-> rows, next |-> 1 + size]
  BY <1>3, <1>4, <1>12
<1>14. GoodQueue(r)
  <2>1. GoodItems(items, s.current, 1 + size) /\ 1 + size \in Nat \ {0}
    BY <1>1, <1>4, <1>5 DEF GoodQueue
  <2>2. \A uid \in Range(rows) : HasUid(items, uid)
    <3> SUFFICES ASSUME NEW uid \in Range(rows) PROVE HasUid(items, uid)
      OBVIOUS
    <3>1. uid \in 1 .. size /\ uid \in DOMAIN items
      BY <1>6, <1>11 DEF Range
    <3> QED
      BY <1>6, <3>1 DEF HasUid, Range
  <2>3. GoodOrder(rows, items)
    BY <1>9, <2>2 DEF GoodOrder
  <2> QED
    BY <1>13, <2>1, <2>3, QueueOf
<1>15. ASSUME NEW n \in Upcoming(r) PROVE Knows(r, n) <=> n \in Range(s.order)
  <2>1. n > s.current
    BY <1>1, <1>13 DEF Upcoming
  <2>2. Knows(r, n) <=> n \in Range(rows)
    BY <1>13 DEF Knows, Range
  <2>3. n \in Range(s.order) => n \in Range(rows)
    <3> SUFFICES ASSUME n \in Range(s.order) PROVE n \in Range(rows)
      OBVIOUS
    <3>1. PICK i \in DOMAIN s.order : s.order[i] = n
      BY DEF Range
    <3>2. i \in ahead
      BY <2>1, <3>1
    <3> QED
      BY <1>9, <3>1, <3>2
  <2> QED
    BY <1>9, <2>2, <2>3
<1>16. ASSUME NEW m, NEW n, OrderedBefore(r, m, n)
       PROVE  \E i, j \in DOMAIN s.order : i < j /\ s.order[i] = m /\ s.order[j] = n
  <2>1. PICK i \in 1 .. count, j \in 1 .. count : i < j /\ rows[i] = m /\ rows[j] = n
    BY <1>11, <1>13, <1>16 DEF OrderedBefore
  <2>2. f[i] < f[j] /\ f[i] \in DOMAIN s.order /\ f[j] \in DOMAIN s.order /\ s.order[f[i]] = m /\ s.order[f[j]] = n
    BY <1>10, <1>11, <2>1
  <2> QED
    BY <2>2
<1>17. LaunchedFrom(r, s)
  BY <1>6, <1>13, <1>15, <1>16 DEF LaunchedFrom
<1> QED
  BY <1>14, <1>17

\* A snapshot is launched in one way.
LEMMA OneLaunch ==
    ASSUME NEW s, GoodSnapshot(s), NEW a \in FromSnapshots(EmptyQueue, s), NEW b \in FromSnapshots(EmptyQueue, s)
    PROVE  a = b
<1> DEFINE fresh == Replaced(EmptyQueue, s.tracks, s.current)
           ahead == {n \in DOMAIN s.order : s.order[n] > s.current}
<1>1. PICK k \in Subsequences(s.order, ahead) :
         a = [fresh EXCEPT !.order = [n \in DOMAIN k |-> fresh.items[k[n]].uid]]
  BY DEF FromSnapshots
<1>2. PICK l \in Subsequences(s.order, ahead) :
         b = [fresh EXCEPT !.order = [n \in DOMAIN l |-> fresh.items[l[n]].uid]]
  BY DEF FromSnapshots
<1>3. ahead \in SUBSET (1 .. Len(s.order)) /\ Len(s.order) \in Nat
  BY DEF GoodSnapshot
<1> HIDE DEF fresh, ahead
<1>4. k = l
  BY <1>3, OneSubsequence
<1> QED
  BY <1>1, <1>2, <1>4

-----------------------------------------------------------------------------
(* Rows that sort alike come back alike *)

\* The same rows are to come in both, both orders know the same of them, and
\* what one has before the other so has the second.
AgreeOnRows(q, r) ==
    /\ Upcoming(r) = Upcoming(q)
    /\ \A n \in Upcoming(q) : Knows(r, r.items[n].uid) <=> Knows(q, q.items[n].uid)
    /\ \A m, n \in Upcoming(q) :
          OrderedBefore(r, r.items[m].uid, r.items[n].uid) => OrderedBefore(q, q.items[m].uid, q.items[n].uid)

LEMMA SameSorts ==
    ASSUME NEW q, NEW r, GoodQueue(q), GoodQueue(r), AgreeOnRows(q, r)
    PROVE  \A m, n \in Upcoming(q) : SortsBefore(r, m, n) <=> SortsBefore(q, m, n)
<1> SUFFICES ASSUME NEW m \in Upcoming(q), NEW n \in Upcoming(q)
             PROVE  SortsBefore(r, m, n) <=> SortsBefore(q, m, n)
  OBVIOUS
<1>1. Upcoming(r) = Upcoming(q)
  BY DEF AgreeOnRows
<1>2. /\ Upcoming(q) \subseteq DOMAIN q.items /\ Upcoming(q) \subseteq DOMAIN r.items
      /\ \A i, j \in DOMAIN q.items : q.items[i].uid = q.items[j].uid => i = j
      /\ \A i, j \in DOMAIN r.items : r.items[i].uid = r.items[j].uid => i = j
  BY <1>1, OneRow
<1> DEFINE Of(x, i) == x.items[i].uid
<1>3. /\ \A i, j \in Upcoming(q) : SortsBefore(q, i, j) <=> Comes(q, Of(q, i), Of(q, j))
      /\ \A i, j \in Upcoming(q) : SortsBefore(r, i, j) <=> Comes(r, Of(r, i), Of(r, j))
  BY <1>2, SortsBeforeIs
<1>4. \A i \in Upcoming(q) : Of(q, i) \in Ahead(q) /\ Of(r, i) \in Ahead(r)
  BY <1>1 DEF Ahead
<1>5. \A i, j \in Upcoming(q) : ShownBefore(r, Of(r, i), Of(r, j)) <=> i < j
  BY <1>2 DEF ShownBefore
<1>6. \A i, j \in Upcoming(q) : ShownBefore(q, Of(q, i), Of(q, j)) <=> i < j
  BY <1>2 DEF ShownBefore
<1>7. /\ \A i \in Upcoming(q) : Knows(r, Of(r, i)) <=> Knows(q, Of(q, i))
      /\ \A i, j \in Upcoming(q) : OrderedBefore(r, Of(r, i), Of(r, j)) => OrderedBefore(q, Of(q, i), Of(q, j))
  BY DEF AgreeOnRows
<1>8. \A i, j \in Upcoming(q) : i # j => Of(q, i) # Of(q, j) /\ Of(r, i) # Of(r, j)
  BY <1>2
<1> HIDE DEF Of
<1>9. \A i, j \in Upcoming(q) : Comes(r, Of(r, i), Of(r, j)) => Comes(q, Of(q, i), Of(q, j))
  BY <1>5, <1>6, <1>7 DEF Comes
<1>10. CASE m = n
  <2>1. ~ Comes(r, Of(r, m), Of(r, m)) /\ ~ Comes(q, Of(q, m), Of(q, m))
    BY <1>4, OneComesFirst
  <2> QED
    BY <1>3, <1>10, <2>1
<1>11. CASE m # n
  <2>1. Comes(r, Of(r, m), Of(r, n)) <=> ~ Comes(r, Of(r, n), Of(r, m))
    BY <1>4, <1>8, <1>11, OneComesFirst
  <2>2. Comes(q, Of(q, m), Of(q, n)) <=> ~ Comes(q, Of(q, n), Of(q, m))
    BY <1>4, <1>8, <1>11, OneComesFirst
  <2> QED
    BY <1>3, <1>9, <2>1, <2>2
<1> QED
  BY <1>10, <1>11

LEMMA VideosOfPart ==
    ASSUME NEW a \in Seq(Track), NEW b \in Seq(Track), Len(a) = Len(b),
           NEW m \in 1 .. Len(a) + 1,
           \A n \in m .. Len(a) : a[n].video = b[n].video
    PROVE  VideosOf(SubSeq(a, m, Len(a))) = VideosOf(SubSeq(b, m, Len(a)))
<1> DEFINE size == Len(a)
           x    == SubSeq(a, m, size)
           y    == SubSeq(b, m, size)
<1>1. size \in Nat /\ m \in 1 .. size + 1
  OBVIOUS
<1>2. \A n \in m .. size : a[n] \in Track /\ b[n] \in Track
  OBVIOUS
<1>3. /\ x \in Seq(Track) /\ Len(x) = IF m <= size THEN size - m + 1 ELSE 0
      /\ \A n \in 1 .. size - m + 1 : x[n] = a[m + n - 1]
  BY <1>1, <1>2, SubSeqProperties
<1>4. /\ y \in Seq(Track) /\ Len(y) = IF m <= size THEN size - m + 1 ELSE 0
      /\ \A n \in 1 .. size - m + 1 : y[n] = b[m + n - 1]
  BY <1>1, <1>2, SubSeqProperties
<1> HIDE DEF size, x, y
<1>5. DOMAIN x = 1 .. size - m + 1 /\ DOMAIN y = 1 .. size - m + 1
  BY <1>1, <1>3, <1>4
<1>6. \A n \in 1 .. size - m + 1 : m + n - 1 \in m .. Len(a)
  BY <1>1 DEF size
<1>7. \A n \in 1 .. size - m + 1 : x[n].video = y[n].video
  BY <1>3, <1>4, <1>6
<1>8. VideosOf(x) = VideosOf(y)
  BY <1>5, <1>7 DEF VideosOf
<1> QED
  BY <1>8 DEF x, y, size

\* When the order knows no song to come, restoreOrder leaves them as they are.
LEMMA NothingToRestore ==
    ASSUME NEW q, GoodQueue(q), \A n \in Upcoming(q) : ~ Knows(q, q.items[n].uid)
    PROVE  (CHOOSE r \in Restored(q) : TRUE).items = q.items
<1>1. CASE q.order = <<>>
  BY <1>1 DEF Restored
<1>2. CASE q.order # <<>>
  <2> DEFINE same == [n \in Upcoming(q) |-> n]
  <2>1. Upcoming(q) \subseteq DOMAIN q.items /\ DOMAIN q.items = 1 .. Len(q.items) /\ q.items \in Seq(Track)
        /\ Upcoming(q) = q.current + 1 .. Len(q.items) /\ q.current \in Nat /\ Len(q.items) \in Nat
    BY OneRow, GoodParts
  <2>2. \A m, n \in Upcoming(q) : m < n => SortsBefore(q, m, n)
    BY <2>1, RankIs DEF SortsBefore
  <2>3. same \in Bijection(Upcoming(q), Upcoming(q))
    BY DEF Bijection, Injection, Surjection, IsInjective
  <2>4. same \in StableSorts(q)
    BY <2>2, <2>3 DEF StableSorts
  <2>5. Arranged(q, same) = q.items
    <3>1. \A n \in DOMAIN q.items : n > q.current => n \in Upcoming(q)
      BY <2>1
    <3>2. Arranged(q, same) = [n \in DOMAIN q.items |-> q.items[n]]
      BY <3>1 DEF Arranged
    <3> QED
      BY <2>1, <3>2
  <2> HIDE DEF same
  <2>6. \A p \in StableSorts(q) : p = same
    BY <2>4, OneSort
  <2>7. \A r \in Restored(q) : r.items = q.items
    BY <1>2, <2>5, <2>6 DEF Restored, Rearranged
  <2>8. Restored(q) # {}
    BY <1>2, <2>4 DEF Restored
  <2> QED
    BY <2>7, <2>8
<1> QED
  BY <1>1, <1>2

\* What the sort does to the rows depends on the sort alone.
LEMMA RestoredItems ==
    ASSUME NEW q, GoodQueue(q), q.order # <<>>, NEW p \in StableSorts(q)
    PROVE  (CHOOSE r \in Restored(q) : TRUE).items = Arranged(q, p)
<1>1. \A x \in StableSorts(q) : x = p
  BY OneSort
<1>2. \A r \in Restored(q) : r.items = Arranged(q, p)
  BY <1>1 DEF Restored, Rearranged
<1>3. Restored(q) # {}
  BY DEF Restored
<1> QED
  BY <1>2, <1>3

LEMMA SamePlan ==
    ASSUME NEW q, NEW r, GoodQueue(q), GoodQueue(r), AgreeOnRows(q, r),
           r.current = q.current, Len(r.items) = Len(q.items),
           \A n \in 1 .. Len(q.items) : r.items[n].video = q.items[n].video
    PROVE  PlannedVideos(r) = PlannedVideos(q)
<1> DEFINE plan(x) == (CHOOSE y \in Restored(x) : TRUE).items
           size    == Len(q.items)
           from    == q.current + 1
<1>1. /\ q.items \in Seq(Track) /\ r.items \in Seq(Track) /\ size \in Nat
      /\ q.current \in 0 .. size /\ from \in 1 .. size + 1 /\ Len(r.items) = size
      /\ DOMAIN q.items = 1 .. size /\ DOMAIN r.items = 1 .. size
  BY GoodParts
<1>2. /\ PlannedVideos(q) = VideosOf(SubSeq(plan(q), from, size))
      /\ PlannedVideos(r) = VideosOf(SubSeq(plan(r), from, size))
  BY DEF PlannedVideos, Count
<1> HIDE DEF plan, from
<1>3. SUFFICES VideosOf(SubSeq(plan(r), from, size)) = VideosOf(SubSeq(plan(q), from, size))
  BY <1>2
<1> HIDE DEF size
<1>4. CASE \A n \in Upcoming(q) : ~ Knows(q, q.items[n].uid)
  <2>1. \A n \in Upcoming(r) : ~ Knows(r, r.items[n].uid)
    BY <1>4 DEF AgreeOnRows
  <2>2. plan(q) = q.items /\ plan(r) = r.items
    BY <1>4, <2>1, NothingToRestore DEF plan
  <2>3. \A n \in from .. size : r.items[n].video = q.items[n].video
    BY <1>1 DEF size
  <2> QED
    BY <1>1, <2>2, <2>3, VideosOfPart DEF size
<1>5. CASE \E n \in Upcoming(q) : Knows(q, q.items[n].uid)
  <2>1. \E n \in Upcoming(r) : Knows(r, r.items[n].uid)
    BY <1>5 DEF AgreeOnRows
  <2>2. q.order # <<>> /\ r.order # <<>>
    BY <1>5, <2>1 DEF Knows
  <2>3. Upcoming(r) = Upcoming(q) /\ \A m, n \in Upcoming(q) : SortsBefore(r, m, n) <=> SortsBefore(q, m, n)
    BY SameSorts DEF AgreeOnRows
  <2>4. StableSorts(r) = StableSorts(q)
    <3>1. ASSUME NEW p \in Bijection(Upcoming(q), Upcoming(q))
          PROVE  \A m, n \in Upcoming(q) : SortsBefore(r, p[m], p[n]) <=> SortsBefore(q, p[m], p[n])
      BY <2>3 DEF Bijection, Injection
    <3> QED
      BY <2>3, <3>1 DEF StableSorts
  <2>5. CASE StableSorts(q) = {}
    <3>1. Restored(q) = {} /\ Restored(r) = {}
      BY <2>2, <2>4, <2>5 DEF Restored
    <3> QED
      BY <3>1 DEF plan
  <2>6. ASSUME NEW p \in StableSorts(q)
        PROVE  VideosOf(SubSeq(plan(r), from, size)) = VideosOf(SubSeq(plan(q), from, size))
    <3>1. plan(q) = Arranged(q, p) /\ plan(r) = Arranged(r, p)
      BY <2>2, <2>4, <2>6, RestoredItems DEF plan
    <3>2. p \in Bijection(Upcoming(q), Upcoming(q)) /\ p \in Bijection(Upcoming(r), Upcoming(r))
      BY <2>3, <2>6 DEF StableSorts
    <3>3. /\ Arranged(q, p) \in Seq(Track) /\ Len(Arranged(q, p)) = size
          /\ Arranged(r, p) \in Seq(Track) /\ Len(Arranged(r, p)) = size
      BY <1>1, <3>2, ArrangedFacts DEF GoodItems, size
    <3>4. \A n \in from .. size : Arranged(r, p)[n].video = Arranged(q, p)[n].video
      <4> SUFFICES ASSUME NEW n \in from .. size PROVE Arranged(r, p)[n].video = Arranged(q, p)[n].video
        OBVIOUS
      <4>1. n \in 1 .. size /\ n > q.current /\ n \in Upcoming(q)
        BY <1>1 DEF from, Upcoming, Count, size
      <4>2. p[n] \in Upcoming(q)
        BY <3>2, <4>1 DEF Bijection, Injection
      <4>3. p[n] \in 1 .. size
        BY <4>2, OneRow DEF size
      <4>4. Arranged(q, p)[n] = q.items[p[n]] /\ Arranged(r, p)[n] = r.items[p[n]]
        BY <1>1, <4>1 DEF Arranged
      <4> QED
        BY <4>3, <4>4 DEF size
    <3> QED
      BY <1>1, <3>1, <3>3, <3>4, VideosOfPart
  <2> QED
    BY <2>5, <2>6
<1> QED
  BY <1>4, <1>5

-----------------------------------------------------------------------------
(* A queue and the launch from its snapshot *)

\* What restoreSession promises of a queue q, for the queue r it makes.
Reopened(q, r) ==
    /\ CurrentVideo(r) = CurrentVideo(q)
    /\ IsPrefix(UpcomingVideos(r), UpcomingVideos(q))
    /\ Count(q) <= KeptRows =>
          VideosOf(r.items) = VideosOf(q.items) /\ PlannedVideos(r) = PlannedVideos(q)

LEMMA PrefixIs ==
    ASSUME NEW S, NEW s \in Seq(S), NEW t \in Seq(S), Len(s) <= Len(t),
           \A n \in 1 .. Len(s) : s[n] = t[n]
    PROVE  IsPrefix(s, t)
<1> DEFINE size == Len(s)
<1>1. size \in Nat /\ Len(t) \in Nat /\ size <= Len(t)
  OBVIOUS
<1>2. (\A n \in 1 .. size : s[n] \in S) /\ \A n \in 1 .. size : t[n] \in S
  OBVIOUS
<1>3. /\ SubSeq(s, 1, size) \in Seq(S) /\ Len(SubSeq(s, 1, size)) = size
      /\ \A n \in 1 .. size : SubSeq(s, 1, size)[n] = s[1 + n - 1]
  BY <1>1, <1>2, SubSeqProperties
<1>4. /\ SubSeq(t, 1, size) \in Seq(S) /\ Len(SubSeq(t, 1, size)) = size
      /\ \A n \in 1 .. size : SubSeq(t, 1, size)[n] = t[1 + n - 1]
  BY <1>1, <1>2, SubSeqProperties
<1> DEFINE a == SubSeq(s, 1, size)
           b == SubSeq(t, 1, size)
<1>5. \A n \in 1 .. size : a[n] = b[n]
  BY <1>3, <1>4
<1> HIDE DEF a, b
<1>6. a = b
  BY <1>3, <1>4, <1>5 DEF a, b
<1> QED
  BY <1>6 DEF IsPrefix, a, b

LEMMA UpcomingVideosAre ==
    ASSUME NEW q, GoodQueue(q)
    PROVE  /\ UpcomingVideos(q) \in Seq(Videos \cup {NoVideo})
           /\ Len(UpcomingVideos(q)) = Len(q.items) - q.current
           /\ \A n \in 1 .. Len(q.items) - q.current : UpcomingVideos(q)[n] = q.items[q.current + n].video
<1> DEFINE size == Len(q.items) - q.current
           from == q.current + 1
           part == SubSeq(q.items, from, Len(q.items))
<1>1. /\ q.items \in Seq(Track) /\ Len(q.items) \in Nat /\ q.current \in Nat /\ size \in Nat
      /\ from \in 1 .. Len(q.items) + 1 /\ Len(q.items) - from + 1 = size
  BY GoodParts
<1>2. \A n \in from .. Len(q.items) : q.items[n] \in Track
  BY <1>1
<1>3. /\ part \in Seq(Track) /\ Len(part) = IF from <= Len(q.items) THEN Len(q.items) - from + 1 ELSE 0
      /\ \A n \in 1 .. Len(q.items) - from + 1 : part[n] = q.items[from + n - 1]
  BY <1>1, <1>2, SubSeqProperties
<1>4. UpcomingVideos(q) = VideosOf(part)
  BY DEF UpcomingVideos, Count
<1>5. \A n \in 1 .. size : from + n - 1 = q.current + n
  BY <1>1
<1> HIDE DEF part, size
<1>6. Len(part) = size
  BY <1>1, <1>3
<1> HIDE DEF from
<1>7. DOMAIN part = 1 .. size /\ \A n \in 1 .. size : part[n] = q.items[q.current + n] /\ part[n] \in Track
  BY <1>1, <1>3, <1>5, <1>6
<1>8. VideosOf(part) = [n \in 1 .. size |-> part[n].video]
  BY <1>7 DEF VideosOf
<1>9. \A n \in 1 .. size : part[n].video \in Videos \cup {NoVideo}
  BY <1>7 DEF Track
<1>10. VideosOf(part) \in [1 .. size -> Videos \cup {NoVideo}]
  BY <1>8, <1>9
<1>11. VideosOf(part) \in Seq(Videos \cup {NoVideo}) /\ Len(VideosOf(part)) = size
  BY <1>1, <1>10
<1>12. \A n \in 1 .. size : VideosOf(part)[n] = q.items[q.current + n].video
  BY <1>7, <1>8
<1> QED
  BY <1>4, <1>11, <1>12 DEF size

LEMMA ReopenedFromSnapshot ==
    ASSUME NEW q, GoodQueue(q), q.current # 0, NEW s \in Snapshots(q, KeptRows),
           NEW r \in FromSnapshots(EmptyQueue, s)
    PROVE  Reopened(q, r)
<1>1. GoodSnapshot(s)
  BY SnapshotIs
<1>2. PICK first : RowsOf(s, q, first) /\ OrderOf(s, q, first)
  BY SnapshotIs
<1>3. GoodQueue(r) /\ LaunchedFrom(r, s)
  BY <1>1, LaunchedIs
<1> DEFINE size == Len(r.items)
<1>4. /\ q.items \in Seq(Track) /\ Len(q.items) \in Nat /\ q.current \in 1 .. Len(q.items)
      /\ r.items \in Seq(Track) /\ size \in Nat /\ r.current \in 0 .. size
      /\ DOMAIN q.items = 1 .. Len(q.items) /\ DOMAIN r.items = 1 .. size
  BY <1>3, GoodParts
<1>5. /\ first \in 1 .. q.current /\ r.current = q.current - first + 1 /\ r.current <= size
      /\ first + size - 1 <= Len(q.items)
      /\ \A n \in 1 .. size : r.items[n].video = q.items[first + n - 1].video
      /\ Len(q.items) <= KeptRows => first = 1 /\ size = Len(q.items)
  BY <1>2, <1>3 DEF RowsOf, LaunchedFrom
<1>6. CurrentVideo(r) = CurrentVideo(q)
  <2>1. r.current \in 1 .. size /\ first + r.current - 1 = q.current
    BY <1>4, <1>5, SMTT(20)
  <2> HIDE DEF size
  <2> QED
    BY <1>5, <2>1 DEF CurrentVideo
<1>7. IsPrefix(UpcomingVideos(r), UpcomingVideos(q))
  <2> DEFINE a == UpcomingVideos(r)
             b == UpcomingVideos(q)
  <2>1. /\ a \in Seq(Videos \cup {NoVideo}) /\ Len(a) = size - r.current
        /\ \A n \in 1 .. size - r.current : a[n] = r.items[r.current + n].video
    BY <1>3, UpcomingVideosAre
  <2>2. /\ b \in Seq(Videos \cup {NoVideo}) /\ Len(b) = Len(q.items) - q.current
        /\ \A n \in 1 .. Len(q.items) - q.current : b[n] = q.items[q.current + n].video
    BY UpcomingVideosAre
  <2> HIDE DEF a, b, size
  <2>3. size - r.current <= Len(q.items) - q.current
    BY <1>4, <1>5
  <2>4. ASSUME NEW n \in 1 .. size - r.current PROVE a[n] = b[n]
    <3>0. /\ first \in Nat /\ r.current \in Nat /\ q.current \in Nat /\ Len(q.items) \in Nat /\ size \in Nat
          /\ n \in Nat /\ 1 <= n /\ n <= size - r.current /\ r.current = q.current - first + 1
      BY <1>4, <1>5
    <3>1. r.current + n \in 1 .. size /\ first + (r.current + n) - 1 = q.current + n
          /\ n \in 1 .. Len(q.items) - q.current
      <4> DEFINE here  == r.current
                 there == q.current
                 all   == Len(q.items)
      <4>1. here \in Nat /\ there \in Nat /\ all \in Nat /\ here = there - first + 1 /\ n <= size - here
            /\ size - here <= all - there
        BY <2>3, <3>0
      <4> HIDE DEF here, there, all
      <4>2. here + n \in 1 .. size /\ first + (here + n) - 1 = there + n /\ n \in 1 .. all - there
        BY <3>0, <4>1
      <4> QED
        BY <4>2 DEF here, there, all
    <3>2. r.items[r.current + n].video = q.items[first + (r.current + n) - 1].video
      BY <1>5, <3>1
    <3> QED
      BY <2>1, <2>2, <3>1, <3>2
  <2> QED
    BY <2>1, <2>2, <2>3, <2>4, PrefixIs DEF a, b
<1>8. ASSUME Count(q) <= KeptRows
      PROVE  VideosOf(r.items) = VideosOf(q.items) /\ PlannedVideos(r) = PlannedVideos(q)
  <2>1. first = 1 /\ size = Len(q.items)
    BY <1>5, <1>8 DEF Count
  <2>2. r.current = q.current /\ \A n \in 1 .. Len(q.items) : 1 + n - 1 = n
    BY <1>4, <1>5, <2>1
  <2>3. \A n \in 1 .. Len(q.items) : r.items[n].video = q.items[n].video
    BY <1>5, <2>1, <2>2
  <2>4. VideosOf(r.items) = VideosOf(q.items)
    BY <1>4, <2>1, <2>3 DEF VideosOf
  <2>5. /\ Upcoming(r) = Upcoming(q) /\ Upcoming(q) \subseteq 1 .. Len(q.items)
        /\ Len(s.tracks) = Len(q.items)
    <3>1. Upcoming(r) = Upcoming(q) /\ Len(s.tracks) = Len(q.items)
      BY <1>3, <2>1, <2>2 DEF LaunchedFrom, Upcoming, Count
    <3> QED
      BY <1>4, <3>1, OneRow
  <2>6. \A n \in 1 .. Len(q.items) : r.items[n].uid = n
    BY <1>3, <2>5 DEF LaunchedFrom
  <2>7. \A n \in Upcoming(q) : Knows(r, r.items[n].uid) <=> Knows(q, q.items[n].uid)
    <3> SUFFICES ASSUME NEW n \in Upcoming(q) PROVE Knows(r, n) <=> Knows(q, q.items[n].uid)
      BY <2>5, <2>6
    <3>1. Knows(r, n) <=> n \in Range(s.order)
      BY <1>3, <2>5 DEF LaunchedFrom
    <3>2. n \in 1 .. Len(s.tracks) /\ first + n - 1 = n
      BY <2>1, <2>2, <2>5
    <3>3. n \in Range(s.order) <=> Knows(q, q.items[first + n - 1].uid)
      BY <1>2, <3>2 DEF OrderOf
    <3> QED
      BY <3>1, <3>2, <3>3
  <2>8. \A m, n \in Upcoming(q) :
           OrderedBefore(r, r.items[m].uid, r.items[n].uid) => OrderedBefore(q, q.items[m].uid, q.items[n].uid)
    <3> SUFFICES ASSUME NEW m \in Upcoming(q), NEW n \in Upcoming(q), OrderedBefore(r, m, n)
                 PROVE  OrderedBefore(q, q.items[m].uid, q.items[n].uid)
      BY <2>5, <2>6
    <3>1. PICK i \in DOMAIN s.order, j \in DOMAIN s.order : i < j /\ s.order[i] = m /\ s.order[j] = n
      BY <1>3 DEF LaunchedFrom
    <3>2. OrderedBefore(q, q.items[first + s.order[i] - 1].uid, q.items[first + s.order[j] - 1].uid)
      BY <1>2, <3>1 DEF OrderOf
    <3>3. first + m - 1 = m /\ first + n - 1 = n
      BY <2>1, <2>2, <2>5
    <3> QED
      BY <3>1, <3>2, <3>3
  <2>9. AgreeOnRows(q, r)
    BY <2>5, <2>7, <2>8 DEF AgreeOnRows
  <2>10. PlannedVideos(r) = PlannedVideos(q)
    BY <1>3, <2>1, <2>2, <2>3, <2>9, SamePlan
  <2> QED
    BY <2>4, <2>10
<1> QED
  BY <1>6, <1>7, <1>8 DEF Reopened

LEMMA ReopenedSame == ASSUME NEW q, GoodQueue(q) PROVE Reopened(q, q)
<1>1. UpcomingVideos(q) \in Seq(Videos \cup {NoVideo}) /\ Len(UpcomingVideos(q)) \in Nat
  BY UpcomingVideosAre
<1>2. IsPrefix(UpcomingVideos(q), UpcomingVideos(q))
  BY <1>1 DEF IsPrefix
<1> QED
  BY <1>2 DEF Reopened

-----------------------------------------------------------------------------
(* The invariant *)

AppGood == app \in {"open", "quit", "crashed"} /\ at \in Places /\ unsaved \in BOOLEAN

Snapshot == [tracks : Seq(Track), current : Nat, order : Seq(Nat)]

Settings == [shuffle : BOOLEAN, queue : Snapshot, place : [key : Videos \cup {NoVideo}, at : Places]]

DiskGood == disk \in Settings /\ GoodSnapshot(disk.queue)

\* A place in the middle of a song is one that was heard of it, on disk and in
\* the app that runs.
Heard ==
    /\ disk.place.at = "middle" => disk.place.key \in heard
    /\ app = "open" /\ at = "middle" => queue.current # 0 /\ CurrentVideo(queue) \in heard

\* The queue is the one the snapshot was written of, or the one a launch made
\* of it.
Kept(q, s) == s \in Snapshots(q, KeptRows) \/ q \in FromSnapshots(EmptyQueue, s)

\* Unless it crashed, the app is owed nothing by the disk but what the timer is
\* still to write; and nothing at all once it has quit.
Saved ==
    /\ app # "crashed" => disk.shuffle = shuffle
    /\ app # "crashed" /\ ~ unsaved /\ queue.current # 0 => Kept(queue, disk.queue)
    /\ app = "quit" => ~ unsaved /\ disk.place = PlaceNow

SessionInv == Standing /\ AppGood /\ DiskGood /\ Heard /\ Saved

LEMMA EmptyQueueGood ==
    /\ GoodQueue(EmptyQueue) /\ CurrentUid(EmptyQueue) = 0
    /\ EmptyQueue \in Queue /\ EmptyQueue.current = 0
<1>1. GoodItems(<<>>, 0, 1)
  BY DEF GoodItems, Distinct, Range
<1>2. GoodQueue(EmptyQueue)
  BY <1>1, NoOrder, QueueOf DEF EmptyQueue
<1> QED
  BY <1>2, GoodParts DEF EmptyQueue, CurrentUid

LEMMA NoSnapshotGood == GoodSnapshot(NoSnapshot) /\ NoSnapshot \in Snapshot
<1>1. NoSnapshot \in Snapshot
  BY DEF NoSnapshot, Snapshot
<1>2. Len(NoSnapshot.tracks) = 0 /\ NoSnapshot.current = 0 /\ NoSnapshot.order = <<>>
  BY DEF NoSnapshot
<1>3. Distinct(<<>>, Itself) /\ Range(<<>>) = {}
  BY DEF Distinct, Range
<1>4. 0 <= KeptRows
  BY SessionAssumption
<1> QED
  BY <1>1, <1>2, <1>3, <1>4 DEF GoodSnapshot, Snapshot

LEMMA SnapshotsGood ==
    ASSUME NEW q, GoodQueue(q), NEW s \in Snapshots(q, KeptRows)
    PROVE  GoodSnapshot(s) /\ s \in Snapshot
<1>1. CASE q.current = 0
  BY <1>1, NoSnapshotGood DEF Snapshots
<1>2. CASE q.current # 0
  BY <1>2, SnapshotIs DEF GoodSnapshot, Snapshot
<1> QED
  BY <1>1, <1>2

LEMMA CurrentVideoIs ==
    ASSUME NEW q, GoodQueue(q), q.current # 0
    PROVE  CurrentVideo(q) \in Videos \cup {NoVideo}
<1>1. q.current \in DOMAIN q.items /\ q.items \in Seq(Track)
  BY GoodParts
<1>2. q.items[q.current] \in Track
  BY <1>1
<1> QED
  BY <1>2 DEF CurrentVideo, Track

LEMMA SessionInitInv == SessionInit => SessionInv
<1> SUFFICES ASSUME SessionInit PROVE SessionInv
  OBVIOUS
<1>1. Standing
  BY InitIInv DEF SessionInit, IInv
<1>2. disk = [shuffle |-> FALSE, queue |-> NoSnapshot, place |-> NoPlace]
  BY DEF SessionInit
<1>3. DiskGood
  BY <1>2, NoSnapshotGood DEF DiskGood, Settings, NoPlace, Places
<1>4. AppGood
  BY DEF SessionInit, AppGood, Places
<1>5. Heard /\ Saved
  BY <1>2 DEF SessionInit, Heard, Saved, NoPlace
<1> QED
  BY <1>1, <1>3, <1>4, <1>5 DEF SessionInv

\* Every call on the queue is a step of PlayQueue, and one that lets the song go
\* on leaves it where it is.
LEMMA StartIs ==
    ASSUME Standing, Start
    PROVE  Standing' /\ shuffle' = shuffle
<1>1. Next
  BY DEF Start, Next
<1>2. Standing'
  BY <1>1, NextKeeps DEF Keeps
<1>3. shuffle' = shuffle
  BY DEF Start, PlayTracks, StartQueue, GoTo, AddAllToQueue
<1> QED
  BY <1>2, <1>3

LEMMA EditIs ==
    ASSUME Standing, Edit
    PROVE  Standing' /\ shuffle' = shuffle /\ StaysOn(queue, queue')
<1> USE PlayQueueAssumption
<1>1. Next
  BY DEF Edit, Next
<1>2. Standing'
  BY <1>1, NextKeeps DEF Keeps
<1>3. GoodQueue(queue) /\ Count(queue) # 0 /\ queue.current > 0 /\ Count(queue) = Len(queue.items)
      /\ queue.current \in 1 .. Len(queue.items) /\ DOMAIN queue.items = 1 .. Len(queue.items)
  <2>1. GoodQueue(queue) /\ Count(queue) > 0
    BY DEF Standing, Edit
  <2> QED
    BY <2>1, GoodParts DEF Count
<1>4. ASSUME NEW list \in Lists, Len(list) = 1, PlayNext(list[1])
      PROVE  shuffle' = shuffle /\ StaysOn(queue, queue')
  <2> DEFINE one == <<list[1]>>
  <2>1. queue' = Inserted(queue, queue.current + 1, Chosen(one)) /\ shuffle' = shuffle
    BY <1>3, <1>4 DEF PlayNext
  <2>2. list[1] \in Videos \cup {NoVideo}
    BY <1>4
  <2>3. one \in Seq(Videos \cup {NoVideo})
    BY <2>2
  <2> HIDE DEF one
  <2>4. Chosen(one) \in Seq(Track) /\ queue.current + 1 \in 1 .. Len(queue.items) + 1
    BY <1>3, <2>3, ChosenTracks
  <2> QED
    BY <1>3, <2>1, <2>4, InsertedCurrent
<1>5. ASSUME NEW list \in Lists, AddAllToQueue(list)
      PROVE  shuffle' = shuffle /\ StaysOn(queue, queue')
  <2> DEFINE row == IF RadioStart(queue) = 0 THEN Count(queue) + 1 ELSE RadioStart(queue)
  <2>1. queue' = Inserted(queue, row, Chosen(list)) /\ shuffle' = shuffle
    BY <1>3, <1>5 DEF AddAllToQueue
  <2>2. row \in 1 .. Len(queue.items) + 1
    BY <1>3, RadioStartIs DEF Upcoming
  <2>3. Chosen(list) \in Seq(Track)
    BY ChosenTracks
  <2> HIDE DEF row
  <2> QED
    BY <1>3, <2>1, <2>2, <2>3, InsertedCurrent
<1>6. ASSUME NEW row \in DOMAIN queue.items, RemoveFromQueue(row)
      PROVE  shuffle' = shuffle /\ StaysOn(queue, queue')
  BY <1>3, <1>6, RemovedAtCurrent DEF RemoveFromQueue
<1>7. ASSUME NEW from, NEW to, MoveInQueue(from, to)
      PROVE  shuffle' = shuffle /\ StaysOn(queue, queue')
  BY <1>3, <1>7, MovedCurrentStays DEF MoveInQueue
<1>8. CASE ClearUpcoming
  BY <1>2, <1>3, <1>8, ClearedCurrent DEF ClearUpcoming
<1> QED
  BY <1>2, <1>4, <1>5, <1>6, <1>7, <1>8 DEF Edit

LEMMA ToggleShuffleIs ==
    ASSUME Standing, ToggleShuffle
    PROVE  Standing' /\ StaysOn(queue, queue')
<1>1. Next
  BY DEF ToggleShuffle, Next
<1>2. Standing'
  BY <1>1, NextKeeps DEF Keeps
<1>3. queue' \in Shuffled(queue) \cup Restored(queue)
  BY DEF ToggleShuffle, SetShuffle
<1> QED
  BY <1>2, <1>3, ShuffledCurrent DEF Standing

\* The settings after one of them is written.
LEMMA SettingsWritten ==
    ASSUME DiskGood
    PROVE  /\ \A on \in BOOLEAN :
                 LET d == [disk EXCEPT !.shuffle = on]
                 IN  d \in Settings /\ d.shuffle = on /\ d.queue = disk.queue /\ d.place = disk.place
           /\ \A s \in Snapshot :
                 LET d == [disk EXCEPT !.queue = s]
                 IN  d \in Settings /\ d.shuffle = disk.shuffle /\ d.queue = s /\ d.place = disk.place
           /\ \A p \in [key : Videos \cup {NoVideo}, at : Places] :
                 LET d == [disk EXCEPT !.place = p]
                 IN  d \in Settings /\ d.shuffle = disk.shuffle /\ d.queue = disk.queue /\ d.place = p
BY DEF DiskGood, Settings

LEMMA SettingsAtQuit ==
    ASSUME DiskGood, NEW s \in Snapshot, NEW p \in [key : Videos \cup {NoVideo}, at : Places],
           disk' = [disk EXCEPT !.queue = s, !.place = p]
    PROVE  disk' \in Settings /\ disk'.shuffle = disk.shuffle /\ disk'.queue = s /\ disk'.place = p
BY DEF DiskGood, Settings

LEMMA PlaceNowGood ==
    ASSUME Standing, AppGood, DiskGood, Heard, app = "open"
    PROVE  /\ PlaceNow \in [key : Videos \cup {NoVideo}, at : Places]
           /\ PlaceNow.at = "middle" => PlaceNow.key \in heard
<1>1. CASE queue.current = 0
  BY <1>1 DEF PlaceNow, DiskGood, Settings, Heard
<1>2. CASE queue.current # 0
  <2>1. CurrentVideo(queue) \in Videos \cup {NoVideo} /\ at \in Places
    BY <1>2, CurrentVideoIs DEF Standing, AppGood
  <2>2. PlaceNow = [key |-> CurrentVideo(queue), at |-> at]
    BY <1>2 DEF PlaceNow
  <2> QED
    BY <2>1, <2>2 DEF Heard
<1> QED
  BY <1>1, <1>2

\* What a call leaves to be saved.
LEMMA ChangedSaves ==
    ASSUME SessionInv, Changed, disk'.queue = disk.queue, disk'.shuffle = shuffle', app = "open"
    PROVE  Saved' /\ app' = "open" /\ unsaved' \in BOOLEAN
<1>1. app' = "open" /\ unsaved' = (unsaved \/ queue' # queue)
  BY DEF Changed
<1>2. unsaved' \in BOOLEAN
  BY <1>1
<1>3. ASSUME ~ unsaved', queue'.current # 0 PROVE Kept(queue', disk'.queue)
  BY <1>1, <1>3 DEF SessionInv, Saved
<1> QED
  BY <1>1, <1>2, <1>3 DEF Saved

LEMMA LaunchIs ==
    ASSUME SessionInv, Launch
    PROVE  /\ Standing' /\ at' \in Places /\ unsaved' \in BOOLEAN
           /\ at' = "middle" => queue'.current # 0 /\ CurrentVideo(queue') \in heard
           /\ ~ unsaved' /\ queue'.current # 0 => Kept(queue', disk.queue)
<1> USE SessionAssumption, PlayQueueAssumption
<1>1. Standing /\ disk \in Settings /\ GoodSnapshot(disk.queue) /\ Heard
  BY DEF SessionInv, DiskGood
<1>2. shuffle' = disk.shuffle /\ shuffle' \in BOOLEAN
  BY <1>1 DEF Launch, Settings
<1>3. CASE Restore
  <2>1. PICK q \in FromSnapshots(EmptyQueue, disk.queue) : queue' = q /\ track' = CurrentUid(q)
    BY <1>3 DEF Restore, Begin
  <2>2. GoodQueue(q) /\ LaunchedFrom(q, disk.queue)
    BY <1>1, LaunchedIs
  <2>3. Standing'
    BY <1>2, <2>1, <2>2 DEF Standing
  <2>4. at' = PlaceFor(queue') /\ unsaved' = FALSE /\ disk.queue # NoSnapshot
    BY <1>3 DEF Restore
  <2>5. at' \in Places /\ (at' = "middle" => disk.place = [key |-> CurrentVideo(queue'), at |-> "middle"])
    BY <2>4 DEF PlaceFor, Places
  <2>6. at' = "middle" => CurrentVideo(queue') \in heard
    BY <1>1, <2>5 DEF Heard
  <2>7. queue'.current # 0
    <3>1. queue'.current = disk.queue.current
      BY <2>1, <2>2 DEF LaunchedFrom
    <3>2. disk.queue.current = 0 => disk.queue = NoSnapshot
      <4> SUFFICES ASSUME disk.queue.current = 0 PROVE disk.queue = NoSnapshot
        OBVIOUS
      <4>1. /\ disk.queue \in Snapshot /\ Len(disk.queue.tracks) = 0
            /\ Range(disk.queue.order) \subseteq 1 .. 0
        BY <1>1 DEF Settings, GoodSnapshot
      <4>2. disk.queue.tracks = <<>>
        BY <4>1 DEF Snapshot
      <4>3. disk.queue.order = <<>>
        <5> DEFINE order == disk.queue.order
        <5>1. order \in Seq(Nat) /\ \A n \in DOMAIN order : order[n] \in 1 .. 0
          BY <4>1 DEF Snapshot, Range
        <5> HIDE DEF order
        <5>2. Len(order) = 0
          <6>1. SUFFICES ASSUME Len(order) # 0 PROVE FALSE
            OBVIOUS
          <6>2. 1 \in DOMAIN order
            BY <5>1, <6>1
          <6> QED
            BY <5>1, <6>2
        <5> QED
          BY <5>1, <5>2 DEF order
      <4> QED
        BY <4>1, <4>2, <4>3 DEF Snapshot, NoSnapshot
    <3> QED
      BY <2>4, <3>1, <3>2
  <2> QED
    BY <2>1, <2>3, <2>4, <2>5, <2>6, <2>7 DEF Kept
<1>4. CASE LoadLibrary
  <2> DEFINE songs == Chosen(LibraryList)
             fresh == Replaced(EmptyQueue, songs, 1)
  <2>1. /\ at' = "edge" /\ unsaved' = (songs # <<>>)
        /\ IF songs = <<>> THEN Begin(EmptyQueue)
           ELSE IF disk.shuffle THEN \E q \in Shuffled(fresh) : Begin(q)
           ELSE Begin(fresh)
    BY <1>4 DEF LoadLibrary
  <2>2. songs \in Seq(Track)
    <3>1. LibraryList \in Seq(Videos \cup {NoVideo})
      OBVIOUS
    <3> QED
      BY <3>1, ChosenTracks
  <2> HIDE DEF songs
  <2>3. GoodQueue(fresh)
    BY <2>2, EmptyQueueGood, ReplacedGood
  <2> HIDE DEF fresh
  <2>4. \A q \in Shuffled(fresh) : GoodQueue(q)
    BY <2>3, ShuffledGood
  <2>5. GoodQueue(queue') /\ track' = CurrentUid(queue')
    BY <2>1, <2>3, <2>4, EmptyQueueGood DEF Begin
  <2>6. Standing'
    BY <1>2, <2>5 DEF Standing
  <2>7. ~ unsaved' => queue'.current = 0
    BY <2>1, EmptyQueueGood DEF Begin
  <2> QED
    BY <2>1, <2>6, <2>7 DEF Places
<1> QED
  BY <1>3, <1>4 DEF Launch

LEMMA SessionNextInv == SessionInv /\ [SessionNext]_sessionVars => SessionInv'
<1> SUFFICES ASSUME SessionInv, [SessionNext]_sessionVars PROVE SessionInv'
  OBVIOUS
<1>i. Standing /\ AppGood /\ DiskGood /\ Heard /\ Saved
  BY DEF SessionInv
<1>1. CASE Start
  <2>1. Standing' /\ shuffle' = shuffle
    BY <1>1, <1>i, StartIs
  <2>2. app = "open" /\ at' = "edge" /\ Changed /\ disk' = disk /\ heard' = heard
    BY <1>1 DEF Start, Changed
  <2>3. disk.shuffle = shuffle
    BY <1>i, <2>2 DEF Saved
  <2>4. Saved' /\ app' = "open" /\ unsaved' \in BOOLEAN
    BY <2>1, <2>2, <2>3, ChangedSaves
  <2>5. AppGood' /\ DiskGood' /\ Heard'
    BY <1>i, <2>2, <2>4 DEF AppGood, Places, DiskGood, Heard
  <2> QED
    BY <2>1, <2>4, <2>5 DEF SessionInv
<1>2. CASE Edit
  <2>1. Standing' /\ shuffle' = shuffle /\ StaysOn(queue, queue')
    BY <1>2, <1>i, EditIs
  <2>2. app = "open" /\ at' = at /\ Changed /\ disk' = disk /\ heard' = heard
    BY <1>2 DEF Edit, Changed
  <2>3. disk.shuffle = shuffle
    BY <1>i, <2>2 DEF Saved
  <2>4. Saved' /\ app' = "open" /\ unsaved' \in BOOLEAN
    BY <2>1, <2>2, <2>3, ChangedSaves
  <2>5. AppGood' /\ DiskGood' /\ Heard'
    BY <1>i, <2>1, <2>2, <2>4 DEF AppGood, DiskGood, Heard, StaysOn, CurrentVideo
  <2> QED
    BY <2>1, <2>4, <2>5 DEF SessionInv
<1>3. CASE ToggleShuffle
  <2>1. Standing' /\ StaysOn(queue, queue')
    BY <1>3, <1>i, ToggleShuffleIs
  <2>2. app = "open" /\ at' = at /\ Changed /\ heard' = heard /\ disk' = [disk EXCEPT !.shuffle = shuffle']
    BY <1>3 DEF ToggleShuffle, Changed
  <2>3. shuffle' \in BOOLEAN
    BY <2>1 DEF Standing
  <2>4. disk' \in Settings /\ disk'.shuffle = shuffle' /\ disk'.queue = disk.queue /\ disk'.place = disk.place
    BY <1>i, <2>2, <2>3, SettingsWritten
  <2>5. Saved' /\ app' = "open" /\ unsaved' \in BOOLEAN
    BY <2>2, <2>4, ChangedSaves
  <2>6. AppGood' /\ DiskGood' /\ Heard'
    BY <1>i, <2>1, <2>2, <2>4, <2>5 DEF AppGood, DiskGood, Heard, StaysOn, CurrentVideo
  <2> QED
    BY <2>1, <2>5, <2>6 DEF SessionInv
<1>4. ASSUME NEW place \in Places, Hear(place)
      PROVE  SessionInv'
  <2>1. /\ app = "open" /\ queue.current # 0 /\ at' = place
        /\ heard' = IF place = "middle" THEN heard \cup {CurrentVideo(queue)} ELSE heard
        /\ UNCHANGED <<queue, shuffle, track, app, unsaved, disk>>
    BY <1>4 DEF Hear
  <2>2. Standing' /\ AppGood' /\ DiskGood'
    BY <1>i, <2>1 DEF Standing, AppGood, DiskGood
  <2>3. Heard'
    BY <1>i, <2>1 DEF Heard
  <2>4. Saved'
    BY <1>i, <2>1 DEF Saved
  <2> QED
    BY <2>2, <2>3, <2>4 DEF SessionInv
<1>5. CASE SaveQueue
  <2>1. PICK kept \in Snapshots(queue, KeptRows) : disk' = [disk EXCEPT !.queue = kept]
    BY <1>5 DEF SaveQueue
  <2>2. app = "open" /\ unsaved' = FALSE /\ UNCHANGED <<queue, shuffle, track, app, at, heard>>
    BY <1>5 DEF SaveQueue
  <2>3. GoodSnapshot(kept) /\ kept \in Snapshot
    BY <1>i, SnapshotsGood DEF Standing
  <2>4. disk' \in Settings /\ disk'.shuffle = disk.shuffle /\ disk'.queue = kept /\ disk'.place = disk.place
    BY <1>i, <2>1, <2>3, SettingsWritten
  <2>5. Standing' /\ AppGood' /\ DiskGood' /\ Heard'
    BY <1>i, <2>2, <2>3, <2>4 DEF Standing, AppGood, DiskGood, Heard
  <2>6. Saved'
    BY <1>i, <2>2, <2>4 DEF Saved, Kept
  <2> QED
    BY <2>5, <2>6 DEF SessionInv
<1>6. CASE SavePlace
  <2>1. app = "open" /\ disk' = [disk EXCEPT !.place = PlaceNow]
        /\ UNCHANGED <<queue, shuffle, track, app, at, unsaved, heard>>
    BY <1>6 DEF SavePlace
  <2>2. PlaceNow \in [key : Videos \cup {NoVideo}, at : Places] /\ (PlaceNow.at = "middle" => PlaceNow.key \in heard)
    BY <1>i, <2>1, PlaceNowGood
  <2>3. disk' \in Settings /\ disk'.shuffle = disk.shuffle /\ disk'.queue = disk.queue /\ disk'.place = PlaceNow
    BY <1>i, <2>1, <2>2, SettingsWritten
  <2>4. Standing' /\ AppGood' /\ DiskGood' /\ Heard'
    BY <1>i, <2>1, <2>2, <2>3 DEF Standing, AppGood, DiskGood, Heard
  <2>5. Saved'
    BY <1>i, <2>1, <2>3 DEF Saved
  <2> QED
    BY <2>4, <2>5 DEF SessionInv
<1>7. CASE Quit
  <2>1. PICK kept \in IF unsaved THEN Snapshots(queue, KeptRows) ELSE {disk.queue} :
           disk' = [disk EXCEPT !.queue = kept, !.place = PlaceNow]
    BY <1>7 DEF Quit
  <2>2. app = "open" /\ app' = "quit" /\ unsaved' = FALSE /\ UNCHANGED <<queue, shuffle, track, at, heard>>
    BY <1>7 DEF Quit
  <2>3. GoodSnapshot(kept) /\ kept \in Snapshot
    BY <1>i, <2>1, SnapshotsGood DEF Standing, DiskGood, Settings
  <2>4. PlaceNow \in [key : Videos \cup {NoVideo}, at : Places] /\ (PlaceNow.at = "middle" => PlaceNow.key \in heard)
    BY <1>i, <2>2, PlaceNowGood
  <2>5. disk' \in Settings /\ disk'.shuffle = disk.shuffle /\ disk'.queue = kept /\ disk'.place = PlaceNow
    BY <1>i, <2>1, <2>3, <2>4, SettingsAtQuit, Zenon
  <2>6. Standing' /\ AppGood' /\ DiskGood' /\ Heard'
    BY <1>i, <2>2, <2>3, <2>4, <2>5 DEF Standing, AppGood, DiskGood, Heard
  <2>7. queue.current # 0 => Kept(queue, kept)
    BY <1>i, <2>1, <2>2 DEF Saved, Kept
  <2>8. PlaceNow' = PlaceNow
    BY <2>2, <2>5 DEF PlaceNow
  <2>9. Saved'
    BY <1>i, <2>2, <2>5, <2>7, <2>8 DEF Saved
  <2> QED
    BY <2>6, <2>9 DEF SessionInv
<1>8. CASE Crash
  <2>1. /\ app' = "crashed" /\ queue' = EmptyQueue /\ track' = CurrentUid(EmptyQueue) /\ shuffle' = FALSE
        /\ at' = "edge" /\ unsaved' = FALSE /\ UNCHANGED <<disk, heard>>
    BY <1>8 DEF Crash, Begin
  <2>2. Standing'
    BY <2>1, EmptyQueueGood DEF Standing
  <2>3. AppGood' /\ DiskGood' /\ Heard' /\ Saved'
    BY <1>i, <2>1 DEF AppGood, Places, DiskGood, Heard, Saved
  <2> QED
    BY <2>2, <2>3 DEF SessionInv
<1>9. CASE Launch
  <2>1. /\ Standing' /\ at' \in Places /\ unsaved' \in BOOLEAN
        /\ at' = "middle" => queue'.current # 0 /\ CurrentVideo(queue') \in heard
        /\ ~ unsaved' /\ queue'.current # 0 => Kept(queue', disk.queue)
    BY <1>9, LaunchIs
  <2>2. app' = "open" /\ shuffle' = disk.shuffle /\ UNCHANGED <<disk, heard>>
    BY <1>9 DEF Launch
  <2>3. AppGood' /\ DiskGood' /\ Heard' /\ Saved'
    BY <1>i, <2>1, <2>2 DEF AppGood, DiskGood, Heard, Saved
  <2> QED
    BY <2>1, <2>3 DEF SessionInv
<1>10. CASE UNCHANGED sessionVars
  BY <1>i, <1>10 DEF sessionVars, SessionInv, Standing, AppGood, DiskGood, Heard, Saved, PlaceNow
<1> QED
  BY <1>1, <1>2, <1>3, <1>4, <1>5, <1>6, <1>7, <1>8, <1>9, <1>10 DEF SessionNext

LEMMA SessionAlways == SessionSpec => []SessionInv
BY SessionInitInv, SessionNextInv, PTL DEF SessionSpec

-----------------------------------------------------------------------------
(* Theorems *)

\* The queue, the settings and what the app keeps of itself have their types,
\* and the snapshot is never longer than kQueueKeptRows nor its order of rows
\* it has not.
THEOREM SessionTypes == SessionSpec => []SessionTypeOK
<1>1. SessionInv => SessionTypeOK
  <2> SUFFICES ASSUME SessionInv PROVE SessionTypeOK
    OBVIOUS
  <2>1. Standing /\ AppGood /\ disk \in Settings /\ GoodSnapshot(disk.queue)
    BY DEF SessionInv, DiskGood
  <2>2. TypeOK
    BY <2>1, StandingTypes
  <2> QED
    BY <2>1, <2>2 DEF SessionTypeOK, AppGood, Settings, GoodSnapshot
<1> QED
  BY <1>1, SessionAlways, PTL

\* A launch after quitting: the song, its place, the songs to come, the shuffle
\* flag and, when the queue was kept whole, all its rows and their order with
\* shuffle off.
LEMMA LaunchAfterQuitting ==
    SessionInv /\ [SessionNext]_sessionVars =>
       (app = "quit" /\ Launch /\ Count(queue) > 0 =>
           /\ CurrentVideo(queue') = CurrentVideo(queue)
           /\ at = "middle" => at' = "middle"
           /\ IsPrefix(UpcomingVideos(queue'), UpcomingVideos(queue))
           /\ shuffle' = shuffle
           /\ Count(queue) <= KeptRows =>
                 /\ VideosOf(queue'.items) = VideosOf(queue.items)
                 /\ PlannedVideos(queue') = PlannedVideos(queue))
<1> SUFFICES ASSUME SessionInv, app = "quit", Launch, Count(queue) > 0
             PROVE  Reopened(queue, queue') /\ (at = "middle" => at' = "middle") /\ shuffle' = shuffle
  BY DEF Reopened
<1>1. GoodQueue(queue) /\ GoodSnapshot(disk.queue)
  BY DEF SessionInv, Standing, DiskGood
<1>2. queue.current # 0
  BY <1>1, GoodParts DEF Count
<1>3. Kept(queue, disk.queue) /\ disk.shuffle = shuffle /\ disk.place = [key |-> CurrentVideo(queue), at |-> at]
  BY <1>2 DEF SessionInv, Saved, PlaceNow
<1>4. disk.queue # NoSnapshot
  <2>1. CASE disk.queue \in Snapshots(queue, KeptRows)
    <3>1. PICK first : RowsOf(disk.queue, queue, first)
      BY <1>1, <1>2, <2>1, SnapshotIs
    <3>2. queue.current \in Nat
      BY <1>1, GoodParts
    <3>3. disk.queue.current # 0
      BY <3>1, <3>2 DEF RowsOf
    <3> QED
      BY <3>3 DEF NoSnapshot
  <2>2. CASE queue \in FromSnapshots(EmptyQueue, disk.queue)
    <3>1. disk.queue.current = queue.current
      BY <1>1, <2>2, LaunchedIs DEF LaunchedFrom
    <3> QED
      BY <1>2, <3>1 DEF NoSnapshot
  <2> QED
    BY <1>3, <2>1, <2>2 DEF Kept
<1>5. Restore /\ shuffle' = disk.shuffle
  BY <1>4 DEF Launch, LoadLibrary
<1>6. PICK q \in FromSnapshots(EmptyQueue, disk.queue) : queue' = q
  BY <1>5 DEF Restore, Begin
<1>7. Reopened(queue, q)
  <2>1. CASE disk.queue \in Snapshots(queue, KeptRows)
    BY <1>1, <1>2, <2>1, ReopenedFromSnapshot
  <2>2. CASE queue \in FromSnapshots(EmptyQueue, disk.queue)
    <3>1. q = queue
      BY <1>1, <2>2, OneLaunch
    <3> QED
      BY <1>1, <3>1, ReopenedSame
  <2> QED
    BY <1>3, <2>1, <2>2 DEF Kept
<1>8. at = "middle" => at' = "middle"
  <2>1. at' = PlaceFor(queue')
    BY <1>5 DEF Restore
  <2>2. CurrentVideo(queue') = CurrentVideo(queue)
    BY <1>6, <1>7 DEF Reopened
  <2> QED
    BY <1>3, <2>1, <2>2 DEF PlaceFor
<1> QED
  BY <1>3, <1>5, <1>6, <1>7, <1>8

\* What quitting keeps is what the next launch opens on, whatever was queued,
\* moved or shuffled before; and crash or no crash, a song opens only at a place
\* that was heard of it (restoreSession, aboutToQuit).
THEOREM TheSessionIsKept == SessionSpec => SessionIsKept
<1>1. SessionInv /\ [SessionNext]_sessionVars =>
         (Launch /\ at' = "middle" => CurrentVideo(queue') \in heard)
  BY LaunchIs
<1>2. SessionSpec => QuitKeepsTheSession
  BY LaunchAfterQuitting, SessionAlways, PTL DEF SessionSpec, QuitKeepsTheSession
<1>3. SessionSpec => OpensWhereItWasHeard
  BY <1>1, SessionAlways, PTL DEF SessionSpec, OpensWhereItWasHeard
<1> QED
  BY <1>2, <1>3 DEF SessionIsKept
=============================================================================
