-------------------------- MODULE DriveSyncProofs --------------------------
(***************************************************************************)
(* What DriveSync promises, proved for any number of computers, of things  *)
(* done and songs played, of times the files are written, and of faults.   *)
(*                                                                         *)
(* What each computer remembers of the file, what its sync has read of it  *)
(* and what its sync has sent each say something of a version of the file, *)
(* and stay true while that version is the one in Drive, whoever writes    *)
(* the next: the invariant says so of one computer at a time (Sound), and  *)
(* of Drive asks only that a version once given is never given again       *)
(* (Benign).                                                               *)
(***************************************************************************)
EXTENDS DriveSync, FiniteSetTheorems, TLAPS

\* The types, named.
Libraries == SUBSET Things
Contents == SUBSET Libraries   \* one, or none known
Steps == {"none", "listing", "reading", "sending", "sent", "deleting"}
Remote == [id : Ids, version : Nat]
RunType ==
    [step : Steps, forced : BOOLEAN, periodic : BOOLEAN, refound : BOOLEAN, files : Seq(Remote),
     next : Nat, keptRead : BOOLEAN, kept : Contents, snapshotted : BOOLEAN, hash : Contents,
     changed : BOOLEAN, id : Ids \cup {0}, version : Nat, extra : Nat]
AppType ==
    [signedIn : BOOLEAN, held : BOOLEAN, edited : BOOLEAN, played : BOOLEAN, synced : BOOLEAN,
     periodDue : BOOLEAN, syncTimer : BOOLEAN, editTimer : BOOLEAN, again : BOOLEAN,
     againForced : BOOLEAN, run : RunType]
SavedType == [id : Ids \cup {0}, version : Nat, hash : Contents]

DriveTyped(dr, v) ==
    /\ DOMAIN dr \subseteq Ids
    /\ \A id \in DOMAIN dr : dr[id] \in [version : 1 .. v, holds : Libraries, newer : BOOLEAN]

\* A DriveSync between two handlers.
Whole(a) ==
    /\ a \in AppType
    /\ Running(a) => a.signedIn /\ ~a.held
    /\ ~Running(a) => a.run = NoRun

\* The file id is there, as it was written when Drive gave it that version.
Still(dr, id, v) == id \in DOMAIN dr /\ dr[id].version = v

\* All of a library but how its plays ended is in h.
AllOf(l, h) == \A d \in l : d[1] # "heard" => d \in h

\* What a computer with the library l has saved of the drive.
Remembered(l, s, dr, v) ==
    /\ s.version <= v
    /\ \A known \in s.hash : known \subseteq l
    /\ Still(dr, s.id, s.version) =>
          dr[s.id].holds \subseteq l /\ \A known \in s.hash : known \subseteq dr[s.id].holds

\* What a run has listed, and what it read of the first.
ReadOf(l, r, dr, v) ==
    /\ \A i \in DOMAIN r.files : r.files[i].version <= v
    /\ r.keptRead => r.files # <<>>
    /\ \A h \in r.kept :
          /\ r.files # <<>> /\ h \subseteq l
          /\ Still(dr, r.files[1].id, r.files[1].version) => dr[r.files[1].id].holds = h
ReadIsTrue(l, r, dr, v) ==
    /\ ReadOf(l, r, dr, v)
    /\ r.step = "listing" => r.files = <<>>
    /\ r.step = "reading" => r.files # <<>>

\* The library as a run has snapshotted it.
Snapshot(l, r) == \E h \in Libraries : r.hash = {h} /\ h \subseteq l /\ (~r.changed => AllOf(l, h))

\* What a run sends is the library as it was, what was known to be saved included.
SendsAll(l, r, s) ==
    /\ r.step \in {"sending", "sent", "deleting"} => r.snapshotted /\ Snapshot(l, r)
    /\ r.step \in {"sending", "sent"} => \A h \in r.hash : \A known \in s.hash : known \subseteq h
    /\ r.snapshotted /\ r.step \in {"listing", "reading"} => r.refound

\* What a run has sent, or found there.
Landed(l, r, dr, v) ==
    /\ r.version <= v
    /\ Still(dr, r.id, r.version) =>
          dr[r.id].holds \subseteq l /\ \A h \in r.hash : h \subseteq dr[r.id].holds

Sound(l, r, s, dr, v) ==
    /\ Remembered(l, s, dr, v) /\ ReadIsTrue(l, r, dr, v) /\ SendsAll(l, r, s)
    /\ r.step \in {"sent", "deleting"} => Landed(l, r, dr, v)

Typed ==
    /\ lib \in [Computers -> Libraries]
    /\ app \in [Computers -> AppType]
    /\ saved \in [Computers -> SavedType]
    /\ DriveTyped(drive, version)
    /\ faults \in 0 .. MaxFaults /\ version \in 0 .. MaxVersion

IInv ==
    /\ Typed
    /\ \A c \in Computers :
          Whole(app[c]) /\ Sound(lib[c], app[c].run, saved[c], drive, version)

\* A run that has only begun, or none.
Fresh(r) ==
    /\ r \in RunType /\ r.step \in {"none", "listing"}
    /\ r.files = <<>> /\ r.kept = {} /\ ~r.keptRead /\ ~r.snapshotted

\* What was in Drive is there as it was, or gone, or written since.
Benign(dr, v, dr2, v2) ==
    /\ v <= v2
    /\ \A id \in DOMAIN dr2 : (id \in DOMAIN dr /\ dr2[id] = dr[id]) \/ dr2[id].version > v

\* A DriveSync a that, as a2, takes all that was done here for sent.
TakesForSent(a, a2) ==
    /\ a.edited \/ a.played
    /\ ~a.run.refound
    /\ a2.synced /\ ~a2.edited /\ ~a2.played
Sent(a, a2, s2, l2, dr2) ==
    TakesForSent(a, a2) /\ Still(dr2, s2.id, s2.version) => AllOf(l2, dr2[s2.id].holds)

SameFlags(a, a2) == a2.edited = a.edited /\ a2.played = a.played /\ a2.synced = a.synced

\* What a computer may become in a step.
Becomes(a, l2, a2, s2, dr2, v2) ==
    /\ l2 \in Libraries /\ Whole(a2) /\ s2 \in SavedType
    /\ Sound(l2, a2.run, s2, dr2, v2)
    /\ Sent(a, a2, s2, l2, dr2)

-----------------------------------------------------------------------------
(* The shapes.                                                              *)

\* What a library can hold is finite: the next thing done has a number.
LEMMA ThingsAreFinite == IsFiniteSet(Things)
  <1>1. IsFiniteSet(1 .. MaxDone) /\ IsFiniteSet(1 .. MaxPlays)
    BY FS_Interval, DriveSyncAssumption
  <1>2. IsFiniteSet({"edit"}) /\ IsFiniteSet({"play"}) /\ IsFiniteSet({"heard"})
    BY FS_Singleton
  <1>3. IsFiniteSet({"play"} \cup {"heard"})
    BY <1>2, FS_Union
  <1>4. {"play"} \cup {"heard"} = {"play", "heard"}
    OBVIOUS
  <1>5. IsFiniteSet({"play", "heard"})
    BY <1>3, <1>4
  <1>6. IsFiniteSet({"edit"} \X (1 .. MaxDone))
    BY <1>1, <1>2, FS_Product
  <1>7. IsFiniteSet({"play", "heard"} \X (1 .. MaxPlays))
    BY <1>1, <1>5, FS_Product
  <1> QED BY <1>6, <1>7, FS_Union DEF Things

\* And what is done next is a thing a library can hold.
LEMMA NextHasANumber ==
    ASSUME lib \in [Computers -> Libraries], NEW kind
    PROVE  1 + Cardinality(OfKind(kind)) \in Nat /\ 1 + Cardinality(OfKind(kind)) >= 1
  <1>1. OfKind(kind) \in SUBSET Things
    BY DEF OfKind, Done, Libraries
  <1>2. IsFiniteSet(OfKind(kind))
    BY <1>1, ThingsAreFinite, FS_Subset
  <1>3. Cardinality(OfKind(kind)) \in Nat
    BY <1>2, FS_CardinalityType
  <1> QED BY <1>3

\* The files in Drive can be listed.
LEMMA DriveIsCounted ==
    ASSUME NEW dr, DOMAIN dr \subseteq Ids
    PROVE  Cardinality(DOMAIN dr) \in Nat
  <1>1. IsFiniteSet(Ids)
    BY FS_Interval, DriveSyncAssumption DEF Ids
  <1>2. IsFiniteSet(DOMAIN dr)
    BY <1>1, FS_Subset
  <1> QED BY <1>2, FS_CardinalityType

LEMMA FirstOfFiles ==
    ASSUME NEW f \in Seq(Remote), f # <<>>
    PROVE  f[1] \in Remote /\ 1 \in DOMAIN f
  <1>1. Len(f) \in Nat /\ DOMAIN f = 1 .. Len(f) /\ Len(f) # 0
    OBVIOUS
  <1>2. 1 \in DOMAIN f
    BY <1>1
  <1> QED BY <1>2

LEMMA NoFiles == <<>> \in Seq(Remote)
  OBVIOUS

LEMMA NoRunIsFresh == Fresh(NoRun) /\ NoRun.step = "none"
  BY DEF Fresh, NoRun, RunType, Steps, Contents, Libraries

LEMMA FoundIsFresh ==
    ASSUME NEW r \in RunType
    PROVE  /\ Found(r) \in RunType /\ Found(r).step = "listing"
           /\ Found(r).files = <<>> /\ Found(r).kept = {} /\ ~Found(r).keptRead
           /\ Found(r).snapshotted = r.snapshotted /\ Found(r).refound = r.refound
  <1>1. {} \in Contents
    BY DEF Contents
  <1> QED BY <1>1, NoFiles DEF Found, RunType, Steps

LEMMA LaunchedIsWhole ==
    ASSUME NEW s \in BOOLEAN, NEW h \in BOOLEAN
    PROVE  LET a == [Launched EXCEPT !.signedIn = s, !.held = h]
           IN Whole(a) /\ a.run = NoRun /\ ~a.synced /\ ~a.edited /\ ~a.played
  <1>1. NoRun \in RunType /\ NoRun.step = "none"
    BY NoRunIsFresh DEF Fresh
  <1> QED BY <1>1 DEF Whole, Running, Launched, AppType

\* Asked for a sync, a DriveSync arms a timer, or has another to come.
LEMMA RequestedIs ==
    ASSUME NEW a, Whole(a)
    PROVE  /\ Whole(Requested(a)) /\ SameFlags(a, Requested(a))
           /\ Requested(a).run = a.run
  BY DEF Whole, Running, Requested, SameFlags, AppType

\* A sync starts, where one can.
LEMMA StartedIs ==
    ASSUME NEW a, Whole(a), NEW forced \in BOOLEAN
    PROVE  /\ Whole(Started(a, forced)) /\ SameFlags(a, Started(a, forced))
           /\ Started(a, forced).run = a.run \/ Fresh(Started(a, forced).run)
  <1> DEFINE run == [NoRun EXCEPT !.step = "listing", !.forced = forced, !.periodic = a.periodDue]
             b == [a EXCEPT !.held = FALSE, !.syncTimer = FALSE, !.again = FALSE, !.againForced = FALSE,
                            !.periodDue = FALSE, !.run = run]
  <1>1. a \in AppType
    BY DEF Whole
  <1>2. a.periodDue \in BOOLEAN
    BY <1>1 DEF AppType
  <1>3. /\ run \in RunType /\ run.step = "listing" /\ run.files = <<>> /\ run.kept = {}
        /\ ~run.keptRead /\ ~run.snapshotted
    <2>1. NoRun \in RunType /\ Fresh(NoRun)
      BY NoRunIsFresh DEF Fresh
    <2>2. "listing" \in Steps
      BY DEF Steps
    <2> QED BY <1>2, <2>1, <2>2 DEF Fresh, RunType
  <1> HIDE DEF run
  <1>4. b \in AppType
    BY <1>1, <1>3 DEF AppType
  <1>5. /\ b.run = run /\ ~b.held /\ b.signedIn = a.signedIn
        /\ b.edited = a.edited /\ b.played = a.played /\ b.synced = a.synced
    BY <1>1 DEF AppType
  <1>6. Fresh(run)
    BY <1>3 DEF Fresh
  <1> HIDE DEF b
  <1>7. CASE Running(a) \/ ~a.signedIn \/ (a.held /\ ~forced)
    <2>1. Started(a, forced) = [a EXCEPT !.syncTimer = @ /\ Running(a)]
      BY <1>7 DEF Started
    <2> QED BY <1>1, <2>1 DEF Whole, Running, SameFlags, AppType
  <1>8. CASE ~(Running(a) \/ ~a.signedIn \/ (a.held /\ ~forced))
    <2>1. Started(a, forced) = b
      BY <1>8 DEF Started, b, run
    <2> QED BY <1>3, <1>4, <1>5, <1>6, <1>8, <2>1 DEF Whole, Running, SameFlags
  <1> QED BY <1>7, <1>8

\* A run ends: none is left, or the next has begun.
LEMMA EndedIs ==
    ASSUME NEW a \in AppType
    PROVE  Whole(Ended(a)) /\ SameFlags(a, Ended(a)) /\ Fresh(Ended(a).run)
  <1> DEFINE over == [a EXCEPT !.run = NoRun, !.again = FALSE, !.againForced = FALSE]
  <1>1. Fresh(NoRun) /\ NoRun \in RunType /\ NoRun.step = "none"
    BY NoRunIsFresh DEF Fresh
  <1>2. over \in AppType /\ over.run = NoRun
    BY <1>1 DEF AppType
  <1>3. SameFlags(a, over)
    BY DEF SameFlags, AppType
  <1>4. Ended(a) = IF a.againForced THEN Started(over, TRUE) ELSE IF a.again THEN Requested(over) ELSE over
    BY DEF Ended
  <1> HIDE DEF over
  <1>5. Whole(over)
    BY <1>1, <1>2 DEF Whole, Running
  <1>6. CASE a.againForced
    <2>1. Ended(a) = Started(over, TRUE)
      BY <1>4, <1>6
    <2> QED BY <1>1, <1>2, <1>3, <1>5, <2>1, StartedIs DEF SameFlags
  <1>7. CASE ~a.againForced /\ a.again
    <2>1. Ended(a) = Requested(over)
      BY <1>4, <1>7
    <2> QED BY <1>1, <1>2, <1>3, <1>5, <2>1, RequestedIs DEF SameFlags
  <1>8. CASE ~a.againForced /\ ~a.again
    <2>1. Ended(a) = over
      BY <1>4, <1>8
    <2> QED BY <1>1, <1>2, <1>3, <1>5, <2>1
  <1> QED BY <1>6, <1>7, <1>8

\* A run fails: what was to be sent stays to be sent.
LEMMA FailedIs ==
    ASSUME NEW a \in AppType, NEW held \in BOOLEAN
    PROVE  Whole(Failed(a, held)) /\ SameFlags(a, Failed(a, held)) /\ Fresh(Failed(a, held).run)
  <1> DEFINE b == [a EXCEPT !.held = held, !.periodDue = @ \/ a.run.periodic,
                            !.syncTimer = IF held THEN @ ELSE TRUE]
  <1>1. a.run.periodic \in BOOLEAN
    BY DEF AppType, RunType
  <1>2. b \in AppType /\ SameFlags(a, b)
    BY <1>1 DEF AppType, SameFlags
  <1>3. Failed(a, held) = Ended(b)
    BY DEF Failed
  <1> HIDE DEF b
  <1> QED BY <1>2, <1>3, EndedIs DEF SameFlags

LEMMA SignedOutIs ==
    ASSUME NEW a \in AppType
    PROVE  Whole(SignedOut(a)) /\ SameFlags(a, SignedOut(a)) /\ SignedOut(a).run = NoRun
  <1>1. NoRun \in RunType /\ NoRun.step = "none"
    BY NoRunIsFresh DEF Fresh
  <1> QED BY <1>1 DEF Whole, Running, SignedOut, SameFlags, AppType

-----------------------------------------------------------------------------
(* What is true of Drive stays true.                                        *)

\* Nothing is asked of a run that has only begun.
LEMMA FreshIsSound ==
    ASSUME NEW l, NEW r, NEW s, NEW dr, NEW v, Fresh(r), Remembered(l, s, dr, v)
    PROVE  Sound(l, r, s, dr, v)
  <1>1. ReadIsTrue(l, r, dr, v)
    BY DEF Fresh, ReadIsTrue, ReadOf
  <1>2. SendsAll(l, r, s)
    BY DEF Fresh, SendsAll
  <1>3. r.step \notin {"sent", "deleting"}
    BY DEF Fresh
  <1> QED BY <1>1, <1>2, <1>3 DEF Sound

\* A version given before is of a file as it was then.
LEMMA StillThen ==
    ASSUME NEW dr, NEW v \in Nat, NEW dr2, NEW v2 \in Nat, DriveTyped(dr2, v2),
           Benign(dr, v, dr2, v2), NEW id, NEW w \in Nat, w <= v, Still(dr2, id, w)
    PROVE  Still(dr, id, w) /\ dr2[id] = dr[id]
  <1>1. dr2[id].version = w /\ id \in DOMAIN dr2
    BY DEF Still
  <1>2. ~(dr2[id].version > v)
    BY <1>1
  <1> QED BY <1>1, <1>2 DEF Still, Benign

LEMMA RememberedMoves ==
    ASSUME NEW l, NEW s \in SavedType, NEW dr, NEW v \in Nat, NEW dr2, NEW v2 \in Nat,
           DriveTyped(dr2, v2), Benign(dr, v, dr2, v2), Remembered(l, s, dr, v)
    PROVE  Remembered(l, s, dr2, v2)
  <1>1. s.version \in Nat /\ s.version <= v /\ v <= v2
    BY DEF SavedType, Remembered, Benign
  <1>2. s.version <= v2
    BY <1>1
  <1>3. ASSUME Still(dr2, s.id, s.version)
        PROVE  Still(dr, s.id, s.version) /\ dr2[s.id] = dr[s.id]
    <2> DEFINE id == s.id
               w == s.version
    <2>1. w \in Nat /\ w <= v /\ Still(dr2, id, w)
      BY <1>1, <1>3
    <2> HIDE DEF id, w
    <2>2. Still(dr, id, w) /\ dr2[id] = dr[id]
      BY <2>1, StillThen, ZenonT(20)
    <2> QED BY <2>2 DEF id, w
  <1> QED BY <1>2, <1>3 DEF Remembered

LEMMA LandedMoves ==
    ASSUME NEW l, NEW r \in RunType, NEW dr, NEW v \in Nat, NEW dr2, NEW v2 \in Nat,
           DriveTyped(dr2, v2), Benign(dr, v, dr2, v2), Landed(l, r, dr, v)
    PROVE  Landed(l, r, dr2, v2)
  <1>1. r.version \in Nat /\ r.version <= v /\ v <= v2
    BY DEF RunType, Landed, Benign
  <1>2. r.version <= v2
    BY <1>1
  <1>3. Still(dr2, r.id, r.version) => Still(dr, r.id, r.version) /\ dr2[r.id] = dr[r.id]
    BY <1>1, StillThen
  <1> QED BY <1>2, <1>3 DEF Landed

LEMMA ReadMoves ==
    ASSUME NEW l, NEW r \in RunType, NEW dr, NEW v \in Nat, NEW dr2, NEW v2 \in Nat,
           DriveTyped(dr2, v2), Benign(dr, v, dr2, v2), ReadIsTrue(l, r, dr, v)
    PROVE  ReadIsTrue(l, r, dr2, v2)
  <1>1. \A i \in DOMAIN r.files : r.files[i] \in Remote
    BY DEF RunType
  <1>2. \A i \in DOMAIN r.files : r.files[i].version \in Nat /\ r.files[i].version <= v
    BY <1>1 DEF Remote, ReadIsTrue, ReadOf
  <1>3. v <= v2
    BY DEF Benign
  <1>4. \A i \in DOMAIN r.files : r.files[i].version <= v2
    BY <1>2, <1>3
  <1>5. ASSUME r.files # <<>>, Still(dr2, r.files[1].id, r.files[1].version)
        PROVE  Still(dr, r.files[1].id, r.files[1].version) /\ dr2[r.files[1].id] = dr[r.files[1].id]
    <2>1. 1 \in DOMAIN r.files
      BY <1>5, FirstOfFiles DEF RunType
    <2>2. r.files[1].version \in Nat /\ r.files[1].version <= v
      BY <1>2, <2>1
    <2> DEFINE id == r.files[1].id
               w == r.files[1].version
    <2>3. w \in Nat /\ w <= v /\ Still(dr2, id, w)
      BY <1>5, <2>2
    <2> HIDE DEF id, w
    <2>4. Still(dr, id, w) /\ dr2[id] = dr[id]
      BY <2>3, StillThen, ZenonT(20)
    <2> QED BY <2>4 DEF id, w
  <1> QED BY <1>4, <1>5 DEF ReadIsTrue, ReadOf

\* What another computer does in Drive, or its owner, changes nothing of this.
LEMMA SoundMoves ==
    ASSUME NEW l, NEW r \in RunType, NEW s \in SavedType, NEW dr, NEW v \in Nat,
           NEW dr2, NEW v2 \in Nat, DriveTyped(dr2, v2), Benign(dr, v, dr2, v2),
           Sound(l, r, s, dr, v)
    PROVE  Sound(l, r, s, dr2, v2)
  <1>1. Remembered(l, s, dr2, v2)
    BY RememberedMoves DEF Sound
  <1>2. ReadIsTrue(l, r, dr2, v2)
    BY ReadMoves DEF Sound
  <1>3. Landed(l, r, dr, v) => Landed(l, r, dr2, v2)
    BY LandedMoves
  <1> QED BY <1>1, <1>2, <1>3 DEF Sound

\* Nor does a library that grows.
LEMMA GrownStays ==
    ASSUME NEW l, NEW l2, l \subseteq l2, NEW r, NEW s, NEW dr, NEW v
    PROVE  /\ Remembered(l, s, dr, v) => Remembered(l2, s, dr, v)
           /\ ReadIsTrue(l, r, dr, v) => ReadIsTrue(l2, r, dr, v)
           /\ Landed(l, r, dr, v) => Landed(l2, r, dr, v)
  <1>1. Remembered(l, s, dr, v) => Remembered(l2, s, dr, v)
    BY DEF Remembered
  <1>2. ReadIsTrue(l, r, dr, v) => ReadIsTrue(l2, r, dr, v)
    BY DEF ReadIsTrue, ReadOf
  <1>3. Landed(l, r, dr, v) => Landed(l2, r, dr, v)
    BY DEF Landed
  <1> QED BY <1>1, <1>2, <1>3

\* What is added while a run goes on is noted, or is how a play ended.
LEMMA SoundGrows ==
    ASSUME NEW l, NEW l2, l \subseteq l2, NEW r, NEW r2, NEW s, NEW dr, NEW v,
           Sound(l, r, s, dr, v),
           r2.step = r.step, r2.files = r.files, r2.keptRead = r.keptRead, r2.kept = r.kept,
           r2.snapshotted = r.snapshotted, r2.hash = r.hash, r2.refound = r.refound,
           r2.id = r.id, r2.version = r.version,
           r.step # "none" /\ ~r2.changed => ~r.changed /\ \A d \in l2 \ l : d[1] = "heard"
    PROVE  Sound(l2, r2, s, dr, v)
  <1>1. Remembered(l2, s, dr, v)
    BY GrownStays DEF Sound
  <1>2. ReadIsTrue(l2, r, dr, v)
    BY GrownStays DEF Sound
  <1>3. ReadIsTrue(l2, r2, dr, v)
    BY <1>2 DEF ReadIsTrue, ReadOf
  <1>4. r.step # "none" /\ Snapshot(l, r) => Snapshot(l2, r2)
    BY DEF Snapshot, AllOf
  <1>5. SendsAll(l2, r2, s)
    BY <1>4 DEF Sound, SendsAll
  <1>6. r2.step \in {"sent", "deleting"} => Landed(l2, r2, dr, v)
    <2>1. r2.step \in {"sent", "deleting"} => Landed(l2, r, dr, v)
      BY GrownStays DEF Sound
    <2> QED BY <2>1 DEF Landed
  <1> QED BY <1>1, <1>3, <1>5, <1>6 DEF Sound

-----------------------------------------------------------------------------
(* A step.                                                                  *)

\* Only one computer becomes other than it was.
StepOf(c, l2, a2, s2) ==
    /\ lib' = [lib EXCEPT ![c] = l2] /\ app' = [app EXCEPT ![c] = a2]
    /\ saved' = [saved EXCEPT ![c] = s2]
    /\ faults' \in 0 .. MaxFaults /\ version' \in 0 .. MaxVersion
    /\ DriveTyped(drive', version') /\ Benign(drive, version, drive', version')
    /\ Becomes(app[c], l2, a2, s2, drive', version')

\* What a sync takes for sent is sent: the step of SentIsAll.
AllSent ==
    \A c \in Computers :
        TakesForSent(app[c], app'[c]) /\ Still(drive', saved'[c].id, saved'[c].version)
            => AllOf(lib'[c], drive'[saved'[c].id].holds)

LEMMA OfOne ==
    ASSUME IInv, NEW c \in Computers
    PROVE  /\ lib[c] \in Libraries /\ app[c] \in AppType /\ app[c].run \in RunType
           /\ saved[c] \in SavedType /\ version \in Nat /\ version \in 0 .. MaxVersion
           /\ faults \in 0 .. MaxFaults
           /\ Whole(app[c]) /\ DriveTyped(drive, version)
           /\ Sound(lib[c], app[c].run, saved[c], drive, version)
           /\ Remembered(lib[c], saved[c], drive, version)
  <1>1. app[c] \in AppType
    BY DEF IInv, Typed
  <1>2. app[c].run \in RunType
    BY <1>1 DEF AppType
  <1> QED BY <1>1, <1>2, DriveSyncAssumption DEF IInv, Typed, Sound

\* Drive as it is is no worse for it.
LEMMA SameIsBenign ==
    ASSUME NEW dr, NEW v \in Nat, NEW v2 \in Nat, v2 >= v
    PROVE  Benign(dr, v, dr, v2)
  BY DEF Benign

\* A step of one computer keeps the invariant, for it and for the others.
LEMMA StepOfOne ==
    ASSUME IInv, NEW c \in Computers, NEW l2, NEW a2, NEW s2, StepOf(c, l2, a2, s2)
    PROVE  IInv' /\ AllSent
  <1>1. /\ lib \in [Computers -> Libraries] /\ app \in [Computers -> AppType]
        /\ saved \in [Computers -> SavedType]
    BY DEF IInv, Typed
  <1>2. l2 \in Libraries /\ a2 \in AppType /\ s2 \in SavedType
    BY DEF StepOf, Becomes, Whole
  <1>3. /\ lib' \in [Computers -> Libraries] /\ app' \in [Computers -> AppType]
        /\ saved' \in [Computers -> SavedType]
    BY <1>1, <1>2 DEF StepOf
  <1>4. Typed'
    BY <1>3 DEF Typed, StepOf
  <1>5. version \in Nat /\ version' \in Nat
    BY OfOne, DriveSyncAssumption DEF StepOf
  <1>6. lib'[c] = l2 /\ app'[c] = a2 /\ saved'[c] = s2
    BY <1>1 DEF StepOf
  <1>7. ASSUME NEW d \in Computers, d # c
        PROVE  lib'[d] = lib[d] /\ app'[d] = app[d] /\ saved'[d] = saved[d]
    BY <1>1, <1>7 DEF StepOf
  <1>8. ASSUME NEW d \in Computers
        PROVE  Whole(app'[d]) /\ Sound(lib'[d], app'[d].run, saved'[d], drive', version')
    <2>1. CASE d = c
      BY <1>6, <2>1 DEF StepOf, Becomes
    <2>2. CASE d # c
      <3>1. /\ app[d].run \in RunType /\ saved[d] \in SavedType /\ Whole(app[d])
            /\ Sound(lib[d], app[d].run, saved[d], drive, version)
        BY OfOne
      <3>2. DriveTyped(drive', version') /\ Benign(drive, version, drive', version')
        BY DEF StepOf
      <3>3. Sound(lib[d], app[d].run, saved[d], drive', version')
        BY <1>5, <3>1, <3>2, SoundMoves
      <3> QED BY <1>7, <2>2, <3>1, <3>3
    <2> QED BY <2>1, <2>2
  <1>9. AllSent
    <2> SUFFICES ASSUME NEW d \in Computers,
                        TakesForSent(app[d], app'[d]), Still(drive', saved'[d].id, saved'[d].version)
                 PROVE  AllOf(lib'[d], drive'[saved'[d].id].holds)
      BY DEF AllSent
    <2>1. CASE d = c
      <3>1. Sent(app[c], a2, s2, l2, drive')
        BY DEF StepOf, Becomes
      <3> QED BY <1>6, <2>1, <3>1 DEF Sent
    <2>2. CASE d # c
      <3>1. app'[d] = app[d]
        BY <1>7, <2>2
      <3> QED BY <3>1 DEF TakesForSent
    <2> QED BY <2>1, <2>2
  <1> QED BY <1>4, <1>8, <1>9 DEF IInv

\* A step that leaves Drive alone.
Within(c, l2, a2, s2) ==
    /\ Only(c, a2)
    /\ lib' = [lib EXCEPT ![c] = l2] /\ saved' = [saved EXCEPT ![c] = s2]
    /\ faults' \in 0 .. MaxFaults /\ UNCHANGED <<drive, version>>

LEMMA StepWithin ==
    ASSUME IInv, NEW c \in Computers, NEW l2, NEW a2, NEW s2, Within(c, l2, a2, s2),
           Becomes(app[c], l2, a2, s2, drive, version)
    PROVE  IInv' /\ AllSent
  <1>1. version \in Nat /\ version \in 0 .. MaxVersion /\ DriveTyped(drive, version)
    BY OfOne
  <1>2. Benign(drive, version, drive, version)
    BY <1>1, SameIsBenign
  <1>3. drive' = drive /\ version' = version
    BY DEF Within
  <1>4. /\ DriveTyped(drive', version') /\ Benign(drive, version, drive', version')
        /\ Becomes(app[c], l2, a2, s2, drive', version')
    BY <1>1, <1>2, <1>3
  <1>5. StepOf(c, l2, a2, s2)
    BY <1>1, <1>3, <1>4 DEF StepOf, Within, Only
  <1> QED BY <1>5, StepOfOne

\* What is not named is as it was.
LEMMA AsItWas ==
    ASSUME IInv, NEW c \in Computers
    PROVE  /\ UNCHANGED lib => lib' = [lib EXCEPT ![c] = lib[c]]
           /\ UNCHANGED saved => saved' = [saved EXCEPT ![c] = saved[c]]
           /\ UNCHANGED app => app' = [app EXCEPT ![c] = app[c]]
  BY DEF IInv, Typed

LEMMA FaultIs ==
    ASSUME faults \in 0 .. MaxFaults
    PROVE  Fault => faults' \in 0 .. MaxFaults
  BY DriveSyncAssumption DEF Fault

\* A run that has only begun, what is to be sent being as it was, or the launch.
LEMMA FreshBecomes ==
    ASSUME NEW a \in AppType, NEW l \in Libraries, NEW a2, NEW s2 \in SavedType, NEW dr, NEW v,
           Whole(a2), Fresh(a2.run), Remembered(l, s2, dr, v),
           SameFlags(a, a2) \/ ~a2.synced
    PROVE  Becomes(a, l, a2, s2, dr, v)
  <1>1. Sound(l, a2.run, s2, dr, v)
    BY FreshIsSound
  <1>2. ~TakesForSent(a, a2)
    BY DEF SameFlags, TakesForSent
  <1> QED BY <1>1, <1>2 DEF Becomes, Sent

\* The run as it was, what is to be sent being as it was.
LEMMA SameRunBecomes ==
    ASSUME NEW a \in AppType, NEW l \in Libraries, NEW a2, NEW s2 \in SavedType, NEW dr, NEW v,
           Whole(a2), SameFlags(a, a2), Sound(l, a2.run, s2, dr, v)
    PROVE  Becomes(a, l, a2, s2, dr, v)
  <1>1. ~TakesForSent(a, a2)
    BY DEF SameFlags, TakesForSent
  <1> QED BY <1>1 DEF Becomes, Sent

\* Nothing saved is nothing to be wrong about.
LEMMA NothingRemembered ==
    ASSUME NEW l, NEW dr, NEW v \in Nat, DriveTyped(dr, v)
    PROVE  NothingSaved \in SavedType /\ Remembered(l, NothingSaved, dr, v)
  <1>1. {} \in Contents
    BY DEF Contents
  <1>2. NothingSaved \in SavedType
    BY <1>1 DEF NothingSaved, SavedType
  <1>3. 0 \notin DOMAIN dr
    BY DEF DriveTyped, Ids
  <1> QED BY <1>2, <1>3 DEF Remembered, Still, NothingSaved

\* What an answer makes of the computer whose sync it is of.
Moves(c, l2, dr, v) ==
    \E a2, s2 : /\ Only(c, a2) /\ saved' = [saved EXCEPT ![c] = s2]
                /\ Becomes(app[c], l2, a2, s2, dr, v)

LEMMA MovesWithin ==
    ASSUME IInv, NEW c \in Computers, NEW l2, Moves(c, l2, drive, version),
           lib' = [lib EXCEPT ![c] = l2], UNCHANGED <<drive, version>>,
           faults' \in 0 .. MaxFaults
    PROVE  IInv' /\ AllSent
  <1>1. PICK a2, s2 : /\ Only(c, a2) /\ saved' = [saved EXCEPT ![c] = s2]
                      /\ Becomes(app[c], l2, a2, s2, drive, version)
    BY DEF Moves
  <1>2. Within(c, l2, a2, s2)
    BY <1>1 DEF Within
  <1> QED BY <1>1, <1>2, StepWithin

LEMMA MovesAcross ==
    ASSUME IInv, NEW c \in Computers, NEW l2, Moves(c, l2, drive', version'),
           lib' = [lib EXCEPT ![c] = l2],
           faults' \in 0 .. MaxFaults, version' \in 0 .. MaxVersion,
           DriveTyped(drive', version'), Benign(drive, version, drive', version')
    PROVE  IInv' /\ AllSent
  <1>1. PICK a2, s2 : /\ Only(c, a2) /\ saved' = [saved EXCEPT ![c] = s2]
                      /\ Becomes(app[c], l2, a2, s2, drive', version')
    BY DEF Moves
  <1>2. StepOf(c, l2, a2, s2)
    BY <1>1 DEF StepOf, Only
  <1> QED BY <1>2, StepOfOne

\* A run that goes on.
LEMMA RunGoesOn ==
    ASSUME IInv, NEW c \in Computers, Running(app[c]), NEW l2 \in Libraries, NEW r \in RunType,
           r.step # "none", NEW dr, NEW v, Sound(l2, r, saved[c], dr, v),
           Only(c, [app[c] EXCEPT !.run = r]), UNCHANGED saved
    PROVE  Moves(c, l2, dr, v)
  <1> DEFINE a2 == [app[c] EXCEPT !.run = r]
  <1>1. app[c] \in AppType /\ Whole(app[c]) /\ saved[c] \in SavedType
    BY OfOne
  <1>2. /\ a2 \in AppType /\ a2.run = r /\ SameFlags(app[c], a2)
        /\ a2.signedIn = app[c].signedIn /\ a2.held = app[c].held
    BY <1>1 DEF AppType, SameFlags
  <1>3. Only(c, a2)
    OBVIOUS
  <1> HIDE DEF a2
  <1>4. Whole(a2)
    BY <1>1, <1>2 DEF Whole, Running
  <1>5. Becomes(app[c], l2, a2, saved[c], dr, v)
    BY <1>1, <1>2, <1>4, SameRunBecomes
  <1>6. saved' = [saved EXCEPT ![c] = saved[c]]
    BY AsItWas
  <1> QED BY <1>3, <1>5, <1>6 DEF Moves

-----------------------------------------------------------------------------
(* How a sync ends.                                                         *)

\* What finishRun and removeExtras are called with: a file that holds what the run
\* says it does, of the library as it was snapshotted.
Ready(l, r, dr, v, refound) ==
    /\ r \in RunType /\ r.refound = refound
    /\ Landed(l, r, dr, v) /\ ReadOf(l, r, dr, v)
    /\ \A h \in r.hash : h \subseteq l
    /\ r.snapshotted /\ ~refound => Snapshot(l, r)
    /\ r.keptRead => r.snapshotted /\ Snapshot(l, r)

LEMMA FinishedIs ==
    ASSUME IInv, NEW c \in Computers, NEW l2 \in Libraries, NEW dr, NEW v \in Nat, NEW run,
           Ready(l2, run, dr, v, app[c].run.refound), Finished(c, run)
    PROVE  Moves(c, l2, dr, v)
  <1> DEFINE a == app[c]
             quiet == run.snapshotted /\ ~run.changed
             left == [edited |-> a.edited /\ ~quiet, played |-> a.played /\ ~quiet,
                      timer |-> a.editTimer /\ ~quiet]
             a1 == [a EXCEPT !.held = FALSE, !.synced = TRUE, !.edited = left.edited,
                             !.played = left.played, !.editTimer = left.timer, !.run = run]
             a2 == Ended(a1)
             s2 == [id |-> run.id, version |-> run.version, hash |-> run.hash]
  <1>1. Only(c, a2) /\ saved' = [saved EXCEPT ![c] = s2]
    BY DEF Finished
  <1>2. a \in AppType /\ run \in RunType
    BY OfOne DEF Ready
  <1>3. left.edited \in BOOLEAN /\ left.played \in BOOLEAN /\ left.timer \in BOOLEAN
    OBVIOUS
  <1>4. s2 \in SavedType
    BY <1>2 DEF RunType, SavedType
  <1>5. s2.id = run.id /\ s2.version = run.version /\ s2.hash = run.hash
    OBVIOUS
  <1>6. /\ a1 \in AppType
        /\ a1.edited = left.edited /\ a1.played = left.played
    <2> HIDE DEF left
    <2> QED BY <1>2, <1>3 DEF AppType
  <1> HIDE DEF a1
  <1>7. Whole(a2) /\ SameFlags(a1, a2) /\ Fresh(a2.run)
    BY <1>6, EndedIs
  <1>8. (a.edited \/ a.played) /\ ~a2.edited /\ ~a2.played => quiet
    BY <1>2, <1>6, <1>7 DEF SameFlags, AppType
  <1> HIDE DEF a2, s2
  <1>9. Remembered(l2, s2, dr, v)
    BY <1>5 DEF Ready, Remembered, Landed
  <1>10. Sound(l2, a2.run, s2, dr, v)
    BY <1>7, <1>9, FreshIsSound
  <1>11. Sent(a, a2, s2, l2, dr)
    <2> SUFFICES ASSUME TakesForSent(a, a2), Still(dr, s2.id, s2.version)
                 PROVE  AllOf(l2, dr[s2.id].holds)
      BY DEF Sent
    <2>1. run.snapshotted /\ ~run.changed /\ ~a.run.refound
      BY <1>8 DEF TakesForSent
    <2>2. Snapshot(l2, run)
      BY <2>1 DEF Ready
    <2>3. PICK h \in Libraries : run.hash = {h} /\ AllOf(l2, h)
      BY <2>1, <2>2 DEF Snapshot
    <2>4. h \subseteq dr[s2.id].holds
      BY <1>5, <2>3 DEF Ready, Landed
    <2> QED BY <2>3, <2>4 DEF AllOf
  <1>12. Becomes(a, l2, a2, s2, dr, v)
    BY <1>4, <1>7, <1>10, <1>11 DEF Becomes
  <1> QED BY <1>1, <1>12 DEF Moves

\* A second copy is still to be deleted, or the run is over.
LEMMA RemovingIs ==
    ASSUME IInv, NEW c \in Computers, NEW l2 \in Libraries, NEW dr, NEW v \in Nat, NEW run,
           Ready(l2, run, dr, v, app[c].run.refound), Remembered(l2, saved[c], dr, v),
           Running(app[c]), Removing(c, run)
    PROVE  Moves(c, l2, dr, v)
  <1>1. CASE Len(run.files) >= run.extra /\ run.keptRead
    <2> DEFINE r == [run EXCEPT !.step = "deleting"]
    <2>1. Only(c, [app[c] EXCEPT !.run = r]) /\ UNCHANGED saved
      BY <1>1 DEF Removing
    <2>2. run \in RunType
      BY DEF Ready
    <2>3. "deleting" \in Steps
      BY DEF Steps
    <2>4. /\ r \in RunType /\ r.step = "deleting" /\ r.files = run.files /\ r.keptRead = run.keptRead
          /\ r.kept = run.kept /\ r.snapshotted = run.snapshotted /\ r.hash = run.hash
          /\ r.changed = run.changed /\ r.id = run.id /\ r.version = run.version
      BY <2>2, <2>3 DEF RunType
    <2> HIDE DEF r
    <2>5. ReadIsTrue(l2, r, dr, v)
      BY <2>4 DEF Ready, ReadIsTrue, ReadOf
    <2>6. SendsAll(l2, r, saved[c])
      BY <1>1, <2>4 DEF Ready, SendsAll, Snapshot
    <2>7. Landed(l2, r, dr, v)
      BY <2>4 DEF Ready, Landed
    <2>8. Sound(l2, r, saved[c], dr, v)
      BY <2>5, <2>6, <2>7 DEF Sound
    <2> QED BY <2>1, <2>4, <2>8, RunGoesOn
  <1>2. CASE ~(Len(run.files) >= run.extra /\ run.keptRead)
    <2>1. Finished(c, run)
      BY <1>2 DEF Removing
    <2> QED BY <2>1, FinishedIs
  <1> QED BY <1>1, <1>2

\* What mergeAndUpload is called with: the files listed, and the first of them read,
\* unless there is none or it was seen before as it is.
ReadUp(l, r, s, dr, v, refound) ==
    /\ r \in RunType /\ r.refound = refound
    /\ r.step \in {"listing", "reading"}
    /\ ReadOf(l, r, dr, v)
    /\ ~r.keptRead /\ r.files # <<>> => r.files[1].id = s.id /\ r.files[1].version = s.version
    /\ r.snapshotted => refound

LEMMA MergedIs ==
    ASSUME IInv, NEW c \in Computers, NEW l2 \in Libraries, NEW run,
           ReadUp(l2, run, saved[c], drive, version, app[c].run.refound),
           Remembered(l2, saved[c], drive, version), Running(app[c]),
           MergeAndUpload(c, run, l2)
    PROVE  Moves(c, l2, drive, version)
  <1> DEFINE a == app[c]
             kept == run.files[1]
             snapped == [run EXCEPT !.snapshotted = TRUE, !.hash = {l2}, !.changed = FALSE]
             nothing == /\ ~run.forced /\ ~run.keptRead /\ Len(run.files) = 1
                        /\ a.synced /\ ~a.edited /\ (~a.played \/ ~run.periodic) /\ saved[c].hash # {}
             same == run.files # <<>> /\ {l2} = (IF run.keptRead THEN run.kept ELSE saved[c].hash)
  <1>1. /\ a \in AppType /\ Whole(a) /\ saved[c] \in SavedType /\ run \in RunType /\ version \in Nat
        /\ saved[c].hash \in Contents
    BY OfOne DEF ReadUp, SavedType
  <1>2. {l2} \in Contents
    BY DEF Contents
  <1>3. /\ snapped \in RunType /\ snapped.snapshotted /\ snapped.hash = {l2} /\ ~snapped.changed
        /\ snapped.files = run.files /\ snapped.keptRead = run.keptRead /\ snapped.kept = run.kept
        /\ snapped.refound = run.refound /\ snapped.step = run.step
    BY <1>1, <1>2 DEF RunType
  <1>4. run.files # <<>> => /\ kept \in Remote /\ kept.id \in Ids \cup {0} /\ kept.version \in Nat
                            /\ kept.version <= version
    <2> SUFFICES ASSUME run.files # <<>>
                 PROVE  /\ kept \in Remote /\ kept.id \in Ids \cup {0} /\ kept.version \in Nat
                        /\ kept.version <= version
      OBVIOUS
    <2>1. run.files \in Seq(Remote)
      BY <1>1 DEF RunType
    <2>2. kept \in Remote /\ 1 \in DOMAIN run.files
      BY <2>1, FirstOfFiles
    <2> QED BY <2>2 DEF Remote, ReadUp, ReadOf
  <1>5. ReadUp(l2, run, saved[c], drive, version, app[c].run.refound)
    OBVIOUS
  <1>6. CASE nothing
    <2> DEFINE r == [run EXCEPT !.id = kept.id, !.version = kept.version, !.hash = saved[c].hash]
    <2>1. Removing(c, r)
      BY <1>6 DEF MergeAndUpload
    <2>2. run.files # <<>>
      <3>1. Len(run.files) = 1
        BY <1>6
      <3>2. Len(<<>>) = 0
        OBVIOUS
      <3>3. 1 # 0
        OBVIOUS
      <3> QED BY <3>1, <3>2, <3>3, Zenon
    <2>3. /\ r \in RunType /\ r.refound = run.refound /\ r.files = run.files /\ r.keptRead = run.keptRead
          /\ r.kept = run.kept /\ r.id = kept.id /\ r.version = kept.version /\ r.hash = saved[c].hash
          /\ r.snapshotted = run.snapshotted /\ r.step = run.step
      BY <1>1, <1>4, <2>2 DEF RunType
    <2> HIDE DEF r
    <2>4. r.id = saved[c].id /\ r.version = saved[c].version
      BY <1>6, <2>2, <2>3 DEF ReadUp
    <2>5. Landed(l2, r, drive, version)
      BY <2>3, <2>4 DEF Remembered, Landed
    <2>6. ReadOf(l2, r, drive, version)
      BY <2>3 DEF ReadUp, ReadOf
    <2>7. Ready(l2, r, drive, version, app[c].run.refound)
      BY <1>6, <2>3, <2>5, <2>6 DEF ReadUp, Ready, Remembered
    <2> QED BY <1>1, <2>1, <2>7, RemovingIs
  <1>7. CASE ~nothing /\ same
    <2> DEFINE r == [snapped EXCEPT !.id = kept.id, !.version = kept.version]
    <2>1. Removing(c, r)
      BY <1>7 DEF MergeAndUpload
    <2> HIDE DEF snapped
    <2>2. /\ r \in RunType /\ r.refound = run.refound /\ r.files = run.files /\ r.keptRead = run.keptRead
          /\ r.kept = run.kept /\ r.id = kept.id /\ r.version = kept.version /\ r.hash = {l2}
          /\ r.snapshotted /\ ~r.changed
      BY <1>3, <1>4, <1>7 DEF RunType
    <2> HIDE DEF r
    <2>3. Snapshot(l2, r)
      BY <2>2 DEF Snapshot, AllOf
    <2>4. Still(drive, kept.id, kept.version) => drive[kept.id].holds = l2
      <3>1. CASE run.keptRead
        <4>1. l2 \in run.kept
          BY <1>7, <3>1
        <4> QED BY <4>1 DEF ReadUp, ReadOf
      <3>2. CASE ~run.keptRead
        <4>1. kept.id = saved[c].id /\ kept.version = saved[c].version
          BY <1>7, <3>2 DEF ReadUp
        <4>2. l2 \in saved[c].hash
          BY <1>7, <3>2
        <4>3. Still(drive, saved[c].id, saved[c].version) =>
                  drive[saved[c].id].holds \subseteq l2 /\ l2 \subseteq drive[saved[c].id].holds
          BY <4>2 DEF Remembered
        <4> QED BY <4>1, <4>3
      <3> QED BY <3>1, <3>2
    <2>5. Landed(l2, r, drive, version)
      BY <1>4, <1>7, <2>2, <2>4 DEF Landed
    <2>6. ReadOf(l2, r, drive, version)
      BY <2>2 DEF ReadUp, ReadOf
    <2>7. Ready(l2, r, drive, version, app[c].run.refound)
      BY <2>2, <2>3, <2>5, <2>6 DEF ReadUp, Ready
    <2> QED BY <1>1, <2>1, <2>7, RemovingIs
  <1>8. CASE ~nothing /\ ~same
    <2> DEFINE r == [snapped EXCEPT !.step = "sending"]
    <2>1. Only(c, [app[c] EXCEPT !.run = r]) /\ UNCHANGED saved
      BY <1>8 DEF MergeAndUpload
    <2> HIDE DEF snapped
    <2>2. "sending" \in Steps
      BY DEF Steps
    <2>3. /\ r \in RunType /\ r.step = "sending" /\ r.files = run.files /\ r.keptRead = run.keptRead
          /\ r.kept = run.kept /\ r.hash = {l2} /\ r.snapshotted /\ ~r.changed
      BY <1>3, <2>2 DEF RunType
    <2> HIDE DEF r
    <2>4. ReadIsTrue(l2, r, drive, version)
      BY <2>3 DEF ReadUp, ReadIsTrue, ReadOf
    <2>5. Snapshot(l2, r)
      BY <2>3 DEF Snapshot, AllOf
    <2>6. SendsAll(l2, r, saved[c])
      BY <2>3, <2>5 DEF SendsAll, Remembered
    <2>7. Sound(l2, r, saved[c], drive, version)
      BY <2>3, <2>4, <2>6 DEF Sound
    <2> QED BY <2>1, <2>3, <2>7, RunGoesOn
  <1> QED BY <1>6, <1>7, <1>8

-----------------------------------------------------------------------------
(* The answers.                                                             *)

\* The files listed: read, unless there is none or one seen before as it is.
LEMMA ListedIs ==
    ASSUME IInv, NEW c \in Computers, app[c].run.step = "listing",
           NEW files \in Seq(Remote), \A i \in DOMAIN files : files[i].version <= version,
           Listed(c, files)
    PROVE  Moves(c, lib[c], drive, version)
  <1> DEFINE run == app[c].run
             found == [run EXCEPT !.files = files]
             known == files = <<>>
                      \/ /\ ~run.forced /\ Len(files) = 1 /\ saved[c].hash # {}
                         /\ files[1] = [id |-> saved[c].id, version |-> saved[c].version]
  <1>1. /\ run \in RunType /\ lib[c] \in Libraries /\ Sound(lib[c], run, saved[c], drive, version)
        /\ Remembered(lib[c], saved[c], drive, version) /\ Running(app[c])
    BY OfOne DEF Running
  <1>2. run.files = <<>> /\ ~run.keptRead /\ run.kept = {}
    BY <1>1 DEF Sound, ReadIsTrue, ReadOf
  <1>3. run.snapshotted => run.refound
    BY <1>1 DEF Sound, SendsAll
  <1>4. /\ found \in RunType /\ found.files = files /\ found.step = "listing"
        /\ ~found.keptRead /\ found.kept = {} /\ found.snapshotted = run.snapshotted
        /\ found.refound = run.refound
    BY <1>1, <1>2 DEF RunType
  <1>5. CASE known
    <2>1. MergeAndUpload(c, found, lib[c])
      BY <1>5 DEF Listed
    <2> HIDE DEF found
    <2>2. ReadOf(lib[c], found, drive, version)
      BY <1>4 DEF ReadOf
    <2>3. found.files # <<>> => found.files[1].id = saved[c].id /\ found.files[1].version = saved[c].version
      BY <1>4, <1>5
    <2>4. ReadUp(lib[c], found, saved[c], drive, version, app[c].run.refound)
      BY <1>3, <1>4, <2>2, <2>3 DEF ReadUp
    <2> QED BY <1>1, <2>1, <2>4, MergedIs
  <1>6. CASE ~known
    <2> DEFINE r == [found EXCEPT !.step = "reading"]
    <2>1. Only(c, [app[c] EXCEPT !.run = r]) /\ UNCHANGED saved
      BY <1>6 DEF Listed
    <2>2. files # <<>>
      BY <1>6
    <2> HIDE DEF found
    <2>3. "reading" \in Steps
      BY DEF Steps
    <2>4. /\ r \in RunType /\ r.step = "reading" /\ r.files = files /\ ~r.keptRead /\ r.kept = {}
          /\ r.snapshotted = run.snapshotted /\ r.refound = run.refound
      BY <1>4, <2>3 DEF RunType
    <2> HIDE DEF r
    <2>5. ReadIsTrue(lib[c], r, drive, version)
      BY <2>2, <2>4 DEF ReadIsTrue, ReadOf
    <2>6. SendsAll(lib[c], r, saved[c])
      BY <1>3, <2>4 DEF SendsAll
    <2>7. Sound(lib[c], r, saved[c], drive, version)
      BY <1>1, <2>4, <2>5, <2>6 DEF Sound
    <2> QED BY <1>1, <2>1, <2>4, <2>7, RunGoesOn
  <1> QED BY <1>5, <1>6

LEMMA ListStep ==
    ASSUME IInv, NEW c \in Computers, List(c)
    PROVE  IInv' /\ AllSent
  <1>1. DriveTyped(drive, version) /\ version \in Nat /\ faults \in 0 .. MaxFaults
    BY OfOne
  <1>2. PICK ids \in Listings :
            Listed(c, [i \in DOMAIN ids |-> [id |-> ids[i], version |-> drive[ids[i]].version]])
    BY DEF List
  <1> DEFINE files == [i \in DOMAIN ids |-> [id |-> ids[i], version |-> drive[ids[i]].version]]
  <1>3. Cardinality(DOMAIN drive) \in Nat
    BY <1>1, DriveIsCounted DEF DriveTyped
  <1>4. ids \in [1 .. Cardinality(DOMAIN drive) -> DOMAIN drive]
    BY DEF Listings
  <1>5. ASSUME NEW i \in DOMAIN ids
        PROVE  /\ ids[i] \in Ids /\ drive[ids[i]].version \in Nat
               /\ drive[ids[i]].version <= version
    <2>1. ids[i] \in DOMAIN drive
      BY <1>4
    <2>2. drive[ids[i]].version \in 1 .. version
      BY <1>1, <2>1 DEF DriveTyped
    <2> QED BY <1>1, <2>1, <2>2 DEF DriveTyped
  <1>6. \A i \in DOMAIN files : files[i] \in Remote /\ files[i].version <= version
    BY <1>5 DEF Remote
  <1>7. DOMAIN files = 1 .. Cardinality(DOMAIN drive)
    BY <1>4
  <1>8. Listed(c, files)
    BY <1>2
  <1>9. files = [i \in 1 .. Cardinality(DOMAIN drive) |-> files[i]]
    BY <1>4
  <1> HIDE DEF files
  <1>10. files \in Seq(Remote)
    BY <1>3, <1>6, <1>7, <1>9
  <1>11. app[c].run.step = "listing"
    BY DEF List
  <1>12. Moves(c, lib[c], drive, version)
    BY <1>6, <1>8, <1>10, <1>11, ListedIs
  <1>13. UNCHANGED <<lib, drive, faults, version>>
    BY DEF List
  <1>14. lib' = [lib EXCEPT ![c] = lib[c]]
    BY <1>13, AsItWas
  <1> QED BY <1>1, <1>12, <1>13, <1>14, MovesWithin

\* A run fails, with nothing of Drive's taken for known.
LEMMA FailedMoves ==
    ASSUME IInv, NEW c \in Computers, NEW held \in BOOLEAN,
           Only(c, Failed(app[c], held)), UNCHANGED saved
    PROVE  Moves(c, lib[c], drive, version)
  <1> DEFINE a2 == Failed(app[c], held)
  <1>1. /\ app[c] \in AppType /\ lib[c] \in Libraries /\ saved[c] \in SavedType
        /\ Remembered(lib[c], saved[c], drive, version)
    BY OfOne
  <1>2. Whole(a2) /\ SameFlags(app[c], a2) /\ Fresh(a2.run)
    BY <1>1, FailedIs
  <1> HIDE DEF a2
  <1>3. Becomes(app[c], lib[c], a2, saved[c], drive, version)
    BY <1>1, <1>2, FreshBecomes
  <1>4. saved' = [saved EXCEPT ![c] = saved[c]]
    BY AsItWas
  <1>5. Only(c, a2)
    BY DEF a2
  <1> QED BY <1>3, <1>4, <1>5 DEF Moves

\* A file that went is looked for again, once.
LEMMA GoneMoves ==
    ASSUME IInv, NEW c \in Computers, Running(app[c]), Gone(c), UNCHANGED saved
    PROVE  Moves(c, lib[c], drive, version)
  <1>1. /\ app[c] \in AppType /\ app[c].run \in RunType /\ lib[c] \in Libraries
        /\ Sound(lib[c], app[c].run, saved[c], drive, version)
    BY OfOne
  <1>2. CASE app[c].run.refound
    <2>1. Only(c, Failed(app[c], FALSE))
      BY <1>2 DEF Gone
    <2> QED BY <2>1, FailedMoves
  <1>3. CASE ~app[c].run.refound
    <2> DEFINE found == Found(app[c].run)
               r == [found EXCEPT !.refound = TRUE]
    <2>1. Only(c, [app[c] EXCEPT !.run = r])
      <3>1. [app[c] EXCEPT !.run = r] = [app[c] EXCEPT !.run = [Found(@) EXCEPT !.refound = TRUE]]
        BY <1>1 DEF AppType
      <3> QED BY <1>3, <3>1 DEF Gone
    <2>2. found \in RunType /\ found.step = "listing" /\ found.files = <<>> /\ found.kept = {} /\ ~found.keptRead
      BY <1>1, FoundIsFresh
    <2> HIDE DEF found
    <2>3. /\ r \in RunType /\ r.step = "listing" /\ r.files = <<>> /\ r.kept = {} /\ ~r.keptRead /\ r.refound
      BY <2>2 DEF RunType
    <2> HIDE DEF r
    <2>4. ReadIsTrue(lib[c], r, drive, version)
      BY <2>3 DEF ReadIsTrue, ReadOf
    <2>5. SendsAll(lib[c], r, saved[c])
      BY <2>3 DEF SendsAll
    <2>6. Sound(lib[c], r, saved[c], drive, version)
      BY <1>1, <2>3, <2>4, <2>5 DEF Sound
    <2> QED BY <1>1, <2>1, <2>3, <2>6, RunGoesOn
  <1> QED BY <1>2, <1>3

LEMMA DownloadStep ==
    ASSUME IInv, NEW c \in Computers, Download(c)
    PROVE  IInv' /\ AllSent
  <1> DEFINE run == app[c].run
             id == run.files[run.next].id
             holds == drive[id].holds
             mine == lib[c] \union holds
             first == IF run.next = 1 THEN {holds} ELSE run.kept
             after == run.next + 1
             read == [run EXCEPT !.next = after, !.keptRead = TRUE, !.kept = first]
  <1>1. /\ run \in RunType /\ lib[c] \in Libraries /\ saved[c] \in SavedType
        /\ Sound(lib[c], run, saved[c], drive, version)
        /\ Remembered(lib[c], saved[c], drive, version)
        /\ DriveTyped(drive, version) /\ version \in Nat /\ faults \in 0 .. MaxFaults
    BY OfOne
  <1>2. run.step = "reading" /\ Running(app[c]) /\ UNCHANGED <<drive, faults, version>>
    BY DEF Download, Running
  <1>3. CASE id \notin DOMAIN drive \/ drive[id].newer
    <2>1. Moves(c, lib[c], drive, version) /\ UNCHANGED lib
      <3>1. CASE id \notin DOMAIN drive
        <4>1. Gone(c) /\ UNCHANGED <<lib, saved>>
          BY <3>1 DEF Download
        <4> QED BY <1>2, <4>1, GoneMoves
      <3>2. CASE id \in DOMAIN drive /\ drive[id].newer
        <4>1. Only(c, Failed(app[c], TRUE)) /\ UNCHANGED <<lib, saved>>
          BY <3>2 DEF Download
        <4> QED BY <4>1, FailedMoves
      <3> QED BY <1>3, <3>1, <3>2
    <2>2. lib' = [lib EXCEPT ![c] = lib[c]]
      BY <2>1, AsItWas
    <2> QED BY <1>1, <1>2, <2>1, <2>2, MovesWithin
  <1>4. CASE id \in DOMAIN drive /\ ~drive[id].newer
    <2>1. /\ lib' = [lib EXCEPT ![c] = mine]
          /\ IF run.next < Len(run.files)
             THEN Only(c, [app[c] EXCEPT !.run = read]) /\ UNCHANGED saved
             ELSE MergeAndUpload(c, read, mine)
      BY <1>4 DEF Download
    <2>2. holds \in Libraries
      BY <1>1, <1>4 DEF DriveTyped
    <2>3. mine \in Libraries /\ lib[c] \subseteq mine /\ holds \subseteq mine
      BY <1>1, <2>2 DEF Libraries
    <2>4. {holds} \in Contents
      BY <2>2 DEF Contents
    <2>5. run.files # <<>> /\ ReadOf(lib[c], run, drive, version)
      BY <1>1, <1>2 DEF Sound, ReadIsTrue
    <2>6. run.snapshotted => run.refound
      BY <1>1, <1>2 DEF Sound, SendsAll
    <2>7. Remembered(mine, saved[c], drive, version) /\ ReadIsTrue(mine, run, drive, version)
      BY <1>1, <2>3, GrownStays DEF Sound
    <2>8. run.next = 1 => drive[run.files[1].id].holds = holds
      OBVIOUS
    <2> HIDE DEF id, holds, mine
    <2>9. first \in Contents
      BY <1>1, <2>4 DEF RunType
    <2>10. \A h \in first : (run.next = 1 /\ h = holds) \/ h \in run.kept
      OBVIOUS
    <2>11. after \in Nat
      BY <1>1 DEF RunType
    <2> HIDE DEF first, after
    <2>12. /\ read \in RunType /\ read.step = "reading" /\ read.files = run.files /\ read.keptRead
           /\ read.kept = first
           /\ read.snapshotted = run.snapshotted /\ read.refound = run.refound
      BY <1>1, <1>2, <2>9, <2>11 DEF RunType
    <2> HIDE DEF read
    <2>13. ReadOf(mine, read, drive, version)
      BY <2>3, <2>5, <2>7, <2>8, <2>10, <2>12 DEF ReadIsTrue, ReadOf
    <2>14. Moves(c, mine, drive, version)
      <3>1. CASE run.next < Len(run.files)
        <4>1. ReadIsTrue(mine, read, drive, version)
          BY <2>5, <2>12, <2>13 DEF ReadIsTrue
        <4>2. SendsAll(mine, read, saved[c])
          BY <2>6, <2>12 DEF SendsAll
        <4>3. Sound(mine, read, saved[c], drive, version)
          BY <2>7, <2>12, <4>1, <4>2 DEF Sound
        <4> QED BY <1>2, <2>1, <2>3, <2>12, <3>1, <4>3, RunGoesOn
      <3>2. CASE ~(run.next < Len(run.files))
        <4>1. MergeAndUpload(c, read, mine)
          BY <2>1, <3>2
        <4>2. ReadUp(mine, read, saved[c], drive, version, app[c].run.refound)
          BY <2>6, <2>12, <2>13 DEF ReadUp
        <4> QED BY <1>2, <2>3, <2>7, <4>1, <4>2, MergedIs
      <3> QED BY <3>1, <3>2
    <2> QED BY <1>1, <1>2, <2>1, <2>14, MovesWithin
  <1> QED BY <1>3, <1>4

\* What is sent is the library as it was snapshotted: Drive takes it whole.
LEMMA WrittenIs ==
    ASSUME NEW id \in Ids, NEW holds \in Libraries, NEW newer \in BOOLEAN,
           DriveTyped(drive, version), version \in Nat
    PROVE  LET dr == Written(id, holds, newer) IN
           /\ DriveTyped(dr, version + 1) /\ Benign(drive, version, dr, version + 1)
           /\ id \in DOMAIN dr /\ dr[id].version = version + 1 /\ dr[id].holds = holds
  <1> DEFINE dr == Written(id, holds, newer)
             new == [version |-> version + 1, holds |-> holds, newer |-> newer]
  <1>1. DOMAIN dr = DOMAIN drive \cup {id}
    BY DEF Written
  <1>2. \A i \in DOMAIN dr : dr[i] = IF i = id THEN new ELSE drive[i]
    BY <1>1 DEF Written
  <1>3. version + 1 \in 1 .. version + 1 /\ version <= version + 1 /\ version + 1 > version
    OBVIOUS
  <1>4. new \in [version : 1 .. version + 1, holds : Libraries, newer : BOOLEAN]
    BY <1>3
  <1>5. new.version = version + 1 /\ new.holds = holds
    OBVIOUS
  <1> HIDE DEF new, dr
  <1>6. dr[id] = new /\ id \in DOMAIN dr
    BY <1>1, <1>2
  <1>7. \A i \in DOMAIN dr : i # id => i \in DOMAIN drive /\ dr[i] = drive[i]
    BY <1>1, <1>2
  <1>8. Benign(drive, version, dr, version + 1)
    BY <1>3, <1>5, <1>6, <1>7 DEF Benign
  <1>9. \A i \in DOMAIN dr : dr[i] \in [version : 1 .. version + 1, holds : Libraries, newer : BOOLEAN]
    <2> SUFFICES ASSUME NEW i \in DOMAIN dr
                 PROVE  dr[i] \in [version : 1 .. version + 1, holds : Libraries, newer : BOOLEAN]
      OBVIOUS
    <2>1. CASE i = id
      BY <1>4, <1>6, <2>1
    <2>2. CASE i # id
      <3>1. drive[i] \in [version : 1 .. version, holds : Libraries, newer : BOOLEAN]
        BY <1>7, <2>2 DEF DriveTyped
      <3> QED BY <1>7, <2>2, <3>1
    <2> QED BY <2>1, <2>2
  <1>10. DriveTyped(dr, version + 1)
    BY <1>1, <1>9 DEF DriveTyped
  <1>11. dr[id].version = version + 1 /\ dr[id].holds = holds
    BY <1>5, <1>6
  <1> QED BY <1>6, <1>8, <1>10, <1>11 DEF dr

LEMMA UploadStep ==
    ASSUME IInv, NEW c \in Computers, Upload(c)
    PROVE  IInv' /\ AllSent
  <1> DEFINE run == app[c].run
             holds == CHOOSE s \in run.hash : TRUE
             Into(id) ==
                 /\ version < MaxVersion
                 /\ version' = version + 1
                 /\ drive' = Written(id, holds, FALSE)
                 /\ Only(c, [app[c] EXCEPT !.run = [run EXCEPT !.step = "sent", !.id = id,
                                                               !.version = version + 1]])
  <1>1. /\ app[c] \in AppType /\ run \in RunType /\ lib[c] \in Libraries /\ saved[c] \in SavedType
        /\ Sound(lib[c], run, saved[c], drive, version)
        /\ Remembered(lib[c], saved[c], drive, version)
        /\ DriveTyped(drive, version) /\ version \in Nat /\ faults \in 0 .. MaxFaults
    BY OfOne
  <1>2. run.step = "sending" /\ Running(app[c]) /\ UNCHANGED <<lib, saved, faults>>
    BY DEF Upload, Running
  <1>3. lib' = [lib EXCEPT ![c] = lib[c]]
    BY <1>2, AsItWas
  <1>4. run.files # <<>> => run.files[1].id \in Ids
    <2>1. run.files \in Seq(Remote)
      BY <1>1 DEF RunType
    <2> QED BY <2>1, FirstOfFiles DEF Remote
  <1>5. \/ \E id \in Ids : Into(id)
        \/ Gone(c) /\ UNCHANGED <<drive, version>>
    <2>1. CASE run.files = <<>>
      BY <2>1 DEF Upload
    <2>2. CASE run.files # <<>>
      BY <1>4, <2>2 DEF Upload
    <2> QED BY <2>1, <2>2
  <1>6. CASE Gone(c) /\ UNCHANGED <<drive, version>>
    <2>1. Moves(c, lib[c], drive, version)
      BY <1>2, <1>6, GoneMoves
    <2> QED BY <1>1, <1>2, <1>3, <1>6, <2>1, MovesWithin
  <1>7. CASE \E id \in Ids : Into(id)
    <2>1. PICK id \in Ids : Into(id)
      BY <1>7
    <2> DEFINE r == [run EXCEPT !.step = "sent", !.id = id, !.version = version + 1]
    <2>2. Snapshot(lib[c], run) /\ run.snapshotted
      BY <1>1, <1>2 DEF Sound, SendsAll
    <2>3. PICK h \in Libraries : run.hash = {h} /\ h \subseteq lib[c]
      BY <2>2 DEF Snapshot
    <2>4. holds = h
      BY <2>3
    <2>5. "sent" \in Steps /\ version + 1 \in Nat
      BY <1>1 DEF Steps
    <2>6. /\ r \in RunType /\ r.step = "sent" /\ r.id = id /\ r.version = version + 1
          /\ r.files = run.files /\ r.keptRead = run.keptRead /\ r.kept = run.kept
          /\ r.snapshotted = run.snapshotted /\ r.hash = run.hash /\ r.changed = run.changed
          /\ r.refound = run.refound
      BY <1>1, <2>1, <2>5 DEF RunType
    <2>7. /\ version < MaxVersion /\ version' = version + 1 /\ drive' = Written(id, h, FALSE)
          /\ Only(c, [app[c] EXCEPT !.run = r])
      BY <2>1, <2>4
    <2> HIDE DEF r, holds, Into
    <2>8. /\ DriveTyped(drive', version') /\ Benign(drive, version, drive', version')
          /\ id \in DOMAIN drive' /\ drive'[id].version = version + 1 /\ drive'[id].holds = h
      BY <1>1, <2>1, <2>7, WrittenIs
    <2>9. version' \in Nat /\ version' \in 0 .. MaxVersion
      BY <1>1, <2>7, DriveSyncAssumption
    <2>10. Remembered(lib[c], saved[c], drive', version')
      BY <1>1, <2>8, <2>9, RememberedMoves
    <2>11. ReadIsTrue(lib[c], run, drive', version')
      BY <1>1, <2>8, <2>9, ReadMoves DEF Sound
    <2>12. ReadIsTrue(lib[c], r, drive', version')
      BY <1>2, <2>6, <2>11 DEF ReadIsTrue, ReadOf
    <2>13. SendsAll(lib[c], r, saved[c])
      BY <1>1, <1>2, <2>2, <2>6 DEF Sound, SendsAll, Snapshot
    <2>14. Landed(lib[c], r, drive', version')
      <3>1. r.version <= version'
        BY <1>1, <2>6, <2>7
      <3>2. drive'[r.id].holds \subseteq lib[c] /\ \A k \in r.hash : k \subseteq drive'[r.id].holds
        BY <2>3, <2>6, <2>8
      <3> QED BY <3>1, <3>2 DEF Landed
    <2>15. Sound(lib[c], r, saved[c], drive', version')
      BY <2>10, <2>12, <2>13, <2>14 DEF Sound
    <2>16. Moves(c, lib[c], drive', version')
      BY <1>1, <1>2, <2>6, <2>7, <2>15, RunGoesOn
    <2>17. faults' \in 0 .. MaxFaults
      BY <1>1, <1>2
    <2> QED BY <1>3, <2>8, <2>9, <2>16, <2>17, MovesAcross
  <1> QED BY <1>5, <1>6, <1>7

\* A run that has sent, or deletes what it has read, is ready to end.
LEMMA SentIsReady ==
    ASSUME NEW l, NEW r \in RunType, NEW s, NEW dr, NEW v,
           Sound(l, r, s, dr, v), r.step \in {"sent", "deleting"}
    PROVE  Ready(l, r, dr, v, r.refound)
  <1>1. Landed(l, r, dr, v) /\ ReadOf(l, r, dr, v)
    BY DEF Sound, ReadIsTrue
  <1>2. r.snapshotted /\ Snapshot(l, r)
    BY DEF Sound, SendsAll
  <1>3. \A h \in r.hash : h \subseteq l
    BY <1>2 DEF Snapshot
  <1> QED BY <1>1, <1>2, <1>3 DEF Ready

LEMMA UploadedStep ==
    ASSUME IInv, NEW c \in Computers, Uploaded(c)
    PROVE  IInv' /\ AllSent
  <1>1. /\ app[c].run \in RunType /\ lib[c] \in Libraries /\ version \in Nat /\ faults \in 0 .. MaxFaults
        /\ Sound(lib[c], app[c].run, saved[c], drive, version)
        /\ Remembered(lib[c], saved[c], drive, version)
    BY OfOne
  <1>2. /\ app[c].run.step = "sent" /\ Running(app[c]) /\ Removing(c, app[c].run)
        /\ UNCHANGED <<lib, drive, faults, version>>
    BY DEF Uploaded, Running
  <1>3. Ready(lib[c], app[c].run, drive, version, app[c].run.refound)
    BY <1>1, <1>2, SentIsReady
  <1>4. Moves(c, lib[c], drive, version)
    BY <1>1, <1>2, <1>3, RemovingIs
  <1>5. lib' = [lib EXCEPT ![c] = lib[c]]
    BY <1>2, AsItWas
  <1> QED BY <1>1, <1>2, <1>4, <1>5, MovesWithin

\* Fewer files, each as it was.
LEMMA FewerIsBenign ==
    ASSUME NEW dr, NEW v \in Nat, DriveTyped(dr, v), NEW ids \in SUBSET DOMAIN dr
    PROVE  LET dr2 == [i \in ids |-> dr[i]] IN DriveTyped(dr2, v) /\ Benign(dr, v, dr2, v)
  BY DEF DriveTyped, Benign

LEMMA DeleteStep ==
    ASSUME IInv, NEW c \in Computers, Delete(c)
    PROVE  IInv' /\ AllSent
  <1> DEFINE run == app[c].run
             id == run.files[run.extra].id
             after == run.extra + 1
             r == [run EXCEPT !.extra = after]
  <1>1. /\ run \in RunType /\ lib[c] \in Libraries /\ version \in Nat /\ faults \in 0 .. MaxFaults
        /\ version \in 0 .. MaxVersion /\ saved[c] \in SavedType
        /\ Sound(lib[c], run, saved[c], drive, version) /\ DriveTyped(drive, version)
    BY OfOne
  <1>2. /\ run.step = "deleting" /\ Running(app[c]) /\ Removing(c, r)
        /\ UNCHANGED <<lib, version>>
    BY DEF Delete, Running
  <1>3. /\ DriveTyped(drive', version') /\ Benign(drive, version, drive', version')
        /\ faults' \in 0 .. MaxFaults
    <2>1. CASE drive' = [i \in DOMAIN drive \ {id} |-> drive[i]] /\ UNCHANGED faults
      <3>1. DriveTyped(drive', version) /\ Benign(drive, version, drive', version)
        BY <1>1, <2>1, FewerIsBenign
      <3> QED BY <1>1, <1>2, <2>1, <3>1
    <2>2. CASE Fault /\ UNCHANGED drive
      <3>1. Benign(drive, version, drive, version)
        BY <1>1, SameIsBenign
      <3> QED BY <1>1, <1>2, <2>2, <3>1, FaultIs
    <2> QED BY <2>1, <2>2 DEF Delete
  <1>4. Sound(lib[c], run, saved[c], drive', version')
    BY <1>1, <1>2, <1>3, SoundMoves
  <1>5. Ready(lib[c], run, drive', version', run.refound)
    BY <1>1, <1>2, <1>4, SentIsReady
  <1>6. after \in Nat
    BY <1>1 DEF RunType
  <1> HIDE DEF after
  <1>7. /\ r \in RunType /\ r.step = "deleting" /\ r.id = run.id /\ r.version = run.version
        /\ r.files = run.files /\ r.keptRead = run.keptRead /\ r.kept = run.kept
        /\ r.snapshotted = run.snapshotted /\ r.hash = run.hash /\ r.changed = run.changed
        /\ r.refound = run.refound
    BY <1>1, <1>2, <1>6 DEF RunType
  <1> HIDE DEF r
  <1>8. Ready(lib[c], r, drive', version', app[c].run.refound)
    BY <1>5, <1>7 DEF Ready, Landed, ReadOf, Snapshot
  <1>9. Moves(c, lib[c], drive', version')
    BY <1>1, <1>2, <1>4, <1>8, RemovingIs DEF Sound
  <1>10. lib' = [lib EXCEPT ![c] = lib[c]]
    BY <1>2, AsItWas
  <1> QED BY <1>1, <1>2, <1>3, <1>9, <1>10, MovesAcross

LEMMA FailsStep ==
    ASSUME IInv, NEW c \in Computers, Fails(c)
    PROVE  IInv' /\ AllSent
  <1>1. Only(c, Failed(app[c], FALSE)) /\ Fault /\ UNCHANGED <<lib, saved, drive, version>>
    BY DEF Fails
  <1>2. Moves(c, lib[c], drive, version)
    BY <1>1, FailedMoves
  <1>3. lib' = [lib EXCEPT ![c] = lib[c]]
    BY <1>1, AsItWas
  <1>4. faults' \in 0 .. MaxFaults
    BY <1>1, OfOne, FaultIs
  <1> QED BY <1>1, <1>2, <1>3, <1>4, MovesWithin

-----------------------------------------------------------------------------
(* What happens around the syncs.                                           *)

LEMMA FinishCutStep ==
    ASSUME IInv, NEW c \in Computers, FinishCut(c)
    PROVE  IInv' /\ AllSent
  <1> DEFINE run == app[c].run
             s2 == [saved[c] EXCEPT !.id = run.id, !.version = run.version]
             launched == [Launched EXCEPT !.signedIn = TRUE]
             a2 == Requested(launched)
  <1>1. /\ app[c] \in AppType /\ run \in RunType /\ lib[c] \in Libraries /\ saved[c] \in SavedType
        /\ Sound(lib[c], run, saved[c], drive, version)
        /\ Remembered(lib[c], saved[c], drive, version) /\ faults \in 0 .. MaxFaults
        /\ saved \in [Computers -> SavedType]
    BY OfOne DEF IInv, Typed
  <1>2. run.step = "sent" /\ Fault /\ Only(c, a2) /\ UNCHANGED <<lib, drive, version>>
    BY DEF FinishCut
  <1>3. saved' = [saved EXCEPT ![c] = s2]
    BY <1>1 DEF FinishCut
  <1>4. s2 \in SavedType /\ s2.id = run.id /\ s2.version = run.version /\ s2.hash = saved[c].hash
    BY <1>1 DEF SavedType, RunType
  <1> HIDE DEF s2
  <1>5. Landed(lib[c], run, drive, version) /\ Snapshot(lib[c], run)
        /\ \A h \in run.hash : \A known \in saved[c].hash : known \subseteq h
    BY <1>1, <1>2 DEF Sound, SendsAll
  <1>6. PICK h \in Libraries : run.hash = {h} /\ h \subseteq lib[c]
    BY <1>5 DEF Snapshot
  <1>7. \A known \in saved[c].hash : known \subseteq h
    BY <1>5, <1>6
  <1>8. Remembered(lib[c], s2, drive, version)
    BY <1>4, <1>5, <1>6, <1>7 DEF Remembered, Landed
  <1>9. NoRun \in RunType /\ NoRun.step = "none"
    BY NoRunIsFresh DEF Fresh
  <1>10. Whole(launched) /\ launched.run = NoRun /\ ~launched.synced
    BY <1>9 DEF Whole, Running, Launched, AppType
  <1> HIDE DEF launched
  <1>11. Whole(a2) /\ Fresh(a2.run) /\ ~a2.synced
    BY <1>10, RequestedIs, NoRunIsFresh DEF SameFlags
  <1> HIDE DEF a2
  <1>12. Becomes(app[c], lib[c], a2, s2, drive, version)
    BY <1>1, <1>4, <1>8, <1>11, FreshBecomes
  <1>13. lib' = [lib EXCEPT ![c] = lib[c]]
    BY <1>2, AsItWas
  <1>14. Moves(c, lib[c], drive, version)
    BY <1>2, <1>3, <1>12 DEF Moves
  <1> QED BY <1>1, <1>2, <1>13, <1>14, FaultIs, MovesWithin

\* A DriveSync told something: its run as it was, or just begun.
LEMMA ToldStep ==
    ASSUME IInv, NEW c \in Computers, NEW a2, Whole(a2), SameFlags(app[c], a2),
           Only(c, a2), UNCHANGED <<lib, saved, drive, version>>, faults' \in 0 .. MaxFaults,
           a2.run = app[c].run \/ Fresh(a2.run)
    PROVE  IInv' /\ AllSent
  <1>1. /\ app[c] \in AppType /\ lib[c] \in Libraries /\ saved[c] \in SavedType
        /\ Sound(lib[c], app[c].run, saved[c], drive, version)
        /\ Remembered(lib[c], saved[c], drive, version)
    BY OfOne
  <1>2. CASE a2.run = app[c].run
    BY <1>1, <1>2, SameRunBecomes, MovesWithin, AsItWas DEF Moves
  <1>3. CASE Fresh(a2.run)
    BY <1>1, <1>3, FreshBecomes, MovesWithin, AsItWas DEF Moves
  <1> QED BY <1>2, <1>3

LEMMA SyncTimerStep ==
    ASSUME IInv, NEW c \in Computers, SyncTimer(c)
    PROVE  IInv' /\ AllSent
  <1> DEFINE a2 == Started(app[c], FALSE)
  <1>1. Whole(app[c]) /\ faults \in 0 .. MaxFaults
    BY OfOne
  <1>2. Only(c, a2) /\ UNCHANGED <<lib, saved, drive, faults, version>>
    BY DEF SyncTimer
  <1>3. Whole(a2) /\ SameFlags(app[c], a2) /\ (a2.run = app[c].run \/ Fresh(a2.run))
    BY <1>1, StartedIs
  <1> HIDE DEF a2
  <1> QED BY <1>1, <1>2, <1>3, ToldStep

LEMMA EditTimerStep ==
    ASSUME IInv, NEW c \in Computers, EditTimer(c)
    PROVE  IInv' /\ AllSent
  <1> DEFINE a1 == [app[c] EXCEPT !.editTimer = FALSE]
             a2 == Requested(a1)
  <1>1. Whole(app[c]) /\ app[c] \in AppType /\ faults \in 0 .. MaxFaults
    BY OfOne
  <1>2. Only(c, a2) /\ UNCHANGED <<lib, saved, drive, faults, version>>
    BY DEF EditTimer
  <1>3. Whole(a1) /\ SameFlags(app[c], a1) /\ a1.run = app[c].run
    BY <1>1 DEF Whole, Running, SameFlags, AppType
  <1> HIDE DEF a1
  <1>4. Whole(a2) /\ SameFlags(app[c], a2) /\ a2.run = app[c].run
    BY <1>3, RequestedIs DEF SameFlags
  <1> HIDE DEF a2
  <1> QED BY <1>1, <1>2, <1>4, ToldStep

LEMMA PeriodStep ==
    ASSUME IInv, NEW c \in Computers, Period(c)
    PROVE  IInv' /\ AllSent
  <1> DEFINE a1 == [app[c] EXCEPT !.periodDue = TRUE]
             a2 == Requested(a1)
  <1>1. Whole(app[c]) /\ app[c] \in AppType /\ faults \in 0 .. MaxFaults
    BY OfOne
  <1>2. Only(c, a2) /\ UNCHANGED <<lib, saved, drive, faults, version>>
    BY DEF Period
  <1>3. Whole(a1) /\ SameFlags(app[c], a1) /\ a1.run = app[c].run
    BY <1>1 DEF Whole, Running, SameFlags, AppType
  <1> HIDE DEF a1
  <1>4. Whole(a2) /\ SameFlags(app[c], a2) /\ a2.run = app[c].run
    BY <1>3, RequestedIs DEF SameFlags
  <1> HIDE DEF a2
  <1> QED BY <1>1, <1>2, <1>4, ToldStep

LEMMA SyncNowStep ==
    ASSUME IInv, NEW c \in Computers, SyncNow(c)
    PROVE  IInv' /\ AllSent
  <1> DEFINE a1 == [app[c] EXCEPT !.againForced = TRUE]
             a2 == IF Running(app[c]) THEN a1 ELSE Started(app[c], TRUE)
  <1>1. Whole(app[c]) /\ app[c] \in AppType /\ faults \in 0 .. MaxFaults
    BY OfOne
  <1>2. Only(c, a2) /\ Fault /\ UNCHANGED <<lib, saved, drive, version>>
    BY DEF SyncNow
  <1>3. Whole(a1) /\ SameFlags(app[c], a1) /\ a1.run = app[c].run
    BY <1>1 DEF Whole, Running, SameFlags, AppType
  <1>4. /\ Whole(Started(app[c], TRUE)) /\ SameFlags(app[c], Started(app[c], TRUE))
        /\ Started(app[c], TRUE).run = app[c].run \/ Fresh(Started(app[c], TRUE).run)
    BY <1>1, StartedIs
  <1> HIDE DEF a1
  <1>5. Whole(a2) /\ SameFlags(app[c], a2) /\ (a2.run = app[c].run \/ Fresh(a2.run))
    BY <1>3, <1>4
  <1> HIDE DEF a2
  <1> QED BY <1>1, <1>2, <1>5, FaultIs, ToldStep

LEMMA SignInStep ==
    ASSUME IInv, NEW c \in Computers, SignIn(c)
    PROVE  IInv' /\ AllSent
  <1> DEFINE a1 == [app[c] EXCEPT !.signedIn = TRUE, !.held = FALSE, !.synced = FALSE]
             a2 == Started(a1, TRUE)
  <1>1. /\ app[c] \in AppType /\ Whole(app[c]) /\ lib[c] \in Libraries /\ faults \in 0 .. MaxFaults
        /\ version \in Nat /\ DriveTyped(drive, version)
    BY OfOne
  <1>2. /\ ~app[c].signedIn /\ Only(c, a2) /\ saved' = [saved EXCEPT ![c] = NothingSaved]
        /\ UNCHANGED <<lib, drive, faults, version>>
    BY DEF SignIn
  <1>3. app[c].run = NoRun
    BY <1>1, <1>2 DEF Whole
  <1>4. Whole(a1) /\ ~a1.synced /\ a1.run = app[c].run
    BY <1>1, <1>2 DEF Whole, Running, AppType
  <1> HIDE DEF a1
  <1>5. Whole(a2) /\ ~a2.synced /\ Fresh(a2.run)
    BY <1>3, <1>4, StartedIs, NoRunIsFresh DEF SameFlags
  <1> HIDE DEF a2
  <1>6. NothingSaved \in SavedType /\ Remembered(lib[c], NothingSaved, drive, version)
    BY <1>1, NothingRemembered
  <1>7. Becomes(app[c], lib[c], a2, NothingSaved, drive, version)
    BY <1>1, <1>5, <1>6, FreshBecomes
  <1>8. Moves(c, lib[c], drive, version)
    BY <1>2, <1>7 DEF Moves
  <1>9. lib' = [lib EXCEPT ![c] = lib[c]]
    BY <1>2, AsItWas
  <1> QED BY <1>1, <1>2, <1>8, <1>9, MovesWithin

LEMMA SignOutStep ==
    ASSUME IInv, NEW c \in Computers, SignOut(c)
    PROVE  IInv' /\ AllSent
  <1> DEFINE a1 == SignedOut(app[c])
             a2 == [a1 EXCEPT !.held = FALSE, !.synced = FALSE]
  <1>1. /\ app[c] \in AppType /\ lib[c] \in Libraries /\ faults \in 0 .. MaxFaults
        /\ version \in Nat /\ DriveTyped(drive, version) /\ saved[c] \in SavedType
    BY OfOne
  <1>2. Whole(a1) /\ SameFlags(app[c], a1) /\ a1.run = NoRun /\ Fresh(a1.run) /\ a1 \in AppType
    BY <1>1, SignedOutIs, NoRunIsFresh DEF Whole
  <1>3. UNCHANGED <<lib, drive, version>> /\ faults' \in 0 .. MaxFaults
    BY <1>1, FaultIs DEF SignOut
  <1>4. CASE Only(c, a2) /\ saved' = [saved EXCEPT ![c] = NothingSaved]
    <2> HIDE DEF a1
    <2>1. a2 \in AppType /\ a2.run = a1.run /\ ~a2.synced /\ ~a2.held
      BY <1>2 DEF AppType
    <2>2. NoRun.step = "none"
      BY NoRunIsFresh
    <2> HIDE DEF a2
    <2>3. Whole(a2) /\ Fresh(a2.run)
      BY <1>2, <2>1, <2>2 DEF Whole, Running
    <2>4. NothingSaved \in SavedType /\ Remembered(lib[c], NothingSaved, drive, version)
      BY <1>1, NothingRemembered
    <2>5. Becomes(app[c], lib[c], a2, NothingSaved, drive, version)
      BY <1>1, <2>1, <2>3, <2>4, FreshBecomes
    <2>6. Moves(c, lib[c], drive, version)
      BY <1>4, <2>5 DEF Moves
    <2>7. lib' = [lib EXCEPT ![c] = lib[c]]
      BY <1>3, AsItWas
    <2> QED BY <1>3, <2>6, <2>7, MovesWithin
  <1>5. CASE Only(c, a1) /\ UNCHANGED saved
    <2> HIDE DEF a1
    <2> QED BY <1>2, <1>3, <1>5, ToldStep
  <1> QED BY <1>4, <1>5 DEF SignOut

LEMMA RelaunchStep ==
    ASSUME IInv, NEW c \in Computers, Relaunch(c)
    PROVE  IInv' /\ AllSent
  <1> DEFINE launched == [Launched EXCEPT !.signedIn = app[c].signedIn, !.held = app[c].held]
             a2 == Requested(launched)
  <1>1. /\ app[c] \in AppType /\ lib[c] \in Libraries /\ faults \in 0 .. MaxFaults
        /\ saved[c] \in SavedType /\ Remembered(lib[c], saved[c], drive, version)
    BY OfOne
  <1>2. Only(c, a2) /\ Fault /\ UNCHANGED <<lib, saved, drive, version>>
    BY DEF Relaunch
  <1>3. app[c].signedIn \in BOOLEAN /\ app[c].held \in BOOLEAN
    BY <1>1 DEF AppType
  <1>4. Whole(launched) /\ launched.run = NoRun /\ ~launched.synced
    BY <1>3, LaunchedIsWhole
  <1> HIDE DEF launched
  <1>5. Whole(a2) /\ Fresh(a2.run) /\ ~a2.synced
    BY <1>4, RequestedIs, NoRunIsFresh DEF SameFlags
  <1> HIDE DEF a2
  <1>6. Becomes(app[c], lib[c], a2, saved[c], drive, version)
    BY <1>1, <1>5, FreshBecomes
  <1>7. lib' = [lib EXCEPT ![c] = lib[c]] /\ saved' = [saved EXCEPT ![c] = saved[c]]
    BY <1>2, AsItWas
  <1>8. Moves(c, lib[c], drive, version)
    BY <1>2, <1>6, <1>7 DEF Moves
  <1> QED BY <1>1, <1>2, <1>7, <1>8, FaultIs, MovesWithin

\* Something done to the library here, of which a run that goes on is told.
LEMMA DoneStep ==
    ASSUME IInv, NEW c \in Computers, NEW done \in Things,
           NEW e \in BOOLEAN, NEW p \in BOOLEAN, NEW timer \in BOOLEAN,
           app[c].edited => e, app[c].played => p,
           lib' = [lib EXCEPT ![c] = @ \union {done}],
           Only(c, [app[c] EXCEPT !.edited = e, !.played = p,
                                  !.run.changed = Running(app[c]), !.editTimer = timer]),
           UNCHANGED <<saved, drive, faults, version>>
    PROVE  IInv' /\ AllSent
  <1> DEFINE a == app[c]
             on == Running(a)
             r == [a.run EXCEPT !.changed = on]
             a2 == [a EXCEPT !.edited = e, !.played = p, !.run = r, !.editTimer = timer]
             l2 == lib[c] \cup {done}
  <1>1. /\ a \in AppType /\ a.run \in RunType /\ Whole(a) /\ lib[c] \in Libraries
        /\ saved[c] \in SavedType /\ faults \in 0 .. MaxFaults /\ lib \in [Computers -> Libraries]
        /\ Sound(lib[c], a.run, saved[c], drive, version)
    BY OfOne DEF IInv, Typed
  <1>2. on \in BOOLEAN
    BY DEF Running
  <1>3. Only(c, a2)
    <2>1. a2 = [app[c] EXCEPT !.edited = e, !.played = p,
                              !.run.changed = Running(app[c]), !.editTimer = timer]
      BY <1>1 DEF AppType
    <2> QED BY <2>1
  <1>4. lib' = [lib EXCEPT ![c] = l2] /\ saved' = [saved EXCEPT ![c] = saved[c]]
    BY <1>1, AsItWas
  <1>5. l2 \in Libraries /\ lib[c] \subseteq l2
    BY <1>1 DEF Libraries
  <1>6. on <=> a.run.step # "none"
    BY DEF Running
  <1> HIDE DEF on, l2
  <1>7. /\ r \in RunType /\ r.changed = on
        /\ r.step = a.run.step /\ r.files = a.run.files /\ r.keptRead = a.run.keptRead
        /\ r.kept = a.run.kept /\ r.snapshotted = a.run.snapshotted /\ r.hash = a.run.hash
        /\ r.refound = a.run.refound /\ r.id = a.run.id /\ r.version = a.run.version
    BY <1>1, <1>2 DEF RunType
  <1>8. ~on => r = NoRun
    <2> SUFFICES ASSUME ~on
                 PROVE  r = NoRun
      OBVIOUS
    <2>1. a.run = NoRun
      BY <1>1, <1>6 DEF Whole, Running
    <2>2. on = FALSE /\ NoRun.changed = FALSE
      BY <1>2 DEF NoRun
    <2>3. a.run.changed = on
      BY <2>1, <2>2
    <2>4. [a.run EXCEPT !.changed = a.run.changed] = a.run
      BY <1>1 DEF RunType
    <2> QED BY <2>1, <2>3, <2>4
  <1> HIDE DEF r
  <1>9. Sound(l2, r, saved[c], drive, version)
    BY <1>1, <1>5, <1>6, <1>7, SoundGrows
  <1>10. /\ a2 \in AppType /\ a2.run = r /\ a2.signedIn = a.signedIn /\ a2.held = a.held
         /\ a2.edited = e /\ a2.played = p
    BY <1>1, <1>7 DEF AppType
  <1> HIDE DEF a2
  <1>11. Whole(a2)
    BY <1>1, <1>6, <1>7, <1>8, <1>10 DEF Whole, Running
  <1>12. ~TakesForSent(a, a2)
    BY <1>10 DEF TakesForSent
  <1>13. Becomes(a, l2, a2, saved[c], drive, version)
    BY <1>1, <1>5, <1>9, <1>10, <1>11, <1>12 DEF Becomes, Sent
  <1>14. Moves(c, l2, drive, version)
    BY <1>3, <1>4, <1>13 DEF Moves
  <1> QED BY <1>1, <1>4, <1>14, MovesWithin

LEMMA EditStep ==
    ASSUME IInv, NEW c \in Computers, Edit(c)
    PROVE  IInv' /\ AllSent
  <1> DEFINE n == 1 + Cardinality(OfKind("edit"))
             timer == app[c].editTimer \/ (app[c].signedIn /\ ~app[c].held)
  <1>1. app[c] \in AppType /\ lib \in [Computers -> Libraries]
    BY OfOne DEF IInv, Typed
  <1>2. n \in Nat /\ n >= 1
    BY <1>1, NextHasANumber
  <1>3. /\ n <= MaxDone /\ lib' = [lib EXCEPT ![c] = @ \union {<<"edit", n>>}]
        /\ UNCHANGED <<saved, drive, faults, version>>
        /\ Only(c, [app[c] EXCEPT !.edited = TRUE, !.run.changed = Running(app[c]), !.editTimer = timer])
    BY DEF Edit
  <1> HIDE DEF n
  <1>4. <<"edit", n>> \in Things
    BY <1>2, <1>3, DriveSyncAssumption DEF Things
  <1>5. app[c].played \in BOOLEAN /\ timer \in BOOLEAN
    BY <1>1 DEF AppType
  <1> HIDE DEF timer
  <1>6. [app[c] EXCEPT !.edited = TRUE, !.run.changed = Running(app[c]), !.editTimer = timer]
          = [app[c] EXCEPT !.edited = TRUE, !.played = app[c].played,
                           !.run.changed = Running(app[c]), !.editTimer = timer]
    BY <1>1 DEF AppType
  <1>7. Only(c, [app[c] EXCEPT !.edited = TRUE, !.played = app[c].played,
                               !.run.changed = Running(app[c]), !.editTimer = timer])
    BY <1>3, <1>6
  <1> QED BY <1>3, <1>4, <1>5, <1>7, DoneStep

LEMMA PlayStep ==
    ASSUME IInv, NEW c \in Computers, Play(c)
    PROVE  IInv' /\ AllSent
  <1> DEFINE n == 1 + Cardinality(OfKind("play"))
  <1>1. app[c] \in AppType /\ lib \in [Computers -> Libraries]
    BY OfOne DEF IInv, Typed
  <1>2. n \in Nat /\ n >= 1
    BY <1>1, NextHasANumber
  <1>3. /\ n <= MaxPlays /\ lib' = [lib EXCEPT ![c] = @ \union {<<"play", n>>}]
        /\ UNCHANGED <<saved, drive, faults, version>>
        /\ Only(c, [app[c] EXCEPT !.played = TRUE, !.run.changed = Running(app[c])])
    BY DEF Play
  <1> HIDE DEF n
  <1>4. <<"play", n>> \in Things
    BY <1>2, <1>3, DriveSyncAssumption DEF Things
  <1>5. app[c].edited \in BOOLEAN /\ app[c].editTimer \in BOOLEAN
    BY <1>1 DEF AppType
  <1>6. [app[c] EXCEPT !.played = TRUE, !.run.changed = Running(app[c])]
          = [app[c] EXCEPT !.edited = app[c].edited, !.played = TRUE,
                           !.run.changed = Running(app[c]), !.editTimer = app[c].editTimer]
    BY <1>1 DEF AppType
  <1>7. Only(c, [app[c] EXCEPT !.edited = app[c].edited, !.played = TRUE,
                               !.run.changed = Running(app[c]), !.editTimer = app[c].editTimer])
    BY <1>3, <1>6
  <1> QED BY <1>3, <1>4, <1>5, <1>7, DoneStep

LEMMA PlayEndsStep ==
    ASSUME IInv, NEW c \in Computers, PlayEnds(c)
    PROVE  IInv' /\ AllSent
  <1>1. /\ app[c] \in AppType /\ Whole(app[c]) /\ lib[c] \in Libraries /\ saved[c] \in SavedType
        /\ Sound(lib[c], app[c].run, saved[c], drive, version) /\ faults \in 0 .. MaxFaults
        /\ lib \in [Computers -> Libraries]
    BY OfOne DEF IInv, Typed
  <1>2. UNCHANGED <<app, saved, drive, faults, version>>
    BY DEF PlayEnds
  <1>3. PICK n \in 1 .. MaxPlays : lib' = [lib EXCEPT ![c] = @ \union {<<"heard", n>>}]
    BY DEF PlayEnds
  <1> DEFINE l2 == lib[c] \cup {<<"heard", n>>}
  <1>4. <<"heard", n>> \in Things
    BY DEF Things
  <1>5. l2 \in Libraries /\ lib[c] \subseteq l2 /\ \A d \in l2 \ lib[c] : d[1] = "heard"
    BY <1>1, <1>4 DEF Libraries
  <1>6. /\ lib' = [lib EXCEPT ![c] = l2] /\ saved' = [saved EXCEPT ![c] = saved[c]]
        /\ Only(c, app[c])
    BY <1>1, <1>2, <1>3, AsItWas DEF Only
  <1> HIDE DEF l2
  <1>7. Sound(l2, app[c].run, saved[c], drive, version)
    BY <1>1, <1>5, SoundGrows
  <1>8. Becomes(app[c], l2, app[c], saved[c], drive, version)
    BY <1>1, <1>5, <1>7, SameRunBecomes DEF SameFlags
  <1>9. Moves(c, l2, drive, version)
    BY <1>6, <1>8 DEF Moves
  <1> QED BY <1>1, <1>2, <1>6, <1>9, MovesWithin

\* Drive changes by no one's sync.
LEMMA DriveStep ==
    ASSUME IInv, UNCHANGED <<lib, app, saved>>, faults' \in 0 .. MaxFaults,
           version' \in 0 .. MaxVersion, DriveTyped(drive', version'),
           Benign(drive, version, drive', version')
    PROVE  IInv' /\ AllSent
  <1>1. Typed'
    BY DEF IInv, Typed
  <1>2. version \in Nat /\ version' \in Nat
    BY DriveSyncAssumption DEF IInv, Typed
  <1>3. ASSUME NEW d \in Computers
        PROVE  Whole(app'[d]) /\ Sound(lib'[d], app'[d].run, saved'[d], drive', version')
    <2>1. /\ app[d].run \in RunType /\ saved[d] \in SavedType /\ Whole(app[d])
          /\ Sound(lib[d], app[d].run, saved[d], drive, version)
      BY OfOne
    <2>2. Sound(lib[d], app[d].run, saved[d], drive', version')
      BY <1>2, <2>1, SoundMoves
    <2> QED BY <2>1, <2>2
  <1>4. AllSent
    BY DEF AllSent, TakesForSent
  <1> QED BY <1>1, <1>3, <1>4 DEF IInv

LEMMA DriveEmptiedStep ==
    ASSUME IInv, DriveEmptied
    PROVE  IInv' /\ AllSent
  <1>1. /\ drive' = <<>> /\ UNCHANGED <<lib, app, saved, version>> /\ Fault
        /\ faults \in 0 .. MaxFaults /\ version \in 0 .. MaxVersion /\ version \in Nat
    BY DriveSyncAssumption DEF DriveEmptied, IInv, Typed
  <1>2. DOMAIN drive' = {}
    BY <1>1
  <1>3. DriveTyped(drive', version') /\ Benign(drive, version, drive', version')
    BY <1>1, <1>2 DEF DriveTyped, Benign
  <1> QED BY <1>1, <1>3, FaultIs, DriveStep

LEMMA NewerWritesStep ==
    ASSUME IInv, NewerWrites
    PROVE  IInv' /\ AllSent
  <1>1. /\ version' = version + 1 /\ version < MaxVersion /\ UNCHANGED <<lib, app, saved>> /\ Fault
        /\ faults \in 0 .. MaxFaults /\ version \in 0 .. MaxVersion /\ version \in Nat
        /\ DriveTyped(drive, version)
    BY DriveSyncAssumption DEF NewerWrites, IInv, Typed
  <1>2. PICK id \in DOMAIN drive : drive' = Written(id, drive[id].holds, TRUE)
    BY DEF NewerWrites
  <1>3. id \in Ids /\ drive[id].holds \in Libraries
    BY <1>1, <1>2 DEF DriveTyped
  <1>4. DriveTyped(drive', version') /\ Benign(drive, version, drive', version')
    BY <1>1, <1>2, <1>3, WrittenIs
  <1>5. version' \in 0 .. MaxVersion
    BY <1>1, DriveSyncAssumption
  <1> QED BY <1>1, <1>4, <1>5, FaultIs, DriveStep

-----------------------------------------------------------------------------
(* What is promised.                                                        *)

LEMMA InvInit == Init => IInv
  <1> SUFFICES ASSUME Init
               PROVE  IInv
    OBVIOUS
  <1>1. /\ {} \in Libraries /\ {} \in Contents
    BY DEF Libraries, Contents
  <1>2. NoRun \in RunType /\ NoRun.step = "none" /\ Fresh(NoRun)
    BY NoRunIsFresh DEF Fresh
  <1>3. Launched \in AppType /\ Launched.run = NoRun
    BY <1>2 DEF Launched, AppType
  <1>4. /\ drive = <<>> /\ version = 0 /\ faults = 0
    BY DEF Init
  <1>5. DOMAIN drive = {}
    BY <1>4
  <1>6. DriveTyped(drive, version)
    BY <1>5 DEF DriveTyped
  <1>7. NothingSaved \in SavedType
    BY <1>1 DEF NothingSaved, SavedType
  <1>8. Typed
    BY <1>1, <1>3, <1>4, <1>6, <1>7, DriveSyncAssumption DEF Init, Typed
  <1>9. ASSUME NEW c \in Computers
        PROVE  Whole(app[c]) /\ Sound(lib[c], app[c].run, saved[c], drive, version)
    <2>1. lib[c] = {} /\ app[c] = Launched /\ saved[c] = NothingSaved
      BY DEF Init
    <2>2. Whole(app[c])
      BY <1>2, <1>3, <2>1 DEF Whole, Running
    <2>3. Remembered(lib[c], saved[c], drive, version)
      BY <1>4, <1>6, <2>1, NothingRemembered
    <2> QED BY <1>2, <1>3, <2>1, <2>2, <2>3, FreshIsSound
  <1> QED BY <1>8, <1>9 DEF IInv

LEMMA InvNext == IInv /\ [Next]_sync => IInv' /\ AllSent
  <1> SUFFICES ASSUME IInv, [Next]_sync
               PROVE  IInv' /\ AllSent
    OBVIOUS
  <1>1. CASE UNCHANGED sync
    <2>1. UNCHANGED <<lib, app, saved, drive, faults, version>>
      BY <1>1 DEF sync
    <2>2. faults \in 0 .. MaxFaults /\ version \in 0 .. MaxVersion /\ DriveTyped(drive, version)
      BY DEF IInv, Typed
    <2>3. version \in Nat
      BY <2>2, DriveSyncAssumption
    <2>4. Benign(drive, version, drive', version') /\ DriveTyped(drive', version')
      BY <2>1, <2>2, <2>3, SameIsBenign
    <2> QED BY <2>1, <2>2, <2>4, DriveStep
  <1>2. ASSUME NEW c \in Computers, Answers(c) \/ Fails(c) \/ FinishCut(c)
        PROVE  IInv' /\ AllSent
    BY <1>2, ListStep, DownloadStep, UploadStep, UploadedStep, DeleteStep, FailsStep, FinishCutStep
       DEF Answers
  <1>3. ASSUME NEW c \in Computers,
               SyncTimer(c) \/ EditTimer(c) \/ Period(c) \/ SyncNow(c) \/ SignIn(c) \/ SignOut(c) \/ Relaunch(c)
        PROVE  IInv' /\ AllSent
    BY <1>3, SyncTimerStep, EditTimerStep, PeriodStep, SyncNowStep, SignInStep, SignOutStep, RelaunchStep
  <1>4. ASSUME NEW c \in Computers, Edit(c) \/ Play(c) \/ PlayEnds(c)
        PROVE  IInv' /\ AllSent
    BY <1>4, EditStep, PlayStep, PlayEndsStep
  <1>5. CASE DriveEmptied \/ NewerWrites
    BY <1>5, DriveEmptiedStep, NewerWritesStep
  <1> QED BY <1>1, <1>2, <1>3, <1>4, <1>5 DEF Next

LEMMA Invariance == Spec => []IInv
  <1>1. IInv /\ [Next]_sync => IInv'
    BY InvNext
  <1> QED BY <1>1, InvInit, PTL DEF Spec

\* The variables keep their shapes; and a sync runs only signed in, and never while
\* the file is known to be unreadable.
THEOREM SyncTypes == Spec => []TypeOK
  <1>1. IInv => TypeOK
    <2> SUFFICES ASSUME IInv
                 PROVE  TypeOK
      OBVIOUS
    <2>1. ASSUME NEW c \in Computers
          PROVE  /\ lib[c] \subseteq Things /\ saved[c].version \in 0 .. version
                 /\ app[c].run.step \in {"none", "listing", "reading", "sending", "sent", "deleting"}
                 /\ Running(app[c]) => app[c].signedIn
                 /\ app[c].held => ~Running(app[c])
      <3>1. /\ lib[c] \in Libraries /\ app[c].run \in RunType /\ saved[c] \in SavedType
            /\ version \in Nat /\ Whole(app[c]) /\ Remembered(lib[c], saved[c], drive, version)
        BY OfOne
      <3>2. saved[c].version \in 0 .. version
        BY <3>1 DEF SavedType, Remembered
      <3> QED BY <3>1, <3>2 DEF Libraries, RunType, Steps, Whole
    <2>2. \A id \in DOMAIN drive :
              drive[id] \in [version : 1 .. version, holds : SUBSET Things, newer : BOOLEAN]
      BY DEF IInv, Typed, DriveTyped, Libraries
    <2> QED BY <2>1, <2>2 DEF TypeOK, IInv, Typed, DriveTyped
  <1> QED BY <1>1, Invariance, PTL

\* What a computer has recorded of the file in Drive is true of it for as long as
\* the file is as recorded, whatever the others do and wherever a crash, a failure
\* or a deletion falls: not reading it again (found, the first branch of
\* mergeAndUpload) loses nothing of anyone's.
THEOREM WhatIsSavedIsTrue == Spec => []SavedIsTrue
  <1>1. IInv => SavedIsTrue
    <2> SUFFICES ASSUME IInv, NEW c \in Computers, NEW id \in DOMAIN drive,
                        saved[c].id = id, saved[c].version = drive[id].version
                 PROVE  /\ drive[id].holds \subseteq lib[c]
                        /\ \A known \in saved[c].hash : known \subseteq drive[id].holds
      BY DEF SavedIsTrue
    <2>1. Remembered(lib[c], saved[c], drive, version)
      BY OfOne
    <2>2. Still(drive, saved[c].id, saved[c].version)
      BY DEF Still
    <2> QED BY <2>1, <2>2 DEF Remembered
  <1> QED BY <1>1, Invariance, PTL

\* A sync that takes what was done here for sent has sent it (finishRun's flags and
\* setting), however the library was edited while it ran.
THEOREM WhatIsTakenForSentIsSent == Spec => SentIsAll
  <1>1. IInv /\ [Next]_sync =>
            [\A c \in Computers :
                /\ (app[c].edited \/ app[c].played) /\ ~app[c].run.refound
                /\ app'[c].synced /\ ~app'[c].edited /\ ~app'[c].played
                /\ saved'[c].id \in DOMAIN drive' /\ saved'[c].version = drive'[saved'[c].id].version
                => \A d \in lib'[c] : d[1] # "heard" => d \in drive'[saved'[c].id].holds]_sync
    <2> SUFFICES ASSUME IInv, [Next]_sync, NEW c \in Computers,
                        (app[c].edited \/ app[c].played) /\ ~app[c].run.refound,
                        app'[c].synced /\ ~app'[c].edited /\ ~app'[c].played,
                        saved'[c].id \in DOMAIN drive',
                        saved'[c].version = drive'[saved'[c].id].version
                 PROVE  \A d \in lib'[c] : d[1] # "heard" => d \in drive'[saved'[c].id].holds
      OBVIOUS
    <2>1. AllSent
      BY InvNext
    <2>2. TakesForSent(app[c], app'[c]) /\ Still(drive', saved'[c].id, saved'[c].version)
      BY DEF TakesForSent, Still
    <2> QED BY <2>1, <2>2 DEF AllSent, AllOf
  <1> QED BY <1>1, Invariance, PTL DEF Spec, SentIsAll

\* Of a DriveSync that found the file unreadable no timer starts a run.
LEMMA HeldIs ==
    ASSUME NEW a, Whole(a), a.held
    PROVE  LeftAlone(a) /\ LeftAlone(Started(a, FALSE)) /\ LeftAlone(Requested(a))
  <1>1. a \in AppType /\ ~Running(a)
    BY DEF Whole
  <1> QED BY <1>1 DEF LeftAlone, Started, Requested, Running, AppType

LEMMA HeldStep ==
    ASSUME IInv, [Next]_sync, NEW c \in Computers, app[c].held,
           ~(SyncNow(c) \/ SignIn(c) \/ SignOut(c))
    PROVE  LeftAlone(app'[c])
  <1> DEFINE a == app[c]
  <1>1. /\ a \in AppType /\ Whole(a) /\ ~Running(a) /\ LeftAlone(a)
        /\ LeftAlone(Started(a, FALSE)) /\ LeftAlone(Requested(a))
    BY OfOne, HeldIs DEF LeftAlone
  <1>2. app \in [Computers -> AppType]
    BY DEF IInv, Typed
  <1>3. ASSUME NEW d \in Computers, NEW b, Only(d, b), d = c => LeftAlone(b)
        PROVE  LeftAlone(app'[c])
    BY <1>1, <1>2, <1>3 DEF Only
  <1>4. CASE UNCHANGED app
    BY <1>1, <1>4
  <1>5. ASSUME NEW d \in Computers, SyncTimer(d) \/ EditTimer(d) \/ Period(d) \/ SyncNow(d)
        PROVE  LeftAlone(app'[c])
    <2>1. CASE SyncTimer(d)
      BY <1>1, <1>3, <2>1 DEF SyncTimer
    <2>2. CASE EditTimer(d)
      <3>1. [a EXCEPT !.editTimer = FALSE].held /\ Whole([a EXCEPT !.editTimer = FALSE])
        BY <1>1 DEF Whole, Running, AppType
      <3>2. LeftAlone(Requested([a EXCEPT !.editTimer = FALSE]))
        BY <3>1, HeldIs
      <3> QED BY <1>3, <2>2, <3>2 DEF EditTimer
    <2>3. CASE Period(d)
      <3>1. [a EXCEPT !.periodDue = TRUE].held /\ Whole([a EXCEPT !.periodDue = TRUE])
        BY <1>1 DEF Whole, Running, AppType
      <3>2. LeftAlone(Requested([a EXCEPT !.periodDue = TRUE]))
        BY <3>1, HeldIs
      <3> QED BY <1>3, <2>3, <3>2 DEF Period
    <2>4. CASE SyncNow(d)
      BY <1>3, <2>4 DEF SyncNow
    <2> QED BY <1>5, <2>1, <2>2, <2>3, <2>4
  <1>6. ASSUME NEW d \in Computers, SignIn(d) \/ SignOut(d) \/ Relaunch(d)
        PROVE  LeftAlone(app'[c])
    <2>1. CASE SignIn(d)
      BY <1>3, <2>1 DEF SignIn
    <2>2. CASE SignOut(d)
      BY <1>3, <2>2 DEF SignOut
    <2>3. CASE Relaunch(d)
      <3> DEFINE b == [Launched EXCEPT !.signedIn = a.signedIn, !.held = a.held]
      <3>1. a.signedIn \in BOOLEAN /\ a.held \in BOOLEAN /\ a.held
        BY <1>1 DEF AppType
      <3>2. Whole(b) /\ b.held
        BY <3>1, LaunchedIsWhole DEF Launched
      <3> HIDE DEF b
      <3>3. LeftAlone(Requested(b))
        BY <3>2, HeldIs
      <3> USE DEF b
      <3> QED BY <1>3, <2>3, <3>3 DEF Relaunch
    <2> QED BY <1>6, <2>1, <2>2, <2>3
  <1>7. ASSUME NEW d \in Computers, Edit(d) \/ Play(d) \/ PlayEnds(d)
        PROVE  LeftAlone(app'[c])
    <2>1. CASE Edit(d)
      <3>1. LeftAlone([a EXCEPT !.edited = TRUE, !.run.changed = Running(a),
                                !.editTimer = @ \/ (a.signedIn /\ ~a.held)])
        BY <1>1 DEF LeftAlone, Running, AppType, RunType
      <3> QED BY <1>3, <2>1, <3>1 DEF Edit
    <2>2. CASE Play(d)
      <3>1. LeftAlone([a EXCEPT !.played = TRUE, !.run.changed = Running(a)])
        BY <1>1 DEF LeftAlone, Running, AppType, RunType
      <3> QED BY <1>3, <2>2, <3>1 DEF Play
    <2>3. CASE PlayEnds(d)
      BY <1>4, <2>3 DEF PlayEnds
    <2> QED BY <1>7, <2>1, <2>2, <2>3
  <1>8. ASSUME NEW d \in Computers, Answers(d) \/ Fails(d) \/ FinishCut(d)
        PROVE  LeftAlone(app'[c])
    <2>1. d # c
      BY <1>1, <1>8 DEF Answers, List, Download, Upload, Uploaded, Delete, Fails, FinishCut, Running
    <2> DEFINE Told == \E b : Only(d, b)
    <2>2. ASSUME NEW run, Removing(d, run) PROVE Told
      BY <2>2 DEF Removing, Finished
    <2>3. ASSUME NEW run, NEW mine, MergeAndUpload(d, run, mine) PROVE Told
      BY <2>2, <2>3 DEF MergeAndUpload
    <2>4. ASSUME NEW files, Listed(d, files) PROVE Told
      BY <2>3, <2>4 DEF Listed
    <2>5. Gone(d) => Told
      BY DEF Gone
    <2>6. Told
      <3>1. CASE List(d)
        BY <2>4, <3>1 DEF List
      <3>2. CASE Download(d)
        BY <2>3, <2>5, <3>2 DEF Download
      <3>3. CASE Upload(d)
        BY <2>5, <3>3 DEF Upload
      <3>4. CASE Uploaded(d) \/ Delete(d)
        BY <2>2, <3>4 DEF Uploaded, Delete
      <3>5. CASE Fails(d) \/ FinishCut(d)
        BY <3>5 DEF Fails, FinishCut
      <3> QED BY <1>8, <3>1, <3>2, <3>3, <3>4, <3>5 DEF Answers
    <2>7. app'[c] = app[c]
      BY <1>2, <2>1, <2>6 DEF Only
    <2> QED BY <1>1, <2>7
  <1>9. CASE DriveEmptied \/ NewerWrites \/ UNCHANGED sync
    BY <1>4, <1>9 DEF DriveEmptied, NewerWrites, sync
  <1> QED BY <1>5, <1>6, <1>7, <1>8, <1>9 DEF Next

\* A computer that found the file unreadable goes on knowing so and starts no sync,
\* of all its timers, through its launches and edits, until SYNC NOW, or until it is
\* signed out or in again (failRun, requestSync, startRun, start).
THEOREM WhatIsHeldIsLeftAlone == Spec => HeldIsLeftAlone
  <1>1. IInv /\ [Next]_sync =>
            [\A c \in Computers :
                app[c].held => LeftAlone(app'[c]) \/ SyncNow(c) \/ SignIn(c) \/ SignOut(c)]_sync
    BY HeldStep
  <1> QED BY <1>1, Invariance, PTL DEF Spec, HeldIsLeftAlone
=============================================================================
