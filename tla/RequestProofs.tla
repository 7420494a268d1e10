--------------------------- MODULE RequestProofs ---------------------------
(***************************************************************************)
(* What asks a service at its own pace.  First Scrobbler, for every number *)
(* of accounts, listens and requests, and every size of queue and batch:   *)
(* nothing heard is lost, the queue keeps within its size, nothing that    *)
(* could go is left asleep, and, unless the program dies halfway through   *)
(* signing in, nothing goes out under another account.  Then Imports, for  *)
(* every number of imports, rows, hours and searches: YouTube is asked one *)
(* thing at a time and never while it rests, what goes on has a step to    *)
(* come, and the songs found keep the order of their source.               *)
(***************************************************************************)
EXTENDS Scrobbler, Imports, FiniteSetTheorems, FunctionTheorems, NaturalsInduction,
        SequenceTheorems, WellFoundedInduction, TLAPS

-----------------------------------------------------------------------------
(* Types *)

Accounts == Users \cup {NoUser}

AppType == [state : {"Off", "Waiting", "Connected", "Expired", "Error"},
            user : Accounts, key : Accounts, enabled : BOOLEAN,
            inFlight : BOOLEAN, timer : BOOLEAN,
            pause : {"None", "Backoff", "Asked"}, held : BOOLEAN,
            singles : SUBSET (1 .. heard), token : BOOLEAN, disconnectFailed : BOOLEAN]

RequestType == [rows : SUBSET Row, key : Users, live : BOOLEAN,
                reply : Replies, done : SUBSET (1 .. heard)]

\* What a pending answer says is the last word on, Last.fm has recorded.
Recorded ==
    \A q \in air : \A id \in Removed(q) : \E a \in lastfm.answered : a.id = id

OneRowPerId == \A r, s \in rows : r.id = s.id => r = s

LossInv == Types /\ OneRowPerId /\ Recorded /\ NothingHeardIsLost

\* As many rows as there are ids for them.
LEMMA FewBetween ==
    ASSUME NEW set, NEW low \in Nat, NEW high \in Nat, low <= high,
           \A r \in set : r.id \in low + 1 .. high,
           \A r, s \in set : r.id = s.id => r = s
    PROVE  IsFiniteSet(set) /\ Cardinality(set) <= high - low
<1> DEFINE id == [r \in set |-> r.id]
           span == low + 1 .. high
<1>1. id \in Injection(set, span)
  BY DEF Injection, IsInjective
<1>2. IsFiniteSet(span) /\ Cardinality(span) <= high - low
  <2>1. low + 1 \in Int /\ high \in Int
    OBVIOUS
  <2>2. IsFiniteSet(span)
    BY <2>1, FS_Interval
  <2>3. Cardinality(span) = IF low + 1 > high THEN 0 ELSE high - (low + 1) + 1
    BY <2>1, FS_Interval
  <2> HIDE DEF span
  <2> QED
    BY <2>2, <2>3
<1>3. IsFiniteSet(set)
  BY <1>1, <1>2, FS_Injection
<1>4. Cardinality(set) <= Cardinality(span)
  BY <1>1, <1>2, FS_Injection
<1>5. Cardinality(set) \in Nat /\ Cardinality(span) \in Nat
  BY <1>2, <1>3, FS_CardinalityType
<1> HIDE DEF span, id
<1> QED
  BY <1>2, <1>3, <1>4, <1>5

SavedType == [user : Accounts, key : Accounts, enabled : BOOLEAN]

LastFmType == [revoked : SUBSET Users,
               answered : SUBSET [id : 1 .. heard, account : Users, to : Users]]

LEMMA TypesAre ==
    Types <=> /\ heard \in Nat
              /\ rows \subseteq Row
              /\ saved \in SavedType
              /\ app \in AppType
              /\ air \subseteq RequestType
              /\ lastfm \in LastFmType
BY DEF Types, Accounts, AppType, RequestType, SavedType, LastFmType

\* What a step that hears nothing has to keep.
LEMMA KeepsTypes ==
    ASSUME Types, heard' = heard, rows' \subseteq rows,
           saved' \in SavedType, app' \in AppType, air' \subseteq RequestType, lastfm' \in LastFmType
    PROVE  Types'
BY DEF Types, Accounts, AppType, RequestType, SavedType, LastFmType, Row, Replies

LEMMA StartedType ==
    ASSUME NEW store \in SavedType, NEW read \in Reads
    PROVE  Started(store, read) \in AppType
BY DEF Started, AppType, Accounts, SavedType, Reads

LEMMA DisownedType ==
    ASSUME Types, NEW S \in SUBSET air
    PROVE  /\ {[q EXCEPT !.live = FALSE] : q \in S} \subseteq RequestType
           /\ \A d \in {[q EXCEPT !.live = FALSE] : q \in S} :
                  ~d.live /\ \E q \in S : d.rows = q.rows /\ d.key = q.key
                                         /\ d.reply = q.reply /\ d.done = q.done
<1> SUFFICES ASSUME NEW q \in S
             PROVE  /\ [q EXCEPT !.live = FALSE] \in RequestType
                    /\ ~[q EXCEPT !.live = FALSE].live
                    /\ [q EXCEPT !.live = FALSE].rows = q.rows
                    /\ [q EXCEPT !.live = FALSE].key = q.key
                    /\ [q EXCEPT !.live = FALSE].reply = q.reply
                    /\ [q EXCEPT !.live = FALSE].done = q.done
  BY Zenon
<1>1. q \in [rows : SUBSET Row, key : Users, live : BOOLEAN, reply : Replies, done : SUBSET (1 .. heard)]
  BY TypesAre DEF RequestType
<1>2. /\ [q EXCEPT !.live = FALSE].rows = q.rows
      /\ [q EXCEPT !.live = FALSE].key = q.key
      /\ [q EXCEPT !.live = FALSE].reply = q.reply
      /\ [q EXCEPT !.live = FALSE].done = q.done
  BY <1>1
<1>3. [q EXCEPT !.live = FALSE] \in RequestType
  BY <1>1 DEF RequestType
<1>4. ~[q EXCEPT !.live = FALSE].live
  BY <1>1
<1> QED
  BY <1>2, <1>3, <1>4

\* Only what has not been answered is disowned.
LEMMA DisownedUnanswered ==
    ASSUME Types, NEW S \in SUBSET air, \A q \in S : q.reply = ""
    PROVE  \A d \in {[q EXCEPT !.live = FALSE] : q \in S} : d.reply = ""
<1> DEFINE D == {[q EXCEPT !.live = FALSE] : q \in S}
<1>1. \A d \in D : \E q \in S : d.reply = q.reply
  BY DisownedType, Zenon
<1> HIDE DEF D
<1>2. \A d \in D : d.reply = ""
  BY <1>1
<1> QED
  BY <1>2 DEF D

LEMMA DisownedReply == Types => \A d \in Disowned : d.reply = ""
<1> DEFINE S == {r \in air : r.reply = ""}
<1>1. S \in SUBSET air /\ \A q \in S : q.reply = ""
  OBVIOUS
<1>2. Disowned = {[q EXCEPT !.live = FALSE] : q \in S}
  BY DEF Disowned
<1> HIDE DEF S
<1> QED
  BY <1>1, <1>2, DisownedUnanswered

LEMMA InitTypes == Init => Types
<1> SUFFICES ASSUME Init PROVE Types
  OBVIOUS
<1>1. saved \in SavedType
  BY DEF Init, Accounts, SavedType
<1>2. app \in AppType
  BY <1>1, StartedType DEF Init, Reads
<1> QED
  BY <1>1, <1>2, TypesAre DEF Init, LastFmType

\* The members a handler sets.
LEMMA PausedType ==
    ASSUME NEW a \in AppType, NEW why \in {"Backoff", "Asked"}
    PROVE  Paused(a, why) \in AppType
BY DEF Paused, AppType

LEMMA ExpiredType == ASSUME NEW a \in AppType PROVE Expired(a) \in AppType
BY DEF Expired, AppType, Accounts

LEMMA ConnectedType ==
    ASSUME NEW a \in AppType, NEW user \in Users
    PROVE  Connected(a, user) \in AppType
BY DEF Connected, SignedIn, AppType, Accounts

\* The steps that only set members.
MembersOnly ==
    FlushIdly \/ PauseOver \/ NetworkBack \/ ConnectAccount \/ TokenArrived \/ FailConnecting
    \/ CancelConnect \/ DisconnectFails

LEMMA MembersOnlyTypes ==
    ASSUME Types, MembersOnly
    PROVE  UNCHANGED <<heard, rows, saved, air, lastfm>> /\ app' \in AppType
<1> USE TypesAre DEF AppType, Accounts
<1>1. CASE FlushIdly
  BY <1>1 DEF FlushIdly
<1>2. CASE PauseOver
  BY <1>2 DEF PauseOver
<1>3. CASE NetworkBack
  BY <1>3 DEF NetworkBack
<1>4. CASE ConnectAccount
  BY <1>4 DEF ConnectAccount
<1>5. CASE TokenArrived
  BY <1>5 DEF TokenArrived
<1>6. CASE FailConnecting
  BY <1>6 DEF FailConnecting
<1>7. CASE CancelConnect
  BY <1>7 DEF CancelConnect
<1>8. CASE DisconnectFails
  BY <1>8 DEF DisconnectFails
<1> QED
  BY <1>1, <1>2, <1>3, <1>4, <1>5, <1>6, <1>7, <1>8 DEF MembersOnly

\* A session over: its requests are nobody's, and its members cleared.
LEMMA DisconnectTypes ==
    ASSUME Types, DisconnectAccount \/ NowPlayingRefused
    PROVE  Types'
<1> USE TypesAre
<1>1. air' = {[q EXCEPT !.live = FALSE] : q \in {r \in air : r.reply = ""}}
  BY DEF DisconnectAccount, NowPlayingRefused, Disowned
<1>2. air' \subseteq RequestType
  BY <1>1, DisownedType
<1>3. saved' \in SavedType
  BY DEF DisconnectAccount, NowPlayingRefused, SavedType, Accounts
<1>4. app' \in AppType
  <2>1. CASE DisconnectAccount
    <3>1. app \in AppType
      OBVIOUS
    <3>2. app' = [app EXCEPT !.state = "Off", !.user = NoUser, !.key = NoUser,
                             !.inFlight = FALSE, !.timer = FALSE, !.pause = "None",
                             !.held = FALSE, !.singles = {}, !.disconnectFailed = FALSE]
      BY <2>1 DEF DisconnectAccount
    <3> QED
      BY ONLY <3>1, <3>2 DEF AppType, Accounts
  <2>2. CASE NowPlayingRefused
    BY <2>2, ExpiredType DEF NowPlayingRefused
  <2> QED
    BY <2>1, <2>2
<1>5. heard' = heard /\ rows' = rows /\ lastfm' = lastfm
  BY DEF DisconnectAccount, NowPlayingRefused
<1> QED
  BY <1>2, <1>3, <1>4, <1>5, KeepsTypes

LEMMA FinishConnectingTypes ==
    ASSUME Types, NEW user \in Users, NEW cut \in {FALSE, SignInCuts}, FinishConnecting(user, cut)
    PROVE  Types'
<1> USE TypesAre, ScrobblerAssumption DEF FinishConnecting, Reads
<1>1. air' \subseteq RequestType
  BY DisownedType DEF Disowned
<1>2. saved' \in SavedType
  BY DEF SavedType, Accounts
<1>3. app' \in AppType
  BY <1>2, StartedType, ConnectedType
<1>4. lastfm' \in LastFmType
  BY DEF LastFmType
<1> QED
  BY <1>1, <1>2, <1>3, <1>4, KeepsTypes

LEMMA RestartTypes ==
    ASSUME Types, NEW read \in Reads, Restart(read)
    PROVE  Types'
<1>1. air' \subseteq RequestType
  BY DisownedType DEF Disowned, Restart
<1>2. app' \in AppType
  BY TypesAre, StartedType DEF Restart
<1> QED
  BY <1>1, <1>2, KeepsTypes, TypesAre DEF Restart

LEMMA SetEnabledTypes == ASSUME Types, SetEnabled PROVE Types'
<1>1. saved' \in SavedType
  BY TypesAre DEF SetEnabled, SavedType
<1>2. app' \in AppType
  BY TypesAre DEF SetEnabled, AppType
<1> QED
  BY <1>1, <1>2, KeepsTypes, TypesAre DEF SetEnabled

LEMMA RevokeTypes == ASSUME Types, NEW user \in Users, Revoke(user) PROVE Types'
<1>1. lastfm' \in LastFmType
  BY TypesAre DEF Revoke, LastFmType
<1> QED
  BY <1>1, KeepsTypes, TypesAre DEF Revoke

LEMMA ListenQualifiedTypes == ASSUME Types, ListenQualified PROVE Types'
<1> USE TypesAre, ScrobblerAssumption DEF ListenQualified
<1>1. heard' = heard + 1 /\ heard' \in Nat /\ 1 .. heard \subseteq 1 .. heard'
  OBVIOUS
<1>2. rows' \subseteq Row'
  <2>1. app.user \in Users
    BY DEF Recording, AppType, Accounts
  <2>2. rows \cup {[id |-> heard + 1, account |-> app.user]} \subseteq Row'
    BY <1>1, <2>1 DEF Row
  <2> QED
    BY <2>2 DEF Kept, Newest
<1>3. saved' \in SavedType /\ saved' = saved
  OBVIOUS
<1>4. app' \in AppType'
  BY <1>1 DEF AppType, Accounts
<1>5. air' \subseteq RequestType'
  BY <1>1 DEF RequestType, Row, Replies
<1>6. lastfm' \in LastFmType'
  BY <1>1 DEF LastFmType
<1> QED
  BY <1>1, <1>2, <1>3, <1>4, <1>5, <1>6 DEF Types, Accounts, AppType, RequestType, SavedType, LastFmType

LEMMA FlushTypes == ASSUME Types, Flush PROVE Types'
<1> USE TypesAre
<1>1. app.key \in Users
  BY DEF Flush, CanSend, AppType, Accounts
<1>2. ToSend \subseteq rows
  BY DEF ToSend, Oldest, RowsOf
<1>3. air' \subseteq RequestType
  <2>1. [rows |-> ToSend, key |-> app.key, live |-> TRUE, reply |-> "", done |-> {}] \in RequestType
    BY <1>1, <1>2 DEF RequestType, Replies
  <2>2. air' \subseteq air \cup {[rows |-> ToSend, key |-> app.key, live |-> TRUE,
                                 reply |-> "", done |-> {}]}
    BY DEF Flush
  <2> QED
    BY <2>1, <2>2
<1>4. app' \in AppType
  <2>1. app.singles \cap Ids(RowsOf(app.user)) \in SUBSET (1 .. heard)
    BY DEF AppType
  <2> DEFINE keep == app.singles \cap Ids(RowsOf(app.user))
             some == ToSend # {}
  <2>2. app' = [app EXCEPT !.timer = FALSE, !.pause = "None", !.inFlight = some, !.singles = keep]
    BY DEF Flush
  <2>3. some \in BOOLEAN
    OBVIOUS
  <2> HIDE DEF keep, some
  <2> QED
    BY <2>1, <2>2, <2>3 DEF AppType, keep
<1> QED
  BY <1>3, <1>4, KeepsTypes DEF Flush

LEMMA AnswerTypes ==
    ASSUME Types, NEW q \in air, NEW answer \in Answers(q)
    PROVE  /\ answer.reply \in Replies
           /\ answer.done \subseteq Ids(q.rows)
           /\ Ids(q.rows) \subseteq 1 .. heard
<1>1. q.rows \subseteq Row
  BY TypesAre DEF RequestType
<1>2. Ids(q.rows) \subseteq 1 .. heard
  BY <1>1 DEF Row, Ids
<1>3. answer.reply \in Replies
  <2>1. \E reply \in Replies, done \in SUBSET Ids(q.rows) : answer = Said(reply, done)
    BY DEF Answers, Replies
  <2> QED
    BY <2>1 DEF Said
<1>4. answer.done \subseteq Ids(q.rows)
  BY DEF Answers, Said
<1> QED
  BY <1>2, <1>3, <1>4

LEMMA LastFmAnswersTypes ==
    ASSUME Types, NEW q \in air, NEW answer \in Answers(q), LastFmAnswers(q, answer)
    PROVE  Types'
<1> USE TypesAre DEF LastFmAnswers
<1>1. lastfm' \in LastFmType
  <2>1. q.rows \subseteq Row /\ q.key \in Users
    BY DEF RequestType
  <2> DEFINE new == {[id |-> r.id, account |-> r.account, to |-> q.key] :
                         r \in {s \in q.rows : s.id \in answer.done}}
  <2>2. new \subseteq [id : 1 .. heard, account : Users, to : Users]
    <3> SUFFICES ASSUME NEW r \in q.rows
                 PROVE  [id |-> r.id, account |-> r.account, to |-> q.key]
                            \in [id : 1 .. heard, account : Users, to : Users]
      BY Zenon
    <3> QED
      BY <2>1 DEF Row
  <2>3. lastfm' = [lastfm EXCEPT !.answered = @ \cup new]
    OBVIOUS
  <2> HIDE DEF new
  <2> QED
    BY <2>2, <2>3 DEF LastFmType
<1>2. air' \subseteq RequestType
  <2>1. q \in RequestType
    OBVIOUS
  <2>2. answer.reply \in Replies /\ answer.done \in SUBSET (1 .. heard)
    BY AnswerTypes
  <2>3. [q EXCEPT !.reply = answer.reply, !.done = answer.done] \in RequestType
    BY <2>1, <2>2 DEF RequestType
  <2>4. air' \subseteq air \cup {[q EXCEPT !.reply = answer.reply, !.done = answer.done]}
    OBVIOUS
  <2> QED
    BY <2>3, <2>4
<1> QED
  BY <1>1, <1>2, KeepsTypes

LEMMA AfterType ==
    ASSUME Types, NEW q \in air, NEW a \in AppType
    PROVE  After(a, q) \in AppType
<1>1. Ids(q.rows) \in SUBSET (1 .. heard)
  BY TypesAre DEF RequestType, Row, Ids
<1>2. [a EXCEPT !.singles = @ \ Ids(q.rows)] \in AppType
  BY DEF AppType
<1>3. [a EXCEPT !.timer = TRUE, !.singles = @ \ Ids(q.rows)] \in AppType
  BY DEF AppType
<1>4. [a EXCEPT !.timer = TRUE, !.singles = Ids(q.rows)] \in AppType
  BY <1>1 DEF AppType
<1>5. Paused(a, "Asked") \in AppType /\ Paused([a EXCEPT !.singles = @ \ Ids(q.rows)], "Asked") \in AppType
  BY <1>2 DEF Paused, AppType
<1> QED
  BY <1>2, <1>3, <1>4, <1>5 DEF After

LEMMA BatchTypes ==
    ASSUME Types, NEW q \in air, BatchAnswered(q) \/ BatchExpired(q) \/ BatchLost(q)
    PROVE  Types'
<1> USE TypesAre
<1>1. CASE BatchAnswered(q)
  <2>1. [app EXCEPT !.inFlight = FALSE] \in AppType
    BY DEF AppType
  <2>2. app' \in AppType
    BY <1>1, <2>1, AfterType DEF BatchAnswered
  <2>3. rows' \subseteq rows
    BY <1>1 DEF BatchAnswered, Without
  <2> QED
    BY <1>1, <2>2, <2>3, KeepsTypes DEF BatchAnswered
<1>2. CASE BatchExpired(q)
  <2>1. app' \in AppType
    BY <1>2, ExpiredType DEF BatchExpired
  <2>2. air' \subseteq RequestType
    BY <1>2, DisownedType DEF BatchExpired
  <2>3. saved' \in SavedType
    BY <1>2 DEF BatchExpired, SavedType, Accounts
  <2> QED
    BY <1>2, <2>1, <2>2, <2>3, KeepsTypes DEF BatchExpired
<1>3. CASE BatchLost(q)
  <2>1. [app EXCEPT !.inFlight = FALSE] \in AppType
    BY DEF AppType
  <2>2. app' \in AppType
    BY <1>3, <2>1, PausedType DEF BatchLost
  <2> QED
    BY <1>3, <2>2, KeepsTypes DEF BatchLost
<1> QED
  BY <1>1, <1>2, <1>3

\* Every step keeps the types.
LEMMA TypesStep == Types /\ [Next]_vars => Types'
<1> SUFFICES ASSUME Types, [Next]_vars PROVE Types'
  OBVIOUS
<1>1. CASE UNCHANGED vars
  BY <1>1, TypesAre, KeepsTypes DEF vars
<1>2. CASE MembersOnly
  BY <1>2, MembersOnlyTypes, TypesAre, KeepsTypes
<1>3. CASE DisconnectAccount \/ NowPlayingRefused
  BY <1>3, DisconnectTypes
<1>4. CASE SetEnabled \/ ListenQualified \/ Flush
  BY <1>4, SetEnabledTypes, ListenQualifiedTypes, FlushTypes
<1>5. CASE \E user \in Users : \/ \E cut \in {FALSE, SignInCuts} : FinishConnecting(user, cut)
                                \/ Revoke(user)
  BY <1>5, FinishConnectingTypes, RevokeTypes
<1>6. CASE \E read \in Reads : Restart(read)
  BY <1>6, RestartTypes
<1>7. CASE \E q \in air : \/ \E answer \in Answers(q) : LastFmAnswers(q, answer)
                           \/ BatchAnswered(q) \/ BatchExpired(q) \/ BatchLost(q)
  BY <1>7, LastFmAnswersTypes, BatchTypes
<1> QED
  BY <1>1, <1>2, <1>3, <1>4, <1>5, <1>6, <1>7 DEF Next, World, MembersOnly

-----------------------------------------------------------------------------
(* Nothing heard is lost *)

\* What a step that takes no row has to keep.
LEMMA KeepsLoss ==
    ASSUME LossInv, Types', heard' = heard, rows' = rows,
           lastfm.answered \subseteq lastfm'.answered,
           \A q \in air' : q \in air \/ q.reply = ""
    PROVE  LossInv'
<1>1. OneRowPerId'
  BY DEF LossInv, OneRowPerId
<1>2. NothingHeardIsLost'
  BY DEF LossInv, NothingHeardIsLost, Ids
<1>3. Recorded'
  <2> SUFFICES ASSUME NEW q \in air', NEW id \in Removed(q)
               PROVE  \E a \in lastfm'.answered : a.id = id
    BY DEF Recorded, Removed, Ids
  <2>1. q.reply # ""
    BY DEF Removed
  <2> QED
    BY <2>1 DEF LossInv, Recorded
<1> QED
  BY <1>1, <1>2, <1>3 DEF LossInv

LEMMA ListenQualifiedKeepsLoss ==
    ASSUME LossInv, Types', ListenQualified
    PROVE  LossInv'
<1> DEFINE new == [id |-> heard + 1, account |-> app.user]
           all == rows \cup {new}
<1>1. heard \in Nat /\ heard' = heard + 1 /\ rows \subseteq Row /\ MaxQueued \in Nat
  BY TypesAre, ScrobblerAssumption DEF LossInv, ListenQualified
<1>2. \A r \in all : r.id \in 1 .. heard + 1
  BY <1>1 DEF Row
<1>3. \A r, s \in all : r.id = s.id => r = s
  BY <1>1 DEF LossInv, OneRowPerId, Row
<1>4. rows' = Newest(all, MaxQueued)
  BY DEF ListenQualified, Kept
<1>5. ASSUME NEW r \in all, heard + 1 - r.id < MaxQueued
      PROVE  r \in rows'
  <2> DEFINE later == {o \in all : o.id > r.id}
  <2>1. r.id \in Nat /\ heard + 1 \in Nat /\ r.id <= heard + 1
    BY <1>1, <1>2
  <2>2. \A o \in later : o.id \in r.id + 1 .. heard + 1
    BY <1>2, <2>1
  <2>3. \A o, s \in later : o.id = s.id => o = s
    BY <1>3
  <2> DEFINE low == r.id
             high == heard + 1
  <2> HIDE DEF later, low, high
  <2>4. IsFiniteSet(later) /\ Cardinality(later) <= high - low
    <3>1. low \in Nat /\ high \in Nat /\ low <= high
      BY <2>1 DEF low, high
    <3>2. \A o \in later : o.id \in low + 1 .. high
      BY <2>2 DEF low, high
    <3> QED
      BY <2>3, <3>1, <3>2, FewBetween
  <2>5. Cardinality(later) \in Nat
    BY <2>4, FS_CardinalityType
  <2>6. Cardinality(later) < MaxQueued
    BY <1>1, <1>5, <2>1, <2>4, <2>5 DEF low, high
  <2> QED
    BY <1>4, <2>6 DEF Newest, later
<1>6. OneRowPerId'
  BY <1>3, <1>4 DEF OneRowPerId, Newest
<1>7. NothingHeardIsLost'
  <2> SUFFICES ASSUME NEW id \in 1 .. heard + 1, heard + 1 - id < MaxQueued
               PROVE  id \in Ids(rows') \/ \E a \in lastfm.answered : a.id = id
    <3>1. lastfm' = lastfm
      BY DEF ListenQualified
    <3>2. \A id \in 1 .. heard + 1 : heard + 1 - id < MaxQueued \/ heard + 1 - id >= MaxQueued
      BY <1>1
    <3> QED
      BY <1>1, <3>1, <3>2 DEF NothingHeardIsLost, Ids
  <2>1. CASE id = heard + 1
    <3>1. new \in all /\ new.id = id
      BY <2>1
    <3> HIDE DEF new, all
    <3>2. new \in rows'
      BY <1>5, <3>1
    <3> QED
      BY <3>1, <3>2 DEF Ids
  <2>2. CASE id # heard + 1
    <3>1. id \in 1 .. heard /\ ~(heard - id >= MaxQueued)
      BY <1>1, <2>2
    <3>2. CASE id \in Ids(rows)
      <4>1. PICK r \in rows : r.id = id
        BY <3>2 DEF Ids
      <4>2. r \in rows'
        BY <1>5, <4>1
      <4> QED
        BY <4>1, <4>2 DEF Ids
    <3>3. \/ id \in Ids(rows)
          \/ \E a \in lastfm.answered : a.id = id
          \/ heard - id >= MaxQueued
      BY <3>1 DEF LossInv, NothingHeardIsLost
    <3> QED
      BY <3>1, <3>2, <3>3
  <2> QED
    BY <2>1, <2>2
<1>8. Recorded'
  BY DEF LossInv, Recorded, ListenQualified, Removed, Ids
<1> QED
  BY <1>6, <1>7, <1>8 DEF LossInv

LEMMA LastFmAnswersKeepsLoss ==
    ASSUME LossInv, Types', NEW q \in air, NEW answer \in Answers(q), LastFmAnswers(q, answer)
    PROVE  LossInv'
<1> DEFINE told == [q EXCEPT !.reply = answer.reply, !.done = answer.done]
           new  == {[id |-> r.id, account |-> r.account, to |-> q.key] :
                       r \in {s \in q.rows : s.id \in answer.done}}
<1>1. q \in RequestType /\ lastfm \in LastFmType
  BY TypesAre DEF LossInv
<1>2. heard' = heard /\ rows' = rows /\ lastfm'.answered = lastfm.answered \cup new
  BY <1>1 DEF LastFmAnswers, LastFmType
<1>3. \A p \in air' : p \in air \/ p = told
  BY DEF LastFmAnswers
<1>4. \A id \in answer.done : \E a \in new : a.id = id
  <2> SUFFICES ASSUME NEW id \in answer.done PROVE \E a \in new : a.id = id
    OBVIOUS
  <2>1. PICK r \in q.rows : r.id = id
    BY AnswerTypes DEF LossInv, Ids
  <2>2. [id |-> r.id, account |-> r.account, to |-> q.key] \in new
    BY <2>1
  <2> QED
    BY <2>1, <2>2
<1>5. Removed(told) \subseteq answer.done
  <2>1. told.rows = q.rows /\ told.reply = answer.reply /\ told.done = answer.done
    BY <1>1 DEF RequestType
  <2>2. answer.reply = "Invalid" /\ Cardinality(q.rows) = 1 => answer.done = Ids(q.rows)
    BY DEF Answers, Said
  <2> HIDE DEF told
  <2> QED
    BY <2>1, <2>2 DEF Removed
<1> HIDE DEF told, new
<1>6. OneRowPerId' /\ NothingHeardIsLost'
  BY <1>2 DEF LossInv, OneRowPerId, NothingHeardIsLost, Ids
<1>7. Recorded'
  <2> SUFFICES ASSUME NEW p \in air', NEW id \in Removed(p)
               PROVE  \E a \in lastfm'.answered : a.id = id
    BY DEF Recorded, Removed, Ids
  <2>1. CASE p \in air
    BY <1>2, <2>1 DEF LossInv, Recorded
  <2>2. CASE p = told
    BY <1>2, <1>4, <1>5, <2>2
  <2> QED
    BY <1>3, <2>1, <2>2
<1> QED
  BY <1>6, <1>7 DEF LossInv

LEMMA BatchAnsweredKeepsLoss ==
    ASSUME LossInv, Types', NEW q \in air, BatchAnswered(q)
    PROVE  LossInv'
<1>1. heard' = heard /\ lastfm' = lastfm /\ air' \subseteq air /\ rows' = Without(rows, Removed(q))
  BY DEF BatchAnswered
<1>2. OneRowPerId' /\ Recorded'
  BY <1>1 DEF LossInv, OneRowPerId, Recorded, Without, Removed, Ids
<1>3. \A id \in Removed(q) : \E a \in lastfm.answered : a.id = id
  BY DEF LossInv, Recorded
<1>4. \A id \in Ids(rows) : id \in Ids(rows') \/ id \in Removed(q)
  BY <1>1 DEF Ids, Without
<1>5. NothingHeardIsLost'
  BY <1>1, <1>3, <1>4 DEF LossInv, NothingHeardIsLost, Ids
<1> QED
  BY <1>2, <1>5 DEF LossInv

\* Every step keeps what is heard.
LEMMA LossStep == LossInv /\ [Next]_vars => LossInv'
<1> SUFFICES ASSUME LossInv, [Next]_vars PROVE LossInv'
  OBVIOUS
<1>1. Types /\ Types'
  BY TypesStep DEF LossInv
<1>2. CASE UNCHANGED vars
  BY <1>1, <1>2, KeepsLoss DEF vars
<1>3. CASE MembersOnly
  BY <1>1, <1>3, MembersOnlyTypes, KeepsLoss
<1>4. CASE DisconnectAccount \/ NowPlayingRefused \/ \E read \in Reads : Restart(read)
  <2>1. \A d \in air' : d.reply = ""
    BY <1>1, <1>4, DisownedReply DEF DisconnectAccount, NowPlayingRefused, Restart
  <2> QED
    BY <1>1, <1>4, <2>1, KeepsLoss DEF DisconnectAccount, NowPlayingRefused, Restart
<1>5. CASE \E user \in Users, cut \in {FALSE, SignInCuts} : FinishConnecting(user, cut)
  <2>1. \A d \in air' : d.reply = ""
    BY <1>1, <1>5, DisownedReply DEF FinishConnecting
  <2>2. lastfm'.answered = lastfm.answered
    BY <1>1, <1>5, TypesAre DEF FinishConnecting, LastFmType
  <2> QED
    BY <1>1, <1>5, <2>1, <2>2, KeepsLoss DEF FinishConnecting
<1>6. CASE SetEnabled \/ \E user \in Users : Revoke(user)
  <2>1. lastfm'.answered = lastfm.answered
    BY <1>1, <1>6, TypesAre DEF SetEnabled, Revoke, LastFmType
  <2> QED
    BY <1>1, <1>6, <2>1, KeepsLoss DEF SetEnabled, Revoke
<1>7. CASE Flush
  <2>1. \A d \in air' : d \in air \/ d.reply = ""
    <3> DEFINE sent == [rows |-> ToSend, key |-> app.key, live |-> TRUE, reply |-> "", done |-> {}]
    <3>1. \A d \in air' : d \in air \/ d = sent
      BY <1>7 DEF Flush
    <3>2. sent.reply = ""
      OBVIOUS
    <3> HIDE DEF sent
    <3> QED
      BY <3>1, <3>2
  <2> QED
    BY <1>1, <1>7, <2>1, KeepsLoss DEF Flush
<1>8. CASE ListenQualified
  BY <1>1, <1>8, ListenQualifiedKeepsLoss
<1>9. CASE \E q \in air : \E answer \in Answers(q) : LastFmAnswers(q, answer)
  BY <1>1, <1>9, LastFmAnswersKeepsLoss
<1>10. CASE \E q \in air : BatchAnswered(q)
  BY <1>1, <1>10, BatchAnsweredKeepsLoss
<1>11. CASE \E q \in air : BatchExpired(q) \/ BatchLost(q)
  <2>1. PICK q \in air : BatchExpired(q) \/ BatchLost(q)
    BY <1>11
  <2>2. \A d \in air' : d \in air \/ d.reply = ""
    <3>1. CASE BatchExpired(q)
      <4> DEFINE open == {r \in air \ {q} : r.reply = ""}
      <4>1. open \in SUBSET air
        OBVIOUS
      <4>2. air' = {[r EXCEPT !.live = FALSE] : r \in open}
        BY <3>1 DEF BatchExpired
      <4>3. \A r \in open : r.reply = ""
        OBVIOUS
      <4> HIDE DEF open
      <4> QED
        BY <1>1, <4>1, <4>2, <4>3, DisownedUnanswered
    <3>2. CASE BatchLost(q)
      BY <3>2 DEF BatchLost
    <3> QED
      BY <2>1, <3>1, <3>2
  <2> QED
    BY <1>1, <2>1, <2>2, KeepsLoss DEF BatchExpired, BatchLost
<1> QED
  BY <1>2, <1>3, <1>4, <1>5, <1>6, <1>7, <1>8, <1>9, <1>10, <1>11 DEF Next, World, MembersOnly

\* Whatever is lost on the way, refused, answered late or cut short by a crash,
\* a listen kept (Scrobbler::enqueue) leaves the queue only when Last.fm has
\* answered for it, or as many as the queue holds have come after it.
THEOREM NothingIsLost == Spec => []NothingHeardIsLost
<1>1. Init => LossInv
  <2> SUFFICES ASSUME Init PROVE LossInv
    OBVIOUS
  <2>1. Types
    BY InitTypes
  <2> QED
    BY <2>1 DEF Init, LossInv, OneRowPerId, Recorded, NothingHeardIsLost
<1>2. LossInv => NothingHeardIsLost
  BY DEF LossInv
<1> QED
  BY <1>1, <1>2, LossStep, PTL DEF Spec

-----------------------------------------------------------------------------
(* Sent as its own *)

OwnKeys ==
    /\ app.key \in {NoUser, app.user}
    /\ saved.key \in {NoUser, saved.user}
    /\ app.user = saved.user

AirOwn == \A q \in air : \A r \in q.rows : r.account = q.key

OwnInv == Types /\ OwnKeys /\ AirOwn /\ SentAsItsOwn

LEMMA KeepsOwn ==
    ASSUME OwnInv, OwnKeys', lastfm'.answered = lastfm.answered,
           \A d \in air' : \E q \in air : d.rows = q.rows /\ d.key = q.key
    PROVE  OwnKeys' /\ AirOwn' /\ SentAsItsOwn'
<1>1. AirOwn'
  <2> SUFFICES ASSUME NEW d \in air', NEW r \in d.rows PROVE r.account = d.key
    BY DEF AirOwn
  <2>1. PICK q \in air : d.rows = q.rows /\ d.key = q.key
    OBVIOUS
  <2> QED
    BY <2>1 DEF OwnInv, AirOwn
<1>2. SentAsItsOwn'
  BY DEF OwnInv, SentAsItsOwn
<1> QED
  BY <1>1, <1>2

\* Disowning changes neither what a request carries nor its key.
LEMMA DisownedCarries ==
    ASSUME Types, NEW S \in SUBSET air
    PROVE  \A d \in {[q EXCEPT !.live = FALSE] : q \in S} :
               \E q \in air : d.rows = q.rows /\ d.key = q.key
BY DisownedType, Zenon

LEMMA StartedKeys ==
    ASSUME NEW store \in SavedType, NEW read \in Reads, store.key \in {NoUser, store.user}
    PROVE  /\ Started(store, read).user = store.user
           /\ Started(store, read).key \in {NoUser, store.user}
BY DEF Started

\* With no sign-in cut in two, every session held opens the account named
\* beside it.
LEMMA KeysStep ==
    ASSUME OwnInv, Next, SignInCuts = FALSE
    PROVE  OwnKeys'
<1> USE TypesAre
<1>1. /\ app \in AppType /\ saved \in SavedType /\ NoUser \notin Users
      /\ OwnKeys
  BY ScrobblerAssumption DEF OwnInv
<1>2. CASE MembersOnly
  BY <1>1, <1>2 DEF MembersOnly, FlushIdly, PauseOver, NetworkBack, ConnectAccount, TokenArrived,
     FailConnecting, CancelConnect, DisconnectFails, OwnKeys, AppType
<1>3. CASE DisconnectAccount
  BY <1>1, <1>3 DEF DisconnectAccount, OwnKeys, AppType, SavedType
<1>4. CASE NowPlayingRefused \/ \E q \in air : BatchExpired(q)
  <2>1. app' = Expired(app) /\ saved' \in {saved, [saved EXCEPT !.key = NoUser]}
    BY <1>4 DEF NowPlayingRefused, BatchExpired
  <2>2. Expired(app).key = NoUser /\ Expired(app).user = app.user
    BY <1>1 DEF Expired, AppType
  <2> QED
    BY <1>1, <2>1, <2>2 DEF OwnKeys, SavedType
<1>5. CASE \E user \in Users, cut \in {FALSE, SignInCuts} : FinishConnecting(user, cut)
  <2>1. PICK user \in Users : FinishConnecting(user, FALSE)
    BY <1>5
  <2>2. saved' = [saved EXCEPT !.key = user, !.user = user] /\ app' = Connected(app, user)
    BY <1>1, <2>1 DEF FinishConnecting, SavedType
  <2>3. Connected(app, user).key = user /\ Connected(app, user).user = user
    BY <1>1 DEF Connected, SignedIn, AppType
  <2> QED
    BY <1>1, <2>2, <2>3 DEF OwnKeys, SavedType
<1>6. CASE \E read \in Reads : Restart(read)
  BY <1>1, <1>6, StartedKeys DEF Restart, OwnKeys
<1>7. CASE SetEnabled \/ ListenQualified \/ Flush
  BY <1>1, <1>7 DEF SetEnabled, ListenQualified, Flush, OwnKeys, AppType, SavedType
<1>8. CASE \E user \in Users : Revoke(user)
  BY <1>1, <1>8 DEF Revoke, OwnKeys
<1>9. CASE \E q \in air : \E answer \in Answers(q) : LastFmAnswers(q, answer)
  BY <1>1, <1>9 DEF LastFmAnswers, OwnKeys
<1>10. CASE \E q \in air : BatchAnswered(q) \/ BatchLost(q)
  <2>1. saved' = saved /\ app'.user = app.user /\ app'.key = app.key
    BY <1>1, <1>10 DEF BatchAnswered, BatchLost, After, Paused, AppType
  <2> QED
    BY <1>1, <2>1 DEF OwnKeys
<1> QED
  BY <1>2, <1>3, <1>4, <1>5, <1>6, <1>7, <1>8, <1>9, <1>10 DEF Next, World, MembersOnly

LEMMA OwnStep == OwnInv /\ [Next]_vars /\ SignInCuts = FALSE => OwnInv'
<1> SUFFICES ASSUME OwnInv, [Next]_vars, SignInCuts = FALSE PROVE OwnInv'
  OBVIOUS
<1>1. Types /\ Types'
  BY TypesStep DEF OwnInv
<1>2. CASE UNCHANGED vars
  BY <1>1, <1>2 DEF vars, OwnInv, OwnKeys, AirOwn, SentAsItsOwn
<1>3. CASE Next
  <2>1. OwnKeys'
    BY <1>3, KeysStep
  <2>2. CASE MembersOnly \/ SetEnabled \/ ListenQualified
    <3>1. air' = air /\ lastfm' = lastfm
      BY <1>1, <2>2, MembersOnlyTypes DEF SetEnabled, ListenQualified
    <3> QED
      BY <1>1, <2>1, <3>1, KeepsOwn DEF OwnInv
  <2>3. CASE \/ DisconnectAccount \/ NowPlayingRefused
             \/ \E read \in Reads : Restart(read)
             \/ \E user \in Users, cut \in {FALSE, SignInCuts} : FinishConnecting(user, cut)
    <3>1. air' = Disowned
      BY <2>3 DEF DisconnectAccount, NowPlayingRefused, Restart, FinishConnecting
    <3>2. lastfm'.answered = lastfm.answered
      BY <1>1, <2>3, TypesAre
         DEF DisconnectAccount, NowPlayingRefused, Restart, FinishConnecting, LastFmType
    <3>3. {r \in air : r.reply = ""} \in SUBSET air
      OBVIOUS
    <3>4. \A d \in Disowned : \E q \in air : d.rows = q.rows /\ d.key = q.key
      BY <1>1, <3>3, DisownedCarries DEF Disowned
    <3> QED
      BY <1>1, <2>1, <3>1, <3>2, <3>4, KeepsOwn DEF OwnInv
  <2>4. CASE \E user \in Users : Revoke(user)
    <3>1. air' = air /\ lastfm'.answered = lastfm.answered
      BY <1>1, <2>4, TypesAre DEF Revoke, LastFmType
    <3> QED
      BY <1>1, <2>1, <3>1, KeepsOwn DEF OwnInv
  <2>5. CASE Flush
    <3> DEFINE sent == [rows |-> ToSend, key |-> app.key, live |-> TRUE, reply |-> "", done |-> {}]
    <3>1. \A d \in air' : d \in air \/ d = sent
      BY <2>5 DEF Flush
    <3>2. sent.rows = ToSend /\ sent.key = app.key
      OBVIOUS
    <3> HIDE DEF sent
    <3>3. \A r \in ToSend : r.account = app.user
      BY DEF ToSend, Oldest, RowsOf
    <3>4. app.key = app.user
      BY <2>5 DEF Flush, CanSend, OwnInv, OwnKeys
    <3>5. AirOwn'
      BY <3>1, <3>2, <3>3, <3>4 DEF AirOwn, OwnInv
    <3>6. SentAsItsOwn'
      BY <2>5 DEF Flush, OwnInv, SentAsItsOwn
    <3> QED
      BY <1>1, <2>1, <3>5, <3>6 DEF OwnInv
  <2>6. CASE \E q \in air : \E answer \in Answers(q) : LastFmAnswers(q, answer)
    <3>1. PICK q \in air : \E answer \in Answers(q) : LastFmAnswers(q, answer)
      BY <2>6
    <3>2. PICK answer \in Answers(q) : LastFmAnswers(q, answer)
      BY <3>1
    <3> DEFINE told == [q EXCEPT !.reply = answer.reply, !.done = answer.done]
               new  == {[id |-> r.id, account |-> r.account, to |-> q.key] :
                           r \in {s \in q.rows : s.id \in answer.done}}
    <3>3. q \in RequestType /\ lastfm \in LastFmType
      BY <1>1, TypesAre
    <3>4. told.rows = q.rows /\ told.key = q.key
      BY <3>3 DEF RequestType
    <3>5. \A d \in air' : d \in air \/ d = told
      BY <3>2 DEF LastFmAnswers
    <3>6. lastfm'.answered = lastfm.answered \cup new
      BY <3>2, <3>3 DEF LastFmAnswers, LastFmType
    <3>7. \A a \in new : a.account = a.to
      BY DEF OwnInv, AirOwn
    <3> HIDE DEF told, new
    <3>8. AirOwn'
      BY <3>4, <3>5 DEF AirOwn, OwnInv
    <3>9. SentAsItsOwn'
      BY <3>6, <3>7 DEF OwnInv, SentAsItsOwn
    <3> QED
      BY <1>1, <2>1, <3>8, <3>9 DEF OwnInv
  <2>7. CASE \E q \in air : BatchAnswered(q) \/ BatchLost(q)
    <3>1. air' \subseteq air /\ lastfm' = lastfm
      BY <2>7 DEF BatchAnswered, BatchLost
    <3> QED
      BY <1>1, <2>1, <3>1, KeepsOwn DEF OwnInv
  <2>8. CASE \E q \in air : BatchExpired(q)
    <3>1. PICK q \in air : BatchExpired(q)
      BY <2>8
    <3> DEFINE open == {r \in air \ {q} : r.reply = ""}
    <3>2. open \in SUBSET air
      OBVIOUS
    <3>3. air' = {[r EXCEPT !.live = FALSE] : r \in open} /\ lastfm' = lastfm
      BY <3>1 DEF BatchExpired
    <3> HIDE DEF open
    <3>4. \A d \in air' : \E r \in air : d.rows = r.rows /\ d.key = r.key
      BY <1>1, <3>2, <3>3, DisownedCarries
    <3> QED
      BY <1>1, <2>1, <3>3, <3>4, KeepsOwn DEF OwnInv
  <2> QED
    BY <1>3, <2>2, <2>3, <2>4, <2>5, <2>6, <2>7, <2>8 DEF Next, World, MembersOnly
<1> QED
  BY <1>2, <1>3

\* As long as no sign-in is cut between its two writes (finishConnecting), a
\* backlog is never sent to someone else, whatever sessions end, expire, are
\* revoked or replaced while requests are out, and however often the program
\* is started again.
THEOREM NothingSentAsSomeoneElse ==
    ASSUME SignInCuts = FALSE
    PROVE  Spec => []SentAsItsOwn
<1>1. Init => OwnInv
  <2> SUFFICES ASSUME Init PROVE OwnInv
    OBVIOUS
  <2>1. Types
    BY InitTypes
  <2>2. OwnKeys
    BY DEF Init, Started, OwnKeys
  <2> QED
    BY <2>1, <2>2 DEF Init, OwnInv, AirOwn, SentAsItsOwn
<1>2. OwnInv /\ [Next]_vars => OwnInv'
  BY OwnStep
<1>3. OwnInv => SentAsItsOwn
  BY DEF OwnInv
<1> QED
  BY <1>1, <1>2, <1>3, PTL DEF Spec

-----------------------------------------------------------------------------
(* The first rows, and the last *)

LEMMA LeastNumber ==
    ASSUME NEW S \in SUBSET Nat, S # {}
    PROVE  \E m \in S : \A n \in S : m <= n
<1>1. IsWellFoundedOn(OpToRel(<, Nat), Nat)
  BY NatLessThanWellFounded
<1>2. PICK m \in S : \A n \in S : <<n, m>> \notin OpToRel(<, Nat)
  BY <1>1, WFMin, Zenon
<1>3. \A n \in S : ~(n < m)
  BY <1>2, Zenon DEF OpToRel
<1> QED
  BY <1>3

\* Some row has the lowest id.
LEMMA LowestRow ==
    ASSUME NEW set, set # {}, \A r \in set : r.id \in Nat
    PROVE  \E r \in set : \A o \in set : r.id <= o.id
<1>1. Ids(set) \in SUBSET Nat /\ Ids(set) # {}
  BY DEF Ids
<1>2. PICK m \in Ids(set) : \A n \in Ids(set) : m <= n
  BY <1>1, LeastNumber
<1>3. PICK r \in set : r.id = m
  BY <1>2 DEF Ids
<1>4. \A o \in set : o.id \in Ids(set)
  BY DEF Ids
<1> QED
  BY <1>2, <1>3, <1>4

\* Of some rows, some are the oldest.
LEMMA OldestOfSome ==
    ASSUME NEW set, set # {}, \A r \in set : r.id \in Nat, NEW n \in Nat \ {0}
    PROVE  Oldest(set, n) # {}
<1>1. PICK r \in set : \A o \in set : r.id <= o.id
  BY LowestRow
<1>2. {o \in set : o.id < r.id} = {}
  BY <1>1
<1>3. Cardinality({o \in set : o.id < r.id}) = 0
  BY <1>2, FS_EmptySet
<1>4. r \in Oldest(set, n)
  BY <1>3 DEF Oldest
<1> QED
  BY <1>4

\* The newest n are n at the most: all but the lowest of them are above it.
LEMMA NewestAreFew ==
    ASSUME NEW set, IsFiniteSet(set), NEW n \in Nat, \A r \in set : r.id \in Nat,
           \A r, s \in set : r.id = s.id => r = s
    PROVE  Cardinality(Newest(set, n)) <= n
<1> DEFINE new == Newest(set, n)
<1>1. new \subseteq set /\ IsFiniteSet(new)
  BY FS_Subset DEF Newest
<1>2. CASE new = {}
  BY <1>2, FS_EmptySet
<1>3. CASE new # {}
  <2>1. PICK r \in new : \A o \in new : r.id <= o.id
    BY <1>1, <1>3, LowestRow
  <2> DEFINE above == {o \in set : o.id > r.id}
  <2>2. IsFiniteSet(above) /\ Cardinality(above) < n
    BY FS_Subset, <2>1 DEF Newest
  <2>3. new \ {r} \subseteq above
    BY <1>1, <2>1
  <2>4. IsFiniteSet(new \ {r}) /\ Cardinality(new \ {r}) <= Cardinality(above)
    BY <2>2, <2>3, FS_Subset
  <2>5. Cardinality(new \ {r}) = Cardinality(new) - 1
    BY <1>1, <2>1, FS_RemoveElement
  <2>6. Cardinality(above) \in Nat /\ Cardinality(new) \in Nat
    BY <1>1, <2>2, FS_CardinalityType
  <2>7. Cardinality(new \ {r}) < n
    <3> HIDE DEF above, new
    <3> QED
      BY <2>2, <2>4, <2>5, <2>6
  <2> QED
    BY <2>5, <2>6, <2>7
<1> QED
  BY <1>2, <1>3

-----------------------------------------------------------------------------
(* The queue's size *)

SizeInv == LossInv /\ Cardinality(rows) <= MaxQueued

\* Every step keeps the queue within its size.
LEMMA SizeStep == SizeInv /\ [Next]_vars => SizeInv'
<1> SUFFICES ASSUME SizeInv, [Next]_vars PROVE SizeInv'
  OBVIOUS
<1>1. LossInv /\ LossInv'
  BY LossStep DEF SizeInv
<1>2. heard \in Nat /\ rows \subseteq Row /\ MaxQueued \in Nat /\ OneRowPerId
  BY <1>1, TypesAre, ScrobblerAssumption DEF LossInv
<1>3. CASE rows' \subseteq rows
  <2>1. \A r \in rows : r.id \in 0 + 1 .. heard
    BY <1>2 DEF Row
  <2>2. IsFiniteSet(rows)
    <3>1. 0 \in Nat /\ heard \in Nat /\ 0 <= heard
      BY <1>2
    <3>2. \A r, s \in rows : r.id = s.id => r = s
      BY <1>2 DEF OneRowPerId
    <3> QED
      BY ONLY <2>1, <3>1, <3>2, FewBetween
  <2>3. Cardinality(rows') <= Cardinality(rows) /\ IsFiniteSet(rows')
    BY <1>3, <2>2, FS_Subset
  <2>4. Cardinality(rows') \in Nat /\ Cardinality(rows) \in Nat
    BY <2>2, <2>3, FS_CardinalityType
  <2> QED
    BY <1>1, <1>2, <2>3, <2>4 DEF SizeInv
<1>4. CASE ListenQualified
  <2> DEFINE new == [id |-> heard + 1, account |-> app.user]
             all == rows \cup {new}
  <2>1. new.id = heard + 1
    OBVIOUS
  <2>2. rows' = Newest(all, MaxQueued)
    BY <1>4 DEF ListenQualified, Kept
  <2> HIDE DEF new
  <2>3. \A r \in all : r.id \in 0 + 1 .. heard + 1
    BY <1>2, <2>1 DEF Row
  <2>4. \A r, s \in all : r.id = s.id => r = s
    BY <1>2, <2>1 DEF Row, OneRowPerId
  <2> DEFINE high == heard + 1
  <2>5. high \in Nat /\ 0 <= high
    BY <1>2
  <2>6. \A r \in all : r.id \in 0 + 1 .. high
    BY <2>3
  <2> HIDE DEF high, all
  <2>7. IsFiniteSet(all)
    BY <2>4, <2>5, <2>6, FewBetween
  <2>8. \A r \in all : r.id \in Nat
    BY <2>6
  <2>9. Cardinality(rows') <= MaxQueued
    BY <1>2, <2>2, <2>4, <2>7, <2>8, NewestAreFew
  <2> QED
    BY <1>1, <2>9 DEF SizeInv
<1>5. CASE \E q \in air : BatchAnswered(q)
  <2>1. rows' \subseteq rows
    BY <1>5 DEF BatchAnswered, Without
  <2> QED
    BY <1>3, <2>1
<1>6. CASE rows' = rows
  BY <1>3, <1>6
<1> QED
  BY <1>4, <1>5, <1>6
     DEF Next, World, vars, FlushIdly, Flush, PauseOver, NetworkBack, LastFmAnswers, BatchExpired,
         BatchLost, ConnectAccount, TokenArrived, FailConnecting, CancelConnect, DisconnectAccount,
         DisconnectFails, SetEnabled, NowPlayingRefused, FinishConnecting, Revoke, Restart

\* The members keep their types, and however long nobody answers the queue
\* (Scrobbler::enqueue trims it) stays within its size.
THEOREM QueueIsBounded == Spec => []TypeOK
<1>1. Init => SizeInv
  <2> SUFFICES ASSUME Init PROVE SizeInv
    OBVIOUS
  <2>1. Types
    BY InitTypes
  <2>2. Cardinality(rows) <= MaxQueued
    BY FS_EmptySet, ScrobblerAssumption DEF Init
  <2> QED
    BY <2>1, <2>2 DEF Init, SizeInv, LossInv, OneRowPerId, Recorded, NothingHeardIsLost
<1>2. SizeInv => TypeOK
  BY DEF SizeInv, LossInv, TypeOK
<1> QED
  BY <1>1, <1>2, SizeStep, PTL DEF Spec

-----------------------------------------------------------------------------
(* Nothing sleeps *)

Live == {q \in air : q.live}

\* The request waited for is the one live request.
OneOut == IF app.inFlight THEN \E q : Live = {q} ELSE Live = {}

NothingWaits == CanSend(app) /\ RowsOf(app.user) # {} => app.inFlight \/ app.timer

\* A session is kept through nothing but a disconnect the store refused, so
\* that no sign-in given up goes back to sending, with no flush to come.
KeysInUse ==
    /\ app.key # NoUser => app.state = "Connected" \/ app.disconnectFailed
    /\ app.disconnectFailed => app.state = "Error"

WakesInv == Types /\ KeysInUse /\ OneOut /\ NothingWaits

LEMMA KeysInUseStep == ASSUME Types, KeysInUse, [Next]_vars PROVE KeysInUse'
<1> USE DEF KeysInUse
<1>1. app \in AppType /\ saved \in SavedType /\ NoUser \notin Users
  BY TypesAre, ScrobblerAssumption
<1>2. CASE MembersOnly
  BY <1>1, <1>2 DEF MembersOnly, FlushIdly, PauseOver, NetworkBack, ConnectAccount, TokenArrived,
     FailConnecting, CancelConnect, DisconnectFails, AppType
<1>3. CASE DisconnectAccount \/ SetEnabled \/ ListenQualified \/ Flush
  BY <1>1, <1>3 DEF DisconnectAccount, SetEnabled, ListenQualified, Flush, AppType
<1>4. CASE app' = Expired(app)
  BY <1>1, <1>4 DEF Expired, AppType
<1>5. CASE \E read \in Reads, store \in SavedType : app' = Started(store, read)
  BY <1>1, <1>5 DEF Started, Reads, SavedType, Accounts
<1>6. CASE \E user \in Users : app' = Connected(app, user) /\ app.state = "Waiting"
  BY <1>1, <1>6 DEF Connected, SignedIn, AppType
<1>7. CASE \E q \in air : BatchAnswered(q) \/ BatchLost(q)
  BY <1>1, <1>7, ZenonT(40) DEF BatchAnswered, BatchLost, After, Paused, AppType
<1>8. CASE app' = app
  BY <1>8
<1>9. CASE \E user \in Users, cut \in {FALSE, SignInCuts} : FinishConnecting(user, cut)
  <2>1. PICK user \in Users, cut \in {FALSE, SignInCuts} : FinishConnecting(user, cut)
    BY <1>9
  <2>2. saved' \in SavedType
    BY <1>1, <2>1 DEF FinishConnecting, SavedType, Accounts
  <2> QED
    BY <1>5, <1>6, <2>1, <2>2 DEF FinishConnecting, Reads
<1> QED
  BY <1>1, <1>2, <1>3, <1>4, <1>5, <1>7, <1>8, <1>9
     DEF Next, World, vars, MembersOnly, LastFmAnswers, BatchExpired, NowPlayingRefused, Revoke, Restart

\* The steps that leave nothing on its way live.
LEMMA DisownedDead ==
    ASSUME Types, NEW S \in SUBSET air, air' = {[q EXCEPT !.live = FALSE] : q \in S}
    PROVE  Live' = {}
<1>1. \A d \in air' : ~d.live
  BY DisownedType, Zenon
<1> QED
  BY <1>1 DEF Live

LEMMA OneOutStep == ASSUME WakesInv, Types', [Next]_vars PROVE OneOut'
<1>1. app \in AppType /\ saved \in SavedType /\ Types /\ OneOut
  BY TypesAre DEF WakesInv
<1>2. CASE air' = air /\ app'.inFlight = app.inFlight
  BY <1>1, <1>2 DEF OneOut, Live
<1>3. CASE MembersOnly \/ SetEnabled \/ ListenQualified
  <2>1. air' = air /\ app'.inFlight = app.inFlight
    BY <1>1, <1>3 DEF MembersOnly, FlushIdly, PauseOver, NetworkBack, ConnectAccount, TokenArrived,
       FailConnecting, CancelConnect, DisconnectFails, SetEnabled, ListenQualified, AppType
  <2> QED
    BY <1>2, <2>1
<1>4. CASE \/ DisconnectAccount \/ NowPlayingRefused
           \/ \E read \in Reads : Restart(read)
           \/ \E user \in Users, cut \in {FALSE, SignInCuts} : FinishConnecting(user, cut)
  <2>1. air' = Disowned
    BY <1>4 DEF DisconnectAccount, NowPlayingRefused, Restart, FinishConnecting
  <2>2. Live' = {}
    BY <1>1, <2>1, DisownedDead DEF Disowned
  <2>3. ~app'.inFlight
    <3>1. ~Expired(app).inFlight /\ \A user \in Users : ~Connected(app, user).inFlight
      BY <1>1 DEF Expired, Connected, SignedIn, AppType
    <3>2. \A store, read : ~Started(store, read).inFlight
      BY DEF Started
    <3>3. CASE DisconnectAccount
      BY <1>1, <3>3 DEF DisconnectAccount, AppType
    <3>4. CASE NowPlayingRefused
      BY <3>1, <3>4 DEF NowPlayingRefused
    <3>5. CASE \E read \in Reads : Restart(read)
      BY <3>2, <3>5 DEF Restart
    <3>6. CASE \E user \in Users, cut \in {FALSE, SignInCuts} : FinishConnecting(user, cut)
      BY <3>1, <3>2, <3>6 DEF FinishConnecting
    <3> QED
      BY <1>4, <3>3, <3>4, <3>5, <3>6
  <2> QED
    BY <2>2, <2>3 DEF OneOut
<1>5. CASE Flush
  <2> DEFINE some == ToSend # {}
             sent == [rows |-> ToSend, key |-> app.key, live |-> TRUE, reply |-> "", done |-> {}]
  <2>1. Live = {}
    BY <1>1, <1>5 DEF Flush, OneOut
  <2>2. app'.inFlight = some
    BY <1>1, <1>5 DEF Flush, AppType
  <2>3. air' = air \cup (IF some THEN {sent} ELSE {})
    BY <1>5 DEF Flush
  <2>4. sent.live
    OBVIOUS
  <2> HIDE DEF some, sent
  <2>5. CASE some
    <3>1. Live' = {sent}
      BY <2>1, <2>3, <2>4, <2>5 DEF Live
    <3> QED
      BY <2>2, <2>5, <3>1 DEF OneOut
  <2>6. CASE ~some
    <3>1. Live' = {}
      BY <2>1, <2>3, <2>6 DEF Live
    <3> QED
      BY <2>2, <2>6, <3>1 DEF OneOut
  <2> QED
    BY <2>5, <2>6
<1>6. CASE \E q \in air : \E answer \in Answers(q) : LastFmAnswers(q, answer)
  <2>1. PICK q \in air : \E answer \in Answers(q) : LastFmAnswers(q, answer)
    BY <1>6
  <2>2. PICK answer \in Answers(q) : LastFmAnswers(q, answer)
    BY <2>1
  <2> DEFINE told == [q EXCEPT !.reply = answer.reply, !.done = answer.done]
  <2>3. q \in RequestType
    BY <1>1, TypesAre
  <2>4. told.live = q.live
    BY <2>3 DEF RequestType
  <2>5. air' = (air \ {q}) \cup (IF q.live THEN {told} ELSE {}) /\ app' = app
    BY <2>2 DEF LastFmAnswers
  <2> HIDE DEF told
  <2>6. CASE q.live
    <3>1. app.inFlight /\ Live = {q}
      BY <1>1, <2>6 DEF OneOut, Live
    <3>2. Live' = {told}
      BY <2>4, <2>5, <2>6, <3>1 DEF Live
    <3> QED
      BY <2>5, <3>1, <3>2 DEF OneOut
  <2>7. CASE ~q.live
    <3>1. Live' = Live
      BY <2>5, <2>7 DEF Live
    <3> QED
      BY <1>1, <2>5, <3>1 DEF OneOut
  <2> QED
    BY <2>6, <2>7
<1>7. CASE \E q \in air : BatchAnswered(q) \/ BatchLost(q)
  <2>1. PICK q \in air : BatchAnswered(q) \/ BatchLost(q)
    BY <1>7
  <2>2. air' = air \ {q}
    BY <2>1 DEF BatchAnswered, BatchLost
  <2>3. CASE q.live
    <3>1. Live = {q}
      BY <1>1, <2>3 DEF OneOut, Live
    <3>2. Live' = {}
      BY <2>2, <3>1 DEF Live
    <3>3. ~app'.inFlight
      BY <1>1, <2>1, <2>3 DEF BatchAnswered, BatchLost, After, Paused, AppType
    <3> QED
      BY <3>2, <3>3 DEF OneOut
  <2>4. CASE ~q.live
    <3>1. Live' = Live /\ app' = app
      BY <2>1, <2>2, <2>4 DEF Live, BatchAnswered, BatchLost
    <3> QED
      BY <1>1, <3>1 DEF OneOut
  <2> QED
    BY <2>3, <2>4
<1>8. CASE \E q \in air : BatchExpired(q)
  <2>1. PICK q \in air : BatchExpired(q)
    BY <1>8
  <2> DEFINE open == {r \in air \ {q} : r.reply = ""}
  <2>2. open \in SUBSET air /\ air' = {[r EXCEPT !.live = FALSE] : r \in open}
    BY <2>1 DEF BatchExpired
  <2> HIDE DEF open
  <2>3. Live' = {}
    BY <1>1, <2>2, DisownedDead
  <2>4. ~app'.inFlight
    BY <1>1, <2>1 DEF BatchExpired, Expired, AppType
  <2> QED
    BY <2>3, <2>4 DEF OneOut
<1>9. CASE UNCHANGED vars \/ \E user \in Users : Revoke(user)
  BY <1>2, <1>9 DEF vars, Revoke
<1> QED
  BY <1>3, <1>4, <1>5, <1>6, <1>7, <1>8, <1>9 DEF Next, World, MembersOnly

LEMMA NothingWaitsStep == ASSUME WakesInv, Types', [Next]_vars PROVE NothingWaits'
<1>1. /\ app \in AppType /\ app' \in AppType' /\ Types /\ NothingWaits /\ KeysInUse
      /\ rows \subseteq Row /\ NoUser \notin Users
  BY TypesAre, ScrobblerAssumption DEF WakesInv, Types, AppType, Accounts
<1>2. CASE app'.timer
  BY <1>2 DEF NothingWaits
<1>3. CASE /\ rows' \subseteq rows
           /\ CanSend(app') => CanSend(app)
           /\ app'.user = app.user /\ app'.inFlight = app.inFlight /\ app'.timer = app.timer
  <2>1. {r \in rows' : r.account = app'.user} \subseteq {r \in rows : r.account = app.user}
    BY <1>3
  <2>2. RowsOf(app.user)' \subseteq RowsOf(app.user)
    BY <2>1 DEF RowsOf
  <2> QED
    BY <1>1, <1>3, <2>2 DEF NothingWaits
<1>4. CASE ~CanSend(app')
  BY <1>4 DEF NothingWaits, CanSend
<1>5. CASE FlushIdly
  BY <1>1, <1>5 DEF FlushIdly, NothingWaits, CanSend, AppType
<1>6. CASE Flush
  <2>1. CASE ToSend # {}
    BY <1>1, <1>6, <2>1 DEF Flush, NothingWaits, AppType
  <2>2. CASE ToSend = {}
    <3> DEFINE mine == RowsOf(app.user)
               alone == {r \in mine : r.id \in app.singles}
    <3>1. \A r \in mine : r.id \in Nat
      BY <1>1 DEF RowsOf, Row, Types
    <3>2. alone # {} => Oldest(alone, 1) # {}
      <4>1. \A r \in alone : r.id \in Nat
        BY <3>1
      <4> HIDE DEF alone
      <4> QED
        BY <4>1, OldestOfSome
    <3>3. mine # {} => Oldest(mine, MaxBatch) # {}
      BY <3>1, OldestOfSome, ScrobblerAssumption
    <3>4. mine = {}
      BY <2>2, <3>2, <3>3 DEF ToSend
    <3>5. rows' = rows /\ app'.user = app.user
      BY <1>1, <1>6 DEF Flush, AppType
    <3> QED
      BY <3>4, <3>5 DEF NothingWaits, RowsOf
  <2> QED
    BY <2>1, <2>2
<1>7. CASE PauseOver \/ TokenArrived
  BY <1>1, <1>3, <1>7 DEF PauseOver, TokenArrived, CanSend, AppType
<1>8. CASE NetworkBack \/ ListenQualified
  BY <1>1, <1>2, <1>8 DEF NetworkBack, ListenQualified, AppType
<1>9. CASE ConnectAccount \/ FailConnecting \/ DisconnectFails \/ DisconnectAccount
  <2>1. app'.state # "Connected"
    BY <1>1, <1>9 DEF ConnectAccount, FailConnecting, DisconnectFails, DisconnectAccount, AppType
  <2> QED
    BY <1>4, <2>1 DEF CanSend
<1>10. CASE CancelConnect
  BY <1>1, <1>4, <1>10 DEF CancelConnect, CanSend, KeysInUse, AppType
<1>11. CASE SetEnabled
  BY <1>1, <1>2, <1>4, <1>11 DEF SetEnabled, CanSend, AppType
<1>12. CASE app' = Expired(app)
  BY <1>1, <1>4, <1>12 DEF Expired, CanSend, AppType
<1>13. CASE \E user \in Users, cut \in {FALSE, SignInCuts} : FinishConnecting(user, cut)
  <2>1. \A user \in Users : Connected(app, user).timer
    BY <1>1 DEF Connected, SignedIn, AppType
  <2>2. \A store, read : Started(store, read).timer
    BY DEF Started
  <2> QED
    BY <1>2, <1>13, <2>1, <2>2 DEF FinishConnecting
<1>14. CASE \E read \in Reads : Restart(read)
  BY <1>2, <1>14 DEF Restart, Started
<1>15. CASE app' = app /\ rows' = rows
  <2>1. CanSend(app') => CanSend(app)
    BY <1>15
  <2> QED
    BY <1>3, <1>15, <2>1
<1>16. CASE \E q \in air : BatchAnswered(q) \/ BatchLost(q)
  <2>1. PICK q \in air : BatchAnswered(q) \/ BatchLost(q)
    BY <1>16
  <2> DEFINE free == [app EXCEPT !.inFlight = FALSE]
  <2>2. free \in AppType
    BY <1>1 DEF AppType
  <2>3. Paused(free, "Backoff").timer
    BY <2>2 DEF Paused, AppType
  <2>4. After(free, q).timer
    BY <2>2 DEF After, Paused, AppType
  <2>5. app'.timer \/ (app' = app /\ rows' = rows)
    <3> HIDE DEF free
    <3>1. CASE BatchAnswered(q)
      BY <2>4, <3>1 DEF BatchAnswered, free
    <3>2. CASE BatchLost(q)
      BY <2>3, <3>2 DEF BatchLost, free
    <3> QED
      BY <2>1, <3>1, <3>2
  <2> QED
    BY <1>2, <1>15, <2>5
<1> QED
  BY <1>5, <1>6, <1>7, <1>8, <1>9, <1>10, <1>11, <1>12, <1>13, <1>14, <1>15, <1>16
     DEF Next, World, vars, LastFmAnswers, BatchExpired, NowPlayingRefused, Revoke

\* Scrobbles that could go are on their way or have a flush to come, and a
\* request is out exactly when m_inFlight waits for one, through every answer,
\* pause, sign-in given up, session over and restart: Scrobbler::flush is never
\* left uncalled, and never calls Last.fm twice at a time.
THEOREM NothingIsLeftAsleep == Spec => []NothingSleeps
<1>1. Init => WakesInv
  <2> SUFFICES ASSUME Init PROVE WakesInv
    OBVIOUS
  <2>1. Types
    BY InitTypes
  <2>2. KeysInUse /\ OneOut /\ NothingWaits
    BY DEF Init, Started, KeysInUse, OneOut, NothingWaits, Live
  <2> QED
    BY <2>1, <2>2 DEF WakesInv
<1>2. WakesInv /\ [Next]_vars => WakesInv'
  <2> SUFFICES ASSUME WakesInv, [Next]_vars PROVE WakesInv'
    OBVIOUS
  <2>1. Types'
    BY TypesStep DEF WakesInv
  <2> QED
    BY <2>1, KeysInUseStep, OneOutStep, NothingWaitsStep DEF WakesInv
<1>3. WakesInv => NothingSleeps
  <2> SUFFICES ASSUME WakesInv PROVE NothingSleeps
    OBVIOUS
  <2>1. Cardinality(Live) = IF app.inFlight THEN 1 ELSE 0
    <3>1. CASE app.inFlight
      BY <3>1, FS_Singleton DEF WakesInv, OneOut
    <3>2. CASE ~app.inFlight
      BY <3>2, FS_EmptySet DEF WakesInv, OneOut
    <3> QED
      BY <3>1, <3>2
  <2> QED
    BY <2>1 DEF WakesInv, NothingWaits, NothingSleeps, Live
<1> QED
  BY <1>1, <1>2, <1>3, PTL DEF Spec

-----------------------------------------------------------------------------
(* Imports: their requests.                                                 *)

\* Jobs are numbered from 1 (the rowids of import_jobs), and hours and requests are
\* counted.
ImportsBounds ==
    /\ Jobs \subseteq Nat \ {0}
    /\ Longest \in Nat /\ PerHour \in Nat

\* The members of playlistimport.h and the columns of import_jobs and import_rows.
Members ==
    {"up", "state", "left", "failures", "read", "cut", "status", "video", "list", "gone", "known",
     "rejected", "inFlight", "air", "run", "active", "timer", "busy", "rest", "refusals", "asked",
     "preview", "owed", "turned", "launches"}
States == {"none", "running", "resting", "paused"} \cup Over
Statuses == {"unread", "pending", "found", "check", "notfound", "stopped", "dismissed"}
Hours == Max({1, Longest})
Request == [what : {"search", "page"}, job : Jobs, live : BOOLEAN]

Shaped(m) ==
    /\ DOMAIN m = Members
    /\ m.up \in BOOLEAN /\ m.inFlight \in BOOLEAN /\ m.timer \in BOOLEAN /\ m.busy \in BOOLEAN
    /\ m.state \in [Jobs -> States] /\ m.left \in [Jobs -> 0 .. Hours] /\ m.failures \in [Jobs -> 0 .. Longest]
    /\ DOMAIN m.status = Jobs /\ \A j \in Jobs : m.status[j] \in [Places(j) -> Statuses]
    /\ m.rest \in 0 .. Longest /\ m.refusals \in 0 .. Longest /\ m.asked \in 0 .. PerHour
    /\ m.owed \in 0 .. Longest /\ m.turned \in 0 .. Longest
    /\ m.active \in Jobs \cup {0} /\ DOMAIN m.run = {"job", "place", "index", "best"}
    /\ m.air \in Seq(Request)

\* One request is out, or none (m_inFlight).
OneAtATime(m) == Len(m.air) = IF m.inFlight THEN 1 ELSE 0
RunIsActive(m) == m.run # NoRun => m.active \in Jobs /\ m.run.job = m.active
BusyWhileAsking(m) == m.air # <<>> \/ m.run # NoRun => m.busy
Steady(m) == Shaped(m) /\ OneAtATime(m) /\ RunIsActive(m) /\ BusyWhileAsking(m)
\* The program counts at least what YouTube asked for.
Counted(m) == m.owed <= m.rest /\ m.turned <= m.refusals
DownIsOff(m) == ~m.up => m.air = <<>> /\ m.run = NoRun
\* Whatever goes on by itself has a step to come, or an answer.
GoesOn(m) ==
    m.up => /\ Going(m) # {} => m.timer \/ m.air # <<>>
            /\ m.rest > 0 => m.busy \/ m.timer
\* The invariant.
Good(m) == Steady(m) /\ Counted(m) /\ DownIsOff(m) /\ GoesOn(m)

LEMMA ScheduledIs ==
    ASSUME NEW m, Steady(m)
    PROVE  Steady(Scheduled(m)) /\ Scheduled(m).timer /\ Scheduled(m).air = m.air
BY DEF Scheduled, Steady, Shaped, OneAtATime, RunIsActive, BusyWhileAsking, Members

LEMMA HoursAre ==
    ASSUME ImportsBounds
    PROVE  Hours \in Nat /\ 1 \in 0 .. Hours /\ 0 .. Longest \subseteq 0 .. Hours
<1>1. CASE Longest > 1
  <2>1. \A x \in {1, Longest} : Longest >= x
    BY <1>1 DEF ImportsBounds
  <2>2. \A h : h \in {1, Longest} /\ (\A x \in {1, Longest} : h >= x) => h = Longest
    BY <1>1 DEF ImportsBounds
  <2>3. Hours = Longest
    BY <2>1, <2>2 DEF Hours, Max
  <2>. QED BY <1>1, <2>3 DEF ImportsBounds
<1>2. CASE ~(Longest > 1)
  <2>1. \A x \in {1, Longest} : 1 >= x
    BY <1>2 DEF ImportsBounds
  <2>2. \A h : h \in {1, Longest} /\ (\A x \in {1, Longest} : h >= x) => h = 1
    BY <1>2 DEF ImportsBounds
  <2>3. Hours = 1
    BY <2>1, <2>2 DEF Hours, Max
  <2>. QED BY <1>2, <2>3 DEF ImportsBounds
<1>. QED BY <1>1, <1>2

\* A request asked while none is out is the only one.
LEMMA OneMore ==
    ASSUME NEW sent \in Seq(Request), Len(sent) = 0, NEW what \in {"search", "page"}, NEW j \in Jobs
    PROVE  LET r == [what |-> what, job |-> j, live |-> TRUE]
           IN  Append(sent, r) \in Seq(Request) /\ Len(Append(sent, r)) = 1 /\ Last(Append(sent, r)) = r
<1>. DEFINE r == [what |-> what, job |-> j, live |-> TRUE]
<1>1. r \in Request
  BY DEF Request
<1>. HIDE DEF r
<1>2. Append(sent, r) \in Seq(Request) /\ Len(Append(sent, r)) = 1 /\ Append(sent, r)[1] = r
  BY <1>1, AppendProperties
<1>3. QED BY <1>2 DEF Last, r

\* The only request out is the one answered.
LEMMA OneLess ==
    ASSUME NEW sent \in Seq(Request), Len(sent) <= 1, NEW n \in DOMAIN sent
    PROVE  n = 1 /\ Len(sent) = 1 /\ RemoveAt(sent, n) = <<>>
<1>0. DOMAIN sent = 1 .. Len(sent) /\ Len(sent) \in Nat
  OBVIOUS
<1>1. n = 1 /\ Len(sent) = 1
  BY <1>0
<1>2. RemoveAt(sent, n) = [i \in 1 .. 0 |-> IF i < n THEN sent[i] ELSE sent[i + 1]]
  BY <1>1 DEF RemoveAt
<1>3. QED BY <1>1, <1>2

\* Requests given up are requests still.
LEMMA AllDropped ==
    ASSUME NEW sent \in Seq(Request)
    PROVE  LET d == [n \in DOMAIN sent |-> [sent[n] EXCEPT !.live = FALSE]]
           IN  d \in Seq(Request) /\ Len(d) = Len(sent) /\ (d = <<>> <=> sent = <<>>)
<1>. DEFINE d == [n \in DOMAIN sent |-> [sent[n] EXCEPT !.live = FALSE]]
<1>1. DOMAIN sent = 1 .. Len(sent) /\ Len(sent) \in Nat
  OBVIOUS
<1>2. \A n \in 1 .. Len(sent) : [sent[n] EXCEPT !.live = FALSE] \in Request
  <2>1. \A r \in Request : [r EXCEPT !.live = FALSE] \in Request
    BY DEF Request
  <2>2. \A n \in 1 .. Len(sent) : sent[n] \in Request
    BY <1>1, ElementOfSeq
  <2>. QED BY <2>1, <2>2
<1>3. d = [n \in 1 .. Len(sent) |-> [sent[n] EXCEPT !.live = FALSE]]
  BY <1>1
<1>4. d \in [1 .. Len(sent) -> Request]
  BY <1>2, <1>3
<1>. HIDE DEF d
<1>5. d \in Seq(Request) /\ Len(d) = Len(sent)
  BY <1>1, <1>4
<1>6. QED BY <1>5 DEF d

\* A rest grows no longer than the longest (pauseFor).
LEMMA OneLonger ==
    ASSUME ImportsBounds, NEW x \in 0 .. Longest
    PROVE  Smaller(x + 1, Longest) \in 0 .. Longest
BY DEF ImportsBounds, Smaller

\* What changes only jobs, rows and playlists, or gives the run up.
Stays(m, r) ==
    /\ Steady(r) /\ Len(r.air) = Len(m.air) /\ r.run \in {m.run, NoRun}
    /\ r.up = m.up /\ r.inFlight = m.inFlight /\ r.timer = m.timer /\ r.busy = m.busy
    /\ r.rest = m.rest /\ r.refusals = m.refusals /\ r.owed = m.owed /\ r.turned = m.turned

LEMMA KeptIsTransitive ==
    ASSUME NEW m, NEW r, NEW s, Stays(m, r), Stays(r, s)
    PROVE  Stays(m, s)
BY DEF Stays

LEMMA DroppedIs ==
    ASSUME NEW m, Steady(m)
    PROVE  Stays(m, Dropped(m)) /\ Dropped(m).state = m.state /\ Dropped(m).status = m.status
           /\ Dropped(m).run = NoRun /\ Dropped(m).active = 0
<1>. DEFINE sent == [n \in DOMAIN m.air |-> [m.air[n] EXCEPT !.live = FALSE]]
            d == Dropped(m)
<1>1. sent \in Seq(Request) /\ Len(sent) = Len(m.air) /\ (sent = <<>> <=> m.air = <<>>)
  BY AllDropped DEF Steady, Shaped
<1>2. d = [m EXCEPT !.active = 0, !.run = NoRun, !.air = sent]
  BY DEF Dropped
<1>. HIDE DEF sent, d
<1>3. DOMAIN d = Members
      /\ d.active = 0 /\ d.run = NoRun /\ d.air = sent
      /\ d.up = m.up /\ d.inFlight = m.inFlight /\ d.timer = m.timer /\ d.busy = m.busy
      /\ d.state = m.state /\ d.left = m.left /\ d.failures = m.failures
      /\ d.status = m.status /\ d.rest = m.rest /\ d.refusals = m.refusals /\ d.asked = m.asked
      /\ d.owed = m.owed /\ d.turned = m.turned
  BY <1>2 DEF Steady, Shaped, Members
<1>4. DOMAIN NoRun = {"job", "place", "index", "best"}
  BY DEF NoRun
<1>5. Steady(d)
  BY <1>1, <1>3, <1>4 DEF Steady, Shaped, OneAtATime, RunIsActive, BusyWhileAsking
<1>6. QED BY <1>1, <1>3, <1>5 DEF Stays, d

LEMMA StatusKept ==
    ASSUME NEW m, Steady(m), NEW j \in Jobs, NEW row, row \in [Places(j) -> Statuses]
    PROVE  LET r == [m EXCEPT !.status[j] = row] IN Stays(m, r) /\ r.state = m.state /\ r.run = m.run
                                                    /\ r.active = m.active /\ r.air = m.air
<1>. DEFINE r == [m EXCEPT !.status[j] = row]
<1>1. DOMAIN r = Members
      /\ r.status = [m.status EXCEPT ![j] = row]
      /\ r.active = m.active /\ r.run = m.run /\ r.air = m.air
      /\ r.up = m.up /\ r.inFlight = m.inFlight /\ r.timer = m.timer /\ r.busy = m.busy
      /\ r.state = m.state /\ r.left = m.left /\ r.failures = m.failures
      /\ r.rest = m.rest /\ r.refusals = m.refusals /\ r.asked = m.asked
      /\ r.owed = m.owed /\ r.turned = m.turned
  BY DEF Steady, Shaped, Members
<1>. HIDE DEF r
<1>2. DOMAIN r.status = Jobs /\ \A i \in Jobs : r.status[i] \in [Places(i) -> Statuses]
  BY <1>1 DEF Steady, Shaped
<1>3. Steady(r)
  BY <1>1, <1>2 DEF Steady, Shaped, OneAtATime, RunIsActive, BusyWhileAsking
<1>4. QED BY <1>1, <1>3 DEF Stays, r

\* An import's rows when it is over.
StatusOver(m, j, state) ==
    [p \in Places(j) |-> IF state = "cancelled" /\ m.status[j][p] = "pending" THEN "stopped" ELSE m.status[j][p]]

\* A job over has no run, and the requests out are as many.
LEMMA FinishedIs ==
    ASSUME ImportsBounds, NEW m, Steady(m), NEW j \in Jobs, NEW state \in Over
    PROVE  Stays(m, Finished(m, j, state)) /\ Finished(m, j, state).run \in {m.run, NoRun}
<1>. DEFINE d == IF m.active = j THEN Dropped(m) ELSE m
            row == StatusOver(m, j, state)
            f == Finished(m, j, state)
<1>1. Stays(m, d) /\ Steady(d) /\ d.state = m.state /\ d.status = m.status
  BY DroppedIs DEF Stays
<1>2. d.run.job = j => d.run = NoRun
  BY DroppedIs DEF Steady, RunIsActive
<1>3. row \in [Places(j) -> Statuses]
  BY DEF StatusOver, Steady, Shaped, Statuses
<1>4. f = [d EXCEPT !.state[j] = state, !.left[j] = 0, !.run = IF @.job = j THEN NoRun ELSE @,
                    !.status[j] = [p \in Places(j) |-> IF state = "cancelled" /\ @[p] = "pending" THEN "stopped" ELSE @[p]]]
  BY DEF Finished
<1>. HIDE DEF d, row, f
<1>5. DOMAIN f = Members
      /\ f.state = [d.state EXCEPT ![j] = state] /\ f.left = [d.left EXCEPT ![j] = 0]
      /\ f.run = (IF d.run.job = j THEN NoRun ELSE d.run)
      /\ f.failures = d.failures /\ f.active = d.active
      /\ f.up = d.up /\ f.inFlight = d.inFlight /\ f.timer = d.timer /\ f.busy = d.busy
      /\ f.rest = d.rest /\ f.refusals = d.refusals /\ f.asked = d.asked
      /\ f.owed = d.owed /\ f.turned = d.turned /\ f.air = d.air
  BY <1>1, <1>4 DEF Steady, Shaped, Members
<1>6. f.status = [d.status EXCEPT ![j] = row]
  BY <1>1, <1>4 DEF Steady, Shaped, Members, row, StatusOver
<1>7. f.run = d.run
  BY <1>2, <1>5
<1>8. DOMAIN f.status = Jobs /\ \A i \in Jobs : f.status[i] \in [Places(i) -> Statuses]
  BY <1>1, <1>3, <1>6 DEF Steady, Shaped
<1>9. f.state \in [Jobs -> States] /\ f.left \in [Jobs -> 0 .. Hours]
  <2>1. 0 \in 0 .. Hours
    BY HoursAre
  <2>2. f.left \in [Jobs -> 0 .. Hours]
    BY <1>1, <1>5, <2>1 DEF Steady, Shaped
  <2>3. f.state \in [Jobs -> States]
    BY <1>1, <1>5 DEF Steady, Shaped, States
  <2>. QED BY <2>2, <2>3
<1>10. Steady(f)
  BY <1>1, <1>5, <1>7, <1>8, <1>9 DEF Steady, Shaped, OneAtATime, RunIsActive, BusyWhileAsking
<1>11. Stays(d, f)
  BY <1>5, <1>7, <1>10 DEF Stays
<1>12. Stays(m, f)
  BY <1>1, <1>11, KeptIsTransitive
<1>13. QED BY <1>12 DEF Stays, f

\* Nothing but these fields differs.
Besides(m, r, fields) == DOMAIN r = DOMAIN m /\ \A f \in Members \ fields : r[f] = m[f]

\* What changes none of the fields above.
Aside(m, r) ==
    Besides(m, r, {"read", "cut", "video", "list", "gone", "known", "rejected", "preview", "launches"})

LEMMA AsideIs ==
    ASSUME NEW m, Steady(m), NEW r, Aside(m, r)
    PROVE  Stays(m, r) /\ r.state = m.state /\ r.active = m.active /\ r.run = m.run /\ r.air = m.air
           /\ r.status = m.status /\ r.failures = m.failures
<1>1. DOMAIN r = Members
      /\ r.active = m.active /\ r.run = m.run /\ r.air = m.air /\ r.status = m.status
      /\ r.up = m.up /\ r.inFlight = m.inFlight /\ r.timer = m.timer /\ r.busy = m.busy
      /\ r.state = m.state /\ r.left = m.left /\ r.failures = m.failures
      /\ r.rest = m.rest /\ r.refusals = m.refusals /\ r.asked = m.asked
      /\ r.owed = m.owed /\ r.turned = m.turned
  BY DEF Aside, Besides, Steady, Shaped, Members
<1>2. Steady(r)
  BY <1>1 DEF Steady, Shaped, OneAtATime, RunIsActive, BusyWhileAsking
<1>3. QED BY <1>1, <1>2 DEF Stays

LEMMA SettledIs ==
    ASSUME NEW m, Steady(m), NEW j \in Jobs, NEW p, NEW status \in Statuses
    PROVE  Stays(m, Settled(m, j, p, status)) /\ Settled(m, j, p, status).state = m.state
<1>. DEFINE row == [m.status[j] EXCEPT ![p] = status]
<1>1. row \in [Places(j) -> Statuses]
  BY DEF Steady, Shaped
<1>2. Settled(m, j, p, status) = [m EXCEPT !.status[j] = row]
  BY DEF Settled
<1>. HIDE DEF row
<1>3. QED BY <1>1, <1>2, StatusKept

LEMMA RememberedIs ==
    ASSUME NEW m, Steady(m), NEW j, NEW p, NEW v
    PROVE  Stays(m, Remembered(m, j, p, v)) /\ Remembered(m, j, p, v).state = m.state
<1>1. Aside(m, Remembered(m, j, p, v))
  BY DEF Aside, Besides, Remembered, Steady, Shaped, Members
<1>2. QED BY <1>1, AsideIs

LEMMA FoundIs ==
    ASSUME ImportsBounds, NEW m, Steady(m), NEW j \in Jobs, NEW p, NEW v
    PROVE  Stays(m, Found(m, j, p, v)) /\ (j \notin m.gone => Found(m, j, p, v).state = m.state)
<1>1. CASE j \in m.gone
  BY <1>1, FinishedIs DEF Found, Over
<1>2. CASE j \notin m.gone
  <2>. DEFINE a == [m EXCEPT !.list[j] = Placed(m, j, p, v), !.video[j][p] = v]
              row == [m.status[j] EXCEPT ![p] = "found"]
  <2>1. Aside(m, a)
    BY DEF Aside, Besides, Steady, Shaped, Members
  <2>2. Stays(m, a) /\ Steady(a) /\ a.state = m.state /\ a.status = m.status
    BY <2>1, AsideIs DEF Stays
  <2>3. row \in [Places(j) -> Statuses]
    BY DEF Steady, Shaped, Statuses
  <2>4. Found(m, j, p, v) = [a EXCEPT !.status[j] = row]
    BY <1>2 DEF Found, Steady, Shaped, Members
  <2>. HIDE DEF a, row
  <2>5. Stays(a, Found(m, j, p, v)) /\ Found(m, j, p, v).state = a.state
    BY <2>2, <2>3, <2>4, StatusKept
  <2>6. QED BY <2>2, <2>5, KeptIsTransitive
<1>3. QED BY <1>1, <1>2

LEMMA FromSourceIs ==
    ASSUME ImportsBounds, NEW m, Steady(m), NEW j \in Jobs
    PROVE  Stays(m, FromSource(m, j))
<1>. DEFINE mine == Rows(m, j, {"pending"})
            songs == [n \in DOMAIN SetToSortSeq(mine, <) |-> Lists[j][SetToSortSeq(mine, <)[n]]]
<1>1. CASE Kinds[j] # "youtube" \/ mine = {}
  BY <1>1 DEF FromSource, Stays
<1>2. CASE ~(Kinds[j] # "youtube" \/ mine = {}) /\ j \in m.gone
  BY <1>2, FinishedIs DEF FromSource, Over
<1>3. CASE ~(Kinds[j] # "youtube" \/ mine = {}) /\ j \notin m.gone
  <2>. DEFINE a == [m EXCEPT !.list[j] = FoldLeft(Appended, @, songs),
                             !.video[j] = [p \in Places(j) |-> IF p \in mine THEN Lists[j][p] ELSE @[p]]]
              row == [p \in Places(j) |-> IF p \in mine THEN "found" ELSE m.status[j][p]]
  <2>1. FromSource(m, j) = [m EXCEPT !.list[j] = FoldLeft(Appended, @, songs),
                       !.status[j] = [p \in Places(j) |-> IF p \in mine THEN "found" ELSE @[p]],
                       !.video[j] = [p \in Places(j) |-> IF p \in mine THEN Lists[j][p] ELSE @[p]]]
    BY <1>3 DEF FromSource
  <2>. HIDE DEF mine, songs
  <2>2. Aside(m, a)
    BY DEF Aside, Besides, Steady, Shaped, Members
  <2>3. Stays(m, a) /\ Steady(a) /\ a.state = m.state /\ a.status = m.status
    BY <2>2, AsideIs DEF Stays
  <2>4. row \in [Places(j) -> Statuses]
    BY DEF Steady, Shaped, Statuses
  <2>5. FromSource(m, j) = [a EXCEPT !.status[j] = row]
    BY <2>1, <2>3 DEF Steady, Shaped, Members
  <2>. HIDE DEF a, row
  <2>6. Stays(a, FromSource(m, j))
    BY <2>3, <2>4, <2>5, StatusKept
  <2>7. QED BY <2>3, <2>6, KeptIsTransitive
<1>4. QED BY <1>1, <1>2, <1>3

LEMMA InsertedIs ==
    ASSUME NEW m, Steady(m), NEW j \in Jobs, NEW places
    PROVE  Stays(m, Inserted(m, j, places)) /\ Inserted(m, j, places).state = m.state
<1>. DEFINE row == [p \in Places(j) |-> IF p \in places /\ m.status[j][p] = "unread" THEN "pending" ELSE m.status[j][p]]
<1>1. row \in [Places(j) -> Statuses]
  BY DEF Steady, Shaped, Statuses
<1>2. Inserted(m, j, places) = [m EXCEPT !.status[j] = row]
  BY DEF Inserted, Steady, Shaped, Members
<1>. HIDE DEF row
<1>3. QED BY <1>1, <1>2, StatusKept

LEMMA LeastIs ==
    ASSUME NEW S \in SUBSET Nat, S # {}
    PROVE  Min(S) \in S
<1>1. PICK x \in S : \A y \in S : x <= y
  BY LeastNumber
<1>2. \A z : z \in S /\ (\A y \in S : z <= y) => z = x
  BY <1>1
<1>3. QED BY <1>1, <1>2 DEF Min

\* What only changes the counts of what YouTube said, the requests and the timer.
Same(m, r) ==
    /\ r.up = m.up /\ r.busy = m.busy /\ r.state = m.state /\ r.active = m.active /\ r.run = m.run
    /\ r.left = m.left /\ r.failures = m.failures /\ r.status = m.status

LEMMA TakenIs ==
    ASSUME NEW m, Steady(m), NEW n \in DOMAIN m.air
    PROVE  LET r == Taken(m, n)
           IN  /\ Steady(r) /\ Same(m, r) /\ r.air = <<>> /\ ~r.inFlight /\ Len(m.air) = 1 /\ n = 1
               /\ r.owed = m.owed /\ r.turned = m.turned /\ r.rest = m.rest /\ r.refusals = m.refusals
<1>. DEFINE r == Taken(m, n)
<1>0. m.air \in Seq(Request) /\ Len(m.air) <= 1
  BY DEF Steady, Shaped, OneAtATime
<1>1. n = 1 /\ Len(m.air) = 1 /\ RemoveAt(m.air, n) = <<>>
  BY <1>0, OneLess
<1>3. r = [m EXCEPT !.inFlight = FALSE, !.air = <<>>]
  BY <1>1 DEF Taken
<1>4. DOMAIN r = Members /\ Same(m, r) /\ r.air = <<>> /\ r.inFlight = FALSE /\ r.asked = m.asked
      /\ r.owed = m.owed /\ r.turned = m.turned /\ r.rest = m.rest /\ r.refusals = m.refusals
      /\ r.timer = m.timer
  BY <1>3 DEF Steady, Shaped, Members, Same
<1>. HIDE DEF r
<1>5. r.air \in Seq(Request) /\ Len(r.air) = 0
  BY <1>4
<1>6. Steady(r)
  <2>2. Shaped(r)
    BY <1>4, <1>5 DEF Steady, Shaped, Same
  <2>3. OneAtATime(r)
    BY <1>4, <1>5 DEF OneAtATime
  <2>4. RunIsActive(r) /\ BusyWhileAsking(r)
    BY <1>4 DEF Steady, RunIsActive, BusyWhileAsking, Same
  <2>. QED BY <2>2, <2>3, <2>4 DEF Steady
<1>7. QED BY <1>1, <1>4, <1>6 DEF r

LEMMA SaysIs ==
    ASSUME ImportsBounds, NEW m, Steady(m), Counted(m), NEW refusal \in BOOLEAN
    PROVE  LET r == Says(m, refusal)
           IN  /\ Steady(r) /\ Same(m, r) /\ r.air = m.air /\ r.inFlight = m.inFlight /\ r.owed = r.turned
               /\ r.rest = m.rest /\ r.refusals = m.refusals /\ r.timer = m.timer
               /\ refusal => r.turned <= Smaller(r.refusals + 1, Longest)
               /\ ~refusal => r.turned = 0
<1>. DEFINE r == Says(m, refusal)
            n == Smaller(m.turned + 1, Longest)
            t == IF refusal THEN n ELSE 0
<1>1. n \in 0 .. Longest /\ 0 \in 0 .. Longest
  <2>1. m.turned \in 0 .. Longest /\ 0 \in 0 .. Longest
    BY DEF Steady, Shaped, ImportsBounds
  <2>. QED BY <2>1, OneLonger
<1>2. n <= Smaller(m.refusals + 1, Longest)
  BY DEF Counted, Smaller, ImportsBounds, Steady, Shaped
<1>3. r = [m EXCEPT !.turned = t, !.owed = t]
  BY DEF Says
<1>. HIDE DEF r, n
<1>4. DOMAIN r = Members /\ Same(m, r) /\ r.air = m.air /\ r.inFlight = m.inFlight /\ r.asked = m.asked
      /\ r.owed = t /\ r.turned = t /\ r.rest = m.rest /\ r.refusals = m.refusals /\ r.timer = m.timer
  BY <1>3 DEF Steady, Shaped, Members, Same
<1>5. Steady(r)
  BY <1>1, <1>4 DEF Steady, Shaped, OneAtATime, RunIsActive, BusyWhileAsking, Same
<1>6. QED BY <1>2, <1>4, <1>5 DEF r

LEMMA AnsweredIs ==
    ASSUME ImportsBounds, NEW m, Steady(m)
    PROVE  LET r == Answered(m)
           IN  /\ Steady(r) /\ Same(m, r) /\ r.air = m.air /\ r.inFlight = m.inFlight /\ r.timer = m.timer
               /\ r.owed = m.owed /\ r.turned = m.turned /\ r.rest = 0 /\ r.refusals = 0
<1>. DEFINE r == Answered(m)
<1>1. 0 \in 0 .. Longest
  BY DEF ImportsBounds
<1>2. DOMAIN r = Members /\ Same(m, r) /\ r.air = m.air /\ r.inFlight = m.inFlight /\ r.asked = m.asked
      /\ r.owed = m.owed /\ r.turned = m.turned /\ r.rest = 0 /\ r.refusals = 0 /\ r.timer = m.timer
  BY DEF Steady, Shaped, Members, Same, Answered
<1>. HIDE DEF r
<1>3. Steady(r)
  BY <1>1, <1>2 DEF Steady, Shaped, OneAtATime, RunIsActive, BusyWhileAsking, Same
<1>4. QED BY <1>2, <1>3 DEF r

LEMMA RefusedIs ==
    ASSUME ImportsBounds, NEW m, Steady(m)
    PROVE  LET r == Refused(m)
           IN  /\ Steady(r) /\ Same(m, r) /\ r.air = m.air /\ r.inFlight = m.inFlight /\ r.timer = m.timer
               /\ r.owed = m.owed /\ r.turned = m.turned
               /\ r.rest = Smaller(m.refusals + 1, Longest) /\ r.refusals = Smaller(m.refusals + 1, Longest)
               /\ r.rest \in 0 .. Longest
<1>. DEFINE r == Refused(m)
            n == Smaller(m.refusals + 1, Longest)
<1>1. n \in 0 .. Longest
  BY OneLonger DEF Steady, Shaped
<1>2. r = [m EXCEPT !.refusals = n, !.rest = n]
  BY DEF Refused
<1>. HIDE DEF r, n
<1>3. DOMAIN r = Members /\ Same(m, r) /\ r.air = m.air /\ r.inFlight = m.inFlight /\ r.asked = m.asked
      /\ r.owed = m.owed /\ r.turned = m.turned /\ r.rest = n /\ r.refusals = n /\ r.timer = m.timer
  BY <1>2 DEF Steady, Shaped, Members, Same
<1>4. Steady(r)
  BY <1>1, <1>3 DEF Steady, Shaped, OneAtATime, RunIsActive, BusyWhileAsking, Same
<1>5. QED BY <1>1, <1>3, <1>4 DEF r, n

\* An import's state, and how long it waits and how often it failed.
LEMMA StateKept ==
    ASSUME NEW m, Steady(m), NEW r, Besides(m, r, {"state", "left", "failures"}),
           r.state \in [Jobs -> States], r.left \in [Jobs -> 0 .. Hours], r.failures \in [Jobs -> 0 .. Longest]
    PROVE  Stays(m, r) /\ r.active = m.active /\ r.run = m.run /\ r.air = m.air
<1>1. DOMAIN r = Members
      /\ r.active = m.active /\ r.run = m.run /\ r.air = m.air /\ r.status = m.status
      /\ r.up = m.up /\ r.inFlight = m.inFlight /\ r.timer = m.timer /\ r.busy = m.busy
      /\ r.rest = m.rest /\ r.refusals = m.refusals /\ r.asked = m.asked
      /\ r.owed = m.owed /\ r.turned = m.turned
  BY DEF Besides, Steady, Shaped, Members
<1>2. Steady(r)
  BY <1>1 DEF Steady, Shaped, OneAtATime, RunIsActive, BusyWhileAsking
<1>3. QED BY <1>1, <1>2 DEF Stays

LEMMA RunKept ==
    ASSUME NEW m, Steady(m), NEW run, DOMAIN run = DOMAIN NoRun,
           run # NoRun => m.active \in Jobs /\ run.job = m.active /\ m.busy,
           NEW r, r = [m EXCEPT !.run = run]
    PROVE  /\ Steady(r) /\ r.air = m.air /\ r.inFlight = m.inFlight
           /\ r.state = m.state /\ r.active = m.active /\ r.run = run /\ r.timer = m.timer /\ r.rest = m.rest
           /\ r.refusals = m.refusals /\ r.owed = m.owed /\ r.turned = m.turned /\ r.asked = m.asked
           /\ r.up = m.up /\ r.busy = m.busy /\ r.gone = m.gone /\ r.left = m.left
           /\ (run = NoRun => Stays(m, r))
<1>1. DOMAIN r = Members /\ r.state = m.state /\ r.left = m.left /\ r.failures = m.failures
      /\ r.active = m.active /\ r.run = run /\ r.air = m.air /\ r.status = m.status
      /\ r.up = m.up /\ r.inFlight = m.inFlight /\ r.timer = m.timer /\ r.busy = m.busy
      /\ r.rest = m.rest /\ r.refusals = m.refusals /\ r.asked = m.asked
      /\ r.owed = m.owed /\ r.turned = m.turned /\ r.gone = m.gone
  BY DEF Steady, Shaped, Members
<1>2. DOMAIN run = {"job", "place", "index", "best"}
  BY DEF NoRun
<1>3. Steady(r)
  BY <1>1, <1>2 DEF Steady, Shaped, OneAtATime, RunIsActive, BusyWhileAsking
<1>4. QED BY <1>1, <1>3 DEF Stays

LEMMA ConcludedIs ==
    ASSUME ImportsBounds, NEW m, Steady(m), m.run.job \in Jobs
    PROVE  \E r : Stays(m, r) /\ Concluded(m) = Scheduled(r)
<1>. DEFINE j == m.run.job
            p == m.run.place
            v == Lists[j][p]
            r == [m EXCEPT !.run = NoRun]
            best == m.run.best
<1>1. Stays(m, r) /\ Steady(r)
  BY RunKept DEF Stays
<1>2. Concluded(m) = Scheduled(IF best = "sure" THEN Remembered(Found(r, j, p, v), j, p, v)
                               ELSE Settled(r, j, p, IF best = "check" THEN "check" ELSE "notfound"))
  BY DEF Concluded
<1>. HIDE DEF j, p, v, r, best
<1>3. j \in Jobs
  BY DEF j
<1>4. CASE best = "sure"
  <2>1. Stays(r, Found(r, j, p, v))
    BY <1>1, <1>3, FoundIs
  <2>2. Stays(Found(r, j, p, v), Remembered(Found(r, j, p, v), j, p, v))
    BY <2>1, RememberedIs DEF Stays
  <2>3. Stays(m, Remembered(Found(r, j, p, v), j, p, v))
    BY <1>1, <2>1, <2>2, KeptIsTransitive
  <2>4. QED BY <1>2, <1>4, <2>3
<1>5. CASE best # "sure"
  <2>. DEFINE status == IF best = "check" THEN "check" ELSE "notfound"
  <2>1. status \in Statuses
    BY DEF Statuses
  <2>. HIDE DEF status
  <2>2. Stays(r, Settled(r, j, p, status))
    BY <1>1, <1>3, <2>1, SettledIs
  <2>3. Stays(m, Settled(r, j, p, status))
    BY <1>1, <2>2, KeptIsTransitive
  <2>4. QED BY <1>2, <1>5, <2>3 DEF status
<1>6. QED BY <1>4, <1>5

LEMMA FailedOfYouTube ==
    ASSUME ImportsBounds, NEW m, Steady(m), NEW j \in Jobs
    PROVE  Stays(Refused(m), Failed(m, j, TRUE))
<1>. DEFINE r == Refused(m)
            state == [r.state EXCEPT ![j] = "resting"]
            left == [r.left EXCEPT ![j] = r.rest]
            failures == [r.failures EXCEPT ![j] = r.refusals]
<1>1. Steady(r) /\ r.rest \in 0 .. Longest /\ r.refusals \in 0 .. Longest
  BY RefusedIs
<1>2. Failed(m, j, TRUE) = [r EXCEPT !.failures[j] = r.refusals, !.left[j] = r.rest, !.state[j] = "resting"]
  BY DEF Failed
<1>. HIDE DEF r
<1>3. LET f == Failed(m, j, TRUE)
      IN  Besides(r, f, {"state", "left", "failures"}) /\ f.state = state /\ f.left = left /\ f.failures = failures
  BY <1>1, <1>2 DEF Steady, Shaped, Members, Besides
<1>4. state \in [Jobs -> States]
  BY <1>1 DEF Steady, Shaped, States
<1>5. left \in [Jobs -> 0 .. Hours]
  BY <1>1, HoursAre DEF Steady, Shaped
<1>6. failures \in [Jobs -> 0 .. Longest]
  BY <1>1 DEF Steady, Shaped
<1>. HIDE DEF state, left, failures
<1>7. Stays(r, Failed(m, j, TRUE))
  BY <1>1, <1>3, <1>4, <1>5, <1>6, StateKept
<1>8. QED BY <1>7 DEF r

LEMMA FailedIs ==
    ASSUME ImportsBounds, NEW m, Steady(m), NEW j \in Jobs
    PROVE  Stays(m, Failed(m, j, FALSE))
<1>. DEFINE n == Smaller(m.failures[j] + 1, Longest)
            state == [m.state EXCEPT ![j] = "resting"]
            left == [m.left EXCEPT ![j] = n]
            failures == [m.failures EXCEPT ![j] = n]
<1>1. m.failures[j] \in 0 .. Longest
  BY DEF Steady, Shaped
<1>2. n \in 0 .. Longest /\ n \in 0 .. Hours
  BY <1>1, HoursAre, OneLonger
<1>3. Failed(m, j, FALSE) = [m EXCEPT !.failures[j] = n, !.left[j] = n, !.state[j] = "resting"]
  BY DEF Failed
<1>. HIDE DEF n
<1>4. LET f == Failed(m, j, FALSE)
      IN  Besides(m, f, {"state", "left", "failures"}) /\ f.state = state /\ f.left = left /\ f.failures = failures
  BY <1>3 DEF Steady, Shaped, Members, Besides
<1>5. state \in [Jobs -> States]
  BY DEF Steady, Shaped, States
<1>6. left \in [Jobs -> 0 .. Hours] /\ failures \in [Jobs -> 0 .. Longest]
  BY <1>2 DEF Steady, Shaped
<1>. HIDE DEF state, left, failures
<1>7. QED BY <1>4, <1>5, <1>6, StateKept

\* What an answer that was heard leaves.
HeardWell(m, r) ==
    /\ Steady(r) /\ Counted(r) /\ r.up = m.up /\ r.timer /\ Len(r.air) = Len(m.air)

LEMMA KeptIsHeard ==
    ASSUME NEW m, NEW h, NEW r, Stays(h, r), Counted(h), h.up = m.up, Len(h.air) = Len(m.air)
    PROVE  HeardWell(m, Scheduled(r))
<1>1. Steady(r) /\ r.up = m.up /\ Len(r.air) = Len(m.air) /\ Counted(r)
  BY DEF Stays, Counted
<1>2. DOMAIN r = Members
  BY <1>1 DEF Steady, Shaped
<1>3. Scheduled(r).up = r.up /\ Scheduled(r).owed = r.owed /\ Scheduled(r).turned = r.turned
      /\ Scheduled(r).rest = r.rest /\ Scheduled(r).refusals = r.refusals
  BY <1>2 DEF Scheduled, Members
<1>4. Steady(Scheduled(r)) /\ Scheduled(r).timer /\ Scheduled(r).air = r.air
  BY <1>1, ScheduledIs
<1>5. QED BY <1>1, <1>3, <1>4 DEF HeardWell, Counted

\* What YouTube said, before and after the program counts it.
Told(m, refusal) ==
    /\ Steady(m) /\ m.owed = m.turned
    /\ IF refusal THEN m.turned <= Smaller(m.refusals + 1, Longest) ELSE m.turned = 0

\* A refusal is counted, and an answer is, as YouTube means them (refusedBy,
\* answered).
LEMMA CountedThen ==
    ASSUME ImportsBounds, NEW m
    PROVE  /\ Told(m, TRUE) => Steady(Refused(m)) /\ Counted(Refused(m)) /\ Same(m, Refused(m)) /\ Refused(m).air = m.air
           /\ Told(m, FALSE) => Steady(Answered(m)) /\ Counted(Answered(m)) /\ Same(m, Answered(m)) /\ Answered(m).air = m.air
           /\ Told(m, FALSE) => Counted(m)
<1>1. ASSUME Told(m, TRUE)
      PROVE  Steady(Refused(m)) /\ Counted(Refused(m)) /\ Same(m, Refused(m)) /\ Refused(m).air = m.air
  BY <1>1, RefusedIs DEF Told, Counted
<1>2. ASSUME Told(m, FALSE)
      PROVE  Steady(Answered(m)) /\ Counted(Answered(m)) /\ Same(m, Answered(m)) /\ Answered(m).air = m.air
  BY <1>2, AnsweredIs DEF Told, Counted
<1>3. ASSUME Told(m, FALSE)
      PROVE  Counted(m)
  BY <1>3 DEF Told, Counted, Steady, Shaped
<1>4. QED BY <1>1, <1>2, <1>3

LEMMA SelfKept ==
    ASSUME NEW m, Steady(m)
    PROVE  Stays(m, m)
BY DEF Stays

LEMMA OverheardIs ==
    ASSUME ImportsBounds, NEW m, NEW refusal \in BOOLEAN, Told(m, refusal)
    PROVE  HeardWell(m, Overheard(m, refusal))
<1>1. CASE refusal
  <2>1. Steady(Refused(m)) /\ Counted(Refused(m)) /\ Refused(m).up = m.up /\ Refused(m).air = m.air
    BY <1>1, CountedThen DEF Same
  <2>. QED BY <1>1, <2>1, SelfKept, KeptIsHeard DEF Overheard
<1>2. CASE ~refusal
  <2>1. Steady(Answered(m)) /\ Counted(Answered(m)) /\ Answered(m).up = m.up /\ Answered(m).air = m.air
    BY <1>2, CountedThen DEF Same
  <2>. QED BY <1>2, <2>1, SelfKept, KeptIsHeard DEF Overheard
<1>3. QED BY <1>1, <1>2

\* An answer that is heard (runSearch).
LEMMA SearchedIs ==
    ASSUME ImportsBounds, NEW m, NEW said, Told(m, said = "refusal"), m.run # NoRun
    PROVE  HeardWell(m, Searched(m, said))
<1>. DEFINE j == m.run.job
            off == [m EXCEPT !.run = NoRun]
            a == Answered(m)
            once == [a EXCEPT !.failures[j] = 0]
            best == IF said = "sure" \/ m.run.best = "none" THEN said ELSE m.run.best
            r == [once EXCEPT !.run.index = @ + 1, !.run.best = best]
<1>0. Steady(m) /\ j \in Jobs /\ m.active = j
  BY DEF Told, Steady, RunIsActive
<1>1. CASE said = "refusal"
  <2>1. Stays(m, off) /\ off.up = m.up /\ off.air = m.air
    BY <1>0, RunKept
  <2>2. Told(off, TRUE)
    BY <1>1, <2>1 DEF Told, Stays
  <2>3. Stays(Refused(off), Failed(off, j, TRUE))
    BY <1>0, <2>2, FailedOfYouTube DEF Told
  <2>4. Counted(Refused(off)) /\ Refused(off).up = m.up /\ Refused(off).air = m.air
    BY <2>1, <2>2, CountedThen DEF Same
  <2>5. Searched(m, said) = Scheduled(Failed(off, j, TRUE))
    BY <1>1 DEF Searched
  <2>. HIDE DEF off, j
  <2>6. QED BY <2>3, <2>4, <2>5, KeptIsHeard
<1>2. CASE said # "refusal"
  <2>1. Steady(a) /\ Counted(a) /\ Same(m, a) /\ a.air = m.air
    BY <1>2, CountedThen
  <2>. HIDE DEF a
  <2>2. [a.failures EXCEPT ![j] = 0] \in [Jobs -> 0 .. Longest]
    <3>1. 0 \in 0 .. Longest /\ a.failures \in [Jobs -> 0 .. Longest]
      BY <2>1 DEF Steady, Shaped, ImportsBounds
    <3>. QED BY <3>1
  <2>3. Besides(a, once, {"failures"}) /\ once.failures = [a.failures EXCEPT ![j] = 0]
    BY <2>1 DEF Steady, Shaped, Members, Besides
  <2>. HIDE DEF once
  <2>4. Stays(a, once) /\ once.active = a.active /\ once.run = a.run /\ once.air = a.air
    <3>1. Besides(a, once, {"state", "left", "failures"}) /\ once.state = a.state /\ once.left = a.left
      BY <2>3 DEF Besides, Members
    <3>2. once.state \in [Jobs -> States] /\ once.left \in [Jobs -> 0 .. Hours]
          /\ once.failures \in [Jobs -> 0 .. Longest]
      BY <2>1, <2>2, <2>3, <3>1 DEF Steady, Shaped
    <3>. QED BY <2>1, <3>1, <3>2, StateKept
  <2>5. Steady(once) /\ once.run = m.run /\ once.active = m.active /\ once.up = m.up /\ once.air = m.air
        /\ Counted(once)
    BY <2>1, <2>4 DEF Stays, Same, Counted
  <2>. DEFINE run == [once.run EXCEPT !.index = @ + 1, !.best = best]
  <2>6. DOMAIN run = DOMAIN NoRun /\ run.job = m.run.job
    BY <2>5 DEF Steady, Shaped, NoRun
  <2>7. r = [once EXCEPT !.run = run]
    BY <2>5 DEF Steady, Shaped, Members
  <2>8. once.busy
    BY <2>5 DEF Steady, BusyWhileAsking
  <2>. HIDE DEF run
  <2>. HIDE DEF r
  <2>9. /\ Steady(r) /\ r.air = once.air /\ r.up = once.up /\ r.run = run /\ r.rest = once.rest
        /\ r.refusals = once.refusals /\ r.owed = once.owed /\ r.turned = once.turned
    <3>1. once.active \in Jobs /\ run.job = once.active
      BY <1>0, <2>5, <2>6
    <3>. QED BY <2>5, <2>6, <2>7, <2>8, <3>1, RunKept
  <2>10. Steady(r) /\ Counted(r) /\ r.up = m.up /\ r.air = m.air /\ r.run.job \in Jobs
    BY <1>0, <2>5, <2>6, <2>7, <2>9 DEF Counted
  <2>11. Searched(m, said) = IF best = "sure" \/ r.run.index >= MaxAsked THEN Concluded(r) ELSE Scheduled(r)
    BY <1>2 DEF Searched, once, a, r
  <2>. HIDE DEF best
  <2>12. CASE Searched(m, said) = Concluded(r)
    <3>1. PICK x : Stays(r, x) /\ Concluded(r) = Scheduled(x)
      BY <2>10, ConcludedIs
    <3>2. QED BY <2>10, <2>12, <3>1, KeptIsHeard
  <2>13. CASE Searched(m, said) = Scheduled(r)
    BY <2>10, <2>13, SelfKept, KeptIsHeard
  <2>14. QED BY <2>11, <2>12, <2>13
<1>3. QED BY <1>1, <1>2

LEMMA AsksIs ==
    ASSUME NEW m, Steady(m), ~m.inFlight, m.busy, NEW what \in {"search", "page"}, NEW j \in Jobs
    PROVE  LET r == Asks(m, what, j)
           IN  Steady(r) /\ r.air # <<>> /\ Last(r.air).job = j /\ Besides(m, r, {"inFlight", "air"})
<1>. DEFINE sent == Append(m.air, [what |-> what, job |-> j, live |-> TRUE])
            r == Asks(m, what, j)
<1>1. sent \in Seq(Request) /\ Len(sent) = 1 /\ sent # <<>> /\ Last(sent).job = j
  BY OneMore DEF Steady, Shaped, OneAtATime
<1>2. r = [m EXCEPT !.inFlight = TRUE, !.air = sent]
  BY DEF Asks
<1>. HIDE DEF sent, r
<1>3. Steady(r)
  BY <1>1, <1>2 DEF Steady, Shaped, OneAtATime, RunIsActive, BusyWhileAsking, Members
<1>4. r.air = sent /\ Besides(m, r, {"inFlight", "air"})
  BY <1>2 DEF Steady, Shaped, Besides, Members
<1>5. QED BY <1>1, <1>3, <1>4 DEF r

\* What a step of the pump leaves.
Worked(m, r) ==
    /\ Steady(r) /\ Counted(r) /\ r.up = m.up
    /\ r.timer \/ r.air # <<>> \/ (Going(r) = {} /\ r.rest = 0)
    /\ r.air # <<>> => m.rest = 0 /\ r.state[Last(r.air).job] = "running"

LEMMA KeptIsWorked ==
    ASSUME NEW m, NEW h, NEW r, Stays(h, r), Counted(h), h.up = m.up, ~h.inFlight
    PROVE  Worked(m, Scheduled(r))
<1>1. HeardWell(h, Scheduled(r))
  BY KeptIsHeard
<1>2. Scheduled(r).air = r.air
  BY ScheduledIs DEF Stays
<1>3. r.air = <<>>
  BY DEF Stays, Steady, OneAtATime, Shaped
<1>4. QED BY <1>1, <1>2, <1>3 DEF HeardWell, Worked

\* Before a step of the pump: no request is out.
Idle(m) == Steady(m) /\ Counted(m) /\ ~m.inFlight

\* A search is sent for a job that runs, when YouTube does not rest.
LEMMA SearchRunIs ==
    ASSUME ImportsBounds, NEW m, Idle(m), m.run # NoRun
    PROVE  Worked(m, SearchRun(m))
<1>. DEFINE j == m.run.job
            r == [m EXCEPT !.run = NoRun]
<1>1. j \in Jobs /\ m.active = j /\ m.busy
  BY DEF Idle, Steady, RunIsActive, BusyWhileAsking
<1>2. Stays(m, r) /\ r.up = m.up /\ Steady(r) /\ r.state = m.state /\ r.left = m.left
  BY RunKept DEF Idle
<1>. HIDE DEF j, r
<1>3. CASE m.state[j] # "running" \/ m.rest > 0
  <2>1. SearchRun(m) = Scheduled(r)
    BY <1>3 DEF SearchRun, j, r
  <2>2. QED BY <1>2, <2>1, KeptIsWorked DEF Idle
<1>4. CASE ~(m.state[j] # "running" \/ m.rest > 0) /\ m.asked >= PerHour
  <2>. DEFINE x == [r EXCEPT !.state[j] = "resting", !.left[j] = 1]
  <2>1. SearchRun(m) = Scheduled(x)
    BY <1>4 DEF SearchRun, j, r
  <2>2. Besides(r, x, {"state", "left", "failures"}) /\ x.failures = r.failures
        /\ x.state = [r.state EXCEPT ![j] = "resting"] /\ x.left = [r.left EXCEPT ![j] = 1]
    BY <1>2 DEF Steady, Shaped, Besides, Members
  <2>. HIDE DEF x
  <2>3. x.state \in [Jobs -> States]
    BY <1>2, <2>2 DEF Steady, Shaped, States
  <2>4. x.left \in [Jobs -> 0 .. Hours] /\ x.failures \in [Jobs -> 0 .. Longest]
    BY <1>2, <2>2, HoursAre DEF Steady, Shaped
  <2>5. Stays(r, x)
    BY <1>2, <2>2, <2>3, <2>4, StateKept
  <2>6. Stays(m, x)
    BY <1>2, <2>5, KeptIsTransitive
  <2>7. QED BY <2>1, <2>6, KeptIsWorked DEF Idle
<1>5. CASE ~(m.state[j] # "running" \/ m.rest > 0) /\ ~(m.asked >= PerHour)
  <2>. DEFINE a == [m EXCEPT !.asked = @ + 1]
              x == Asks(a, "search", j)
  <2>1. SearchRun(m) = x
    BY <1>5 DEF SearchRun, j
  <2>2. Besides(m, a, {"asked"}) /\ a.asked = m.asked + 1
    BY DEF Idle, Steady, Shaped, Besides, Members
  <2>. HIDE DEF a
  <2>3. a.asked \in 0 .. PerHour
    BY <1>5, <2>2 DEF Idle, Steady, Shaped, ImportsBounds
  <2>4. a.run = m.run /\ a.air = m.air /\ a.inFlight = m.inFlight /\ a.busy = m.busy /\ a.up = m.up
        /\ a.state = m.state /\ a.rest = m.rest /\ a.owed = m.owed /\ a.turned = m.turned
        /\ a.refusals = m.refusals /\ a.left = m.left /\ a.failures = m.failures /\ a.status = m.status
        /\ a.active = m.active /\ a.timer = m.timer /\ DOMAIN a = Members
    BY <2>2 DEF Besides, Members, Idle, Steady, Shaped
  <2>5. Steady(a)
    BY <2>3, <2>4 DEF Idle, Steady, Shaped, OneAtATime, RunIsActive, BusyWhileAsking
  <2>6. Steady(x) /\ x.air # <<>> /\ Last(x.air).job = j /\ Besides(a, x, {"inFlight", "air"})
    BY <1>1, <2>4, <2>5, AsksIs DEF Idle
  <2>. HIDE DEF x
  <2>7. x.up = m.up /\ x.state = m.state /\ x.rest = m.rest /\ x.owed = m.owed /\ x.turned = m.turned
        /\ x.refusals = m.refusals
    BY <2>4, <2>6 DEF Besides, Members
  <2>8. m.rest = 0
    BY <1>5 DEF Idle, Steady, Shaped, ImportsBounds
  <2>9. QED BY <1>5, <2>1, <2>6, <2>7, <2>8 DEF Idle, Worked, Counted
<1>6. QED BY <1>3, <1>4, <1>5

\* An import being worked on, nothing of it having been asked yet.
AtWork(m, j) == Idle(m) /\ m.run = NoRun /\ m.active = j /\ m.busy /\ m.rest = 0 /\ m.state[j] = "running"

LEMMA SoughtIs ==
    ASSUME ImportsBounds, NEW m, NEW j \in Jobs, AtWork(m, j)
    PROVE  Worked(m, Sought(m, j))
<1>. DEFINE mine == Rows(m, j, {"pending"})
            p == Min(mine)
            song == Lists[j][p]
            sought == [NoRun EXCEPT !.job = j, !.place = p]
            s == [m EXCEPT !.run = sought]
<1>0. Steady(m) /\ Counted(m) /\ ~m.inFlight
  BY DEF AtWork, Idle
<1>1. Sought(m, j) =
        IF mine = {} THEN Scheduled(Finished(m, j, "done"))
        ELSE IF Kinds[j] = "youtube" THEN Scheduled(FromSource(m, j))
        ELSE IF song \in Owned THEN Scheduled(Found(m, j, p, song))
        ELSE IF m.known[song] \notin {None} \union Rejected(m, song) THEN Scheduled(Found(m, j, p, m.known[song]))
        ELSE SearchRun(s)
  BY DEF Sought
<1>2. DOMAIN sought = DOMAIN NoRun /\ sought.job = j /\ sought # NoRun
  BY DEF NoRun, ImportsBounds
<1>. HIDE DEF mine, p, song, sought
<1>3. Stays(m, Finished(m, j, "done"))
  BY <1>0, FinishedIs DEF Over
<1>4. Stays(m, FromSource(m, j))
  BY <1>0, FromSourceIs
<1>5. Stays(m, Found(m, j, p, song)) /\ Stays(m, Found(m, j, p, m.known[song]))
  BY <1>0, FoundIs
<1>6. Worked(m, Scheduled(Finished(m, j, "done"))) /\ Worked(m, Scheduled(FromSource(m, j)))
      /\ Worked(m, Scheduled(Found(m, j, p, song))) /\ Worked(m, Scheduled(Found(m, j, p, m.known[song])))
  BY <1>0, <1>3, <1>4, <1>5, KeptIsWorked
<1>7. Worked(m, SearchRun(s))
  <2>1. Steady(s) /\ s.inFlight = m.inFlight /\ s.run = sought /\ s.rest = m.rest /\ s.up = m.up
        /\ s.refusals = m.refusals /\ s.owed = m.owed /\ s.turned = m.turned
    BY <1>0, <1>2, RunKept DEF AtWork
  <2>2. Idle(s) /\ s.run # NoRun
    BY <1>0, <1>2, <2>1 DEF Idle, Counted
  <2>3. Worked(s, SearchRun(s))
    BY <2>2, SearchRunIs
  <2>4. QED BY <2>1, <2>3 DEF Worked
<1>8. QED BY <1>1, <1>6, <1>7

LEMMA WorkedOnIs ==
    ASSUME ImportsBounds, NEW m, NEW j \in Jobs, Idle(m), m.run = NoRun, m.rest = 0
    PROVE  Worked(m, WorkedOn(m, j))
<1>. DEFINE r == [m EXCEPT !.state[j] = "running", !.left[j] = 0, !.active = j, !.busy = TRUE]
<1>0. Steady(m) /\ Counted(m) /\ ~m.inFlight
  BY DEF Idle
<1>1. /\ Besides(m, r, {"state", "left", "active", "busy"})
      /\ r.state = [m.state EXCEPT ![j] = "running"] /\ r.left = [m.left EXCEPT ![j] = 0]
      /\ r.active = j /\ r.busy = TRUE
  BY <1>0 DEF Steady, Shaped, Besides, Members
<1>2. WorkedOn(m, j) = IF j \in m.gone THEN Scheduled(Finished(r, j, "cancelled"))
                       ELSE IF AllRead(m, j) THEN Sought(r, j) ELSE Asks(r, "page", j)
  BY DEF WorkedOn
<1>. HIDE DEF r
<1>3. r.run = m.run /\ r.air = m.air /\ r.inFlight = m.inFlight /\ r.up = m.up
      /\ r.rest = m.rest /\ r.owed = m.owed /\ r.turned = m.turned /\ r.asked = m.asked
      /\ r.refusals = m.refusals /\ r.failures = m.failures /\ r.status = m.status
      /\ r.timer = m.timer /\ DOMAIN r = Members
  BY <1>0, <1>1 DEF Besides, Members, Steady, Shaped
<1>4. r.left \in [Jobs -> 0 .. Hours]
  BY <1>0, <1>1, HoursAre DEF Steady, Shaped
<1>5. r.state \in [Jobs -> States] /\ r.state[j] = "running"
  BY <1>0, <1>1 DEF Steady, Shaped, States
<1>6. Steady(r)
  BY <1>0, <1>1, <1>3, <1>4, <1>5 DEF Steady, Shaped, OneAtATime, RunIsActive, BusyWhileAsking
<1>7. AtWork(r, j)
  BY <1>0, <1>1, <1>3, <1>5, <1>6 DEF AtWork, Idle, Counted
<1>8. Worked(r, Scheduled(Finished(r, j, "cancelled")))
  BY <1>0, <1>3, <1>6, <1>7, FinishedIs, KeptIsWorked DEF Over, AtWork, Idle
<1>9. Worked(r, Sought(r, j))
  BY <1>7, SoughtIs
<1>10. Worked(r, Asks(r, "page", j))
  <2>. DEFINE x == Asks(r, "page", j)
  <2>1. Steady(x) /\ x.air # <<>> /\ Last(x.air).job = j /\ Besides(r, x, {"inFlight", "air"})
    BY <1>0, <1>1, <1>3, <1>6, AsksIs
  <2>. HIDE DEF x
  <2>2. x.up = r.up /\ x.state = r.state /\ x.rest = r.rest /\ x.owed = r.owed /\ x.turned = r.turned
        /\ x.refusals = r.refusals
    BY <2>1 DEF Besides, Members
  <2>3. Worked(r, x)
    BY <1>3, <1>5, <1>7, <2>1, <2>2 DEF Worked, Counted, AtWork, Idle
  <2>4. QED BY <2>3 DEF x
<1>11. Worked(r, WorkedOn(m, j))
  BY <1>2, <1>8, <1>9, <1>10
<1>12. QED BY <1>3, <1>11 DEF Worked

\* The pump leaves a step to come or an answer, or there is nothing to do.
LEMMA PumpedIs ==
    ASSUME ImportsBounds, NEW m, Idle(m), m.run = NoRun
    PROVE  Worked(m, Pumped(m))
<1>. DEFINE j == Min(Going(m))
            own == IF m.state[j] = "running" THEN 0 ELSE m.left[j]
            idle == [m EXCEPT !.active = 0]
            off == [idle EXCEPT !.busy = FALSE]
            on == [idle EXCEPT !.busy = TRUE]
            wait == Scheduled(on)
            long == [wait EXCEPT !.state[j] = "resting", !.left[j] = m.rest]
<1>0. Steady(m) /\ Counted(m) /\ ~m.inFlight /\ m.air = <<>>
  BY DEF Idle, Steady, OneAtATime, Shaped
<1>1. Pumped(m) =
        IF Going(m) = {} THEN IF m.rest > 0 THEN wait ELSE off
        ELSE IF m.rest > own THEN long ELSE IF own > 0 THEN wait ELSE WorkedOn(m, j)
  BY DEF Pumped
<1>2. \A busy \in BOOLEAN : LET x == [idle EXCEPT !.busy = busy]
                            IN  Besides(m, x, {"active", "busy"}) /\ x.active = 0 /\ x.busy = busy
  BY <1>0 DEF Steady, Shaped, Besides, Members
<1>3. ASSUME NEW x, Besides(m, x, {"active", "busy"}), x.active = 0, x.busy \in BOOLEAN
      PROVE  /\ Steady(x) /\ Counted(x) /\ x.up = m.up /\ x.air = <<>> /\ ~x.inFlight /\ x.state = m.state
             /\ x.rest = m.rest /\ x.left = m.left /\ x.failures = m.failures
  <2>1. x.run = m.run /\ x.air = m.air /\ x.inFlight = m.inFlight /\ x.up = m.up
        /\ x.rest = m.rest /\ x.owed = m.owed /\ x.turned = m.turned /\ x.asked = m.asked
        /\ x.refusals = m.refusals /\ x.failures = m.failures /\ x.status = m.status
        /\ x.state = m.state /\ x.left = m.left
        /\ x.timer = m.timer /\ DOMAIN x = Members
    BY <1>0, <1>3 DEF Besides, Members, Steady, Shaped
  <2>2. Steady(x)
    BY <1>0, <1>3, <2>1 DEF Steady, Shaped, OneAtATime, RunIsActive, BusyWhileAsking
  <2>3. QED BY <1>0, <2>1, <2>2 DEF Counted
<1>4. Steady(on) /\ Counted(on) /\ on.up = m.up /\ on.air = <<>> /\ ~on.inFlight /\ on.state = m.state
      /\ on.rest = m.rest /\ on.left = m.left /\ on.failures = m.failures
  BY <1>2, <1>3
<1>5. Steady(off) /\ Counted(off) /\ off.up = m.up /\ off.air = <<>> /\ ~off.inFlight /\ off.state = m.state
      /\ off.rest = m.rest
  BY <1>2, <1>3
<1>. HIDE DEF on, off
<1>6. Worked(m, wait)
  BY <1>4, SelfKept, KeptIsWorked
<1>7. CASE Going(m) = {}
  <2>1. m.rest > 0 \/ m.rest = 0
    BY <1>0 DEF Steady, Shaped, ImportsBounds
  <2>2. CASE m.rest > 0
    BY <1>1, <1>6, <1>7, <2>2
  <2>3. CASE m.rest = 0
    <3>1. Going(off) = {}
      BY <1>5, <1>7 DEF Going
    <3>2. Worked(m, off)
      BY <1>5, <2>3, <3>1 DEF Worked
    <3>3. QED BY <1>1, <1>7, <2>3, <3>2
  <2>4. QED BY <2>1, <2>2, <2>3
<1>8. CASE Going(m) # {}
  <2>1. j \in Jobs
    <3>1. Going(m) \in SUBSET Nat /\ Going(m) \subseteq Jobs
      BY DEF Going, ImportsBounds
    <3>2. QED BY <1>8, <3>1, LeastIs
  <2>2. own \in Nat
    BY <1>0, <2>1, HoursAre DEF Steady, Shaped
  <2>. HIDE DEF j, own
  <2>3. CASE m.rest > own
    <3>1. Steady(wait) /\ wait.timer /\ wait.air = on.air
      BY <1>4, ScheduledIs
    <3>2. wait.state = m.state /\ wait.left = m.left /\ wait.failures = m.failures
          /\ wait.up = m.up /\ Counted(wait) /\ wait.inFlight = on.inFlight
      BY <1>4 DEF Scheduled, Steady, Shaped, Members, Counted
    <3>. HIDE DEF wait
    <3>3. Besides(wait, long, {"state", "left", "failures"}) /\ long.failures = wait.failures
          /\ long.state = [wait.state EXCEPT ![j] = "resting"] /\ long.left = [wait.left EXCEPT ![j] = m.rest]
          /\ long.timer = wait.timer
      BY <3>1 DEF Steady, Shaped, Besides, Members
    <3>. HIDE DEF long
    <3>4. long.state \in [Jobs -> States]
      BY <3>1, <3>3 DEF Steady, Shaped, States
    <3>5. m.rest \in 0 .. Hours
      BY <1>0, HoursAre DEF Steady, Shaped
    <3>6. long.left \in [Jobs -> 0 .. Hours] /\ long.failures \in [Jobs -> 0 .. Longest]
      BY <3>1, <3>3, <3>5 DEF Steady, Shaped
    <3>7. Stays(wait, long)
      BY <3>1, <3>3, <3>4, <3>6, StateKept
    <3>8. Steady(long) /\ Counted(long) /\ long.up = m.up /\ long.timer /\ ~long.inFlight
      BY <1>4, <3>1, <3>2, <3>3, <3>7 DEF Stays, Counted
    <3>9. long.air = <<>>
      BY <3>8 DEF Steady, Shaped, OneAtATime
    <3>10. Worked(m, long)
      BY <3>8, <3>9 DEF Worked
    <3>11. QED BY <1>1, <1>8, <2>3, <3>10
  <2>4. CASE ~(m.rest > own) /\ own > 0
    BY <1>1, <1>6, <1>8, <2>4
  <2>5. CASE ~(m.rest > own) /\ ~(own > 0)
    <3>1. m.rest = 0
      BY <1>0, <2>2, <2>5 DEF Steady, Shaped, ImportsBounds
    <3>2. Worked(m, WorkedOn(m, j))
      BY <2>1, <3>1, WorkedOnIs
    <3>3. QED BY <1>1, <1>8, <2>5, <3>2
  <2>6. QED BY <2>3, <2>4, <2>5
<1>9. QED BY <1>7, <1>8

-----------------------------------------------------------------------------
(* Every step: it stays good and is gentle.                                 *)

\* A request goes out alone, outside every rest, for a job that runs.
Gentle(m, r) ==
    Len(r.air) > Len(m.air) => m.air = <<>> /\ m.rest = 0 /\ r.state[Last(r.air).job] = "running"

Well(m, r) == Good(r) /\ Gentle(m, r)

LEMMA AirsLength ==
    ASSUME NEW m, Steady(m)
    PROVE  Len(m.air) \in Nat /\ (Len(m.air) = 0 <=> m.air = <<>>) /\ (m.inFlight <=> m.air # <<>>)
BY DEF Steady, Shaped, OneAtATime

LEMMA HeardIsWell ==
    ASSUME NEW m, NEW h, NEW r, HeardWell(h, r), h.up, Steady(m), Steady(h), Len(h.air) <= Len(m.air)
    PROVE  Well(m, r)
<1>1. Good(r)
  BY DEF HeardWell, Good, DownIsOff, GoesOn
<1>2. Len(r.air) \in Nat /\ Len(m.air) \in Nat /\ Len(r.air) = Len(h.air)
  BY AirsLength DEF HeardWell
<1>3. QED BY <1>1, <1>2 DEF Well, Gentle

LEMMA WorkedIsWell ==
    ASSUME NEW m, NEW r, Worked(m, r), m.up, m.air = <<>>
    PROVE  Well(m, r)
<1>1. Good(r)
  BY DEF Worked, Good, DownIsOff, GoesOn, Steady, BusyWhileAsking
<1>2. Gentle(m, r)
  <2>1. Len(r.air) > Len(m.air) => r.air # <<>>
    BY AirsLength DEF Worked
  <2>2. QED BY <2>1 DEF Gentle, Worked
<1>3. QED BY <1>1, <1>2 DEF Well

\* Steps that change nothing the pump goes by.
LEMMA StillWell ==
    ASSUME NEW m, NEW r, Good(m), Stays(m, r), r.state = m.state
    PROVE  Well(m, r)
<1>1. r.air = <<>> <=> m.air = <<>>
  BY AirsLength DEF Good, Stays
<1>2. Going(r) = Going(m)
  BY DEF Going
<1>3. Good(r)
  BY <1>1, <1>2 DEF Good, Stays, Counted, DownIsOff, GoesOn
<1>4. Gentle(m, r)
  BY AirsLength DEF Good, Stays, Gentle
<1>5. QED BY <1>3, <1>4 DEF Well

Open == {"state", "left", "failures", "status", "busy", "read", "cut", "video", "list", "gone", "known",
         "rejected", "preview", "launches"}

\* The fields the pump does not go by may be anything of their types.
LEMMA OpenKept ==
    ASSUME NEW m, Steady(m), NEW r, Besides(m, r, Open), r.busy \in BOOLEAN, m.busy => r.busy,
           r.state \in [Jobs -> States], r.left \in [Jobs -> 0 .. Hours], r.failures \in [Jobs -> 0 .. Longest],
           DOMAIN r.status = Jobs, \A j \in Jobs : r.status[j] \in [Places(j) -> Statuses]
    PROVE  /\ Steady(r)
           /\ Counted(m) => Counted(r)
           /\ r.up = m.up /\ r.air = m.air /\ r.run = m.run /\ r.inFlight = m.inFlight /\ r.timer = m.timer
           /\ r.rest = m.rest /\ r.owed = m.owed /\ r.turned = m.turned /\ r.refusals = m.refusals
           /\ (r.busy = m.busy => Stays(m, r))
<1>1. DOMAIN r = Members
      /\ r.active = m.active /\ r.run = m.run /\ r.air = m.air
      /\ r.up = m.up /\ r.inFlight = m.inFlight /\ r.timer = m.timer
      /\ r.rest = m.rest /\ r.refusals = m.refusals /\ r.asked = m.asked
      /\ r.owed = m.owed /\ r.turned = m.turned
  BY DEF Besides, Steady, Shaped, Members, Open
<1>2. Steady(r)
  BY <1>1 DEF Steady, Shaped, OneAtATime, RunIsActive, BusyWhileAsking
<1>3. QED BY <1>1, <1>2 DEF Stays, Counted

\* The pump (step).
LEMMA StepIsWell ==
    ASSUME ImportsBounds, Good(imp), Step
    PROVE  Well(imp, imp')
<1>. DEFINE m == [imp EXCEPT !.timer = FALSE]
<1>1. imp.up /\ imp' = IF m.inFlight THEN m ELSE IF m.run # NoRun THEN SearchRun(m) ELSE Pumped(m)
  BY DEF Step
<1>2. Besides(imp, m, {"timer"}) /\ m.timer = FALSE
  BY DEF Good, Steady, Shaped, Besides, Members
<1>. HIDE DEF m
<1>3. DOMAIN m = Members
      /\ m.active = imp.active /\ m.run = imp.run /\ m.air = imp.air /\ m.status = imp.status
      /\ m.state = imp.state /\ m.left = imp.left /\ m.failures = imp.failures
      /\ m.up = imp.up /\ m.inFlight = imp.inFlight /\ m.busy = imp.busy
      /\ m.rest = imp.rest /\ m.refusals = imp.refusals /\ m.asked = imp.asked
      /\ m.owed = imp.owed /\ m.turned = imp.turned
  BY <1>2 DEF Besides, Members, Good, Steady, Shaped
<1>4. Steady(m) /\ Counted(m)
  BY <1>2, <1>3 DEF Good, Steady, Shaped, OneAtATime, RunIsActive, BusyWhileAsking, Counted
<1>5. CASE m.inFlight
  <2>1. m.air # <<>> /\ m.busy
    BY <1>4, <1>5, AirsLength DEF Steady, BusyWhileAsking
  <2>2. Good(m)
    BY <1>1, <1>3, <1>4, <2>1 DEF Good, DownIsOff, GoesOn
  <2>3. Gentle(imp, m)
    BY <1>3, AirsLength DEF Gentle, Good
  <2>4. QED BY <1>1, <1>5, <2>2, <2>3 DEF Well
<1>6. CASE ~m.inFlight
  <2>1. Idle(m) /\ m.air = <<>>
    BY <1>4, <1>6, AirsLength DEF Idle
  <2>2. Worked(m, imp')
    BY <1>1, <1>6, <2>1, SearchRunIs, PumpedIs
  <2>3. Worked(imp, imp')
    BY <1>3, <2>2 DEF Worked
  <2>4. QED BY <1>1, <1>3, <2>1, <2>3, WorkedIsWell
<1>7. QED BY <1>5, <1>6

\* The program ends: what is left is on disk.
LEMMA DownIs ==
    ASSUME NEW b, Steady(b), NEW m, Steady(m), Counted(m)
    PROVE  Well(b, Down(m))
<1>. DEFINE r == Down(m)
<1>1. /\ DOMAIN r = Members
      /\ r.up = FALSE /\ r.inFlight = FALSE /\ r.air = <<>> /\ r.run = NoRun /\ r.active = 0 /\ r.timer = FALSE
      /\ r.busy = FALSE
      /\ r.status = m.status /\ r.state = m.state /\ r.left = m.left /\ r.failures = m.failures
      /\ r.rest = m.rest /\ r.refusals = m.refusals /\ r.asked = m.asked
      /\ r.owed = m.owed /\ r.turned = m.turned
  BY DEF Down, Steady, Shaped, Members
<1>. HIDE DEF r
<1>2. r.air \in Seq(Request) /\ Len(r.air) = 0 /\ DOMAIN NoRun = {"job", "place", "index", "best"}
  BY <1>1 DEF NoRun
<1>3. Shaped(r)
  BY <1>1, <1>2 DEF Steady, Shaped
<1>4. OneAtATime(r) /\ RunIsActive(r) /\ BusyWhileAsking(r)
  BY <1>1, <1>2 DEF OneAtATime, RunIsActive, BusyWhileAsking
<1>5. Good(r)
  BY <1>1, <1>3, <1>4 DEF Good, Steady, Counted, DownIsOff, GoesOn
<1>6. Gentle(b, r)
  BY <1>2, AirsLength DEF Gentle
<1>7. QED BY <1>5, <1>6 DEF Well, r

\* A page read, to its end or to where the program ended.
LEMMA ReadIs ==
    ASSUME ImportsBounds, NEW m, Steady(m), NEW j \in Jobs
    PROVE  /\ \A upTo \in {"rows", "job", "added"} : Stays(m, Read(m, j, upTo))
           /\ \E r : Stays(m, r) /\ Read(m, j, "all") = Scheduled(r)
<1>. DEFINE p == m.read[j] + 1
            mine == Inserted(m, j, {p})
            kept == [mine EXCEPT !.read[j] = p, !.failures[j] = 0]
            added == [kept EXCEPT !.list[j] = FromSource(kept, j).list[j]]
<1>1. Read(m, j, "rows") = mine /\ Read(m, j, "job") = kept /\ Read(m, j, "added") = added
      /\ Read(m, j, "all") = Scheduled(FromSource(kept, j))
  BY DEF Read
<1>2. Stays(m, mine) /\ Steady(mine)
  BY InsertedIs DEF Stays
<1>. HIDE DEF mine, p
<1>3. Besides(mine, kept, Open) /\ kept.state = mine.state /\ kept.left = mine.left /\ kept.status = mine.status
      /\ kept.busy = mine.busy /\ kept.failures = [mine.failures EXCEPT ![j] = 0]
  BY <1>2 DEF Steady, Shaped, Besides, Members, Open
<1>. HIDE DEF kept
<1>4. kept.failures \in [Jobs -> 0 .. Longest]
  <2>1. 0 \in 0 .. Longest
    BY DEF ImportsBounds
  <2>2. QED BY <1>2, <1>3, <2>1 DEF Steady, Shaped
<1>5. kept.state \in [Jobs -> States] /\ kept.left \in [Jobs -> 0 .. Hours] /\ kept.busy \in BOOLEAN
      /\ DOMAIN kept.status = Jobs /\ \A i \in Jobs : kept.status[i] \in [Places(i) -> Statuses]
  BY <1>2, <1>3 DEF Steady, Shaped
<1>6. Stays(mine, kept)
  BY <1>2, <1>3, <1>4, <1>5, OpenKept
<1>7. Stays(m, kept) /\ Steady(kept)
  BY <1>2, <1>6, KeptIsTransitive DEF Stays
<1>8. Aside(kept, added)
  BY <1>7 DEF Aside, Besides, Steady, Shaped, Members
<1>. HIDE DEF added
<1>9. Stays(m, added)
  BY <1>7, <1>8, AsideIs, KeptIsTransitive
<1>10. Stays(m, FromSource(kept, j))
  BY <1>7, FromSourceIs, KeptIsTransitive
<1>11. QED BY <1>1, <1>2, <1>7, <1>9, <1>10

\* A search answered, whoever hears it.
LEMMA SearchAnsweredIsWell ==
    ASSUME ImportsBounds, Good(imp), NEW n \in DOMAIN imp.air, NEW said, SearchAnswered(n, said)
    PROVE  Well(imp, imp')
<1>. DEFINE t == Taken(imp, n)
            refusal == said = "refusal"
            m == Says(t, refusal)
            once == imp.air[n].live /\ m.run # NoRun
<1>1. imp.up /\ imp' = IF once THEN Searched(m, said) ELSE Overheard(m, refusal)
  BY DEF SearchAnswered
<1>. HIDE DEF once
<1>2. Steady(imp) /\ Counted(imp)
  BY DEF Good
<1>3. Steady(t) /\ Same(imp, t) /\ t.air = <<>> /\ Counted(t) /\ Len(imp.air) = 1
  BY <1>2, TakenIs DEF Counted
<1>. HIDE DEF t
<1>4. refusal \in BOOLEAN
  OBVIOUS
<1>5. Told(m, refusal) /\ m.up = imp.up /\ m.air = <<>> /\ Steady(m)
  BY <1>3, <1>4, SaysIs DEF Told, Same
<1>. HIDE DEF m
<1>6. once => HeardWell(m, Searched(m, said))
  BY <1>5, SearchedIs DEF once
<1>7. ~once => HeardWell(m, Overheard(m, refusal))
  BY <1>4, <1>5, OverheardIs
<1>8. Len(m.air) <= Len(imp.air)
  BY <1>3, <1>5
<1>9. HeardWell(m, imp')
  BY <1>1, <1>6, <1>7
<1>10. QED BY <1>1, <1>2, <1>5, <1>8, <1>9, HeardIsWell

\* A page answered, whoever hears it.
LEMMA PageAnsweredIsWell ==
    ASSUME ImportsBounds, Good(imp), NEW n \in DOMAIN imp.air, NEW said, PageAnswered(n, said)
    PROVE  Well(imp, imp')
<1>. DEFINE j == imp.air[n].job
            youtube == Kinds[j] = "youtube"
            refusal == said = "refusal"
            t == Taken(imp, n)
            m == IF youtube THEN Says(t, refusal) ELSE t
            once == IF youtube THEN Answered(m) ELSE m
            cut == [m EXCEPT !.cut[j] = TRUE]
<1>1. /\ imp.up
      /\ \/ imp' = Scheduled(IF youtube /\ refusal THEN Refused(m) ELSE m)
         \/ refusal /\ imp' = Scheduled(Failed(m, j, youtube))
         \/ ~refusal /\ imp' = Scheduled(cut)
         \/ ~refusal /\ imp' = Read(once, j, "all")
         \/ ~refusal /\ \E upTo \in {"rows", "job", "added"} : imp' = Down(Read(once, j, upTo))
  BY DEF PageAnswered
<1>2. Steady(imp) /\ Counted(imp)
  BY DEF Good
<1>3. Steady(t) /\ Same(imp, t) /\ t.air = <<>> /\ Counted(t) /\ Len(imp.air) = 1 /\ n = 1
  BY <1>2, TakenIs DEF Counted
<1>4. j \in Jobs
  <2>1. imp.air \in Seq(Request) /\ n \in 1 .. Len(imp.air)
    BY <1>2, <1>3 DEF Steady, Shaped
  <2>2. imp.air[n] \in Request
    BY <2>1, ElementOfSeq
  <2>3. QED BY <2>2 DEF Request
<1>. HIDE DEF t, j
<1>5. refusal \in BOOLEAN /\ youtube \in BOOLEAN
  OBVIOUS
<1>6. /\ Steady(m) /\ m.up = imp.up /\ m.air = <<>>
      /\ youtube => Told(m, refusal)
      /\ ~youtube => Counted(m)
  <2>. HIDE DEF youtube, refusal
  <2>1. CASE youtube
    <3>1. m = Says(t, refusal)
      BY <2>1
    <3>2. QED BY <1>3, <1>5, <2>1, <3>1, SaysIs DEF Told, Same
  <2>2. CASE ~youtube
    BY <1>3, <2>2 DEF Same
  <2>3. QED BY <2>1, <2>2
<1>. HIDE DEF m, youtube, refusal
<1>7. ASSUME NEW r, NEW h, Stays(h, r), Counted(h), h.up = m.up, h.air = m.air
      PROVE  Well(imp, Scheduled(r))
  <2>1. HeardWell(m, Scheduled(r))
    BY <1>7, KeptIsHeard
  <2>2. Len(m.air) <= Len(imp.air)
    BY <1>3, <1>6
  <2>3. QED BY <1>1, <1>2, <1>6, <2>1, <2>2, HeardIsWell
<1>8. /\ youtube /\ refusal => Steady(Refused(m)) /\ Counted(Refused(m)) /\ Same(m, Refused(m)) /\ Refused(m).air = m.air
      /\ youtube /\ ~refusal => Steady(Answered(m)) /\ Counted(Answered(m)) /\ Same(m, Answered(m)) /\ Answered(m).air = m.air
      /\ ~(youtube /\ refusal) => Counted(m)
  <2>1. youtube /\ refusal => Told(m, TRUE)
    BY <1>5, <1>6 DEF Told
  <2>2. youtube /\ ~refusal => Told(m, FALSE)
    BY <1>5, <1>6 DEF Told
  <2>3. QED BY <1>5, <1>6, <2>1, <2>2, CountedThen
<1>9. ~refusal => Steady(once) /\ Counted(once) /\ once.up = m.up /\ once.air = m.air
  BY <1>6, <1>8 DEF Same
<1>. HIDE DEF once
<1>10. CASE imp' = Scheduled(IF youtube /\ refusal THEN Refused(m) ELSE m)
  <2>1. CASE youtube /\ refusal
    BY <1>7, <1>8, <1>10, <2>1, SelfKept DEF Same
  <2>2. CASE ~(youtube /\ refusal)
    BY <1>6, <1>7, <1>8, <1>10, <2>2, SelfKept
  <2>3. QED BY <2>1, <2>2
<1>11. CASE refusal /\ imp' = Scheduled(Failed(m, j, youtube))
  <2>1. CASE youtube
    <3>1. Stays(Refused(m), Failed(m, j, TRUE))
      BY <1>4, <1>6, FailedOfYouTube
    <3>2. imp' = Scheduled(Failed(m, j, TRUE))
      BY <1>5, <1>11, <2>1
    <3>3. QED BY <1>7, <1>8, <1>11, <2>1, <3>1, <3>2 DEF Same
  <2>2. CASE ~youtube
    <3>1. Stays(m, Failed(m, j, FALSE))
      BY <1>4, <1>6, FailedIs
    <3>2. imp' = Scheduled(Failed(m, j, FALSE))
      BY <1>5, <1>11, <2>2
    <3>3. QED BY <1>7, <1>8, <2>2, <3>1, <3>2
  <2>3. QED BY <2>1, <2>2
<1>12. CASE ~refusal /\ imp' = Scheduled(cut)
  <2>1. Aside(m, cut)
    BY <1>6 DEF Aside, Besides, Steady, Shaped, Members
  <2>. HIDE DEF cut
  <2>2. Stays(m, cut)
    BY <1>6, <2>1, AsideIs
  <2>3. QED BY <1>7, <1>8, <1>12, <2>2
<1>13. CASE ~refusal /\ imp' = Read(once, j, "all")
  <2>1. PICK r : Stays(once, r) /\ Read(once, j, "all") = Scheduled(r)
    BY <1>4, <1>9, <1>13, ReadIs
  <2>2. QED BY <1>7, <1>9, <1>13, <2>1
<1>14. CASE ~refusal /\ \E upTo \in {"rows", "job", "added"} : imp' = Down(Read(once, j, upTo))
  <2>1. PICK upTo \in {"rows", "job", "added"} : imp' = Down(Read(once, j, upTo))
    BY <1>14
  <2>2. Stays(once, Read(once, j, upTo))
    BY <1>4, <1>9, <1>14, ReadIs
  <2>3. Steady(Read(once, j, upTo)) /\ Counted(Read(once, j, upTo))
    BY <1>9, <1>14, <2>2 DEF Stays, Counted
  <2>4. QED BY <1>2, <2>1, <2>3, DownIs
<1>15. QED BY <1>1, <1>10, <1>11, <1>12, <1>13, <1>14

\* A start, a resume: the import runs, and the pump is told.
LEMMA BegunIsWell ==
    ASSUME ImportsBounds, Good(imp), imp.up, NEW m, Steady(m), Counted(m), m.up, m.air = imp.air,
           NEW r, Stays(m, r)
    PROVE  Well(imp, Scheduled(r))
<1>1. HeardWell(m, Scheduled(r))
  BY KeptIsHeard
<1>2. Steady(imp) /\ Len(m.air) <= Len(imp.air)
  BY AirsLength DEF Good
<1>3. QED BY <1>1, <1>2, HeardIsWell

LEMMA StartIsWell ==
    ASSUME ImportsBounds, Good(imp), NEW j \in Jobs, Start(j)
    PROVE  Well(imp, imp')
<1>. DEFINE first == IF Kinds[j] = "list" THEN Places(j) ELSE {1}
            a == [imp EXCEPT !.state[j] = "running", !.read[j] = Max(first), !.preview = "none", !.busy = TRUE]
            m == Inserted(a, j, first)
<1>1. imp.up /\ imp' = Scheduled(FromSource(m, j))
  BY DEF Start
<1>2. Steady(imp) /\ Counted(imp)
  BY DEF Good
<1>. HIDE DEF first
<1>3. Besides(imp, a, Open) /\ a.busy = TRUE /\ a.state = [imp.state EXCEPT ![j] = "running"]
      /\ a.left = imp.left /\ a.failures = imp.failures /\ a.status = imp.status
  BY <1>2 DEF Steady, Shaped, Besides, Members, Open
<1>. HIDE DEF a
<1>4. a.state \in [Jobs -> States]
  BY <1>2, <1>3 DEF Steady, Shaped, States
<1>5. Steady(a) /\ Counted(a) /\ a.up = imp.up /\ a.air = imp.air
  <2>1. a.busy \in BOOLEAN /\ a.left \in [Jobs -> 0 .. Hours] /\ a.failures \in [Jobs -> 0 .. Longest]
        /\ DOMAIN a.status = Jobs /\ \A i \in Jobs : a.status[i] \in [Places(i) -> Statuses]
    BY <1>2, <1>3 DEF Steady, Shaped
  <2>2. QED BY <1>2, <1>3, <1>4, <2>1, OpenKept
<1>6. Stays(a, m) /\ Steady(m)
  BY <1>5, InsertedIs DEF Stays
<1>. HIDE DEF m
<1>7. Stays(a, FromSource(m, j))
  BY <1>6, FromSourceIs, KeptIsTransitive
<1>8. QED BY <1>1, <1>5, <1>7, BegunIsWell

LEMMA ResumeIsWell ==
    ASSUME ImportsBounds, Good(imp), NEW j \in Jobs, Resume(j)
    PROVE  Well(imp, imp')
<1>. DEFINE a == [imp EXCEPT !.state[j] = "running", !.left[j] = 0, !.failures[j] = 0, !.busy = TRUE]
<1>1. imp.up /\ imp' = Scheduled(a)
  BY DEF Resume
<1>2. Steady(imp) /\ Counted(imp)
  BY DEF Good
<1>3. Besides(imp, a, Open) /\ a.busy = TRUE /\ a.state = [imp.state EXCEPT ![j] = "running"]
      /\ a.left = [imp.left EXCEPT ![j] = 0] /\ a.failures = [imp.failures EXCEPT ![j] = 0]
      /\ a.status = imp.status
  BY <1>2 DEF Steady, Shaped, Besides, Members, Open
<1>. HIDE DEF a
<1>4. a.state \in [Jobs -> States]
  BY <1>2, <1>3 DEF Steady, Shaped, States
<1>5. a.left \in [Jobs -> 0 .. Hours] /\ a.failures \in [Jobs -> 0 .. Longest]
  <2>1. 0 \in 0 .. Hours /\ 0 \in 0 .. Longest
    BY HoursAre DEF ImportsBounds
  <2>2. QED BY <1>2, <1>3, <2>1 DEF Steady, Shaped
<1>6. Steady(a) /\ Counted(a) /\ a.up = imp.up /\ a.air = imp.air
  <2>1. a.busy \in BOOLEAN
        /\ DOMAIN a.status = Jobs /\ \A i \in Jobs : a.status[i] \in [Places(i) -> Statuses]
    BY <1>2, <1>3 DEF Steady, Shaped
  <2>2. QED BY <1>2, <1>3, <1>4, <1>5, <2>1, OpenKept
<1>7. QED BY <1>1, <1>6, SelfKept, BegunIsWell

LEMMA LookForStoppedIsWell ==
    ASSUME ImportsBounds, Good(imp), NEW j \in Jobs, LookForStopped(j)
    PROVE  Well(imp, imp')
<1>. DEFINE row == [p \in Places(j) |-> IF imp.status[j][p] = "stopped" THEN "pending" ELSE imp.status[j][p]]
            read == IF Kinds[j] = "youtube" /\ ~AllRead(imp, j) THEN 0 ELSE imp.read[j]
            a == [imp EXCEPT !.status[j] = row, !.read[j] = read,
                             !.state[j] = "running", !.left[j] = 0, !.failures[j] = 0, !.busy = TRUE]
<1>2. Steady(imp) /\ Counted(imp)
  BY DEF Good
<1>1. imp.up /\ imp' = Scheduled(FromSource(a, j))
  BY <1>2 DEF LookForStopped, Steady, Shaped, Members
<1>0. row \in [Places(j) -> Statuses]
  BY <1>2 DEF Steady, Shaped, Statuses
<1>. HIDE DEF row, read
<1>3. Besides(imp, a, Open) /\ a.busy = TRUE /\ a.state = [imp.state EXCEPT ![j] = "running"]
      /\ a.left = [imp.left EXCEPT ![j] = 0] /\ a.failures = [imp.failures EXCEPT ![j] = 0]
      /\ a.status = [imp.status EXCEPT ![j] = row]
  BY <1>2 DEF Steady, Shaped, Besides, Members, Open
<1>. HIDE DEF a
<1>4. a.state \in [Jobs -> States]
  BY <1>2, <1>3 DEF Steady, Shaped, States
<1>5. a.left \in [Jobs -> 0 .. Hours] /\ a.failures \in [Jobs -> 0 .. Longest]
  <2>1. 0 \in 0 .. Hours /\ 0 \in 0 .. Longest
    BY HoursAre DEF ImportsBounds
  <2>2. QED BY <1>2, <1>3, <2>1 DEF Steady, Shaped
<1>6. Steady(a) /\ Counted(a) /\ a.up = imp.up /\ a.air = imp.air
  <2>1. a.busy \in BOOLEAN
        /\ DOMAIN a.status = Jobs /\ \A i \in Jobs : a.status[i] \in [Places(i) -> Statuses]
    BY <1>0, <1>2, <1>3 DEF Steady, Shaped
  <2>2. QED BY <1>2, <1>3, <1>4, <1>5, <2>1, OpenKept
<1>7. Stays(a, FromSource(a, j))
  BY <1>6, FromSourceIs
<1>8. QED BY <1>1, <1>6, <1>7, BegunIsWell

LEMMA PauseIsWell ==
    ASSUME ImportsBounds, Good(imp), NEW j \in Jobs, Pause(j)
    PROVE  Well(imp, imp')
<1>. DEFINE m == IF imp.active = j THEN Dropped(imp) ELSE imp
            a == [m EXCEPT !.state[j] = "paused", !.left[j] = 0]
<1>1. imp.up /\ imp' = Scheduled(a)
  BY DEF Pause
<1>2. Steady(imp) /\ Counted(imp)
  BY DEF Good
<1>3. Stays(imp, m) /\ Steady(m)
  BY <1>2, DroppedIs, SelfKept DEF Stays
<1>. HIDE DEF m
<1>4. Besides(m, a, {"state", "left", "failures"}) /\ a.state = [m.state EXCEPT ![j] = "paused"]
      /\ a.left = [m.left EXCEPT ![j] = 0] /\ a.failures = m.failures
  BY <1>3 DEF Steady, Shaped, Besides, Members
<1>. HIDE DEF a
<1>5. a.state \in [Jobs -> States]
  BY <1>3, <1>4 DEF Steady, Shaped, States
<1>6. a.left \in [Jobs -> 0 .. Hours] /\ a.failures \in [Jobs -> 0 .. Longest]
  BY <1>3, <1>4, HoursAre DEF Steady, Shaped
<1>7. Stays(imp, a)
  BY <1>3, <1>4, <1>5, <1>6, StateKept, KeptIsTransitive
<1>8. QED BY <1>1, <1>2, <1>7, BegunIsWell

LEMMA CancelIsWell ==
    ASSUME ImportsBounds, Good(imp), NEW j \in Jobs, Cancel(j)
    PROVE  Well(imp, imp')
<1>1. imp.up /\ imp' = Scheduled(Finished(imp, j, "cancelled"))
  BY DEF Cancel
<1>2. Steady(imp) /\ Counted(imp)
  BY DEF Good
<1>3. Stays(imp, Finished(imp, j, "cancelled"))
  BY <1>2, FinishedIs DEF Over
<1>4. QED BY <1>1, <1>2, <1>3, BegunIsWell

LEMMA ChosenIsWell ==
    ASSUME ImportsBounds, Good(imp), NEW j \in Jobs, NEW p, NEW v, Chosen(j, p, v)
    PROVE  Well(imp, imp')
<1>. DEFINE f == Found(imp, j, p, v)
<1>1. j \notin imp.gone /\ imp' = Remembered(f, j, p, v)
  BY DEF Chosen
<1>2. Stays(imp, f) /\ f.state = imp.state /\ Steady(f)
  BY <1>1, FoundIs DEF Good, Stays
<1>3. Stays(f, imp') /\ imp'.state = f.state
  BY <1>1, <1>2, RememberedIs
<1>4. Stays(imp, imp') /\ imp'.state = imp.state
  BY <1>2, <1>3, KeptIsTransitive
<1>5. QED BY <1>4, StillWell

LEMMA ReviewIsWell ==
    ASSUME ImportsBounds, Good(imp), NEW j \in Jobs, NEW p,
           NotThis(j, p) \/ Dismiss(j, p) \/ DismissStopped(j)
    PROVE  Well(imp, imp')
<1>0. Steady(imp)
  BY DEF Good
<1>1. CASE NotThis(j, p)
  <2>. DEFINE song == Lists[j][p]
              a == Settled(imp, j, p, "notfound")
  <2>1. imp' = [a EXCEPT !.rejected = @ \union {song}, !.known[song] = IF @ = song THEN None ELSE @]
    BY <1>1 DEF NotThis
  <2>2. Stays(imp, a) /\ a.state = imp.state /\ Steady(a)
    BY <1>0, SettledIs DEF Stays, Statuses
  <2>. HIDE DEF song, a
  <2>3. Aside(a, imp')
    BY <2>1, <2>2 DEF Aside, Besides, Steady, Shaped, Members
  <2>4. Stays(a, imp') /\ imp'.state = a.state
    BY <2>2, <2>3, AsideIs
  <2>5. Stays(imp, imp') /\ imp'.state = imp.state
    BY <2>2, <2>4, KeptIsTransitive
  <2>6. QED BY <2>5, StillWell
<1>2. CASE Dismiss(j, p)
  <2>1. Stays(imp, imp') /\ imp'.state = imp.state
    BY <1>0, <1>2, SettledIs DEF Dismiss, Statuses
  <2>2. QED BY <2>1, StillWell
<1>3. CASE DismissStopped(j)
  <2>. DEFINE row == [q \in Places(j) |-> IF imp.status[j][q] = "stopped" THEN "dismissed" ELSE imp.status[j][q]]
  <2>1. row \in [Places(j) -> Statuses]
    BY <1>0 DEF Steady, Shaped, Statuses
  <2>2. imp' = [imp EXCEPT !.status[j] = row]
    BY <1>0, <1>3 DEF DismissStopped, Steady, Shaped, Members
  <2>. HIDE DEF row
  <2>3. Stays(imp, imp') /\ imp'.state = imp.state
    BY <1>0, <2>1, <2>2, StatusKept
  <2>4. QED BY <2>3, StillWell
<1>4. QED BY <1>1, <1>2, <1>3

LEMMA AsideIsWell ==
    ASSUME Good(imp), Preview \/ (\E j \in Jobs : DeletePlaylist(j)) \/ PreviewAnswered(TRUE)
    PROVE  Well(imp, imp')
<1>1. Steady(imp)
  BY DEF Good
<1>2. Aside(imp, imp')
  BY <1>1 DEF Preview, DeletePlaylist, PreviewAnswered, Aside, Besides, Steady, Shaped, Members
<1>3. Stays(imp, imp') /\ imp'.state = imp.state
  BY <1>1, <1>2, AsideIs
<1>4. QED BY <1>3, StillWell

LEMMA PreviewAnsweredIsWell ==
    ASSUME ImportsBounds, Good(imp), PreviewAnswered(FALSE)
    PROVE  Well(imp, imp')
<1>. DEFINE a == [imp EXCEPT !.preview = "ready"]
            b == Answered(a)
<1>1. imp.up /\ imp' = Says(b, FALSE)
  BY DEF PreviewAnswered
<1>2. Steady(imp)
  BY DEF Good
<1>3. Aside(imp, a)
  BY <1>2 DEF Aside, Besides, Steady, Shaped, Members
<1>. HIDE DEF a
<1>4. Stays(imp, a) /\ Steady(a) /\ a.state = imp.state /\ a.air = imp.air /\ a.up = imp.up
      /\ a.run = imp.run /\ a.timer = imp.timer
  BY <1>2, <1>3, AsideIs DEF Stays
<1>5. Steady(b) /\ Same(a, b) /\ b.air = a.air /\ b.inFlight = a.inFlight /\ b.timer = a.timer
      /\ b.rest = 0 /\ b.refusals = 0
  BY <1>4, AnsweredIs
<1>. HIDE DEF b
<1>6. LET r == imp' IN
      DOMAIN r = Members /\ Same(b, r) /\ r.air = b.air /\ r.inFlight = b.inFlight /\ r.asked = b.asked
      /\ r.owed = 0 /\ r.turned = 0 /\ r.rest = b.rest /\ r.refusals = b.refusals /\ r.timer = b.timer
  BY <1>1, <1>5 DEF Says, Steady, Shaped, Members, Same
<1>7. 0 \in 0 .. Longest
  BY DEF ImportsBounds
<1>8. Steady(imp')
  BY <1>5, <1>6, <1>7 DEF Steady, Shaped, OneAtATime, RunIsActive, BusyWhileAsking, Same
<1>9. imp'.air = imp.air /\ imp'.state = imp.state /\ imp'.timer = imp.timer /\ imp'.up = imp.up
      /\ imp'.rest = 0 /\ imp'.run = imp.run
  BY <1>4, <1>5, <1>6 DEF Same
<1>10. Good(imp')
  <2>1. Going(imp') = Going(imp)
    BY <1>9 DEF Going
  <2>0. imp.up /\ imp'.refusals = 0 /\ imp'.owed = 0 /\ imp'.turned = 0
    BY <1>1, <1>5, <1>6
  <2>2. GoesOn(imp')
    BY <1>9, <2>1 DEF Good, GoesOn
  <2>3. Counted(imp') /\ DownIsOff(imp')
    BY <1>9, <2>0 DEF Counted, DownIsOff
  <2>4. QED BY <1>8, <2>2, <2>3 DEF Good
<1>11. Gentle(imp, imp')
  BY <1>2, <1>9, AirsLength DEF Gentle
<1>12. QED BY <1>10, <1>11 DEF Well

LEMMA HourPassesIsWell ==
    ASSUME ImportsBounds, Good(imp), HourPasses
    PROVE  Well(imp, imp')
<1>1. Steady(imp)
  BY DEF Good
<1>2. /\ DOMAIN imp' = Members
      /\ imp'.rest = Less(imp.rest) /\ imp'.owed = Less(imp.owed) /\ imp'.asked = 0
      /\ imp'.left = [j \in Jobs |-> Less(imp.left[j])]
      /\ imp'.active = imp.active /\ imp'.run = imp.run /\ imp'.air = imp.air /\ imp'.status = imp.status
      /\ imp'.state = imp.state /\ imp'.failures = imp.failures
      /\ imp'.up = imp.up /\ imp'.inFlight = imp.inFlight /\ imp'.busy = imp.busy /\ imp'.timer = imp.timer
      /\ imp'.refusals = imp.refusals /\ imp'.turned = imp.turned
  BY <1>1 DEF HourPasses, Steady, Shaped, Members
<1>3. \A h, n \in Nat : n \in 0 .. h => Less(n) \in 0 .. h
  BY DEF Less
<1>4. \A x, y \in Nat : x <= y => Less(x) <= Less(y)
  BY DEF Less
<1>5. imp'.rest \in 0 .. Longest /\ imp'.owed \in 0 .. Longest /\ imp'.owed <= imp'.rest
      /\ (imp'.rest > 0 => imp.rest > 0) /\ imp'.asked \in 0 .. PerHour
  <2>1. imp.rest \in 0 .. Longest /\ imp.owed \in 0 .. Longest /\ imp.owed <= imp.rest
    BY DEF Good, Steady, Shaped, Counted
  <2>2. QED BY <1>2, <2>1 DEF Less, ImportsBounds
<1>6. imp'.left \in [Jobs -> 0 .. Hours]
  <2>1. \A j \in Jobs : imp.left[j] \in 0 .. Hours
    BY <1>1 DEF Steady, Shaped
  <2>2. \A j \in Jobs : Less(imp.left[j]) \in 0 .. Hours
    BY <1>3, <2>1, HoursAre
  <2>3. QED BY <1>2, <2>2
<1>7. Steady(imp')
  BY <1>1, <1>2, <1>5, <1>6 DEF Steady, Shaped, OneAtATime, RunIsActive, BusyWhileAsking
<1>8. Good(imp')
  BY <1>2, <1>5, <1>7 DEF Good, Counted, DownIsOff, GoesOn, Going
<1>9. Gentle(imp, imp')
  BY <1>1, <1>2, AirsLength DEF Gentle
<1>10. QED BY <1>8, <1>9 DEF Well

\* A launch schedules the pump for whatever goes on (load).
LEMMA LaunchIsWell ==
    ASSUME ImportsBounds, Good(imp), Launch
    PROVE  Well(imp, imp')
<1>1. Steady(imp) /\ ~imp.up
  BY DEF Good, Launch
<1>2. /\ DOMAIN imp' = Members
      /\ imp'.up = TRUE /\ imp'.busy = LeftToDo(imp) /\ imp'.timer = LeftToDo(imp)
      /\ imp'.rest = imp.rest /\ imp'.owed = imp.owed /\ imp'.asked = imp.asked /\ imp'.left = imp.left
      /\ imp'.active = imp.active /\ imp'.run = imp.run /\ imp'.air = imp.air /\ imp'.status = imp.status
      /\ imp'.state = imp.state /\ imp'.failures = imp.failures
      /\ imp'.inFlight = imp.inFlight
      /\ imp'.refusals = imp.refusals /\ imp'.turned = imp.turned
  BY <1>1 DEF Launch, Steady, Shaped, Members
<1>3. imp.air = <<>> /\ imp.run = NoRun
  BY <1>1 DEF Good, DownIsOff
<1>4. LeftToDo(imp) \in BOOLEAN
  BY DEF LeftToDo
<1>5. Steady(imp')
  BY <1>1, <1>2, <1>3, <1>4 DEF Steady, Shaped, OneAtATime, RunIsActive, BusyWhileAsking
<1>6. Going(imp') \subseteq Unfinished(imp)
  BY <1>2 DEF Going, Unfinished
<1>7. Good(imp')
  BY <1>2, <1>5, <1>6 DEF Good, Counted, DownIsOff, GoesOn, LeftToDo
<1>8. Gentle(imp, imp')
  BY <1>1, <1>2, AirsLength DEF Gentle
<1>9. QED BY <1>7, <1>8 DEF Well

\* Every step keeps the invariant and sends gently.
LEMMA EveryStepIsWell ==
    ASSUME ImportsBounds, Good(imp), [ImportsNext]_imp
    PROVE  Well(imp, imp')
<1>1. CASE Step
  BY <1>1, StepIsWell
<1>2. CASE Served \/ Refuses
  BY <1>2, SearchAnsweredIsWell, PageAnsweredIsWell DEF Served, Refuses
<1>3. CASE HourPasses \/ Launch
  BY <1>3, HourPassesIsWell, LaunchIsWell
<1>4. CASE Quit
  BY <1>4, DownIs DEF Quit, Good
<1>5. CASE Listener
  <2>1. ASSUME NEW j \in Jobs, NEW p \in Places(j),
               UseCandidate(j, p) \/ NotThis(j, p) \/ Dismiss(j, p) \/ \E v \in Songs : UseSong(j, p, v)
        PROVE  Well(imp, imp')
    BY <2>1, ChosenIsWell, ReviewIsWell DEF UseCandidate, UseSong
  <2>2. ASSUME NEW j \in Jobs,
               Start(j) \/ Pause(j) \/ Resume(j) \/ Cancel(j) \/ LookForStopped(j) \/ DismissStopped(j)
               \/ DeletePlaylist(j)
        PROVE  Well(imp, imp')
    <3>1. DismissStopped(j) => Well(imp, imp')
      BY ReviewIsWell
    <3>2. DeletePlaylist(j) => Well(imp, imp')
      BY AsideIsWell
    <3>3. QED BY <2>2, <3>1, <3>2, StartIsWell, PauseIsWell, ResumeIsWell, CancelIsWell, LookForStoppedIsWell
  <2>3. CASE Preview
    BY <2>3, AsideIsWell
  <2>4. QED BY <1>5, <2>1, <2>2, <2>3 DEF Listener
<1>6. ASSUME NEW refusal \in BOOLEAN, PreviewAnswered(refusal)
      PROVE  Well(imp, imp')
  BY <1>6, AsideIsWell, PreviewAnsweredIsWell
<1>7. CASE UNCHANGED imp
  BY <1>7, SelfKept, StillWell DEF Good
<1>8. QED BY <1>1, <1>2, <1>3, <1>4, <1>5, <1>6, <1>7 DEF ImportsNext

LEMMA GoodAtFirst ==
    ASSUME ImportsBounds, ImportsInit
    PROVE  Good(imp)
<1>1. imp = Blank
  BY DEF ImportsInit
<1>2. /\ DOMAIN imp = Members /\ imp.up = TRUE /\ imp.inFlight = FALSE /\ imp.timer = FALSE /\ imp.busy = FALSE
      /\ imp.state = [j \in Jobs |-> "none"] /\ imp.left = [j \in Jobs |-> 0] /\ imp.failures = [j \in Jobs |-> 0]
      /\ imp.status = [j \in Jobs |-> [p \in Places(j) |-> "unread"]]
      /\ imp.rest = 0 /\ imp.refusals = 0 /\ imp.asked = 0 /\ imp.owed = 0 /\ imp.turned = 0
      /\ imp.active = 0 /\ imp.run = NoRun /\ imp.air = <<>>
  BY <1>1 DEF Blank, Members
<1>3. imp.state \in [Jobs -> States]
  BY <1>2 DEF States
<1>4. imp.left \in [Jobs -> 0 .. Hours] /\ imp.failures \in [Jobs -> 0 .. Longest] /\ 0 \in 0 .. Longest
      /\ 0 \in 0 .. PerHour
  BY <1>2, HoursAre DEF ImportsBounds
<1>5. DOMAIN imp.status = Jobs /\ \A j \in Jobs : imp.status[j] \in [Places(j) -> Statuses]
  BY <1>2 DEF Statuses
<1>6. imp.air \in Seq(Request) /\ Len(imp.air) = 0 /\ DOMAIN NoRun = {"job", "place", "index", "best"}
  BY <1>2 DEF NoRun
<1>7. Shaped(imp)
  BY <1>2, <1>3, <1>4, <1>5, <1>6 DEF Shaped
<1>8. Going(imp) = {}
  BY <1>2 DEF Going
<1>9. QED BY <1>2, <1>6, <1>7, <1>8
          DEF Good, Steady, OneAtATime, RunIsActive, BusyWhileAsking, Counted, DownIsOff, GoesOn

\* Every state the program can be in is a good one: one request out at most, a run
\* that is the active job's, a clock that rests at least as long as YouTube asked
\* (refusedBy, answered), nothing left of either when the program is down, and
\* something to come for whatever goes on.
THEOREM ImportsStayGood ==
    ASSUME ImportsBounds
    PROVE  ImportsSpec => []Good(imp)
<1>1. ImportsInit => Good(imp)
  BY GoodAtFirst
<1>2. Good(imp) /\ [ImportsNext]_imp => Good(imp)'
  BY EveryStepIsWell DEF Well
<1>3. QED BY <1>1, <1>2, PTL DEF ImportsSpec

\* The members keep their types (playlistimport.h), for any number of imports, rows,
\* hours and searches.
THEOREM ImportsTypes ==
    ASSUME ImportsBounds
    PROVE  ImportsSpec => []ImportsTypeOK
<1>1. Good(imp) => ImportsTypeOK
  BY DEF Good, Steady, Shaped, RunIsActive, ImportsTypeOK, Hours, States, Statuses
<1>2. QED BY <1>1, ImportsStayGood, PTL

\* ImportsGoOn: an import that neither the listener paused nor is over always has a
\* step of the pump or an answer to come (scheduleStep), and the recommender's covers
\* wait while YouTube is asked or rests (step, m_busy).
THEOREM ImportsAlwaysGoOn ==
    ASSUME ImportsBounds
    PROVE  ImportsSpec => []ImportsGoOn
<1>1. Good(imp) => ImportsGoOn
  BY AirsLength DEF Good, GoesOn, Steady, BusyWhileAsking, ImportsGoOn
<1>2. QED BY <1>1, ImportsStayGood, PTL

\* ImportsAreGentle: one request out at a time, none to YouTube during a rest it
\* asked for, none for an import paused or over, through every pause, stop, late
\* answer, preview and restart (step, nextJob, runSearch, refusedBy).
THEOREM ImportsStayGentle ==
    ASSUME ImportsBounds
    PROVE  ImportsSpec => [][ImportsAreGentle]_imp
<1>1. Good(imp) /\ [ImportsNext]_imp => [ImportsAreGentle]_imp
  <2>1. Good(imp) /\ imp.rest = 0 => imp.owed = 0
    BY DEF Good, Counted, Steady, Shaped, ImportsBounds
  <2>2. QED BY <2>1, EveryStepIsWell DEF Well, Gentle, ImportsAreGentle
<1>2. QED BY <1>1, ImportsStayGood, PTL DEF ImportsSpec

-----------------------------------------------------------------------------
(* The playlist's order.                                                    *)

\* The jobs whose songs are searched for.
Sourced == {j \in Jobs : Kinds[j] # "youtube"}

\* One song is that of two rows with others between them.
Spread(found, video) == \E p, q, r, s \in found : video[p] = video[q] /\ p < r /\ r < s /\ s < q
InOrder(list, found, video) ==
    \A i, k \in DOMAIN list : i < k => \E p, q \in found : video[p] = list[i] /\ video[q] = list[k] /\ p < q
\* A playlist holds the songs of the rows found, once each, in the source's order.
Follows(list, found, video) ==
    /\ IsInjective(list)
    /\ \A n \in DOMAIN list : \E p \in found : video[p] = list[n]
    /\ \A p \in found : video[p] \in Range(list)
    /\ Spread(found, video) \/ InOrder(list, found, video)

\* A list with one more song in, found for row `p`.
Into(list, found, video, p, v) ==
    LET earlier == {video[q] : q \in found \cap 1 .. p - 1}
        place == Max({0} \union {n \in DOMAIN list : list[n] \in earlier})
    IN  IF v \in Range(list) THEN list ELSE InsertAt(list, place + 1, v)

\* What a sequence is with one element set in.
LEMMA SetInto ==
    ASSUME NEW list \in Seq(Songs), NEW place \in 0 .. Len(list), NEW v \in Songs
    PROVE  LET new == InsertAt(list, place + 1, v)
           IN  /\ new \in Seq(Songs) /\ DOMAIN new = 1 .. Len(list) + 1
               /\ \A i \in 1 .. place : new[i] = list[i]
               /\ new[place + 1] = v
               /\ \A i \in place + 2 .. Len(list) + 1 : new[i] = list[i - 1]
<1>. DEFINE a == SubSeq(list, 1, place)
            b == SubSeq(list, place + 1, Len(list))
            av == a \o <<v>>
            new == av \o b
<1>0. Len(list) \in Nat /\ place \in Nat /\ place <= Len(list)
  OBVIOUS
<1>1. a \in Seq(Songs) /\ Len(a) = place /\ \A i \in 1 .. place : a[i] = list[i]
  <2>1. \A i \in 1 .. place : list[i] \in Songs
    BY <1>0
  <2>2. /\ a \in Seq(Songs) /\ Len(a) = (IF 1 <= place THEN place - 1 + 1 ELSE 0)
        /\ \A i \in 1 .. place - 1 + 1 : a[i] = list[1 + i - 1]
    BY <1>0, <2>1, SubSeqProperties
  <2>. HIDE DEF a
  <2>3. QED BY <1>0, <2>2
<1>2. b \in Seq(Songs) /\ Len(b) = Len(list) - place /\ \A i \in 1 .. Len(list) - place : b[i] = list[place + i]
  <2>1. \A i \in place + 1 .. Len(list) : list[i] \in Songs
    BY <1>0
  <2>2. /\ b \in Seq(Songs) /\ Len(b) = (IF place + 1 <= Len(list) THEN Len(list) - (place + 1) + 1 ELSE 0)
        /\ \A i \in 1 .. Len(list) - (place + 1) + 1 : b[i] = list[(place + 1) + i - 1]
    BY <1>0, <2>1, SubSeqProperties
  <2>. HIDE DEF b
  <2>3. \A i \in 1 .. Len(list) - place : b[i] = list[place + i]
    <3>. SUFFICES ASSUME NEW i \in 1 .. Len(list) - place PROVE b[i] = list[place + i]
      OBVIOUS
    <3>1. i \in 1 .. Len(list) - (place + 1) + 1 /\ (place + 1) + i - 1 = place + i
      BY <1>0
    <3>2. QED BY <2>2, <3>1
  <2>4. Len(b) = Len(list) - place
    <3>. DEFINE n == Len(list)
    <3>1. n \in Nat /\ place \in Nat /\ place <= n
      BY <1>0
    <3>2. Len(b) = (IF place + 1 <= n THEN n - (place + 1) + 1 ELSE 0)
      BY <2>2
    <3>. HIDE DEF n
    <3>3. Len(b) = n - place
      BY <3>1, <3>2
    <3>4. QED BY <3>3 DEF n
  <2>5. QED BY <2>2, <2>3, <2>4, Zenon
<1>3. <<v>> \in Seq(Songs) /\ Len(<<v>>) = 1 /\ <<v>>[1] = v
  OBVIOUS
<1>4. InsertAt(list, place + 1, v) = new
  <2>1. (place + 1) - 1 = place
    BY <1>0
  <2>2. InsertAt(list, place + 1, v) = SubSeq(list, 1, (place + 1) - 1) \o <<v>> \o SubSeq(list, place + 1, Len(list))
    BY Zenon DEF InsertAt
  <2>3. QED BY <2>1, <2>2, Zenon
<1>. HIDE DEF a, b
<1>5. /\ av \in Seq(Songs) /\ Len(av) = Len(a) + Len(<<v>>)
      /\ \A i \in 1 .. Len(a) + Len(<<v>>) : av[i] = IF i <= Len(a) THEN a[i] ELSE <<v>>[i - Len(a)]
  BY <1>1, <1>3, ConcatProperties, Zenon
<1>. HIDE DEF av
<1>6. /\ new \in Seq(Songs) /\ Len(new) = Len(av) + Len(b)
      /\ \A i \in 1 .. Len(av) + Len(b) : new[i] = IF i <= Len(av) THEN av[i] ELSE b[i - Len(av)]
  <2>1. av \in Seq(Songs)
    BY <1>5
  <2>2. b \in Seq(Songs)
    BY <1>2
  <2>. HIDE DEF new
  <2>3. new = av \o b
    BY DEF new
  <2>4. QED BY <2>1, <2>2, <2>3, ConcatProperties, Zenon
<1>. HIDE DEF new
<1>7. Len(av) = place + 1 /\ Len(new) = Len(list) + 1 /\ DOMAIN new = 1 .. Len(list) + 1
  BY <1>0, <1>1, <1>2, <1>3, <1>5, <1>6
<1>8. \A i \in 1 .. place : new[i] = list[i]
  <2>. SUFFICES ASSUME NEW i \in 1 .. place PROVE new[i] = list[i]
    OBVIOUS
  <2>1. i \in 1 .. Len(av) + Len(b) /\ i <= Len(av) /\ i \in 1 .. Len(a) + Len(<<v>>) /\ i <= Len(a)
    BY <1>0, <1>1, <1>2, <1>3, <1>7
  <2>2. QED BY <1>1, <1>5, <1>6, <2>1
<1>9. new[place + 1] = v
  <2>1. place + 1 \in 1 .. Len(av) + Len(b) /\ place + 1 <= Len(av) /\ place + 1 \in 1 .. Len(a) + Len(<<v>>)
        /\ ~(place + 1 <= Len(a)) /\ (place + 1) - Len(a) = 1
    BY <1>0, <1>1, <1>2, <1>3, <1>7
  <2>2. new[place + 1] = av[place + 1]
    BY <1>6, <2>1
  <2>3. av[place + 1] = <<v>>[(place + 1) - Len(a)]
    BY <1>5, <2>1
  <2>4. QED BY <1>3, <2>1, <2>2, <2>3
<1>10. \A i \in place + 2 .. Len(list) + 1 : new[i] = list[i - 1]
  <2>. SUFFICES ASSUME NEW i \in place + 2 .. Len(list) + 1 PROVE new[i] = list[i - 1]
    OBVIOUS
  <2>1. i \in 1 .. Len(av) + Len(b) /\ ~(i <= Len(av)) /\ i - Len(av) \in 1 .. Len(list) - place
        /\ place + (i - Len(av)) = i - 1
    BY <1>0, <1>2, <1>7
  <2>2. new[i] = b[i - Len(av)]
    BY <1>6, <2>1
  <2>3. b[i - Len(av)] = list[place + (i - Len(av))]
    BY <1>2, <2>1
  <2>4. QED BY <2>1, <2>2, <2>3
<1>11. QED BY <1>4, <1>6, <1>7, <1>8, <1>9, <1>10

\* Max of some bounded numbers is one of them.
LEMMA GreatestIs ==
    ASSUME NEW bound \in Nat, NEW S \in SUBSET (0 .. bound), S # {}
    PROVE  Max(S) \in S /\ \A x \in S : Max(S) >= x
<1>. DEFINE T == {n \in Nat : bound - n \in S}
<1>1. T \in SUBSET Nat /\ T # {}
  <2>1. PICK x \in S : TRUE
    OBVIOUS
  <2>2. bound - x \in Nat /\ bound - (bound - x) = x
    BY <2>1
  <2>3. bound - x \in T
    BY <2>2
  <2>4. QED BY <2>3
<1>2. PICK n \in T : \A k \in T : n <= k
  BY <1>1, LeastNumber
<1>3. bound - n \in S
  OBVIOUS
<1>4. \A x \in S : bound - n >= x
  <2>. SUFFICES ASSUME NEW x \in S PROVE bound - n >= x
    OBVIOUS
  <2>1. bound - x \in Nat /\ bound - (bound - x) = x
    OBVIOUS
  <2>2. bound - x \in T
    BY <2>1
  <2>3. n <= bound - x
    BY <1>2, <2>2
  <2>4. QED BY <1>3, <2>3
<1>. HIDE DEF T
<1>5. \E z \in S : \A x \in S : z >= x
  BY <1>3, <1>4
<1>6. QED BY <1>5, Zenon DEF Max

\* One more song in its place.
LEMMA PlacedFollows ==
    ASSUME NEW list \in Seq(Songs), NEW found \in SUBSET Nat, NEW video, Follows(list, found, video),
           NEW p \in Nat \ found, NEW v \in Songs, DOMAIN video \in SUBSET Nat, found \subseteq DOMAIN video,
           p \in DOMAIN video,
           NEW new, new = Into(list, found, video, p, v)
    PROVE  new \in Seq(Songs) /\ Follows(new, found \cup {p}, [video EXCEPT ![p] = v])
<1>. DEFINE after == [video EXCEPT ![p] = v]
            all == found \cup {p}
            spread == Spread(all, after)
<1>1. after[p] = v /\ \A q \in found : after[q] = video[q]
  OBVIOUS
<1>. HIDE DEF after
<1>2. Spread(found, video) => spread
  BY <1>1 DEF Spread
<1>. HIDE DEF all, spread
<1>1a. found \subseteq all /\ p \in all /\ \A q \in all : q \in found \/ q = p
  BY DEF all
<1>3. CASE v \in Range(list)
  <2>1. new = list
    BY <1>3 DEF Into
  <2>2. \A n \in DOMAIN list : \E q \in all : after[q] = list[n]
    BY <1>1, <1>1a DEF Follows
  <2>3. \A q \in all : after[q] \in Range(list)
    BY <1>1, <1>1a, <1>3 DEF Follows
  <2>4. spread \/ InOrder(list, all, after)
    <3>1. InOrder(list, found, video) => InOrder(list, all, after)
      BY <1>1, <1>1a DEF InOrder
    <3>2. QED BY <1>2, <3>1 DEF Follows
  <2>5. QED BY <2>1, <2>2, <2>3, <2>4 DEF Follows, spread, all, after
<1>4. CASE v \notin Range(list)
  <2>. DEFINE earlier == {video[q] : q \in found \cap 1 .. p - 1}
              behind == {n \in DOMAIN list : list[n] \in earlier}
              place == Max({0} \union behind)
  <2>1. Len(list) \in Nat /\ DOMAIN list = 1 .. Len(list)
    OBVIOUS
  <2>2. place \in {0} \union behind /\ \A n \in behind : place >= n
    <3>1. {0} \union behind \in SUBSET (0 .. Len(list)) /\ {0} \union behind # {}
      BY <2>1
    <3>. HIDE DEF behind
    <3>. DEFINE S == {0} \union behind
    <3>2. Len(list) \in Nat /\ S \in SUBSET (0 .. Len(list)) /\ S # {}
      BY <2>1, <3>1
    <3>3. behind \subseteq S
      OBVIOUS
    <3>. HIDE DEF S
    <3>4. Max(S) \in S /\ \A x \in S : Max(S) >= x
      BY <3>2, GreatestIs, Zenon
    <3>5. place = Max(S)
      BY DEF S
    <3>6. place \in S /\ \A n \in behind : place >= n
      BY <3>3, <3>4, <3>5
    <3>7. QED BY <3>6 DEF S
  <2>3. new = InsertAt(list, place + 1, v)
    BY <1>4 DEF Into
  <2>4. place \in 0 .. Len(list)
    <3>1. behind \subseteq 1 .. Len(list)
      BY <2>1
    <3>. HIDE DEF behind, place
    <3>2. QED BY <2>1, <2>2, <3>1
  <2>. HIDE DEF place
  <2>5. /\ new \in Seq(Songs) /\ DOMAIN new = 1 .. Len(list) + 1
        /\ \A i \in 1 .. place : new[i] = list[i]
        /\ new[place + 1] = v
        /\ \A i \in place + 2 .. Len(list) + 1 : new[i] = list[i - 1]
    <3>. DEFINE ins == InsertAt(list, place + 1, v)
    <3>1. /\ ins \in Seq(Songs) /\ DOMAIN ins = 1 .. Len(list) + 1
          /\ \A i \in 1 .. place : ins[i] = list[i]
          /\ ins[place + 1] = v
          /\ \A i \in place + 2 .. Len(list) + 1 : ins[i] = list[i - 1]
      BY <2>4, SetInto, Zenon
    <3>2. new = ins
      BY <2>3
    <3>. HIDE DEF ins
    <3>3. QED BY <3>1, <3>2, Zenon
  <2>6. \A i \in 1 .. Len(list) + 1 : i \in 1 .. place \/ i = place + 1 \/ i \in place + 2 .. Len(list) + 1
    BY <2>1, <2>4
  <2>7. \A i \in DOMAIN new : i # place + 1 =>
          \E n \in DOMAIN list : new[i] = list[n] /\ n = (IF i <= place THEN i ELSE i - 1)
    <3>. SUFFICES ASSUME NEW i \in DOMAIN new, i # place + 1
                  PROVE  \E n \in DOMAIN list : new[i] = list[n] /\ n = (IF i <= place THEN i ELSE i - 1)
      OBVIOUS
    <3>0. i \in 1 .. Len(list) + 1 /\ i \in Nat /\ place \in Nat /\ Len(list) \in Nat /\ place <= Len(list)
      BY <2>1, <2>4, <2>5
    <3>1. CASE i <= place
      <4>1. i \in 1 .. place /\ i \in DOMAIN list
        BY <2>1, <3>0, <3>1
      <4>2. new[i] = list[i] /\ i = (IF i <= place THEN i ELSE i - 1)
        BY <2>5, <3>1, <4>1
      <4>3. QED BY <4>1, <4>2
    <3>2. CASE ~(i <= place)
      <4>1. i \in place + 2 .. Len(list) + 1 /\ i - 1 \in 1 .. Len(list)
        BY <3>0, <3>2
      <4>2. i - 1 \in DOMAIN list
        BY <2>1, <4>1
      <4>3. new[i] = list[i - 1] /\ i - 1 = (IF i <= place THEN i ELSE i - 1)
        BY <2>5, <3>2, <4>1
      <4>4. QED BY <4>2, <4>3
    <3>3. QED BY <3>1, <3>2
  <2>8. \A n \in DOMAIN list : list[n] # v
    BY <1>4 DEF Range
  <2>9. IsInjective(new)
    <3>. SUFFICES ASSUME NEW i \in DOMAIN new, NEW k \in DOMAIN new, new[i] = new[k]
                  PROVE  i = k
      BY DEF IsInjective
    <3>1. CASE i = place + 1 \/ k = place + 1
      BY <2>5, <2>7, <2>8, <3>1
    <3>2. CASE i # place + 1 /\ k # place + 1
      <4>1. PICK a \in DOMAIN list : new[i] = list[a] /\ a = (IF i <= place THEN i ELSE i - 1)
        BY <2>7, <3>2
      <4>2. PICK b \in DOMAIN list : new[k] = list[b] /\ b = (IF k <= place THEN k ELSE k - 1)
        BY <2>7, <3>2
      <4>3. a = b
        BY <4>1, <4>2 DEF Follows, IsInjective
      <4>4. i \in Nat /\ k \in Nat /\ place \in Nat
        BY <2>4, <2>5
      <4>5. QED BY <3>2, <4>1, <4>2, <4>3, <4>4
    <3>3. QED BY <3>1, <3>2
  <2>10. \A n \in DOMAIN new : \E q \in all : after[q] = new[n]
    <3>. SUFFICES ASSUME NEW n \in DOMAIN new PROVE \E q \in all : after[q] = new[n]
      OBVIOUS
    <3>1. CASE n = place + 1
      BY <1>1, <1>1a, <2>5, <3>1
    <3>2. CASE n # place + 1
      <4>1. PICK x \in DOMAIN list : new[n] = list[x]
        BY <2>7, <3>2
      <4>2. PICK q \in found : video[q] = list[x]
        BY DEF Follows
      <4>3. QED BY <1>1, <1>1a, <4>1, <4>2
    <3>3. QED BY <3>1, <3>2
  <2>11. \A n \in DOMAIN list : \E i \in DOMAIN new : new[i] = list[n]
    <3>. SUFFICES ASSUME NEW n \in DOMAIN list PROVE \E i \in DOMAIN new : new[i] = list[n]
      OBVIOUS
    <3>1. CASE n <= place
      <4>1. n \in 1 .. place /\ n \in DOMAIN new
        BY <2>1, <2>4, <2>5, <3>1
      <4>2. QED BY <2>5, <4>1
    <3>2. CASE ~(n <= place)
      <4>1. n + 1 \in place + 2 .. Len(list) + 1 /\ n + 1 \in DOMAIN new /\ (n + 1) - 1 = n
        BY <2>1, <2>4, <2>5, <3>2
      <4>2. QED BY <2>5, <4>1
    <3>3. QED BY <3>1, <3>2
  <2>12. \A q \in all : after[q] \in Range(new)
    <3>1. v \in Range(new)
      <4>1. place + 1 \in DOMAIN new
        BY <2>1, <2>4, <2>5
      <4>2. QED BY <2>5, <4>1 DEF Range
    <3>2. Range(list) \subseteq Range(new)
      BY <2>11 DEF Range
    <3>3. QED BY <1>1, <1>1a, <3>1, <3>2 DEF Follows
  <2>13. ASSUME ~spread, NEW i \in DOMAIN new, NEW k \in DOMAIN new, i < k
         PROVE  \E a, b \in all : after[a] = new[i] /\ after[b] = new[k] /\ a < b
    <3>0. \A x, y \in DOMAIN list : x < y =>
             \E a, b \in found : video[a] = list[x] /\ video[b] = list[y] /\ a < b
      BY <1>2, <2>13 DEF Follows, InOrder
    <3>00. i \in Nat /\ k \in Nat /\ place \in Nat
      BY <2>4, <2>5
    <3>1. CASE i # place + 1 /\ k # place + 1
      <4>1. PICK x \in DOMAIN list : new[i] = list[x] /\ x = (IF i <= place THEN i ELSE i - 1)
        BY <2>7, <3>1
      <4>2. PICK y \in DOMAIN list : new[k] = list[y] /\ y = (IF k <= place THEN k ELSE k - 1)
        BY <2>7, <3>1
      <4>3. x < y
        BY <2>13, <3>00, <3>1, <4>1, <4>2
      <4>4. PICK a \in found, b \in found : video[a] = list[x] /\ video[b] = list[y] /\ a < b
        BY <3>0, <4>3
      <4>5. after[a] = new[i] /\ after[b] = new[k]
        BY <1>1, <4>1, <4>2, <4>4
      <4>6. QED BY <1>1a, <4>4, <4>5, Zenon
    <3>2. CASE i = place + 1
      <4>1. PICK y \in DOMAIN list : new[k] = list[y] /\ y = (IF k <= place THEN k ELSE k - 1)
        <5>1. k # place + 1
          BY <2>13, <3>00, <3>2
        <5>2. QED BY <2>7, <5>1
      <4>2. y > place
        BY <2>13, <3>00, <3>2, <4>1
      <4>3. y \notin behind
        BY <2>1, <2>2, <3>00, <4>2
      <4>4. PICK b \in found : video[b] = list[y]
        BY DEF Follows
      <4>5. ~(b \in 1 .. p - 1)
        BY <4>3, <4>4
      <4>6. b # p
        BY <4>4
      <4>7. b > p
        BY <4>5, <4>6
      <4>8. QED BY <1>1, <1>1a, <2>5, <3>2, <4>1, <4>4, <4>7
    <3>3. CASE k = place + 1
      <4>1. i \in 1 .. place /\ i \in DOMAIN list /\ new[i] = list[i] /\ place \in behind
        BY <2>1, <2>2, <2>4, <2>5, <2>13, <3>00, <3>3
      <4>2. PICK w \in found \cap 1 .. p - 1 : video[w] = list[place]
        BY <4>1
      <4>3. w < p
        BY <4>2
      <4>4. CASE i = place
        <5>1. after[w] = new[i] /\ after[p] = new[k]
          BY <1>1, <2>5, <3>3, <4>1, <4>2, <4>4
        <5>2. QED BY <1>1a, <4>2, <4>3, <5>1
      <4>5. CASE i # place
        <5>1. i < place
          BY <2>4, <4>1, <4>5
        <5>2. PICK a \in found, b \in found : video[a] = list[i] /\ video[b] = list[place] /\ a < b
          BY <3>0, <4>1, <5>1
        <5>3. CASE a < p
          BY <1>1, <1>1a, <2>5, <3>3, <4>1, <5>2, <5>3
        <5>4. CASE ~(a < p)
          <6>1. p < a
            BY <5>4
          <6>2. after[w] = after[b] /\ w \in all /\ b \in all /\ p \in all /\ a \in all
            BY <1>1, <1>1a, <4>2, <5>2
          <6>3. Spread(all, after)
            BY <4>3, <5>2, <6>1, <6>2 DEF Spread
          <6>4. QED BY <2>13, <6>3 DEF spread
        <5>5. QED BY <5>3, <5>4
      <4>6. QED BY <4>4, <4>5
    <3>4. QED BY <3>1, <3>2, <3>3
  <2>14. spread \/ InOrder(new, all, after)
    BY <2>13, Zenon DEF InOrder
  <2>15. QED BY <2>5, <2>9, <2>10, <2>12, <2>14 DEF Follows, spread, all, after
<1>5. v \in Range(list) \/ v \notin Range(list)
  OBVIOUS
<1>6. QED BY <1>3, <1>4, <1>5, Zenon

-----------------------------------------------------------------------------

\* Every source lists songs.
SourcesListSongs == /\ ImportsBounds /\ \A j \in Jobs : Lists[j] \in Seq(Songs)

\* An import's playlist, while it is there.
Listed(m, j) ==
    /\ m.list[j] \in Seq(Songs) /\ DOMAIN m.video[j] = Places(j)
    /\ j \notin m.gone => Follows(m.list[j], Rows(m, j, {"found"}), m.video[j])

\* What is searched for is still to be found.
Waits(m) ==
    /\ DOMAIN m.run = DOMAIN NoRun
    /\ m.run # NoRun => m.run.job \in Sourced /\ m.run.place \in Rows(m, m.run.job, {"pending"})

\* The members the order goes by are what they are.
Framed(m) ==
    /\ DOMAIN m = Members /\ DOMAIN m.list = Jobs /\ DOMAIN m.video = Jobs /\ DOMAIN m.status = Jobs
    /\ \A j \in Jobs : DOMAIN m.status[j] = Places(j)
    /\ m.known \in [Songs -> Songs \cup {None}]

\* The invariant of the order.
Ordered(m) == Framed(m) /\ Waits(m) /\ \A j \in Sourced : Listed(m, j)

\* What finds no song and forgets none.
Alike(m, r) ==
    /\ DOMAIN r = Members /\ r.list = m.list /\ r.video = m.video /\ r.known = m.known /\ r.gone = m.gone
    /\ DOMAIN r.status = Jobs
    /\ \A j \in Jobs : DOMAIN r.status[j] = Places(j) /\ Rows(r, j, {"found"}) = Rows(m, j, {"found"})
    /\ \/ r.run = NoRun
       \/ /\ m.run # NoRun /\ DOMAIN r.run = DOMAIN NoRun
          /\ r.run.job = m.run.job /\ r.run.place = m.run.place
          /\ Rows(m, m.run.job, {"pending"}) \subseteq Rows(r, m.run.job, {"pending"})

LEMMA AlikeIs ==
    ASSUME NEW m, Ordered(m), NEW r, Alike(m, r)
    PROVE  Ordered(r)
<1>1. Framed(r)
  BY DEF Ordered, Framed, Alike
<1>2. Waits(r)
  BY DEF Ordered, Waits, Alike
<1>3. \A j \in Sourced : Listed(r, j)
  BY DEF Ordered, Listed, Alike, Sourced
<1>4. QED BY <1>1, <1>2, <1>3 DEF Ordered

\* What touches no row and no playlist.
Plain(m, r) ==
    /\ DOMAIN r = Members /\ r.list = m.list /\ r.video = m.video /\ r.known = m.known /\ r.gone = m.gone
    /\ r.status = m.status /\ r.run \in {m.run, NoRun}

LEMMA PlainIs ==
    ASSUME NEW m, Ordered(m), NEW r, Plain(m, r)
    PROVE  Ordered(r)
<1>1. \A j, which : Rows(r, j, which) = Rows(m, j, which)
  BY DEF Plain, Rows
<1>2. Alike(m, r)
  BY <1>1 DEF Ordered, Framed, Waits, Plain, Alike, Sourced
<1>3. QED BY <1>2, AlikeIs

LEMMA PlainAre ==
    ASSUME NEW m, Ordered(m)
    PROVE  /\ Plain(m, Scheduled(m)) /\ Plain(m, Refused(m)) /\ Plain(m, Answered(m)) /\ Plain(m, Dropped(m))
           /\ Plain(m, Down(m))
           /\ \A refusal \in BOOLEAN : Plain(m, Says(m, refusal))
           /\ \A n : Plain(m, Taken(m, n))
           /\ \A what, j : Plain(m, Asks(m, what, j))
           /\ \A j, youtube : Plain(m, Failed(m, j, youtube))
<1>1. DOMAIN m = Members
  BY DEF Ordered, Framed
<1>2. /\ Plain(m, Scheduled(m)) /\ Plain(m, Refused(m)) /\ Plain(m, Answered(m)) /\ Plain(m, Dropped(m))
      /\ Plain(m, Down(m))
  BY <1>1 DEF Plain, Scheduled, Refused, Answered, Dropped, Down, Members
<1>3. \A refusal \in BOOLEAN : Plain(m, Says(m, refusal))
  BY <1>1 DEF Plain, Says, Members
<1>4. \A n : Plain(m, Taken(m, n))
  BY <1>1 DEF Plain, Taken, Members
<1>5. \A what, j : Plain(m, Asks(m, what, j))
  BY <1>1 DEF Plain, Asks, Members
<1>6. \A j, youtube : Plain(m, Failed(m, j, youtube))
  BY <1>1 DEF Plain, Failed, Refused, Members
<1>7. QED BY <1>2, <1>3, <1>4, <1>5, <1>6

LEMMA PlainAreOrdered ==
    ASSUME NEW m, Ordered(m)
    PROVE  /\ Ordered(Scheduled(m)) /\ Ordered(Refused(m)) /\ Ordered(Answered(m)) /\ Ordered(Dropped(m))
           /\ Ordered(Down(m))
           /\ \A refusal \in BOOLEAN : Ordered(Says(m, refusal))
           /\ \A n : Ordered(Taken(m, n))
           /\ \A what, j : Ordered(Asks(m, what, j))
           /\ \A j, youtube : Ordered(Failed(m, j, youtube))
BY PlainAre, PlainIs, Zenon

\* An import's rows put down anew: what was found is found still, and what is
\* searched for still waits.
LEMMA RowsPutDown ==
    ASSUME NEW m, Ordered(m), NEW j \in Jobs, NEW row, DOMAIN row = Places(j),
           \A p \in Places(j) : row[p] = "found" <=> m.status[j][p] = "found",
           m.run # NoRun /\ m.run.job = j => row[m.run.place] = "pending",
           NEW r, DOMAIN r = Members, r.list = m.list, r.video = m.video, r.known = m.known, r.gone = m.gone,
           r.run = m.run, r.status = [m.status EXCEPT ![j] = row]
    PROVE  Ordered(r)
<1>1. Framed(m) /\ Waits(m)
  BY DEF Ordered
<1>2. \A i \in Jobs : r.status[i] = IF i = j THEN row ELSE m.status[i]
  BY <1>1 DEF Framed
<1>3. Framed(r)
  BY <1>1, <1>2 DEF Framed
<1>4. \A i \in Jobs : Rows(r, i, {"found"}) = Rows(m, i, {"found"})
  BY <1>2 DEF Rows
<1>5. Waits(r)
  <2>1. SUFFICES ASSUME m.run # NoRun PROVE m.run.place \in Rows(r, m.run.job, {"pending"})
    BY <1>1 DEF Waits
  <2>2. m.run.job \in Jobs /\ m.run.place \in Rows(m, m.run.job, {"pending"})
    BY <1>1, <2>1 DEF Waits, Sourced
  <2>3. r.status[m.run.job][m.run.place] = "pending" /\ m.run.place \in Places(m.run.job)
    BY <1>2, <2>1, <2>2 DEF Rows
  <2>4. QED BY <2>3 DEF Rows
<1>6. \A i \in Sourced : Listed(r, i)
  BY <1>4 DEF Ordered, Listed, Sourced
<1>7. QED BY <1>3, <1>5, <1>6 DEF Ordered

\* A job over: what was found stays in its playlist (finishJob).
LEMMA FinishedIsOrdered ==
    ASSUME NEW m, Ordered(m), NEW j \in Jobs, NEW state
    PROVE  Ordered(Finished(m, j, state))
<1>. DEFINE d == IF m.active = j THEN Dropped(m) ELSE m
            f == Finished(m, j, state)
            row == StatusOver(m, j, state)
            off == [d EXCEPT !.run = IF @.job = j THEN NoRun ELSE @]
<1>1. Ordered(d) /\ d.status = m.status
  BY PlainAreOrdered, PlainAre DEF Plain
<1>2. f = [d EXCEPT !.state[j] = state, !.left[j] = 0, !.run = IF @.job = j THEN NoRun ELSE @,
                    !.status[j] = [p \in Places(j) |-> IF state = "cancelled" /\ @[p] = "pending" THEN "stopped" ELSE @[p]]]
  BY DEF Finished
<1>. HIDE DEF d, f
<1>3. DOMAIN d = Members /\ DOMAIN d.status = Jobs
  BY <1>1 DEF Ordered, Framed
<1>4. /\ DOMAIN f = Members /\ f.list = d.list /\ f.video = d.video /\ f.known = d.known /\ f.gone = d.gone
      /\ f.run = (IF d.run.job = j THEN NoRun ELSE d.run)
      /\ f.status = [d.status EXCEPT ![j] = row]
  BY <1>1, <1>2, <1>3 DEF Members, StatusOver
<1>5. /\ DOMAIN off = Members /\ off.list = d.list /\ off.video = d.video /\ off.known = d.known
      /\ off.gone = d.gone /\ off.status = d.status /\ off.run = (IF d.run.job = j THEN NoRun ELSE d.run)
  BY <1>3 DEF Members
<1>. HIDE DEF off
<1>6. Ordered(off)
  BY <1>1, <1>5, PlainIs DEF Plain
<1>7. /\ DOMAIN row = Places(j)
      /\ \A p \in Places(j) : row[p] = "found" <=> off.status[j][p] = "found"
  BY <1>1, <1>5 DEF StatusOver
<1>8. off.run = NoRun \/ off.run.job # j
  BY <1>5
<1>. HIDE DEF row
<1>9. Ordered(f)
  BY <1>4, <1>5, <1>6, <1>7, <1>8, RowsPutDown
<1>10. QED BY <1>9 DEF f

\* A row found no song for (settle).
LEMMA SettledIsOrdered ==
    ASSUME NEW m, Ordered(m), NEW j \in Jobs, NEW p \in Places(j), NEW status, status # "found",
           m.status[j][p] # "found", m.run # NoRun /\ m.run.job = j => m.run.place # p
    PROVE  Ordered(Settled(m, j, p, status))
<1>. DEFINE row == [m.status[j] EXCEPT ![p] = status]
            r == Settled(m, j, p, status)
<1>1. DOMAIN m = Members /\ DOMAIN m.status = Jobs /\ DOMAIN m.status[j] = Places(j)
  BY DEF Ordered, Framed
<1>2. /\ DOMAIN r = Members /\ r.list = m.list /\ r.video = m.video /\ r.known = m.known /\ r.gone = m.gone
      /\ r.run = m.run /\ r.status = [m.status EXCEPT ![j] = row]
  BY <1>1 DEF Settled, Members
<1>3. /\ DOMAIN row = Places(j)
      /\ \A q \in Places(j) : row[q] = IF q = p THEN status ELSE m.status[j][q]
  BY <1>1
<1>4. m.run # NoRun /\ m.run.job = j => row[m.run.place] = "pending"
  <2>1. SUFFICES ASSUME m.run # NoRun, m.run.job = j PROVE row[m.run.place] = "pending"
    OBVIOUS
  <2>2. m.run.place \in Rows(m, j, {"pending"})
    BY <2>1 DEF Ordered, Waits
  <2>3. m.run.place \in Places(j) /\ m.status[j][m.run.place] = "pending" /\ m.run.place # p
    BY <2>1, <2>2 DEF Rows
  <2>4. QED BY <1>3, <2>3
<1>. HIDE DEF row, r
<1>5. Ordered(r)
  BY <1>2, <1>3, <1>4, RowsPutDown
<1>6. QED BY <1>5 DEF r

LEMMA InsertedIsOrdered ==
    ASSUME NEW m, Ordered(m), NEW j \in Jobs, NEW places
    PROVE  Ordered(Inserted(m, j, places))
<1>. DEFINE row == [p \in Places(j) |-> IF p \in places /\ m.status[j][p] = "unread" THEN "pending" ELSE m.status[j][p]]
            r == Inserted(m, j, places)
<1>1. DOMAIN m = Members /\ DOMAIN m.status = Jobs /\ DOMAIN m.status[j] = Places(j)
  BY DEF Ordered, Framed
<1>2. /\ DOMAIN r = Members /\ r.list = m.list /\ r.video = m.video /\ r.known = m.known /\ r.gone = m.gone
      /\ r.run = m.run /\ r.status = [m.status EXCEPT ![j] = row]
  BY <1>1 DEF Inserted, Members
<1>3. /\ DOMAIN row = Places(j)
      /\ \A p \in Places(j) : row[p] = "found" <=> m.status[j][p] = "found"
  OBVIOUS
<1>4. m.run # NoRun /\ m.run.job = j => row[m.run.place] = "pending"
  BY DEF Ordered, Waits, Rows
<1>. HIDE DEF row, r
<1>5. Ordered(r)
  BY <1>2, <1>3, <1>4, RowsPutDown
<1>6. QED BY <1>5 DEF r

\* A match remembered (remember).
LEMMA RememberedIsOrdered ==
    ASSUME NEW m, Ordered(m), NEW j, NEW p, NEW v \in Songs
    PROVE  Ordered(Remembered(m, j, p, v))
<1>. DEFINE r == Remembered(m, j, p, v)
<1>1. DOMAIN m = Members
  BY DEF Ordered, Framed
<1>2. /\ DOMAIN r = Members /\ r.list = m.list /\ r.video = m.video /\ r.gone = m.gone
      /\ r.run = m.run /\ r.status = m.status /\ r.known = [m.known EXCEPT ![Lists[j][p]] = v]
  BY <1>1 DEF Remembered, Members
<1>. HIDE DEF r
<1>3. Framed(r)
  BY <1>2 DEF Ordered, Framed
<1>4. \A i, which : Rows(r, i, which) = Rows(m, i, which)
  BY <1>2 DEF Rows
<1>5. Waits(r) /\ \A i \in Sourced : Listed(r, i)
  BY <1>2, <1>4 DEF Ordered, Waits, Listed
<1>6. QED BY <1>3, <1>5 DEF Ordered, r

\* A song found goes in where the source has it.
LEMMA FoundIsOrdered ==
    ASSUME SourcesListSongs, NEW m, Ordered(m), NEW j \in Jobs, NEW p \in Places(j), NEW v \in Songs,
           m.status[j][p] # "found", m.run # NoRun /\ m.run.job = j => m.run.place # p
    PROVE  Ordered(Found(m, j, p, v))
<1>1. CASE j \in m.gone
  BY <1>1, FinishedIsOrdered DEF Found
<1>2. CASE j \notin m.gone
  <2>. DEFINE r == Found(m, j, p, v)
              list == Placed(m, j, p, v)
              video == [m.video[j] EXCEPT ![p] = v]
              row == [m.status[j] EXCEPT ![p] = "found"]
              found == Rows(m, j, {"found"})
  <2>1. DOMAIN m = Members /\ DOMAIN m.status = Jobs /\ DOMAIN m.status[j] = Places(j)
        /\ DOMAIN m.list = Jobs /\ DOMAIN m.video = Jobs
    BY DEF Ordered, Framed
  <2>2. r = [m EXCEPT !.list[j] = list, !.status[j][p] = "found", !.video[j][p] = v]
    BY <1>2 DEF Found
  <2>. HIDE DEF list, r
  <2>3. /\ DOMAIN r = Members /\ r.known = m.known /\ r.gone = m.gone /\ r.run = m.run
        /\ r.list = [m.list EXCEPT ![j] = list] /\ r.status = [m.status EXCEPT ![j] = row]
        /\ r.video = [m.video EXCEPT ![j] = video]
    BY <2>1, <2>2 DEF Members
  <2>4. /\ DOMAIN row = Places(j) /\ \A q \in Places(j) : row[q] = IF q = p THEN "found" ELSE m.status[j][q]
    BY <2>1
  <2>5. Framed(r)
    BY <2>1, <2>3, <2>4 DEF Ordered, Framed
  <2>6. Waits(r)
    <3>1. SUFFICES ASSUME m.run # NoRun PROVE m.run.place \in Rows(r, m.run.job, {"pending"})
      BY <2>3 DEF Ordered, Waits
    <3>2. m.run.job \in Jobs /\ m.run.place \in Rows(m, m.run.job, {"pending"})
      BY <3>1 DEF Ordered, Waits, Sourced
    <3>3. r.status[m.run.job][m.run.place] = "pending" /\ m.run.place \in Places(m.run.job)
      BY <2>1, <2>3, <2>4, <3>1, <3>2 DEF Rows
    <3>4. QED BY <3>3 DEF Rows
  <2>7. ASSUME NEW i \in Sourced, i # j
        PROVE  Listed(r, i)
    <3>1. r.status[i] = m.status[i] /\ r.list[i] = m.list[i] /\ r.video[i] = m.video[i]
      BY <2>1, <2>3, <2>7 DEF Sourced
    <3>2. Rows(r, i, {"found"}) = Rows(m, i, {"found"})
      BY <3>1 DEF Rows
    <3>3. Listed(m, i)
      BY DEF Ordered
    <3>4. QED BY <2>3, <3>1, <3>2, <3>3 DEF Listed
  <2>8. j \in Sourced => Listed(r, j)
    <3>. SUFFICES ASSUME j \in Sourced PROVE Listed(r, j)
      OBVIOUS
    <3>1. r.status[j] = row /\ r.list[j] = list /\ r.video[j] = video
      BY <2>1, <2>3
    <3>2. Rows(r, j, {"found"}) = found \cup {p} /\ p \notin found /\ found \subseteq Places(j)
      BY <2>4, <3>1 DEF Rows
    <3>3. Listed(m, j)
      BY DEF Ordered
    <3>4. /\ m.list[j] \in Seq(Songs) /\ DOMAIN m.video[j] = Places(j)
          /\ Follows(m.list[j], found, m.video[j])
      BY <1>2, <3>3 DEF Listed
    <3>5. Places(j) \subseteq Nat
      BY DEF SourcesListSongs, Places
    <3>6. list = Into(m.list[j], found, m.video[j], p, v)
      BY DEF list, Placed, Into
    <3>. HIDE DEF found
    <3>7. /\ found \in SUBSET Nat /\ p \in Nat \ found /\ DOMAIN m.video[j] \in SUBSET Nat
          /\ found \subseteq DOMAIN m.video[j] /\ p \in DOMAIN m.video[j]
      BY <3>2, <3>4, <3>5
    <3>8. list \in Seq(Songs) /\ Follows(list, found \cup {p}, video)
      <4>. DEFINE l == m.list[j]
                  w == m.video[j]
      <4>1. /\ l \in Seq(Songs) /\ found \in SUBSET Nat /\ Follows(l, found, w) /\ p \in Nat \ found
            /\ DOMAIN w \in SUBSET Nat /\ found \subseteq DOMAIN w /\ p \in DOMAIN w
            /\ list = Into(l, found, w, p, v)
        BY <3>4, <3>6, <3>7
      <4>2. video = [w EXCEPT ![p] = v]
        OBVIOUS
      <4>. HIDE DEF l, w, video
      <4>3. list \in Seq(Songs) /\ Follows(list, found \cup {p}, [w EXCEPT ![p] = v])
        BY <4>1, PlacedFollows
      <4>4. QED BY <4>2, <4>3
    <3>9. DOMAIN video = Places(j)
      BY <3>4
    <3>. HIDE DEF video
    <3>10. QED BY <3>1, <3>2, <3>8, <3>9 DEF Listed
  <2>9. Ordered(r)
    BY <2>5, <2>6, <2>7, <2>8 DEF Ordered
  <2>10. QED BY <2>9 DEF r
<1>3. QED BY <1>1, <1>2

\* A YouTube list's songs go into its own playlist alone.
LEMMA FromSourceIsOrdered ==
    ASSUME NEW m, Ordered(m), NEW j \in Jobs
    PROVE  Ordered(FromSource(m, j))
<1>. DEFINE mine == Rows(m, j, {"pending"})
            songs == [n \in DOMAIN SetToSortSeq(mine, <) |-> Lists[j][SetToSortSeq(mine, <)[n]]]
            list == FoldLeft(Appended, m.list[j], songs)
            video == [p \in Places(j) |-> IF p \in mine THEN Lists[j][p] ELSE m.video[j][p]]
            row == [p \in Places(j) |-> IF p \in mine THEN "found" ELSE m.status[j][p]]
            r == FromSource(m, j)
<1>1. CASE Kinds[j] # "youtube" \/ mine = {}
  BY <1>1 DEF FromSource
<1>2. CASE ~(Kinds[j] # "youtube" \/ mine = {}) /\ j \in m.gone
  BY <1>2, FinishedIsOrdered DEF FromSource
<1>3. CASE ~(Kinds[j] # "youtube" \/ mine = {}) /\ j \notin m.gone
  <2>1. DOMAIN m = Members /\ DOMAIN m.status = Jobs /\ DOMAIN m.list = Jobs /\ DOMAIN m.video = Jobs
    BY DEF Ordered, Framed
  <2>2. r = [m EXCEPT !.list[j] = FoldLeft(Appended, @, songs),
                      !.status[j] = [p \in Places(j) |-> IF p \in mine THEN "found" ELSE @[p]],
                      !.video[j] = [p \in Places(j) |-> IF p \in mine THEN Lists[j][p] ELSE @[p]]]
    BY <1>3 DEF FromSource
  <2>. HIDE DEF songs, mine, r
  <2>3. /\ DOMAIN r = Members /\ r.known = m.known /\ r.gone = m.gone /\ r.run = m.run
        /\ r.list = [m.list EXCEPT ![j] = list] /\ r.status = [m.status EXCEPT ![j] = row]
        /\ r.video = [m.video EXCEPT ![j] = video]
    BY <2>1, <2>2 DEF Members
  <2>4. DOMAIN row = Places(j)
    OBVIOUS
  <2>. HIDE DEF list, video, row
  <2>5. Framed(r)
    BY <2>1, <2>3, <2>4 DEF Ordered, Framed
  <2>6. j \notin Sourced
    BY <1>3 DEF Sourced
  <2>7. \A i \in Sourced : r.status[i] = m.status[i] /\ r.list[i] = m.list[i] /\ r.video[i] = m.video[i]
    BY <2>1, <2>3, <2>6 DEF Sourced
  <2>8. \A i \in Sourced : \A which : Rows(r, i, which) = Rows(m, i, which)
    BY <2>7 DEF Rows
  <2>9. Waits(r) /\ \A i \in Sourced : Listed(r, i)
    BY <2>3, <2>7, <2>8 DEF Ordered, Waits, Listed
  <2>10. QED BY <2>5, <2>9 DEF Ordered, r
<1>4. QED BY <1>1, <1>2, <1>3

\* The search of one song over (conclude).
LEMMA ConcludedIsOrdered ==
    ASSUME SourcesListSongs, NEW m, Ordered(m), m.run # NoRun
    PROVE  Ordered(Concluded(m))
<1>. DEFINE j == m.run.job
            p == m.run.place
            v == Lists[j][p]
            r == [m EXCEPT !.run = NoRun]
            best == m.run.best
            status == IF best = "check" THEN "check" ELSE "notfound"
<1>1. Plain(m, r) /\ r.run = NoRun
  BY DEF Ordered, Framed, Plain, Members
<1>2. Concluded(m) = Scheduled(IF best = "sure" THEN Remembered(Found(r, j, p, v), j, p, v)
                               ELSE Settled(r, j, p, status))
  BY DEF Concluded
<1>3. j \in Jobs /\ p \in Places(j) /\ m.status[j][p] = "pending"
  BY DEF Ordered, Waits, Sourced, Rows
<1>4. v \in Songs
  BY <1>3 DEF SourcesListSongs, Places
<1>. HIDE DEF j, p, v, r, best
<1>5. Ordered(r) /\ r.status[j][p] # "found"
  BY <1>1, <1>3, PlainIs DEF Plain
<1>6. Ordered(Remembered(Found(r, j, p, v), j, p, v))
  BY <1>1, <1>3, <1>4, <1>5, FoundIsOrdered, RememberedIsOrdered
<1>7. status # "found"
  OBVIOUS
<1>. HIDE DEF status
<1>8. Ordered(Settled(r, j, p, status))
  BY <1>1, <1>3, <1>5, <1>7, SettledIsOrdered
<1>9. QED BY <1>2, <1>6, <1>8, PlainAreOrdered

LEMMA SearchRunIsOrdered ==
    ASSUME NEW m, Ordered(m)
    PROVE  Ordered(SearchRun(m))
<1>. DEFINE j == m.run.job
            r == [m EXCEPT !.run = NoRun]
            x == [r EXCEPT !.state[j] = "resting", !.left[j] = 1]
            a == [m EXCEPT !.asked = @ + 1]
<1>1. SearchRun(m) = IF m.state[j] # "running" \/ m.rest > 0 THEN Scheduled(r)
                     ELSE IF m.asked >= PerHour THEN Scheduled(x) ELSE Asks(a, "search", j)
  BY DEF SearchRun
<1>2. Plain(m, r) /\ Plain(m, x) /\ Plain(m, a)
  BY DEF Ordered, Framed, Plain, Members
<1>. HIDE DEF r, x, a
<1>3. Ordered(r) /\ Ordered(x) /\ Ordered(a)
  BY <1>2, PlainIs
<1>4. QED BY <1>1, <1>3, PlainAreOrdered

\* The next song sought (findNext): the first row that is pending.
LEMMA SoughtIsOrdered ==
    ASSUME SourcesListSongs, NEW m, Ordered(m), m.run = NoRun, NEW j \in Jobs
    PROVE  Ordered(Sought(m, j))
<1>. DEFINE mine == Rows(m, j, {"pending"})
            p == Min(mine)
            song == Lists[j][p]
            sought == [NoRun EXCEPT !.job = j, !.place = p]
            s == [m EXCEPT !.run = sought]
<1>1. Sought(m, j) =
        IF mine = {} THEN Scheduled(Finished(m, j, "done"))
        ELSE IF Kinds[j] = "youtube" THEN Scheduled(FromSource(m, j))
        ELSE IF song \in Owned THEN Scheduled(Found(m, j, p, song))
        ELSE IF m.known[song] \notin {None} \union Rejected(m, song) THEN Scheduled(Found(m, j, p, m.known[song]))
        ELSE SearchRun(s)
  BY DEF Sought
<1>2. Ordered(Scheduled(Finished(m, j, "done"))) /\ Ordered(Scheduled(FromSource(m, j)))
  BY FinishedIsOrdered, FromSourceIsOrdered, PlainAreOrdered
<1>3. CASE mine = {} \/ Kinds[j] = "youtube"
  BY <1>1, <1>2, <1>3
<1>4. CASE mine # {} /\ Kinds[j] # "youtube"
  <2>1. p \in Places(j) /\ m.status[j][p] = "pending"
    <3>1. mine \in SUBSET Nat
      BY DEF Rows, SourcesListSongs, Places
    <3>2. p \in mine
      BY <1>4, <3>1, LeastIs
    <3>3. QED BY <3>2 DEF Rows
  <2>2. song \in Songs
    BY <2>1 DEF SourcesListSongs, Places
  <2>3. m.known[song] \notin {None} => m.known[song] \in Songs
    BY <2>2 DEF Ordered, Framed
  <2>4. Ordered(s)
    <3>1. /\ DOMAIN s = Members /\ s.list = m.list /\ s.video = m.video /\ s.known = m.known /\ s.gone = m.gone
          /\ s.status = m.status /\ s.run = sought
      BY DEF Ordered, Framed, Members
    <3>2. DOMAIN sought = DOMAIN NoRun /\ sought.job = j /\ sought.place = p
      BY DEF NoRun
    <3>. HIDE DEF s, sought, p
    <3>3. Framed(s)
      BY <3>1 DEF Ordered, Framed
    <3>4. Waits(s)
      BY <1>4, <2>1, <3>1, <3>2 DEF Waits, Rows, Sourced
    <3>5. \A i \in Sourced : Listed(s, i)
      BY <3>1 DEF Ordered, Listed, Rows
    <3>6. QED BY <3>3, <3>4, <3>5 DEF Ordered
  <2>. HIDE DEF s, p, song
  <2>5. Ordered(Found(m, j, p, song))
    BY <2>1, <2>2, FoundIsOrdered
  <2>6. m.known[song] \notin {None} => Ordered(Found(m, j, p, m.known[song]))
    BY <2>1, <2>3, FoundIsOrdered
  <2>7. QED BY <1>1, <1>4, <2>4, <2>5, <2>6, PlainAreOrdered, SearchRunIsOrdered
<1>5. QED BY <1>3, <1>4

LEMMA WorkedOnIsOrdered ==
    ASSUME SourcesListSongs, NEW m, Ordered(m), m.run = NoRun, NEW j \in Jobs
    PROVE  Ordered(WorkedOn(m, j))
<1>. DEFINE r == [m EXCEPT !.state[j] = "running", !.left[j] = 0, !.active = j, !.busy = TRUE]
<1>1. WorkedOn(m, j) = IF j \in m.gone THEN Scheduled(Finished(r, j, "cancelled"))
                       ELSE IF AllRead(m, j) THEN Sought(r, j) ELSE Asks(r, "page", j)
  BY DEF WorkedOn
<1>2. Plain(m, r)
  BY DEF Ordered, Framed, Plain, Members
<1>. HIDE DEF r
<1>3. Ordered(r) /\ r.run = NoRun
  BY <1>2, PlainIs DEF Plain
<1>4. QED BY <1>1, <1>3, FinishedIsOrdered, SoughtIsOrdered, PlainAreOrdered

LEMMA PumpedIsOrdered ==
    ASSUME SourcesListSongs, NEW m, Ordered(m), m.run = NoRun
    PROVE  Ordered(Pumped(m))
<1>. DEFINE j == Min(Going(m))
            own == IF m.state[j] = "running" THEN 0 ELSE m.left[j]
            idle == [m EXCEPT !.active = 0]
            off == [idle EXCEPT !.busy = FALSE]
            wait == Scheduled([idle EXCEPT !.busy = TRUE])
            long == [wait EXCEPT !.state[j] = "resting", !.left[j] = m.rest]
<1>1. Pumped(m) =
        IF Going(m) = {} THEN IF m.rest > 0 THEN wait ELSE off
        ELSE IF m.rest > own THEN long ELSE IF own > 0 THEN wait ELSE WorkedOn(m, j)
  BY DEF Pumped
<1>2. Plain(m, off) /\ Plain(m, wait) /\ Plain(m, long)
  BY DEF Ordered, Framed, Plain, Members, Scheduled
<1>3. Going(m) # {} => j \in Jobs
  <2>1. Going(m) \in SUBSET Nat /\ Going(m) \subseteq Jobs
    BY DEF Going, SourcesListSongs, ImportsBounds
  <2>2. QED BY <2>1, LeastIs
<1>. HIDE DEF off, wait, long, j, own
<1>4. Ordered(off) /\ Ordered(wait) /\ Ordered(long)
  BY <1>2, PlainIs
<1>5. QED BY <1>1, <1>3, <1>4, WorkedOnIsOrdered

LEMMA StepIsOrdered ==
    ASSUME SourcesListSongs, Ordered(imp), Step
    PROVE  Ordered(imp')
<1>. DEFINE m == [imp EXCEPT !.timer = FALSE]
<1>1. imp' = IF m.inFlight THEN m ELSE IF m.run # NoRun THEN SearchRun(m) ELSE Pumped(m)
  BY DEF Step
<1>2. Plain(imp, m)
  BY DEF Ordered, Framed, Plain, Members
<1>. HIDE DEF m
<1>3. Ordered(m)
  BY <1>2, PlainIs
<1>4. QED BY <1>1, <1>3, SearchRunIsOrdered, PumpedIsOrdered

\* A search answered: the run is still of the same row.
LEMMA SearchedIsOrdered ==
    ASSUME SourcesListSongs, NEW m, Ordered(m), m.run # NoRun, NEW said
    PROVE  Ordered(Searched(m, said))
<1>. DEFINE j == m.run.job
            off == [m EXCEPT !.run = NoRun]
            a == Answered(m)
            once == [a EXCEPT !.failures[j] = 0]
            best == IF said = "sure" \/ m.run.best = "none" THEN said ELSE m.run.best
            r == [once EXCEPT !.run.index = @ + 1, !.run.best = best]
<1>1. Searched(m, said) = IF said = "refusal" THEN Scheduled(Failed(off, j, TRUE))
                          ELSE IF best = "sure" \/ r.run.index >= MaxAsked THEN Concluded(r) ELSE Scheduled(r)
  BY DEF Searched
<1>2. Plain(m, off)
  BY DEF Ordered, Framed, Plain, Members
<1>3. /\ DOMAIN r = Members /\ r.list = m.list /\ r.video = m.video /\ r.known = m.known /\ r.gone = m.gone
      /\ r.status = m.status /\ r.run = [m.run EXCEPT !.index = @ + 1, !.best = best]
  BY DEF Ordered, Framed, Members, Answered
<1>4. /\ r.run.job = m.run.job /\ r.run.place = m.run.place /\ DOMAIN r.run = DOMAIN NoRun
  <2>1. DOMAIN m.run = {"job", "place", "index", "best"} /\ DOMAIN NoRun = {"job", "place", "index", "best"}
    BY DEF Ordered, Waits, NoRun
  <2>. HIDE DEF r, best
  <2>2. QED BY <1>3, <2>1
<1>5. r.run # NoRun
  <2>1. m.run.job # 0
    BY DEF Ordered, Waits, Sourced, SourcesListSongs, ImportsBounds
  <2>2. NoRun.job = 0
    BY DEF NoRun
  <2>. HIDE DEF r
  <2>3. QED BY <1>4, <2>1, <2>2
<1>. HIDE DEF off, r, j, best
<1>6. Alike(m, r)
  <2>1. \A i, which : Rows(r, i, which) = Rows(m, i, which)
    BY <1>3 DEF Rows
  <2>2. QED BY <1>3, <1>4, <2>1 DEF Ordered, Framed, Alike
<1>7. Ordered(off) /\ Ordered(r)
  BY <1>2, <1>6, PlainIs, AlikeIs
<1>8. QED BY <1>1, <1>5, <1>7, PlainAreOrdered, ConcludedIsOrdered

LEMMA SearchAnsweredIsOrdered ==
    ASSUME SourcesListSongs, Ordered(imp), NEW n, NEW said, SearchAnswered(n, said)
    PROVE  Ordered(imp')
<1>. DEFINE refusal == said = "refusal"
            m == Says(Taken(imp, n), refusal)
            once == imp.air[n].live /\ m.run # NoRun
<1>1. imp' = IF once THEN Searched(m, said) ELSE Overheard(m, refusal)
  BY DEF SearchAnswered
<1>2. refusal \in BOOLEAN
  OBVIOUS
<1>. HIDE DEF refusal
<1>3. Ordered(m)
  BY <1>2, PlainAreOrdered
<1>4. once => m.run # NoRun
  OBVIOUS
<1>. HIDE DEF m, once
<1>5. Ordered(Overheard(m, refusal))
  BY <1>3, PlainAreOrdered DEF Overheard
<1>6. QED BY <1>1, <1>3, <1>4, <1>5, SearchedIsOrdered

\* A page kept, wherever the program ends.
LEMMA ReadIsOrdered ==
    ASSUME NEW m, Ordered(m), NEW j \in Jobs, NEW upTo \in {"rows", "job", "added", "all"}
    PROVE  Ordered(Read(m, j, upTo))
<1>. DEFINE p == m.read[j] + 1
            mine == Inserted(m, j, {p})
            kept == [mine EXCEPT !.read[j] = p, !.failures[j] = 0]
            from == FromSource(kept, j)
            added == [kept EXCEPT !.list[j] = from.list[j]]
<1>1. Read(m, j, "rows") = mine /\ Read(m, j, "job") = kept /\ Read(m, j, "added") = added
      /\ Read(m, j, "all") = Scheduled(from)
  BY DEF Read
<1>2. Ordered(mine)
  BY InsertedIsOrdered
<1>. HIDE DEF mine, p
<1>3. Plain(mine, kept)
  BY <1>2 DEF Ordered, Framed, Plain, Members
<1>. HIDE DEF kept
<1>4. Ordered(kept)
  BY <1>2, <1>3, PlainIs
<1>5. Ordered(from)
  BY <1>4, FromSourceIsOrdered
<1>6. Ordered(added)
  <2>1. DOMAIN kept = Members /\ DOMAIN kept.list = Jobs /\ DOMAIN from.list = Jobs
    BY <1>4, <1>5 DEF Ordered, Framed
  <2>2. Kinds[j] # "youtube" => from.list[j] = kept.list[j]
    BY DEF FromSource
  <2>. HIDE DEF from
  <2>3. /\ DOMAIN added = Members /\ added.video = kept.video /\ added.known = kept.known
        /\ added.gone = kept.gone /\ added.status = kept.status /\ added.run = kept.run
        /\ added.list = [kept.list EXCEPT ![j] = from.list[j]]
    BY <2>1 DEF Members
  <2>. HIDE DEF added
  <2>4. \A i \in Sourced : added.list[i] = kept.list[i]
    BY <2>1, <2>2, <2>3 DEF Sourced
  <2>5. \A i, which : Rows(added, i, which) = Rows(kept, i, which)
    BY <2>3 DEF Rows
  <2>6. Framed(added)
    BY <1>4, <2>1, <2>3 DEF Ordered, Framed
  <2>7. Waits(added) /\ \A i \in Sourced : Listed(added, i)
    BY <1>4, <2>3, <2>4, <2>5 DEF Ordered, Waits, Listed
  <2>8. QED BY <2>6, <2>7 DEF Ordered
<1>. HIDE DEF from, added
<1>7. QED BY <1>1, <1>2, <1>4, <1>5, <1>6, PlainAreOrdered

LEMMA PageAnsweredIsOrdered ==
    ASSUME SourcesListSongs, Ordered(imp), NEW n, imp.air[n].job \in Jobs, NEW said, PageAnswered(n, said)
    PROVE  Ordered(imp')
<1>. DEFINE j == imp.air[n].job
            youtube == Kinds[j] = "youtube"
            refusal == said = "refusal"
            t == Taken(imp, n)
            m == IF youtube THEN Says(t, refusal) ELSE t
            once == IF youtube THEN Answered(m) ELSE m
            cut == [m EXCEPT !.cut[j] = TRUE]
<1>1. \/ imp' = Scheduled(IF youtube /\ refusal THEN Refused(m) ELSE m)
      \/ imp' = Scheduled(Failed(m, j, youtube))
      \/ imp' = Scheduled(cut)
      \/ imp' = Read(once, j, "all")
      \/ \E upTo \in {"rows", "job", "added"} : imp' = Down(Read(once, j, upTo))
  BY DEF PageAnswered
<1>2. refusal \in BOOLEAN
  OBVIOUS
<1>. HIDE DEF refusal, j, youtube
<1>3. Ordered(t)
  BY PlainAreOrdered
<1>4. Ordered(m)
  BY <1>2, <1>3, PlainAreOrdered
<1>. HIDE DEF t, m
<1>5. Ordered(once) /\ Ordered(Refused(m)) /\ Ordered(Failed(m, j, youtube))
  BY <1>4, PlainAreOrdered
<1>6. Plain(m, cut)
  BY <1>4 DEF Ordered, Framed, Plain, Members
<1>. HIDE DEF once, cut
<1>7. Ordered(cut)
  BY <1>4, <1>6, PlainIs
<1>8. \A upTo \in {"rows", "job", "added", "all"} : Ordered(Read(once, j, upTo))
  BY <1>5, ReadIsOrdered DEF j
<1>9. QED BY <1>1, <1>4, <1>5, <1>7, <1>8, PlainAreOrdered

LEMMA LookForStoppedIsOrdered ==
    ASSUME Ordered(imp), NEW j \in Jobs, LookForStopped(j) \/ DismissStopped(j)
    PROVE  Ordered(imp')
<1>1. /\ DOMAIN imp = Members /\ DOMAIN imp.status = Jobs
  BY DEF Ordered, Framed
<1>2. ASSUME NEW word \in {"pending", "dismissed"}, NEW r,
             DOMAIN r = Members, r.list = imp.list, r.video = imp.video, r.known = imp.known,
             r.gone = imp.gone, r.run = imp.run,
             r.status = [imp.status EXCEPT ![j] = [p \in Places(j) |-> IF imp.status[j][p] = "stopped" THEN word
                                                                         ELSE imp.status[j][p]]]
      PROVE  Ordered(r)
  <2>. DEFINE row == [p \in Places(j) |-> IF imp.status[j][p] = "stopped" THEN word ELSE imp.status[j][p]]
  <2>1. /\ DOMAIN row = Places(j)
        /\ \A p \in Places(j) : row[p] = "found" <=> imp.status[j][p] = "found"
    OBVIOUS
  <2>2. imp.run # NoRun /\ imp.run.job = j => row[imp.run.place] = "pending"
    BY DEF Ordered, Waits, Rows
  <2>3. r.status = [imp.status EXCEPT ![j] = row]
    BY <1>2
  <2>. HIDE DEF row
  <2>4. QED BY <1>2, <2>1, <2>2, <2>3, RowsPutDown
<1>3. CASE DismissStopped(j)
  <2>1. DOMAIN imp' = Members /\ imp'.list = imp.list /\ imp'.video = imp.video /\ imp'.known = imp.known
        /\ imp'.gone = imp.gone /\ imp'.run = imp.run
        /\ imp'.status = [imp.status EXCEPT ![j] = [p \in Places(j) |-> IF imp.status[j][p] = "stopped"
                                                                          THEN "dismissed" ELSE imp.status[j][p]]]
    BY <1>1, <1>3 DEF DismissStopped, Members
  <2>2. QED BY <1>2, <2>1
<1>4. CASE LookForStopped(j)
  <2>. DEFINE row == [p \in Places(j) |-> IF imp.status[j][p] = "stopped" THEN "pending" ELSE imp.status[j][p]]
              read == IF Kinds[j] = "youtube" /\ ~AllRead(imp, j) THEN 0 ELSE imp.read[j]
              a == [imp EXCEPT !.status[j] = row, !.read[j] = read,
                               !.state[j] = "running", !.left[j] = 0, !.failures[j] = 0, !.busy = TRUE]
  <2>1. imp' = Scheduled(FromSource(a, j))
    BY <1>1, <1>4 DEF LookForStopped, Members
  <2>2. DOMAIN a = Members /\ a.list = imp.list /\ a.video = imp.video /\ a.known = imp.known
        /\ a.gone = imp.gone /\ a.run = imp.run /\ a.status = [imp.status EXCEPT ![j] = row]
    BY <1>1 DEF Members
  <2>. HIDE DEF a
  <2>3. Ordered(a)
    BY <1>2, <2>2
  <2>4. QED BY <2>1, <2>3, FromSourceIsOrdered, PlainAreOrdered
<1>5. QED BY <1>3, <1>4

\* A song chosen in the review (useCandidate, useSong).
LEMMA ChosenIsOrdered ==
    ASSUME SourcesListSongs, Ordered(imp), NEW j \in Jobs, NEW p \in Places(j), NEW v \in Songs, Chosen(j, p, v),
           imp.status[j][p] \in {"check", "notfound", "stopped"}
    PROVE  Ordered(imp')
<1>1. imp' = Remembered(Found(imp, j, p, v), j, p, v)
  BY DEF Chosen
<1>2. imp.run # NoRun /\ imp.run.job = j => imp.run.place # p
  BY DEF Ordered, Waits, Rows
<1>3. Ordered(Found(imp, j, p, v))
  BY <1>2, FoundIsOrdered
<1>4. QED BY <1>1, <1>3, RememberedIsOrdered

\* A match turned down (notThis, dismiss).
LEMMA TurnedDownIsOrdered ==
    ASSUME Ordered(imp), NEW j \in Jobs, NEW p \in Places(j), NotThis(j, p) \/ Dismiss(j, p)
    PROVE  Ordered(imp')
<1>1. \A word \in {"notfound", "dismissed"} : Ordered(Settled(imp, j, p, word))
  <2>1. imp.status[j][p] \notin {"found", "pending"}
    BY DEF NotThis, Dismiss
  <2>2. imp.run # NoRun /\ imp.run.job = j => imp.run.place # p
    BY <2>1 DEF Ordered, Waits, Rows
  <2>3. QED BY <2>1, <2>2, SettledIsOrdered
<1>2. CASE Dismiss(j, p)
  BY <1>1, <1>2 DEF Dismiss
<1>3. CASE NotThis(j, p)
  <2>. DEFINE song == Lists[j][p]
              a == Settled(imp, j, p, "notfound")
  <2>1. imp' = [a EXCEPT !.rejected = @ \union {song}, !.known[song] = IF @ = song THEN None ELSE @]
    BY <1>3 DEF NotThis
  <2>2. Ordered(a)
    BY <1>1
  <2>. HIDE DEF a
  <2>3. /\ DOMAIN imp' = Members /\ imp'.list = a.list /\ imp'.video = a.video /\ imp'.gone = a.gone
        /\ imp'.run = a.run /\ imp'.status = a.status
        /\ imp'.known = [a.known EXCEPT ![song] = IF a.known[song] = song THEN None ELSE a.known[song]]
    BY <2>1, <2>2 DEF Ordered, Framed, Members
  <2>4. Framed(imp')
    BY <2>2, <2>3 DEF Ordered, Framed
  <2>5. \A i, which : Rows(imp', i, which) = Rows(a, i, which)
    BY <2>3 DEF Rows
  <2>6. Waits(imp') /\ \A i \in Sourced : Listed(imp', i)
    BY <2>2, <2>3, <2>5 DEF Ordered, Waits, Listed
  <2>7. QED BY <2>4, <2>6 DEF Ordered
<1>4. QED BY <1>2, <1>3

LEMMA DeletePlaylistIsOrdered ==
    ASSUME Ordered(imp), NEW j \in Jobs, DeletePlaylist(j)
    PROVE  Ordered(imp')
<1>1. /\ DOMAIN imp' = Members /\ imp'.video = imp.video /\ imp'.known = imp.known
      /\ imp'.run = imp.run /\ imp'.status = imp.status
      /\ imp'.gone = imp.gone \cup {j} /\ imp'.list = [imp.list EXCEPT ![j] = <<>>]
  BY DEF Ordered, Framed, DeletePlaylist, Members
<1>2. Framed(imp')
  BY <1>1 DEF Ordered, Framed
<1>3. \A i, which : Rows(imp', i, which) = Rows(imp, i, which)
  BY <1>1 DEF Rows
<1>4. ASSUME NEW i \in Sourced
      PROVE  Listed(imp', i)
  <2>1. Listed(imp, i)
    BY DEF Ordered
  <2>2. CASE i = j
    BY <1>1, <2>1, <2>2 DEF Ordered, Framed, Listed
  <2>3. CASE i # j
    <3>1. imp'.list[i] = imp.list[i]
      BY <1>1, <2>3 DEF Ordered, Framed
    <3>2. QED BY <1>1, <1>3, <2>1, <2>3, <3>1 DEF Listed
  <2>4. QED BY <2>2, <2>3
<1>5. Waits(imp')
  BY <1>1, <1>3 DEF Ordered, Waits
<1>6. QED BY <1>2, <1>4, <1>5 DEF Ordered

\* Starts, pauses, resumes, stops, hours, launches and previews.
LEMMA RestIsOrdered ==
    ASSUME Ordered(imp),
           \/ \E j \in Jobs : Start(j) \/ Pause(j) \/ Resume(j) \/ Cancel(j)
           \/ Preview \/ HourPasses \/ Quit \/ Launch
           \/ \E refusal \in BOOLEAN : PreviewAnswered(refusal)
           \/ UNCHANGED imp
    PROVE  Ordered(imp')
<1>0. DOMAIN imp = Members
  BY DEF Ordered, Framed
<1>1. ASSUME NEW j \in Jobs, Start(j)
      PROVE  Ordered(imp')
  <2>. DEFINE first == IF Kinds[j] = "list" THEN Places(j) ELSE {1}
              a == [imp EXCEPT !.state[j] = "running", !.read[j] = Max(first), !.preview = "none", !.busy = TRUE]
  <2>1. imp' = Scheduled(FromSource(Inserted(a, j, first), j))
    BY <1>1 DEF Start
  <2>. HIDE DEF first
  <2>2. Plain(imp, a)
    BY <1>0 DEF Plain, Members
  <2>. HIDE DEF a
  <2>3. Ordered(a)
    BY <2>2, PlainIs
  <2>4. QED BY <2>1, <2>3, InsertedIsOrdered, FromSourceIsOrdered, PlainAreOrdered
<1>2. ASSUME NEW j \in Jobs, Pause(j)
      PROVE  Ordered(imp')
  <2>. DEFINE m == IF imp.active = j THEN Dropped(imp) ELSE imp
              a == [m EXCEPT !.state[j] = "paused", !.left[j] = 0]
  <2>1. imp' = Scheduled(a)
    BY <1>2 DEF Pause
  <2>2. Ordered(m)
    BY PlainAreOrdered
  <2>. HIDE DEF m
  <2>3. Plain(m, a)
    BY <2>2 DEF Ordered, Framed, Plain, Members
  <2>. HIDE DEF a
  <2>4. QED BY <2>1, <2>2, <2>3, PlainIs, PlainAreOrdered
<1>3. ASSUME NEW j \in Jobs, Resume(j)
      PROVE  Ordered(imp')
  <2>. DEFINE a == [imp EXCEPT !.state[j] = "running", !.left[j] = 0, !.failures[j] = 0, !.busy = TRUE]
  <2>1. imp' = Scheduled(a)
    BY <1>3 DEF Resume
  <2>2. Plain(imp, a)
    BY <1>0 DEF Plain, Members
  <2>. HIDE DEF a
  <2>3. QED BY <2>1, <2>2, PlainIs, PlainAreOrdered
<1>4. ASSUME NEW j \in Jobs, Cancel(j)
      PROVE  Ordered(imp')
  BY <1>4, FinishedIsOrdered, PlainAreOrdered DEF Cancel
<1>5. CASE Preview \/ HourPasses \/ Launch
  <2>1. Plain(imp, imp')
    BY <1>0, <1>5 DEF Plain, Preview, HourPasses, Launch, Members
  <2>2. QED BY <2>1, PlainIs
<1>6. CASE Quit
  BY <1>6, PlainAreOrdered DEF Quit
<1>7. ASSUME NEW refusal \in BOOLEAN, PreviewAnswered(refusal)
      PROVE  Ordered(imp')
  <2>. DEFINE none == [imp EXCEPT !.preview = "none"]
              ready == [imp EXCEPT !.preview = "ready"]
  <2>1. imp' = IF refusal THEN none ELSE Says(Answered(ready), FALSE)
    BY <1>7 DEF PreviewAnswered
  <2>2. Plain(imp, none) /\ Plain(imp, ready)
    BY <1>0 DEF Plain, Members
  <2>. HIDE DEF none, ready
  <2>3. Ordered(none) /\ Ordered(ready)
    BY <2>2, PlainIs
  <2>4. Ordered(Says(Answered(ready), FALSE))
    BY <2>3, PlainAreOrdered
  <2>5. QED BY <2>1, <2>3, <2>4
<1>8. QED BY <1>1, <1>2, <1>3, <1>4, <1>5, <1>6, <1>7

\* Every step keeps the order.
LEMMA EveryStepIsOrdered ==
    ASSUME SourcesListSongs, Steady(imp), Ordered(imp), [ImportsNext]_imp
    PROVE  Ordered(imp')
<1>1. CASE Step
  BY <1>1, StepIsOrdered
<1>2. CASE Served \/ Refuses
  <2>1. PICK n \in DOMAIN imp.air : (\E said : SearchAnswered(n, said)) \/ (\E said : PageAnswered(n, said))
    BY <1>2 DEF Served, Refuses
  <2>2. imp.air[n].job \in Jobs
    <3>1. imp.air[n] \in Request
      BY ElementOfSeq DEF Steady, Shaped
    <3>2. QED BY <3>1 DEF Request
  <2>3. QED BY <2>1, <2>2, SearchAnsweredIsOrdered, PageAnsweredIsOrdered
<1>3. CASE Listener
  <2>1. ASSUME NEW j \in Jobs, NEW p \in Places(j),
               UseCandidate(j, p) \/ NotThis(j, p) \/ Dismiss(j, p) \/ \E v \in Songs : UseSong(j, p, v)
        PROVE  Ordered(imp')
    <3>1. Lists[j][p] \in Songs
      BY DEF SourcesListSongs, Places
    <3>2. QED BY <2>1, <3>1, ChosenIsOrdered, TurnedDownIsOrdered DEF UseCandidate, UseSong
  <2>2. QED BY <1>3, <2>1, RestIsOrdered, LookForStoppedIsOrdered, DeletePlaylistIsOrdered DEF Listener
<1>4. CASE ~(Step \/ Served \/ Refuses \/ Listener)
  BY <1>4, RestIsOrdered DEF ImportsNext
<1>5. QED BY <1>1, <1>2, <1>3, <1>4

LEMMA OrderedAtFirst ==
    ASSUME SourcesListSongs, ImportsInit
    PROVE  Ordered(imp)
<1>1. imp = Blank
  BY DEF ImportsInit
<1>2. /\ DOMAIN imp = Members /\ imp.status = [j \in Jobs |-> [p \in Places(j) |-> "unread"]]
      /\ imp.video = [j \in Jobs |-> [p \in Places(j) |-> None]] /\ imp.list = [j \in Jobs |-> <<>>]
      /\ imp.known = [s \in Songs |-> None] /\ imp.run = NoRun
  BY <1>1 DEF Blank, Members
<1>3. \A j \in Jobs : Rows(imp, j, {"found"}) = {}
  BY <1>2 DEF Rows
<1>4. ASSUME NEW j \in Sourced
      PROVE  Listed(imp, j)
  <2>1. imp.list[j] = <<>> /\ DOMAIN imp.video[j] = Places(j) /\ Rows(imp, j, {"found"}) = {}
    BY <1>2, <1>3 DEF Sourced
  <2>2. Follows(<<>>, {}, imp.video[j])
    BY DEF Follows, IsInjective, InOrder
  <2>3. <<>> \in Seq(Songs)
    OBVIOUS
  <2>4. imp.list[j] \in Seq(Songs) /\ Follows(imp.list[j], Rows(imp, j, {"found"}), imp.video[j])
    BY <2>1, <2>2, <2>3
  <2>5. QED BY <2>1, <2>4, Zenon DEF Listed
<1>5. QED BY <1>2, <1>4 DEF Ordered, Framed, Waits

\* PlaylistFollowsTheSource of the imports whose songs are searched for, of any number
\* of rows and however they were found, chosen, stopped, looked for again or cut by
\* the program's end: each song found is in the playlist once and behind those the
\* source has before it (addAt), unless one song is that of two rows with others
\* between them.
THEOREM ImportsFollowTheirSources ==
    ASSUME SourcesListSongs
    PROVE  ImportsSpec => [](\A j \in Sourced \ imp.gone : FollowsTheSource(imp, j))
<1>1. ImportsInit => Ordered(imp)
  BY OrderedAtFirst
<1>2. Good(imp) /\ Ordered(imp) /\ [ImportsNext]_imp => Ordered(imp)'
  BY EveryStepIsOrdered DEF Good
<1>3. Ordered(imp) => \A j \in Sourced \ imp.gone : FollowsTheSource(imp, j)
  <2>. SUFFICES ASSUME Ordered(imp), NEW j \in Sourced \ imp.gone PROVE FollowsTheSource(imp, j)
    OBVIOUS
  <2>1. Follows(imp.list[j], Rows(imp, j, {"found"}), imp.video[j])
    BY DEF Ordered, Listed
  <2>2. QED BY <2>1 DEF Follows, FollowsTheSource, Spread, InOrder
<1>4. ImportsBounds
  BY DEF SourcesListSongs
<1>5. QED BY <1>1, <1>2, <1>3, <1>4, ImportsStayGood, PTL DEF ImportsSpec
=============================================================================
