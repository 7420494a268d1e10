----------------------------- MODULE Scrobbler -----------------------------
(***************************************************************************)
(* Last.fm (scrobbler.cpp, with lastfm.cpp's reading of an answer): each   *)
(* listen that counts is a row of scrobble_queue, and rows leave when      *)
(* Last.fm has answered for them.  Requests overtake nothing, but are lost,*)
(* are answered after the session they were sent under is over, and outlive*)
(* the program.  Last.fm itself is modelled as far as its answers go.      *)
(***************************************************************************)
EXTENDS Integers, FiniteSets

CONSTANTS
    Users,         \* accounts at Last.fm
    NoUser,
    Invalid,       \* rows Last.fm refuses with 6, with the batch they are in
    MaxBatch,      \* LastFmApi::kMaxBatch
    MaxQueued,     \* kMaxQueued
    MaxHeard,      \* bound: listens that count
    MaxAir,        \* bound: requests on their way
    SignInCuts     \* may the program die halfway through finishConnecting

ASSUME ScrobblerAssumption ==
    /\ NoUser \notin Users
    /\ MaxBatch \in Nat \ {0}
    /\ MaxQueued \in Nat \ {0}
    /\ MaxHeard \in Nat
    /\ MaxAir \in Nat \ {0}
    /\ SignInCuts \in BOOLEAN

VARIABLES
    heard,     \* the last row's id
    rows,      \* scrobble_queue
    saved,     \* lastfm.user and lastfm.enabled, and SecretStore's lastfm.session
    app,       \* the Scrobbler's members
    air,       \* the track.scrobble requests not yet answered
    lastfm     \* sessions revoked there, and the rows it has answered for, by account

vars == <<heard, rows, saved, app, air, lastfm>>

\* A key is the account it opens.  A request is live while its generation is
\* m_sendGeneration; `held` is m_pausedUntil, still to come; `timer` is
\* m_flushTimer, or the flush posted behind an answer.  The pauses Last.fm asks
\* for (RateLimit, DailyLimit, Hold), which only time ends, are one.
CanSend(a) == a.enabled /\ a.state = "Connected" /\ a.key # NoUser

Recording(a) == a.enabled /\ a.user # NoUser

RowsOf(user) == {r \in rows : r.account = user}

\* The n rows of lowest id; the n of highest.
Oldest(set, n) == {r \in set : Cardinality({o \in set : o.id < r.id}) < n}
Newest(set, n) == {r \in set : Cardinality({o \in set : o.id > r.id}) < n}

Without(set, ids) == {r \in set : r.id \notin ids}

Ids(set) == {r.id : r \in set}

\* ++m_sendGeneration: an answer still to come is nobody's.
Disowned == {[q EXCEPT !.live = FALSE] : q \in {r \in air : r.reply = ""}}

-----------------------------------------------------------------------------

\* start(): where things stood.  What the store keeps may not open any more
\* ("Corrupt"), or the store itself not just now ("Error").
Reads == {"Ok", "Corrupt", "Error"}

Started(store, read) ==
    [state   |-> IF store.user = NoUser THEN "Off"
                 ELSE IF read = "Error" THEN "Error"
                 ELSE IF read = "Corrupt" \/ store.key = NoUser THEN "Expired"
                 ELSE "Connected",
     user    |-> store.user,
     key     |-> IF read = "Ok" /\ store.user # NoUser THEN store.key ELSE NoUser,
     enabled |-> store.enabled,
     inFlight |-> FALSE, timer |-> TRUE, pause |-> "None", held |-> FALSE,
     singles |-> {}, token |-> FALSE, disconnectFailed |-> FALSE]

Init ==
    /\ heard = 0
    /\ rows = {}
    /\ saved = [user |-> NoUser, key |-> NoUser, enabled |-> TRUE]
    /\ app = Started(saved, "Ok")
    /\ air = {}
    /\ lastfm = [revoked |-> {}, answered |-> {}]

Restart(read) ==
    /\ app' = Started(saved, read)
    /\ air' = Disowned
    /\ UNCHANGED <<heard, rows, saved, lastfm>>

-----------------------------------------------------------------------------
(* Listening. *)

\* (slip: the queue never trimmed)
KeptAll(set) == set

Kept(set) == Newest(set, MaxQueued)

\* enqueue
ListenQualified ==
    /\ heard < MaxHeard
    /\ Recording(app)
    /\ heard' = heard + 1
    /\ rows' = Kept(rows \cup {[id |-> heard + 1, account |-> app.user]})
    /\ app' = [app EXCEPT !.timer = TRUE]
    /\ UNCHANGED <<saved, air, lastfm>>

-----------------------------------------------------------------------------
(* Signing in and out.  The page's button offers each where it can be asked. *)

ConnectAccount ==
    /\ app.state \in {"Off", "Expired", "Error"} /\ ~app.disconnectFailed
    /\ app' = [app EXCEPT !.state = "Waiting", !.token = FALSE]
    /\ UNCHANGED <<heard, rows, saved, air, lastfm>>

TokenArrived ==
    /\ app.state = "Waiting" /\ ~app.token
    /\ app' = [app EXCEPT !.token = TRUE]
    /\ UNCHANGED <<heard, rows, saved, air, lastfm>>

\* No token, no session, or no room in the store for its key.
FailConnecting ==
    /\ app.state = "Waiting"
    /\ app' = [app EXCEPT !.state = "Error", !.token = FALSE, !.disconnectFailed = FALSE]
    /\ UNCHANGED <<heard, rows, saved, air, lastfm>>

\* (slip: what waits goes with the next listen)
SignedIn(a, user) ==
    [a EXCEPT !.state = "Connected", !.user = user, !.key = user, !.token = FALSE,
              !.inFlight = FALSE, !.pause = "None", !.held = FALSE, !.singles = {}]

Connected(a, user) == [SignedIn(a, user) EXCEPT !.timer = TRUE]

\* sessionAnswered with a key, and finishConnecting: first the store, then the
\* settings; cut, the program dies between the two and is started again.
FinishConnecting(user, cut) ==
    /\ app.state = "Waiting" /\ app.token
    /\ saved' = [saved EXCEPT !.key = user, !.user = IF cut THEN @ ELSE user]
    /\ app' = IF cut THEN Started(saved', "Ok") ELSE Connected(app, user)
    /\ air' = Disowned
    /\ lastfm' = [lastfm EXCEPT !.revoked = @ \ {user}]
    /\ UNCHANGED <<heard, rows>>

\* cancelConnect, to restingState
CancelConnect ==
    /\ app.state = "Waiting"
    /\ app' = [app EXCEPT !.token = FALSE,
                          !.state = IF app.user = NoUser THEN "Off"
                                    ELSE IF app.key = NoUser THEN "Expired" ELSE "Connected"]
    /\ UNCHANGED <<heard, rows, saved, air, lastfm>>

DisconnectAccount ==
    /\ app.state \in {"Connected", "Expired", "Error"} /\ app.user # NoUser
    /\ saved' = [saved EXCEPT !.key = NoUser, !.user = NoUser]
    /\ app' = [app EXCEPT !.state = "Off", !.user = NoUser, !.key = NoUser,
                          !.inFlight = FALSE, !.timer = FALSE, !.pause = "None",
                          !.held = FALSE, !.singles = {}, !.disconnectFailed = FALSE]
    /\ air' = Disowned
    /\ UNCHANGED <<heard, rows, lastfm>>

\* disconnectAccount, the store not letting go of the key
DisconnectFails ==
    /\ app.state \in {"Connected", "Expired", "Error"} /\ app.user # NoUser
    /\ app' = [app EXCEPT !.state = "Error", !.disconnectFailed = TRUE]
    /\ UNCHANGED <<heard, rows, saved, air, lastfm>>

\* setEnabled
SetEnabled ==
    /\ app.state \in {"Connected", "Expired"}
    /\ saved' = [saved EXCEPT !.enabled = ~@]
    /\ app' = [app EXCEPT !.enabled = ~@, !.timer = @ \/ ~app.enabled]
    /\ UNCHANGED <<heard, rows, air, lastfm>>

\* At last.fm/settings/applications, for the session kept.
Revoke(user) ==
    /\ saved.key = user
    /\ lastfm' = [lastfm EXCEPT !.revoked = @ \cup {user}]
    /\ UNCHANGED <<heard, rows, saved, app, air>>

\* watchNetwork
NetworkBack ==
    /\ app' = [app EXCEPT !.pause = IF @ = "Backoff" THEN "None" ELSE @,
                          !.held = @ /\ app.pause # "Backoff",
                          !.timer = TRUE]
    /\ UNCHANGED <<heard, rows, saved, air, lastfm>>

\* expire(); the store may keep the key it was told to let go of.
Expired(a) ==
    [a EXCEPT !.key = NoUser, !.inFlight = FALSE, !.timer = FALSE, !.pause = "None",
              !.held = FALSE, !.singles = {}, !.state = "Expired",
              !.disconnectFailed = FALSE]

\* sendNowPlaying's answer, when it is that the session was revoked.  Since it
\* was sent, scrobbling may have been turned off, or a disconnect have failed.
NowPlayingRefused ==
    /\ app.state \in {"Connected", "Error"} /\ app.key \in lastfm.revoked
    /\ app' = Expired(app)
    /\ air' = Disowned
    /\ saved' \in {saved, [saved EXCEPT !.key = NoUser]}
    /\ UNCHANGED <<heard, rows, lastfm>>

-----------------------------------------------------------------------------
(* Sending. *)

\* (slip: whatever is oldest, whoever heard it)
ToSendOfAnyone ==
    LET alone == {r \in rows : r.id \in app.singles}
    IN  IF alone # {} THEN Oldest(alone, 1) ELSE Oldest(rows, MaxBatch)

\* After a batch refused as a whole, its items go one at a time.
ToSend ==
    LET mine  == RowsOf(app.user)
        alone == {r \in mine : r.id \in app.singles}
    IN  IF alone # {} THEN Oldest(alone, 1) ELSE Oldest(mine, MaxBatch)

\* flush, with nothing it may send now
FlushIdly ==
    /\ app.timer
    /\ app.inFlight \/ ~CanSend(app)
    /\ app' = [app EXCEPT !.timer = FALSE]
    /\ UNCHANGED <<heard, rows, saved, air, lastfm>>

\* flush; before m_pausedUntil it only sets its timer again.
Flush ==
    /\ app.timer
    /\ CanSend(app) /\ ~app.inFlight /\ ~app.held
    /\ Cardinality(air) < MaxAir
    /\ app' = [app EXCEPT !.timer = FALSE, !.pause = "None", !.inFlight = ToSend # {},
                          !.singles = @ \cap Ids(RowsOf(app.user))]
    /\ air' = air \cup (IF ToSend = {} THEN {}
                        ELSE {[rows |-> ToSend, key |-> app.key, live |-> TRUE,
                               reply |-> "", done |-> {}]})
    /\ UNCHANGED <<heard, rows, saved, lastfm>>

PauseOver ==
    /\ app.held
    /\ app' = [app EXCEPT !.held = FALSE]
    /\ UNCHANGED <<heard, rows, saved, air, lastfm>>

\* What Last.fm says of a request, and of which of its rows it is the last word.
Said(reply, done) == [reply |-> reply, done |-> done]

Answers(q) ==
    IF q.key \in lastfm.revoked THEN {Said("Reauthenticate", {})}
    ELSE {Said("Hold", {}), Said("Rejected", {})}
         \cup IF Ids(q.rows) \cap Invalid = {} THEN {Said("Ok", done) : done \in SUBSET Ids(q.rows)}
              ELSE {Said("Invalid", IF Cardinality(q.rows) = 1 THEN Ids(q.rows) ELSE {})}

LastFmAnswers(q, answer) ==
    /\ q.reply = ""
    /\ answer \in Answers(q)
    /\ lastfm' = [lastfm EXCEPT !.answered = @ \cup
                     {[id |-> r.id, account |-> r.account, to |-> q.key] :
                         r \in {s \in q.rows : s.id \in answer.done}}]
    /\ air' = (air \ {q}) \cup
               (IF q.live THEN {[q EXCEPT !.reply = answer.reply, !.done = answer.done]} ELSE {})
    /\ UNCHANGED <<heard, rows, saved, app>>

Paused(a, why) == [a EXCEPT !.pause = why, !.held = TRUE, !.timer = TRUE]

\* (slip: a row that cannot be taken drops the batch it came in)
RemovedAll(q) == IF q.reply \in {"Ok", "Invalid"} THEN Ids(q.rows) ELSE {}

\* (slip: a row refused alone stays)
RemovedTaken(q) == IF q.reply = "Ok" THEN q.done ELSE {}

\* Accepted, ignored for good, or refused alone with 6: the rows that go.
Removed(q) ==
    CASE q.reply = "Ok" -> q.done
      [] q.reply = "Invalid" /\ Cardinality(q.rows) = 1 -> Ids(q.rows)
      [] OTHER -> {}

\* handleBatch, for every answer but a revoked session
After(a, q) ==
    IF q.reply = "Ok" /\ q.done = Ids(q.rows) THEN [a EXCEPT !.timer = TRUE, !.singles = @ \ Ids(q.rows)]
    ELSE IF q.reply = "Ok" THEN Paused([a EXCEPT !.singles = @ \ Ids(q.rows)], "Asked")
    ELSE IF q.reply = "Hold" THEN Paused(a, "Asked")
    ELSE IF Cardinality(q.rows) > 1 THEN [a EXCEPT !.timer = TRUE, !.singles = Ids(q.rows)]
    ELSE IF q.reply = "Invalid" THEN [a EXCEPT !.timer = TRUE, !.singles = @ \ Ids(q.rows)]
    ELSE Paused(a, "Asked")

\* The answer arrives: handleBatch.
BatchAnswered(q) ==
    /\ q.live /\ q.reply \notin {"", "Reauthenticate"}
    /\ rows' = Without(rows, Removed(q))
    /\ app' = After([app EXCEPT !.inFlight = FALSE], q)
    /\ air' = air \ {q}
    /\ UNCHANGED <<heard, saved, lastfm>>

BatchExpired(q) ==
    /\ q.live /\ q.reply = "Reauthenticate"
    /\ app' = Expired(app)
    /\ air' = {[r EXCEPT !.live = FALSE] : r \in {r \in air \ {q} : r.reply = ""}}
    /\ saved' \in {saved, [saved EXCEPT !.key = NoUser]}
    /\ UNCHANGED <<heard, rows, lastfm>>

\* No answer came, or one to try again: whatever Last.fm did with the request.
BatchLost(q) ==
    /\ air' = air \ {q}
    /\ app' = IF q.live THEN Paused([app EXCEPT !.inFlight = FALSE], "Backoff") ELSE app
    /\ UNCHANGED <<heard, rows, saved, lastfm>>

-----------------------------------------------------------------------------

\* What answers, and the timers.
World ==
    \/ FlushIdly
    \/ Flush
    \/ PauseOver
    \/ NetworkBack
    \/ \E q \in air : \/ \E answer \in Answers(q) : LastFmAnswers(q, answer)
                       \/ BatchAnswered(q)
                       \/ BatchExpired(q)
                       \/ BatchLost(q)

Next ==
    \/ World
    \/ ListenQualified
    \/ ConnectAccount
    \/ TokenArrived
    \/ FailConnecting
    \/ CancelConnect
    \/ DisconnectAccount
    \/ DisconnectFails
    \/ SetEnabled
    \/ NowPlayingRefused
    \/ \E user \in Users : \/ \E cut \in {FALSE, SignInCuts} : FinishConnecting(user, cut)
                            \/ Revoke(user)
    \/ \E read \in Reads : Restart(read)

Spec == Init /\ [][Next]_vars

\* An answer that is the last word on all it was asked.
Final(answer, q) == answer.reply = "Invalid" \/ answer = Said("Ok", Ids(q.rows))

Fairness ==
    /\ WF_vars(Flush)
    /\ WF_vars(PauseOver)
    /\ WF_vars(\E q \in air : BatchAnswered(q) \/ BatchExpired(q) \/ BatchLost(q))
    /\ SF_vars(\E q \in air : \E answer \in Answers(q) :
                   q.live /\ Final(answer, q) /\ LastFmAnswers(q, answer))
    /\ SF_vars(\E q \in air : Final(Said(q.reply, q.done), q) /\ BatchAnswered(q))

FairSpec == Spec /\ Fairness

-----------------------------------------------------------------------------
(* Properties *)

Row == [id : 1 .. heard, account : Users]

Replies == {"", "Ok", "Hold", "Rejected", "Invalid", "Reauthenticate"}

Types ==
    /\ heard \in Nat
    /\ rows \subseteq Row
    /\ saved \in [user : Users \cup {NoUser}, key : Users \cup {NoUser}, enabled : BOOLEAN]
    /\ app \in [state : {"Off", "Waiting", "Connected", "Expired", "Error"},
                user : Users \cup {NoUser}, key : Users \cup {NoUser}, enabled : BOOLEAN,
                inFlight : BOOLEAN, timer : BOOLEAN,
                pause : {"None", "Backoff", "Asked"}, held : BOOLEAN,
                singles : SUBSET (1 .. heard), token : BOOLEAN, disconnectFailed : BOOLEAN]
    /\ air \subseteq [rows : SUBSET Row, key : Users, live : BOOLEAN,
                      reply : Replies, done : SUBSET (1 .. heard)]
    /\ lastfm \in [revoked : SUBSET Users,
                   answered : SUBSET [id : 1 .. heard, account : Users, to : Users]]

\* The members have their types, and the queue holds no more than it may.
TypeOK == Types /\ Cardinality(rows) <= MaxQueued

\* "Rows leave only when Last.fm has answered for them": across answers lost,
\* late or refused, sessions ended and the program started again, a listen
\* kept is still in the queue, or Last.fm has had the last word on it, or as
\* many as the queue holds came after it.
NothingHeardIsLost ==
    \A id \in 1 .. heard :
        \/ id \in Ids(rows)
        \/ \E a \in lastfm.answered : a.id = id
        \/ heard - id >= MaxQueued

\* "A backlog is never sent to someone else": what Last.fm answered for was
\* sent with the key of the account it was heard under.
SentAsItsOwn == \A a \in lastfm.answered : a.account = a.to

\* Scrobbles that could go are on their way or have a flush to come, and a
\* request is out exactly when one is waited for: a state nothing wakes would
\* show "3 scrobbles waiting" until the next listen, or the next launch.
NothingSleeps ==
    /\ CanSend(app) /\ RowsOf(app.user) # {} => app.inFlight \/ app.timer
    /\ Cardinality({q \in air : q.live}) = IF app.inFlight THEN 1 ELSE 0

\* Left alone, with a session Last.fm accepts and answers that get through now
\* and then, the account's queue runs empty, whatever was refused in between.
QueueDrains ==
    <>[][World]_vars =>
        <>[](CanSend(app) /\ app.key \notin lastfm.revoked => RowsOf(app.user) = {})
=============================================================================
