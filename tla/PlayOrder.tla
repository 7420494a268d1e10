------------------------------ MODULE PlayOrder ------------------------------
(***************************************************************************)
(* What a listener may count on from the play queue, shuffle aside: a song *)
(* playing, and the songs still to come in the order they will play in     *)
(* once shuffle is off.  Shuffling and unshuffling change nothing here; a  *)
(* song is queued, moved or dropped only when asked for; and the others    *)
(* never change places.  QueueModel and PlaybackController implement it    *)
(* (PlayQueue).                                                            *)
(***************************************************************************)
EXTENDS Integers

VARIABLES
    now,      \* the song playing, 0 before the first
    ahead,    \* the songs still to come
    before,   \* which of them plays before which: a set of pairs
    used      \* the songs so far are 1 .. used

vars == <<now, ahead, before, used>>

\* The pairs put the songs in one order.
Orders(pairs, songs) ==
    /\ pairs \cup {<<p[2], p[1]>> : p \in pairs} = {p \in songs \X songs : p[1] # p[2]}
    /\ \A p, q \in pairs : p[2] = q[1] => <<p[1], q[2]>> \in pairs

\* The songs that are among these before and after keep their order.
Keeps(songs) ==
    LET both == songs \cap ahead \cap ahead'
    IN  before \cap (both \X both) = before' \cap (both \X both)

Init == now = 0 /\ ahead = {} /\ before = {} /\ used = 0

\* Another list of songs none of which was there before.
Start ==
    /\ used' > used
    /\ now' \in used + 1 .. used'
    /\ ahead' \subseteq (used + 1 .. used') \ {now'}

\* On to a song still to come, past others or not, or back to an earlier one.
Listen ==
    /\ now # 0
    /\ UNCHANGED used
    /\ \/ now' \in ahead /\ ahead' \subseteq ahead \ {now'}
       \/ now' \in (1 .. used) \ ahead' /\ ahead \cup {now} \subseteq ahead' /\ ahead' \subseteq 1 .. used
    /\ Keeps(ahead)

\* New songs go in together, in their order.
Queue ==
    /\ UNCHANGED now
    /\ now # 0
    /\ used' > used
    /\ ahead' = ahead \cup used + 1 .. used'
    /\ Keeps(ahead)
    /\ LET new   == used + 1 .. used'
           pairs == before'
       IN  /\ \A m, n \in new : m < n => <<m, n>> \in pairs
           /\ \A u \in ahead : ({u} \X new) \subseteq pairs \/ (new \X {u}) \subseteq pairs

\* Fewer songs, and those that stay in the order they were in.
Drop ==
    /\ UNCHANGED <<now, used>>
    /\ ahead' \subseteq ahead
    /\ Keeps(ahead)

\* One song to another place.
Move ==
    /\ UNCHANGED <<now, ahead, used>>
    /\ \E song \in ahead : Keeps(ahead \ {song})

Next == Orders(before', ahead') /\ (Start \/ Listen \/ Queue \/ Drop \/ Move)

Spec == Init /\ [][Next]_vars
=============================================================================
