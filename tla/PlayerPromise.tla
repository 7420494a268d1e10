---------------------------- MODULE PlayerPromise ----------------------------
(***************************************************************************)
(* What MpvEngine promises whoever loads and stops its files (mpvengine.h):*)
(* every word it says is of the file last asked for, none comes after a    *)
(* stop, and a file that has ended or failed is not heard of again.        *)
(***************************************************************************)
EXTENDS Naturals

VARIABLES
    asks,  \* loads and stops asked for so far
    said   \* what was last said, and of which of them

promise == <<asks, said>>

Live == {"asked", "open", "sounding"}
Over == {"ended", "failed"}

Init == asks = 0 /\ said = [of |-> 0, what |-> "nothing"]

Ask ==
    /\ asks' = asks + 1
    /\ said' \in [of : {asks'}, what : {"asked", "nothing"}]

Tell ==
    /\ said.what \in Live
    /\ said' \in [of : {asks}, what : Live \cup Over]
    /\ UNCHANGED asks

Next == Ask \/ Tell

Spec == Init /\ [][Next]_promise
=============================================================================
