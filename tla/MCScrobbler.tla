---------------------------- MODULE MCScrobbler ----------------------------
(* Two accounts, the second listen one that Last.fm will never take.        *)
EXTENDS Scrobbler

CONSTANTS u1, u2

MCUsers == {u1, u2}
=============================================================================
