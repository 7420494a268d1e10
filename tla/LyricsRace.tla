----------------------------- MODULE LyricsRace -----------------------------
(***************************************************************************)
(* One song's lyrics, asked of every provider at once and taken in the     *)
(* listener's order (lyrics/lyricsrace.cpp).  A race is a record; what a   *)
(* provider has answered is in its `is`: a kind of lyrics, "missed" or     *)
(* "failed", and before that where its request stands.  The operators are  *)
(* the race's own functions; Lyrics starts races and takes their events.   *)
(***************************************************************************)
EXTENDS Naturals, Sequences, SequencesExt

CONSTANTS
    Preferred,  \* the providers, in the listener's order
    Reach,      \* of each, the best rank it can ever answer with
    Lazy,       \* those asked only when nobody else has anything
    Instant,    \* those that answer the moment they are asked
    Serial,     \* one at a time, as before the race (lyrics.race=serial)
    Patience,   \* "none", "some", or "endless": before the best in hand is put forward
    Nobody

Providers == DOMAIN Reach

Kinds == {"timed", "instrumental", "plain", "loose"}

\* Timed lines, or the word that there are none, above plain text above another
\* recording's words; a miss and a failure are nothing.
Rank(kind) ==
    CASE kind \in {"timed", "instrumental"} -> 3
      [] kind = "plain" -> 2
      [] kind = "loose" -> 1
      [] OTHER -> 0

\* What the race takes of an answer whose length is `off` (3 to 10 s) or `far`
\* from the recording's, when that is known.
Gated(said, known) ==
    IF ~known THEN said.kind
    ELSE IF said.gap = "far" THEN IF said.kind = "failed" THEN "failed" ELSE "missed"
    ELSE IF said.gap = "off" /\ said.kind = "timed" THEN "loose"
    ELSE IF said.gap = "off" /\ said.kind = "instrumental" THEN "missed"
    ELSE said.kind

NewRace(providers) ==
    [order |-> providers,
     is |-> [p \in Providers |-> IF p \in ToSet(providers) THEN "waiting" ELSE "absent"],
     partial |-> {}, late |-> Patience = "none", offer |-> Nobody,
     verdict |-> "open", winner |-> Nobody, provisional |-> FALSE]

Out(r, p) == r.is[p] \in {"waiting", "pending"}

Above(r, p, q) ==
    \E i, j \in DOMAIN r.order : i < j /\ r.order[i] = p /\ r.order[j] = q

\* The best in hand: the highest rank, and of those the first in the order.
Best(r) ==
    LET found == {p \in Providers : Rank(r.is[p]) > 0} IN
    IF found = {} THEN Nobody
    ELSE CHOOSE p \in found : \A q \in found \ {p} :
            \/ Rank(r.is[p]) > Rank(r.is[q])
            \/ Rank(r.is[p]) = Rank(r.is[q]) /\ Above(r, p, q)

\* Whether p, asked, could still take the answer from `best`.
CouldBeat(r, p, best) ==
    \/ best = Nobody
    \/ Reach[p] > Rank(r.is[best])
    \/ Reach[p] = Rank(r.is[best]) /\ Above(r, p, best)

Wanted(r, p, best) == IF p \in Lazy THEN best = Nobody ELSE CouldBeat(r, p, best)

MayStart(r, p) ==
    \/ p \notin Lazy /\ ~Serial
    \/ \A q \in Providers : Above(r, q, p) => ~Out(r, q)

\* One provider's turn in a pass over them: dropped, asked or left alone.
Turn(r, p, best, says) ==
    IF ~Out(r, p) THEN r
    ELSE IF ~Wanted(r, p, best) THEN [r EXCEPT !.is[p] = "cancelled"]
    ELSE IF r.is[p] = "waiting" /\ MayStart(r, p)
         THEN [r EXCEPT !.is[p] = IF p \in Instant THEN says[p] ELSE "pending"]
    ELSE r

Pass(r, says) ==
    LET best == Best(r) IN FoldLeft(LAMBDA x, p : Turn(x, p, best, says), r, r.order)

\* Passes while any provider asked in one answers at once: no more than there are
\* providers, and one more of the same changes nothing.
Passed(r, says) == FoldLeft(LAMBDA x, p : Pass(x, says), r, r.order)

\* A mutation: what nobody else has is for good, whoever failed.
DecidedForGood(r) ==
    [r EXCEPT !.verdict = IF Best(r) # Nobody THEN "found" ELSE "none", !.winner = Best(r)]

\* Provisional when a provider that could have beaten the answer failed; nothing
\* found and a failure is no "none".
Decided(r) ==
    LET best == Best(r)
        failed == {p \in Providers : r.is[p] = "failed" \/ p \in r.partial}
        spoilt == \E p \in failed : CouldBeat(r, p, best)
    IN  [r EXCEPT !.verdict = IF best # Nobody THEN "found" ELSE IF spoilt THEN "error" ELSE "none",
                  !.winner = best,
                  !.provisional = best # Nobody /\ spoilt]

\* Where the race stands after any change: `says` is what each provider that
\* answers at once would say.
Evaluated(r, says) ==
    LET x == Passed(r, says) IN
    IF \A p \in Providers : ~Out(x, p) THEN Decided(x)
    ELSE IF Best(x) # Nobody /\ x.late THEN [x EXCEPT !.offer = Best(x)]
    ELSE x

Settled(r, p, kind, part, says) ==
    Evaluated([r EXCEPT !.is[p] = kind, !.partial = IF part THEN @ \union {p} ELSE @], says)

\* Those not in the race yet join it in their places.
Included(r, providers, says) ==
    IF ToSet(providers) \subseteq ToSet(r.order) THEN r
    ELSE Evaluated(
            [r EXCEPT !.order = providers \o SelectSeq(r.order, LAMBDA p : p \notin ToSet(providers)),
                      !.is = [p \in Providers |->
                                IF p \in ToSet(providers) /\ r.is[p] = "absent" THEN "waiting" ELSE r.is[p]]],
            says)

\* The answer the order means: the best of what all of these say, whenever they do.
BestSaid(providers, says) ==
    LET first == SelectSeq(providers, LAMBDA p : p \notin Lazy)
        best(order) == Best([order |-> order,
                             is |-> [p \in Providers |-> IF p \in ToSet(order) THEN says[p] ELSE "absent"]])
    IN  IF best(first) # Nobody THEN best(first) ELSE best(providers)
=============================================================================
