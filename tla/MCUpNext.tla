------------------------------ MODULE MCUpNext ------------------------------
\* Small queues for TLC.  Two failures stop the queue rather than three, so
\* that three rows are enough to walk past them.
EXTENDS UpNext

MCKinds == {"streamed", "kept", "blank"}
MCTwoKinds == {"streamed", "file"}

Upto(n, kinds) == UNION {[1 .. size -> kinds] : size \in 1 .. n}

MCLists == Upto(2, MCKinds)
MCShortLists == Upto(2, MCTwoKinds)
=============================================================================
