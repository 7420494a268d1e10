------------------------------ MODULE MCSession ------------------------------
(* A library of two songs, which a page may also play, or queue one of.      *)
EXTENDS Session

CONSTANTS v1, v2

MCVideos == {v1, v2}

MCLists == {<<v1, v2>>, <<v1>>}

MCLibrary == <<v1, v2>>
=============================================================================
