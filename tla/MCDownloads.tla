----------------------------- MODULE MCDownloads -----------------------------
\* One song, cancelled as yt-dlp is done with it.
EXTENDS Downloads

CONSTANTS a, f

MCIds == {a}

MCFolders == {f}

MCKinds == {"part", "done"}
=============================================================================
