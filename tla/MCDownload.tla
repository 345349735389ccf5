----------------------------- MODULE MCDownload -----------------------------
(* Small instances of Download. *)
EXTENDS Download

Scene(kinds, paths, drawn, counts, cached) ==
    {[kind |-> kinds, path |-> paths, drawn |-> drawn, count |-> c, overwrite |-> o,
      cached |-> cached] : c \in counts, o \in BOOLEAN}

\* Three entries: a folder among them, a url, a list that grew, two items with one
\* local path, and the same items taken from the SDK cache.
MCScenes ==
    Scene(<<"dir", "file", "file">>, <<1, 2, 3>>, {2}, {3}, FALSE)
      \cup Scene(<<"url", "file", "dir">>, <<1, 2, 3>>, {1}, {1}, FALSE)
      \cup Scene(<<"file", "dir", "file">>, <<1, 2, 1>>, {3}, {3}, FALSE)
      \cup Scene(<<"file", "dir", "file">>, <<1, 2, 3>>, {1}, {3}, TRUE)
=============================================================================
