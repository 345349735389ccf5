-------------------------- MODULE MCAnnotationPool --------------------------
(* Small instances of AnnotationPool. *)
EXTENDS AnnotationPool

CONSTANTS c1, c2    \* threads that upload annotations

\* Items 1 and 2 belong to one call and 3 to another.
MCCallerOf == <<c1, c1, c2>>
\* Fewer items of several batches than workers, one of them in either call, and as
\* many as workers.
MCScenes == {<<2, 1, 1>>, <<1, 1, 3>>, <<2, 2, 1>>}
MCBig == {<<2, 2, 1>>}
=============================================================================
