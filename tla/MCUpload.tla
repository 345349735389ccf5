------------------------------ MODULE MCUpload ------------------------------
(* A small instance of Upload. *)
EXTENDS Upload

CONSTANTS p1, p2    \* remote paths

\* Two urls for the same path, of one size or of two, and an external file; only the
\* first url has annotations.  A url that is read into memory takes the steps of a local
\* file or buffer.
MCNameOf == <<p1, p1, p2>>
MCSourceOf == <<"a.jpg", "b.jpg", "u.jpg">>
MCKindOf == <<"url", "url", "external_file">>
MCSources == {"a.jpg", "b.jpg", "u.jpg"}
MCAnnotated == {1}
MCExisting == {c \in [{p1, p2} -> {-1, 1, 2}] : c[p2] = -1 \/ (c[p2] = 2 /\ c[p1] = -1)}
MCSizesOf == {<<2, 2, 2>>, <<2, 1, 2>>}
=============================================================================
