----------------------------- MODULE MCReporter -----------------------------
(* Small instances of Reporter. *)
EXTENDS Reporter, TLC
CONSTANTS w1, w2, w3

Ok(r) == [ref |-> r, ok |-> TRUE]
Bad(r) == [ref |-> r, ok |-> FALSE]
Scene(s1, s2, s3) == (w1 :> s1) @@ (w2 :> s2) @@ (w3 :> s3)

\* One worker with seven actions, so that with a chunk of 1 each kind overflows.
OneWorker ==
    Scene(<<Ok("a"), Bad("b"), Ok("c"), Bad("d"), Bad("e"), Ok("f"), Ok("g")>>, <<>>, <<>>)
\* Three workers, so that two may write while the third flushes.
ThreeWorkers == Scene(<<Ok("a")>>, <<Bad("c")>>, <<Ok("d")>>)
\* Two that flush again and again.
TwoWorkers == Scene(<<Ok("a"), Bad("b")>>, <<Ok("c"), Bad("d")>>, <<>>)
All == {OneWorker, TwoWorkers, ThreeWorkers}
=============================================================================
