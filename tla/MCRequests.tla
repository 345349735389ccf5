----------------------------- MODULE MCRequests -----------------------------
(* Two requests at a time: see README.md, section 3. *)
EXTENDS Requests

Mix(one, two) == [r \in Requests |-> IF r = "r1" THEN one ELSE two]
MCMixes == {Mix("sync", "sync"), Mix("sync", "async"), Mix("async", "upload")}
=============================================================================
