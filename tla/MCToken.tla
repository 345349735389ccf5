------------------------------- MODULE MCToken ------------------------------
(* Small instances of Token. *)
EXTENDS Token, TLC
CONSTANTS t1, t2, p1, p2, ann, bob

Scene(p, q, first, second1) == [proc |-> (t1 :> p) @@ (t2 :> q), calls |-> (t1 :> first) @@ (t2 :> second1)]

\* Two threads of a process whose token expires under their requests.
Requests == Scene(p1, p1, <<"call", "call">>, <<"call", "call">>)
\* One process logs in as somebody else and out, the other keeps working.
Mixed == Scene(p1, p2, <<"call", bob, "call", "logout">>, <<"call", "call">>)
\* One thread, one login and several expirations.
Session == Scene(p1, p1, <<"call", bob, "call", "call", "call">>, <<>>)

All == {Requests, Mixed, Session}
=============================================================================
