------------------------------ MODULE MCCookie ------------------------------
(* Small instances of Cookie: one for each file. *)
EXTENDS Cookie, TLC
CONSTANTS a1, a2, a3

Op(o) == [op |-> o]
Put(k) == [op |-> "put", key |-> k, val |-> 1]
Scene(s1, s2, s3) == (a1 :> s1) @@ (a2 :> s2) @@ (a3 :> s3)

\* cookie.json: one that starts and logs in, one that starts and records its version
\* check, one that starts and reads.
User == Scene(<<Op("create"), Put("login")>>, <<Op("create"), Put("version")>>,
              <<Op("create"), Op("get")>>)
\* state.json of a directory, which nobody creates at the start: two checkouts.
Checkouts == Scene(<<Put("project"), Put("dataset")>>, <<Put("project")>>, <<Op("get")>>)
\* calls_counter.json: one that starts, switches on, counts and resets, and one that
\* starts, counts if it is on, switches off and saves on exit.
Calls == Scene(<<Op("create"), Op("load"), Op("on"), Op("add"), Op("clear")>>,
               <<Op("create"), Op("load"), Op("add"), Op("off"), Op("save")>>, <<>>)
\* The same file with a third process between the two.
Starts == Scene(<<Op("create"), Op("load"), Op("on"), Op("add")>>,
                <<Op("create"), Op("load"), Op("add")>>, <<Op("create")>>)

MCScenes == {User, Checkouts, Calls, Starts}
=============================================================================
