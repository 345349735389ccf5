---------------------------- MODULE MCEntityCache ----------------------------
(* The scenes of the cache: see README.md, section 3. *)
EXTENDS EntityCache

MCSize == [i \in Items |-> IF i = "i1" THEN 4 ELSE 3]

Do(what, e) == [do |-> what, on |-> e]
Aging(one, two, other, posix, n, old) ==
    [prog |-> [t \in Threads |-> IF t = "t1" THEN one ELSE two],
     proc |-> [t \in Threads |-> IF t = "t1" THEN "p1" ELSE other],
     posix |-> posix, expiries |-> n, old |-> old]
Scene(one, two, other, posix) == Aging(one, two, other, posix, 0, {})

MCScenes == {
    \* two threads of one client, items changed and deleted
    Scene(<<Do("get", "i1"), Do("delete", "i1"), Do("get", "i1")>>,
          <<Do("patch", "i1"), Do("delete", "i2"), Do("get", "i1")>>, "p1", TRUE),
    \* two processes, a dataset deleted
    Scene(<<Do("get", "i1"), Do("get", "d"), Do("delete", "d"), Do("get", "i1")>>,
          <<Do("get", "i1"), Do("get", "i2")>>, "p2", FALSE),
    Scene(<<Do("get", "i1"), Do("delete", "d"), Do("get", "i1")>>,
          <<Do("get", "i2"), Do("patch", "d")>>, "p1", TRUE),
    \* binaries: repeated downloads, an upload, deletions
    Scene(<<Do("stream", "i1"), Do("stream", "i2"), Do("stream", "i1")>>,
          <<Do("stream", "i1"), Do("delete", "i2")>>, "p2", TRUE),
    Scene(<<Do("upload", "i1"), Do("stream", "i2"), Do("stream", "i1")>>,
          <<Do("get", "i1"), Do("stream", "i2")>>, "p1", FALSE),
    Scene(<<Do("upload", "i1"), Do("delete", "d")>>,
          <<Do("stream", "i2"), Do("delete", "i2")>>, "p1", FALSE),
    \* keys expire under fetches, changes and deletions
    Aging(<<Do("get", "i1"), Do("patch", "i1"), Do("delete", "d")>>,
          <<Do("get", "i1"), Do("get", "i2")>>, "p2", FALSE, 2, {}),
    Aging(<<Do("stream", "i1"), Do("delete", "i1")>>,
          <<Do("get", "i1"), Do("delete", "d")>>, "p1", FALSE, 1, {}),
    \* files grow old under their readers and writers
    Aging(<<Do("stream", "i1"), Do("stream", "i2")>>,
          <<Do("stream", "i1")>>, "p2", TRUE, 0, {"file", "temp"} \X {"i1"}),
    Aging(<<Do("stream", "i1"), Do("stream", "i2")>>,
          <<Do("upload", "i1"), Do("get", "i1")>>, "p1", FALSE, 0, {"file"} \X Items)}
=============================================================================
