----------------------------- MODULE MCTraining -----------------------------
(* The executions of the scenes: see README.md, section 3. *)
EXTENDS Training

Do(what, m) == [do |-> what, on |-> m]
Scene(one, two, errors, ends, crashes) ==
    [prog |-> [t \in Threads |-> IF t = "t1" THEN one ELSE two],
     fails |-> errors, signals |-> ends, kills |-> crashes]

MCScenes == {
    \* one model trained twice by one thread
    Scene(<<Do("train", "A"), Do("train", "A")>>, <<>>, 2, 1, 1),
    Scene(<<Do("train", "A"), Do("train", "B")>>, <<>>, 0, 2, 1),
    \* two models at once
    Scene(<<Do("train", "A")>>, <<Do("train", "B")>>, 1, 0, 0),
    Scene(<<Do("train", "A")>>, <<Do("train", "B")>>, 0, 0, 1),
    Scene(<<Do("train", "A")>>, <<Do("train", "B")>>, 0, 1, 0),
    Scene(<<Do("train", "A"), Do("evaluate", "A")>>, <<Do("evaluate", "B")>>, 1, 0, 0),
    \* one model twice at once
    Scene(<<Do("train", "A")>>, <<Do("train", "A")>>, 1, 0, 1)}
=============================================================================
