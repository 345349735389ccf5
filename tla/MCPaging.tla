------------------------------ MODULE MCPaging ------------------------------
(* The loops of the scenes: see README.md, section 3. *)
EXTENDS Paging

Scene(one, two, list, at0, moves, errors) ==
    [kind |-> [l \in Loops |-> IF l = "l1" THEN one ELSE two], list |-> list, page |-> at0,
     changes |-> moves, fails |-> errors]

MCScenes == {
    \* one loop, the list changes, a request fails
    Scene("pages", "none", <<"a", "b", "c">>, 1, 2, 1),
    Scene("reversed", "none", <<"a", "b", "c">>, 0, 2, 1),
    Scene("all", "none", <<"a", "b", "c", "d">>, 0, 1, 1),
    Scene("get_all", "none", <<"a", "b", "c">>, 0, 1, 1),
    \* an empty list, and one that grows by more than a page before all() begins
    Scene("all", "reversed", <<>>, 0, 1, 1),
    Scene("all", "none", <<>>, 0, 3, 0),
    \* two loops over one window
    Scene("pages", "pages", <<"a", "b", "c">>, 1, 0, 0),
    Scene("pages", "reversed", <<"a", "b">>, 0, 0, 0),
    Scene("pages", "all", <<"a", "b", "c">>, 0, 0, 0)}
=============================================================================
