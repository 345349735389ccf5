-------------------------- MODULE EntityCacheProofs -------------------------
(***************************************************************************)
(* What EntityCache promises of files, fresh entities and links, for any      *)
(* threads, items and operations: deletions that take many steps, expiry,      *)
(* housekeeping and crashes included.                                         *)
(***************************************************************************)
EXTENDS EntityCache, TLAPS
-----------------------------------------------------------------------------
(* The threads. *)

\* The record of a thread has these fields.
Fields(pc, at, ans, target, ups, kids, read) ==
    [pc |-> pc, at |-> at, ans |-> ans, target |-> target, ups |-> ups, kids |-> kids, read |-> read]
Same(t, pc, target, kids) ==
    Fields(pc, thread[t].at, thread[t].ans, target, thread[t].ups, kids, thread[t].read)
Shape ==
    thread = [t \in Threads |->
                Same(t, thread[t].pc, thread[t].target, thread[t].kids)]

\* Only binaries are stored, only an upload comes there from a json, and only a json is
\* linked.
Roles ==
    \A t \in Threads :
      /\ Proc(t) \in Processes
      /\ At(t, {"link"}) => Does(t, {"get", "patch", "upload"})
      /\ At(t, {"set_binary"}) => Does(t, {"upload"})
      /\ At(t, {"is_file", "open"}) => Does(t, {"stream", "upload"})

Base ==
    /\ Shape /\ Roles
    /\ version \in [Entities -> Nat]
    /\ obj = [e \in Entities |-> obj[e]]
    /\ rows = [p \in Processes |-> rows[p]]
    /\ file = [i \in Items |-> file[i]]

\* Thread t alone takes a step.
Steps(t, r) == thread' = [u \in Threads |-> IF u = t THEN r ELSE thread[u]]

LEMMA ShapeStep ==
    ASSUME Shape, NEW t \in Threads, NEW pc, NEW at, NEW ans, NEW target, NEW ups, NEW kids, NEW read,
           Steps(t, Fields(pc, at, ans, target, ups, kids, read))
    PROVE  Shape'
  BY DEF Shape, Steps, Fields, Same

\* Updates of such a record.
LEMMA OneThread ==
    ASSUME Shape, NEW t \in Threads, NEW r, thread' = [thread EXCEPT ![t] = r]
    PROVE  Steps(t, r)
  BY DEF Shape, Steps

LEMMA Itself ==
    ASSUME Shape, NEW t \in Threads
    PROVE  thread[t] = Fields(thread[t].pc, thread[t].at, thread[t].ans, thread[t].target,
                              thread[t].ups, thread[t].kids, thread[t].read)
  BY DEF Shape, Same

LEMMA GotoIs ==
    ASSUME Shape, NEW t \in Threads, NEW l, Goto(t, l)
    PROVE  Steps(t, Same(t, l, thread[t].target, thread[t].kids))
<1>2. [thread[t] EXCEPT !.pc = l] = Same(t, l, thread[t].target, thread[t].kids)
  <2> DEFINE x == thread[t]
  <2>1. x = Fields(x.pc, x.at, x.ans, x.target, x.ups, x.kids, x.read)  BY Itself
  <2> HIDE DEF x
  <2>2. ASSUME NEW z, z = [x EXCEPT !.pc = l]
        PROVE  z = Fields(l, x.at, x.ans, x.target, x.ups, x.kids, x.read)
    BY <2>1, <2>2 DEF Fields
  <2>3. [x EXCEPT !.pc = l] = Fields(l, x.at, x.ans, x.target, x.ups, x.kids, x.read)
    BY <2>2, Zenon
  <2> QED  BY <2>3, Zenon DEF Same, x
<1>3. thread' = [thread EXCEPT ![t] = [thread[t] EXCEPT !.pc = l]]
  BY DEF Goto
<1> QED  BY <1>2, <1>3, OneThread

LEMMA VisitsIs ==
    ASSUME Shape, NEW t \in Threads, NEW l, NEW e, NEW ks, Visits(t, l, e, ks)
    PROVE  Steps(t, Same(t, l, e, ks))
<1>2. [thread[t] EXCEPT !.pc = l, !.target = e, !.kids = ks] = Same(t, l, e, ks)
  <2> DEFINE x == thread[t]
  <2>1. x = Fields(x.pc, x.at, x.ans, x.target, x.ups, x.kids, x.read)  BY Itself
  <2> HIDE DEF x
  <2>2. ASSUME NEW z, z = [x EXCEPT !.pc = l, !.target = e, !.kids = ks]
        PROVE  z = Fields(l, x.at, x.ans, e, x.ups, ks, x.read)
    BY <2>1, <2>2 DEF Fields
  <2>3. [x EXCEPT !.pc = l, !.target = e, !.kids = ks] = Fields(l, x.at, x.ans, e, x.ups, ks, x.read)
    BY <2>2, Zenon
  <2> QED  BY <2>3, Zenon DEF Same, x
<1>3. thread' = [thread EXCEPT ![t] = [thread[t] EXCEPT !.pc = l, !.target = e, !.kids = ks]]
  BY DEF Visits
<1> QED  BY <1>2, <1>3, OneThread

LEMMA ListsIs ==
    ASSUME Shape, NEW t \in Threads, NEW l, NEW ks, Lists(t, l, ks)
    PROVE  Steps(t, Fields(l, thread[t].at, thread[t].ans, thread[t].target, ks,
                           thread[t].kids, thread[t].read))
<1>2. [thread[t] EXCEPT !.pc = l, !.ups = ks]
        = Fields(l, thread[t].at, thread[t].ans, thread[t].target, ks, thread[t].kids,
                 thread[t].read)
  <2> DEFINE x == thread[t]
  <2>1. x = Fields(x.pc, x.at, x.ans, x.target, x.ups, x.kids, x.read)  BY Itself
  <2> HIDE DEF x
  <2>2. ASSUME NEW z, z = [x EXCEPT !.pc = l, !.ups = ks]
        PROVE  z = Fields(l, x.at, x.ans, x.target, ks, x.kids, x.read)
    BY <2>1, <2>2 DEF Fields
  <2>3. [x EXCEPT !.pc = l, !.ups = ks]
          = Fields(l, x.at, x.ans, x.target, ks, x.kids, x.read)
    BY <2>2, Zenon
  <2> QED  BY <2>3, Zenon DEF x
<1>3. thread' = [thread EXCEPT ![t] = [thread[t] EXCEPT !.pc = l, !.ups = ks]]
  BY DEF Lists
<1> QED  BY <1>2, <1>3, OneThread

LEMMA ReadsIs ==
    ASSUME Shape, NEW t \in Threads, NEW l, NEW c, Reads(t, l, c)
    PROVE  Steps(t, Fields(l, thread[t].at, thread[t].ans, thread[t].target,
                           thread[t].ups, thread[t].kids, c))
<1>2. [thread[t] EXCEPT !.pc = l, !.read = c] = Fields(l, thread[t].at, thread[t].ans, thread[t].target,
                           thread[t].ups, thread[t].kids, c)
  <2> DEFINE x == thread[t]
  <2>1. x = Fields(x.pc, x.at, x.ans, x.target, x.ups, x.kids, x.read)  BY Itself
  <2> HIDE DEF x
  <2>2. ASSUME NEW z, z = [x EXCEPT !.pc = l, !.read = c]
        PROVE  z = Fields(l, x.at, x.ans, x.target, x.ups, x.kids, c)
    BY <2>1, <2>2 DEF Fields
  <2>3. [x EXCEPT !.pc = l, !.read = c] = Fields(l, x.at, x.ans, x.target, x.ups, x.kids, c)
    BY <2>2, Zenon
  <2> QED  BY <2>3, Zenon DEF Same, x
<1>3. thread' = [thread EXCEPT ![t] = [thread[t] EXCEPT !.pc = l, !.read = c]]
  BY DEF Reads
<1> QED  BY <1>2, <1>3, OneThread

LEMMA EndIs ==
    ASSUME Shape, NEW t \in Threads, End(t)
    PROVE  Steps(t, Fields("idle", thread[t].at + 1, thread[t].ans, thread[t].target,
                           thread[t].ups, thread[t].kids, thread[t].read))
<1>2. [thread[t] EXCEPT !.pc = "idle", !.at = thread[t].at + 1] = Fields("idle", thread[t].at + 1, thread[t].ans, thread[t].target,
                           thread[t].ups, thread[t].kids, thread[t].read)
  <2> DEFINE x == thread[t]
  <2>1. x = Fields(x.pc, x.at, x.ans, x.target, x.ups, x.kids, x.read)  BY Itself
  <2> HIDE DEF x
  <2>2. ASSUME NEW z, z = [x EXCEPT !.pc = "idle", !.at = x.at + 1]
        PROVE  z = Fields("idle", x.at + 1, x.ans, x.target, x.ups, x.kids, x.read)
    BY <2>1, <2>2 DEF Fields
  <2>3. [x EXCEPT !.pc = "idle", !.at = x.at + 1] = Fields("idle", x.at + 1, x.ans, x.target, x.ups, x.kids, x.read)
    BY <2>2, Zenon
  <2> QED  BY <2>3, Zenon DEF Same, x
<1>3. thread' = [thread EXCEPT ![t] = [thread[t] EXCEPT !.pc = "idle", !.at = thread[t].at + 1]]
  BY Zenon DEF End
<1> QED  BY <1>2, <1>3, OneThread

LEMMA AnsweredIs ==
    ASSUME Shape, NEW t \in Threads, NEW a, Answer(t, a)
    PROVE  Steps(t, Fields("answered", thread[t].at, a, thread[t].target, thread[t].ups,
                           thread[t].kids, thread[t].read))
<1>2. [thread[t] EXCEPT !.pc = "answered", !.ans = a] = Fields("answered", thread[t].at, a, thread[t].target, thread[t].ups,
                           thread[t].kids, thread[t].read)
  <2> DEFINE x == thread[t]
  <2>1. x = Fields(x.pc, x.at, x.ans, x.target, x.ups, x.kids, x.read)  BY Itself
  <2> HIDE DEF x
  <2>2. ASSUME NEW z, z = [x EXCEPT !.pc = "answered", !.ans = a]
        PROVE  z = Fields("answered", x.at, a, x.target, x.ups, x.kids, x.read)
    BY <2>1, <2>2 DEF Fields
  <2>3. [x EXCEPT !.pc = "answered", !.ans = a] = Fields("answered", x.at, a, x.target, x.ups, x.kids, x.read)
    BY <2>2, Zenon
  <2> QED  BY <2>3, Zenon DEF Same, x
<1>3. thread' = [thread EXCEPT ![t] = [thread[t] EXCEPT !.pc = "answered", !.ans = a]]
  BY DEF Answer
<1> QED  BY <1>2, <1>3, OneThread

\* What the proofs need of it: thread t goes on with its operation, or is done with it.
Others(t) == Shape' /\ \A u \in Threads : u # t => thread'[u] = thread[u]
Moves(t, l, e, ks) ==
    /\ Others(t)
    /\ thread'[t].pc = l /\ thread'[t].at = thread[t].at
    /\ thread'[t].target = e /\ thread'[t].kids = ks
Ends(t) == Others(t) /\ thread'[t].pc = "idle"

LEMMA StepsMoves ==
    ASSUME Shape, NEW t \in Threads, NEW pc, NEW at, NEW ans, NEW target, NEW ups, NEW kids, NEW read,
           Steps(t, Fields(pc, at, ans, target, ups, kids, read))
    PROVE  /\ Others(t)
           /\ thread'[t].pc = pc /\ thread'[t].at = at /\ thread'[t].ans = ans
           /\ thread'[t].target = target /\ thread'[t].ups = ups /\ thread'[t].kids = kids
<1>1. Shape'  BY ShapeStep
<1>2. \A u \in Threads : thread'[u] = IF u = t THEN Fields(pc, at, ans, target, ups, kids, read)
                                      ELSE thread[u]
  BY DEF Steps
<1>3. thread'[t] = Fields(pc, at, ans, target, ups, kids, read)  BY <1>2
<1> QED  BY <1>1, <1>2, <1>3 DEF Others, Fields

LEMMA GotoMoves ==
    ASSUME Shape, NEW t \in Threads, NEW l, Goto(t, l)
    PROVE  Moves(t, l, thread[t].target, thread[t].kids)
  BY GotoIs, StepsMoves DEF Same, Moves

LEMMA VisitsMoves ==
    ASSUME Shape, NEW t \in Threads, NEW l, NEW e, NEW ks, Visits(t, l, e, ks)
    PROVE  Moves(t, l, e, ks)
  BY VisitsIs, StepsMoves DEF Same, Moves

LEMMA ListsMoves ==
    ASSUME Shape, NEW t \in Threads, NEW l, NEW ks, Lists(t, l, ks)
    PROVE  Moves(t, l, thread[t].target, thread[t].kids) /\ thread'[t].ups = ks
  BY ListsIs, StepsMoves DEF Moves

LEMMA ReadsMoves ==
    ASSUME Shape, NEW t \in Threads, NEW l, NEW c, Reads(t, l, c)
    PROVE  Moves(t, l, thread[t].target, thread[t].kids)
  BY ReadsIs, StepsMoves DEF Moves

LEMMA EndEnds ==
    ASSUME Shape, NEW t \in Threads, End(t)
    PROVE  Ends(t)
  BY EndIs, StepsMoves DEF Ends

\* A thread keeps its operation until it is done with it.
LEMMA SameOp ==
    ASSUME UNCHANGED scene, NEW t, thread'[t].at = thread[t].at
    PROVE  /\ Op(t)' = Op(t) /\ Scope(t)' = Scope(t) /\ On(t)' = On(t)
           /\ \A ops : Does(t, ops)' <=> Does(t, ops)
<1>1. Op(t)' = Op(t)  BY DEF Op
<1> QED  BY <1>1 DEF Scope, On, Does

LEMMA Elsewhere ==
    ASSUME UNCHANGED scene, NEW t \in Threads, NEW u \in Threads, u # t, Others(t)
    PROVE  /\ thread'[u] = thread[u] /\ Proc(u)' = Proc(u)
           /\ Op(u)' = Op(u) /\ Scope(u)' = Scope(u) /\ On(u)' = On(u)
           /\ \A ops : (Does(u, ops)' <=> Does(u, ops)) /\ (At(u, ops)' <=> At(u, ops))
<1>1. thread'[u] = thread[u]  BY DEF Others
<1>2. Proc(u)' = Proc(u) /\ \A ops : At(u, ops)' <=> At(u, ops)  BY <1>1 DEF Proc, At
<1> QED  BY <1>1, <1>2, SameOp

LEMMA RolesMove ==
    ASSUME Roles, UNCHANGED scene, NEW t \in Threads, NEW l, NEW e, NEW ks, Moves(t, l, e, ks),
           l = "link" => Does(t, {"get", "patch", "upload"}),
           l = "set_binary" => Does(t, {"upload"}),
           l \in {"is_file", "open"} => Does(t, {"stream", "upload"})
    PROVE  Roles'
<1> SUFFICES ASSUME NEW u \in Threads
             PROVE  /\ Proc(u)' \in Processes
                    /\ At(u, {"link"})' => Does(u, {"get", "patch", "upload"})'
                    /\ At(u, {"set_binary"})' => Does(u, {"upload"})'
                    /\ At(u, {"is_file", "open"})' => Does(u, {"stream", "upload"})'
  BY DEF Roles
<1>1. CASE u = t
  <2>1. thread'[t].pc = l /\ thread'[t].at = thread[t].at  BY DEF Moves
  <2>2. \A ops : Does(t, ops)' <=> Does(t, ops)  BY <2>1, SameOp
  <2>3. At(t, {"link"})' <=> l = "link"  BY <2>1 DEF At
  <2>4. At(t, {"set_binary"})' <=> l = "set_binary"  BY <2>1 DEF At
  <2>5. At(t, {"is_file", "open"})' <=> l \in {"is_file", "open"}  BY <2>1 DEF At
  <2>6. Proc(t)' \in Processes  BY DEF Proc, Roles
  <2> QED  BY <1>1, <2>2, <2>3, <2>4, <2>5, <2>6
<1>2. CASE u # t
  <2>1. Others(t)  BY DEF Moves
  <2>2. /\ Proc(u)' = Proc(u)
        /\ \A ops : (Does(u, ops)' <=> Does(u, ops)) /\ (At(u, ops)' <=> At(u, ops))
    BY <1>2, <2>1, Elsewhere
  <2> QED  BY <2>2 DEF Roles
<1> QED  BY <1>1, <1>2

LEMMA RolesEnd ==
    ASSUME Roles, UNCHANGED scene, NEW t \in Threads, Ends(t)
    PROVE  Roles'
<1> SUFFICES ASSUME NEW u \in Threads
             PROVE  /\ Proc(u)' \in Processes
                    /\ At(u, {"link"})' => Does(u, {"get", "patch", "upload"})'
                    /\ At(u, {"set_binary"})' => Does(u, {"upload"})'
                    /\ At(u, {"is_file", "open"})' => Does(u, {"stream", "upload"})'
  BY DEF Roles
<1>1. CASE u = t
  BY <1>1 DEF Ends, At, Proc, Roles
<1>2. CASE u # t
  <2>1. Others(t)  BY DEF Ends
  <2>2. /\ Proc(u)' = Proc(u)
        /\ \A ops : (Does(u, ops)' <=> Does(u, ops)) /\ (At(u, ops)' <=> At(u, ops))
    BY <1>2, <2>1, Elsewhere
  <2> QED  BY <2>2 DEF Roles
<1> QED  BY <1>1, <1>2

\* Thread t goes on at label l.
Onward(t, l) == Moves(t, l, thread'[t].target, thread'[t].kids)

LEMMA GotoOnward ==
    ASSUME Shape, NEW t \in Threads, NEW l, Goto(t, l)
    PROVE  Onward(t, l)
  BY GotoMoves DEF Onward, Moves
LEMMA VisitsOnward ==
    ASSUME Shape, NEW t \in Threads, NEW l, NEW e, NEW ks, Visits(t, l, e, ks)
    PROVE  Onward(t, l)
  BY VisitsMoves DEF Onward, Moves
LEMMA ListsOnward ==
    ASSUME Shape, NEW t \in Threads, NEW l, NEW ks, Lists(t, l, ks)
    PROVE  Onward(t, l)
  BY ListsMoves DEF Onward, Moves
LEMMA ReadsOnward ==
    ASSUME Shape, NEW t \in Threads, NEW l, NEW c, Reads(t, l, c)
    PROVE  Onward(t, l)
  BY ReadsMoves DEF Onward, Moves
LEMMA AnsweredOnward ==
    ASSUME Shape, NEW t \in Threads, NEW a, Answer(t, a)
    PROVE  Onward(t, "answered") /\ thread'[t].ans = a
  BY AnsweredIs, StepsMoves DEF Onward, Moves

\* It does there what it was asked to.
Allowed(t, l) ==
    /\ l = "link" => Does(t, {"get", "patch", "upload"})
    /\ l = "set_binary" => Does(t, {"upload"})
    /\ l \in {"is_file", "open"} => Does(t, {"stream", "upload"})

Way(t) == Ends(t) \/ \E l : Onward(t, l) /\ Allowed(t, l)

LEMMA RolesWay ==
    ASSUME Roles, UNCHANGED scene, NEW t \in Threads,
           Way(t)
    PROVE  Shape' /\ Roles'
<1>1. CASE Ends(t)  BY <1>1, RolesEnd DEF Ends, Others
<1>2. CASE \E l : Onward(t, l) /\ Allowed(t, l)
  <2>1. PICK l : Onward(t, l) /\ Allowed(t, l)  BY <1>2
  <2> QED  BY <2>1, RolesMove DEF Onward, Moves, Others, Allowed
<1> QED  BY <1>1, <1>2 DEF Way

LEMMA RolesStep ==
    ASSUME Shape, Roles, NEW t \in Threads, Step(t)
    PROVE  UNCHANGED scene /\ Shape' /\ Roles'
<1>0. UNCHANGED scene
  <2>1. CASE Begin(t) \/ Serve(t) \/ Refuse(t) \/ Skip(t) \/ SetObject(t) \/ SetLink(t)
    BY <2>1, Zenon DEF Begin, Serve, Refuse, Skip, SetObject, SetLink
  <2>2. CASE \/ DeleteOwn(t) \/ Execute(t) \/ FetchParents(t) \/ VisitParent(t)
             \/ FetchChildren(t) \/ VisitChild(t) \/ DeleteEnds(t)
    BY <2>2, Zenon DEF DeleteOwn, Execute, FetchParents, VisitParent, FetchChildren, VisitChild,
       DeleteEnds
  <2>3. CASE SetBinary(t) \/ IsFile(t) \/ Open(t) \/ Written(t) \/ Breaks(t) \/ ReadConfig(t)
    BY <2>3, Zenon DEF SetBinary, IsFile, Open, Written, Breaks, ReadConfig
  <2>4. CASE WriteConfig(t) \/ Limit(t) \/ ReadLru(t) \/ Evict(t) \/ WriteLru(t)
    BY <2>4, Zenon DEF WriteConfig, Limit, ReadLru, Evict, WriteLru
  <2> QED  BY <2>1, <2>2, <2>3, <2>4 DEF Step
<1>1. Begin(t) => Way(t)
  BY EndEnds, GotoOnward DEF Way, Allowed, Begin
<1>2. Serve(t) => Way(t)
  BY AnsweredOnward DEF Way, Allowed, Serve
<1>3. Refuse(t) => Way(t)
  BY EndEnds DEF Way, Allowed, Refuse
<1>4. Skip(t) => Way(t)
  BY EndEnds DEF Way, Allowed, Skip
<1>5. SetObject(t) => Way(t)
  BY GotoOnward DEF Way, Allowed, SetObject
<1>6. SetLink(t) => Way(t)
  BY EndEnds, GotoOnward DEF Way, Allowed, SetLink, Does
<1>7. DeleteOwn(t) => Way(t)
  BY VisitsOnward DEF Way, Allowed, DeleteOwn
<1>8. Execute(t) => Way(t)
  BY GotoOnward DEF Way, Allowed, Execute
<1>9. FetchParents(t) => Way(t)
  BY ListsOnward DEF Way, Allowed, FetchParents, Climbs
<1>25. VisitParent(t) => Way(t)
  BY EndEnds, ListsOnward DEF Way, Allowed, VisitParent, Climbs, DropCache
<1>10. FetchChildren(t) => Way(t)
  BY VisitsOnward DEF Way, Allowed, FetchChildren, Goon
<1>11. VisitChild(t) => Way(t)
  BY EndEnds, VisitsOnward DEF Way, Allowed, VisitChild, Goon, DropCache
<1>12. DeleteEnds(t) => Way(t)
  BY EndEnds DEF Way, Allowed, DeleteEnds
<1>13. SetBinary(t) => Way(t)
  BY GotoOnward DEF Way, Allowed, SetBinary, Roles, Does, At
<1>14. IsFile(t) => Way(t)
  BY GotoOnward DEF Way, Allowed, IsFile, Roles, Does, At
<1>15. Open(t) => Way(t)
  BY GotoOnward DEF Way, Allowed, Open
<1>16. Written(t) => Way(t)
  BY EndEnds, GotoOnward DEF Way, Allowed, Written
<1>17. Breaks(t) => Way(t)
  BY EndEnds DEF Way, Allowed, Breaks
<1>18. ReadConfig(t) => Way(t)
  BY EndEnds, ReadsOnward DEF Way, Allowed, ReadConfig, Fail
<1>19. WriteConfig(t) => Way(t)
  BY GotoOnward DEF Way, Allowed, WriteConfig
<1>20. Limit(t) => Way(t)
  BY EndEnds, GotoOnward DEF Way, Allowed, Limit, Fail
<1>21. ReadLru(t) => Way(t)
  BY EndEnds, ReadsOnward DEF Way, Allowed, ReadLru, Fail
<1>22. Evict(t) => Way(t)
  BY EndEnds, ReadsOnward DEF Way, Allowed, Evict, Fail
<1>23. WriteLru(t) => Way(t)
  BY EndEnds DEF Way, Allowed, WriteLru
<1>24. Way(t)
  BY <1>1, <1>2, <1>3, <1>4, <1>5, <1>6, <1>7, <1>8, <1>9, <1>10, <1>11, <1>12, <1>13, <1>14, <1>15, <1>16, <1>17, <1>18, <1>19, <1>20, <1>21, <1>22, <1>23, <1>25 DEF Step
<1> QED  BY <1>0, <1>24, RolesWay
-----------------------------------------------------------------------------
(* The invariant, for an entity that is not overtaken. *)

Deleting == {"own", "list_parents", "parents", "ups", "list_children", "children", "kids"}
Above == {"list_parents", "parents", "ups", "list_children"}
Listed == {"parents", "children"}
Object(e) == <<"object", e>>

\* A deletion deletes what it was asked to, and lists what it is about.
Below(t, k, e) == \/ \E own \in Scope(t) : k = <<"own", own>>
                  \/ k[2] \in Items /\ e = Dataset
OrderlyAt(t) ==
    At(t, Deleting) =>
      /\ Does(t, {"delete"}) /\ thread[t].target \in Scope(t)
      /\ \A k \in thread[t].kids : Below(t, k, On(t))
      /\ At(t, {"parents"}) => \A k \in rows[Proc(t)] : k[2] = thread[t].target
      /\ At(t, {"ups"}) => \A k \in thread[t].ups : k[2] = thread[t].target
      /\ At(t, {"children"}) => \A k \in rows[Proc(t)] : Below(t, k, thread[t].target)

\* The cursor of a process holds the rows of the one thread that listed.
Exclusive ==
    \A t, u \in Threads : At(t, Listed) /\ At(u, Listed) /\ Proc(t) = Proc(u) => t = u

\* What is deleted in the cache is deleted at the service, an item with its dataset.
WithDataset(e) == version[Dataset] = 0 => version[e] = 0
RemovedAt(t, e) ==
    (At(t, {"answered"} \cup Deleting) /\ Does(t, {"delete"}) /\ e \in Scope(t))
    => version[e] = 0 /\ (On(t) = Dataset => version[Dataset] = 0)

\* An answer that will be cached is what the service has.
Awaits(t, e) == At(t, {"answered"}) /\ Does(t, {"get", "patch", "upload"}) /\ On(t) = e
AnswersAt(t, e) ==
    Awaits(t, e) => thread[t].ans = version[e] /\ version[e] # 0

\* A deletion that lists the links of an entity has deleted its object key.
ClearedAt(t, e) == At(t, Deleting \ {"own", "kids"}) /\ thread[t].target = e => obj[e] = 0

AllOfThem(e) ==
    \A t \in Threads : OrderlyAt(t) /\ RemovedAt(t, e) /\ AnswersAt(t, e) /\ ClearedAt(t, e)

Linking(t, e) == At(t, {"link"}) /\ On(t) = e

\* Nobody is about to link an item of a deleted dataset.
NoneLinking(e) ==
    e \in Items /\ version[Dataset] = 0 => \A t \in Threads : ~Linking(t, e)

\* A link that expired before its object key is about to be set again.
Young(e) ==
    /\ Object(e) \in stale => obj[e] = 0 \/ e \in late
    /\ e \in late => \E t \in Threads : Linking(t, e)

\* A cached entity has a link, gets one, or is the next that a deletion deletes.
Takes(t, e) == At(t, {"own"}) /\ thread[t].target = e
Reached(e) ==
    obj[e] # 0 => \/ Object(e) \in Live
                  \/ \E t \in Threads : Linking(t, e) \/ Takes(t, e)

\* The change of thread t still has to reach the cached json of e: it just happened, or it
\* deletes a dataset and has not come to the link of e.
Owes(t, e) ==
    /\ At(t, {"answered"} \cup Deleting) /\ e \in Scope(t)
    /\ \/ At(t, {"answered"})
       \/ Takes(t, e)
       \/ At(t, Deleting) /\ Object(e) \in thread[t].kids
       \/ /\ At(t, Above) /\ thread[t].target = Dataset
          /\ e \in Items /\ Object(e) \in links
       \/ At(t, {"children"}) /\ thread[t].target = Dataset /\ Object(e) \in rows[Proc(t)]

Fresh(e) == obj[e] \in {0, version[e]} \/ \E t \in Threads : Owes(t, e)

Good(e) ==
    /\ AllOfThem(e) /\ Exclusive
    /\ WithDataset(e) /\ NoneLinking(e) /\ Young(e) /\ Reached(e) /\ Fresh(e)

CacheInv ==
    /\ Base
    /\ \A e \in Entities \ overtaken : Good(e)
-----------------------------------------------------------------------------
(* Files. *)

FileInv == Base /\ WholeUnlessSpoiled

\* A step that only empties files, or spoils more, keeps the invariant.
LEMMA FileShrinks ==
    ASSUME FileInv, spoiled \subseteq spoiled', \A i \in Items : file'[i] \in {file[i], "none"}
    PROVE  WholeUnlessSpoiled'
  BY DEF FileInv, Base, WholeUnlessSpoiled

LEMMA FileStep ==
    ASSUME FileInv, NEW t \in Threads, Step(t)
    PROVE  WholeUnlessSpoiled'
<1>1. CASE Begin(t) \/ Serve(t) \/ Refuse(t) \/ Skip(t) \/ SetObject(t) \/ SetLink(t)
           \/ DeleteOwn(t) \/ Execute(t) \/ FetchParents(t) \/ FetchChildren(t)
           \/ DeleteEnds(t) \/ SetBinary(t) \/ IsFile(t) \/ ReadConfig(t) \/ WriteConfig(t) \/ Limit(t)
           \/ ReadLru(t) \/ WriteLru(t) \/ Breaks(t)
  <2>1. file' = file /\ spoiled' = spoiled
    BY <1>1 DEF Begin, Serve, Refuse, Skip, SetObject, SetLink, DeleteOwn, Execute,
       FetchParents, FetchChildren, DeleteEnds, SetBinary, IsFile, ReadConfig, WriteConfig,
       Limit, ReadLru, WriteLru, Breaks, files, history
  <2> QED  BY <2>1 DEF FileInv, Base, WholeUnlessSpoiled
<1>2. CASE VisitParent(t) \/ VisitChild(t)
  <2>1. file' = file \/ \E k : Unlink(k)  BY <1>2 DEF VisitParent, VisitChild
  <2>2. spoiled' = spoiled
    BY <1>2 DEF VisitParent, VisitChild
  <2> QED  BY <2>1, <2>2, FileShrinks DEF Unlink, FileInv, Base
<1>3. CASE Evict(t)
  <2>1. PICK i : file' = [file EXCEPT ![i] = "none"] /\ spoiled' = spoiled
    BY <1>3 DEF Evict, history
  <2> QED  BY <2>1, FileShrinks DEF FileInv, Base
<1>4. CASE Open(t)
  <2>1. CASE Does(t, ToTemp)
    <3>1. file' = file /\ spoiled \subseteq spoiled'  BY <1>4, <2>1 DEF Open
    <3> QED  BY <3>1 DEF FileInv, Base, WholeUnlessSpoiled
  <2>2. CASE ~Does(t, ToTemp)
    <3>1. At(t, {"open"}) /\ Does(t, {"upload"})
      BY <1>4, <2>2 DEF Open, FileInv, Base, Roles, At, Does, ToTemp, Suffixed
    <3> QED  BY <1>4, <2>2, <3>1 DEF Open, FileInv, Base, WholeUnlessSpoiled
  <2> QED  BY <2>1, <2>2
<1>5. CASE Written(t)
  <2>1. spoiled' = spoiled  BY <1>5 DEF Written, history
  <2>2. CASE file' = file  BY <2>1, <2>2 DEF FileInv, Base, WholeUnlessSpoiled
  <2>3. CASE file' # file
    <3>1. PICK o \in Outcomes(t) : file' = [file EXCEPT ![On(t)] = o]
      BY <1>5, <2>3 DEF Written
    <3> QED  BY <2>1, <3>1 DEF FileInv, Base, WholeUnlessSpoiled, Outcomes
  <2> QED  BY <2>2, <2>3
<1> QED  BY <1>1, <1>2, <1>3, <1>4, <1>5 DEF Step

LEMMA BaseStep ==
    ASSUME Base, NEW t \in Threads, Step(t)
    PROVE  UNCHANGED scene /\ Base'
<1>1. UNCHANGED scene /\ Shape' /\ Roles'
  BY RolesStep DEF Base
<1>2. version' \in [Entities -> Nat]
  <2>1. version' = version \/ version' = Changed(t)
    BY DEF Step, Begin, Serve, Refuse, Skip, SetObject, SetLink, DeleteOwn, Execute, FetchParents,
       VisitParent, FetchChildren, VisitChild, DeleteEnds, SetBinary, IsFile, Open, Written,
       Breaks, ReadConfig, WriteConfig, Limit, ReadLru, Evict, WriteLru
  <2>2. Changed(t) \in [Entities -> Nat]  BY DEF Changed, Base
  <2> QED  BY <2>1, <2>2 DEF Base
<1>3. obj' = [e \in Entities |-> obj'[e]]
  <2>1. CASE SetObject(t)  BY <2>1 DEF SetObject, Base
  <2>2. CASE DeleteOwn(t)  BY <2>2 DEF DeleteOwn, Base
  <2>4. CASE VisitParent(t) \/ VisitChild(t)
    BY <2>4 DEF VisitParent, VisitChild, Unlink, keys, Base
  <2>3. CASE ~SetObject(t) /\ ~DeleteOwn(t) /\ ~VisitParent(t) /\ ~VisitChild(t)
    <3>1. obj' = obj
      BY <2>3 DEF Step, Begin, Serve, Refuse, Skip, SetLink, Execute, FetchParents,
         FetchChildren, DeleteEnds, SetBinary, IsFile, Open, Written, Breaks,
         ReadConfig, WriteConfig, Limit, ReadLru, Evict, WriteLru, keys
    <3> QED  BY <3>1 DEF Base
  <2> QED  BY <2>1, <2>2, <2>3, <2>4
<1>4. rows' = [p \in Processes |-> rows'[p]]
  <2>1. CASE Execute(t)  BY <2>1 DEF Execute, Base
  <2>2. CASE FetchParents(t) \/ FetchChildren(t)  BY <2>2 DEF FetchParents, FetchChildren, Base
  <2>3. CASE ~Execute(t) /\ ~FetchParents(t) /\ ~FetchChildren(t)
    <3>1. rows' = rows
      BY <2>3 DEF Step, Begin, Serve, Refuse, Skip, SetObject, SetLink, DeleteOwn, VisitParent,
         VisitChild, DeleteEnds, SetBinary, IsFile, Open, Written, Breaks,
         ReadConfig, WriteConfig, Limit, ReadLru, Evict, WriteLru
    <3> QED  BY <3>1 DEF Base
  <2> QED  BY <2>1, <2>2, <2>3
<1>5. file' = [i \in Items |-> file'[i]]
  <2>1. CASE VisitParent(t) \/ VisitChild(t)  BY <2>1 DEF VisitParent, VisitChild, Unlink, Base
  <2>2. CASE Open(t)  BY <2>2 DEF Open, Base
  <2>3. CASE Written(t)  BY <2>3 DEF Written, Base
  <2>4. CASE Evict(t)  BY <2>4 DEF Evict, Base
  <2>5. CASE ~VisitParent(t) /\ ~VisitChild(t) /\ ~Open(t) /\ ~Written(t) /\ ~Evict(t)
    <3>1. file' = file
      BY <2>5 DEF Step, Begin, Serve, Refuse, Skip, SetObject, SetLink, DeleteOwn, Execute,
         FetchParents, FetchChildren, DeleteEnds, SetBinary, IsFile, Breaks, ReadConfig, WriteConfig, Limit,
         ReadLru, WriteLru, files
    <3> QED  BY <3>1 DEF Base
  <2> QED  BY <2>1, <2>2, <2>3, <2>4, <2>5
<1> QED  BY <1>1, <1>2, <1>3, <1>4, <1>5 DEF Base

\* A crash ends the threads of its process.
Dies(p) ==
    /\ Shape'
    /\ \A t \in Threads : IF Proc(t) = p THEN thread'[t].pc = "dead" ELSE thread'[t] = thread[t]

LEMMA CrashDies ==
    ASSUME Shape, NEW p, Crash(p)
    PROVE  Dies(p)
<1> DEFINE dead(t) == [thread[t] EXCEPT !.pc = "dead"]
<1>1. thread' = [t \in Threads |-> IF Proc(t) = p THEN dead(t) ELSE thread[t]]
  BY DEF Crash
<1>2. ASSUME NEW t \in Threads
      PROVE  dead(t) = Same(t, "dead", thread[t].target, thread[t].kids)
  <2> DEFINE x == thread[t]
  <2>1. x = Fields(x.pc, x.at, x.ans, x.target, x.ups, x.kids, x.read)  BY Itself
  <2> HIDE DEF x
  <2>2. ASSUME NEW z, z = [x EXCEPT !.pc = "dead"]
        PROVE  z = Fields("dead", x.at, x.ans, x.target, x.ups, x.kids, x.read)
    BY <2>1, <2>2 DEF Fields
  <2>3. [x EXCEPT !.pc = "dead"] = Fields("dead", x.at, x.ans, x.target, x.ups, x.kids, x.read)
    BY <2>2, Zenon
  <2> QED  BY <2>3, Zenon DEF Same, x
<1> HIDE DEF dead
<1>3. \A t \in Threads : IF Proc(t) = p THEN thread'[t] = Same(t, "dead", thread[t].target,
                                                             thread[t].kids)
                         ELSE thread'[t] = thread[t]
  BY <1>1, <1>2
<1>4. Shape'  BY <1>1, <1>3 DEF Shape, Same, Fields
<1>5. ASSUME NEW t \in Threads, Proc(t) = p
      PROVE  thread'[t].pc = "dead"
  <2>1. thread'[t] = Same(t, "dead", thread[t].target, thread[t].kids)  BY <1>3, <1>5
  <2> QED  BY <2>1 DEF Same, Fields
<1> QED  BY <1>3, <1>4, <1>5 DEF Dies

LEMMA BaseNext ==
    ASSUME Base, [Next]_vars
    PROVE  UNCHANGED scene /\ Base'
<1>1. ASSUME NEW t \in Threads, Step(t)
      PROVE  UNCHANGED scene /\ Base'
  BY <1>1, BaseStep
<1>2. ASSUME NEW p \in Processes, Judge(p) \/ Remove(p)
      PROVE  UNCHANGED scene /\ Base'
  <2>1. UNCHANGED <<scene, version, obj, rows, thread>>
    BY <1>2, Zenon DEF Judge, Remove, keys
  <2>2. file' = [i \in Items |-> file'[i]]
    BY <1>2 DEF Judge, Remove, files, Base
  <2> QED  BY <2>1, <2>2 DEF Base, Shape, Same, Roles, Proc, At, Does, Op
<1>3. ASSUME NEW p \in Processes, Crash(p)
      PROVE  UNCHANGED scene /\ Base'
  <2>1. UNCHANGED <<scene, version, obj, rows, file>>
    BY <1>3, Zenon DEF Crash, keys, files
  <2>2. Dies(p)  BY <1>3, CrashDies DEF Base
  <2>3. Roles'
    <3>1. \A t \in Threads : thread'[t] = thread[t] \/ thread'[t].pc = "dead"  BY <2>2 DEF Dies
    <3> QED  BY <2>1, <3>1 DEF Base, Roles, Proc, At, Does, Op
  <2> QED  BY <2>1, <2>2, <2>3 DEF Base, Dies
<1>4. ASSUME Expire \/ Cull
      PROVE  UNCHANGED scene /\ Base'
  <2>1. UNCHANGED <<scene, version, rows, file, thread>>
    BY <1>4, Zenon DEF Expire, Cull, files
  <2>2. obj' = [e \in Entities |-> obj'[e]]
    BY <1>4 DEF Expire, Cull, Base
  <2> QED  BY <2>1, <2>2 DEF Base, Shape, Same, Roles, Proc, At, Does, Op
<1>5. ASSUME UNCHANGED vars
      PROVE  UNCHANGED scene /\ Base'
  <2>1. UNCHANGED <<scene, version, obj, rows, file, thread>>
    BY <1>5, Zenon DEF vars, keys, files
  <2> QED  BY <2>1 DEF Base, Shape, Same, Roles, Proc, At, Does, Op
<1> QED  BY <1>1, <1>2, <1>3, <1>4, <1>5 DEF Next, Done

LEMMA BaseInit == Init => Base
<1> SUFFICES ASSUME Init PROVE Base  OBVIOUS
<1>1. Shape  BY DEF Init, Shape, Same, Fields
<1>2. Roles
  <2>1. scene.proc \in [Threads -> Processes]
    BY EntityCacheAssumption DEF Init, SceneType
  <2> QED  BY <2>1 DEF Init, Roles, Proc, At
<1> QED  BY <1>1, <1>2 DEF Init, Base

LEMMA FileNext ==
    ASSUME FileInv, [Next]_vars
    PROVE  FileInv'
<1>1. Base'  BY BaseNext DEF FileInv
<1>2. WholeUnlessSpoiled'
  <2>1. ASSUME NEW t \in Threads, Step(t)
        PROVE  WholeUnlessSpoiled'
    BY <2>1, FileStep
  <2>2. ASSUME NEW p \in Processes, Judge(p) \/ Remove(p)
        PROVE  WholeUnlessSpoiled'
    <3>1. /\ spoiled' = spoiled
          /\ file' = file \/ \E i : file' = [file EXCEPT ![i] = "none"]
      BY <2>2 DEF Judge, Remove, files, history
    <3> QED  BY <3>1 DEF FileInv, Base, WholeUnlessSpoiled
  <2>3. ASSUME (\E p \in Processes : Crash(p)) \/ Expire \/ Cull \/ UNCHANGED vars
        PROVE  WholeUnlessSpoiled'
    <3>1. UNCHANGED <<file, spoiled>>
      BY <2>3, Zenon DEF Crash, Expire, Cull, vars, files, history
    <3> QED  BY <3>1 DEF FileInv, WholeUnlessSpoiled
  <2> QED  BY <2>1, <2>2, <2>3 DEF Next, Done
<1> QED  BY <1>1, <1>2 DEF FileInv

\* A reader of the binary cache meets half a file that one thread wrote only when its
\* connection was closed early without an error: a stream is written next to its file and
\* moved at its end, and a stream that breaks, an eviction, a deletion, the housekeeping or
\* a crash leaves a file as it is or none (cache.py, write_stream).
THEOREM CacheWhole == Spec => []WholeUnlessSpoiled
<1>1. Init => FileInv
  <2> SUFFICES ASSUME Init PROVE FileInv  OBVIOUS
  <2>1. Base  BY BaseInit
  <2> QED  BY <2>1 DEF Init, FileInv, WholeUnlessSpoiled
<1>2. FileInv /\ [Next]_vars => FileInv'  BY FileNext
<1>3. FileInv => WholeUnlessSpoiled  BY DEF FileInv
<1> QED  BY <1>1, <1>2, <1>3, PTL DEF Spec
-----------------------------------------------------------------------------
(* Entities and links: what a step of one thread does not disturb. *)

\* A thread that took no step.
Still(u) ==
    /\ thread'[u] = thread[u] /\ Proc(u)' = Proc(u)
    /\ Scope(u)' = Scope(u) /\ On(u)' = On(u)
    /\ \A ops : (Does(u, ops)' <=> Does(u, ops)) /\ (At(u, ops)' <=> At(u, ops))

LEMMA OthersStill ==
    ASSUME UNCHANGED scene, NEW t \in Threads, NEW u \in Threads, u # t, Others(t)
    PROVE  Still(u)
  BY Elsewhere DEF Still

LEMMA StillParts ==
    ASSUME NEW u, NEW e, Still(u)
    PROVE  /\ Linking(u, e)' <=> Linking(u, e)
           /\ Takes(u, e)' <=> Takes(u, e)
  BY DEF Still, Linking, Takes

LEMMA StillOrderly ==
    ASSUME NEW u, Still(u), OrderlyAt(u),
           At(u, Listed) => rows'[Proc(u)] = rows[Proc(u)]
    PROVE  OrderlyAt(u)'
<1> SUFFICES ASSUME At(u, Deleting)' PROVE
      /\ Does(u, {"delete"})' /\ thread'[u].target \in Scope(u)'
      /\ \A k \in thread'[u].kids : Below(u, k, On(u))'
      /\ At(u, {"parents"})' => \A k \in rows'[Proc(u)'] : k[2] = thread'[u].target
      /\ At(u, {"ups"})' => \A k \in thread'[u].ups : k[2] = thread'[u].target
      /\ At(u, {"children"})' => \A k \in rows'[Proc(u)'] : Below(u, k, thread[u].target)'
  BY DEF OrderlyAt
<1>1. At(u, Deleting)  BY DEF Still
<1>2. At(u, {"parents"}) \/ At(u, {"children"}) => At(u, Listed)  BY DEF At, Listed
<1> QED  BY <1>1, <1>2 DEF OrderlyAt, Still, Below

LEMMA StillRemoved ==
    ASSUME NEW u, NEW e, Still(u), RemovedAt(u, e),
           version[e] = 0 => version'[e] = 0,
           version[Dataset] = 0 => version'[Dataset] = 0
    PROVE  RemovedAt(u, e)'
  BY DEF RemovedAt, Still

LEMMA StillAnswers ==
    ASSUME NEW u, NEW e, Still(u), AnswersAt(u, e),
           Awaits(u, e) => version'[e] = version[e]
    PROVE  AnswersAt(u, e)'
  BY DEF AnswersAt, Awaits, Still

LEMMA StillCleared ==
    ASSUME NEW u, NEW e, Still(u), ClearedAt(u, e), obj[e] = 0 => obj'[e] = 0
    PROVE  ClearedAt(u, e)'
  BY DEF ClearedAt, Still

LEMMA StillOwes ==
    ASSUME NEW u, NEW e, Still(u), Owes(u, e),
           Object(e) \in links => Object(e) \in links',
           At(u, Listed) => rows'[Proc(u)] = rows[Proc(u)]
    PROVE  Owes(u, e)'
<1>1. At(u, {"children"}) => At(u, Listed)  BY DEF At, Listed
<1>2. Takes(u, e)' <=> Takes(u, e)  BY StillParts
<1>3. /\ At(u, {"answered"} \cup Deleting)' /\ e \in Scope(u)'
      /\ At(u, {"answered"})' <=> At(u, {"answered"})
      /\ At(u, Deleting)' <=> At(u, Deleting)
      /\ At(u, {"children"})' <=> At(u, {"children"})
      /\ At(u, Above)' <=>
           At(u, Above)
      /\ thread'[u] = thread[u] /\ Proc(u)' = Proc(u)
  BY DEF Owes, Still
<1> QED  BY <1>1, <1>2, <1>3 DEF Owes

\* A thread at any other label has no part in this.
Important == {"answered", "link"} \cup Deleting

LEMMA ElseParts ==
    ASSUME NEW t, NEW e, thread'[t].pc \notin Important
    PROVE  /\ OrderlyAt(t)' /\ RemovedAt(t, e)' /\ AnswersAt(t, e)' /\ ClearedAt(t, e)'
           /\ ~Linking(t, e)' /\ ~Takes(t, e)' /\ ~Owes(t, e)' /\ ~At(t, Listed)'
<1>1. \A X \in SUBSET Important : ~At(t, X)'  BY DEF At
<1>2. ~At(t, Deleting)' /\ ~At(t, {"answered"})' /\ ~At(t, {"answered"} \cup Deleting)'
      /\ ~At(t, Deleting \ {"own", "kids"})' /\ ~At(t, {"link"})' /\ ~At(t, {"own"})'
      /\ ~At(t, Listed)'
  BY <1>1 DEF Important, Deleting, Listed
<1> QED
  BY <1>2 DEF OrderlyAt, RemovedAt, AnswersAt, Awaits, ClearedAt, Linking, Takes, Owes

LEMMA Frame ==
    ASSUME NEW e, NEW t \in Threads, AllOfThem(e), Exclusive, UNCHANGED scene, Others(t),
           OrderlyAt(t)', RemovedAt(t, e)', AnswersAt(t, e)', ClearedAt(t, e)',
           At(t, Listed)' =>
             \A u \in Threads : u # t /\ Proc(u) = Proc(t) => ~At(u, Listed),
           \A u \in Threads : u # t /\ At(u, Listed) => rows'[Proc(u)] = rows[Proc(u)],
           version[e] = 0 => version'[e] = 0,
           version[Dataset] = 0 => version'[Dataset] = 0,
           \A u \in Threads : (u # t /\ Awaits(u, e)) => version'[e] = version[e],
           \A u \in Threads : u # t => ClearedAt(u, e)'
    PROVE  AllOfThem(e)' /\ Exclusive'
<1>1. ASSUME NEW u \in Threads
      PROVE  OrderlyAt(u)' /\ RemovedAt(u, e)' /\ AnswersAt(u, e)' /\ ClearedAt(u, e)'
  <2>1. CASE u = t  BY <2>1
  <2>2. CASE u # t
    <3>1. Still(u)  BY <2>2, OthersStill
    <3>2. OrderlyAt(u) /\ RemovedAt(u, e) /\ AnswersAt(u, e)  BY DEF AllOfThem
    <3> QED  BY <2>2, <3>1, <3>2, StillOrderly, StillRemoved, StillAnswers
  <2> QED  BY <2>1, <2>2
<1>2. AllOfThem(e)'  BY <1>1 DEF AllOfThem
<1>3. ASSUME NEW x \in Threads, NEW y \in Threads, At(x, Listed)', At(y, Listed)', Proc(x)' = Proc(y)'
      PROVE  x = y
  <2>1. \A u \in Threads : Proc(u)' = Proc(u)  BY DEF Proc
  <2>2. \A u \in Threads : u # t => (At(u, Listed)' <=> At(u, Listed))
    BY OthersStill DEF Still
  <2> QED  BY <1>3, <2>1, <2>2 DEF Exclusive
<1>4. Exclusive'  BY <1>3 DEF Exclusive
<1> QED  BY <1>2, <1>4

\* A step that touches neither the entity nor its keys, by a thread that has no part in it
\* afterwards and owed it nothing.
Quiet(t, e) ==
    /\ UNCHANGED scene /\ (e \in late' <=> e \in late)
    /\ \A u \in Threads : u # t /\ At(u, Listed) => rows'[Proc(u)] = rows[Proc(u)]
    /\ version'[e] = version[e] /\ obj'[e] = obj[e]
    /\ version'[Dataset] = 0 <=> version[Dataset] = 0
    /\ Object(e) \in links' <=> Object(e) \in links
    /\ Object(e) \in stale' <=> Object(e) \in stale
    /\ Others(t) /\ thread'[t].pc \notin Important
    /\ ~Linking(t, e) /\ ~Takes(t, e) /\ ~Owes(t, e)

LEMMA QuietKeeps ==
    ASSUME NEW e, NEW t \in Threads, Good(e), Quiet(t, e)
    PROVE  Good(e)'
<1>1. /\ OrderlyAt(t)' /\ RemovedAt(t, e)' /\ AnswersAt(t, e)' /\ ClearedAt(t, e)'
      /\ ~Linking(t, e)' /\ ~Takes(t, e)' /\ ~Owes(t, e)' /\ ~At(t, Listed)'
  BY ElseParts DEF Quiet
<1>2. \A u \in Threads : u # t => Still(u)
  BY OthersStill DEF Quiet
<1>3. /\ UNCHANGED scene /\ Others(t)
      /\ \A u \in Threads : u # t /\ At(u, Listed) => rows'[Proc(u)] = rows[Proc(u)]
      /\ e \in late' <=> e \in late
      /\ version'[e] = version[e] /\ obj'[e] = obj[e]
      /\ version'[Dataset] = 0 <=> version[Dataset] = 0
      /\ Object(e) \in links' <=> Object(e) \in links
      /\ Object(e) \in stale' <=> Object(e) \in stale
  BY DEF Quiet
<1>4. AllOfThem(e)' /\ Exclusive'
  <2>1. \A u \in Threads : u # t => ClearedAt(u, e)'
    BY <1>2, <1>3, StillCleared DEF Good, AllOfThem
  <2> QED  BY <1>1, <1>3, <2>1, Frame DEF Good
<1>5. \A u \in Threads : Linking(u, e)' <=> Linking(u, e)
  BY <1>1, <1>2, StillParts DEF Quiet
<1>6. \A u \in Threads : Takes(u, e)' <=> Takes(u, e)
  BY <1>1, <1>2, StillParts DEF Quiet
<1>7. \A u \in Threads : Owes(u, e) => Owes(u, e)'
  BY <1>2, <1>3, StillOwes DEF Quiet
<1>8. WithDataset(e)' /\ NoneLinking(e)' /\ Young(e)'
  BY <1>3, <1>5 DEF Good, WithDataset, NoneLinking, Young
<1>9. Reached(e)'
  BY <1>3, <1>5, <1>6 DEF Good, Reached, Live
<1>10. Fresh(e)'
  BY <1>3, <1>7 DEF Good, Fresh
<1> QED  BY <1>4, <1>8, <1>9, <1>10 DEF Good

LEMMA NoPart ==
    ASSUME NEW t, NEW e, thread[t].pc \notin Important
    PROVE  ~Linking(t, e) /\ ~Takes(t, e) /\ ~Owes(t, e)
<1>1. ~At(t, {"link"}) /\ ~At(t, {"own"}) /\ ~At(t, {"answered"} \cup Deleting)
  BY DEF At, Important, Deleting
<1> QED  BY <1>1 DEF Linking, Takes, Owes

\* The steps before the answer, and those that store a binary.
LEMMA StoringKeeps ==
    ASSUME Base, NEW t \in Threads, NEW e \in Entities, Good(e),
           \/ Begin(t) \/ IsFile(t) \/ Open(t) \/ Written(t) \/ Breaks(t) \/ ReadConfig(t)
           \/ WriteConfig(t) \/ Limit(t) \/ ReadLru(t) \/ Evict(t) \/ WriteLru(t)
    PROVE  Good(e)'
<1>1. thread[t].pc \notin Important
  BY DEF Begin, IsFile, Open, Written, Breaks, ReadConfig, WriteConfig, Limit, ReadLru, Evict,
     WriteLru, At, Important, Deleting
<1>2. UNCHANGED <<scene, version, keys, rows>>
  <2>1. CASE Begin(t) \/ IsFile(t) \/ Open(t) \/ Written(t) \/ Breaks(t)
    BY <2>1, Zenon DEF Begin, IsFile, Open, Written, Breaks
  <2>2. CASE ReadConfig(t) \/ WriteConfig(t) \/ Limit(t) \/ ReadLru(t) \/ Evict(t) \/ WriteLru(t)
    BY <2>2, Zenon DEF ReadConfig, WriteConfig, Limit, ReadLru, Evict, WriteLru
  <2> QED  BY <2>1, <2>2
<1>3. Ends(t) \/ \E l : l \notin Important /\ Onward(t, l)
  <2>0. Shape  BY DEF Base
  <2> USE DEF Important, Deleting
  <2>1. CASE Begin(t)  BY <2>0, <2>1, EndEnds, GotoOnward DEF Begin
  <2>2. CASE IsFile(t)  BY <2>0, <2>2, GotoOnward DEF IsFile
  <2>3. CASE Open(t)  BY <2>0, <2>3, GotoOnward DEF Open
  <2>4. CASE Written(t)  BY <2>0, <2>4, EndEnds, GotoOnward DEF Written
  <2>5. CASE Breaks(t)  BY <2>0, <2>5, EndEnds DEF Breaks
  <2>6. CASE ReadConfig(t)  BY <2>0, <2>6, EndEnds, ReadsOnward DEF ReadConfig, Fail
  <2>7. CASE WriteConfig(t)  BY <2>0, <2>7, GotoOnward DEF WriteConfig
  <2>8. CASE Limit(t)  BY <2>0, <2>8, EndEnds, GotoOnward DEF Limit, Fail
  <2>9. CASE ReadLru(t)  BY <2>0, <2>9, EndEnds, ReadsOnward DEF ReadLru, Fail
  <2>10. CASE Evict(t)  BY <2>0, <2>10, EndEnds, ReadsOnward DEF Evict, Fail
  <2>11. CASE WriteLru(t)  BY <2>0, <2>11, EndEnds DEF WriteLru
  <2> QED  BY <2>1, <2>2, <2>3, <2>4, <2>5, <2>6, <2>7, <2>8, <2>9, <2>10, <2>11
<1>4. Others(t) /\ thread'[t].pc \notin Important
  BY <1>3 DEF Ends, Onward, Moves, Important, Deleting
<1>5. Quiet(t, e)
  BY <1>1, <1>2, <1>4, NoPart DEF Quiet, keys, clock
<1> QED  BY <1>5, QuietKeeps

\* A thread whose operation does not change e owes it nothing.
LEMMA OwesNothing ==
    ASSUME NEW t \in Threads, NEW e, Good(e), e \notin Scope(t), ~At(t, {"link"})
    PROVE  ~Linking(t, e) /\ ~Takes(t, e) /\ ~Owes(t, e)
<1>1. ~Takes(t, e)
  <2>1. At(t, {"own"}) => At(t, Deleting)  BY DEF At, Deleting
  <2> QED  BY <2>1 DEF Takes, Good, AllOfThem, OrderlyAt
<1> QED  BY <1>1 DEF Linking, Owes

\* The request fails: the change is not made, or its entities are overtaken.
LEMMA RefuseKeeps ==
    ASSUME Base, NEW t \in Threads, NEW e \in Entities, Good(e), Refuse(t), e \notin overtaken'
    PROVE  Good(e)'
<1>1. thread[t].pc \notin Important  BY DEF Refuse, At, Important, Deleting
<1>2. UNCHANGED <<scene, keys, rows>>  BY Zenon DEF Refuse
<1>3. Ends(t)  BY EndEnds DEF Refuse, Base
<1>4. CASE version' = version
  <2>1. Quiet(t, e)
    BY <1>1, <1>2, <1>3, <1>4, NoPart DEF Quiet, keys, clock, Ends, Important, Deleting
  <2> QED  BY <2>1, QuietKeeps
<1>5. CASE version' = Changed(t) /\ overtaken' = overtaken \cup Scope(t)
  <2>1. e \notin Scope(t)  BY <1>5
  <2>2. version'[e] = version[e]  BY <1>5, <2>1 DEF Changed
  <2>3. version'[Dataset] = 0 <=> version[Dataset] = 0
    BY <1>5, <2>1 DEF Changed, Entities, Scope, Base, Does
  <2>4. Quiet(t, e)
    BY <1>1, <1>2, <1>3, <2>2, <2>3, NoPart DEF Quiet, keys, clock, Ends, Important, Deleting
  <2> QED  BY <2>4, QuietKeeps
<1> QED  BY <1>4, <1>5 DEF Refuse

\* Thread t is about to do what it does at label l.
LEMMA AtLabel ==
    ASSUME UNCHANGED scene, NEW t \in Threads, NEW l, Onward(t, l)
    PROVE  /\ Others(t) /\ \A X : At(t, X)' <=> l \in X
           /\ Op(t)' = Op(t) /\ Scope(t)' = Scope(t) /\ On(t)' = On(t) /\ Proc(t)' = Proc(t)
           /\ \A ops : Does(t, ops)' <=> Does(t, ops)
<1>1. Others(t) /\ thread'[t].pc = l /\ thread'[t].at = thread[t].at  BY DEF Onward, Moves
<1> QED  BY <1>1, SameOp DEF At, Proc

\* The service changes an entity: nobody else holds an older answer, and t owes the cache.
LEMMA ServeKeeps ==
    ASSUME Base, NEW t \in Threads, NEW e \in Entities, Good(e), Serve(t), e \notin overtaken'
    PROVE  Good(e)'
<1>1. UNCHANGED <<scene, keys, rows>>  BY Zenon DEF Serve
<1>2. Onward(t, "answered") /\ thread'[t].ans = version'[On(t)]
  BY AnsweredOnward DEF Serve, Base
<1>3. /\ version' = Changed(t) /\ version[On(t)] # 0
      /\ e \notin Overtakes(t)
  BY DEF Serve
<1>4. /\ Others(t) /\ Scope(t)' = Scope(t) /\ On(t)' = On(t)
      /\ \A X : At(t, X)' <=> "answered" \in X
      /\ \A ops : Does(t, ops)' <=> Does(t, ops)
  BY <1>1, <1>2, AtLabel
<1>5. thread[t].pc \notin Important  BY DEF Serve, At, Important, Deleting
<1>6. ~Linking(t, e) /\ ~Takes(t, e) /\ ~Owes(t, e)  BY <1>5, NoPart
<1>7. \A u \in Threads : u # t => Still(u)  BY <1>1, <1>4, OthersStill
<1>8. /\ version'[e] = IF e \notin Scope(t) \/ version[e] = 0 THEN version[e]
                       ELSE IF Does(t, {"delete"}) THEN 0 ELSE version[e] + 1
      /\ version'[Dataset] = IF Dataset \notin Scope(t) \/ version[Dataset] = 0
                             THEN version[Dataset]
                             ELSE IF Does(t, {"delete"}) THEN 0 ELSE version[Dataset] + 1
  BY <1>3 DEF Changed, Entities
<1>9. version[e] \in Nat /\ version[Dataset] \in Nat  BY DEF Base, Entities
<1>10. OrderlyAt(t)' /\ ClearedAt(t, e)' /\ ~At(t, Listed)' /\ ~Linking(t, e)' /\ ~Takes(t, e)'
  <2>1. /\ ~At(t, Deleting)' /\ ~At(t, Deleting \ {"own", "kids"})' /\ ~At(t, Listed)'
        /\ ~At(t, {"link"})' /\ ~At(t, {"own"})'
    BY <1>4 DEF Deleting, Listed
  <2> QED  BY <2>1 DEF OrderlyAt, ClearedAt, Linking, Takes
<1>11. RemovedAt(t, e)'
  <2> SUFFICES ASSUME Does(t, {"delete"}), e \in Scope(t)
               PROVE  version'[e] = 0 /\ (On(t) = Dataset => version'[Dataset] = 0)
    BY <1>4 DEF RemovedAt
  <2>1. On(t) = Dataset => Dataset \in Scope(t)  BY DEF Scope, Entities
  <2> QED  BY <1>8, <2>1
<1>12. AnswersAt(t, e)'
  <2> SUFFICES ASSUME Does(t, {"get", "patch", "upload"}), On(t) = e
               PROVE  version'[e] # 0
    BY <1>2, <1>4 DEF AnswersAt, Awaits
  <2>1. ~Does(t, {"delete"})  BY DEF Does
  <2> QED  BY <1>3, <1>8, <1>9, <2>1
<1>13. ASSUME NEW u \in Threads, u # t, Awaits(u, e)
       PROVE  version'[e] = version[e]
  <2>1. e \notin Scope(t)
    <3>1. At(u, IF e = On(t) THEN {"answered"} ELSE {"answered", "link"})
      BY <1>13 DEF Awaits, At
    <3> QED  BY <1>3, <1>13, <3>1 DEF Overtakes, Awaits
  <2> QED  BY <1>8, <2>1
<1>14. AllOfThem(e)' /\ Exclusive'
  <2>1. \A u \in Threads : u # t => ClearedAt(u, e)'
    BY <1>1, <1>7, StillCleared DEF Good, AllOfThem, keys
  <2> QED  BY <1>1, <1>4, <1>8, <1>10, <1>11, <1>12, <1>13, <2>1, Frame DEF Good
<1>15. \A u \in Threads : /\ Linking(u, e)' <=> Linking(u, e)
                          /\ Takes(u, e)' <=> Takes(u, e)
  BY <1>6, <1>7, <1>10, StillParts
<1>16. version'[Dataset] = 0 => version[Dataset] = 0 \/ (Does(t, {"delete"}) /\ Scope(t) = Entities)
  BY <1>8, <1>9 DEF Scope, Entities
<1>17. WithDataset(e)'
  BY <1>8, <1>16 DEF Good, WithDataset
<1>18. NoneLinking(e)'
  <2> SUFFICES ASSUME e \in Items, version'[Dataset] = 0, NEW u \in Threads, Linking(u, e)
               PROVE  FALSE
    BY <1>15 DEF NoneLinking
  <2>1. CASE version[Dataset] = 0  BY <2>1 DEF Good, NoneLinking
  <2>2. CASE version[Dataset] # 0
    <3>1. Does(t, {"delete"}) /\ Scope(t) = Entities  BY <1>16, <2>2
    <3>2. On(t) = Dataset /\ e # Dataset
      BY <1>8, <2>2, <3>1, EntityCacheAssumption DEF Scope, Entities
    <3>3. u # t  BY <1>6
    <3>4. Does(u, {"get", "patch", "upload"})  BY DEF Linking, Base, Roles
    <3>5. At(u, IF e = On(t) THEN {"answered"} ELSE {"answered", "link"})
      BY <3>2 DEF Linking, At
    <3> QED  BY <1>3, <3>1, <3>3, <3>4, <3>5 DEF Overtakes, Linking
  <2> QED  BY <2>1, <2>2
<1>19. Young(e)' /\ Reached(e)'
  BY <1>1, <1>15 DEF Good, Young, Reached, Live, keys, clock
<1>20. Fresh(e)'
  <2>1. CASE e \in Scope(t)
    <3>1. Owes(t, e)'  BY <1>4, <2>1 DEF Owes
    <3> QED  BY <3>1 DEF Fresh
  <2>2. CASE e \notin Scope(t)
    <3>1. version'[e] = version[e] /\ obj'[e] = obj[e]  BY <1>1, <1>8, <2>2 DEF keys
    <3>2. \A u \in Threads : Owes(u, e) => Owes(u, e)'
      BY <1>1, <1>6, <1>7, StillOwes DEF keys
    <3> QED  BY <3>1, <3>2 DEF Good, Fresh
  <2> QED  BY <2>1, <2>2
<1> QED  BY <1>14, <1>17, <1>18, <1>19, <1>20 DEF Good

LEMMA SkipKeeps ==
    ASSUME Base, NEW t \in Threads, NEW e \in Entities, Good(e), Skip(t), e \notin overtaken'
    PROVE  Good(e)'
<1>1. UNCHANGED <<scene, version, keys, rows>>  BY Zenon DEF Skip
<1>2. Ends(t)  BY EndEnds DEF Skip, Base
<1>3. e \notin Scope(t) /\ ~At(t, {"link"})  BY DEF Skip, At
<1>4. Quiet(t, e)
  BY <1>1, <1>2, <1>3, OwesNothing DEF Quiet, keys, clock, Ends, Important, Deleting
<1> QED  BY <1>4, QuietKeeps

\* An answer is cached: it is still what the service has.
LEMMA SetObjectKeeps ==
    ASSUME Base, NEW t \in Threads, NEW e \in Entities, Good(e), SetObject(t)
    PROVE  Good(e)'
<1>1. UNCHANGED <<scene, version, links, stale, rows>>  BY Zenon DEF SetObject
<1>2. Onward(t, "link")  BY GotoOnward DEF SetObject, Base
<1>3. /\ Others(t) /\ Scope(t)' = Scope(t) /\ On(t)' = On(t)
      /\ \A X : At(t, X)' <=> "link" \in X
      /\ \A ops : Does(t, ops)' <=> Does(t, ops)
  BY <1>1, <1>2, AtLabel
<1>4. At(t, {"answered"}) /\ Does(t, {"get", "patch", "upload"})  BY DEF SetObject
<1>5. \A u \in Threads : u # t => Still(u)  BY <1>1, <1>3, OthersStill
<1>6. /\ obj'[e] = IF e = On(t) THEN thread[t].ans ELSE obj[e]
      /\ late' = late \cup {On(t)}
  BY DEF SetObject, Cached, TakeAnswer, Base
<1>7. e = On(t) => obj'[e] = version[e] /\ version[e] # 0
  BY <1>4, <1>6 DEF Good, AllOfThem, AnswersAt, Awaits
<1>8. /\ ~At(t, Deleting)' /\ ~At(t, {"answered"} \cup Deleting)' /\ ~At(t, {"answered"})'
      /\ ~At(t, Deleting \ {"own", "kids"})' /\ ~At(t, Listed)' /\ ~At(t, {"own"})'
      /\ Linking(t, e)' <=> e = On(t)
  BY <1>3 DEF Deleting, Listed, Linking
<1>9. ~Linking(t, e) /\ ~Takes(t, e)  BY <1>4 DEF Linking, Takes, At
<1>10. ASSUME NEW u \in Threads, u # t
       PROVE  ClearedAt(u, e)'
  <2>1. CASE e = On(t)
    <3> SUFFICES ASSUME At(u, Deleting \ {"own", "kids"}), thread[u].target = e PROVE FALSE
      BY <1>5, <1>10 DEF ClearedAt, Still
    <3>1. At(u, Deleting) /\ At(u, {"answered"} \cup Deleting)  BY DEF At
    <3>2. Does(u, {"delete"}) /\ e \in Scope(u)  BY <3>1 DEF Good, AllOfThem, OrderlyAt
    <3>3. version[e] = 0  BY <3>1, <3>2 DEF Good, AllOfThem, RemovedAt
    <3> QED  BY <1>7, <2>1, <3>3
  <2>2. CASE e # On(t)
    <3>1. ClearedAt(u, e) /\ obj'[e] = obj[e]  BY <1>6, <2>2 DEF Good, AllOfThem
    <3> QED  BY <1>5, <1>10, <3>1, StillCleared
  <2> QED  BY <2>1, <2>2
<1>11. AllOfThem(e)' /\ Exclusive'
  <2>1. OrderlyAt(t)' /\ RemovedAt(t, e)' /\ AnswersAt(t, e)' /\ ClearedAt(t, e)'
    BY <1>8 DEF OrderlyAt, RemovedAt, AnswersAt, Awaits, ClearedAt
  <2> QED  BY <1>1, <1>3, <1>8, <1>10, <2>1, Frame DEF Good
<1>12. \A u \in Threads : /\ Linking(u, e) => Linking(u, e)'
                          /\ Takes(u, e) => Takes(u, e)'
                          /\ Linking(u, e)' => Linking(u, e) \/ e = On(t)
  BY <1>5, <1>8, <1>9, StillParts
<1>13. WithDataset(e)'  BY <1>1 DEF Good, WithDataset
<1>14. NoneLinking(e)'
  BY <1>1, <1>7, <1>12 DEF Good, WithDataset, NoneLinking
<1>15. Young(e)'
  BY <1>1, <1>6, <1>8, <1>12 DEF Good, Young
<1>16. Reached(e)'
  BY <1>1, <1>6, <1>8, <1>12 DEF Good, Reached, Live
<1>17. Fresh(e)'
  <2>1. CASE e = On(t)  BY <1>1, <1>7, <2>1 DEF Fresh
  <2>2. CASE e # On(t)
    <3>1. ~Owes(t, e)
      <4>1. ~Does(t, {"delete"})  BY <1>4 DEF Does
      <4>2. e \notin Scope(t)  BY <2>2, <4>1 DEF Scope
      <4> QED  BY <4>2 DEF Owes
    <3>2. \A u \in Threads : Owes(u, e) => Owes(u, e)'
      BY <1>1, <1>5, <3>1, StillOwes
    <3> QED  BY <1>1, <1>6, <2>2, <3>2 DEF Good, Fresh
  <2> QED  BY <2>1, <2>2
<1> QED  BY <1>11, <1>13, <1>14, <1>15, <1>16, <1>17 DEF Good

LEMMA Keys ==
    /\ \A e, i : Object(e) # <<"binary", i>>
    /\ \A e, i : Object(e) = Object(i) <=> e = i
    /\ \A e : Object(e)[1] = "object" /\ Object(e)[2] = e
  BY DEF Object

\* The link of a cached answer is set, and is young again.
LEMMA SetLinkKeeps ==
    ASSUME Base, NEW t \in Threads, NEW e \in Entities, Good(e), SetLink(t)
    PROVE  Good(e)'
<1>1. UNCHANGED <<scene, version, obj, rows>>  BY Zenon DEF SetLink
<1>2. At(t, {"link"})  BY DEF SetLink
<1>3. Others(t) /\ thread'[t].pc \notin Important
  BY EndEnds, GotoOnward DEF SetLink, Base, Ends, Onward, Moves, Important, Deleting
<1>4. /\ links' = links \cup {Object(On(t))} /\ stale' = stale \ {Object(On(t))}
      /\ late' = late \ {On(t)}
  BY DEF SetLink, Link, Object
<1>5. e # On(t) => ~Linking(t, e) /\ ~Takes(t, e) /\ ~Owes(t, e)
  BY <1>2 DEF Linking, Takes, Owes, At, Deleting
<1>6. CASE e # On(t)
  <2>1. /\ Object(e) \in links' <=> Object(e) \in links
        /\ Object(e) \in stale' <=> Object(e) \in stale
        /\ e \in late' <=> e \in late
    BY <1>4, <1>6, Keys
  <2> QED  BY <1>1, <1>3, <1>5, <1>6, <2>1, QuietKeeps DEF Quiet
<1>7. CASE e = On(t)
  <2>1. /\ OrderlyAt(t)' /\ RemovedAt(t, e)' /\ AnswersAt(t, e)' /\ ClearedAt(t, e)'
        /\ ~Linking(t, e)' /\ ~Takes(t, e)' /\ ~Owes(t, e)' /\ ~At(t, Listed)'
    BY <1>3, ElseParts
  <2>2. \A u \in Threads : u # t => Still(u)  BY <1>1, <1>3, OthersStill
  <2>3. AllOfThem(e)' /\ Exclusive'
    <3>1. \A u \in Threads : u # t => ClearedAt(u, e)'
      BY <1>1, <2>2, StillCleared DEF Good, AllOfThem
    <3> QED  BY <1>1, <1>3, <2>1, <3>1, Frame DEF Good
  <2>4. \A u \in Threads : Linking(u, e)' => Linking(u, e)
    BY <2>1, <2>2, StillParts
  <2>5. WithDataset(e)' /\ NoneLinking(e)'
    BY <1>1, <2>4 DEF Good, WithDataset, NoneLinking
  <2>6. Object(e) \in links' /\ Object(e) \notin stale' /\ e \notin late'
    BY <1>4, <1>7
  <2>7. Young(e)' /\ Reached(e)'
    BY <2>6 DEF Young, Reached, Live
  <2>8. Fresh(e)'
    <3>1. ~Owes(t, e)  BY <1>2 DEF Owes, At, Deleting
    <3>2. \A u \in Threads : Owes(u, e) => Owes(u, e)'
      BY <1>1, <2>2, <2>6, <3>1, StillOwes
    <3> QED  BY <1>1, <3>2 DEF Good, Fresh
  <2> QED  BY <2>3, <2>5, <2>7, <2>8 DEF Good
<1> QED  BY <1>6, <1>7

\* A thread about to delete e in the cache owes that.
LEMMA TakesOwes ==
    ASSUME NEW u \in Threads, NEW e, Good(e), Takes(u, e)
    PROVE  Owes(u, e)
<1>1. At(u, Deleting) /\ At(u, {"answered"} \cup Deleting)  BY DEF Takes, At, Deleting
<1>2. thread[u].target \in Scope(u)  BY <1>1 DEF Good, AllOfThem, OrderlyAt
<1> QED  BY <1>1, <1>2 DEF Owes, Takes

\* The object key goes; of a dataset, its items are found by their links.
LEMMA DeleteOwnKeeps ==
    ASSUME Base, NEW t \in Threads, NEW e \in Entities, Good(e), DeleteOwn(t)
    PROVE  Good(e)'
<1> DEFINE start == At(t, {"answered"})
           own == IF start THEN On(t) ELSE thread[t].target
           ks == IF start THEN {} ELSE thread[t].kids
<1>1. UNCHANGED <<scene, version, links, clock, rows>>  BY Zenon DEF DeleteOwn
<1>2. /\ Visits(t, "list_parents", own, ks)
      /\ obj'[e] = IF e = own THEN 0 ELSE obj[e]
      /\ (start /\ Does(t, {"delete"})) \/ (~start /\ At(t, {"own"}))
  BY DEF DeleteOwn, Base, At
<1>3. Onward(t, "list_parents") /\ thread'[t].target = own /\ thread'[t].kids = ks
  BY <1>2, VisitsMoves DEF Onward, Moves, Base
<1>4. /\ Others(t) /\ Scope(t)' = Scope(t) /\ On(t)' = On(t)
      /\ \A X : At(t, X)' <=> "list_parents" \in X
      /\ \A ops : Does(t, ops)' <=> Does(t, ops)
  BY <1>1, <1>3, AtLabel
<1>5. \A u \in Threads : u # t => Still(u)  BY <1>1, <1>4, OthersStill
<1>6. At(t, {"own"}) => At(t, Deleting)  BY DEF At, Deleting
<1>7. Does(t, {"delete"})  BY <1>2, <1>6 DEF Good, AllOfThem, OrderlyAt
<1>8. start => On(t) \in Scope(t)  BY <1>7 DEF Scope, Entities, Does, Changing
<1>9. own \in Scope(t)  BY <1>2, <1>6, <1>8 DEF Good, AllOfThem, OrderlyAt
<1>10. At(t, {"answered"} \cup Deleting) /\ ~At(t, {"link"})
  BY <1>2, <1>6 DEF At
<1> HIDE DEF own
<1>11. /\ ~At(t, {"answered"})' /\ ~At(t, Listed)' /\ ~At(t, {"own"})' /\ ~Linking(t, e)'
       /\ ~At(t, {"parents"})' /\ ~At(t, {"children"})' /\ ~Takes(t, e)' /\ At(t, Deleting)'
       /\ At(t, {"answered"} \cup Deleting)'
       /\ At(t, Above)'
  BY <1>4 DEF Deleting, Above, Listed, Linking, Takes
<1>12. AllOfThem(e)' /\ Exclusive'
  <2>1. OrderlyAt(t)'
    <3>1. \A k \in ks : Below(t, k, On(t))
      BY <1>2, <1>6 DEF Good, AllOfThem, OrderlyAt
    <3>2. ~At(t, {"ups"})'  BY <1>4
    <3> QED  BY <1>3, <1>4, <1>7, <1>9, <1>11, <3>1, <3>2 DEF OrderlyAt, Below
  <2>2. RemovedAt(t, e)'
    <3>1. RemovedAt(t, e)  BY DEF Good, AllOfThem
    <3> QED  BY <1>1, <1>4, <1>10, <3>1 DEF RemovedAt
  <2>3. AnswersAt(t, e)' /\ ClearedAt(t, e)'
    BY <1>2, <1>3, <1>11 DEF AnswersAt, Awaits, ClearedAt
  <2>4. \A u \in Threads : u # t => ClearedAt(u, e)'
    BY <1>2, <1>5, StillCleared DEF Good, AllOfThem
  <2> QED  BY <1>1, <1>4, <1>11, <2>1, <2>2, <2>3, <2>4, Frame DEF Good
<1>13. \A u \in Threads : /\ Linking(u, e)' <=> Linking(u, e)
                          /\ u # t => (Takes(u, e)' <=> Takes(u, e))
  BY <1>5, <1>10, <1>11, StillParts DEF Linking
<1>14. Takes(t, e) => e = own  BY DEF Takes, At, own
<1>15. WithDataset(e)' /\ NoneLinking(e)' /\ Young(e)'
  BY <1>1, <1>2, <1>13 DEF Good, WithDataset, NoneLinking, Young, clock
<1>16. Reached(e)'
  BY <1>1, <1>2, <1>13, <1>14 DEF Good, Reached, Live, clock
<1>17. \A u \in Threads : u # t /\ Owes(u, e) => Owes(u, e)'
  BY <1>1, <1>5, StillOwes
<1>18. Fresh(e)'
  <2> SUFFICES ASSUME e # own, obj[e] # 0, Owes(t, e)
               PROVE  \E u \in Threads : Owes(u, e)'
    BY <1>1, <1>2, <1>17 DEF Good, Fresh
  <2>1. e \in Scope(t)  BY DEF Owes
  <2>2. CASE start
    <3>1. On(t) = Dataset /\ e \in Items
      BY <1>7, <2>1, <2>2 DEF Scope, Entities, own
    <3>2. version[Dataset] = 0
      BY <1>7, <1>10, <2>1, <3>1 DEF Good, AllOfThem, RemovedAt
    <3>3. CASE Object(e) \in links
      <4>1. Owes(t, e)'
        BY <1>1, <1>3, <1>4, <1>11, <2>1, <2>2, <3>1, <3>3 DEF Owes, own
      <4> QED  BY <4>1
    <3>4. CASE Object(e) \notin links
      <4>1. PICK u \in Threads : Linking(u, e) \/ Takes(u, e)
        BY <3>4 DEF Good, Reached, Live
      <4>2. ~Linking(u, e)  BY <3>1, <3>2 DEF Good, NoneLinking
      <4>3. u # t  BY <1>14, <4>1, <4>2
      <4> QED  BY <1>17, <4>1, <4>2, <4>3, TakesOwes
    <3> QED  BY <3>3, <3>4
  <2>3. CASE ~start
    <3>1. Object(e) \in thread[t].kids
      <4>1. At(t, {"own"})  BY <1>2, <2>3
      <4>2. /\ ~At(t, {"answered"}) /\ ~At(t, Above)
            /\ ~At(t, {"children"}) /\ ~Takes(t, e)
        BY <1>14, <4>1 DEF At, Above
      <4> QED  BY <4>2 DEF Owes
    <3>2. Owes(t, e)'
      BY <1>3, <1>4, <1>11, <2>1, <2>3, <3>1 DEF Owes
    <3> QED  BY <3>2
  <2> QED  BY <2>2, <2>3
<1> QED  BY <1>12, <1>15, <1>16, <1>18 DEF Good

LEMMA DeleteEndsKeeps ==
    ASSUME Base, NEW t \in Threads, NEW e \in Entities, Good(e), DeleteEnds(t)
    PROVE  Good(e)'
<1>1. UNCHANGED <<scene, version, keys, rows>>  BY Zenon DEF DeleteEnds
<1>2. Ends(t)  BY EndEnds DEF DeleteEnds, Base
<1>3. At(t, {"kids"}) /\ thread[t].kids = {}  BY DEF DeleteEnds
<1>4. ~Linking(t, e) /\ ~Takes(t, e) /\ ~Owes(t, e)
  BY <1>3 DEF Linking, Takes, Owes, At, Above
<1> QED
  BY <1>1, <1>2, <1>4, QuietKeeps DEF Quiet, keys, clock, Ends, Important, Deleting

LEMMA SetBinaryKeeps ==
    ASSUME Base, NEW t \in Threads, NEW e \in Entities, Good(e), SetBinary(t)
    PROVE  Good(e)'
<1>1. UNCHANGED <<scene, version, obj, late, rows>>  BY Zenon DEF SetBinary
<1>2. Onward(t, "is_file")  BY GotoOnward DEF SetBinary, Base
<1>3. ~Linking(t, e) /\ ~Takes(t, e) /\ ~Owes(t, e)
  <2>1. CASE At(t, {"set_binary"})
    <3>1. thread[t].pc \notin Important  BY <2>1 DEF At, Important, Deleting
    <3> QED  BY <3>1, NoPart
  <2>2. CASE At(t, {"answered"}) /\ Does(t, {"stream"})
    <3>1. e \notin Scope(t)  BY <2>2 DEF Scope, Does, Changing
    <3>2. ~At(t, {"link"})  BY <2>2 DEF At
    <3> QED  BY <3>1, <3>2, OwesNothing
  <2> QED  BY <2>1, <2>2 DEF SetBinary
<1>4. /\ links' = links \cup {<<"binary", On(t)>>} /\ stale' = stale \ {<<"binary", On(t)>>}
  BY DEF SetBinary, Link
<1>5. /\ Object(e) \in links' <=> Object(e) \in links
      /\ Object(e) \in stale' <=> Object(e) \in stale
  BY <1>4, Keys
<1> QED
  BY <1>1, <1>2, <1>3, <1>5, QuietKeeps DEF Quiet, Onward, Moves, Important, Deleting

\* The links are listed, by a thread that has the cursor to itself.
LEMMA ExecuteKeeps ==
    ASSUME Base, NEW t \in Threads, NEW e \in Entities, Good(e), Execute(t), e \notin overtaken'
    PROVE  Good(e)'
<1> DEFINE l == IF At(t, {"list_parents"}) THEN "parents" ELSE "children"
<1>1. UNCHANGED <<scene, version, keys>>  BY Zenon DEF Execute
<1>2. /\ At(t, {"list_parents", "list_children"}) /\ Goto(t, l)
      /\ rows' = [rows EXCEPT ![Proc(t)] = Matching(t)] /\ ~Crossed(t)
  BY DEF Execute
<1>3. Onward(t, l) /\ thread'[t].target = thread[t].target /\ thread'[t].kids = thread[t].kids
  BY <1>2, GotoMoves DEF Onward, Moves, Base
<1> HIDE DEF l
<1>4. /\ Others(t) /\ Scope(t)' = Scope(t) /\ On(t)' = On(t) /\ Proc(t)' = Proc(t)
      /\ \A X : At(t, X)' <=> l \in X
      /\ \A ops : Does(t, ops)' <=> Does(t, ops)
  BY <1>1, <1>3, AtLabel
<1>5. \A u \in Threads : u # t => Still(u)  BY <1>1, <1>4, OthersStill
<1>6. /\ At(t, Deleting) /\ At(t, {"answered"} \cup Deleting) /\ At(t, Deleting \ {"own", "kids"})
      /\ ~At(t, {"link"}) /\ ~At(t, {"own"}) /\ ~At(t, {"answered"}) /\ ~At(t, {"children"})
  BY <1>2 DEF At, Deleting
<1>7. /\ Does(t, {"delete"}) /\ thread[t].target \in Scope(t)
      /\ \A k \in thread[t].kids : Below(t, k, On(t))
  BY <1>6 DEF Good, AllOfThem, OrderlyAt
<1>8. \A u \in Threads : u # t /\ Proc(u) = Proc(t) => ~At(u, Listed)
  BY <1>2 DEF Crossed, Listed
<1>9. \A u \in Threads : u # t /\ At(u, Listed) => rows'[Proc(u)] = rows[Proc(u)]
  BY <1>2, <1>8 DEF Base, Roles
<1>10. rows'[Proc(t)] = Matching(t)  BY <1>2 DEF Base, Roles
<1>11. /\ l \in {"parents", "children"} /\ (l = "parents" <=> At(t, {"list_parents"}))
  BY DEF l
<1>12. /\ ~At(t, {"answered"})' /\ ~At(t, {"own"})' /\ ~Linking(t, e)' /\ ~Takes(t, e)'
       /\ At(t, Deleting)' /\ At(t, {"answered"} \cup Deleting)'
       /\ At(t, {"parents"})' <=> l = "parents"
       /\ At(t, {"children"})' <=> l = "children"
       /\ ~At(t, {"ups"})'
  BY <1>4, <1>11 DEF Deleting, Linking, Takes
<1>13. AllOfThem(e)' /\ Exclusive'
  <2>1. OrderlyAt(t)'
    <3>1. CASE l = "parents"
      <4>1. \A k \in rows'[Proc(t)] : k[2] = thread[t].target
        BY <1>10, <1>11, <3>1 DEF Matching, LikePattern
      <4> QED  BY <1>3, <1>4, <1>7, <1>12, <3>1, <4>1 DEF OrderlyAt, Below
    <3>2. CASE l = "children"
      <4>1. \A k \in rows'[Proc(t)] : Below(t, k, thread[t].target)
        BY <1>7, <1>10, <1>11, <3>2 DEF Matching, LikePattern, Below
      <4> QED  BY <1>3, <1>4, <1>7, <1>12, <3>2, <4>1 DEF OrderlyAt, Below
    <3> QED  BY <1>11, <3>1, <3>2
  <2>2. RemovedAt(t, e)'
    <3>1. RemovedAt(t, e)  BY DEF Good, AllOfThem
    <3> QED  BY <1>1, <1>4, <1>6, <3>1 DEF RemovedAt
  <2>3. AnswersAt(t, e)' /\ ClearedAt(t, e)'
    <3>1. ClearedAt(t, e)  BY DEF Good, AllOfThem
    <3> QED  BY <1>1, <1>3, <1>6, <1>12, <3>1 DEF AnswersAt, Awaits, ClearedAt, keys
  <2>4. \A u \in Threads : u # t => ClearedAt(u, e)'
    BY <1>1, <1>5, StillCleared DEF Good, AllOfThem, keys
  <2> QED  BY <1>1, <1>4, <1>8, <1>9, <2>1, <2>2, <2>3, <2>4, Frame DEF Good
<1>14. \A u \in Threads : /\ Linking(u, e)' <=> Linking(u, e)
                          /\ Takes(u, e)' <=> Takes(u, e)
  BY <1>5, <1>6, <1>12, StillParts DEF Linking, Takes
<1>15. WithDataset(e)' /\ NoneLinking(e)' /\ Young(e)' /\ Reached(e)'
  BY <1>1, <1>14 DEF Good, WithDataset, NoneLinking, Young, Reached, Live, keys, clock
<1>16. Owes(t, e) => Owes(t, e)'
  <2> SUFFICES ASSUME Owes(t, e) PROVE Owes(t, e)'  OBVIOUS
  <2>1. e \in Scope(t)  BY DEF Owes
  <2>2. CASE Object(e) \in thread[t].kids
    BY <1>3, <1>4, <1>12, <2>1, <2>2 DEF Owes
  <2>3. CASE Object(e) \notin thread[t].kids
    <3>1. thread[t].target = Dataset /\ e \in Items /\ Object(e) \in links
      BY <1>6, <2>3 DEF Owes, Takes
    <3>2. CASE l = "parents"
      <4>1. At(t, Above)'  BY <1>4, <3>2 DEF Above
      <4> QED  BY <1>1, <1>3, <1>4, <1>12, <2>1, <3>1, <4>1 DEF Owes, keys
    <3>3. CASE l = "children"
      <4>1. Object(e) \in rows'[Proc(t)]
        BY <1>10, <1>11, <3>1, <3>3, Keys DEF Matching, LikePattern, Entities
      <4> QED  BY <1>3, <1>4, <1>12, <2>1, <3>1, <3>3, <4>1 DEF Owes
    <3> QED  BY <1>11, <3>2, <3>3
  <2> QED  BY <2>2, <2>3
<1>17. Fresh(e)'
  <2>1. \A u \in Threads : Owes(u, e) => Owes(u, e)'
    BY <1>1, <1>5, <1>9, <1>16, StillOwes DEF keys
  <2> QED  BY <1>1, <2>1 DEF Good, Fresh, keys
<1> QED  BY <1>13, <1>15, <1>17 DEF Good

\* The links of an entity below its parent are taken in hand.
LEMMA FetchParentsKeeps ==
    ASSUME Base, NEW t \in Threads, NEW e \in Entities, Good(e), FetchParents(t)
    PROVE  Good(e)'
<1> DEFINE found == rows[Proc(t)]
           l == IF found = {} THEN "list_children" ELSE "ups"
<1>1. UNCHANGED <<scene, version, keys>>  BY Zenon DEF FetchParents
<1>2. /\ At(t, {"parents"}) /\ rows' = [rows EXCEPT ![Proc(t)] = {}]
      /\ Lists(t, l, found)
  BY DEF FetchParents, Climbs
<1>3. /\ At(t, Deleting) /\ At(t, {"answered"} \cup Deleting) /\ At(t, Listed) /\ At(t, Above)
      /\ At(t, Deleting \ {"own", "kids"})
      /\ ~At(t, {"link"}) /\ ~At(t, {"own"}) /\ ~At(t, {"answered"}) /\ ~At(t, {"children"})
  BY <1>2 DEF At, Deleting, Above, Listed
<1>4. /\ Does(t, {"delete"}) /\ thread[t].target \in Scope(t)
      /\ \A k \in thread[t].kids : Below(t, k, On(t))
      /\ \A k \in found : k[2] = thread[t].target
  BY <1>2, <1>3 DEF Good, AllOfThem, OrderlyAt
<1>5. \A u \in Threads : u # t /\ Proc(u) = Proc(t) => ~At(u, Listed)
  BY <1>3 DEF Good, Exclusive
<1>6. \A u \in Threads : u # t /\ At(u, Listed) => rows'[Proc(u)] = rows[Proc(u)]
  BY <1>2, <1>5 DEF Base, Roles
<1>11. l \in {"list_children", "ups"}  OBVIOUS
<1> HIDE DEF found, l
<1>7. /\ Onward(t, l) /\ thread'[t].target = thread[t].target
      /\ thread'[t].kids = thread[t].kids /\ thread'[t].ups = found
  BY <1>2, ListsMoves DEF Onward, Moves, Base
<1>8. /\ Others(t) /\ Scope(t)' = Scope(t) /\ On(t)' = On(t)
      /\ \A X : At(t, X)' <=> l \in X
      /\ \A ops : Does(t, ops)' <=> Does(t, ops)
  BY <1>1, <1>7, AtLabel
<1>9. \A u \in Threads : u # t => Still(u)  BY <1>1, <1>8, OthersStill
<1>10. /\ ~At(t, {"answered"})' /\ ~At(t, {"own"})' /\ ~Linking(t, e)' /\ ~Takes(t, e)'
       /\ At(t, Deleting)' /\ At(t, {"answered"} \cup Deleting)' /\ ~At(t, Listed)'
       /\ ~At(t, {"parents"})' /\ ~At(t, {"children"})' /\ At(t, Above)'
  BY <1>8, <1>11 DEF Deleting, Above, Listed, Linking, Takes
<1>12. AllOfThem(e)' /\ Exclusive'
  <2>1. OrderlyAt(t)'  BY <1>4, <1>7, <1>8, <1>10 DEF OrderlyAt, Below
  <2>2. RemovedAt(t, e)'
    <3>1. RemovedAt(t, e)  BY DEF Good, AllOfThem
    <3> QED  BY <1>1, <1>3, <1>8, <3>1 DEF RemovedAt
  <2>3. AnswersAt(t, e)' /\ ClearedAt(t, e)'
    <3>1. ClearedAt(t, e)  BY DEF Good, AllOfThem
    <3> QED  BY <1>1, <1>3, <1>7, <1>10, <3>1 DEF AnswersAt, Awaits, ClearedAt, keys
  <2>4. \A u \in Threads : u # t => ClearedAt(u, e)'
    BY <1>1, <1>9, StillCleared DEF Good, AllOfThem, keys
  <2> QED  BY <1>1, <1>6, <1>8, <1>10, <2>1, <2>2, <2>3, <2>4, Frame DEF Good
<1>13. \A u \in Threads : /\ Linking(u, e)' <=> Linking(u, e)
                          /\ Takes(u, e)' <=> Takes(u, e)
  BY <1>3, <1>9, <1>10, StillParts DEF Linking, Takes
<1>14. WithDataset(e)' /\ NoneLinking(e)' /\ Young(e)' /\ Reached(e)'
  BY <1>1, <1>13 DEF Good, WithDataset, NoneLinking, Young, Reached, Live, keys, clock
<1>15. Owes(t, e) => Owes(t, e)'
  BY <1>1, <1>3, <1>7, <1>8, <1>10, <1>13 DEF Owes, keys
<1>16. Fresh(e)'
  <2>1. \A u \in Threads : Owes(u, e) => Owes(u, e)'
    BY <1>1, <1>6, <1>9, <1>15, StillOwes DEF keys
  <2> QED  BY <1>1, <2>1 DEF Good, Fresh, keys
<1> QED  BY <1>12, <1>14, <1>16 DEF Good

\* The links of an entity below its parent go after its object key.
LEMMA VisitParentKeeps ==
    ASSUME Base, NEW t \in Threads, NEW e \in Entities, Good(e), VisitParent(t),
           e \notin overtaken'
    PROVE  Good(e)'
<1>1. UNCHANGED <<scene, version, late, rows>>  BY DEF VisitParent, Unlink, keys, clock
<1>2. /\ At(t, {"ups"})
      /\ \/ DropCache(t) /\ UNCHANGED <<keys, file>>
         \/ \E k \in thread[t].ups : Unlink(k) /\ Climbs(t, thread[t].ups \ {k})
  BY DEF VisitParent
<1>3. /\ At(t, Deleting) /\ At(t, {"answered"} \cup Deleting) /\ ~At(t, Listed) /\ At(t, Above)
      /\ At(t, Deleting \ {"own", "kids"})
      /\ ~At(t, {"link"}) /\ ~At(t, {"own"}) /\ ~At(t, {"answered"}) /\ ~At(t, {"children"})
  BY <1>2 DEF At, Deleting, Above, Listed
<1>4. /\ Does(t, {"delete"}) /\ thread[t].target \in Scope(t)
      /\ \A k \in thread[t].kids : Below(t, k, On(t))
      /\ \A k \in thread[t].ups : k[2] = thread[t].target
  BY <1>2, <1>3 DEF Good, AllOfThem, OrderlyAt
<1>6. \A u \in Threads : u # t /\ At(u, Listed) => rows'[Proc(u)] = rows[Proc(u)]
  BY <1>1
<1>8. CASE DropCache(t) /\ UNCHANGED <<keys, file>>
  <2>1. e \notin Scope(t)  BY <1>8 DEF DropCache
  <2>4. Ends(t)  BY <1>8, EndEnds DEF DropCache, Base
  <2>5. ~Linking(t, e) /\ ~Takes(t, e) /\ ~Owes(t, e)  BY <1>3, <2>1, OwesNothing
  <2>6. Quiet(t, e)
    BY <1>1, <1>6, <1>8, <2>4, <2>5 DEF Quiet, Ends, Important, Deleting, keys, clock
  <2> QED  BY <2>6, QuietKeeps
<1>9. ASSUME NEW k \in thread[t].ups, Unlink(k), Climbs(t, thread[t].ups \ {k})
      PROVE  Good(e)'
  <2> DEFINE l == IF thread[t].ups \ {k} = {} THEN "list_children" ELSE "ups"
  <2>0. /\ l \in {"list_children", "ups"} /\ Lists(t, l, thread[t].ups \ {k})
        /\ links' = links \ {k} /\ stale' = stale \ {k} /\ obj'[e] \in {0, obj[e]}
    BY <1>9 DEF Climbs, Unlink
  <2> HIDE DEF l
  <2>12. Object(e) = k => thread[t].target = e
    BY <1>4, Keys
  <2>1. /\ Onward(t, l) /\ thread'[t].target = thread[t].target
        /\ thread'[t].kids = thread[t].kids /\ thread'[t].ups \subseteq thread[t].ups
    BY <2>0, ListsMoves DEF Onward, Moves, Base
  <2>2. /\ Others(t) /\ Scope(t)' = Scope(t) /\ On(t)' = On(t)
        /\ \A X : At(t, X)' <=> l \in X
        /\ \A ops : Does(t, ops)' <=> Does(t, ops)
    BY <1>1, <2>1, AtLabel
  <2>3. \A u \in Threads : u # t => Still(u)  BY <1>1, <2>2, OthersStill
  <2>4. /\ ~At(t, {"answered"})' /\ ~At(t, {"own"})' /\ ~Linking(t, e)' /\ ~Takes(t, e)'
        /\ At(t, Deleting)' /\ At(t, {"answered"} \cup Deleting)' /\ ~At(t, Listed)'
        /\ ~At(t, {"parents"})' /\ ~At(t, {"children"})'
        /\ At(t, Above)'
    BY <2>0, <2>2 DEF Deleting, Above, Listed, Linking, Takes
  <2>5. ClearedAt(t, e)  BY DEF Good, AllOfThem
  <2>6. AllOfThem(e)' /\ Exclusive'
    <3>1. OrderlyAt(t)'  BY <1>4, <2>1, <2>2, <2>4 DEF OrderlyAt, Below
    <3>2. RemovedAt(t, e)'
      <4>1. RemovedAt(t, e)  BY DEF Good, AllOfThem
      <4> QED  BY <1>1, <1>3, <2>2, <4>1 DEF RemovedAt
    <3>3. AnswersAt(t, e)' /\ ClearedAt(t, e)'
      BY <1>1, <1>3, <2>0, <2>1, <2>4, <2>5 DEF AnswersAt, Awaits, ClearedAt
    <3>4. \A u \in Threads : u # t => ClearedAt(u, e)'
      BY <2>0, <2>3, StillCleared DEF Good, AllOfThem
    <3> QED  BY <1>1, <1>6, <2>2, <2>4, <3>1, <3>2, <3>3, <3>4, Frame DEF Good
  <2>7. \A u \in Threads : /\ Linking(u, e)' <=> Linking(u, e)
                           /\ Takes(u, e)' <=> Takes(u, e)
    BY <1>3, <2>3, <2>4, StillParts DEF Linking, Takes
  <2>8. obj[e] # 0 => Object(e) # k
    BY <1>3, <2>5, <2>12 DEF ClearedAt
  <2>9. WithDataset(e)' /\ NoneLinking(e)' /\ Young(e)'
    BY <1>1, <2>0, <2>7 DEF Good, WithDataset, NoneLinking, Young
  <2>10. Reached(e)'
    BY <2>0, <2>7, <2>8 DEF Good, Reached, Live
  <2>11. Fresh(e)'
    <3> SUFFICES ASSUME obj[e] # 0, obj'[e] = obj[e], NEW u \in Threads, Owes(u, e)
                 PROVE  \E v \in Threads : Owes(v, e)'
      BY <1>1, <2>0 DEF Good, Fresh
    <3>1. Object(e) \in links => Object(e) \in links'  BY <2>0, <2>8
    <3>2. CASE u # t  BY <1>6, <2>3, <3>1, <3>2, StillOwes
    <3>3. CASE u = t
      <4>1. /\ e \in Scope(t)
            /\ \/ Object(e) \in thread[t].kids
               \/ thread[t].target = Dataset /\ e \in Items /\ Object(e) \in links
        BY <1>3, <3>3 DEF Owes, Takes
      <4>2. Owes(t, e)'
        BY <2>1, <2>2, <2>4, <3>1, <4>1 DEF Owes
      <4> QED  BY <4>2
    <3> QED  BY <3>2, <3>3
  <2> QED  BY <2>6, <2>9, <2>10, <2>11 DEF Good
<1> QED  BY <1>2, <1>8, <1>9

\* What was listed is taken in hand.
LEMMA FetchChildrenKeeps ==
    ASSUME Base, NEW t \in Threads, NEW e \in Entities, Good(e), FetchChildren(t)
    PROVE  Good(e)'
<1> DEFINE found == rows[Proc(t)]
<1>1. UNCHANGED <<scene, version, keys>>  BY Zenon DEF FetchChildren
<1>2. /\ At(t, {"children"}) /\ rows' = [rows EXCEPT ![Proc(t)] = {}]
      /\ Visits(t, "kids", thread[t].target, thread[t].kids \cup found)
  BY DEF FetchChildren, Goon
<1>3. /\ At(t, Deleting) /\ At(t, {"answered"} \cup Deleting) /\ At(t, Listed)
      /\ ~At(t, {"link"}) /\ ~At(t, {"own"}) /\ ~At(t, {"answered"})
      /\ ~At(t, Above)
  BY <1>2 DEF At, Deleting, Above, Listed
<1>4. /\ Does(t, {"delete"}) /\ thread[t].target \in Scope(t)
      /\ \A k \in thread[t].kids : Below(t, k, On(t))
      /\ \A k \in found : Below(t, k, thread[t].target)
  BY <1>2, <1>3 DEF Good, AllOfThem, OrderlyAt
<1>5. \A u \in Threads : u # t /\ Proc(u) = Proc(t) => ~At(u, Listed)
  BY <1>3 DEF Good, Exclusive
<1>6. \A u \in Threads : u # t /\ At(u, Listed) => rows'[Proc(u)] = rows[Proc(u)]
  BY <1>2, <1>5 DEF Base, Roles
<1> HIDE DEF found
<1>7. /\ Onward(t, "kids") /\ thread'[t].target = thread[t].target
      /\ thread'[t].kids = thread[t].kids \cup found
  BY <1>2, VisitsMoves DEF Onward, Moves, Base
<1>8. /\ Others(t) /\ Scope(t)' = Scope(t) /\ On(t)' = On(t)
      /\ \A X : At(t, X)' <=> "kids" \in X
      /\ \A ops : Does(t, ops)' <=> Does(t, ops)
  BY <1>1, <1>7, AtLabel
<1>9. \A u \in Threads : u # t => Still(u)  BY <1>1, <1>8, OthersStill
<1>10. /\ ~At(t, {"answered"})' /\ ~At(t, {"own"})' /\ ~Linking(t, e)' /\ ~Takes(t, e)'
       /\ At(t, Deleting)' /\ At(t, {"answered"} \cup Deleting)' /\ ~At(t, Listed)'
       /\ ~At(t, {"parents"})' /\ ~At(t, {"ups"})' /\ ~At(t, {"children"})'
       /\ ~At(t, Deleting \ {"own", "kids"})'
  BY <1>8 DEF Deleting, Listed, Linking, Takes
<1>11. Dataset \in Scope(t) => On(t) = Dataset
  BY <1>4 DEF Scope
<1>12. AllOfThem(e)' /\ Exclusive'
  <2>1. OrderlyAt(t)'  BY <1>4, <1>7, <1>8, <1>10, <1>11 DEF OrderlyAt, Below
  <2>2. RemovedAt(t, e)'
    <3>1. RemovedAt(t, e)  BY DEF Good, AllOfThem
    <3> QED  BY <1>1, <1>3, <1>8, <3>1 DEF RemovedAt
  <2>3. AnswersAt(t, e)' /\ ClearedAt(t, e)'
    BY <1>10 DEF AnswersAt, Awaits, ClearedAt
  <2>4. \A u \in Threads : u # t => ClearedAt(u, e)'
    BY <1>1, <1>9, StillCleared DEF Good, AllOfThem, keys
  <2> QED  BY <1>1, <1>6, <1>8, <1>10, <2>1, <2>2, <2>3, <2>4, Frame DEF Good
<1>13. \A u \in Threads : /\ Linking(u, e)' <=> Linking(u, e)
                          /\ Takes(u, e)' <=> Takes(u, e)
  BY <1>3, <1>9, <1>10, StillParts DEF Linking, Takes
<1>14. WithDataset(e)' /\ NoneLinking(e)' /\ Young(e)' /\ Reached(e)'
  BY <1>1, <1>13 DEF Good, WithDataset, NoneLinking, Young, Reached, Live, keys, clock
<1>15. Owes(t, e) => Owes(t, e)'
  <2> SUFFICES ASSUME Owes(t, e) PROVE Owes(t, e)'  OBVIOUS
  <2>1. e \in Scope(t) /\ Object(e) \in thread[t].kids \cup found
    BY <1>3 DEF Owes, Takes, found
  <2> QED  BY <1>7, <1>8, <1>10, <2>1 DEF Owes
<1>16. Fresh(e)'
  <2>1. \A u \in Threads : Owes(u, e) => Owes(u, e)'
    BY <1>1, <1>6, <1>9, <1>15, StillOwes DEF keys
  <2> QED  BY <1>1, <2>1 DEF Good, Fresh, keys
<1> QED  BY <1>12, <1>14, <1>16 DEF Good

\* The link of an item goes, and the item is the next to delete.
LEMMA VisitChildKeeps ==
    ASSUME Base, NEW t \in Threads, NEW e \in Entities, Good(e), VisitChild(t),
           e \notin overtaken'
    PROVE  Good(e)'
<1>1. UNCHANGED <<scene, version, late, rows>>  BY DEF VisitChild, Unlink
<1>2. PICK k \in thread[t].kids :
        /\ Unlink(k)
        /\ IF Raises(k) THEN DropCache(t)
           ELSE IF k[1] = "binary" THEN Goon(t, "kids", thread[t].kids \ {k})
           ELSE Visits(t, "own", k[2], thread[t].kids \ {k})
  BY DEF VisitChild
<1>0. links' = links \ {k} /\ stale' = stale \ {k}  BY <1>2 DEF Unlink
<1>3. At(t, {"kids"})  BY DEF VisitChild
<1>4. /\ At(t, Deleting) /\ At(t, {"answered"} \cup Deleting)
      /\ ~At(t, {"link"}) /\ ~At(t, {"own"}) /\ ~At(t, {"answered"}) /\ ~At(t, {"children"})
      /\ ~At(t, Above)
  BY <1>3 DEF At, Deleting, Above
<1>5. /\ Does(t, {"delete"}) /\ thread[t].target \in Scope(t)
      /\ \A j \in thread[t].kids : Below(t, j, On(t))
  BY <1>4 DEF Good, AllOfThem, OrderlyAt
<1>21. On(t) = Dataset => Scope(t) = Entities  BY <1>5 DEF Scope
<1>22. \/ \E own \in Scope(t) : k = <<"own", own>>
       \/ k[2] \in Items /\ On(t) = Dataset
  BY <1>2, <1>5 DEF Below
<1>23. CASE Raises(k)
  <2>1. e \notin Scope(t) /\ Ends(t)  BY <1>2, <1>23, EndEnds DEF DropCache, Base
  <2>2. PICK own \in Scope(t) : k = <<"own", own>>  BY <1>21, <1>22, <2>1
  <2>3. k # <<"own", e>> /\ k # Object(e)  BY <2>1, <2>2 DEF Object
  <2>4. obj'[e] = obj[e]  BY <1>2, <2>3 DEF Unlink
  <2>5. ~Linking(t, e) /\ ~Takes(t, e) /\ ~Owes(t, e)  BY <1>4, <2>1, OwesNothing
  <2>6. Quiet(t, e)
    BY <1>0, <1>1, <2>1, <2>3, <2>4, <2>5 DEF Quiet, Ends, Important, Deleting
  <2> QED  BY <2>6, QuietKeeps
<1>24. CASE ~Raises(k)
  <2>6. /\ k[1] # "own" /\ k[2] \in Items
        /\ On(t) = Dataset /\ Scope(t) = Entities
    BY <1>21, <1>22, <1>24 DEF Raises
  <2>25. obj'[e] = obj[e]  BY <1>2, <2>6 DEF Unlink
  <2> DEFINE ks == thread[t].kids \ {k}
             l == IF k[1] = "binary" THEN "kids" ELSE "own"
             e1 == IF k[1] = "binary" THEN thread[t].target ELSE k[2]
  <2>8. Onward(t, l) /\ thread'[t].target = e1 /\ thread'[t].kids = ks
    <3>1. Visits(t, l, e1, ks)  BY <1>2, <1>24 DEF Goon
    <3> HIDE DEF l, e1, ks
    <3> QED  BY <3>1, VisitsMoves DEF Onward, Moves, Base
  <2>9. e1 \in Scope(t)  BY <1>2, <1>5, <2>6 DEF Entities
  <2>10. k = Object(e) => l = "own" /\ e1 = e  BY Keys
  <2>11. l \in {"kids", "own"}  OBVIOUS
  <2> HIDE DEF l, e1
  <2>12. /\ Others(t) /\ Scope(t)' = Scope(t) /\ On(t)' = On(t)
         /\ \A X : At(t, X)' <=> l \in X
         /\ \A ops : Does(t, ops)' <=> Does(t, ops)
    BY <1>1, <2>8, AtLabel
  <2>13. \A u \in Threads : u # t => Still(u)  BY <1>1, <2>12, OthersStill
  <2>14. /\ ~At(t, {"answered"})' /\ ~Linking(t, e)' /\ At(t, Deleting)'
         /\ At(t, {"answered"} \cup Deleting)' /\ ~At(t, Listed)'
         /\ ~At(t, {"parents"})' /\ ~At(t, {"ups"})' /\ ~At(t, {"children"})'
         /\ ~At(t, Deleting \ {"own", "kids"})'
    BY <2>11, <2>12 DEF Deleting, Listed, Linking
  <2>15. k = Object(e) => Takes(t, e)'
    BY <2>8, <2>10, <2>12 DEF Takes
  <2>16. AllOfThem(e)' /\ Exclusive'
    <3>1. OrderlyAt(t)'
      BY <1>5, <2>8, <2>9, <2>12, <2>14 DEF OrderlyAt, Below
    <3>2. RemovedAt(t, e)'
      <4>1. RemovedAt(t, e)  BY DEF Good, AllOfThem
      <4> QED  BY <1>1, <1>4, <2>12, <4>1 DEF RemovedAt
    <3>3. AnswersAt(t, e)' /\ ClearedAt(t, e)'
      BY <2>14 DEF AnswersAt, Awaits, ClearedAt
    <3>4. \A u \in Threads : u # t => ClearedAt(u, e)'
      BY <1>1, <2>13, <2>25, StillCleared DEF Good, AllOfThem
    <3> QED  BY <1>1, <2>12, <2>14, <3>1, <3>2, <3>3, <3>4, Frame DEF Good
  <2>17. \A u \in Threads : /\ Linking(u, e)' <=> Linking(u, e)
                            /\ Takes(u, e) => Takes(u, e)'
    BY <1>4, <2>13, <2>14, StillParts DEF Linking, Takes
  <2>18. WithDataset(e)' /\ NoneLinking(e)' /\ Young(e)'
    BY <1>0, <1>1, <2>17, <2>25 DEF Good, WithDataset, NoneLinking, Young
  <2>19. Reached(e)'
    <3>1. CASE k = Object(e)  BY <2>15, <3>1 DEF Reached
    <3>2. CASE k # Object(e)
      BY <1>0, <1>1, <2>17, <2>25, <3>2 DEF Good, Reached, Live
    <3> QED  BY <3>1, <3>2
  <2>20. Fresh(e)'
    <3>1. CASE k = Object(e)
      <4>1. Owes(t, e)'  BY <2>6, <2>12, <2>14, <2>15, <3>1 DEF Owes
      <4> QED  BY <4>1 DEF Fresh
    <3>2. CASE k # Object(e)
      <4>1. Owes(t, e) => Owes(t, e)'
        <5> SUFFICES ASSUME Owes(t, e) PROVE Owes(t, e)'  OBVIOUS
        <5>1. e \in Scope(t) /\ Object(e) \in thread[t].kids
          BY <1>4 DEF Owes, Takes
        <5> QED  BY <2>8, <2>12, <2>14, <3>2, <5>1 DEF Owes
      <4>2. Object(e) \in links => Object(e) \in links'  BY <1>0, <3>2
      <4>3. \A u \in Threads : Owes(u, e) => Owes(u, e)'
        BY <1>1, <2>13, <4>1, <4>2, StillOwes
      <4> QED  BY <1>1, <2>25, <4>3 DEF Good, Fresh
    <3> QED  BY <3>1, <3>2
  <2> QED  BY <2>16, <2>18, <2>19, <2>20 DEF Good
<1> QED  BY <1>23, <1>24

\* No thread takes a step.
LEMMA AllStill ==
    ASSUME UNCHANGED <<scene, thread>>
    PROVE  \A u : Still(u)
  BY DEF Still, Proc, Scope, On, Does, At, Op

LEMMA AllStillParts ==
    ASSUME NEW e, UNCHANGED <<scene, thread, version, rows>>, AllOfThem(e), Exclusive,
           obj[e] = 0 => obj'[e] = 0
    PROVE  /\ AllOfThem(e)' /\ Exclusive'
           /\ \A u \in Threads : /\ Linking(u, e)' <=> Linking(u, e)
                                 /\ Takes(u, e)' <=> Takes(u, e)
<1>1. \A u : Still(u)  BY AllStill
<1>2. AllOfThem(e)'
  <2> SUFFICES ASSUME NEW u \in Threads
               PROVE  OrderlyAt(u)' /\ RemovedAt(u, e)' /\ AnswersAt(u, e)' /\ ClearedAt(u, e)'
    BY DEF AllOfThem
  <2>1. Still(u) /\ OrderlyAt(u) /\ RemovedAt(u, e) /\ AnswersAt(u, e) /\ ClearedAt(u, e)
    BY <1>1 DEF AllOfThem
  <2> QED  BY <2>1, StillOrderly, StillRemoved, StillAnswers, StillCleared
<1>3. Exclusive'  BY <1>1 DEF Exclusive, Still
<1> QED  BY <1>1, <1>2, <1>3, StillParts

\* A key expires; a link before its object key only while the link is about to be set.
LEMMA ExpireKeeps ==
    ASSUME Base, NEW e \in Entities, Good(e), Expire \/ Cull
    PROVE  Good(e)'
<1>1. UNCHANGED <<scene, thread, version, rows, late>>
  BY Zenon DEF Expire, Cull
<1>2. obj'[e] \in {0, obj[e]}  BY DEF Expire, Cull, Base
<1>3. /\ AllOfThem(e)' /\ Exclusive'
      /\ \A u \in Threads : /\ Linking(u, e)' <=> Linking(u, e)
                            /\ Takes(u, e)' <=> Takes(u, e)
  BY <1>1, <1>2, AllStillParts DEF Good
<1>4. WithDataset(e)' /\ NoneLinking(e)'
  BY <1>1, <1>3 DEF Good, WithDataset, NoneLinking
<1>5. Object(e) \in stale' /\ Object(e) \notin stale => obj[e] = 0 \/ e \in late
  <2>1. CASE Expire
    <3>1. Object(e)[1] = "object" /\ Object(e)[2] = e  BY Keys
    <3> QED  BY <2>1, <3>1 DEF Expire
  <2>2. CASE Cull  BY <2>2 DEF Cull
  <2> QED  BY <2>1, <2>2
<1>6. Young(e)'
  BY <1>1, <1>2, <1>3, <1>5 DEF Good, Young
<1>7. obj[e] # 0 /\ (\A u \in Threads : ~Linking(u, e)) =>
        (Object(e) \notin stale' /\ Object(e) \notin stale)
  BY <1>5 DEF Good, Young
<1>8. Object(e) \notin stale /\ Object(e) \in links => Object(e) \in links'
  BY DEF Expire, Cull
<1>9. Reached(e)'
  BY <1>2, <1>3, <1>7, <1>8 DEF Good, Reached, Live
<1>10. Fresh(e)'
  <2> SUFFICES ASSUME obj[e] # 0, obj'[e] = obj[e], NEW u \in Threads, Owes(u, e)
               PROVE  Owes(u, e)'
    BY <1>1, <1>2 DEF Good, Fresh
  <2>1. Still(u)  BY <1>1, AllStill
  <2>2. CASE Object(e) \in links => Object(e) \in links'
    BY <1>1, <2>1, <2>2, StillOwes
  <2>3. CASE Object(e) \in links /\ Object(e) \notin links'
    <3>1. Object(e) \in stale  BY <1>8, <2>3
    <3>2. \E w \in Threads : Linking(w, e)  BY <1>7, <3>1
    <3>3. ~(On(u) = Dataset /\ e \in Items /\ At(u, Deleting))
      <4> SUFFICES ASSUME On(u) = Dataset, e \in Items, At(u, Deleting) PROVE FALSE
        OBVIOUS
      <4>1. At(u, {"answered"} \cup Deleting) /\ e \in Scope(u) /\ Does(u, {"delete"})
        BY DEF Owes, Good, AllOfThem, OrderlyAt
      <4>2. version[Dataset] = 0  BY <4>1 DEF Good, AllOfThem, RemovedAt
      <4> QED  BY <3>2, <4>2 DEF Good, NoneLinking
    <3>4. ~(At(u, Above) /\ thread[u].target = Dataset /\ e \in Items)
      <4> SUFFICES ASSUME At(u, Above), thread[u].target = Dataset, e \in Items
                   PROVE  FALSE
        OBVIOUS
      <4>1. At(u, Deleting)  BY DEF At, Deleting, Above
      <4>2. Dataset \in Scope(u) /\ Does(u, {"delete"})
        BY <4>1 DEF Good, AllOfThem, OrderlyAt
      <4>3. On(u) = Dataset  BY <4>2 DEF Scope
      <4> QED  BY <3>3, <4>1, <4>3
    <3>5. /\ thread'[u] = thread[u] /\ Scope(u)' = Scope(u) /\ Proc(u)' = Proc(u)
          /\ \A X : At(u, X)' <=> At(u, X)
      BY <2>1 DEF Still
    <3>6. Takes(u, e)' <=> Takes(u, e)  BY <1>3
    <3> QED  BY <1>1, <3>4, <3>5, <3>6 DEF Owes
  <2> QED  BY <2>2, <2>3
<1> QED  BY <1>3, <1>4, <1>6, <1>9, <1>10 DEF Good

\* A crash overtakes what its threads were about.
LEMMA CrashKeeps ==
    ASSUME Base, NEW p \in Processes, NEW e \in Entities, Good(e), Crash(p), e \notin overtaken'
    PROVE  Good(e)'
<1>1. UNCHANGED <<scene, version, keys, rows>>  BY Zenon DEF Crash
<1>2. Dies(p)  BY CrashDies DEF Base
<1>3. ASSUME NEW t \in Threads, Proc(t) = p
      PROVE  /\ ~Linking(t, e) /\ ~Takes(t, e) /\ ~Owes(t, e)
             /\ thread'[t].pc \notin Important
  <2>1. Busy(t) => e # On(t) /\ e \notin Scope(t)  BY <1>3 DEF Crash
  <2>2. thread'[t].pc \notin Important  BY <1>2, <1>3 DEF Dies, Important, Deleting
  <2>3. CASE Busy(t)
    <3>1. ~Linking(t, e)  BY <2>1, <2>3 DEF Linking
    <3>2. ~Owes(t, e)  BY <2>1, <2>3 DEF Owes
    <3> QED  BY <2>2, <3>1, <3>2, TakesOwes
  <2>4. CASE ~Busy(t)
    <3>1. thread[t].pc \notin Important  BY <2>4 DEF Busy, At, Important, Deleting
    <3> QED  BY <2>2, <3>1, NoPart
  <2> QED  BY <2>3, <2>4
<1>4. ASSUME NEW t \in Threads, Proc(t) # p
      PROVE  Still(t)
  <2>1. thread'[t] = thread[t]  BY <1>2, <1>4 DEF Dies
  <2> QED  BY <1>1, <2>1, SameOp DEF Still, At, Proc
<1>5. \A t \in Threads :
        /\ Linking(t, e)' <=> Linking(t, e)
        /\ Takes(t, e)' <=> Takes(t, e)
        /\ Owes(t, e) => Owes(t, e)'
  <2> TAKE t \in Threads
  <2>1. CASE Proc(t) = p  BY <1>3, <2>1, ElseParts
  <2>2. CASE Proc(t) # p
    BY <1>1, <1>4, <2>2, StillParts, StillOwes DEF keys
  <2> QED  BY <2>1, <2>2
<1>6. AllOfThem(e)'
  <2> SUFFICES ASSUME NEW t \in Threads
               PROVE  OrderlyAt(t)' /\ RemovedAt(t, e)' /\ AnswersAt(t, e)' /\ ClearedAt(t, e)'
    BY DEF AllOfThem
  <2>1. CASE Proc(t) = p  BY <1>3, <2>1, ElseParts
  <2>2. CASE Proc(t) # p
    <3>1. Still(t) /\ OrderlyAt(t) /\ RemovedAt(t, e) /\ AnswersAt(t, e) /\ ClearedAt(t, e)
      BY <1>4, <2>2 DEF Good, AllOfThem
    <3> QED
      BY <1>1, <3>1, StillOrderly, StillRemoved, StillAnswers, StillCleared DEF keys
  <2> QED  BY <2>1, <2>2
<1>7. Exclusive'
  <2>1. \A t \in Threads : At(t, Listed)' => At(t, Listed) /\ Proc(t)' = Proc(t)
    <3> TAKE t \in Threads
    <3>1. CASE Proc(t) = p  BY <1>3, <3>1, ElseParts
    <3>2. CASE Proc(t) # p  BY <1>4, <3>2 DEF Still
    <3> QED  BY <3>1, <3>2
  <2> QED  BY <2>1 DEF Good, Exclusive
<1>8. WithDataset(e)' /\ NoneLinking(e)' /\ Young(e)' /\ Reached(e)' /\ Fresh(e)'
  BY <1>1, <1>5 DEF Good, WithDataset, NoneLinking, Young, Reached, Fresh, Live, keys, clock
<1> QED  BY <1>6, <1>7, <1>8 DEF Good

LEMMA StutterKeeps ==
    ASSUME NEW e, Good(e), UNCHANGED <<scene, thread, version, keys, rows>>
    PROVE  Good(e)'
<1>1. /\ AllOfThem(e)' /\ Exclusive'
      /\ \A u \in Threads : /\ Linking(u, e)' <=> Linking(u, e)
                            /\ Takes(u, e)' <=> Takes(u, e)
  BY AllStillParts DEF Good, keys
<1>2. \A u \in Threads : Owes(u, e) => Owes(u, e)'
  BY AllStill, StillOwes DEF keys
<1> QED
  BY <1>1, <1>2 DEF Good, WithDataset, NoneLinking, Young, Reached, Fresh, Live, keys, clock

\* An entity that was overtaken stays so.
LEMMA OvertakenGrows == [Next]_vars => overtaken \cap Entities \subseteq overtaken'
<1>1. ASSUME NEW t \in Threads, Step(t)
      PROVE  overtaken \cap Entities \subseteq overtaken'
  <2>1. CASE Begin(t) \/ SetObject(t) \/ SetLink(t) \/ DeleteOwn(t) \/ FetchParents(t)
             \/ FetchChildren(t)
             \/ DeleteEnds(t) \/ SetBinary(t) \/ IsFile(t) \/ Open(t) \/ Written(t) \/ Breaks(t)
             \/ ReadConfig(t) \/ WriteConfig(t) \/ Limit(t) \/ ReadLru(t) \/ Evict(t)
             \/ WriteLru(t)
    <3>1. overtaken' = overtaken
      BY <2>1 DEF Begin, SetObject, SetLink, DeleteOwn, FetchParents, FetchChildren, Goon, DeleteEnds,
         SetBinary, IsFile, Open, Written, Breaks, ReadConfig, WriteConfig, Limit, ReadLru,
         Evict, WriteLru, history
    <3> QED  BY <3>1
  <2>2. CASE Serve(t) \/ Refuse(t) \/ Skip(t) \/ Execute(t)
    BY <2>2 DEF Serve, Refuse, Skip, Execute
  <2>3. CASE VisitParent(t) \/ VisitChild(t)
    BY <2>3 DEF VisitParent, VisitChild, Goon, DropCache
  <2> QED  BY <1>1, <2>1, <2>2, <2>3 DEF Step
<1>2. ASSUME NEW p \in Processes, Judge(p) \/ Remove(p) \/ Crash(p)
      PROVE  overtaken \cap Entities \subseteq overtaken'
  BY <1>2 DEF Judge, Remove, Crash, history
<1>3. ASSUME Expire \/ Cull \/ UNCHANGED vars
      PROVE  overtaken \cap Entities \subseteq overtaken'
  BY <1>3 DEF Expire, Cull, vars, history
<1> QED  BY <1>1, <1>2, <1>3 DEF Next, Done

LEMMA StepKeeps ==
    ASSUME Base, NEW t \in Threads, NEW e \in Entities, Good(e), Step(t), e \notin overtaken'
    PROVE  Good(e)'
  BY StoringKeeps, ServeKeeps, RefuseKeeps, SkipKeeps, SetObjectKeeps, SetLinkKeeps,
     DeleteOwnKeeps, ExecuteKeeps, FetchParentsKeeps, VisitParentKeeps, FetchChildrenKeeps, VisitChildKeeps,
     DeleteEndsKeeps, SetBinaryKeeps DEF Step

LEMMA CacheNext == CacheInv /\ [Next]_vars => CacheInv'
<1> SUFFICES ASSUME CacheInv, [Next]_vars PROVE CacheInv'  OBVIOUS
<1>1. UNCHANGED scene /\ Base'  BY BaseNext DEF CacheInv
<1>2. ASSUME NEW e \in Entities \ overtaken' PROVE Good(e)'
  <2>1. e \in Entities \ overtaken  BY OvertakenGrows
  <2>2. Base /\ Good(e)  BY <2>1 DEF CacheInv
  <2>3. ASSUME NEW t \in Threads, Step(t) PROVE Good(e)'
    BY <2>2, <2>3, StepKeeps
  <2>4. ASSUME NEW p \in Processes, Crash(p) PROVE Good(e)'
    BY <2>2, <2>4, CrashKeeps
  <2>5. ASSUME Expire \/ Cull PROVE Good(e)'
    BY <2>2, <2>5, ExpireKeeps
  <2>6. ASSUME (\E p \in Processes : Judge(p) \/ Remove(p)) \/ UNCHANGED vars PROVE Good(e)'
    <3>1. UNCHANGED <<scene, thread, version, keys, rows>>
      BY <2>6, Zenon DEF Judge, Remove, vars
    <3> QED  BY <2>2, <3>1, StutterKeeps
  <2> QED  BY <2>3, <2>4, <2>5, <2>6 DEF Next, Done
<1>3. Entities' = Entities  BY DEF Entities
<1> QED  BY <1>1, <1>2, <1>3 DEF CacheInv

LEMMA CacheInit == Init => CacheInv
<1> SUFFICES ASSUME Init PROVE CacheInv  OBVIOUS
<1>1. ASSUME NEW e \in Entities PROVE Good(e)
  <2>1. \A t \in Threads : thread[t].pc = "idle"  BY DEF Init
  <2>2. \A t \in Threads : thread[t].pc \notin Important
    BY <2>1 DEF Important, Deleting
  <2>3. \A t \in Threads : OrderlyAt(t) /\ RemovedAt(t, e) /\ AnswersAt(t, e) /\ ClearedAt(t, e)
    BY <2>1 DEF OrderlyAt, RemovedAt, AnswersAt, Awaits, ClearedAt, At, Deleting
  <2>4. Exclusive  BY <2>1 DEF Exclusive, At, Listed
  <2>5. \A t \in Threads : ~Linking(t, e)  BY <2>2, NoPart
  <2>6. version[e] = 1 /\ version[Dataset] = 1 /\ obj[e] = 0 /\ stale = {} /\ late = {}
    BY DEF Init, Entities
  <2> QED  BY <2>3, <2>4, <2>5, <2>6 DEF Good, AllOfThem, WithDataset, NoneLinking, Young,
     Reached, Fresh
<1> QED  BY <1>1, BaseInit DEF CacheInv

LEMMA CacheInvariance == Spec => []CacheInv
  BY CacheInit, CacheNext, PTL DEF Spec

\* A hit is what the service has once the change of an entity is over, a deleted item's
\* with its dataset: the deletion finds every cached item by its link, the update caches
\* its own answer, whatever the order of the threads' key accesses, expiries and crashes
\* (api_client.py, gen_request; cache.py, write, delete).
THEOREM CacheFresh == Spec => []FreshUnlessOvertaken
<1>1. CacheInv => FreshUnlessOvertaken
  <2> SUFFICES ASSUME CacheInv, NEW e \in Entities \ overtaken,
                      \A t \in Threads : Busy(t) => e \notin Scope(t)
               PROVE  obj[e] \in {0, version[e]}
    BY DEF FreshUnlessOvertaken
  <2>1. \A t \in Threads : ~Owes(t, e)
    BY DEF Owes, Busy, At, Deleting
  <2> QED  BY <2>1 DEF CacheInv, Good, Fresh
<1> QED  BY <1>1, CacheInvariance, PTL

\* A cached entity can be found from its parent, except while its link is about to be
\* set or a deletion is about to remove its key (cache.py, write and delete).
THEOREM CacheLinked == Spec => []LinkedUnlessOvertaken
<1>1. CacheInv => LinkedUnlessOvertaken
  <2> SUFFICES ASSUME CacheInv, NEW e \in Entities \ overtaken, obj[e] # 0
               PROVE  \/ <<"object", e>> \in Live
                      \/ \E t \in Threads :
                           Busy(t) /\ ((At(t, {"link"}) /\ On(t) = e) \/ e \in Scope(t))
    BY DEF LinkedUnlessOvertaken
  <2>1. Good(e)  BY DEF CacheInv
  <2>2. CASE \E t \in Threads : Linking(t, e)
    BY <2>2 DEF Linking, Busy, At
  <2>3. CASE \E t \in Threads : Takes(t, e)
    <3>1. PICK t \in Threads : Takes(t, e)  BY <2>3
    <3>2. e \in Scope(t)  BY <2>1, <3>1, TakesOwes DEF Owes
    <3>3. Busy(t)  BY <3>1 DEF Takes, Busy, At
    <3> QED  BY <3>2, <3>3
  <2> QED  BY <2>1, <2>2, <2>3 DEF Good, Reached, Object
<1> QED  BY <1>1, CacheInvariance, PTL
=============================================================================
