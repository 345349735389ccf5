--------------------------- MODULE DownloadProofs ---------------------------
(***************************************************************************)
(* Proofs about Download, for any list, any of its scenes, any number of     *)
(* chunks, workers, tries and kills.                                        *)
(***************************************************************************)
EXTENDS Download, FiniteSetTheorems, TLAPS

\* The first k chunks of an item.
Part(e, k) == [j \in 1..k |-> e]

\* The part of the types that the proofs need.
Types ==
    /\ scene \in SceneType
    /\ next \in 1..(N + 1) /\ crashes \in 0..MaxCrashes
    /\ pc \in [Entries -> PCs] /\ try \in [Entries -> 0..NUM_TRIES]
    /\ pos \in [Entries -> 0..Chunks]
    /\ fd \in [Entries -> {"none", "temp", "final", "gone"}]
    /\ status \in [Entries -> {"none", "exist", "download", "error"}]
    /\ temp = [p \in Paths |-> temp[p]] /\ final = [p \in Paths |-> final[p]]

\* What was not visited has no job, a folder never gets one, and a try is left until
\* the last one failed.
Ahead ==
    /\ main = "listing" => \A e \in Entries : e >= next => pc[e] = "new"
    /\ \A e \in Entries :
          /\ scene.kind[e] = "dir" => pc[e] = "new"
          /\ pc[e] \in {"new", "queued"} => try[e] = 0
          /\ pc[e] = "check" => try[e] < NUM_TRIES
          /\ pc[e] \in FilePCs \ {"check"} => try[e] > 0
          /\ status[e] = "download" => pc[e] = "done"

ListInv == Types /\ Ahead
-----------------------------------------------------------------------------
LEMMA InitList == Init => ListInv
<1> SUFFICES ASSUME Init PROVE ListInv  OBVIOUS
<1> USE DEF Init, AllEntries
<1>1. scene \in SceneType  BY DownloadAssumption DEF DownloadAssumption
<1>2. temp = [p \in Paths |-> temp[p]] /\ final = [p \in Paths |-> final[p]]  BY Zenon
<1>3. Types  BY <1>1, <1>2, DownloadAssumption DEF DownloadAssumption, Types, PCs
<1>4. Ahead  BY DownloadAssumption DEF DownloadAssumption, Ahead, FilePCs
<1> QED  BY <1>3, <1>4 DEF ListInv

\* After a kill, as at first, nothing runs.
LEMMA CrashList == ListInv /\ Crash => ListInv'
<1> SUFFICES ASSUME ListInv, Crash PROVE ListInv'  OBVIOUS
<1> USE DEF Crash, AllEntries
<1>1. Types'  BY DownloadAssumption DEF DownloadAssumption, ListInv, Types, PCs, disk
<1>2. Ahead'  BY DownloadAssumption DEF DownloadAssumption, Ahead, FilePCs
<1> QED  BY <1>1, <1>2 DEF ListInv

\* A visit gives at most the next entry a job.
LEMMA VisitList == ListInv /\ Visit => ListInv'
<1> SUFFICES ASSUME ListInv, Visit PROVE ListInv'  OBVIOUS
<1> USE DEF ListInv, disk
<1>1. next \in Entries /\ pc[next] = "new" /\ next + 1 \in 1..(N + 1)
  BY DownloadAssumption DEF Visit, Types, Ahead, Entries, DownloadAssumption
<1>2. \/ pc' = pc
      \/ /\ scene.kind[next] # "dir"
         /\ \E queue \in {"queued", "queued_drawing"} : pc' = [pc EXCEPT ![next] = queue]
  BY DEF Visit, Submit
<1>3. status' = status \/ status' = [status EXCEPT ![next] = "exist"]  BY DEF Visit
<1>4. \/ next' = next + 1 /\ main' = main
      \/ next' = next /\ main' = "draining"
  BY DEF Visit, Submit
<1>5. UNCHANGED <<scene, try, pos, fd, temp, final, crashes>>  BY DEF Visit
<1>6. Types'
  BY <1>1, <1>2, <1>3, <1>4, <1>5 DEF Types, PCs
<1>7. ASSUME main' = "listing", NEW e \in Entries, e >= next' PROVE pc'[e] = "new"
  <2>1. main = "listing" /\ next' = next + 1  BY <1>4, <1>7
  <2>2. e >= next /\ e # next
    BY <1>1, <1>7, <2>1, DownloadAssumption DEF Entries, DownloadAssumption
  <2> QED  BY <1>2, <2>1, <2>2 DEF Types, Ahead
<1>8. ASSUME NEW e \in Entries
      PROVE  /\ scene'.kind[e] = "dir" => pc'[e] = "new"
             /\ pc'[e] \in {"new", "queued"} => try'[e] = 0
             /\ pc'[e] = "check" => try'[e] < NUM_TRIES
             /\ pc'[e] \in FilePCs \ {"check"} => try'[e] > 0
             /\ status'[e] = "download" => pc'[e] = "done"
  <2>1. CASE e = next  BY <1>1, <1>2, <1>3, <1>5, <2>1 DEF Types, Ahead, FilePCs
  <2>2. CASE e # next
    <3>1. pc'[e] = pc[e] /\ status'[e] = status[e]  BY <1>2, <1>3, <2>2 DEF Types
    <3> QED  BY <1>5, <3>1 DEF Ahead
  <2> QED  BY <2>1, <2>2
<1>9. Ahead'  BY <1>7, <1>8 DEF Ahead
<1> QED  BY <1>6, <1>9

\* How a job moves: a busy job of its own entry only; and what becomes of its files.
Moves(e) ==
    /\ pc[e] \notin Resting
    /\ \E to \in PCs \ {"new", "queued"} :
          /\ pc' = [pc EXCEPT ![e] = to]
          /\ to = "check" => try'[e] < NUM_TRIES
          /\ to \in FilePCs \ {"check"} => try'[e] > 0
          /\ \/ status' = status
             \/ /\ to = "done"
                /\ \E s \in {"download", "error"} : status' = [status EXCEPT ![e] = s]
    /\ \/ try' = try
       \/ pc[e] = "check" /\ try' = [try EXCEPT ![e] = @ + 1]
Handles(e) ==
    /\ \E k \in 0..Chunks : pos' = [pos EXCEPT ![e] = k]
    /\ fd' \in [Entries -> {"none", "temp", "final", "gone"}]
    /\ temp' = [p \in Paths |-> temp'[p]] /\ final' = [p \in Paths |-> final'[p]]

LEMMA MovesKeeps ==
    ASSUME ListInv, NEW e \in Entries, Moves(e), Handles(e), UNCHANGED <<scene, main, next, crashes>>
    PROVE  ListInv'
<1> USE DEF ListInv
<1>1. Types'
  <2>1. pos' \in [Entries -> 0..Chunks]  BY DEF Handles, Types
  <2>2. try' \in [Entries -> 0..NUM_TRIES]
    <3>1. pc[e] = "check" => try[e] + 1 \in 0..NUM_TRIES
      BY DownloadAssumption DEF Types, Ahead, DownloadAssumption
    <3> QED  BY <3>1 DEF Moves, Types
  <2>3. pc' \in [Entries -> PCs]  BY DEF Moves, Types
  <2>4. status' \in [Entries -> {"none", "exist", "download", "error"}]  BY DEF Moves, Types
  <2> QED  BY <2>1, <2>2, <2>3, <2>4 DEF Handles, Types
<1>2. Ahead'
  <2>1. ASSUME main' = "listing", NEW f \in Entries, f >= next' PROVE pc'[f] = "new"
    BY <2>1 DEF Types, Ahead, Moves, Resting
  <2>2. ASSUME NEW f \in Entries
        PROVE  /\ scene'.kind[f] = "dir" => pc'[f] = "new"
               /\ pc'[f] \in {"new", "queued"} => try'[f] = 0
               /\ pc'[f] = "check" => try'[f] < NUM_TRIES
               /\ pc'[f] \in FilePCs \ {"check"} => try'[f] > 0
               /\ status'[f] = "download" => pc'[f] = "done"
    <3>1. CASE f = e
      <4>1. pc[e] \notin {"new", "done"} /\ scene.kind[e] # "dir" /\ status[e] # "download"
        BY DEF Moves, Resting, Ahead
      <4>2. PICK to \in PCs \ {"new", "queued"} :
              /\ pc'[e] = to
              /\ to = "check" => try'[e] < NUM_TRIES
              /\ to \in FilePCs \ {"check"} => try'[e] > 0
              /\ to = "done" \/ status' = status
        BY DEF Moves, Types
      <4> QED  BY <3>1, <4>1, <4>2
    <3>2. CASE f # e
      <4>1. pc'[f] = pc[f] /\ try'[f] = try[f] /\ status'[f] = status[f]
        BY <3>2 DEF Moves, Types
      <4> QED  BY <4>1 DEF Ahead
    <3> QED  BY <3>1, <3>2
  <2> QED  BY <2>1, <2>2 DEF Ahead
<1> QED  BY <1>1, <1>2

\* Every step of a job is such a move.
LEMMA FailTryMoves ==
    ASSUME NEW e \in Entries, NEW n, FailTry(e, n)
    PROVE  \/ pc' = [pc EXCEPT ![e] = "check"] /\ n < NUM_TRIES /\ status' = status
           \/ pc' = [pc EXCEPT ![e] = "done"] /\ status' = [status EXCEPT ![e] = "error"]
BY DEF FailTry, Move

LEMMA SavedMoves ==
    ASSUME NEW e \in Entries, Saved(e)
    PROVE  \/ pc' = [pc EXCEPT ![e] = "annotate"] /\ status' = status
           \/ pc' = [pc EXCEPT ![e] = "done"] /\ status' = [status EXCEPT ![e] = "download"]
BY DEF Saved, Succeed, Move

LEMMA JobMoves ==
    ASSUME ListInv, NEW e \in Entries, Job(e) PROVE Moves(e) /\ Handles(e)
<1> USE DEF ListInv
<1>0. /\ fd \in [Entries -> {"none", "temp", "final", "gone"}]
      /\ temp = [p \in Paths |-> temp[p]] /\ final = [p \in Paths |-> final[p]]
      /\ pos = [pos EXCEPT ![e] = pos[e]] /\ pos[e] \in 0..Chunks /\ 0 \in 0..Chunks
      /\ pc = [pc EXCEPT ![e] = pc[e]] /\ try[e] \in Nat
  BY DownloadAssumption DEF Types, DownloadAssumption
<1>1. CASE Start(e)
  <2>1. pc[e] = "queued" => try[e] < NUM_TRIES
    BY DownloadAssumption DEF Ahead, DownloadAssumption
  <2>2. try' = try /\ status' = status /\ pc[e] \in {"queued", "queued_drawing"}
    BY <1>1 DEF Start
  <2>3. pc' = [pc EXCEPT ![e] = IF pc[e] = "queued" THEN "check" ELSE "drawing"]
    BY <1>1 DEF Start, Move
  <2>4. Moves(e)  BY <2>1, <2>2, <2>3 DEF Moves, PCs, Resting, FilePCs
  <2>5. Handles(e)  BY <1>0, <1>1 DEF Start, Handles, disk
  <2> QED  BY <2>4, <2>5
<1>2. CASE Check(e)
  <2>1. pc[e] = "check" /\ try' = [try EXCEPT ![e] = @ + 1] /\ try'[e] = try[e] + 1
    BY <1>2 DEF Check, Types
  <2>2. \/ \E to \in {"copy", "open"} : pc' = [pc EXCEPT ![e] = to] /\ status' = status
        \/ /\ pc' = [pc EXCEPT ![e] = "check"] /\ try[e] + 1 < NUM_TRIES
           /\ status' = status
        \/ /\ pc' = [pc EXCEPT ![e] = "done"]
           /\ \E s \in {"download", "error"} : status' = [status EXCEPT ![e] = s]
    BY <1>2, FailTryMoves DEF Check, Succeed, Move
  <2>3. Moves(e)  BY <1>0, <2>1, <2>2 DEF Moves, PCs, Resting, FilePCs
  <2>4. Handles(e)  BY <1>0, <1>2 DEF Check, Handles, disk
  <2> QED  BY <2>3, <2>4
<1>3. CASE Open(e)
  <2>1. Moves(e)  BY <1>0, <1>3 DEF Open, Move, Moves, PCs, Resting, FilePCs, Ahead
  <2>2. Handles(e)  BY <1>0, <1>3 DEF Open, Handles, OpenAt, Suffixed
  <2> QED  BY <2>1, <2>2
<1>4. CASE WriteChunk(e)
  <2>1. Moves(e)  BY <1>0, <1>4 DEF WriteChunk, Moves, PCs, Resting, FilePCs, Ahead
  <2>2. Handles(e)
    <3>1. pos[e] + 1 \in 0..Chunks
      BY <1>0, <1>4, DownloadAssumption DEF WriteChunk, DownloadAssumption
    <3> QED  BY <1>0, <1>4, <3>1 DEF WriteChunk, Handles
  <2> QED  BY <2>1, <2>2
<1>5. CASE EndStream(e)
  <2>1. Moves(e)  BY <1>0, <1>5 DEF EndStream, Move, Moves, PCs, Resting, FilePCs, Ahead
  <2>2. Handles(e)  BY <1>0, <1>5 DEF EndStream, Handles, disk
  <2> QED  BY <2>1, <2>2
<1>6. ASSUME DropTemp(e), UNCHANGED <<pos, final>> PROVE Handles(e)
  <2>1. fd' \in [Entries -> {"none", "temp", "final", "gone"}]
    BY <1>0, <1>6 DEF DropTemp, Redirect
  <2> QED  BY <1>0, <1>6, <2>1 DEF DropTemp, Handles
<1>7. CASE FailStream(e)
  <2>1. Moves(e)
    BY <1>0, <1>7, FailTryMoves DEF FailStream, Moves, PCs, Resting, FilePCs
  <2> QED  BY <1>6, <1>7, <2>1 DEF FailStream
<1>8. CASE Verify(e)
  <2>1. Moves(e)
    BY <1>0, <1>8, FailTryMoves DEF Verify, Move, Moves, PCs, Resting, FilePCs, Ahead
  <2>2. Handles(e)  BY <1>0, <1>6, <1>8 DEF Verify, Handles
  <2> QED  BY <2>1, <2>2
<1>9. CASE Rename(e)
  <2>1. pc[e] = "move" /\ try' = try /\ try[e] > 0  BY <1>9 DEF Rename, Ahead, FilePCs
  <2>2. Saved(e) \/ FailTry(e, try[e])  BY <1>9 DEF Rename
  <2>3. Moves(e)
    BY <1>0, <2>1, <2>2, FailTryMoves, SavedMoves DEF Moves, PCs, Resting, FilePCs
  <2>4. fd' \in [Entries -> {"none", "temp", "final", "gone"}]
    BY <1>0, <1>9 DEF Rename, Redirect
  <2>5. Handles(e)  BY <1>0, <1>9, <2>4 DEF Rename, Handles
  <2> QED  BY <2>3, <2>5
<1>10. CASE BeginCopy(e)
  <2>1. pc[e] = "copy" /\ try' = try /\ try[e] > 0  BY <1>10 DEF BeginCopy, Ahead, FilePCs
  <2>2. Saved(e) \/ UNCHANGED <<pc, status>>  BY <1>10 DEF BeginCopy
  <2>3. Moves(e)  BY <1>0, <2>1, <2>2, SavedMoves DEF Moves, PCs, Resting, FilePCs
  <2>4. Handles(e)  BY <1>0, <1>10 DEF BeginCopy, Handles
  <2> QED  BY <2>3, <2>4
<1>11. CASE EndCopy(e)
  <2>1. pc[e] = "copy" /\ try' = try /\ try[e] > 0  BY <1>11 DEF EndCopy, Ahead, FilePCs
  <2>2. Saved(e) \/ FailTry(e, try[e])  BY <1>11 DEF EndCopy
  <2>3. Moves(e)
    BY <1>0, <2>1, <2>2, FailTryMoves, SavedMoves DEF Moves, PCs, Resting, FilePCs
  <2>4. Handles(e)  BY <1>0, <1>11 DEF EndCopy, Handles, disk
  <2> QED  BY <2>3, <2>4
<1>12. CASE Annotate(e)
  <2>1. pc[e] = "annotate" /\ try' = try /\ try[e] > 0  BY <1>12 DEF Annotate, Ahead, FilePCs
  <2>2. Succeed(e) \/ FailTry(e, try[e])  BY <1>12 DEF Annotate, Retry
  <2>3. Moves(e)
    BY <1>0, <2>1, <2>2, FailTryMoves DEF Succeed, Move, Moves, PCs, Resting, FilePCs
  <2>4. Handles(e)  BY <1>0, <1>12 DEF Annotate, Handles
  <2> QED  BY <2>3, <2>4
<1>13. CASE Draw(e)
  <2>1. Moves(e)  BY <1>0, <1>13 DEF Draw, Move, Moves, PCs, Resting, FilePCs
  <2>2. Handles(e)  BY <1>0, <1>13 DEF Draw, Handles
  <2> QED  BY <2>1, <2>2
<1> QED
  BY <1>1, <1>2, <1>3, <1>4, <1>5, <1>7, <1>8, <1>9, <1>10, <1>11, <1>12, <1>13 DEF Job

LEMMA JobFrame ==
    ASSUME NEW e \in Entries, Job(e)
    PROVE  UNCHANGED <<scene, main, next, i_item, jobs, drain, crashes>>
BY DEF Job, Start, Check, Open, WriteChunk, EndStream, FailStream, Verify, Rename, BeginCopy,
       EndCopy, Annotate, Draw, still, thread

LEMMA NextList == ListInv /\ [Next]_vars => ListInv'
<1> SUFFICES ASSUME ListInv, [Next]_vars PROVE ListInv'  OBVIOUS
<1>1. CASE Visit  BY <1>1, VisitList
<1>2. CASE StopListing \/ Drain \/ Return \/ UNCHANGED vars
  BY <1>2 DEF StopListing, Drain, Return, vars, disk, ListInv, Types, Ahead
<1>3. ASSUME NEW e \in Entries, Job(e) PROVE ListInv'
  BY <1>3, JobMoves, JobFrame, MovesKeeps
<1>4. CASE Crash
  BY <1>4, CrashList
<1> QED  BY <1>1, <1>2, <1>3, <1>4 DEF Next, Thread, Done

LEMMA ListAlways == Spec => []ListInv
<1> QED  BY InitList, NextList, PTL DEF Spec
-----------------------------------------------------------------------------
\* An entry that shares its file with nobody: while its job writes, <path>.download holds
\* the chunks written so far, and it is moved when it is whole.  Without overwrite, while
\* the job is on its way, only the item itself may be at the path, and before its first
\* try nothing.
Own(e) ==
    LET download == temp[Target(e)]
        file == final[Target(e)]
    IN  /\ pc[e] # "copy"
        /\ fd[e] = IF pc[e] = "write" THEN "temp" ELSE "none"
        /\ pc[e] \in {"write", "verify"} => download = File(Part(e, pos[e]))
        /\ pc[e] = "move" => download = Binary(e)
        /\ pc[e] = "annotate" \/ status[e] = "download" => file = Binary(e)
        /\ file \in {NoFile, Binary(Old), Binary(e)}
        /\ ~scene.overwrite /\ pc[e] \in {"queued"} \cup FilePCs => file \in {NoFile, Binary(e)}
        /\ ~scene.overwrite /\ pc[e] \in {"queued", "check"} /\ try[e] = 0 => ~file.there
DiskInv == \A e \in Entries : Alone(e) => Own(e)

LEMMA PartLen ==
    ASSUME NEW e \in Entries, NEW k \in Nat
    PROVE  Part(e, k) \in Seq(Entries) /\ Len(Part(e, k)) = k
BY DEF Part

LEMMA PartPut ==
    ASSUME NEW e \in Entries, NEW k \in Nat
    PROVE  Put(File(Part(e, k)), k + 1, e) = File(Part(e, k + 1))
<1>1. File(Part(e, k)).bytes = Part(e, k) /\ Len(Part(e, k)) = k  BY PartLen DEF File
<1>2. Put(File(Part(e, k)), k + 1, e)
        = File([j \in 1..(k + 1) |-> IF j = k + 1 THEN e
                                     ELSE IF j <= k THEN Part(e, k)[j] ELSE Hole])
  BY <1>1 DEF Put
<1>3. \A j \in 1..(k + 1) : (IF j = k + 1 THEN e
                             ELSE IF j <= k THEN Part(e, k)[j] ELSE Hole) = e
  BY DEF Part
<1> QED  BY <1>2, <1>3 DEF Part

LEMMA TargetInPaths ==
    ASSUME scene \in SceneType, NEW e \in Entries
    PROVE  Target(e) \in Paths /\ Named(e) \in Paths
BY DEF SceneType, Target, Named, Paths

\* A job touches the two files at its path only, and the descriptors after them.
Touches(f) ==
    /\ \A p \in Paths \ {Target(f)} : temp'[p] = temp[p] /\ final'[p] = final[p]
    /\ \A g \in Entries \ {f} : Target(g) # Target(f) => fd'[g] = fd[g]

LEMMA JobTouches == ASSUME ListInv, NEW f \in Entries, Job(f) PROVE Touches(f)
<1>0. /\ fd \in [Entries -> {"none", "temp", "final", "gone"}] /\ Target(f) \in Paths
      /\ temp = [p \in Paths |-> temp[p]] /\ final = [p \in Paths |-> final[p]]
  BY TargetInPaths DEF ListInv, Types
<1>1. CASE Open(f)  BY <1>0, <1>1 DEF Open, Touches
<1>2. CASE WriteChunk(f)  BY <1>0, <1>2 DEF WriteChunk, Touches
<1>3. CASE EndStream(f)  BY <1>0, <1>3 DEF EndStream, disk, Touches
<1>4. ASSUME DropTemp(f), UNCHANGED final PROVE Touches(f)
  <2>1. \A g \in Entries \ {f} : Target(g) # Target(f) => fd'[g] = fd[g]
    BY <1>0, <1>4 DEF DropTemp, Redirect
  <2> QED  BY <1>0, <1>4, <2>1 DEF DropTemp, Touches
<1>5. CASE FailStream(f)  BY <1>4, <1>5 DEF FailStream
<1>6. CASE Verify(f)  BY <1>4, <1>6 DEF Verify, Touches
<1>7. CASE Rename(f)
  <2>1. \A g \in Entries \ {f} : Target(g) # Target(f) => fd'[g] = fd[g]
    BY <1>0, <1>7 DEF Rename, Redirect
  <2> QED  BY <1>0, <1>7, <2>1 DEF Rename, Touches
<1>8. CASE BeginCopy(f)  BY <1>0, <1>8 DEF BeginCopy, Touches
<1>9. CASE EndCopy(f)  BY <1>0, <1>9 DEF EndCopy, disk, Touches
<1>10. CASE Start(f) \/ Check(f) \/ Annotate(f) \/ Draw(f)
  BY <1>10 DEF Start, Check, Annotate, Draw, disk, Touches
<1> QED  BY <1>1, <1>2, <1>3, <1>5, <1>6, <1>7, <1>8, <1>9, <1>10 DEF Job

LEMMA OthersKeepOwn ==
    ASSUME ListInv, NEW e \in Entries, Alone(e), Own(e), NEW f \in Entries \ {e}, Job(f)
    PROVE  Own(e)'
<1>1. Moves(f) /\ Handles(f) /\ Touches(f) /\ scene' = scene
  BY JobMoves, JobTouches, JobFrame
<1>2. scene.kind[f] # "dir"  BY <1>1 DEF Moves, Resting, ListInv, Ahead
<1>3. Target(e) # Target(f) /\ Target(e) \in Paths /\ Target(e)' = Target(e)
  BY <1>1, <1>2, TargetInPaths DEF Alone, Target, ListInv, Types
<1>4. /\ pc'[e] = pc[e] /\ status'[e] = status[e] /\ try'[e] = try[e] /\ pos'[e] = pos[e]
  BY <1>1 DEF Moves, Handles, ListInv, Types
<1>5. fd'[e] = fd[e] /\ temp'[Target(e)] = temp[Target(e)] /\ final'[Target(e)] = final[Target(e)]
  BY <1>1, <1>3 DEF Touches
<1> QED  BY <1>1, <1>3, <1>4, <1>5 DEF Own

LEMMA JobKeepsOwn ==
    ASSUME ListInv, NEW e \in Entries, Alone(e), Own(e), Job(e)
    PROVE  Own(e)'
<1> DEFINE p == Target(e)
<1>0. /\ fd \in [Entries -> {"none", "temp", "final", "gone"}] /\ p \in Paths
      /\ temp = [q \in Paths |-> temp[q]] /\ final = [q \in Paths |-> final[q]]
      /\ pc \in [Entries -> PCs] /\ try \in [Entries -> 0..NUM_TRIES]
      /\ pos \in [Entries -> 0..Chunks] /\ pos[e] \in Nat
      /\ status \in [Entries -> {"none", "exist", "download", "error"}]
  BY TargetInPaths, DownloadAssumption DEF ListInv, Types, DownloadAssumption
<1>1. scene' = scene /\ p' = p /\ Named(e) = p /\ ~scene.cached
  BY JobFrame DEF Target, Named, Alone
<1>2. status[e] # "download"
  BY JobMoves DEF Moves, Resting, ListInv, Ahead
<1>3. CASE Start(e)
  <2>1. pc[e] \in {"queued", "queued_drawing"} /\ pc[e] # "write"  BY <1>3 DEF Start
  <2>2. pc'[e] = IF pc[e] = "queued" THEN "check" ELSE "drawing"  BY <1>0, <1>3 DEF Start, Move
  <2>3. UNCHANGED <<try, pos, fd, temp, final, status>>  BY <1>3 DEF Start, disk
  <2> QED  BY <1>1, <1>2, <2>1, <2>2, <2>3 DEF Own, FilePCs
<1>4. CASE Check(e)
  <2>1. pc[e] = "check" /\ try'[e] = try[e] + 1 /\ UNCHANGED <<pos, fd, temp, final>>
    BY <1>0, <1>4 DEF Check, disk
  <2>2. \/ Keeps(e) /\ pc'[e] = "done"
        \/ pc'[e] = "open" /\ status' = status
        \/ pc'[e] = "check" /\ status' = status
        \/ pc'[e] = "done" /\ status'[e] = "error"
    BY <1>0, <1>1, <1>4, FailTryMoves DEF Check, Succeed, Move
  <2>3. Keeps(e) => final[p] = Binary(e)
    BY <1>1, <2>1 DEF Keeps, Own, FilePCs, NoFile
  <2>4. try'[e] # 0  BY <1>0, <2>1
  <2> QED  BY <1>1, <1>2, <2>1, <2>2, <2>3, <2>4 DEF Own, FilePCs
<1>5. CASE Open(e)
  <2>1. pc[e] = "open" /\ pc'[e] = "write" /\ UNCHANGED <<try, status, final>>
    BY <1>0, <1>5 DEF Open, OpenAt, Suffixed, Move
  <2>2. fd'[e] = "temp" /\ pos'[e] = 0 /\ temp'[p] = File(<<>>)
    BY <1>0, <1>5 DEF Open, OpenAt, Suffixed
  <2>3. Part(e, 0) = <<>>  BY PartLen
  <2> QED  BY <1>1, <1>2, <2>1, <2>2, <2>3 DEF Own, FilePCs
<1>6. CASE WriteChunk(e)
  <2>1. pc[e] = "write" /\ fd[e] = "temp"  BY <1>6 DEF WriteChunk, Own
  <2>2. temp'[p] = Put(temp[p], pos[e] + 1, e) /\ pos'[e] = pos[e] + 1
    BY <1>0, <1>6, <2>1 DEF WriteChunk
  <2>3. temp'[p] = File(Part(e, pos'[e]))  BY <1>0, <2>1, <2>2, PartPut DEF Own
  <2>4. UNCHANGED <<pc, try, fd, status>> /\ final'[p] = final[p]
    BY <1>0, <1>6, <2>1 DEF WriteChunk
  <2> QED  BY <1>1, <2>1, <2>3, <2>4 DEF Own
<1>7. CASE EndStream(e)
  <2>1. /\ pc[e] = "write" /\ pc'[e] = "verify" /\ fd'[e] = "none"
        /\ UNCHANGED <<try, pos, temp, final, status>>
    BY <1>0, <1>7 DEF EndStream, Move, disk
  <2> QED  BY <1>1, <1>2, <2>1 DEF Own, FilePCs
<1>8. ASSUME FailTry(e, try[e]), fd'[e] = "none", pc[e] \in FilePCs \ {"check"},
             UNCHANGED <<try, final>>
      PROVE  Own(e)'
  <2>1. \/ pc'[e] = "check" /\ status' = status
        \/ pc'[e] = "done" /\ status'[e] = "error"
    BY <1>0, <1>8, FailTryMoves
  <2>2. try[e] # 0  BY <1>0, <1>8 DEF ListInv, Ahead
  <2> QED  BY <1>1, <1>2, <1>8, <2>1, <2>2 DEF Own, FilePCs
<1>9. DropTemp(e) => fd'[e] = "none"  BY <1>0 DEF DropTemp, Redirect
<1>10. CASE FailStream(e)  BY <1>8, <1>9, <1>10 DEF FailStream, FilePCs
<1>11. CASE Verify(e)
  <2>1. CASE FailTry(e, try[e]) /\ DropTemp(e)
    BY <1>8, <1>9, <1>11, <2>1 DEF Verify, FilePCs
  <2>2. CASE /\ Move(e, "move") /\ UNCHANGED <<temp, fd, status>>
             /\ FullSize(temp[Target(e)]) \/ scene.kind[e] = "url"
    <3>1. Len(Part(e, pos[e])) = Chunks
      BY <1>11, <2>2 DEF Verify, FullSize, Own, File, Alone
    <3>2. temp[p] = Binary(e)
      <4>1. pos[e] = Chunks  BY <1>0, <3>1, PartLen
      <4> QED  BY <1>11, <4>1 DEF Verify, Own, Part, Binary
    <3>3. pc[e] = "verify" /\ pc'[e] = "move" /\ UNCHANGED <<try, pos, fd, temp, final, status>>
      BY <1>0, <1>11, <2>2 DEF Verify, Move
    <3> QED  BY <1>1, <1>2, <3>2, <3>3 DEF Own, FilePCs
  <2> QED  BY <1>11, <2>1, <2>2 DEF Verify
<1>12. ASSUME Saved(e), final'[p] = Binary(e), fd'[e] = "none", UNCHANGED try
       PROVE  Own(e)'
  <2>1. pc'[e] \in {"annotate", "done"}  BY <1>0, <1>12, SavedMoves
  <2> QED  BY <1>1, <1>12, <2>1 DEF Own, FilePCs, File
<1>13. CASE Rename(e)
  <2>1. pc[e] = "move" /\ temp[p] = Binary(e) /\ fd[e] = "none" /\ temp[p].there
    BY <1>13 DEF Rename, Own, Binary, File
  <2>2. final'[p] = Binary(e) /\ fd'[e] = "none" /\ Saved(e) /\ UNCHANGED try
    BY <1>0, <1>13, <2>1 DEF Rename, Redirect
  <2> QED  BY <1>12, <2>2
<1>14. CASE Annotate(e)
  <2>1. pc[e] = "annotate" /\ fd[e] = "none" /\ UNCHANGED <<try, fd, final>>
    BY <1>14 DEF Annotate, Own
  <2>2. CASE Succeed(e)
    <3>1. pc'[e] = "done" /\ final'[p] = Binary(e)
      BY <1>0, <2>1, <2>2 DEF Succeed, Move, Own
    <3> QED  BY <1>1, <2>1, <3>1 DEF Own, FilePCs
  <2> QED  BY <1>8, <1>14, <2>1, <2>2 DEF Annotate, Retry, FilePCs
<1>15. CASE Draw(e)
  <2>1. /\ pc[e] = "drawing" /\ pc'[e] \in {"done", "raised"} /\ UNCHANGED <<try, fd, final, status>>
    BY <1>0, <1>15 DEF Draw, Move
  <2> QED  BY <1>1, <1>2, <2>1 DEF Own, FilePCs
<1>16. ~BeginCopy(e) /\ ~EndCopy(e)  BY DEF BeginCopy, EndCopy, Own
<1> QED
  BY <1>3, <1>4, <1>5, <1>6, <1>7, <1>10, <1>11, <1>13, <1>14, <1>15, <1>16 DEF Job

LEMMA VisitKeepsOwn ==
    ASSUME ListInv, NEW e \in Entries, Alone(e), Own(e), Visit
    PROVE  Own(e)'
<1>1. next \in Entries /\ pc[next] = "new" /\ try[next] = 0 /\ status[next] # "download"
  BY DownloadAssumption DEF Visit, ListInv, Types, Ahead, Entries, DownloadAssumption
<1>2. UNCHANGED <<scene, try, pos, fd, temp, final>> /\ Target(e)' = Target(e)
  BY DEF Visit, disk, Target
<1>3. CASE e # next
  <2>1. pc'[e] = pc[e] /\ status'[e] = status[e]
    BY <1>1, <1>3 DEF Visit, Submit, ListInv, Types
  <2> QED  BY <1>2, <2>1 DEF Own
<1>4. CASE e = next
  <2>1. \/ pc'[e] = "new"
        \/ pc'[e] = "queued_drawing"
        \/ pc'[e] = "queued" /\ ~Keeps(e)
    BY <1>1, <1>4 DEF Visit, Submit, ListInv, Types
  <2>2. status'[e] # "download"
    BY <1>1, <1>4 DEF Visit, ListInv, Types
  <2>3. ~scene.overwrite /\ ~Keeps(e) => final[Target(e)] = NoFile
    <3>1. Named(e) = Target(e)  BY DEF Named, Target, Alone
    <3>2. Binary(Old).there /\ Binary(e).there  BY DEF Binary, File
    <3> QED  BY <3>1, <3>2 DEF Keeps, Own
  <2> QED  BY <1>1, <1>2, <1>4, <2>1, <2>2, <2>3 DEF Own, FilePCs, NoFile
<1> QED  BY <1>3, <1>4

LEMMA CrashKeepsOwn ==
    ASSUME NEW e \in Entries, Own(e), Crash
    PROVE  Own(e)'
<1>1. /\ pc'[e] = "new" /\ fd'[e] = "none" /\ status'[e] = "none"
      /\ UNCHANGED <<scene, temp, final>> /\ Target(e)' = Target(e)
  BY DEF Crash, AllEntries, disk, Target
<1> QED  BY <1>1 DEF Own, FilePCs

LEMMA InitDisk == Init => DiskInv
<1> SUFFICES ASSUME Init, NEW e \in Entries, Alone(e) PROVE Own(e)
  BY DEF DiskInv
<1>1. scene \in SceneType  BY DownloadAssumption DEF Init, DownloadAssumption
<1>2. pc[e] = "new" /\ fd[e] = "none" /\ status[e] = "none"  BY DEF Init, AllEntries
<1>3. final[Target(e)] \in {NoFile, Binary(Old)}  BY <1>1, TargetInPaths DEF Init
<1> QED  BY <1>2, <1>3 DEF Own, FilePCs

LEMMA NextDisk == ListInv /\ DiskInv /\ [Next]_vars => DiskInv'
<1> SUFFICES ASSUME ListInv, DiskInv, [Next]_vars, NEW e \in Entries, Alone(e)' PROVE Own(e)'
  BY DEF DiskInv
<1>1. UNCHANGED scene
  <2>1. ASSUME NEW f \in Entries, Job(f) PROVE scene' = scene  BY <2>1, JobFrame
  <2>2. Thread \/ Crash \/ Done \/ UNCHANGED vars => scene' = scene
    BY DEF Thread, Visit, StopListing, Drain, Return, Crash, Done, vars
  <2> QED  BY <2>1, <2>2 DEF Next
<1>2. Alone(e) /\ Own(e)  BY <1>1 DEF Alone, Target, DiskInv
<1>3. CASE Visit  BY <1>2, <1>3, VisitKeepsOwn
<1>4. CASE StopListing \/ Drain \/ Return \/ UNCHANGED vars
  BY <1>2, <1>4 DEF StopListing, Drain, Return, vars, disk, Own, Target
<1>5. ASSUME NEW f \in Entries, Job(f) PROVE Own(e)'
  <2>1. CASE f = e  BY <1>2, <1>5, <2>1, JobKeepsOwn
  <2>2. CASE f # e  BY <1>2, <1>5, <2>2, OthersKeepOwn
  <2> QED  BY <2>1, <2>2
<1>6. CASE Crash  BY <1>2, <1>6, CrashKeepsOwn
<1> QED  BY <1>3, <1>4, <1>5, <1>6 DEF Next, Thread, Done

LEMMA DiskAlways == Spec => [](ListInv /\ DiskInv)
<1> QED  BY InitList, InitDisk, NextList, NextDisk, PTL DEF Spec

\* Whenever the process is killed, what is at an item's path is nothing or a complete
\* file (downloader.py:709-717).
THEOREM DownloadNeverPartial == Spec => []NeverPartial
<1>1. DiskInv => NeverPartial  BY DEF DiskInv, Own, NeverPartial
<1> QED  BY <1>1, DiskAlways, PTL

\* An item reported as downloaded is on the disk, whichever try wrote it
\* (downloader.py:338-353, 646-717).
THEOREM DownloadReportsItem == Spec => []DownloadIsItem
<1>1. DiskInv => DownloadIsItem  BY DEF DiskInv, Own, DownloadIsItem
<1> QED  BY <1>1, DiskAlways, PTL

\* Without overwrite a file that is there is not touched, by whatever step of whatever
\* job (downloader.py:231, 646-665).
THEOREM DownloadKeepsFiles == Spec => KeepsFiles
<1> DEFINE Kept == ~scene.overwrite => \A e \in Entries : Alone(e) /\ final[Target(e)].there =>
                                          final'[Target(e)] = final[Target(e)]
<1>1. ListInv /\ DiskInv /\ [Next]_vars => Kept
  <2> SUFFICES ASSUME ListInv, DiskInv, [Next]_vars, ~scene.overwrite,
                      NEW e \in Entries, Alone(e), final[Target(e)].there
               PROVE  final'[Target(e)] = final[Target(e)]
    OBVIOUS
  <2>0. Own(e) /\ Target(e) \in Paths  BY TargetInPaths DEF DiskInv, ListInv, Types
  <2>1. ASSUME NEW f \in Entries \ {e}, Job(f) PROVE final'[Target(e)] = final[Target(e)]
    <3>1. scene.kind[f] # "dir" /\ Touches(f)
      BY <2>1, JobMoves, JobTouches DEF Moves, Resting, ListInv, Ahead
    <3> QED  BY <2>0, <3>1 DEF Alone, Touches
  <2>2. CASE Rename(e)
    <3>1. final[Target(e)] = Binary(e) /\ temp[Target(e)] = Binary(e)
      BY <2>0, <2>2 DEF Rename, Own, FilePCs, NoFile
    <3> QED  BY <2>0, <2>2, <3>1 DEF Rename, ListInv, Types
  <2>3. CASE Open(e) \/ WriteChunk(e)
    BY <2>0, <2>3 DEF Open, OpenAt, Suffixed, WriteChunk, Own
  <2>4. ~BeginCopy(e) /\ ~EndCopy(e)  BY <2>0 DEF BeginCopy, EndCopy, Own
  <2>5. CASE Job(e)
    BY <2>2, <2>3, <2>4, <2>5 DEF Job, Start, Check, EndStream, FailStream, Verify, Annotate, Draw, disk
  <2>6. CASE Thread \/ Crash \/ UNCHANGED vars
    BY <2>6 DEF Thread, Visit, StopListing, Drain, Return, Crash, vars, disk
  <2> QED  BY <2>1, <2>5, <2>6 DEF Next, Done
<1>2. ListInv /\ DiskInv /\ [Next]_vars => [Kept]_vars  BY <1>1
<1> QED  BY <1>2, DiskAlways, PTL DEF Spec, KeepsFiles
-----------------------------------------------------------------------------
\* Until a kill, somebody is at work on every .download file; and only who streams
\* has one open.
Writing == {"write", "verify", "move"}
Streams == \A e \in Entries : fd[e] = "temp" => pc[e] = "write"
Tended ==
    crashes = 0 =>
      \A p \in Paths : temp[p].there => \E e \in Entries : Target(e) = p /\ pc[e] \in Writing

LEMMA JobStreams == ASSUME ListInv, Streams, NEW f \in Entries, Job(f) PROVE Streams'
<1>0. /\ fd \in [Entries -> {"none", "temp", "final", "gone"}] /\ pc \in [Entries -> PCs]
  BY DEF ListInv, Types
<1>1. \A e \in Entries \ {f} : fd'[e] = "temp" => fd[e] = "temp"
  <2>1. CASE DropTemp(f) \/ UNCHANGED fd  BY <1>0, <2>1 DEF DropTemp, Redirect
  <2>2. CASE Rename(f)  BY <1>0, <2>2 DEF Rename, Redirect
  <2>3. CASE Open(f) \/ EndStream(f) \/ BeginCopy(f) \/ EndCopy(f)
    BY <1>0, <2>3 DEF Open, EndStream, BeginCopy, EndCopy
  <2> QED
    BY <2>1, <2>2, <2>3
    DEF Job, Start, Check, WriteChunk, FailStream, Verify, Annotate, Draw, disk
<1>2. \A e \in Entries \ {f} : pc'[e] = pc[e]  BY <1>0, JobMoves DEF Moves
<1>3. fd'[f] = "temp" => pc'[f] = "write"
  <2>1. CASE Open(f)  BY <1>0, <2>1 DEF Open, Move
  <2>2. CASE WriteChunk(f)  BY <2>2 DEF WriteChunk, Streams
  <2>3. CASE EndStream(f) \/ FailStream(f) \/ EndCopy(f)
    BY <1>0, <2>3 DEF EndStream, FailStream, EndCopy, DropTemp, Redirect
  <2>4. CASE Verify(f)
    BY <1>0, <2>4 DEF Verify, DropTemp, Redirect, Streams
  <2>5. CASE Rename(f)  BY <1>0, <2>5 DEF Rename, Redirect, Streams
  <2>6. CASE BeginCopy(f)  BY <1>0, <2>6 DEF BeginCopy, Streams
  <2>7. CASE Start(f) \/ Check(f) \/ Annotate(f) \/ Draw(f)
    BY <2>7 DEF Start, Check, Annotate, Draw, disk, Streams
  <2> QED  BY <2>1, <2>2, <2>3, <2>4, <2>5, <2>6, <2>7 DEF Job
<1> QED  BY <1>1, <1>2, <1>3 DEF Streams

LEMMA JobTended ==
    ASSUME ListInv, Streams, Tended, NEW f \in Entries, Job(f) PROVE Tended'
<1> SUFFICES ASSUME crashes = 0, NEW p \in Paths, temp'[p].there
             PROVE  \E e \in Entries : Target(e) = p /\ pc'[e] \in Writing
  BY JobFrame DEF Tended, Target
<1>0. /\ pc \in [Entries -> PCs] /\ Target(f) \in Paths
      /\ temp = [q \in Paths |-> temp[q]] /\ \A e \in Entries \ {f} : pc'[e] = pc[e]
  BY JobMoves, TargetInPaths DEF ListInv, Types, Moves
<1>1. ASSUME temp[p].there, pc[f] \notin Writing \/ p # Target(f) \/ pc' = pc
      PROVE  \E e \in Entries : Target(e) = p /\ pc'[e] \in Writing
  <2>1. PICK e \in Entries : Target(e) = p /\ pc[e] \in Writing  BY <1>1 DEF Tended
  <2> QED  BY <1>0, <1>1, <2>1
<1>2. CASE p # Target(f)  BY <1>1, <1>2, JobTouches DEF Touches
<1>3. CASE p = Target(f)
  <2>1. CASE Open(f) \/ EndStream(f)
    BY <1>0, <1>3, <2>1 DEF Open, EndStream, Move, Writing
  <2>2. CASE WriteChunk(f)
    <3>1. CASE fd[f] = "temp"  BY <1>0, <1>3, <2>2, <3>1 DEF WriteChunk, Streams, Writing
    <3>2. CASE fd[f] # "temp"  BY <1>1, <2>2, <3>2 DEF WriteChunk
    <3> QED  BY <3>1, <3>2
  <2>3. ~DropTemp(f)  BY <1>0, <1>3 DEF DropTemp, NoFile
  <2>4. CASE Verify(f)  BY <1>0, <1>3, <2>3, <2>4 DEF Verify, Move, Writing
  <2>5. ~FailStream(f)  BY <2>3 DEF FailStream
  <2>6. ~Rename(f)  BY <1>0, <1>3 DEF Rename, NoFile
  <2>7. CASE Start(f) \/ Check(f) \/ BeginCopy(f) \/ EndCopy(f) \/ Annotate(f) \/ Draw(f)
    <3>1. temp' = temp /\ pc[f] \notin Writing
      BY <2>7 DEF Start, Check, BeginCopy, EndCopy, Annotate, Draw, disk, Writing
    <3> QED  BY <1>1, <3>1
  <2> QED  BY <2>1, <2>2, <2>4, <2>5, <2>6, <2>7 DEF Job
<1> QED  BY <1>2, <1>3

LEMMA NextTended == ListInv /\ Streams /\ Tended /\ [Next]_vars => Streams' /\ Tended'
<1> SUFFICES ASSUME ListInv, Streams, Tended, [Next]_vars PROVE Streams' /\ Tended'  OBVIOUS
<1>1. CASE Visit
  <2>1. UNCHANGED <<scene, fd, temp, crashes>>  BY <1>1 DEF Visit, disk
  <2>2. next \in Entries /\ pc[next] = "new"
    BY <1>1, DownloadAssumption DEF Visit, ListInv, Types, Ahead, Entries, DownloadAssumption
  <2>3. \A e \in Entries : pc[e] # "new" => pc'[e] = pc[e]
    BY <1>1, <2>2 DEF Visit, Submit, ListInv, Types
  <2>4. Streams'  BY <2>1, <2>3 DEF Streams
  <2>5. Tended'
    <3>1. ASSUME NEW e \in Entries, pc[e] \in Writing PROVE pc'[e] \in Writing
      BY <2>3, <3>1 DEF Writing
    <3> QED  BY <2>1, <3>1 DEF Tended, Target
  <2> QED  BY <2>4, <2>5
<1>2. CASE StopListing \/ Drain \/ Return \/ UNCHANGED vars
  BY <1>2 DEF StopListing, Drain, Return, vars, disk, Streams, Tended, Target
<1>3. ASSUME NEW e \in Entries, Job(e) PROVE Streams' /\ Tended'
  BY <1>3, JobStreams, JobTended
<1>4. CASE Crash
  BY <1>4, DownloadAssumption
  DEF Crash, AllEntries, ListInv, Types, Streams, Tended, DownloadAssumption
<1> QED  BY <1>1, <1>2, <1>3, <1>4 DEF Next, Thread, Done

\* When all jobs are over no .download file is left, unless the process was killed, also
\* when jobs share a path and remove or rename each other's files (downloader.py:715-726).
THEOREM DownloadNoTempLeft == Spec => []NoTempLeft
<1>1. Init => Streams /\ Tended  BY DEF Init, AllEntries, Streams, Tended, NoFile
<1>2. Tended => NoTempLeft  BY DEF Tended, NoTempLeft, Finished, Idle, Resting, Writing
<1> QED  BY <1>1, <1>2, ListAlways, NextTended, PTL DEF Spec
-----------------------------------------------------------------------------
\* With overwrite, and on the first try of an entry with a path of its own, an annotated
\* item is reported as downloaded only with its annotations (downloader.py:727-744).
THEOREM DownloadAnnotations == Spec => []AnnotationsToo
<1>1. Init => AnnotationsToo
  BY DownloadAssumption DEF Init, AllEntries, AnnotationsToo, DownloadAssumption, SceneType
<1>2. ListInv /\ DiskInv /\ AnnotationsToo /\ [Next]_vars => AnnotationsToo'
  <2> SUFFICES ASSUME ListInv, DiskInv, AnnotationsToo, [Next]_vars, NEW e \in scene'.drawn,
                      scene'.overwrite \/ (Alone(e)' /\ try'[e] = 1), status'[e] = "download"
               PROVE  e \in drew'
    BY DEF AnnotationsToo
  <2>0. /\ status \in [Entries -> {"none", "exist", "download", "error"}]
        /\ pc \in [Entries -> PCs] /\ try \in [Entries -> 0..NUM_TRIES]
        /\ scene \in SceneType
    BY DEF ListInv, Types
  <2>1. ASSUME scene' = scene, status'[e] = status[e], try'[e] = try[e], drew \subseteq drew'
        PROVE  e \in drew'
    BY <2>1 DEF AnnotationsToo, Alone, Target
  <2>2. ASSUME NEW f \in Entries, Job(f) PROVE e \in drew'
    <3>0. scene' = scene /\ Moves(f) /\ drew \subseteq drew' /\ e \in Entries
      <4>1. drew \subseteq drew'
        BY <2>2 DEF Job, Start, Check, Open, WriteChunk, EndStream, FailStream, Verify, Rename,
                    BeginCopy, EndCopy, Annotate, Draw, disk
      <4> QED  BY <2>0, <2>2, <4>1, JobMoves, JobFrame DEF SceneType
    <3>1. CASE f # e  BY <2>0, <2>1, <3>0, <3>1 DEF Moves
    <3>2. CASE f = e /\ Check(e)
      <4>1. Keeps(e) /\ try'[e] = try[e] + 1 /\ pc[e] = "check"
        <5>1. pc[e] = "check" /\ status[e] # "download" /\ try'[e] = try[e] + 1
          BY <2>0, <3>0, <3>2 DEF Check, ListInv, Ahead
        <5>2. FailTry(e, try[e] + 1) => status'[e] # "download"
          BY <2>0, <3>0, <5>1, FailTryMoves
        <5> QED  BY <3>2, <5>1, <5>2 DEF Check
      <4>2. ~scene.overwrite /\ Alone(e) /\ try[e] = 0
        <5>1. Alone(e)' <=> Alone(e)  BY <3>0 DEF Alone, Target
        <5>2. ~scene.overwrite /\ try[e] \in Int  BY <2>0, <3>0, <4>1 DEF Keeps
        <5> QED  BY <3>0, <4>1, <5>1, <5>2
      <4>3. Named(e) = Target(e)  BY <4>2 DEF Named, Target, Alone
      <4> QED  BY <3>0, <4>1, <4>2, <4>3 DEF Keeps, DiskInv, Own
    <3>3. CASE f = e /\ Annotate(e)
      <4>1. FailTry(e, try[e]) => status'[e] # "download"
        BY <2>0, <3>0, <3>3, FailTryMoves DEF Annotate, ListInv, Ahead
      <4> QED  BY <3>3, <4>1 DEF Annotate, Retry
    <3>4. f = e => status[e] # "download"  BY <3>0 DEF ListInv, Ahead, Moves, Resting
    <3>5. f = e /\ (Saved(e) \/ FailTry(e, try[e])) => status'[e] # "download"
      BY <2>0, <3>0, <3>4, FailTryMoves DEF Saved
    <3>6. f = e => status' # status  BY <3>4
    <3>7. CASE f = e /\ ~Check(e) /\ ~Annotate(e)
      BY <2>2, <3>5, <3>6, <3>7
      DEF Job, Start, Open, WriteChunk, EndStream, FailStream, Verify, Rename, BeginCopy, EndCopy, Draw
    <3> QED  BY <3>1, <3>2, <3>3, <3>7
  <2>3. CASE Visit
    <3>1. scene' = scene /\ try' = try /\ drew' = drew /\ status'[e] = status[e]
      BY <2>0, <2>3 DEF Visit, disk, SceneType
    <3> QED  BY <2>1, <3>1
  <2>4. CASE StopListing \/ Drain \/ Return \/ UNCHANGED vars
    BY <2>1, <2>4 DEF StopListing, Drain, Return, vars, disk
  <2>5. CASE Crash  BY <2>0, <2>5 DEF Crash, AllEntries, SceneType
  <2> QED  BY <2>2, <2>3, <2>4, <2>5 DEF Next, Thread, Done
<1> QED  BY <1>1, <1>2, DiskAlways, PTL DEF Spec
-----------------------------------------------------------------------------
\* The indices given count the items visited; behind them the job list is empty; who was
\* given a job is in the list, except the one that did not fit; and what was waited for
\* is over.
Before(n) == {e \in Entries : e < n /\ scene.kind[e] # "dir"}

Indices ==
    /\ i_item = Cardinality(Before(next)) + 1
    /\ jobs \in [1..scene.count -> Entries \cup {0}] /\ drain \in 1..(scene.count + 1)
    /\ main = "listing" => drain = 1
    /\ main = "returned" => drain = scene.count + 1
    /\ \A i \in 1..scene.count : i >= i_item => jobs[i] = 0
Given ==
    \A e \in Entries : pc[e] # "new" =>
        \/ \E i \in 1..scene.count : jobs[i] = e
        \/ e = next /\ main # "listing" /\ i_item > scene.count
Drained ==
    \A i \in 1..(drain - 1) : jobs[i] # 0 => pc[jobs[i]] \in {"done", "raised"}
WaitInv == Indices /\ Given /\ Drained

LEMMA BeforeFinite ==
    ASSUME NEW n PROVE IsFiniteSet(Before(n)) /\ Cardinality(Before(n)) \in Nat
<1>1. IsFiniteSet(Entries)  BY DownloadAssumption, FS_Interval DEF DownloadAssumption, Entries
<1>2. Before(n) \subseteq Entries  BY DEF Before
<1> QED  BY <1>1, <1>2, FS_Subset, FS_CardinalityType

\* One more entry, one more item unless it is a folder.
LEMMA BeforeNext ==
    ASSUME NEW n \in Entries
    PROVE  /\ scene.kind[n] = "dir" => Before(n + 1) = Before(n)
           /\ scene.kind[n] # "dir" =>
                /\ Before(n + 1) = Before(n) \cup {n}
                /\ Cardinality(Before(n + 1)) = Cardinality(Before(n)) + 1
<1>1. \A e \in Entries : e < n + 1 <=> e < n \/ e = n
  BY DownloadAssumption DEF Entries, DownloadAssumption
<1>2. n \notin Before(n)  BY DownloadAssumption DEF Before, Entries, DownloadAssumption
<1>3. Before(n + 1) = IF scene.kind[n] = "dir" THEN Before(n) ELSE Before(n) \cup {n}
  BY <1>1 DEF Before
<1> QED  BY <1>2, <1>3, BeforeFinite, FS_AddElement

LEMMA InitWaits == Init => WaitInv
<1> SUFFICES ASSUME Init PROVE WaitInv  OBVIOUS
<1>1. Before(next) = {}
  BY DownloadAssumption DEF Init, Before, Entries, DownloadAssumption
<1>2. scene.count \in Nat
  BY DownloadAssumption DEF Init, SceneType, DownloadAssumption
<1>3. Indices
  <2>1. Cardinality(Before(next)) = 0  BY <1>1, FS_EmptySet
  <2>2. i_item = 1 /\ drain = 1 /\ main = "listing" /\ jobs = [i \in 1..scene.count |-> 0]
    BY DEF Init
  <2> QED  BY <1>2, <2>1, <2>2 DEF Indices
<1>4. Given /\ Drained  BY <1>2 DEF Init, AllEntries, Given, Drained
<1> QED  BY <1>3, <1>4 DEF WaitInv

LEMMA VisitWaits == ListInv /\ WaitInv /\ Visit => WaitInv'
<1> SUFFICES ASSUME ListInv, WaitInv, Visit PROVE WaitInv'  OBVIOUS
<1> DEFINE e == next  count == scene.count
<1>0. /\ e \in Entries /\ pc[e] = "new" /\ main = "listing" /\ drain = 1 /\ count \in Nat
      /\ UNCHANGED <<scene, drain>> /\ pc \in [Entries -> PCs]
      /\ jobs \in [1..count -> Entries \cup {0}] /\ i_item \in Nat \ {0}
  <2>1. e \in Entries /\ pc[e] = "new" /\ main = "listing" /\ UNCHANGED <<scene, drain>>
    BY DownloadAssumption
    DEF Visit, ListInv, Types, Ahead, Entries, DownloadAssumption
  <2>2. count \in Nat /\ pc \in [Entries -> PCs]
    BY DownloadAssumption DEF ListInv, Types, DownloadAssumption, SceneType
  <2>3. drain = 1 /\ jobs \in [1..count -> Entries \cup {0}]
    BY <2>1 DEF WaitInv, Indices
  <2>4. i_item \in Nat \ {0}  BY BeforeFinite DEF WaitInv, Indices
  <2> QED  BY <2>1, <2>2, <2>3, <2>4
<1>1. \A n : Before(n)' = Before(n)  BY <1>0 DEF Before
<1>2. Drained'  BY <1>0 DEF Drained
<1>3. CASE scene.kind[e] = "dir"
  <2>1. next' = next + 1 /\ UNCHANGED <<main, i_item, jobs, pc>>  BY <1>3 DEF Visit
  <2>2. Indices'  BY <1>0, <1>1, <1>3, <2>1, BeforeNext DEF WaitInv, Indices
  <2>3. Given'  BY <1>0, <2>1 DEF WaitInv, Given
  <2> QED  BY <1>2, <2>2, <2>3 DEF WaitInv
<1>4. CASE scene.kind[e] # "dir" /\ pc' = pc
  <2>1. next' = next + 1 /\ i_item' = i_item + 1 /\ UNCHANGED <<main, jobs, pc>>
    BY <1>0, <1>4 DEF Visit, Submit
  <2>2. Indices'  BY <1>0, <1>1, <1>4, <2>1, BeforeNext DEF WaitInv, Indices
  <2>3. Given'  BY <1>0, <2>1 DEF WaitInv, Given
  <2> QED  BY <1>2, <2>2, <2>3 DEF WaitInv
<1>5. ASSUME scene.kind[e] # "dir", NEW queue, Submit(e, queue)
      PROVE  WaitInv'
  <2>1. \A f \in Entries \ {e} : pc'[f] = pc[f]  BY <1>0, <1>5 DEF Submit
  <2>2. CASE i_item <= count
    <3>1. /\ next' = next + 1 /\ i_item' = i_item + 1 /\ main' = main
          /\ i_item \in 1..count /\ jobs' = [jobs EXCEPT ![i_item] = e]
      BY <1>0, <1>5, <2>2 DEF Submit
    <3>2. jobs[i_item] = 0  BY <1>0, <3>1 DEF WaitInv, Indices
    <3>3. Indices'  BY <1>0, <1>1, <1>5, <3>1, BeforeNext DEF WaitInv, Indices
    <3>4. Given'
      <4>1. ASSUME NEW f \in Entries, pc'[f] # "new" PROVE \E i \in 1..count : jobs'[i] = f
        <5>1. CASE f = e  BY <1>0, <3>1, <5>1
        <5>2. CASE f # e
          <6>1. PICK i \in 1..count : jobs[i] = f
            BY <1>0, <2>1, <4>1, <5>2 DEF WaitInv, Given
          <6>2. i # i_item  BY <3>2, <6>1, DownloadAssumption DEF Entries, DownloadAssumption
          <6> QED  BY <1>0, <3>1, <6>1, <6>2
        <5> QED  BY <5>1, <5>2
      <4> QED  BY <1>0, <4>1 DEF Given
    <3> QED  BY <1>2, <3>3, <3>4 DEF WaitInv
  <2>3. CASE i_item > count
    <3>1. main' = "draining" /\ UNCHANGED <<jobs, i_item, next>>
      BY <1>0, <1>5, <2>3 DEF Submit
    <3>2. Indices'  BY <1>0, <1>1, <3>1 DEF WaitInv, Indices
    <3>3. Given'  BY <1>0, <2>1, <2>3, <3>1 DEF WaitInv, Given
    <3> QED  BY <1>2, <3>2, <3>3 DEF WaitInv
  <2> QED  BY <1>0, <2>2, <2>3
<1> QED  BY <1>3, <1>4, <1>5 DEF Visit

LEMMA JobWaits == ASSUME ListInv, WaitInv, NEW f \in Entries, Job(f) PROVE WaitInv'
<1>0. /\ UNCHANGED <<scene, main, next, i_item, jobs, drain>> /\ pc \in [Entries -> PCs]
      /\ pc[f] \notin Resting /\ \E to \in PCs \ {"new"} : pc' = [pc EXCEPT ![f] = to]
      /\ scene.count \in Nat
  BY DownloadAssumption, JobMoves, JobFrame
  DEF Moves, ListInv, Types, SceneType, DownloadAssumption
<1>1. Indices'  BY <1>0 DEF WaitInv, Indices, Before
<1>2. Given'  BY <1>0 DEF WaitInv, Given, Resting
<1>3. Drained'
  <2>1. ASSUME NEW i \in 1..(drain - 1), jobs[i] # 0 PROVE pc'[jobs[i]] \in {"done", "raised"}
    <3>1. pc[jobs[i]] \in {"done", "raised"}  BY <2>1 DEF WaitInv, Drained
    <3>2. jobs[i] # f  BY <1>0, <3>1 DEF Resting
    <3> QED  BY <1>0, <3>1, <3>2 DEF PCs
  <2> QED  BY <1>0, <2>1 DEF Drained
<1> QED  BY <1>1, <1>2, <1>3 DEF WaitInv

\* The calling thread after the list: it waits for one index at a time.
LEMMA DrainWaits ==
    ASSUME ListInv, WaitInv, StopListing \/ Drain \/ Return
    PROVE  WaitInv'
<1>0. UNCHANGED <<scene, next, i_item, jobs, pc>> /\ scene.count \in Nat
  BY DownloadAssumption
  DEF StopListing, Drain, Return, ListInv, Types, SceneType, DownloadAssumption
<1>1. CASE StopListing
  BY <1>0, <1>1 DEF StopListing, WaitInv, Indices, Given, Drained, Before
<1>2. CASE Drain
  <2>1. /\ drain' = drain + 1 /\ drain \in 1..scene.count /\ main = "draining"
        /\ main' \in {"draining", "raised"}
    BY <1>0, <1>2 DEF Drain, WaitInv, Indices
  <2>2. jobs[drain] # 0 => pc[jobs[drain]] \in {"done", "raised"}
    BY <1>2 DEF Drain, JobState, Ended
  <2>3. Indices'  BY <1>0, <2>1 DEF WaitInv, Indices, Before
  <2>4. Given'  BY <1>0, <2>1 DEF WaitInv, Given
  <2>5. Drained'  BY <1>0, <2>1, <2>2 DEF WaitInv, Drained
  <2> QED  BY <2>3, <2>4, <2>5 DEF WaitInv
<1>3. CASE Return
  BY <1>0, <1>3 DEF Return, WaitInv, Indices, Given, Drained, Before
<1> QED  BY <1>1, <1>2, <1>3

LEMMA CrashWaits == ASSUME ListInv, Crash PROVE WaitInv'
<1>0. scene.count \in Nat /\ scene' = scene
  BY DownloadAssumption DEF Crash, ListInv, Types, SceneType, DownloadAssumption
<1>1. Before(next)' = {}
  BY DownloadAssumption DEF Crash, Before, Entries, DownloadAssumption
<1>2. Indices'
  <2>1. Cardinality(Before(next)') = 0  BY <1>1, FS_EmptySet
  <2>2. i_item' = 1 /\ drain' = 1 /\ main' = "listing" /\ jobs' = [i \in 1..scene'.count |-> 0]
    BY <1>0 DEF Crash
  <2> QED  BY <1>0, <2>1, <2>2 DEF Indices
<1>3. Given' /\ Drained'  BY <1>0 DEF Crash, AllEntries, Given, Drained
<1> QED  BY <1>2, <1>3 DEF WaitInv

LEMMA NextWaits == ListInv /\ WaitInv /\ [Next]_vars => WaitInv'
<1> SUFFICES ASSUME ListInv, WaitInv, [Next]_vars PROVE WaitInv'  OBVIOUS
<1>1. CASE UNCHANGED vars
  BY <1>1 DEF vars, WaitInv, Indices, Given, Drained, Before
<1> QED
  BY <1>1, VisitWaits, DrainWaits, JobWaits, CrashWaits DEF Next, Thread, Done

\* download() returns while a job still runs only if the dataset grew after it was
\* counted, and then at most one (downloader.py:205-217, 237-284).
THEOREM DownloadAllWaited == Spec => []AllWaited
<1>1. ListInv /\ WaitInv => AllWaited
  <2> SUFFICES ASSUME ListInv, WaitInv, main = "returned"
               PROVE  Cardinality({e \in Entries : pc[e] \notin Resting})
                        <= (IF Surplus THEN 1 ELSE 0)
    BY DEF AllWaited
  <2> DEFINE Left == {e \in Entries : pc[e] \notin Resting}
  <2>0. scene.count \in Nat /\ drain = scene.count + 1
    BY DownloadAssumption
    DEF WaitInv, Indices, ListInv, Types, SceneType, DownloadAssumption
  <2>1. ASSUME NEW e \in Left PROVE e = next /\ i_item > scene.count
    <3>1. \A i \in 1..scene.count : jobs[i] # e
      <4>1. e # 0  BY DownloadAssumption DEF Entries, DownloadAssumption
      <4> QED  BY <2>0, <2>1, <4>1 DEF WaitInv, Drained, Resting
    <3> QED  BY <2>1, <3>1 DEF WaitInv, Given, Resting
  <2>2. CASE Left = {}
    <3>1. Cardinality({}) = 0  BY FS_EmptySet
    <3> QED  BY <2>2, <3>1
  <2>3. CASE Left # {}
    <3>1. Left = {next} /\ i_item > scene.count /\ next \in Entries /\ pc[next] # "new"
      BY <2>1, <2>3 DEF Resting
    <3>2. scene.kind[next] # "dir"  BY <3>1 DEF ListInv, Ahead
    <3>3. Cardinality(Before(next + 1)) = i_item
      <4>1. Cardinality(Before(next)) \in Nat  BY BeforeFinite
      <4> QED  BY <3>1, <3>2, <4>1, BeforeNext DEF WaitInv, Indices
    <3>4. Cardinality(Before(next + 1)) <= Cardinality({e \in Entries : scene.kind[e] # "dir"})
      <4>1. {e \in Entries : scene.kind[e] # "dir"} = Before(N + 1)
        BY DownloadAssumption DEF Before, Entries, DownloadAssumption
      <4>2. Before(next + 1) \subseteq {e \in Entries : scene.kind[e] # "dir"}  BY DEF Before
      <4> QED  BY <4>1, <4>2, BeforeFinite, FS_Subset
    <3>5. Surplus
      <4>1. Cardinality({e \in Entries : scene.kind[e] # "dir"}) \in Nat
        <5>1. {e \in Entries : scene.kind[e] # "dir"} = Before(N + 1)
          BY DownloadAssumption DEF Before, Entries, DownloadAssumption
        <5> QED  BY <5>1, BeforeFinite
      <4>2. i_item \in Nat  BY <3>3, BeforeFinite
      <4> QED  BY <2>0, <3>1, <3>3, <3>4, <4>1, <4>2 DEF Surplus
    <3>6. Cardinality({next}) = 1  BY FS_Singleton
    <3> QED  BY <3>1, <3>5, <3>6
  <2> QED  BY <2>2, <2>3
<1> QED  BY <1>1, InitWaits, NextWaits, ListAlways, PTL DEF Spec
=============================================================================
