------------------------------ MODULE Download ------------------------------
(***************************************************************************)
(* dtlpy/repositories/downloader.py: Downloader.download walks the pages of *)
(* an item list, skips what the disk already has, submits one job per other *)
(* item to the 'item.download' pool and waits for the jobs in order.  A job *)
(* tries up to NUM_TRIES times to stream the item into <path>.download, to  *)
(* check its size, to rename it to <path> and to draw its annotations; with *)
(* the SDK cache the item is copied from the cache straight to <path>.      *)
(*                                                                         *)
(* The list was counted before its pages are fetched, so it may be longer   *)
(* than the job list.  The process may be killed; a second call then finds  *)
(* what the first left on the disk.  A file is the sequence of its chunks,  *)
(* each named after the item it came from.                                  *)
(***************************************************************************)
EXTENDS Integers, Sequences, FiniteSets

CONSTANTS
    N,          \* entries of the item list, visited in the order 1..N
    Scenes,     \* the calls explored: what each entry is, and the options
    Chunks,     \* chunks of an item's binary
    Workers,    \* threads of the pool 'item.download'
    NUM_TRIES,
    MaxCrashes  \* bound: how often the process is killed

Entries == 1..N
Old == 0        \* a chunk of a file that was there before the first call
Hole == N + 1   \* bytes skipped by a write behind the end of a file
Paths == Entries \X {"", "ext"}

SceneType ==
    [kind : [Entries -> {"file", "url", "dir"}],
     path : [Entries -> Entries],   \* local path; without_relative_path may merge two
     drawn : SUBSET Entries,        \* annotated items, when annotation options are given
     count : 1..N,                  \* items_count when the list was made
     overwrite : BOOLEAN,
     cached : BOOLEAN]              \* sdk_cache.use_cache

ASSUME DownloadAssumption ==
    /\ N \in Nat \ {0} /\ Chunks \in Nat \ {0} /\ Workers \in Nat \ {0}
    /\ NUM_TRIES \in Nat \ {0} /\ MaxCrashes \in Nat
    /\ Scenes \subseteq SceneType

VARIABLES
    scene,
    main,       \* the calling thread: listing, draining, returned, raised
    next,       \* next entry of the list
    i_item,     \* entries given an index so far
    jobs,       \* the job list: the entry behind each index, or 0
    drain,      \* next index to wait for
    pc,         \* where the job of an entry is
    try,        \* tries of an entry begun
    pos,        \* chunks an entry's job has written
    fd,         \* where the file it holds open is: at <path>.download, at <path>, unlinked
    temp,       \* the file at <path>.download
    final,      \* the file at <path>
    drew,       \* entries whose annotations are on the disk
    status,     \* Reporter._status
    crashes

vars == <<scene, main, next, i_item, jobs, drain, pc, try, pos, fd, temp, final,
          drew, status, crashes>>
thread == <<main, next, i_item, jobs, drain>>
disk == <<temp, final, drew>>
still == <<scene, thread, crashes>>

NoFile == [there |-> FALSE, bytes |-> <<>>]
File(bytes) == [there |-> TRUE, bytes |-> bytes]
Binary(e) == File([k \in 1..Chunks |-> e])
Files == [there : BOOLEAN, bytes : Seq(0..(N + 1))]

Named(e) == <<scene.path[e], "">>
\* A url item is saved under the url's own extension.
Target(e) == <<scene.path[e], IF scene.kind[e] = "url" THEN "ext" ELSE "">>

FilePCs == {"check", "open", "write", "verify", "move", "copy", "annotate"}
PCs == {"new", "queued", "queued_drawing", "drawing", "done", "raised"} \cup FilePCs
Resting == {"new", "done", "raised"}
Working == PCs \ (Resting \cup {"queued", "queued_drawing"})

AllEntries(x) == [e \in Entries |-> x]

Init ==
    /\ scene \in Scenes
    /\ main = "listing" /\ next = 1 /\ i_item = 1 /\ drain = 1
    /\ jobs = [i \in 1..scene.count |-> 0]
    /\ pc = AllEntries("new") /\ status = AllEntries("none") /\ fd = AllEntries("none")
    /\ try = AllEntries(0) /\ pos = AllEntries(0)
    /\ temp = [p \in Paths |-> NoFile]
    /\ \E had \in SUBSET {Named(e) : e \in {f \in Entries : scene.kind[f] # "dir"}} :
         final = [p \in Paths |-> IF p \in had THEN Binary(Old) ELSE NoFile]
    /\ drew = {} /\ crashes = 0
-----------------------------------------------------------------------------
(* The calling thread. *)

\* pool.submit, then jobs[i_item] = ...: the job runs even when the list is full
\* and the assignment raises.  The exception is logged and the loop is over.
Submit(e, queue) ==
    /\ pc' = [pc EXCEPT ![e] = queue]
    /\ IF i_item <= scene.count
       THEN /\ jobs' = [jobs EXCEPT ![i_item] = e]
            /\ i_item' = i_item + 1 /\ next' = next + 1
            /\ UNCHANGED main
       ELSE main' = "draining" /\ UNCHANGED <<jobs, i_item, next>>

\* os.path.isfile(item_local_filepath) and not overwrite
Clobbers(e) == FALSE
Keeps(e) == final[Named(e)].there /\ ~scene.overwrite

Visit ==
    LET e == next IN
    /\ main = "listing" /\ next <= N
    /\ \/ /\ scene.kind[e] = "dir"
          /\ next' = next + 1
          /\ UNCHANGED <<main, i_item, jobs, pc, status>>
       \/ /\ scene.kind[e] # "dir" /\ Keeps(e)
          /\ status' = [status EXCEPT ![e] = "exist"]
          /\ IF e \in scene.drawn
             THEN Submit(e, "queued_drawing")
             ELSE /\ i_item' = i_item + 1 /\ next' = next + 1
                  /\ UNCHANGED <<main, jobs, pc>>
       \/ /\ scene.kind[e] # "dir" /\ ~Keeps(e)
          /\ Submit(e, "queued")
          /\ UNCHANGED status
    /\ UNCHANGED <<scene, drain, try, pos, fd, disk, crashes>>

\* The list ends, or the request of a further page raises: logged, not raised.
StopListing ==
    /\ main = "listing"
    /\ main' = "draining"
    /\ UNCHANGED <<scene, next, i_item, jobs, drain, pc, try, pos, fd, disk, status, crashes>>

\* [j.result() for j in jobs if j is not None] in the finally clause.
AnyState == PCs
Ended == {"done"}
WaitsForNone(i) == IF jobs[i] = 0 THEN "new" ELSE pc[jobs[i]]
JobState(i) == IF jobs[i] = 0 THEN "done" ELSE pc[jobs[i]]
Drain ==
    /\ main = "draining" /\ drain <= scene.count
    /\ \/ JobState(drain) \in Ended /\ UNCHANGED main
       \/ JobState(drain) = "raised" /\ main' = "raised"
    /\ drain' = drain + 1
    /\ UNCHANGED <<scene, next, i_item, jobs, pc, try, pos, fd, disk, status, crashes>>

Return ==
    /\ main = "draining" /\ drain = scene.count + 1
    /\ main' = "returned"
    /\ UNCHANGED <<scene, next, i_item, jobs, drain, pc, try, pos, fd, disk, status, crashes>>
-----------------------------------------------------------------------------
(* One job: __thread_download_wrapper around __thread_download. *)

Move(e, to) == pc' = [pc EXCEPT ![e] = to]

\* Jobs are taken from the pool's queue in the order of submission.
Start(e) ==
    /\ pc[e] \in {"queued", "queued_drawing"}
    /\ Cardinality({f \in Entries : pc[f] \in Working}) < Workers
    /\ \A f \in Entries : f < e => pc[f] \notin {"queued", "queued_drawing"}
    /\ Move(e, IF pc[e] = "queued" THEN "check" ELSE "drawing")
    /\ UNCHANGED <<still, try, pos, fd, disk, status>>

Succeed(e) ==
    /\ Move(e, "done")
    /\ status' = [status EXCEPT ![e] = "download"]

\* The except clause of the wrapper.
Unnoticed(e, n) == IF n < NUM_TRIES THEN Move(e, "check") /\ UNCHANGED status ELSE Succeed(e)
FailTry(e, n) ==
    IF n < NUM_TRIES
    THEN Move(e, "check") /\ UNCHANGED status
    ELSE Move(e, "done") /\ status' = [status EXCEPT ![e] = "error"]

\* need_to_download; then the request of the stream, which may fail.
Check(e) ==
    /\ pc[e] = "check"
    /\ try' = [try EXCEPT ![e] = @ + 1]
    /\ \/ Keeps(e) /\ Succeed(e)
       \/ ~Keeps(e) /\ Move(e, IF scene.cached THEN "copy" ELSE "open") /\ UNCHANGED status
       \/ ~Keeps(e) /\ FailTry(e, try[e] + 1)
    /\ UNCHANGED <<still, pos, fd, disk>>

\* open(temp_file_path, "wb") truncates the file another job may be writing.
Direct == "final"
Suffixed == "temp"
OpenAt == Suffixed
Open(e) ==
    /\ pc[e] = "open"
    /\ temp' = IF OpenAt = "temp" THEN [temp EXCEPT ![Target(e)] = File(<<>>)] ELSE temp
    /\ final' = IF OpenAt = "temp" THEN final ELSE [final EXCEPT ![Target(e)] = File(<<>>)]
    /\ fd' = [fd EXCEPT ![e] = OpenAt]
    /\ pos' = [pos EXCEPT ![e] = 0]
    /\ Move(e, "write")
    /\ UNCHANGED <<still, try, drew, status>>

\* Write the k-th chunk; behind the end of the file it leaves a hole.
Put(file, k, e) ==
    File([j \in 1..(IF k > Len(file.bytes) THEN k ELSE Len(file.bytes)) |->
            IF j = k THEN e ELSE IF j <= Len(file.bytes) THEN file.bytes[j] ELSE Hole])

\* The descriptor follows its file when another job renames or removes it.
WriteChunk(e) ==
    LET p == Target(e) IN
    /\ pc[e] \in {"write", "copy"} /\ fd[e] # "none" /\ pos[e] < Chunks
    /\ pos' = [pos EXCEPT ![e] = @ + 1]
    /\ temp' = IF fd[e] = "temp" THEN [temp EXCEPT ![p] = Put(@, pos[e] + 1, e)] ELSE temp
    /\ final' = IF fd[e] = "final" THEN [final EXCEPT ![p] = Put(@, pos[e] + 1, e)] ELSE final
    /\ UNCHANGED <<still, pc, try, fd, drew, status>>

\* The stream is exhausted: at its end, or early when the connection closed.
EndStream(e) ==
    /\ pc[e] = "write"
    /\ fd' = [fd EXCEPT ![e] = "none"]
    /\ Move(e, "verify")
    /\ UNCHANGED <<still, try, pos, disk, status>>

\* Descriptors of the other jobs after the file at <path>.download went elsewhere.
Redirect(p, to) ==
    [f \in Entries |-> IF Target(f) = p /\ fd[f] \in DOMAIN to THEN to[fd[f]] ELSE fd[f]]

\* The inner except clause removes <path>.download, whoever wrote it.
KeepTemp(e) == temp' = temp /\ fd' = [fd EXCEPT ![e] = "none"]
DropTemp(e) ==
    /\ temp' = [temp EXCEPT ![Target(e)] = NoFile]
    /\ fd' = [Redirect(Target(e), [temp |-> "gone"]) EXCEPT ![e] = "none"]

FailStream(e) ==
    /\ pc[e] = "write"
    /\ DropTemp(e)
    /\ FailTry(e, try[e])
    /\ UNCHANGED <<still, try, pos, final, drew>>

\* __video_validation(...) or is_url; os.stat raises when the file is gone.
AnySize(file) == TRUE
FullSize(file) == Len(file.bytes) = Chunks
Verify(e) ==
    LET file == temp[Target(e)] IN
    /\ pc[e] = "verify"
    /\ IF file.there /\ (FullSize(file) \/ scene.kind[e] = "url")
       THEN Move(e, "move") /\ UNCHANGED <<temp, fd, status>>
       ELSE DropTemp(e) /\ FailTry(e, try[e])
    /\ UNCHANGED <<still, try, pos, final, drew>>

\* Done with the binary; annotations are drawn next, if asked for.
Saved(e) ==
    IF e \in scene.drawn
    THEN Move(e, "annotate") /\ UNCHANGED status
    ELSE Succeed(e)

\* shutil.move
Rename(e) ==
    LET p == Target(e) IN
    /\ pc[e] = "move"
    /\ IF temp[p].there
       THEN /\ final' = [final EXCEPT ![p] = temp[p]]
            /\ temp' = [temp EXCEPT ![p] = NoFile]
            /\ fd' = Redirect(p, [temp |-> "final", final |-> "gone"])
            /\ Saved(e)
       ELSE FailTry(e, try[e]) /\ UNCHANGED <<temp, final, fd>>
    /\ UNCHANGED <<still, try, pos, drew>>

\* With the cache: the cached file may be gone, and then nothing is copied.
BeginCopy(e) ==
    /\ pc[e] = "copy" /\ fd[e] = "none"
    /\ \/ /\ final' = [final EXCEPT ![Target(e)] = File(<<>>)]
          /\ fd' = [fd EXCEPT ![e] = "final"]
          /\ pos' = [pos EXCEPT ![e] = 0]
          /\ UNCHANGED <<pc, status>>
       \/ Saved(e) /\ UNCHANGED <<final, fd, pos>>
    /\ UNCHANGED <<still, try, temp, drew>>

\* copyfile returns, or raises half way (a full disk) and leaves what it wrote.
EndCopy(e) ==
    /\ pc[e] = "copy" /\ fd[e] # "none"
    /\ \/ pos[e] = Chunks /\ Saved(e)
       \/ pos[e] < Chunks /\ FailTry(e, try[e])
    /\ fd' = [fd EXCEPT ![e] = "none"]
    /\ UNCHANGED <<still, try, pos, disk>>

\* What a failed _download_img_annotations does to the try.
Swallow(e) == Succeed(e)
Retry(e) == FailTry(e, try[e])
Annotate(e) ==
    /\ pc[e] = "annotate"
    /\ \/ drew' = drew \cup {e} /\ Succeed(e)
       \/ Retry(e) /\ UNCHANGED drew
    /\ UNCHANGED <<still, try, pos, fd, temp, final>>

\* The job of an item that was there already: an exception is the future's.
Draw(e) ==
    /\ pc[e] = "drawing"
    /\ \/ drew' = drew \cup {e} /\ Move(e, "done")
       \/ Move(e, "raised") /\ UNCHANGED drew
    /\ UNCHANGED <<still, try, pos, fd, temp, final, status>>
-----------------------------------------------------------------------------
(* The process is killed and the same call is made again. *)
Crash ==
    /\ crashes < MaxCrashes
    /\ main \in {"listing", "draining"}
    /\ crashes' = crashes + 1
    /\ main' = "listing" /\ next' = 1 /\ i_item' = 1 /\ drain' = 1
    /\ jobs' = [i \in 1..scene.count |-> 0]
    /\ pc' = AllEntries("new") /\ status' = AllEntries("none") /\ fd' = AllEntries("none")
    /\ try' = AllEntries(0) /\ pos' = AllEntries(0)
    /\ UNCHANGED <<scene, disk>>

Thread == Visit \/ StopListing \/ Drain \/ Return
Job(e) ==
    \/ Start(e) \/ Check(e) \/ Open(e) \/ WriteChunk(e) \/ EndStream(e)
    \/ FailStream(e) \/ Verify(e) \/ Rename(e) \/ BeginCopy(e) \/ EndCopy(e)
    \/ Annotate(e) \/ Draw(e)

Idle == \A e \in Entries : pc[e] \in Resting
Finished == main \in {"returned", "raised"} /\ Idle
Done == Finished /\ UNCHANGED vars

Next == Thread \/ (\E e \in Entries : Job(e)) \/ Crash \/ Done

Spec == Init /\ [][Next]_vars
FairSpec == Spec /\ WF_vars(Thread) /\ \A e \in Entries : WF_vars(Job(e))
-----------------------------------------------------------------------------
(* Requirements. *)

\* Every variable has its type.
TypeOK ==
    /\ scene \in Scenes
    /\ main \in {"listing", "draining", "returned", "raised"}
    /\ next \in 1..(N + 1) /\ i_item \in 1..(N + 1) /\ drain \in 1..(N + 1)
    /\ jobs \in [1..scene.count -> Entries \cup {0}]
    /\ pc \in [Entries -> PCs]
    /\ try \in [Entries -> 0..NUM_TRIES]
    /\ pos \in [Entries -> 0..Chunks]
    /\ fd \in [Entries -> {"none", "temp", "final", "gone"}]
    /\ temp \in [Paths -> Files] /\ final \in [Paths -> Files]
    /\ drew \subseteq Entries
    /\ status \in [Entries -> {"none", "exist", "download", "error"}]
    /\ crashes \in 0..MaxCrashes

\* Entries that share their file with no other entry and are saved by renaming.
Alone(e) ==
    /\ ~scene.cached /\ scene.kind[e] = "file"
    /\ \A f \in Entries \ {e} : scene.kind[f] # "dir" => Target(f) # Target(e)

\* At every moment, so also when the process is killed, what is at an item's path
\* is nothing or a complete file: a later call that skips what exists never takes
\* half a file for the item.
NeverPartial ==
    \A e \in Entries : Alone(e) => final[Target(e)] \in {NoFile, Binary(Old), Binary(e)}

\* An item reported as downloaded is on the disk, and it is the item and not what
\* was at its path before, whichever try, ours or an earlier call's, wrote it.
DownloadIsItem ==
    \A e \in Entries : Alone(e) /\ status[e] = "download" => final[Target(e)] = Binary(e)

\* Without overwrite a file that is there is never touched again, also not by a
\* retry of the job that wrote it.
KeepsFiles ==
    [][~scene.overwrite =>
         \A e \in Entries : Alone(e) /\ final[Target(e)].there =>
            final'[Target(e)] = final[Target(e)]]_vars

\* When all jobs are over no .download file is left, also when two items share a
\* path and one job removes or renames the other's file; only a kill leaves one.
NoTempLeft == Finished /\ crashes = 0 => \A p \in Paths : ~temp[p].there

\* download() returns while a job still runs only if the dataset grew after it was
\* counted, and then at most one: the job whose index was out of range.
Surplus == Cardinality({e \in Entries : scene.kind[e] # "dir"}) > scene.count
AllWaited ==
    main = "returned" =>
      Cardinality({e \in Entries : pc[e] \notin Resting}) <= (IF Surplus THEN 1 ELSE 0)

\* With overwrite an annotated item is reported as downloaded only with its
\* annotations.  Without it that is so for a first try only: a retry finds the
\* file of the first try and stops, as does the job of a second item at its path.
AnnotationsToo ==
    \A e \in scene.drawn :
      (scene.overwrite \/ (Alone(e) /\ try[e] = 1)) /\ status[e] = "download" => e \in drew

\* The call ends, and so does every job it submitted, those it does not wait for
\* included.
Terminates == <>[]Finished
=============================================================================
