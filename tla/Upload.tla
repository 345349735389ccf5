------------------------------- MODULE Upload -------------------------------
(***************************************************************************)
(* dtlpy/repositories/uploader.py: Uploader.upload builds one element per   *)
(* input, schedules a coroutine for each on the client's event loop and     *)
(* then waits for the futures in order.  A coroutine holds a permit of the  *)
(* 'items.upload' semaphore while it tries, up to NUM_TRIES times, to send  *)
(* its element; it compares the size the service reports with its own,      *)
(* deletes an item of another size, uploads the annotations and files one   *)
(* entry in the Reporter, which forgets what it holds after a chunk of them.*)
(*                                                                         *)
(* The loop is one thread: code between two awaits is one step.  The        *)
(* service handles a request in a step of its own, and its answer may be    *)
(* lost (upload_file_async turns that exception into an error response).    *)
(***************************************************************************)
EXTENDS Integers, FiniteSets

CONSTANTS
    N,          \* number of elements, built and scheduled in the order 1..N
    Names,      \* remote file paths
    Sources,    \* what an element's buffer is reported as when it fails
    NameOf,     \* remote path of an element; two elements may share one
    SourceOf,   \* reference of a failed element; unnamed buffers share one
    KindOf,     \* "local" (file or buffer), "url" or "external_file"
    HasAnnotations, \* the elements that come with an annotations file
    Sizes,      \* sizes of files and of what is stored of them
    SizesOf,    \* what the caller may pass: a size for each element
    Existing,     \* what the dataset may hold before: a size, or none, for each path
    CHUNK,      \* entries the Reporter keeps in memory (without a cache: any)
    Permits,    \* permits of the semaphore (num_processes)
    NUM_TRIES

Elements == 1..N
Kinds == {"local", "url", "external_file"}
Refs == Names \cup Sources

ASSUME UploadAssumption ==
    /\ N \in Nat
    /\ NUM_TRIES \in Nat \ {0}
    /\ Permits \in Nat \ {0}
    /\ NameOf \in [Elements -> Names]
    /\ SourceOf \in [Elements -> Sources]
    /\ KindOf \in [Elements -> Kinds]
    /\ HasAnnotations \subseteq Elements
    /\ Sizes \subseteq Nat
    /\ SizesOf \subseteq [Elements -> Sizes]
    /\ Existing \subseteq [Names -> Sizes \cup {-1}]
    /\ CHUNK \in Nat
    /\ Names \cap Sources = {}

VARIABLES
    mode,       \* the call's option: "skip" or "overwrite" an item that exists
    sizeOf,     \* the size of each element's file or buffer
    main,       \* the thread in upload(): building, draining, returned, raised
    next,       \* next element to build
    drain,      \* next future to wait for
    pc,         \* where the coroutine of an element is
    sem,        \* free permits
    attempt,    \* tries begun
    temp,       \* temporary directory of a downloaded url
    dataset,    \* the service: for every path the item it holds, if any
    owner,      \* the element whose acknowledged request wrote that item, or 0
    answer,     \* the response the coroutine will resume with
    annotated,  \* an element's annotations file: handed over, or the failure logged
    outcome,    \* what the coroutine concluded
    successOf,  \* Reporter._success
    statusOf,   \* Reporter._status
    flushed     \* history: elements concluded when these were last flushed

given == <<mode, sizeOf>>
vars == <<given, main, next, drain, pc, sem, attempt, temp, dataset, owner, answer,
          annotated, outcome, successOf, statusOf, flushed>>
thread == <<given, main, next, drain>>
service == <<dataset, owner>>
report == <<outcome, successOf, statusOf, flushed>>

PCs == {"new", "queued", "try", "sent", "answered", "annotate", "done", "raised"}
Holding == {"try", "sent", "answered", "annotate"}
Ops == {"na", "created", "overwrite", "skip"}
Absent == -1    \* the size of an item that is not there
Stored == Sizes \cup {Absent}
NoAnswer == [ok |-> FALSE, op |-> "na", ver |-> 0, size |-> Absent]
Answers == [ok : BOOLEAN, op : Ops, ver : Nat, size : Stored]
Unfiled == [r \in Refs |-> "none"]

Init ==
    /\ mode \in {"skip", "overwrite"}
    /\ sizeOf \in SizesOf
    /\ main = "building" /\ next = 1 /\ drain = 1
    /\ pc = [e \in Elements |-> "new"]
    /\ sem = Permits
    /\ attempt = [e \in Elements |-> 0]
    /\ temp = [e \in Elements |-> "none"]
    /\ \E c \in Existing :  \* an item may be there, also of another size
         dataset = [n \in Names |-> [ver |-> IF c[n] = Absent THEN 0 ELSE 1, size |-> c[n]]]
    /\ owner = [n \in Names |-> 0]
    /\ answer = [e \in Elements |-> NoAnswer]
    /\ annotated = [e \in Elements |-> "no"]
    /\ outcome = [e \in Elements |-> "none"]
    /\ successOf = Unfiled /\ statusOf = Unfiled
    /\ flushed = {}
-----------------------------------------------------------------------------
(* The calling thread. *)

Submit ==
    /\ main = "building" /\ next <= N
    /\ pc' = [pc EXCEPT ![next] = "queued"]
    /\ next' = next + 1
    /\ UNCHANGED <<given, main, drain, sem, attempt, temp, service, answer, annotated, report>>

\* An input that is neither a file, a url nor a known type raises out of the
\* loop that builds; the coroutines scheduled before it keep running.
BuildFails ==
    /\ main = "building" /\ next <= N
    /\ main' = "raised"
    /\ UNCHANGED <<given, next, drain, pc, sem, attempt, temp, service, answer, annotated, report>>

StartDraining ==
    /\ main = "building" /\ next = N + 1
    /\ main' = "draining"
    /\ UNCHANGED <<given, next, drain, pc, sem, attempt, temp, service, answer, annotated, report>>

\* futures.popleft().result(): returns or re-raises.
NotWaited(e) == pc[e] # "queued"
Resolved(e) == pc[e] = "done"
DrainOne ==
    /\ main = "draining" /\ drain <= N
    /\ \/ Resolved(drain) /\ drain' = drain + 1 /\ UNCHANGED main
       \/ pc[drain] = "raised" /\ main' = "raised" /\ drain' = drain + 1
    /\ UNCHANGED <<given, next, pc, sem, attempt, temp, service, answer, annotated, report>>

Return ==
    /\ main = "draining" /\ drain = N + 1
    /\ main' = "returned"
    /\ UNCHANGED <<given, next, drain, pc, sem, attempt, temp, service, answer, annotated, report>>
-----------------------------------------------------------------------------
(* The coroutine of one element. *)

\* The head of the semaphore's queue of waiters.
MyTurn(e) == \A f \in Elements : f < e => pc[f] # "queued"

\* Leaving the async with block by an exception gives the permit back.
PermitLost == sem - 1
PermitsAfterRaise == sem

\* async with semaphore('items.upload'): waiters are served in order.  A url is
\* fetched here, outside the retry loop: to memory, to a temporary directory, or
\* failing (the exception is the future's; a half written directory stays).
Start(e) ==
    /\ pc[e] = "queued" /\ sem > 0 /\ MyTurn(e)
    /\ \/ /\ pc' = [pc EXCEPT ![e] = "try"]
          /\ sem' = sem - 1
          /\ temp' \in {temp} \cup (IF KindOf[e] = "url" THEN {[temp EXCEPT ![e] = "present"]} ELSE {})
       \/ /\ KindOf[e] = "url"
          /\ pc' = [pc EXCEPT ![e] = "raised"]
          /\ temp' \in {temp, [temp EXCEPT ![e] = "present"]}
          /\ sem' = PermitsAfterRaise
    /\ UNCHANGED <<thread, attempt, service, answer, annotated, report>>

\* Reporter._write_to_disk, once set_index finds more than a chunk of entries: they
\* leave the memory, from which alone upload() reads what failed.  A cache that cannot
\* be built or written raises out of the coroutine, and the entries stay.
Crowded(entries) == Cardinality({r \in Refs : entries[r] # "none"}) > CHUNK
Concluded == {e \in Elements : outcome[e] # "none"}

File(e, succ, stat) ==
    \/ /\ ~Crowded(succ)
       /\ pc' = [pc EXCEPT ![e] = "done"]
       /\ successOf' = succ /\ statusOf' = stat /\ UNCHANGED flushed
    \/ /\ Crowded(succ)
       /\ pc' = [pc EXCEPT ![e] = "done"]
       /\ successOf' = Unfiled /\ statusOf' = Unfiled /\ flushed' = Concluded \cup {e}
    \/ /\ Crowded(succ)
       /\ pc' = [pc EXCEPT ![e] = "raised"]
       /\ successOf' = succ /\ statusOf' = stat /\ UNCHANGED flushed

\* reporter.set_index and the end of the async with block.
Finish(e, ref, status, ok) ==
    /\ sem' = sem + 1
    /\ outcome' = [outcome EXCEPT ![e] = IF ok THEN "success" ELSE "error"]
    /\ File(e, [successOf EXCEPT ![ref] = IF ok THEN "true" ELSE "false"],
               [statusOf EXCEPT ![ref] = status])

\* The finally clause of a try: the temporary directory goes after the first.
DropTemp(e) == temp' = [temp EXCEPT ![e] = IF @ = "present" THEN "removed" ELSE @]

\* for i_try in range(NUM_TRIES).
MoreTries(n) == n < NUM_TRIES

\* The except clause of the n-th try.
FailTry(e, n) ==
    /\ DropTemp(e)
    /\ IF MoreTries(n)
       THEN pc' = [pc EXCEPT ![e] = "try"] /\ UNCHANGED <<sem, report>>
       ELSE Finish(e, SourceOf[e], "error", FALSE)

\* The actions (x-item-op) after which annotations are uploaded.
OnlyOverwrite == {"overwrite"}
WritingOps == {"overwrite", "created"}

\* The try got an item: annotations follow if it was written by this request.
GotItem(e, op) ==
    /\ DropTemp(e)
    /\ IF op \in WritingOps /\ e \in HasAnnotations
       THEN pc' = [pc EXCEPT ![e] = "annotate"] /\ UNCHANGED <<sem, report>>
       ELSE Finish(e, NameOf[e], op, TRUE)

\* A try that fails before the request: the file is not there (always so once
\* the temporary directory is gone) or its metadata json cannot be read.
FailLocally(e) ==
    /\ pc[e] = "try" /\ KindOf[e] # "external_file"
    /\ attempt' = [attempt EXCEPT ![e] = @ + 1]
    /\ FailTry(e, attempt[e] + 1)
    /\ UNCHANGED <<thread, service, answer, annotated>>

Send(e) ==
    /\ pc[e] = "try" /\ KindOf[e] # "external_file" /\ temp[e] # "removed"
    /\ attempt' = [attempt EXCEPT ![e] = @ + 1]
    /\ pc' = [pc EXCEPT ![e] = "sent"]
    /\ UNCHANGED <<thread, sem, temp, service, answer, annotated, report>>

\* __single_external_sync: a blocking request, so no other coroutine moves; no
\* size check follows.
Import(e) ==
    LET n == NameOf[e] IN
    /\ pc[e] = "try" /\ KindOf[e] = "external_file"
    /\ attempt' = [attempt EXCEPT ![e] = @ + 1]
    /\ \/ FailTry(e, attempt[e] + 1) /\ UNCHANGED service
       \/ /\ dataset[n].size = Absent
          /\ dataset' = [dataset EXCEPT ![n] = [ver |-> @.ver + 1, size |-> sizeOf[e]]]
          /\ owner' = [owner EXCEPT ![n] = e]
          /\ GotItem(e, "created")
       \/ dataset[n].size # Absent /\ GotItem(e, "skip") /\ UNCHANGED service
    /\ answer' = [answer EXCEPT ![e] = [NoAnswer EXCEPT !.op = "created"]]
    /\ UNCHANGED <<thread, annotated>>

\* The service (external): mode=skip answers with the item it already has,
\* mode=overwrite replaces its content and keeps its id, and an absent item is
\* created under a new id.  What arrives may be truncated.  A lost answer leaves the
\* effect in place.
Respond(e, lost, op, ver, size) ==
    /\ answer' = [answer EXCEPT ![e] = IF lost THEN NoAnswer
                     ELSE [ok |-> TRUE, op |-> op, ver |-> ver, size |-> size]]
    /\ owner' = [owner EXCEPT ![NameOf[e]] =
                     IF op = "skip" THEN @ ELSE IF lost THEN 0 ELSE e]

Store(e, lost, op, ver, size) ==
    /\ dataset' = [dataset EXCEPT ![NameOf[e]] = [ver |-> ver, size |-> size]]
    /\ Respond(e, lost, op, ver, size)

Handle(e) ==
    LET old == dataset[NameOf[e]] IN
    /\ pc[e] = "sent"
    /\ pc' = [pc EXCEPT ![e] = "answered"]
    /\ \/ answer' = [answer EXCEPT ![e] = NoAnswer] /\ UNCHANGED service
       \/ \E lost \in BOOLEAN :
            /\ old.size # Absent /\ mode = "skip"
            /\ Respond(e, lost, "skip", old.ver, old.size) /\ UNCHANGED dataset
       \/ \E lost \in BOOLEAN, s \in {s \in Sizes : s <= sizeOf[e]} :
            \/ old.size = Absent /\ Store(e, lost, "created", old.ver + 1, s)
            \/ /\ old.size # Absent /\ mode = "overwrite"
               /\ Store(e, lost, "overwrite", old.ver, s)
    /\ UNCHANGED <<thread, sem, attempt, temp, annotated, report>>

\* item_size is the element's own, whatever element wrote the item that is answered.
AnySize(e, a) == TRUE
SizeMatches(e, a) == a.size = sizeOf[e]

\* The coroutine resumes in __single_async_upload.  A size other than its own
\* deletes the item with the answered id, if there still is one, also when another
\* element wrote it, and fails the try; the delete itself may fail.
Resume(e) ==
    LET n == NameOf[e]
        a == answer[e]
    IN
    /\ pc[e] = "answered"
    /\ \/ a.ok /\ SizeMatches(e, a) /\ GotItem(e, a.op) /\ UNCHANGED service
       \/ /\ a.ok /\ ~SizeMatches(e, a) /\ FailTry(e, attempt[e])
          /\ \/ UNCHANGED service
             \/ /\ dataset[n].ver = a.ver /\ dataset[n].size # Absent
                /\ dataset' = [dataset EXCEPT ![n].size = Absent]
                /\ owner' = [owner EXCEPT ![n] = 0]
       \/ ~a.ok /\ FailTry(e, attempt[e]) /\ UNCHANGED service
    /\ UNCHANGED <<thread, attempt, answer, annotated>>

\* __async_upload_annotations; an exception of it (the file, its json, a request) is
\* logged and the item is reported as a success all the same.  The status is the
\* action the last answer named.
Annotate(e) ==
    /\ pc[e] = "annotate"
    /\ \E a \in {"handed", "logged"} : annotated' = [annotated EXCEPT ![e] = a]
    /\ Finish(e, NameOf[e], answer[e].op, TRUE)
    /\ UNCHANGED <<thread, attempt, temp, service, answer>>

Coroutine(e) == Start(e) \/ FailLocally(e) \/ Send(e) \/ Import(e) \/ Resume(e) \/ Annotate(e)
Thread == Submit \/ BuildFails \/ StartDraining \/ DrainOne \/ Return

Finished == main \in {"returned", "raised"} /\ \A e \in Elements : pc[e] \in {"new", "done", "raised"}
Done == Finished /\ UNCHANGED vars

Next == Thread \/ (\E e \in Elements : Coroutine(e) \/ Handle(e)) \/ Done

Spec == Init /\ [][Next]_vars
FairSpec == Spec /\ WF_vars(Thread) /\ \A e \in Elements : WF_vars(Coroutine(e)) /\ WF_vars(Handle(e))
-----------------------------------------------------------------------------
(* Requirements. *)

\* Every variable has its type.
TypeOK ==
    /\ mode \in {"skip", "overwrite"} /\ sizeOf \in SizesOf
    /\ main \in {"building", "draining", "returned", "raised"}
    /\ next \in 1..(N + 1) /\ drain \in 1..(N + 1)
    /\ pc \in [Elements -> PCs]
    /\ sem \in 0..Permits
    /\ attempt \in [Elements -> 0..NUM_TRIES]
    /\ temp \in [Elements -> {"none", "present", "removed"}]
    /\ dataset \in [Names -> [ver : Nat, size : Stored]]
    /\ owner \in [Names -> Elements \cup {0}]
    /\ answer \in [Elements -> Answers]
    /\ annotated \in [Elements -> {"no", "handed", "logged"}]
    /\ outcome \in [Elements -> {"none", "success", "error"}]
    /\ successOf \in [Refs -> {"none", "true", "false"}]
    /\ statusOf \in [Refs -> Ops \cup {"none", "error"}]
    /\ flushed \subseteq Elements

\* The semaphore neither leaks nor gains a permit, on any path out of the
\* coroutine: an error, a raising url download, a coroutine nobody waits for.
PermitsConserved == sem + Cardinality({e \in Elements : pc[e] \in Holding}) = Permits

\* The elements that were scheduled for a path.
Peers(n) == {e \in Elements : NameOf[e] = n /\ pc[e] # "new"}

\* What is reported as uploaded is in the dataset.  For a path none of whose elements
\* is an external file (whose size nobody knows): in mode skip, when the elements of
\* the path have one size, a success of one of them is an item of that size, which no
\* later step of any of them truncates or deletes; and in both modes, whatever their
\* sizes, when all of them succeeded the path holds an item of the size of one of them.
\* Two exceptions are the code's: an element of another size deletes the intact item a
\* peer reported before, and one in mode overwrite may truncate it, until they succeed
\* themselves.
SuccessIsIntact ==
    \A n \in Names :
      LET mine == {sizeOf[e] : e \in Peers(n)} IN
      /\ \A e \in Peers(n) : KindOf[e] # "external_file"
      /\ \E e \in Peers(n) : outcome[e] = "success"
      /\ \/ mode = "skip" /\ \A e, f \in Peers(n) : sizeOf[e] = sizeOf[f]
         \/ \A e \in Peers(n) : outcome[e] = "success"
      => dataset[n].size \in mine

\* An item whose writing the service acknowledged to an element gets that element's
\* annotations before the element is reported as a success, unless handing them over
\* was tried and failed, which is only logged: no retry, lost answer or failed delete
\* makes a later "skip" hide that the element was the writer.
WriterAnnotates ==
    \A n \in Names :
      LET e == owner[n] IN
      e \in HasAnnotations /\ outcome[e] = "success" => annotated[e] # "no"

\* upload() returns only when every coroutine it scheduled has concluded, and what the
\* reporter then has in memory holds a failure, the condition under which upload()
\* writes the error log, exactly when some element failed since the last flush.  What
\* concluded before a flush is not told: only a call of more than CHUNK elements has one.
ReturnMeansReported ==
    main = "returned" =>
      /\ \A e \in Elements : outcome[e] # "none"
      /\ (\E r \in Refs : successOf[r] = "false") <=>
            (\E e \in Elements \ flushed : outcome[e] = "error")
      /\ \A e \in Elements \ flushed : outcome[e] = "success" => successOf[NameOf[e]] = "true"
      /\ flushed # {} => N > CHUNK

\* The call ends, and so does every coroutine it scheduled, also those left
\* behind by an exception.
Terminates == <>[]Finished
=============================================================================
