--------------------------- MODULE AnnotationPool ---------------------------
(***************************************************************************)
(* dtlpy/repositories/datasets.py, upload_annotations: one job per item goes *)
(* to the client's pool 'annotation.upload', which the caller then shuts     *)
(* down.  dtlpy/repositories/annotations.py: an item with more than one      *)
(* batch of annotations submits its batches to the pool of the same name and *)
(* waits for them, from inside its own job.                                  *)
(* dtlpy/services/api_client.py, thread_pools: the pool of a name, made anew *)
(* when it is missing or shut down.  Every caller uses the same client.      *)
(*                                                                         *)
(* A job is <<item, 0>> for the item itself and <<item, b>> for a batch.     *)
(***************************************************************************)
EXTENDS Integers, Sequences, FiniteSets

CONSTANTS
    Callers,    \* threads that call upload_annotations
    N,          \* items that have a json file
    CallerOf,   \* the call an item belongs to
    Scenes,     \* for every item the number of its batches
    Workers     \* threads of a pool (num_processes)

Items == 1..N
Pools == 1..(N + Cardinality(Callers) + 1)  \* each caller and item makes at most one

ASSUME PoolAssumption ==
    /\ N \in Nat \ {0} /\ Workers \in Nat \ {0} /\ IsFiniteSet(Callers)
    /\ Callers \cap Items = {} /\ CallerOf \in [Items -> Callers]
    /\ Scenes \subseteq [Items -> Nat \ {0}]

VARIABLES
    batches,    \* batches of every item
    current,    \* _thread_pools['annotation.upload']
    made,       \* pools made so far
    shut,       \* pools that were shut down
    queue,      \* _work_queue of a pool
    running,    \* jobs that hold a worker of a pool
    call,       \* where a caller is
    poolOf,     \* the pool a caller, or an item's job, was handed
    task,       \* where the job of an item is
    submitted,  \* batches an item's job has submitted
    sent        \* what became of every batch

vars == <<batches, current, made, shut, queue, running, call, poolOf, task, submitted, sent>>
registry == <<current, made>>

Users == Callers \cup Items
Batches(i) == 1..batches[i]
Jobs == {<<i, 0>> : i \in Items} \cup UNION {{<<i, b>> : b \in Batches(i)} : i \in Items}

Init ==
    /\ batches \in Scenes
    /\ current = 1 /\ made = 1
    /\ shut \in {{}, {1}}   \* shut: left by an earlier call, or there was none
    /\ queue = [g \in Pools |-> <<>>]
    /\ running = [g \in Pools |-> {}]
    /\ call = [c \in Callers |-> "start"]
    /\ poolOf = [u \in Users |-> 0]
    /\ task = [i \in Items |-> "new"]
    /\ submitted = [i \in Items |-> 0]
    /\ sent = [i \in Items |-> [b \in Batches(i) |-> "new"]]
-----------------------------------------------------------------------------
(* Pools. *)

\* thread_pools: the test and the replacement are two steps.
Hands(u) == current \notin shut /\ poolOf' = [poolOf EXCEPT ![u] = current]
Misses == current \in shut
Replaces(u) ==
    /\ made' = made + 1 /\ current' = made + 1
    /\ poolOf' = [poolOf EXCEPT ![u] = made + 1]

\* pool.submit raises once the pool is shut down.
Accepts(g) == g \notin shut
Enqueue(g, job) == queue' = [queue EXCEPT ![g] = Append(@, job)]

WorkerFree(g) == Cardinality(running[g]) < Workers

\* An idle worker takes the next job; a pool that is shut down still empties its
\* queue.
Take(g) ==
    /\ queue[g] # <<>> /\ WorkerFree(g)
    /\ LET job == Head(queue[g]) IN
         /\ running' = [running EXCEPT ![g] = @ \cup {job}]
         /\ IF job[2] = 0
            THEN task' = [task EXCEPT ![job[1]] = "run"] /\ UNCHANGED sent
            ELSE sent' = [sent EXCEPT ![job[1]][job[2]] = "sending"] /\ UNCHANGED task
    /\ queue' = [queue EXCEPT ![g] = Tail(@)]
    /\ UNCHANGED <<batches, registry, shut, call, poolOf, submitted>>

StayBusy(job) == running' = running
Leave(job) == running' = [g \in Pools |-> running[g] \ {job}]
-----------------------------------------------------------------------------
(* upload_annotations. *)

Mine(c) == {i \in Items : CallerOf[i] = c}
Left(c) == {i \in Mine(c) : task[i] = "new"}

GetPool(c) ==
    /\ \/ /\ call[c] = "start" /\ Hands(c)
          /\ call' = [call EXCEPT ![c] = "submit"] /\ UNCHANGED registry
       \/ /\ call[c] = "start" /\ Misses
          /\ call' = [call EXCEPT ![c] = "make"] /\ UNCHANGED <<registry, poolOf>>
       \/ /\ call[c] = "make" /\ Replaces(c)
          /\ call' = [call EXCEPT ![c] = "submit"]
    /\ UNCHANGED <<batches, shut, queue, running, task, submitted, sent>>

\* The next item of pages.all(); submit raises out of the call.
SubmitItem(c) ==
    /\ call[c] = "submit" /\ Left(c) # {}
    /\ LET i == CHOOSE j \in Left(c) : \A k \in Left(c) : j <= k IN
         IF Accepts(poolOf[c])
         THEN /\ Enqueue(poolOf[c], <<i, 0>>)
              /\ task' = [task EXCEPT ![i] = "queued"]
              /\ UNCHANGED call
         ELSE call' = [call EXCEPT ![c] = "raised"] /\ UNCHANGED <<queue, task>>
    /\ UNCHANGED <<batches, registry, shut, running, poolOf, submitted, sent>>

\* The request of a page raises: the jobs submitted so far go on, the pool stays.
ListFails(c) ==
    /\ call[c] = "submit" /\ Left(c) # {}
    /\ call' = [call EXCEPT ![c] = "raised"]
    /\ UNCHANGED <<batches, registry, shut, queue, running, poolOf, task, submitted, sent>>

Shutdown(c) ==
    /\ call[c] = "submit" /\ Left(c) = {}
    /\ shut' = shut \cup {poolOf[c]}
    /\ call' = [call EXCEPT ![c] = "join"]
    /\ UNCHANGED <<batches, registry, queue, running, poolOf, task, submitted, sent>>

\* shutdown(wait=True) joins the workers: they end once the queue is empty.
QueueEmpty(g) == queue[g] = <<>>
Drained(g) == queue[g] = <<>> /\ running[g] = {}
Return(c) ==
    /\ call[c] = "join" /\ Drained(poolOf[c])
    /\ call' = [call EXCEPT ![c] = "returned"]
    /\ UNCHANGED <<batches, registry, shut, queue, running, poolOf, task, submitted, sent>>
-----------------------------------------------------------------------------
(* The job of one item: Annotations.upload. *)

End(i, how) == task' = [task EXCEPT ![i] = how] /\ Leave(<<i, 0>>)

\* The json file cannot be read: the exception stays in a future nobody asks.
Unreadable(i) ==
    /\ task[i] = "run"
    /\ End(i, "raised")
    /\ UNCHANGED <<batches, registry, shut, queue, call, poolOf, submitted, sent>>

\* A single batch needs no threads; a failure is logged.
Single(i) ==
    /\ task[i] = "run" /\ batches[i] = 1
    /\ sent' = [sent EXCEPT ![i][1] = "over"]
    /\ End(i, "done")
    /\ UNCHANGED <<batches, registry, shut, queue, call, poolOf, submitted>>

GetPoolAgain(i) ==
    /\ \/ /\ task[i] = "run" /\ batches[i] > 1 /\ Hands(i)
          /\ task' = [task EXCEPT ![i] = "submit"] /\ UNCHANGED registry
       \/ /\ task[i] = "run" /\ batches[i] > 1 /\ Misses
          /\ task' = [task EXCEPT ![i] = "make"] /\ UNCHANGED <<registry, poolOf>>
       \/ /\ task[i] = "make" /\ Replaces(i)
          /\ task' = [task EXCEPT ![i] = "submit"]
    /\ UNCHANGED <<batches, shut, queue, running, call, submitted, sent>>

SubmitBatch(i) ==
    /\ task[i] = "submit" /\ submitted[i] < batches[i]
    /\ IF Accepts(poolOf[i])
       THEN /\ Enqueue(poolOf[i], <<i, submitted[i] + 1>>)
            /\ submitted' = [submitted EXCEPT ![i] = @ + 1]
            /\ sent' = [sent EXCEPT ![i][submitted[i] + 1] = "queued"]
            /\ UNCHANGED <<task, running>>
       ELSE End(i, "raised") /\ UNCHANGED <<queue, submitted, sent>>
    /\ UNCHANGED <<batches, registry, shut, call, poolOf>>

\* The worker is held while the job waits for its batches.
NoneMissing(i) == \A b \in Batches(i) : sent[i][b] = "over"
AllOver(i) == submitted[i] = batches[i] /\ NoneMissing(i)
Collect(i) ==
    /\ task[i] = "submit" /\ AllOver(i)
    /\ End(i, "done")
    /\ UNCHANGED <<batches, registry, shut, queue, call, poolOf, submitted, sent>>

\* _upload_single_batch catches what it raises.
SendBatch(i, b) ==
    /\ b \in Batches(i) /\ sent[i][b] = "sending"
    /\ sent' = [sent EXCEPT ![i][b] = "over"]
    /\ Leave(<<i, b>>)
    /\ UNCHANGED <<batches, registry, shut, queue, call, poolOf, task, submitted>>

Caller(c) == GetPool(c) \/ SubmitItem(c) \/ ListFails(c) \/ Shutdown(c) \/ Return(c)
Task(i) == Unreadable(i) \/ Single(i) \/ GetPoolAgain(i) \/ SubmitBatch(i) \/ Collect(i)

Resting(i) == task[i] \in {"new", "done", "raised"} /\ \A b \in Batches(i) : sent[i][b] \in {"new", "over"}
Over == (\A c \in Callers : call[c] \in {"returned", "raised"}) /\ \A i \in Items : Resting(i)
Done == Over /\ UNCHANGED vars

Next ==
    \/ \E c \in Callers : Caller(c)
    \/ \E g \in Pools : Take(g)
    \/ \E i \in Items : Task(i) \/ \E b \in Batches(i) : SendBatch(i, b)
    \/ Done

Spec == Init /\ [][Next]_vars
FairSpec ==
    /\ Spec
    /\ \A c \in Callers : WF_vars(Caller(c))
    /\ \A g \in Pools : WF_vars(Take(g))
    /\ \A i \in Items : WF_vars(Task(i)) /\ WF_vars(\E b \in Batches(i) : SendBatch(i, b))
-----------------------------------------------------------------------------
(* Requirements. *)

\* Every variable has its type.
TypeOK ==
    /\ batches \in Scenes
    /\ current \in Pools /\ made \in Pools /\ shut \subseteq Pools
    /\ queue \in [Pools -> Seq(Jobs)]
    /\ running \in [Pools -> SUBSET Jobs]
    /\ \A g \in Pools : Cardinality(running[g]) <= Workers
    /\ call \in [Callers -> {"start", "make", "submit", "join", "returned", "raised"}]
    /\ poolOf \in [Users -> Pools \cup {0}]
    /\ task \in [Items -> {"new", "queued", "run", "make", "submit", "done", "raised"}]
    /\ \A i \in Items :
         /\ submitted[i] \in 0..batches[i]
         /\ sent[i] \in [Batches(i) -> {"new", "queued", "sending", "over"}]

\* When upload_annotations returns, the job of every item it counted is over, and no
\* batch of those items is still on its way, unless the item's job was handed a pool
\* that another call uses and shuts down.
ReturnIsQuiet ==
    \A c \in Callers : call[c] = "returned" =>
      \A i \in Mine(c) :
        /\ task[i] \in {"done", "raised"}
        /\ Resting(i) \/ \E d \in Callers \ {c} : poolOf[d] = poolOf[i]

\* Items whose jobs wait for further jobs of the same pool.
Big == {i \in Items : batches[i] > 1}

\* With fewer items of several batches than workers, every call and every job ends.
EndsWithSpareWorker == Cardinality(Big) < Workers => <>[]Over

\* Every call and every job ends.
CallsEnd == <>[]Over
=============================================================================
