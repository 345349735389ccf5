------------------------------ MODULE Reporter ------------------------------
(***************************************************************************)
(* dtlpy/services/reporter.py.  Workers file one entry per action with       *)
(* set_index: up to four dictionary writes, each atomic, none under the      *)
(* mutex.  When a dictionary outgrows the chunk the worker moves all that     *)
(* did to disk under the mutex (_write_to_disk): the mutex keeps two flushes  *)
(* apart and makes set_index wait at its entry, and nothing more.            *)
(*                                                                         *)
(* A dictionary is the set of its keys; _success is two sets.  Entries have   *)
(* distinct references here (one reference for two elements is one entry).   *)
(* What is on disk was written with an expiry, so it may vanish at any time.  *)
(***************************************************************************)
EXTENDS Integers, Sequences, FiniteSets

CONSTANTS
    Workers,
    Scenes,     \* what the workers file: a sequence of [ref, ok] for each
    Chunk,      \* cache_chunk
    CacheMode,  \* enable_cache: a boolean, as its setter demands
    NoWorker

KeysOf(s) == UNION {{s[w][i].ref : i \in 1..Len(s[w])} : w \in Workers}
Keys == UNION {KeysOf(s) : s \in Scenes}

ASSUME ReporterAssumption ==
    /\ CacheMode \in BOOLEAN /\ Chunk \in Nat
    /\ NoWorker \notin Workers /\ IsFiniteSet(Workers)
    /\ Scenes \subseteq [Workers -> Seq([ref : Keys, ok : BOOLEAN])]
    /\ \A s \in Scenes : \A v, w \in Workers : \A i \in 1..Len(s[v]), j \in 1..Len(s[w]) :
          s[v][i].ref = s[w][j].ref => v = w /\ i = j

VARIABLES
    scene,      \* the one of Scenes that is played
    at, todo,   \* control and remaining calls of a worker
    ram,        \* _errors, _status, _output
    succ, fail, \* _success: keys with True, keys with False
    disk,       \* the three pushed caches, each a set of rows, and the two counters
    timed,      \* the counters that have an expiry
    gone,       \* history: what has expired
    built,      \* _reports is not None
    mutex,
    numTrue,    \* local of _write_to_disk
    filed       \* the calls that returned

rpvars == <<scene, at, todo, ram, succ, fail, disk, timed, gone, built, mutex, numTrue, filed>>

Dicts == {"errors", "status", "output"}
Counters == {"failure", "success"}
Nothing == [errors |-> {}, status |-> {}, output |-> {}, failure |-> 0, success |-> 0]

\* Rp: UploadProofs extends Upload and this module.
RpInit ==
    /\ scene \in Scenes
    /\ at = [w \in Workers |-> "idle"] /\ todo = scene
    /\ ram = [d \in Dicts |-> {}] /\ succ = {} /\ fail = {}
    /\ disk = Nothing /\ timed = {} /\ gone = Nothing
    /\ built = FALSE /\ mutex = NoWorker /\ numTrue = 0 /\ filed = {}

Call(w) == Head(todo[w])
GoTo(w, l) == at' = [at EXCEPT ![w] = l]
-----------------------------------------------------------------------------
(* set_index *)

\* if self.mutex.locked(): acquire and release.
Enter(w) ==
    /\ at[w] = "idle" /\ todo[w] # <<>> /\ mutex = NoWorker
    /\ GoTo(w, "error")
    /\ UNCHANGED <<scene, todo, ram, succ, fail, disk, timed, gone, built, mutex, numTrue, filed>>

Put(d, r) == ram' = [ram EXCEPT ![d] = @ \cup {r}]

WriteError(w) ==
    /\ at[w] = "error" /\ GoTo(w, "status")
    /\ IF Call(w).ok THEN UNCHANGED ram ELSE Put("errors", Call(w).ref)
    /\ UNCHANGED <<scene, todo, succ, fail, disk, timed, gone, built, mutex, numTrue, filed>>

WriteStatus(w) ==
    /\ at[w] = "status" /\ GoTo(w, "success") /\ Put("status", Call(w).ref)
    /\ UNCHANGED <<scene, todo, succ, fail, disk, timed, gone, built, mutex, numTrue, filed>>

WriteSuccess(w) ==
    LET c == Call(w) IN
    /\ at[w] = "success" /\ GoTo(w, "output")
    /\ succ' = IF c.ok THEN succ \cup {c.ref} ELSE succ \ {c.ref}
    /\ fail' = IF c.ok THEN fail \ {c.ref} ELSE fail \cup {c.ref}
    /\ UNCHANGED <<scene, todo, ram, disk, timed, gone, built, mutex, numTrue, filed>>

WriteOutput(w) ==
    /\ at[w] = "output" /\ GoTo(w, "check")
    /\ IF Call(w).ok THEN Put("output", Call(w).ref) ELSE UNCHANGED ram
    /\ UNCHANGED <<scene, todo, succ, fail, disk, timed, gone, built, mutex, numTrue, filed>>

Success == succ \cup fail
Full(S) == Cardinality(S) > Chunk

\* The call returns.
Leave(w) ==
    /\ GoTo(w, "idle")
    /\ todo' = [todo EXCEPT ![w] = Tail(@)]
    /\ filed' = filed \cup {Call(w)}

Check(w) ==
    /\ at[w] = "check"
    /\ IF CacheMode /\ ((\E d \in Dicts : Full(ram[d])) \/ Full(Success))
       THEN GoTo(w, "lock") /\ UNCHANGED <<todo, filed>>
       ELSE Leave(w)
    /\ UNCHANGED <<scene, ram, succ, fail, disk, timed, gone, built, mutex, numTrue>>
-----------------------------------------------------------------------------
(* _write_to_disk *)

\* The first flush builds the disk caches, which may fail before _reports is set, or
\* after it and before one or both counters are added: the exception leaves set_index
\* and the with statement frees the mutex.
StaysLocked(w) == w
AfterError(w) == NoWorker

Lock(w) ==
    /\ at[w] = "lock" /\ mutex = NoWorker
    /\ \/ /\ mutex' = w /\ built' = TRUE /\ GoTo(w, "count")
          /\ timed' = IF built THEN timed ELSE Counters
          /\ UNCHANGED <<todo, filed>>
       \/ /\ ~built /\ mutex' = AfterError(w) /\ Leave(w)
          /\ built' \in BOOLEAN
          /\ timed' \in {{}} \cup (IF built' THEN {{"success"}, Counters} ELSE {})
    /\ UNCHANGED <<scene, ram, succ, fail, disk, gone, numTrue>>

Count(w) ==
    /\ at[w] = "count"
    /\ numTrue' = Cardinality(succ)
    /\ GoTo(w, IF Full(Success) THEN "incr" ELSE "push errors")
    /\ UNCHANGED <<scene, todo, ram, succ, fail, disk, timed, gone, built, mutex, filed>>

Failures(n) == Cardinality(Success) - n

\* len(self._success) is read again: what was added since counts as a failure.
\* incr keeps the expiry of its counter; one that is not there starts again from 0.
Incr(w) ==
    /\ at[w] = "incr" /\ GoTo(w, "clear")
    /\ disk' = [disk EXCEPT !.success = @ + numTrue,
                            !.failure = @ + Failures(numTrue)]
    /\ UNCHANGED <<scene, todo, ram, succ, fail, timed, gone, built, mutex, numTrue, filed>>

KeepSuccess == UNCHANGED <<succ, fail>>
ClearSuccess == succ' = {} /\ fail' = {}
Clear(w) ==
    /\ at[w] = "clear" /\ GoTo(w, "push errors")
    /\ ClearSuccess
    /\ UNCHANGED <<scene, todo, ram, disk, timed, gone, built, mutex, numTrue, filed>>

\* for name, cache_list in self.cache_items.items()
PushOf == [errors |-> "push errors", status |-> "push status", output |-> "push output"]
ClearOf == [errors |-> "clear errors", status |-> "clear status", output |-> "clear output"]
After == [errors |-> "push status", status |-> "push output", output |-> "unlock"]

PushDisk(d) == [disk EXCEPT ![d] = @ \cup {ram[d]}]
PushNothing(d) == disk
Pushed(d) == PushDisk(d)

Push(w, d) ==
    /\ at[w] = PushOf[d]
    /\ IF Full(ram[d]) THEN GoTo(w, ClearOf[d]) /\ disk' = Pushed(d)
                       ELSE GoTo(w, After[d]) /\ UNCHANGED disk
    /\ UNCHANGED <<scene, todo, ram, succ, fail, timed, gone, built, mutex, numTrue, filed>>

ClearDict(w, d) ==
    /\ at[w] = ClearOf[d] /\ GoTo(w, After[d])
    /\ ram' = [ram EXCEPT ![d] = {}]
    /\ UNCHANGED <<scene, todo, succ, fail, disk, timed, gone, built, mutex, numTrue, filed>>

Unlock(w) ==
    /\ at[w] = "unlock" /\ mutex' = NoWorker /\ Leave(w)
    /\ UNCHANGED <<scene, ram, succ, fail, disk, timed, gone, built, numTrue>>

SetIndex(w) ==
    \/ Enter(w) \/ WriteError(w) \/ WriteStatus(w) \/ WriteSuccess(w) \/ WriteOutput(w)
    \/ Check(w) \/ Lock(w) \/ Count(w) \/ Incr(w) \/ Clear(w) \/ Unlock(w)
    \/ \E d \in Dicts : Push(w, d) \/ ClearDict(w, d)

(* dl_cache.py: add and push pass expire=self.ttl, 1000 seconds; diskcache then   *)
(* takes a row, or a counter, for absent.                                      *)

ExpireRow(d) == \E row \in disk[d] :
    /\ disk' = [disk EXCEPT ![d] = @ \ {row}]
    /\ gone' = [gone EXCEPT ![d] = @ \cup row]
    /\ UNCHANGED <<scene, at, todo, ram, succ, fail, timed, built, mutex, numTrue, filed>>

\* The incr that comes next stores the counter anew, without an expiry.
ExpireCounter(k) ==
    /\ k \in timed /\ timed' = timed \ {k}
    /\ disk' = [disk EXCEPT ![k] = 0]
    /\ gone' = [gone EXCEPT ![k] = @ + disk[k]]
    /\ UNCHANGED <<scene, at, todo, ram, succ, fail, built, mutex, numTrue, filed>>

Expire == (\E d \in Dicts : ExpireRow(d)) \/ (\E k \in Counters : ExpireCounter(k))
-----------------------------------------------------------------------------
AllFiled == \A w \in Workers : at[w] = "idle" /\ todo[w] = <<>>
RpDone == AllFiled /\ UNCHANGED rpvars

RpNext == (\E w \in Workers : SetIndex(w)) \/ Expire \/ RpDone
RpSpec == RpInit /\ [][RpNext]_rpvars
RpFairSpec == RpSpec /\ \A w \in Workers : WF_rpvars(SetIndex(w))
-----------------------------------------------------------------------------
(* Requirements. *)

Succeeded == {c \in filed : c.ok}
Failed == {c \in filed : ~c.ok}
Flushing == {w \in Workers : at[w] \notin {"idle", "error", "status", "success", "output", "check", "lock"}}

OnDisk(d) == UNION disk[d]

\* An upload files from one thread, the event loop's.  Then a flush itself loses and
\* miscounts nothing: between calls every outcome and every entry is in RAM, on disk or
\* among what has expired on disk, and in one of them only.  Nothing else is ever lost;
\* what a flush wrote is, 1000 seconds later.
Conserved ==
    (\E w \in Workers : \A v \in Workers \ {w} : scene[v] = <<>>)
    /\ (\A w \in Workers : at[w] = "idle") =>
      /\ Cardinality(succ) + disk.success + gone.success = Cardinality(Succeeded)
      /\ Cardinality(fail) + disk.failure + gone.failure = Cardinality(Failed)
      /\ {c.ref : c \in Failed} = ram["errors"] \cup OnDisk("errors") \cup gone["errors"]
      /\ {c.ref : c \in Succeeded} = ram["output"] \cup OnDisk("output") \cup gone["output"]
      /\ \A d \in Dicts : /\ ram[d] \cap (OnDisk(d) \cup gone[d]) = {}
                          /\ OnDisk(d) \cap gone[d] = {}

\* With several threads entries may be lost, yet none is counted twice, not even when
\* a counter that has expired is started again: flushes exclude each other, and what
\* one counted it also clears.
NoneCountedTwice ==
    (\A w \in Workers : at[w] # "clear") =>
      Cardinality(Success) + disk.success + disk.failure + gone.success + gone.failure <=
        Cardinality(filed) + Cardinality({w \in Workers : at[w] # "idle"})

\* Every call of set_index returns: a flush that fails to build its cache, too,
\* leaves the mutex free for those who wait at their entry.
AllReturn == <>AllFiled
=============================================================================
