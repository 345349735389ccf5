------------------------------- MODULE Cookie -------------------------------
(***************************************************************************)
(* dtlpy/services/cookie.py and calls_counter.py: a json file that processes *)
(* share: the cookie of a user (login, settings), the state of a working     *)
(* directory, or the calls counter, which has a file of its own.  An actor   *)
(* below is a process, or a thread where it puts to the cookie.  Each read   *)
(* and each write takes the file lock, but put is a read and a write with    *)
(* the lock free in between, and create looks at the size without the lock.  *)
(*                                                                         *)
(* Opening for writing empties the file; the text arrives when it is closed. *)
(* A process that dies in between leaves it empty or cut short (torn), and   *)
(* the operating system frees its lock.                                     *)
(***************************************************************************)
EXTENDS Naturals, Sequences

CONSTANTS
    Actors,
    Scenes,     \* the calls of every actor: a sequence of records with field op
    NumTries,   \* NUM_TRIES
    MaxCrashes, \* bounds the crashes that are looked at
    Counter,    \* the key 'calls_counter'
    NoActor

\* The calls on a file: the calls counter has a file of its own, that its constructor
\* creates and then loads; nobody puts its key elsewhere.
Given == UNION {{s[a][i] : i \in DOMAIN s[a]} : s \in Scenes, a \in Actors}
OnUserFile(s) ==
    \A i \in DOMAIN s : \/ s[i].op \in {"create", "get"}
                        \/ s[i].op = "put" /\ s[i].key # Counter
OnCounterFile(s) ==
    /\ s # <<>> => s[1].op = "create"
    /\ \A i \in DOMAIN s :
          /\ s[i].op \in {"create", "load", "add", "on", "off", "clear", "save"}
          /\ s[i].op = "create" /\ i < Len(s) => s[i + 1].op = "load"

ASSUME CookieAssumption ==
    /\ NumTries \in Nat \ {0} /\ MaxCrashes \in Nat /\ NoActor \notin Actors
    /\ \A s \in Scenes :
          /\ s \in [Actors -> Seq(Given)]
          /\ (\A a \in Actors : OnUserFile(s[a])) \/ (\A a \in Actors : OnCounterFile(s[a]))

VARIABLES
    pc, todo,   \* control and remaining calls
    made,       \* does the directory of the file exist?
    file,       \* [kind, cfg]; cfg is meaningful when kind = "json"
    lock,       \* the file lock
    cfg,        \* local: what put or reset is about to write
    tries,      \* local: failed attempts of read_json
    count,      \* CallsCounter.state and .number of the actor
    crashes,
    version, base, last, adds, raced    \* history, see Close

io == <<pc, todo, made, file, lock, cfg, tries, count, crashes>>
history == <<version, base, last, adds, raced>>
vars == <<io, history>>

Empty == <<>>   \* the function with no key: {}
\* cfg[key] = value
With(f, k, v) == [x \in {k} \cup DOMAIN f |-> IF x = k THEN v ELSE f[x]]
Off == [state |-> "off", number |-> 0]
Ended == {"raised", "beaten", "exited", "crashed"}
Locking == {"resetting", "writing"}

Init ==
    /\ pc = [a \in Actors |-> "idle"] /\ todo \in Scenes
    /\ made \in BOOLEAN /\ file = [kind |-> "absent", cfg |-> Empty] /\ lock = NoActor
    /\ cfg = [a \in Actors |-> Empty] /\ tries = [a \in Actors |-> 0]
    /\ count = [a \in Actors |-> Off] /\ crashes = 0
    /\ version = 0 /\ base = [a \in Actors |-> 0] /\ last = Empty
    /\ adds = 0 /\ raced = FALSE

Call(a) == Head(todo[a])
\* CallsCounter.save, after the change its caller makes to the two numbers.
Saves == {"init", "bump", "on", "off", "clear", "save"}
Puts(a) == Call(a).op \in Saves \cup {"put"}
Changed(c, op) ==
    CASE op = "bump" -> [c EXCEPT !.number = @ + 1]
      [] op = "clear" -> [c EXCEPT !.number = 0]
      [] op \in {"on", "off"} -> [c EXCEPT !.state = op]
      [] OTHER -> c
Key(a) == IF Call(a).op = "put" THEN Call(a).key ELSE Counter
GoTo(a, l) == pc' = [pc EXCEPT ![a] = l]
Return(a) == GoTo(a, "idle") /\ todo' = [todo EXCEPT ![a] = Tail(@)]

-----------------------------------------------------------------------------
\* CallsCounter.add: if it is on it loads, counts and saves.
Add(a) ==
    /\ pc[a] = "idle" /\ todo[a] # <<>> /\ Call(a).op = "add"
    /\ todo' = [todo EXCEPT ![a] =
         IF count[a].state = "on" THEN <<[op |-> "load"], [op |-> "bump"]>> \o Tail(@) ELSE Tail(@)]
    /\ UNCHANGED <<pc, file, lock, cfg, tries, count, crashes, history, made>>

\* A call starts.  read_json(create=True) of put creates an absent file.
Begin(a) ==
    /\ pc[a] = "idle" /\ todo[a] # <<>> /\ Call(a).op # "add"
    /\ GoTo(a, IF Call(a).op = "create" \/ (Puts(a) /\ file.kind = "absent")
               THEN "look" ELSE "read")
    /\ tries' = [tries EXCEPT ![a] = 0]
    /\ count' = [count EXCEPT ![a] = Changed(@, Call(a).op)]
    /\ UNCHANGED <<todo, file, lock, cfg, crashes, history, made>>

\* create: the directory is made if it is missing, and os.makedirs raises if another has
\* made it since.
LookDir(a) ==
    /\ pc[a] = "look" /\ GoTo(a, IF made THEN "check" ELSE "mkdir")
    /\ UNCHANGED <<todo, file, lock, cfg, tries, count, crashes, history, made>>

MakeDir(a) ==
    /\ pc[a] = "mkdir" /\ made' = TRUE
    /\ GoTo(a, IF made THEN "beaten" ELSE "check")
    /\ UNCHANGED <<todo, file, lock, cfg, tries, count, crashes, history>>

\* Then the existence and the size of the file are looked at without the lock.
SizedFile == file.kind \notin {"absent", "empty"}

Check(a) ==
    /\ pc[a] = "check"
    /\ GoTo(a, IF SizedFile THEN "verify" ELSE "reset")
    /\ cfg' = [cfg EXCEPT ![a] = Empty]
    /\ base' = [base EXCEPT ![a] = version]
    /\ UNCHANGED <<todo, file, lock, tries, count, crashes, version, last, adds, raced, made>>

\* with FileLock(...): with open(self.COOKIE, 'w')
Unlocked(a) == UNCHANGED lock
TakeLock(a) == lock = NoActor /\ lock' = a

Open(a) ==
    /\ pc[a] \in {"reset", "write"} /\ TakeLock(a)
    /\ file' = [file EXCEPT !.kind = "empty"]
    /\ GoTo(a, IF pc[a] = "reset" THEN "resetting" ELSE "writing")
    /\ UNCHANGED <<todo, cfg, tries, count, crashes, history, made>>

\* The written text becomes the file and the lock is released.  History: how
\* often the file was written, what each key was last given, the completed
\* increments, and whether a write was not based on the write before it.
Close(a) ==
    /\ pc[a] \in Locking
    /\ file' = [kind |-> "json", cfg |-> cfg[a]] /\ lock' = NoActor
    /\ IF pc[a] = "writing" THEN Return(a) ELSE GoTo(a, "verify") /\ UNCHANGED todo
    /\ version' = version + 1
    /\ raced' = (raced \/ base[a] # version)
    /\ IF pc[a] = "writing"
       THEN last' = With(last, Key(a), cfg[a][Key(a)])
       ELSE UNCHANGED last
    /\ adds' = IF pc[a] = "resetting" THEN adds ELSE
         CASE Call(a).op = "bump" -> adds + 1 [] Call(a).op = "clear" -> 0 [] OTHER -> adds
    /\ base' = [base EXCEPT ![a] = version + 1]
    /\ UNCHANGED <<cfg, tries, count, crashes, made>>

\* create ends with a read under the lock; ValueError raises SystemExit.
Verify(a) ==
    /\ pc[a] = "verify" /\ lock = NoActor
    /\ IF file.kind # "json" THEN GoTo(a, "exited") /\ UNCHANGED todo
       ELSE IF Call(a).op = "create" THEN Return(a)
       ELSE GoTo(a, "read") /\ UNCHANGED todo
    /\ UNCHANGED <<file, lock, cfg, tries, count, crashes, history, made>>

LastTry(n) == n = NumTries - 1

\* read_json of a file that is not json: again, the last time the error leaves.
ReadFails(a) ==
    /\ pc[a] = "read" /\ lock = NoActor /\ file.kind \in {"empty", "torn"}
    /\ tries' = [tries EXCEPT ![a] = @ + 1]
    /\ GoTo(a, IF LastTry(tries[a]) THEN "raised" ELSE "read")
    /\ UNCHANGED <<todo, file, lock, cfg, count, crashes, history, made>>

Stored == IF file.kind = "json" THEN file.cfg ELSE Empty
Has(f, k) == k \in DOMAIN f

\* get, and load: a counter that is not there is saved with its default.
Get(a) ==
    LET new == Call(a).op = "load" /\ ~Has(Stored, Counter) IN
    /\ pc[a] = "read" /\ ~Puts(a)
    /\ file.kind = "absent" \/ (lock = NoActor /\ file.kind = "json")
    /\ IF Call(a).op # "load" THEN UNCHANGED count ELSE
         count' = [count EXCEPT ![a] = IF new THEN Off ELSE Stored[Counter]]
    /\ GoTo(a, "idle")
    /\ todo' = [todo EXCEPT ![a] = (IF new THEN <<[op |-> "init"]>> ELSE <<>>) \o Tail(@)]
    /\ base' = [base EXCEPT ![a] = version]
    /\ UNCHANGED <<file, lock, cfg, tries, crashes, version, last, adds, raced, made>>

Value(a) == IF Call(a).op = "put" THEN Call(a).val ELSE count[a]

\* put: cfg = read_json(); cfg[key] = value.  (History: what a counter saves is as
\* old as its load, or as its last save.)
NewFile(a, f) == With(Empty, Key(a), Value(a))
Updated(a, f) == With(f, Key(a), Value(a))

ReadForPut(a) ==
    /\ pc[a] = "read" /\ Puts(a) /\ lock = NoActor /\ file.kind = "json"
    /\ cfg' = [cfg EXCEPT ![a] = Updated(a, file.cfg)]
    /\ base' = [base EXCEPT ![a] = IF Call(a).op = "put" THEN version ELSE @]
    /\ GoTo(a, "write")
    /\ UNCHANGED <<todo, file, lock, tries, count, crashes, version, last, adds, raced, made>>

\* The process of a is killed.  (History: in the middle of a write it tears what
\* the write was based on.)
KeepsLock(a) == lock
FreesLock(a) == IF lock = a THEN NoActor ELSE lock

Crash(a) ==
    /\ crashes < MaxCrashes /\ pc[a] \notin Ended
    /\ GoTo(a, "crashed") /\ crashes' = crashes + 1
    /\ lock' = FreesLock(a)
    /\ \E k \in {"empty", "torn"} :
         file' = IF pc[a] \in Locking THEN [file EXCEPT !.kind = k] ELSE file
    /\ raced' = (raced \/ pc[a] \in Locking)
    /\ UNCHANGED <<todo, cfg, tries, count, version, base, last, adds, made>>

Step(a) ==
    \/ Add(a) \/ Begin(a) \/ LookDir(a) \/ MakeDir(a) \/ Check(a)
    \/ Open(a) \/ Close(a) \/ Verify(a) \/ ReadFails(a) \/ Get(a) \/ ReadForPut(a)

Finished(a) == pc[a] \in Ended \/ (pc[a] = "idle" /\ todo[a] = <<>>)
Done == (\A a \in Actors : Finished(a)) /\ UNCHANGED vars

Next == (\E a \in Actors : Step(a) \/ Crash(a)) \/ Done
Spec == Init /\ [][Next]_vars
FairSpec == Spec /\ \A a \in Actors : WF_vars(Step(a))
-----------------------------------------------------------------------------
(* Requirements. *)

Labels == {"idle", "look", "mkdir", "check", "reset", "resetting", "write", "writing",
           "verify", "read"} \cup Ended

\* Every variable has its type.
TypeOK ==
    /\ pc \in [Actors -> Labels]
    /\ made \in BOOLEAN /\ file.kind \in {"absent", "empty", "torn", "json"}
    /\ lock \in Actors \cup {NoActor}
    /\ tries \in [Actors -> 0..NumTries]
    /\ crashes \in 0..MaxCrashes

\* While nobody dies, the file is unreadable only to the one who holds its lock:
\* no reader ever raises, no start ends in "COOKIE is corrupted".  The only start that
\* raises is one that another beats to making the directory ("beaten").
DamageNeedsCrash ==
    crashes = 0 =>
      /\ lock = NoActor => file.kind \in {"absent", "json"}
      /\ \A a \in Actors : pc[a] \notin {"raised", "exited"}

\* What was put stays, and the counter counts, until somebody's write is based on
\* an older file than the one it replaces: a put whose read another write
\* overtook, an increment whose load it overtook, a creation whose look at the
\* size it overtook, or a write that was killed.
KeptUnlessRaced ==
    ~raced /\ file.kind = "json" =>
      /\ \A k \in DOMAIN last : Has(file.cfg, k) /\ file.cfg[k] = last[k]
      /\ Has(last, Counter) => last[Counter].number = adds

\* A killed process blocks nobody: every other call returns or raises.
AllEnd == <>(\A a \in Actors : Finished(a))
=============================================================================
