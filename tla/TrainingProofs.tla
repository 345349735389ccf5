--------------------------- MODULE TrainingProofs ---------------------------
(***************************************************************************)
(* Proofs about Training, for any threads, models, executions and bounds:   *)
(* that only meant executions are interrupted, which data and whose work an *)
(* execution uploads, and that its end is told.  Below them those about     *)
(* Waits, by which another client waits for such an execution to end.       *)
(***************************************************************************)
EXTENDS Training, Waits, TLAPS

\* The part of the state that decides about interruptions.
Types ==
    /\ at = [t \in Threads |-> at[t]]
    /\ nth \in [Threads -> Int] /\ terminated \in [Threads -> Nat]
    /\ due \subseteq Threads \X Int

\* Whoever is decided about is meant; and a thread that is signalled while it is at work
\* works on an execution that is meant, or that inherited the signal.
Pending ==
    /\ due \subseteq meant
    /\ \A t \in Threads : terminated[t] > 0 /\ Busy(t) => Id(t) \in meant \cup inherited

SignalInv == Types /\ Pending /\ InterruptedIfMeant
-----------------------------------------------------------------------------
LEMMA InitSignals == Init => SignalInv
<1> SUFFICES ASSUME Init PROVE SignalInv  OBVIOUS
<1>1. /\ at = [t \in Threads |-> "idle"] /\ nth = [t \in Threads |-> 0]
      /\ terminated = [t \in Threads |-> 0] /\ due = {} /\ interrupted = {}
  BY DEF Init
<1> QED  BY <1>1 DEF SignalInv, Types, Pending, InterruptedIfMeant

\* The steps of a thread that is at work leave the signals alone, or take one.
LEMMA AtWorkKeeps ==
    ASSUME SignalInv, NEW t \in Threads, NEW label,
           Busy(t), at' = [at EXCEPT ![t] = label], UNCHANGED <<nth, due, meant, inherited>>,
           \/ UNCHANGED <<terminated, interrupted>>
           \/ /\ terminated[t] > 0 /\ terminated' = [terminated EXCEPT ![t] = @ - 1]
              /\ interrupted' = interrupted \cup {Id(t)}
    PROVE  SignalInv'
<1>1. Types'
  <2>1. at' = [u \in Threads |-> IF u = t THEN label ELSE at[u]]  BY DEF SignalInv, Types
  <2>2. at' = [u \in Threads |-> at'[u]]  BY <2>1, Zenon
  <2>3. terminated' \in [Threads -> Nat]  BY DEF SignalInv, Types
  <2> QED  BY <2>2, <2>3 DEF SignalInv, Types
<1>2. Pending'
  <2>1. ASSUME NEW u \in Threads, terminated'[u] > 0, Busy(u)'
        PROVE  Id(u)' \in meant' \cup inherited'
    <3>1. terminated[u] > 0  BY <2>1 DEF SignalInv, Types
    <3>2. Busy(u)  BY <2>1 DEF Busy, SignalInv, Types
    <3> QED  BY <3>1, <3>2 DEF SignalInv, Pending, Id
  <2> QED  BY <2>1 DEF SignalInv, Pending
<1>3. InterruptedIfMeant'
  BY DEF SignalInv, Pending, InterruptedIfMeant
<1> QED  BY <1>1, <1>2, <1>3 DEF SignalInv

LEMMA StartKeeps == ASSUME SignalInv, NEW t \in Threads, Start(t) PROVE SignalInv'
<1> USE DEF Start, runner
<1>1. PICK label : at' = [at EXCEPT ![t] = label]  OBVIOUS
<1>2. Types'
  <2>1. at' = [u \in Threads |-> IF u = t THEN label ELSE at[u]]  BY <1>1 DEF SignalInv, Types
  <2>2. at' = [u \in Threads |-> at'[u]]  BY <2>1, Zenon
  <2> QED  BY <2>2 DEF SignalInv, Types
<1>3. Pending'
  <2>1. ASSUME NEW u \in Threads, terminated'[u] > 0, Busy(u)'
        PROVE  Id(u)' \in meant' \cup inherited'
    <3>1. CASE u = t  BY <2>1, <3>1 DEF SignalInv, Types, Id
    <3>2. CASE u # t
      <4>1. Busy(u) /\ Id(u)' = Id(u)  BY <1>1, <2>1, <3>2 DEF SignalInv, Types, Busy, Id
      <4> QED  BY <2>1, <4>1 DEF SignalInv, Pending
    <3> QED  BY <3>1, <3>2
  <2> QED  BY <2>1 DEF SignalInv, Pending
<1>4. InterruptedIfMeant'  BY DEF SignalInv, InterruptedIfMeant
<1> QED  BY <1>2, <1>3, <1>4 DEF SignalInv

LEMMA WorkKeeps ==
    ASSUME SignalInv, NEW t \in Threads, ~Start(t), Step(t) \/ Fail(t) \/ KillEvent(t)
    PROVE  SignalInv'
<1>1. Busy(t)
  BY DEF Step, GetModel, Update, SetEntity, Load, Pass, Direct, Prepare, Download, Fill, Convert, Train,
         Save, Upload, Predict, Name, Fail, KillEvent, Busy, Over
<1>2. UNCHANGED <<nth, due, meant, inherited>> /\ \E label : at' = [at EXCEPT ![t] = label]
  BY DEF Step, GetModel, Update, SetEntity, Load, Pass, Direct, Prepare, Download, Fill, Convert, Train,
         Save, Upload, Predict, Name, Fail, KillEvent, Raise, Goto, runner
<1>3. \/ UNCHANGED <<terminated, interrupted>>
      \/ /\ terminated[t] > 0 /\ terminated' = [terminated EXCEPT ![t] = @ - 1]
         /\ interrupted' = interrupted \cup {Id(t)}
  BY DEF Step, GetModel, Update, SetEntity, Load, Pass, Direct, Prepare, Download, Fill, Convert, Train,
         Save, Upload, Predict, Name, Fail, KillEvent, Signalled, runner
<1> QED  BY <1>1, <1>2, <1>3, AtWorkKeeps

\* A signal on its way is meant; if it comes late, who gets it inherits it.
LEMMA TerminateKeeps == ASSUME SignalInv, NEW id \in due, Terminate(id) PROVE SignalInv'
<1> USE DEF Terminate, thread
<1>1. id \in meant /\ id = <<id[1], id[2]>> /\ id[1] \in Threads
  BY DEF SignalInv, Pending, Types
<1>2. Types'  BY <1>1 DEF SignalInv, Types
<1>3. Pending'
  <2>1. ASSUME NEW u \in Threads, terminated'[u] > 0, Busy(u)'
        PROVE  Id(u)' \in meant' \cup inherited'
    <3>1. CASE u = id[1]  BY <1>1, <2>1, <3>1 DEF Id, Busy
    <3>2. CASE u # id[1]
      <4>1. terminated[u] > 0 /\ Busy(u)  BY <2>1, <3>2 DEF SignalInv, Types, Busy
      <4> QED  BY <4>1 DEF SignalInv, Pending, Id
    <3> QED  BY <3>1, <3>2
  <2> QED  BY <2>1 DEF SignalInv, Pending
<1>4. InterruptedIfMeant'  BY DEF SignalInv, InterruptedIfMeant
<1> QED  BY <1>2, <1>3, <1>4 DEF SignalInv

LEMMA DecideKeeps == ASSUME SignalInv, NEW t \in Threads, Decide(t) PROVE SignalInv'
<1> USE DEF Decide, thread
<1>1. Types'  BY DEF SignalInv, Types, Id
<1>2. Pending'  BY DEF SignalInv, Pending, Busy, Id
<1>3. InterruptedIfMeant'  BY DEF SignalInv, InterruptedIfMeant
<1> QED  BY <1>1, <1>2, <1>3 DEF SignalInv

\* After a kill no thread is signalled.
LEMMA KillKeeps == ASSUME SignalInv, Kill PROVE SignalInv'
<1> USE DEF Kill
<1>1. terminated' = [t \in Threads |-> 0] /\ due' = due /\ meant' = meant  OBVIOUS
<1>2. Types'
  <2>1. nth' \in [Threads -> Int]  BY DEF SignalInv, Types
  <2>2. at' = [t \in Threads |-> at'[t]]  OBVIOUS
  <2> QED  BY <1>1, <2>1, <2>2 DEF SignalInv, Types
<1>3. Pending'  BY <1>1 DEF SignalInv, Pending
<1>4. InterruptedIfMeant'  BY DEF SignalInv, InterruptedIfMeant
<1> QED  BY <1>2, <1>3, <1>4 DEF SignalInv

LEMMA NextKeeps == SignalInv /\ [Next]_vars => SignalInv'
<1> SUFFICES ASSUME SignalInv, [Next]_vars PROVE SignalInv'  OBVIOUS
<1>1. CASE UNCHANGED vars
  BY <1>1 DEF vars, thread, runner, SignalInv, Types, Pending, InterruptedIfMeant, Busy, Id
<1>2. ASSUME NEW t \in Threads, Step(t) \/ Fail(t) \/ Decide(t) \/ KillEvent(t)
      PROVE  SignalInv'
  BY <1>2, StartKeeps, WorkKeeps, DecideKeeps
<1>3. ASSUME NEW id \in due, Terminate(id) PROVE SignalInv'  BY <1>3, TerminateKeeps
<1>4. CASE Kill  BY <1>4, KillKeeps
<1> QED  BY <1>1, <1>2, <1>3, <1>4 DEF Next

\* An execution is interrupted only when the platform meant it to, or when its thread got
\* the signal of another (base_package_runner.py:23-32).
THEOREM TrainingInterrupted == Spec => []InterruptedIfMeant
<1>1. Init => SignalInv  BY InitSignals
<1>2. SignalInv /\ [Next]_vars => SignalInv'  BY NextKeeps
<1>3. SignalInv => InterruptedIfMeant  BY DEF SignalInv
<1> QED  BY <1>1, <1>2, <1>3, PTL DEF Spec
-----------------------------------------------------------------------------
(* What the threads are at, and with what. *)

\* The directory of the data is known; the entity is that of an execution; output_path is
\* not known.
Dirs == {"subset", "download", "fill", "convert", "train"}
Using == {"load", "prepare", "direct", "save", "upload", "trained", "predict", "name"} \cup Dirs
Early == {"get", "start", "entity", "load", "prepare", "direct", "subset", "download", "fill",
          "convert"}
OfTraining == {"get", "start", "prepare", "direct", "save", "upload", "trained", "failed"} \cup Dirs
Labels == {"idle", "entity"} \cup OfTraining \cup Using \cup Over
Paths == Models \X Models
Weights == [of : Models \cup {None}, by : (Threads \X Nat) \cup {<<None, 0>>},
            path : Paths \cup {NoPath}, full : BOOLEAN]
Data == (Models \cup {None}) \X (Models \cup {None})
Runs == [path : Paths \cup {NoPath}, data : Data, ready : BOOLEAN, out : Weights, rescue : BOOLEAN]
Folders == [is : {"none", "part", "whole"}, of : SUBSET Paths]

DataTypes ==
    /\ prog \in [Threads -> Seq(Works)]
    /\ at \in [Threads -> Labels] /\ nth \in [Threads -> Nat] /\ run \in [Threads -> Runs]
    /\ faults \in [Threads -> Nat]
    /\ weights \in Weights /\ artifacts \in [Models -> Weights]
    /\ dir \in [Paths -> Folders]
    /\ status = [m \in Models |-> status[m]] /\ ended = [m \in Models |-> ended[m]]
    /\ local = [id \in DOMAIN local |-> local[id]] /\ DOMAIN local \subseteq Ids
    /\ \A t \in Threads :
          /\ nth[t] <= Len(prog[t])
          /\ at[t] # "idle" => nth[t] > 0 /\ Id(t) \in DOMAIN local

\* A thread that is past its entity finds one in the adapter; its data directory is known
\* before it is used; and its except clause runs only after a fault.
Stage(t) ==
    /\ at[t] \in OfTraining => Trains(t)
    /\ at[t] \in {"predict", "name"} => ~Trains(t)
    /\ at[t] \in Using => entity \in DOMAIN local
    /\ at[t] \in Dirs => run[t].path \in Paths /\ run[t].path[1] = Mine(t)
    /\ at[t] \in {"direct", "subset"} => run[t].data[1] \in Models
    /\ at[t] \in {"download"} => run[t].data \in Paths
    /\ at[t] \in Early => ~run[t].ready
    /\ run[t].rescue => faults[t] > 0
    /\ at[t] = "failed" => run[t].rescue
StageInv == DataTypes /\ \A t \in Threads : Stage(t)

\* A step of thread t, from its label to the label l, with the locals r.
Goes(t, l, r) ==
    /\ l \in Labels \ {"idle"} /\ at' = [at EXCEPT ![t] = l]
    /\ r \in Runs /\ run' = [run EXCEPT ![t] = r]
    /\ UNCHANGED <<prog, nth>>
    /\ \E n \in Nat : faults' = [faults EXCEPT ![t] = n] /\ (r.rescue => n > 0)
    /\ l \in OfTraining => Trains(t)
    /\ l \in {"predict", "name"} => ~Trains(t)
    /\ l \in Using => entity' \in DOMAIN local
    /\ l \in Dirs => r.path \in Paths /\ r.path[1] = Mine(t)
    /\ l \in {"direct", "subset"} => r.data[1] \in Models
    /\ l \in {"download"} => r.data \in Paths
    /\ l \in Early => ~r.ready
    /\ l = "failed" => r.rescue

\* What such a step may do to what the threads share.
Shares ==
    /\ weights' \in Weights /\ artifacts' \in [Models -> Weights]
    /\ dir' \in [Paths -> Folders]
    /\ status' = [m \in Models |-> status'[m]] /\ ended' = [m \in Models |-> ended'[m]]
    /\ local' = [id \in DOMAIN local |-> local'[id]] /\ DOMAIN local' = DOMAIN local
    /\ entity' = entity \/ entity' \in DOMAIN local

LEMMA GoesKeeps ==
    ASSUME StageInv, NEW t \in Threads, Busy(t), NEW l, NEW r, Goes(t, l, r), Shares
    PROVE  StageInv'
<1> USE DEF StageInv
<1>1. /\ at \in [Threads -> Labels] /\ run \in [Threads -> Runs] /\ faults \in [Threads -> Nat]
      /\ nth[t] > 0 /\ Id(t) \in DOMAIN local
  BY DEF DataTypes, Busy
<1>2. \A u \in Threads : Id(u)' = Id(u) /\ Trains(u)' = Trains(u) /\ Mine(u)' = Mine(u)
  BY DEF Goes, Id, Trains, Mine, Work
<1>3. DataTypes'
  <2>1. at' \in [Threads -> Labels] /\ run' \in [Threads -> Runs] /\ faults' \in [Threads -> Nat]
    BY <1>1 DEF Goes
  <2>2. local' = [id \in DOMAIN local' |-> local'[id]] /\ DOMAIN local' \subseteq Ids'
    BY DEF Shares, DataTypes, Goes, Ids
  <2>3. \A u \in Threads : at'[u] # "idle" => nth[u] > 0 /\ Id(u) \in DOMAIN local
    BY <1>1 DEF Goes, DataTypes
  <2>4. prog' = prog /\ nth' = nth  BY DEF Goes
  <2> QED  BY <1>2, <2>1, <2>2, <2>3, <2>4 DEF DataTypes, Shares
<1>4. ASSUME NEW u \in Threads PROVE Stage(u)'
  <2>1. CASE u = t
    <3>1. at'[u] = l /\ run'[u] = r /\ (r.rescue => faults'[u] > 0)  BY <1>1, <2>1 DEF Goes
    <3> QED  BY <1>2, <2>1, <3>1 DEF Goes, Stage, Shares
  <2>2. CASE u # t
    <3>1. at'[u] = at[u] /\ run'[u] = run[u] /\ faults'[u] = faults[u]
      BY <1>1, <2>2 DEF Goes
    <3>2. entity \in DOMAIN local => entity' \in DOMAIN local'  BY DEF Shares
    <3> QED  BY <1>2, <3>1, <3>2 DEF Stage
  <2> QED  BY <2>1, <2>2
<1> QED  BY <1>3, <1>4

\* The work of a thread that is not idle, and of the entity of who is past it, is known.
LEMMA WorkKnown ==
    ASSUME StageInv, NEW id \in DOMAIN local
    PROVE  Work(id) \in Works /\ Work(id).on \in Models /\ id \in Threads \X Nat
<1>1. PICK t \in Threads : id \in {<<t, i>> : i \in DOMAIN prog[t]}
  BY DEF StageInv, DataTypes, Ids
<1>2. PICK i \in DOMAIN prog[t] : id = <<t, i>>  BY <1>1
<1>3. prog[t] \in Seq(Works)  BY DEF StageInv, DataTypes
<1>4. prog[t][i] \in Works /\ i \in Nat  BY <1>2, <1>3
<1> QED  BY <1>2, <1>4 DEF Work, Works

LEMMA StepBusy == ASSUME NEW t \in Threads, Step(t), ~Start(t) PROVE Busy(t)
BY DEF Step, GetModel, Update, SetEntity, Load, Pass, Direct, Prepare, Download, Fill, Convert, Train,
       Save, Upload, Predict, Name, Busy, Over

LEMMA StepStage ==
    ASSUME StageInv, NEW t \in Threads, Step(t), ~Start(t) PROVE StageInv'
<1> USE DEF Goto, platform, runner, adapter
<1>0. /\ Busy(t) /\ run[t] \in Runs /\ faults[t] \in Nat /\ (run[t].rescue => faults[t] > 0)
      /\ run = [run EXCEPT ![t] = run[t]] /\ faults = [faults EXCEPT ![t] = faults[t]]
      /\ Stage(t) /\ Id(t) \in DOMAIN local /\ Id(t) \in Threads \X Nat /\ Mine(t) \in Models
  <2>1. Busy(t)  BY StepBusy
  <2>2. Id(t) \in DOMAIN local  BY <2>1 DEF StageInv, DataTypes, Busy
  <2>3. Id(t) \in Threads \X Nat /\ Mine(t) \in Models  BY <2>2, WorkKnown DEF Mine
  <2> QED  BY <2>1, <2>2, <2>3 DEF StageInv, DataTypes, Stage
<1>1. /\ weights \in Weights /\ artifacts \in [Models -> Weights]
      /\ dir \in [Paths -> Folders] /\ status = [m \in Models |-> status[m]]
      /\ local = [id \in DOMAIN local |-> local[id]] /\ ended = [m \in Models |-> ended[m]]
  BY DEF StageInv, DataTypes
<1>2. entity \in DOMAIN local => Work(entity).on \in Models  BY WorkKnown
<1>3. CASE Update(t)
  <2>1. Goes(t, After(t), run[t])
    <3>1. /\ After(t) \in {"entity", "returned", "raised"} /\ at' = [at EXCEPT ![t] = After(t)]
          /\ at[t] = "start" => After(t) = "entity" /\ ~run[t].ready
          /\ at[t] # "start" => After(t) # "entity"
          /\ UNCHANGED <<run, prog, nth, faults>>
      BY <1>0, <1>3 DEF Update, After, Stage, Early
    <3> QED  BY <1>0, <3>1 DEF Goes, Labels, Over, Using, OfTraining, Dirs, Early
  <2>2. Shares  BY <1>0, <1>1, <1>3 DEF Update, Shares
  <2> QED  BY <1>0, <2>1, <2>2, GoesKeeps
<1>4. CASE SetEntity(t)
  <2>1. Goes(t, "load", run[t])
    <3>1. /\ at[t] = "entity" /\ at' = [at EXCEPT ![t] = "load"] /\ entity' = Id(t)
          /\ UNCHANGED <<run, prog, nth, faults>> /\ ~run[t].ready
      BY <1>0, <1>4 DEF SetEntity, Stage, Early
    <3> QED  BY <1>0, <3>1 DEF Goes, Labels, Over, Using, OfTraining, Dirs, Early
  <2>2. Shares  BY <1>0, <1>1, <1>4 DEF SetEntity, Shares
  <2> QED  BY <1>0, <2>1, <2>2, GoesKeeps
<1>5. CASE Load(t)
  <2> DEFINE l == IF Trains(t) THEN "prepare" ELSE "predict"
  <2>1. at[t] = "load" /\ entity \in DOMAIN local /\ ~run[t].ready
        /\ UNCHANGED <<prog, nth, run, faults, entity, local, status, artifacts, dir, ended>>
        /\ at' = [at EXCEPT ![t] = l]
    BY <1>0, <1>5 DEF Load, Stage, Using, Early
  <2>2. Goes(t, l, run[t])  BY <1>0, <2>1 DEF Goes, Labels, Over, Using, OfTraining, Dirs, Early
  <2>3. weights' \in Weights  BY <1>1, <1>2, <1>5, <2>1 DEF Load, Loaded
  <2>4. Shares  BY <1>1, <2>1, <2>3 DEF Shares
  <2> QED  BY <1>0, <2>2, <2>4, GoesKeeps
<1>6. CASE Pass(t) \/ Direct(t) \/ Prepare(t)
  <2>1. PICK l, r :
          /\ at' = [at EXCEPT ![t] = l] /\ run' = [run EXCEPT ![t] = r]
          /\ r \in Runs /\ ~r.ready /\ r.rescue = run[t].rescue
          /\ l \in {"direct", "subset", "download", "convert"}
          /\ l # "direct" => r.path \in Paths /\ r.path[1] = Mine(t)
          /\ l \in {"direct", "subset"} => r.data[1] \in Models
          /\ l = "download" => r.data \in Paths
    <3>1. run[t].data = <<run[t].data[1], run[t].data[2]>> /\ run[t].data \in Data
      BY <1>0 DEF Runs, Data
    <3>2. at[t] \in {"prepare", "direct", "subset"} /\ entity \in DOMAIN local /\ ~run[t].ready
      BY <1>0, <1>6 DEF Pass, Direct, Prepare, Stage, Using, Dirs, Early
    <3>3. Work(entity).on \in Models  BY <1>2, <3>2
    <3>4. CASE Pass(t)
      <4> DEFINE r == [run[t] EXCEPT !.data = <<Work(entity).on, @[2]>>]
      <4>1. run' = [run EXCEPT ![t] = r] /\ at' = [at EXCEPT ![t] = "direct"]
        BY <1>0, <3>4 DEF Pass
      <4>2. r \in Runs /\ ~r.ready /\ r.rescue = run[t].rescue /\ r.data[1] \in Models
        BY <1>0, <3>1, <3>2, <3>3 DEF Runs, Data
      <4> HIDE DEF r
      <4> WITNESS "direct", r
      <4> QED  BY <4>1, <4>2
    <3>5. CASE Direct(t)
      <4> DEFINE r == [run[t] EXCEPT !.path = Target(t)]
      <4>1. run' = [run EXCEPT ![t] = r] /\ at' = [at EXCEPT ![t] = "subset"]
            /\ run[t].data[1] \in Models
        BY <1>0, <3>5 DEF Direct, Stage
      <4>2. Target(t) \in Paths /\ Target(t)[1] = Mine(t)
        BY <1>0, <3>3 DEF Target, Paths
      <4>3. r \in Runs /\ ~r.ready /\ r.rescue = run[t].rescue /\ r.path = Target(t)
            /\ r.data = run[t].data
        BY <1>0, <3>2, <4>2 DEF Runs
      <4> HIDE DEF r
      <4> WITNESS "subset", r
      <4> QED  BY <4>1, <4>2, <4>3
    <3>6. CASE Prepare(t)
      <4> DEFINE r == [run[t] EXCEPT !.data = <<@[1], Work(entity).on>>]
      <4>1. run' = [run EXCEPT ![t] = r] /\ run[t].data[1] \in Models
            /\ run[t].path \in Paths /\ run[t].path[1] = Mine(t)
        BY <1>0, <3>6 DEF Prepare, Stage, Dirs
      <4>2. PICK l \in {"download", "convert"} : at' = [at EXCEPT ![t] = l]
        BY <3>6 DEF Prepare
      <4>3. r \in Runs /\ ~r.ready /\ r.rescue = run[t].rescue /\ r.data \in Paths
            /\ r.path = run[t].path
        BY <1>0, <3>1, <3>2, <3>3, <4>1 DEF Runs, Data, Paths
      <4> QED  BY <4>1, <4>2, <4>3
    <3> QED  BY <1>6, <3>4, <3>5, <3>6
  <2>2. /\ UNCHANGED <<prog, nth, faults, entity, local, status, artifacts, weights, dir, ended>>
        /\ at[t] \in {"prepare", "direct", "subset"}
    BY <1>6 DEF Pass, Direct, Prepare
  <2>3. entity \in DOMAIN local /\ Trains(t)
    BY <1>0, <2>2 DEF Stage, Using, OfTraining, Dirs
  <2>4. Goes(t, l, r)
    BY <1>0, <2>1, <2>2, <2>3 DEF Goes, Labels, Over, Using, OfTraining, Dirs, Early
  <2>5. Shares  BY <1>1, <2>2 DEF Shares
  <2> QED  BY <1>0, <2>4, <2>5, GoesKeeps
<1>7. CASE Download(t) \/ Fill(t) \/ Convert(t)
  <2>1. PICK l \in {"fill", "convert", "train"} : at' = [at EXCEPT ![t] = l]
    BY <1>7 DEF Download, Fill, Convert
  <2>2. /\ at[t] \in {"download", "fill", "convert"} /\ (l = "train" <=> Convert(t))
        /\ UNCHANGED <<prog, nth, faults, entity, local, status, artifacts, weights, ended>>
    BY <1>0, <1>7, <2>1 DEF Download, Fill, Convert, StageInv, DataTypes
  <2>3. PICK r : /\ run' = [run EXCEPT ![t] = r]
                 /\ r = IF l = "train" THEN [run[t] EXCEPT !.ready = TRUE] ELSE run[t]
    <3>1. CASE Convert(t)  BY <2>2, <3>1 DEF Convert
    <3>2. CASE ~Convert(t)
      <4>1. run' = run  BY <1>7, <3>2 DEF Download, Fill
      <4> QED  BY <1>0, <2>2, <3>2, <4>1
    <3> QED  BY <3>1, <3>2
  <2>4. r \in Runs /\ r.rescue = run[t].rescue /\ r.path = run[t].path
        /\ (l # "train" => r.ready = run[t].ready)
    BY <1>0, <2>3 DEF Runs
  <2>5. entity \in DOMAIN local /\ Trains(t) /\ ~run[t].ready /\ run[t].path \in Paths
        /\ run[t].path[1] = Mine(t)
    BY <1>0, <2>2 DEF Stage, Using, OfTraining, Dirs, Early
  <2>6. Goes(t, l, r)
    BY <1>0, <2>1, <2>2, <2>3, <2>4, <2>5 DEF Goes, Labels, Over, Using, OfTraining, Dirs, Early
  <2>7. dir' \in [Paths -> Folders]
    <3>1. CASE Download(t)
      <4>1. run[t].data \in Paths  BY <1>0, <3>1 DEF Download, Stage
      <4>2. dir[run[t].path] \in Folders  BY <1>1, <2>5
      <4>3. [is |-> IF dir[run[t].path].is = "none" THEN "part" ELSE dir[run[t].path].is,
             of |-> dir[run[t].path].of \cup {run[t].data}] \in Folders
        BY <4>1, <4>2 DEF Folders
      <4> QED  BY <1>1, <3>1, <4>3 DEF Download
    <3>2. CASE Fill(t)
      <4>1. [dir[run[t].path] EXCEPT !.is = "whole"] \in Folders  BY <1>1, <2>5 DEF Folders
      <4> QED  BY <1>1, <3>2, <4>1 DEF Fill
    <3>3. CASE Convert(t)  BY <1>1, <3>3 DEF Convert
    <3> QED  BY <1>7, <3>1, <3>2, <3>3
  <2>8. Shares  BY <1>1, <2>2, <2>7 DEF Shares
  <2> QED  BY <1>0, <2>6, <2>8, GoesKeeps
<1>8. CASE Train(t)
  <2>1. at[t] = "train" /\ entity \in DOMAIN local /\ Trains(t)
        /\ UNCHANGED <<prog, nth, run, faults, entity, local, status, artifacts, dir, ended>>
        /\ at' = [at EXCEPT ![t] = "save"]
    BY <1>0, <1>8 DEF Train, Stage, Using, OfTraining, Dirs
  <2>2. Goes(t, "save", run[t])
    BY <1>0, <2>1 DEF Goes, Labels, Over, Using, OfTraining, Dirs, Early
  <2>3. weights' \in Weights
    <3>1. run[t].path \in Paths \cup {NoPath}  BY <1>0 DEF Runs
    <3> QED  BY <1>1, <1>8, <3>1 DEF Train, Weights, AllOf
  <2>4. Shares  BY <1>1, <2>1, <2>3 DEF Shares
  <2> QED  BY <1>0, <2>2, <2>4, GoesKeeps
<1>9. CASE Save(t) \/ Predict(t)
  <2> DEFINE l == IF at[t] = "save" THEN "upload" ELSE "name"
             r == [run[t] EXCEPT !.out = weights]
  <2>1. at[t] \in {"save", "predict"} /\ entity \in DOMAIN local
        /\ (at[t] = "save" => Trains(t)) /\ (at[t] = "predict" => ~Trains(t))
        /\ UNCHANGED <<prog, nth, faults, entity, weights, local, status, artifacts, dir, ended>>
        /\ at' = [at EXCEPT ![t] = l] /\ run' = [run EXCEPT ![t] = r]
    BY <1>0, <1>9 DEF Save, Predict, Stage, Using, OfTraining
  <2>2. r \in Runs /\ r.rescue = run[t].rescue  BY <1>0, <1>1 DEF Runs
  <2>3. Goes(t, l, r)
    <3> HIDE DEF r
    <3> QED  BY <1>0, <2>1, <2>2 DEF Goes, Labels, Over, Using, OfTraining, Dirs, Early
  <2>4. Shares  BY <1>1, <2>1 DEF Shares
  <2> QED  BY <1>0, <2>3, <2>4, GoesKeeps
<1>10. CASE Upload(t)
  <2> DEFINE l == IF run[t].rescue THEN "failed" ELSE "trained"
  <2>1. at[t] = "upload" /\ entity \in DOMAIN local /\ Trains(t)
        /\ UNCHANGED <<prog, nth, run, faults, entity, weights, local, dir>>
        /\ at' = [at EXCEPT ![t] = l]
    BY <1>0, <1>10 DEF Upload, Stage, Using, OfTraining
  <2>2. Goes(t, l, run[t])
    BY <1>0, <2>1 DEF Goes, Labels, Over, Using, OfTraining, Dirs, Early
  <2>3. artifacts' \in [Models -> Weights]
    <3>1. [run[t].out EXCEPT !.by = Id(t)] \in Weights  BY <1>0 DEF Runs, Weights
    <3> QED  BY <1>1, <1>10, <3>1 DEF Upload, Uploaded
  <2>4. status' = [m \in Models |-> status'[m]] /\ ended' = [m \in Models |-> ended'[m]]
    BY <1>1, <1>10 DEF Upload, Misled
  <2>5. Shares  BY <1>1, <2>1, <2>3, <2>4 DEF Shares
  <2> QED  BY <1>0, <2>2, <2>5, GoesKeeps
<1>11. CASE Name(t)
  <2>1. Goes(t, "returned", run[t])
    BY <1>0, <1>11 DEF Name, Goes, Labels, Over, Using, OfTraining, Dirs, Early
  <2>2. Shares  BY <1>1, <1>11 DEF Name, Shares
  <2> QED  BY <1>0, <2>1, <2>2, GoesKeeps
<1>12. CASE GetModel(t)
  <2>1. /\ at[t] = "get" /\ at' = [at EXCEPT ![t] = "start"] /\ Trains(t) /\ ~run[t].ready
        /\ UNCHANGED <<prog, nth, run, faults, entity>>
    BY <1>0, <1>12 DEF GetModel, Stage, OfTraining, Early
  <2>2. Goes(t, "start", run[t])
    BY <1>0, <2>1 DEF Goes, Labels, Over, Using, OfTraining, Dirs, Early
  <2>3. Shares  BY <1>1, <1>12 DEF GetModel, Shares
  <2> QED  BY <1>0, <2>2, <2>3, GoesKeeps
<1> QED  BY <1>3, <1>4, <1>5, <1>6, <1>7, <1>8, <1>9, <1>10, <1>11, <1>12 DEF Step

LEMMA NoRunTyped == NoRun \in Runs /\ NoWeights \in Weights
BY DEF NoRun, NoWeights, NoPath, None, Runs, Weights, Data

LEMMA StartStage == ASSUME StageInv, NEW t \in Threads, Start(t) PROVE StageInv'
<1> USE DEF StageInv
<1> DEFINE new == <<t, nth[t] + 1>>
<1>0. PICK l \in {"get", "start", "entity"} :
        /\ at' = [at EXCEPT ![t] = l]
        /\ l # "entity" <=> prog[t][nth[t] + 1].do = "train"
  BY DEF Start
<1>1. /\ nth' = [nth EXCEPT ![t] = @ + 1] /\ at' = [at EXCEPT ![t] = l]
      /\ run' = [run EXCEPT ![t] = NoRun] /\ faults' = [faults EXCEPT ![t] = 0]
      /\ DOMAIN local' = DOMAIN local \cup {new} /\ local' = [id \in DOMAIN local' |-> local'[id]]
      /\ UNCHANGED <<prog, entity, weights, artifacts, status, dir, ended>>
  BY <1>0 DEF Start, adapter
<1>2. /\ nth[t] \in Nat /\ nth[t] < Len(prog[t]) /\ prog[t] \in Seq(Works)
      /\ nth[t] + 1 \in DOMAIN prog[t] /\ prog[t][nth[t] + 1] \in Works
  BY DEF Start, DataTypes
<1>3. /\ nth' \in [Threads -> Nat] /\ at' \in [Threads -> Labels] /\ run' \in [Threads -> Runs]
      /\ faults' \in [Threads -> Nat]
  BY <1>1, NoRunTyped DEF DataTypes, Labels, OfTraining
<1>4. /\ Id(t)' = new /\ Work(Id(t))' = prog[t][nth[t] + 1]
      /\ \A u \in Threads \ {t} : Id(u)' = Id(u)
  BY <1>1 DEF Id, Work, DataTypes
<1>5. DataTypes'
  <2>1. DOMAIN local' \subseteq Ids'
    <3>1. new \in Ids  BY <1>2 DEF Ids
    <3> QED  BY <1>1, <3>1 DEF DataTypes, Ids
  <2>2. ASSUME NEW u \in Threads
        PROVE  /\ nth'[u] <= Len(prog'[u])
               /\ at'[u] # "idle" => nth'[u] > 0 /\ Id(u)' \in DOMAIN local'
    <3>1. CASE u = t  BY <1>1, <1>2, <1>4, <3>1 DEF DataTypes
    <3>2. CASE u # t  BY <1>1, <1>4, <3>2 DEF DataTypes
    <3> QED  BY <3>1, <3>2
  <2>3. status' = [m \in Models |-> status'[m]] /\ ended' = [m \in Models |-> ended'[m]]
    BY <1>1 DEF DataTypes
  <2> QED  BY <1>1, <1>3, <2>1, <2>2, <2>3 DEF DataTypes
<1>6. ASSUME NEW u \in Threads PROVE Stage(u)'
  <2>1. CASE u = t
    <3>1. at'[t] = l /\ run'[t] = NoRun  BY <1>1 DEF DataTypes
    <3>2. Trains(t)' = (prog[t][nth[t] + 1].do = "train")  BY <1>1, <1>4 DEF Trains, Work
    <3>3. at'[t] \in {"get", "start", "entity"} /\ (at'[t] # "entity" => Trains(t)')
      BY <1>0, <3>1, <3>2
    <3>4. ~run'[t].ready /\ ~run'[t].rescue  BY <3>1 DEF NoRun
    <3> QED  BY <2>1, <3>3, <3>4 DEF Stage, Using, OfTraining, Dirs
  <2>2. CASE u # t
    <3>1. at'[u] = at[u] /\ run'[u] = run[u] /\ faults'[u] = faults[u]
      BY <1>1, <2>2 DEF DataTypes
    <3>2. Trains(u)' = Trains(u) /\ Mine(u)' = Mine(u)
      BY <1>1, <1>4, <2>2 DEF Trains, Mine, Work
    <3> QED  BY <1>1, <3>1, <3>2 DEF Stage
  <2> QED  BY <2>1, <2>2
<1> QED  BY <1>5, <1>6

\* A call that fails, or is interrupted, in a thread at work.
LEMMA RaiseStage ==
    ASSUME StageInv, NEW t \in Threads, Busy(t), at[t] # "entity", Raise(t), Shares,
           UNCHANGED <<prog, entity>>
    PROVE  StageInv'
<1> DEFINE r == [run[t] EXCEPT !.rescue = ~Outside(t)]
<1>1. /\ run[t] \in Runs /\ faults[t] \in Nat /\ Stage(t) /\ at[t] \in Labels
      /\ at' = [at EXCEPT ![t] = Raised(t)] /\ run' = [run EXCEPT ![t] = r]
      /\ faults' = [faults EXCEPT ![t] = faults[t] + 1] /\ nth' = nth
  BY DEF Raise, Goto, StageInv, DataTypes
<1>2. /\ r \in Runs /\ r.rescue = ~Outside(t) /\ r.ready = run[t].ready
  BY <1>1 DEF Runs, Outside, Trains
<1>3. Raised(t) = "save" => entity \in DOMAIN local
  <2>1. CASE at[t] \in Early \/ at[t] = "failed"
    BY <1>1, <2>1 DEF Raised, Stage, Outside
  <2>2. CASE at[t] \notin Early /\ at[t] # "failed"
    BY <1>1, <2>2 DEF Stage, Using, Dirs, OfTraining, Early, Busy, Labels
  <2> QED  BY <2>1, <2>2
<1>4. /\ Raised(t) \in {"raised", "save", "failed"}
      /\ Raised(t) # "raised" => Trains(t) /\ ~Outside(t)
  BY DEF Raised, Outside
<1>5. \E n \in Nat : faults' = [faults EXCEPT ![t] = n] /\ (r.rescue => n > 0)
  <2>1. faults[t] + 1 \in Nat /\ faults[t] + 1 > 0  BY <1>1
  <2> QED  BY <1>1, <2>1
<1>6. Goes(t, Raised(t), r)
  <2> HIDE DEF r
  <2> QED
    BY <1>1, <1>2, <1>3, <1>4, <1>5 DEF Goes, Labels, Over, Using, OfTraining, Dirs, Early
<1> QED  BY <1>6, GoesKeeps

LEMMA FailStage == ASSUME StageInv, NEW t \in Threads, Fail(t) PROVE StageInv'
<1>1. /\ weights' = weights /\ prog' = prog /\ entity' = entity
      /\ run[t] \in Runs /\ Id(t) \in DOMAIN local /\ Id(t) \in Threads \X Nat
  BY WorkKnown DEF Fail, adapter, StageInv, DataTypes, Busy
<1>2. [run[t].out EXCEPT !.by = Id(t)] \in Weights  BY <1>1 DEF Runs, Weights
<1>3. artifacts' \in [Models -> Weights]
  <2>1. artifacts \in [Models -> Weights]  BY DEF StageInv, DataTypes
  <2>2. Uploaded(t) \in [Models -> Weights]  BY <1>2, <2>1 DEF Uploaded
  <2>3. artifacts' = artifacts \/ artifacts' = Uploaded(t)  BY DEF Fail
  <2> QED  BY <2>1, <2>2, <2>3
<1>4. dir' \in [Paths -> Folders]  BY DEF Fail, StageInv, DataTypes
<1>5. status' = [m \in Models |-> status'[m]] /\ ended' = [m \in Models |-> ended'[m]]
  <2>1. status = [m \in Models |-> status[m]]  BY DEF StageInv, DataTypes
  <2>2. \/ status' = status
        \/ status' = [status EXCEPT ![Mine(t)] = Labelled(t)]
        \/ status' = [status EXCEPT ![Destination(t)] = local[entity]]
    BY DEF Fail
  <2>3. ended' = [m \in Models |-> ended'[m]]  BY DEF Fail, Misled
  <2> QED  BY <2>1, <2>2, <2>3
<1>6. local' = [id \in DOMAIN local |-> local'[id]] /\ DOMAIN local' = DOMAIN local
  <2>1. local = [id \in DOMAIN local |-> local[id]]  BY DEF StageInv, DataTypes
  <2>2. local' = local \/ local' = [local EXCEPT ![Id(t)] = Labelled(t)]  BY DEF Fail
  <2> QED  BY <2>1, <2>2
<1>7. Shares
  BY <1>1, <1>3, <1>4, <1>5, <1>6 DEF Shares, StageInv, DataTypes
<1> QED  BY <1>1, <1>7, RaiseStage DEF Fail

LEMMA KillEventStage == ASSUME StageInv, NEW t \in Threads, KillEvent(t) PROVE StageInv'
<1>1. Busy(t) /\ at[t] # "entity" /\ Raise(t)  BY DEF KillEvent, Busy, Over
<1>2. Shares /\ UNCHANGED <<prog, entity>>
  <2>1. ended' = [m \in Models |-> ended'[m]]  BY DEF KillEvent, EndsAs, StageInv, DataTypes
  <2> QED  BY <2>1 DEF KillEvent, adapter, platform, Shares, StageInv, DataTypes
<1> QED  BY <1>1, <1>2, RaiseStage

LEMMA KillStage == ASSUME StageInv, Kill PROVE StageInv'
<1> USE DEF StageInv
<1>1. PICK again \in BOOLEAN :
        /\ at' = [t \in Threads |->
                    IF ~Busy(t) THEN at[t] ELSE IF again THEN "idle" ELSE "killed"]
        /\ nth' = [t \in Threads |-> IF again /\ Busy(t) THEN nth[t] - 1 ELSE nth[t]]
  BY DEF Kill
<1>2. /\ run' = [t \in Threads |-> NoRun] /\ weights' = NoWeights
      /\ UNCHANGED <<prog, local, status, artifacts, dir, faults>>
  BY DEF Kill, platform
<1>3. ASSUME NEW t \in Threads
      PROVE  /\ at'[t] \in {"idle"} \cup Over
             /\ nth'[t] \in Nat /\ nth'[t] <= Len(prog[t])
             /\ at'[t] # "idle" => nth'[t] = nth[t] /\ nth[t] > 0 /\ Id(t) \in DOMAIN local
  <2>1. /\ at[t] \in Labels /\ nth[t] \in Nat /\ nth[t] <= Len(prog[t]) /\ Len(prog[t]) \in Nat
        /\ at[t] # "idle" => nth[t] > 0 /\ Id(t) \in DOMAIN local
    BY DEF DataTypes
  <2>2. CASE Busy(t)
    <3>1. at[t] # "idle" /\ at'[t] = IF again THEN "idle" ELSE "killed"  BY <1>1, <2>2 DEF Busy
    <3>2. nth'[t] = IF again THEN nth[t] - 1 ELSE nth[t]  BY <1>1, <2>2
    <3> QED  BY <2>1, <3>1, <3>2 DEF Over
  <2>3. CASE ~Busy(t)
    <3>1. at'[t] = at[t] /\ nth'[t] = nth[t]  BY <1>1, <2>3
    <3> QED  BY <2>1, <2>3, <3>1 DEF Busy
  <2> QED  BY <2>2, <2>3
<1>4. DataTypes'
  <2>1. nth' \in [Threads -> Nat]  BY <1>1, <1>3
  <2>2. at' \in [Threads -> Labels]  BY <1>1, <1>3 DEF Labels
  <2>3. run' \in [Threads -> Runs] /\ weights' \in Weights  BY <1>2, NoRunTyped
  <2>4. \A t \in Threads : nth'[t] <= Len(prog'[t])
                           /\ (at'[t] # "idle" => nth'[t] > 0 /\ Id(t)' \in DOMAIN local')
    BY <1>2, <1>3 DEF Id
  <2>5. DOMAIN local' \subseteq Ids' /\ status' = [m \in Models |-> status'[m]]
        /\ local' = [id \in DOMAIN local' |-> local'[id]] /\ ended' = [m \in Models |-> ended'[m]]
    BY <1>2 DEF DataTypes, Ids, Kill
  <2> QED  BY <1>2, <2>1, <2>2, <2>3, <2>4, <2>5 DEF DataTypes
<1>5. \A t \in Threads : Stage(t)'
  BY <1>2, <1>3 DEF Stage, Over, Using, OfTraining, Dirs, NoRun
<1> QED  BY <1>4, <1>5

LEMMA InitStage == Init => StageInv
<1> SUFFICES ASSUME NEW s \in Scenes, prog = s.prog, Init PROVE StageInv  BY DEF Init
<1>1. prog \in [Threads -> Seq(Works)]  BY TrainingAssumption DEF TrainingAssumption
<1>2. /\ at = [t \in Threads |-> "idle"] /\ nth = [t \in Threads |-> 0]
      /\ run = [t \in Threads |-> NoRun] /\ weights = NoWeights /\ local = <<>>
      /\ artifacts = [m \in Models |-> [NoWeights EXCEPT !.of = m]]
      /\ dir = [p \in Paths |-> NoDir] /\ status = [m \in Models |-> "created"]
      /\ ended = [m \in Models |-> "created"] /\ faults = [t \in Threads |-> 0]
  BY DEF Init, Paths
<1>3. artifacts \in [Models -> Weights]  BY <1>2 DEF NoWeights, NoPath, Weights
<1>4. DataTypes
  <2>1. local = [id \in DOMAIN local |-> local[id]] /\ DOMAIN local \subseteq Ids  BY <1>2
  <2>2. \A t \in Threads : nth[t] <= Len(prog[t])  BY <1>1, <1>2
  <2>3. NoDir \in Folders  BY DEF NoDir, Folders
  <2> QED  BY <1>1, <1>2, <1>3, <2>1, <2>2, <2>3, NoRunTyped DEF DataTypes, Labels
<1>5. \A t \in Threads : Stage(t)  BY <1>2 DEF Stage, Using, OfTraining, Dirs, NoRun
<1> QED  BY <1>4, <1>5 DEF StageInv

LEMMA NextStage == StageInv /\ [Next]_vars => StageInv'
<1> SUFFICES ASSUME StageInv, [Next]_vars PROVE StageInv'  OBVIOUS
<1>1. ASSUME UNCHANGED <<prog, thread, adapter, platform, dir, faults, ended>> PROVE StageInv'
  BY <1>1 DEF thread, adapter, platform, StageInv, DataTypes, Stage, Trains, Mine, Work, Id, Ids
<1>2. ASSUME NEW t \in Threads, Step(t) \/ Fail(t) \/ Decide(t) \/ KillEvent(t)
      PROVE  StageInv'
  BY <1>1, <1>2, StartStage, StepStage, FailStage, KillEventStage DEF Decide
<1>3. ASSUME NEW id \in due, Terminate(id) PROVE StageInv'  BY <1>1, <1>3 DEF Terminate
<1>4. CASE Kill  BY <1>4, KillStage
<1>5. CASE UNCHANGED vars  BY <1>1, <1>5 DEF vars
<1> QED  BY <1>2, <1>3, <1>4, <1>5 DEF Next

LEMMA StageAlways == Spec => []StageInv
<1> QED  BY InitStage, NextStage, PTL DEF Spec
-----------------------------------------------------------------------------
(* Whose work it is. *)

\* Weights of a model that were trained, if they were, on its own data.
OfOwn(w, m) == w.of = m /\ w.path \in {NoPath, <<m, m>>}

\* What an execution of a model works with where it shared the adapter with nobody: at
\* label l, with the locals r, the entity and the weights of the adapter.
OwnAt(l, r, e, w, id, m) ==
    /\ l \in Using => e = id
    /\ l \in Using \ {"load", "name"} => OfOwn(w, m)
    /\ l \in {"upload", "name"} => OfOwn(r.out, m)
    /\ l \in {"direct", "subset"} => r.data[1] = m
    /\ l \in Dirs => r.path = <<m, m>>
    /\ l = "download" => r.data = <<m, m>>

\* Whose execution shared the adapter with nobody finds there its own entity and, once
\* they are loaded, weights of its own model, and the data it asks for are its own.
OwnInv ==
    /\ \A t \in Threads :
          Id(t) \notin crossed => OwnAt(at[t], run[t], entity, weights, Id(t), Mine(t))
    /\ \A m \in Models :
          IF artifacts[m].by = <<None, 0>> THEN OfOwn(artifacts[m], m)
          ELSE artifacts[m].by \notin crossed =>
                  OfOwn(artifacts[m], m) /\ Work(artifacts[m].by).on = m
    /\ \A p \in predictions : p.by \notin crossed => p.of = Work(p.by).on /\ p.name = p.of

\* A step of thread t keeps OwnInv if it marks those it shares the adapter with when it
\* changes the adapter, and what it uploads is its own.
LEMMA OwnKept ==
    ASSUME StageInv, OwnInv, NEW t \in Threads, Busy(t), NEW l, NEW r,
           at' = [at EXCEPT ![t] = l], run' = [run EXCEPT ![t] = r], UNCHANGED <<prog, nth>>,
           crossed \subseteq crossed',
           UNCHANGED <<entity, weights>> \/ Sharing(t) \subseteq crossed',
           Id(t) \notin crossed' => OwnAt(l, r, entity', weights', Id(t), Mine(t)),
           \A m \in Models :
              \/ artifacts'[m] = artifacts[m]
              \/ /\ artifacts'[m].by = Id(t)
                 /\ Id(t) \notin crossed' => OfOwn(artifacts'[m], m) /\ Mine(t) = m,
           \A p \in predictions' :
              \/ p \in predictions
              \/ /\ p.by = Id(t)
                 /\ Id(t) \notin crossed' => p.of = Mine(t) /\ p.name = p.of
    PROVE  OwnInv'
<1>0. /\ at \in [Threads -> Labels] /\ run \in [Threads -> Runs] /\ nth[t] > 0
  BY DEF StageInv, DataTypes, Busy
<1>1. \A u \in Threads : Id(u)' = Id(u) /\ Mine(u)' = Mine(u)  BY DEF Id, Mine, Work
<1>2. ASSUME NEW u \in Threads, Id(u)' \notin crossed'
      PROVE  OwnAt(at'[u], run'[u], entity', weights', Id(u)', Mine(u)')
  <2>1. CASE u = t  BY <1>0, <1>1, <1>2, <2>1
  <2>2. CASE u # t
    <3>1. at'[u] = at[u] /\ run'[u] = run[u] /\ Id(u) \notin crossed  BY <1>0, <1>1, <1>2, <2>2
    <3>2. CASE UNCHANGED <<entity, weights>>  BY <1>1, <3>1, <3>2 DEF OwnInv
    <3>3. CASE Sharing(t) \subseteq crossed'
      <4>1. at[u] \notin Using
        BY <1>1, <1>2, <2>2, <3>3 DEF Sharing, Using, Dirs, Busy, Over
      <4> QED  BY <3>1, <4>1 DEF Using, Dirs, OwnAt
    <3> QED  BY <3>2, <3>3
  <2> QED  BY <2>1, <2>2
<1>3. ASSUME NEW m \in Models
      PROVE  IF artifacts'[m].by = <<None, 0>> THEN OfOwn(artifacts'[m], m)
             ELSE artifacts'[m].by \notin crossed'
                    => OfOwn(artifacts'[m], m) /\ Work(artifacts[m].by)'.on = m
  <2>1. CASE artifacts'[m] = artifacts[m]  BY <2>1 DEF OwnInv, Work, OfOwn
  <2>2. CASE artifacts'[m] # artifacts[m]
    <3>1. /\ artifacts'[m].by = Id(t)
          /\ Id(t) \notin crossed' => OfOwn(artifacts'[m], m) /\ Mine(t) = m
      BY <2>2
    <3>2. Id(t) # <<None, 0>>  BY <1>0 DEF Id
    <3>3. Work(artifacts[m].by)' = Work(Id(t))  BY <3>1 DEF Work
    <3> QED  BY <3>1, <3>2, <3>3 DEF Mine
  <2> QED  BY <2>1, <2>2
<1>4. ASSUME NEW p \in predictions', p.by \notin crossed'
      PROVE  p.of = Work(p.by)'.on /\ p.name = p.of
  <2>1. Work(p.by)' = Work(p.by)  BY DEF Work
  <2>2. CASE p \in predictions  BY <1>4, <2>1, <2>2 DEF OwnInv
  <2>3. CASE p.by = Id(t) /\ (Id(t) \notin crossed' => p.of = Mine(t) /\ p.name = p.of)
    BY <1>4, <2>1, <2>3 DEF Mine
  <2> QED  BY <2>2, <2>3
<1>5. \A p \in predictions' : Work(p.by)' = Work(p.by)  BY DEF Work
<1> QED  BY <1>2, <1>3, <1>4, <1>5 DEF OwnInv, OwnAt, OfOwn

LEMMA StartOwn == ASSUME StageInv, OwnInv, NEW t \in Threads, Start(t) PROVE OwnInv'
<1>1. /\ nth' = [nth EXCEPT ![t] = @ + 1] /\ run' = [run EXCEPT ![t] = NoRun]
      /\ \E l \in {"get", "start", "entity"} : at' = [at EXCEPT ![t] = l]
      /\ UNCHANGED <<prog, entity, weights, artifacts, predictions, crossed>>
  BY DEF Start, adapter
<1>2. ASSUME NEW u \in Threads, at'[u] \in Using
      PROVE  at'[u] = at[u] /\ run'[u] = run[u] /\ Id(u)' = Id(u) /\ Mine(u)' = Mine(u)
  BY <1>1, <1>2 DEF StageInv, DataTypes, Using, Dirs, Id, Mine, Work
<1>3. ASSUME NEW u \in Threads, Id(u)' \notin crossed'
      PROVE  OwnAt(at'[u], run'[u], entity', weights', Id(u)', Mine(u)')
  <2>1. CASE at'[u] \in Using  BY <1>1, <1>2, <1>3, <2>1 DEF OwnInv
  <2>2. CASE at'[u] \notin Using  BY <2>2 DEF OwnAt, Using, Dirs
  <2> QED  BY <2>1, <2>2
<1>4. \A m \in Models : Work(artifacts[m].by)' = Work(artifacts[m].by)  BY <1>1 DEF Work
<1>5. \A p \in predictions : Work(p.by)' = Work(p.by)  BY <1>1 DEF Work
<1> QED  BY <1>1, <1>3, <1>4, <1>5 DEF OwnInv, OwnAt, OfOwn

LEMMA StepOwn ==
    ASSUME StageInv, OwnInv, NEW t \in Threads, Step(t), ~Start(t) PROVE OwnInv'
<1> USE DEF Goto, platform, runner, adapter
<1>0. /\ Busy(t) /\ Stage(t) /\ run[t] \in Runs /\ run = [run EXCEPT ![t] = run[t]]
      /\ weights \in Weights /\ artifacts \in [Models -> Weights]
      /\ Id(t) \in DOMAIN local /\ Mine(t) \in Models
  <2>1. Busy(t)  BY StepBusy
  <2>2. Id(t) \in DOMAIN local  BY <2>1 DEF StageInv, DataTypes, Busy
  <2> QED  BY <2>1, <2>2, WorkKnown DEF StageInv, DataTypes, Mine
<1>1. Id(t) \notin crossed => OwnAt(at[t], run[t], entity, weights, Id(t), Mine(t))
  BY DEF OwnInv
<1>2. CASE GetModel(t) \/ Update(t)
  <2>1. PICK l \in {"start", "entity", "returned", "raised"} : at' = [at EXCEPT ![t] = l]
    BY <1>2 DEF GetModel, Update, After
  <2>2. UNCHANGED <<prog, nth, run, entity, weights, artifacts, predictions, crossed>>
    BY <1>2 DEF GetModel, Update
  <2>3. OwnAt(l, run[t], entity, weights, Id(t), Mine(t))  BY <2>1 DEF OwnAt, Using, Dirs
  <2> QED  BY <1>0, <2>1, <2>2, <2>3, OwnKept
<1>3. CASE SetEntity(t)
  <2>1. /\ at' = [at EXCEPT ![t] = "load"] /\ entity' = Id(t) /\ Sharing(t) \subseteq crossed'
        /\ crossed \subseteq crossed' /\ UNCHANGED <<prog, nth, run, artifacts, predictions>>
    BY <1>3 DEF SetEntity, CrossesOthers
  <2>2. OwnAt("load", run[t], Id(t), weights', Id(t), Mine(t))  BY DEF OwnAt, Dirs
  <2> QED  BY <1>0, <2>1, <2>2, OwnKept
<1>4. CASE Load(t)
  <2>1. /\ Sharing(t) \subseteq crossed' /\ crossed \subseteq crossed'
        /\ UNCHANGED <<prog, nth, run, entity, artifacts, predictions>>
    BY <1>4 DEF Load
  <2>2. PICK l \in {"prepare", "predict"} : at' = [at EXCEPT ![t] = l]  BY <1>4 DEF Load
  <2>3. ASSUME Id(t) \notin crossed' 
        PROVE  OwnAt(l, run[t], entity', weights', Id(t), Mine(t))
    <3>1. entity = Id(t) /\ artifacts[Mine(t)].by \notin crossed
      BY <1>1, <1>4, <2>1, <2>3 DEF Load, OwnAt, Using, Mine
    <3>2. OfOwn(artifacts[Mine(t)], Mine(t))  BY <1>0, <3>1 DEF OwnInv
    <3>3. entity' = Id(t) /\ weights' = artifacts[Mine(t)]
      BY <1>4, <2>1, <3>1 DEF Load, Loaded, Mine
    <3> QED  BY <2>2, <3>2, <3>3 DEF OwnAt, Using, Dirs
  <2> QED  BY <1>0, <2>1, <2>2, <2>3, OwnKept
<1>5. CASE Pass(t) \/ Direct(t) \/ Prepare(t)
  <2>1. /\ at[t] \in {"prepare", "direct", "subset"}
        /\ UNCHANGED <<prog, nth, entity, weights, artifacts, predictions, crossed>>
    BY <1>5 DEF Pass, Direct, Prepare
  <2>2. Id(t) \notin crossed =>
          entity = Id(t) /\ Work(entity).on = Mine(t) /\ OfOwn(weights, Mine(t))
    BY <1>1, <2>1 DEF OwnAt, Using, Dirs, Mine
  <2>3. run[t].data = <<run[t].data[1], run[t].data[2]>> /\ run[t].data \in Data
    BY <1>0 DEF Runs, Data
  <2>4. CASE Pass(t)
    <3> DEFINE r == [run[t] EXCEPT !.data = <<Work(entity).on, @[2]>>]
    <3>1. at' = [at EXCEPT ![t] = "direct"] /\ run' = [run EXCEPT ![t] = r]
      BY <1>0, <2>4 DEF Pass
    <3>2. r.data[1] = Work(entity).on  BY <1>0 DEF Runs
    <3> HIDE DEF r
    <3>3. Id(t) \notin crossed => OwnAt("direct", r, entity, weights, Id(t), Mine(t))
      BY <2>2, <3>2 DEF OwnAt, Dirs
    <3> QED  BY <1>0, <2>1, <3>1, <3>3, OwnKept
  <2>5. CASE Direct(t)
    <3> DEFINE r == [run[t] EXCEPT !.path = Target(t)]
    <3>1. /\ at[t] = "direct" /\ at' = [at EXCEPT ![t] = "subset"]
          /\ run' = [run EXCEPT ![t] = r]
      BY <1>0, <2>5 DEF Direct
    <3>2. r.data = run[t].data /\ r.path = Target(t)  BY <1>0 DEF Runs
    <3> HIDE DEF r
    <3>3. Id(t) \notin crossed => OwnAt("subset", r, entity, weights, Id(t), Mine(t))
      BY <1>1, <2>2, <3>1, <3>2 DEF OwnAt, Target
    <3> QED  BY <1>0, <2>1, <3>1, <3>3, OwnKept
  <2>6. CASE Prepare(t)
    <3> DEFINE r == [run[t] EXCEPT !.data = <<@[1], Work(entity).on>>]
    <3>1. at[t] = "subset" /\ run' = [run EXCEPT ![t] = r]  BY <1>0, <2>6 DEF Prepare
    <3>2. PICK l \in {"download", "convert"} : at' = [at EXCEPT ![t] = l]  BY <2>6 DEF Prepare
    <3>3. r.data = <<run[t].data[1], Work(entity).on>> /\ r.path = run[t].path
      BY <1>0 DEF Runs
    <3> HIDE DEF r
    <3>4. Id(t) \notin crossed => OwnAt(l, r, entity, weights, Id(t), Mine(t))
      BY <1>1, <2>2, <3>1, <3>2, <3>3 DEF OwnAt, Using, Dirs
    <3> QED  BY <1>0, <2>1, <3>1, <3>2, <3>4, OwnKept
  <2> QED  BY <1>5, <2>4, <2>5, <2>6
<1>6. CASE Download(t) \/ Fill(t) \/ Convert(t)
  <2>1. PICK l \in {"fill", "convert", "train"} : at' = [at EXCEPT ![t] = l]
    BY <1>6 DEF Download, Fill, Convert
  <2>2. PICK r \in Runs : run' = [run EXCEPT ![t] = r] /\ r.path = run[t].path
    <3>1. [run[t] EXCEPT !.ready = TRUE] \in Runs /\ [run[t] EXCEPT !.ready = TRUE].path = run[t].path
      BY <1>0 DEF Runs
    <3>2. run' = run \/ run' = [run EXCEPT ![t] = [run[t] EXCEPT !.ready = TRUE]]
      BY <1>0, <1>6 DEF Download, Fill, Convert
    <3> QED  BY <1>0, <3>1, <3>2
  <2>3. /\ at[t] \in {"download", "fill", "convert"}
        /\ UNCHANGED <<prog, nth, entity, weights, artifacts, predictions, crossed>>
    BY <1>6 DEF Download, Fill, Convert
  <2>4. Id(t) \notin crossed => OwnAt(l, r, entity, weights, Id(t), Mine(t))
    BY <1>1, <2>1, <2>2, <2>3 DEF OwnAt, Using, Dirs
  <2> QED  BY <1>0, <2>1, <2>2, <2>3, <2>4, OwnKept
<1>10. CASE Train(t)
  <2>1. /\ Sharing(t) \subseteq crossed' /\ crossed \subseteq crossed'
        /\ at[t] = "train" /\ at' = [at EXCEPT ![t] = "save"]
        /\ weights'.of = weights.of /\ weights'.path = run[t].path
        /\ UNCHANGED <<prog, nth, run, entity, artifacts, predictions>>
    BY <1>0, <1>10 DEF Train, CrossesOthers, Weights
  <2>2. Id(t) \notin crossed' => OwnAt("save", run[t], entity, weights', Id(t), Mine(t))
    BY <1>1, <2>1 DEF OwnAt, OfOwn, Using, Dirs
  <2> QED  BY <1>0, <2>1, <2>2, OwnKept
<1>7. CASE Save(t) \/ Predict(t)
  <2> DEFINE r == [run[t] EXCEPT !.out = weights]
  <2>1. PICK l \in {"upload", "name"} : at' = [at EXCEPT ![t] = l]  BY <1>7 DEF Save, Predict
  <2>2. /\ at[t] \in {"save", "predict"} /\ run' = [run EXCEPT ![t] = r] /\ r.out = weights
        /\ UNCHANGED <<prog, nth, entity, weights, artifacts, predictions, crossed>>
    BY <1>0, <1>7 DEF Save, Predict, Runs
  <2> HIDE DEF r
  <2>3. Id(t) \notin crossed => OwnAt(l, r, entity, weights, Id(t), Mine(t))
    BY <1>1, <2>1, <2>2 DEF OwnAt, Using, Dirs
  <2> QED  BY <1>0, <2>1, <2>2, <2>3, OwnKept
<1>8. CASE Upload(t)
  <2>1. PICK l \in {"failed", "trained"} : at' = [at EXCEPT ![t] = l]  BY <1>8 DEF Upload
  <2>2. /\ at[t] = "upload" /\ artifacts' = Uploaded(t)
        /\ UNCHANGED <<prog, nth, run, entity, weights, predictions, crossed>>
    BY <1>8 DEF Upload
  <2>3. \A m \in Models :
          \/ artifacts'[m] = artifacts[m]
          \/ /\ artifacts'[m].by = Id(t)
             /\ Id(t) \notin crossed' => OfOwn(artifacts'[m], m) /\ Mine(t) = m
    <3>1. ASSUME NEW m \in Models, artifacts'[m] # artifacts[m]
          PROVE  m = Work(entity).on /\ artifacts'[m] = [run[t].out EXCEPT !.by = Id(t)]
      BY <1>0, <2>2, <3>1 DEF Uploaded, Destination
    <3>2. LET w == [run[t].out EXCEPT !.by = Id(t)]
          IN w.by = Id(t) /\ w.of = run[t].out.of /\ w.path = run[t].out.path
      BY <1>0 DEF Runs, Weights
    <3>3. Id(t) \notin crossed => entity = Id(t) /\ OfOwn(run[t].out, Mine(t))
      BY <1>1, <2>2 DEF OwnAt, Using
    <3> QED  BY <2>2, <3>1, <3>2, <3>3 DEF OfOwn, Mine
  <2>4. Id(t) \notin crossed => OwnAt(l, run[t], entity, weights, Id(t), Mine(t))
    BY <1>1, <2>1, <2>2 DEF OwnAt, Using, Dirs
  <2> QED  BY <1>0, <2>1, <2>2, <2>3, <2>4, OwnKept
<1>9. CASE Name(t)
  <2>1. /\ at[t] = "name" /\ at' = [at EXCEPT ![t] = "returned"]
        /\ UNCHANGED <<prog, nth, run, entity, weights, artifacts, crossed>>
    BY <1>9 DEF Name
  <2>2. predictions' = predictions \cup {[by |-> Id(t), of |-> run[t].out.of, name |-> Work(entity).on]}
    BY <1>9 DEF Name
  <2>3. Id(t) \notin crossed' => run[t].out.of = Mine(t) /\ Work(entity).on = Mine(t)
    BY <1>1, <2>1 DEF OwnAt, OfOwn, Using, Mine
  <2>4. ASSUME NEW p \in predictions', p \notin predictions
        PROVE  p.by = Id(t) /\ (Id(t) \notin crossed' => p.of = Mine(t) /\ p.name = p.of)
    BY <2>2, <2>3, <2>4
  <2>5. OwnAt("returned", run[t], entity, weights, Id(t), Mine(t))  BY DEF OwnAt, Using, Dirs
  <2> QED  BY <1>0, <2>1, <2>4, <2>5, OwnKept
<1> QED  BY <1>2, <1>3, <1>4, <1>5, <1>6, <1>7, <1>8, <1>9, <1>10 DEF Step

LEMMA FailOwn ==
    ASSUME StageInv, OwnInv, NEW t \in Threads, Fail(t) \/ KillEvent(t) PROVE OwnInv'
<1> DEFINE r == [run[t] EXCEPT !.rescue = ~Outside(t)]
<1>0. /\ Busy(t) /\ Stage(t) /\ run[t] \in Runs /\ artifacts \in [Models -> Weights]
      /\ at[t] \in Labels /\ Id(t) \in DOMAIN local
  BY DEF Fail, KillEvent, Busy, Over, StageInv, DataTypes
<1>1. /\ at' = [at EXCEPT ![t] = Raised(t)] /\ run' = [run EXCEPT ![t] = r]
      /\ UNCHANGED <<prog, nth, entity, weights, predictions, crossed>>
      /\ artifacts' = artifacts \/ (artifacts' = Uploaded(t) /\ at[t] = "upload")
  BY DEF Fail, KillEvent, Raise, Goto, adapter, platform
<1>2. r.out = run[t].out  BY <1>0 DEF Runs
<1>3. Id(t) \notin crossed => OwnAt(at[t], run[t], entity, weights, Id(t), Mine(t))
  BY DEF OwnInv
<1>4. Raised(t) \in {"raised", "failed"} \/ (Raised(t) = "save" /\ at[t] \in Using \ {"load", "name"})
  BY <1>0 DEF Raised, Outside, Stage, Using, OfTraining, Early, Dirs, Busy, Over, Labels
<1>5. \A m \in Models :
        \/ artifacts'[m] = artifacts[m]
        \/ /\ artifacts'[m].by = Id(t)
           /\ Id(t) \notin crossed' => OfOwn(artifacts'[m], m) /\ Mine(t) = m
  <2>1. ASSUME NEW m \in Models, artifacts'[m] # artifacts[m]
        PROVE  m = Work(entity).on /\ artifacts'[m] = [run[t].out EXCEPT !.by = Id(t)]
               /\ at[t] = "upload"
    BY <1>0, <1>1, <2>1 DEF Uploaded, Destination
  <2>2. LET w == [run[t].out EXCEPT !.by = Id(t)]
        IN w.by = Id(t) /\ w.of = run[t].out.of /\ w.path = run[t].out.path
    BY <1>0 DEF Runs, Weights
  <2>3. Id(t) \notin crossed /\ at[t] = "upload" => entity = Id(t) /\ OfOwn(run[t].out, Mine(t))
    BY <1>3 DEF OwnAt, Using
  <2> QED  BY <1>1, <2>1, <2>2, <2>3 DEF OfOwn, Mine
<1> HIDE DEF r
<1>6. Id(t) \notin crossed => OwnAt(Raised(t), r, entity, weights, Id(t), Mine(t))
  BY <1>3, <1>4 DEF OwnAt, Using, Dirs
<1> QED  BY <1>0, <1>1, <1>5, <1>6, OwnKept

LEMMA NextOwn == StageInv /\ OwnInv /\ [Next]_vars => OwnInv'
<1> SUFFICES ASSUME StageInv, OwnInv, [Next]_vars PROVE OwnInv'  OBVIOUS
<1>1. ASSUME UNCHANGED <<prog, thread, adapter, platform, crossed>> PROVE OwnInv'
  BY <1>1, ZenonT(40) DEF thread, adapter, platform, OwnInv, OwnAt, OfOwn, Mine, Work, Id
<1>2. ASSUME NEW t \in Threads, Step(t) \/ Fail(t) \/ Decide(t) \/ KillEvent(t)
      PROVE  OwnInv'
  BY <1>1, <1>2, StartOwn, StepOwn, FailOwn DEF Decide
<1>3. ASSUME NEW id \in due, Terminate(id) PROVE OwnInv'  BY <1>1, <1>3 DEF Terminate
<1>4. CASE Kill
  <2>1. \A t \in Threads : at'[t] \notin Using  BY <1>4 DEF Kill, Busy, Over, Using, Dirs
  <2>2. UNCHANGED <<prog, artifacts, predictions, crossed>>  BY <1>4 DEF Kill, platform
  <2> QED  BY <2>1, <2>2 DEF OwnInv, OwnAt, OfOwn, Work, Using, Dirs
<1>5. CASE UNCHANGED vars  BY <1>1, <1>5 DEF vars
<1> QED  BY <1>2, <1>3, <1>4, <1>5 DEF Next

LEMMA InitOwn == Init => OwnInv
<1> SUFFICES ASSUME Init PROVE OwnInv  OBVIOUS
<1>1. /\ artifacts = [m \in Models |-> [NoWeights EXCEPT !.of = m]] /\ predictions = {}
      /\ at = [t \in Threads |-> "idle"]
  BY DEF Init
<1>2. \A m \in Models : artifacts[m].by = <<None, 0>> /\ OfOwn(artifacts[m], m)
  BY <1>1 DEF NoWeights, OfOwn, NoPath
<1> QED  BY <1>1, <1>2 DEF OwnInv, OwnAt, Using, Dirs

\* What an execution uploads is of its own model, unless others used the adapter meanwhile
\* or had used it for what it loaded (base_model_adapter.py:272, 307, 633).
THEOREM TrainingOwnWork == Spec => []OwnWork
<1>1. OwnInv => OwnWork
  <2> SUFFICES ASSUME OwnInv PROVE OwnWork  OBVIOUS
  <2>1. ASSUME NEW m \in Models, artifacts[m].by[1] # None
        PROVE  artifacts[m].by # <<None, 0>>
    BY <2>1
  <2> QED  BY <2>1 DEF OwnInv, OfOwn, OwnWork
<1> QED  BY <1>1, InitOwn, NextOwn, StageAlways, PTL DEF Spec
-----------------------------------------------------------------------------
(* The data of the weights. *)

\* Weights that were trained, on all the data of their directory, or on one that is torn or
\* of two models.
Sound(w) == w.path # NoPath => w.full \/ w.path \in torn \/ w.path[1] # w.path[2]

\* A directory that exists holds data, and that of one model its own unless it is torn.
Filed ==
    \A p \in Paths : /\ dir[p].is # "none" => dir[p].of # {}
                     /\ p[1] = p[2] => p \in torn \/ dir[p].of \subseteq {p}

\* A directory that is half filled is torn or still being filled, and who trains has data
\* that are whole or torn.
DataInv ==
    /\ Sound(weights) /\ \A t \in Threads : Sound(run[t].out)
    /\ \A m \in Models : Sound(artifacts[m])
    /\ Filed
    /\ \A p \in Paths :
          dir[p].is = "part" => p \in torn \/ \E t \in Threads : at[t] = "fill" /\ run[t].path = p
    /\ \A t \in Threads :
          /\ at[t] = "fill" => dir[run[t].path].is # "none"
          /\ at[t] \in {"convert", "train"} => dir[run[t].path].is = "whole" \/ run[t].path \in torn

\* A step of thread t keeps DataInv if what it leaves is sound, and the directory it filled
\* is filled or torn.
LEMMA DataKept ==
    ASSUME StageInv, DataInv, NEW t \in Threads, NEW l, NEW r,
           at' = [at EXCEPT ![t] = l], run' = [run EXCEPT ![t] = r], torn \subseteq torn',
           Sound(weights)', r.out.path = NoPath \/ r.out = run[t].out \/ r.out = weights,
           \A m \in Models : Sound(artifacts[m])',
           Filed',
           \A p \in Paths :
              /\ dir[p].is # "none" => dir'[p].is # "none"
              /\ dir[p].is = "whole" => dir'[p].is = "whole"
              /\ dir'[p].is = "part" =>
                    dir[p].is = "part" \/ (l = "fill" /\ r.path = p),
           at[t] = "fill" => dir'[run[t].path].is # "part" \/ run[t].path \in torn',
           l = "fill" => dir'[r.path].is # "none",
           l \in {"convert", "train"} => dir'[r.path].is = "whole" \/ r.path \in torn'
    PROVE  DataInv'
<1>0. at \in [Threads -> Labels] /\ run \in [Threads -> Runs]  BY DEF StageInv, DataTypes
<1>1. \A u \in Threads : /\ u = t => at'[u] = l /\ run'[u] = r
                         /\ u # t => at'[u] = at[u] /\ run'[u] = run[u]
  BY <1>0
<1>2. ASSUME NEW u \in Threads PROVE Sound(run[u].out)'
  BY <1>1 DEF DataInv, Sound
<1>3. ASSUME NEW p \in Paths, dir'[p].is = "part", p \notin torn'
      PROVE  \E u \in Threads : at'[u] = "fill" /\ run'[u].path = p
  <2>1. CASE l = "fill" /\ r.path = p  BY <1>1, <2>1
  <2>2. CASE dir[p].is = "part"
    <3>1. PICK u \in Threads : at[u] = "fill" /\ run[u].path = p  BY <1>3, <2>2 DEF DataInv
    <3> QED  BY <1>1, <1>3, <3>1
  <2> QED  BY <1>3, <2>1, <2>2
<1>4. ASSUME NEW u \in Threads
      PROVE  /\ at'[u] = "fill" => dir'[run'[u].path].is # "none"
             /\ at'[u] \in {"convert", "train"} =>
                   dir'[run'[u].path].is = "whole" \/ run'[u].path \in torn'
  <2>1. CASE u = t  BY <1>1, <2>1
  <2>2. CASE u # t /\ at[u] \in {"fill", "convert", "train"}
    <3>1. at'[u] = at[u] /\ run'[u] = run[u] /\ run[u].path \in Paths
      BY <1>1, <2>2 DEF StageInv, Stage, Dirs
    <3> QED  BY <2>2, <3>1 DEF DataInv
  <2>3. CASE u # t /\ at[u] \notin {"fill", "convert", "train"}  BY <1>1, <2>3
  <2> QED  BY <2>1, <2>2, <2>3
<1> QED  BY <1>2, <1>3, <1>4 DEF DataInv

\* A step that leaves the directories alone.
LEMMA DataLeft ==
    ASSUME StageInv, DataInv, NEW t \in Threads, NEW l, NEW r,
           at' = [at EXCEPT ![t] = l], run' = [run EXCEPT ![t] = r], torn \subseteq torn',
           dir' = dir, l # "fill", at[t] = "fill" => run[t].path \in torn',
           Sound(weights)', r.out.path = NoPath \/ r.out = run[t].out \/ r.out = weights,
           \A m \in Models : Sound(artifacts[m])',
           l \in {"convert", "train"} => dir[r.path].is = "whole" \/ r.path \in torn'
    PROVE  DataInv'
<1>1. Filed'  BY DEF DataInv, Filed
<1> QED  BY <1>1, DataKept

LEMMA StepData ==
    ASSUME StageInv, OwnInv, DataInv, NEW t \in Threads, Step(t) PROVE DataInv'
<1> USE DEF Goto, platform, runner, adapter
<1>0. /\ at \in [Threads -> Labels] /\ run \in [Threads -> Runs] /\ run = [run EXCEPT ![t] = run[t]]
      /\ Sound(weights) /\ Sound(run[t].out) /\ \A m \in Models : Sound(artifacts[m])
      /\ dir \in [Paths -> Folders] /\ run[t] \in Runs /\ Stage(t)
      /\ weights \in Weights /\ artifacts \in [Models -> Weights]
  BY DEF StageInv, DataTypes, DataInv
<1>1. at[t] \in Using => Work(entity).on \in Models  BY WorkKnown DEF StageInv, Stage
<1>2. CASE Start(t)
  <2>1. PICK l \in {"get", "start", "entity"} : at' = [at EXCEPT ![t] = l]  BY <1>2 DEF Start
  <2>2. at[t] # "fill" /\ run' = [run EXCEPT ![t] = NoRun]
    BY <1>2 DEF Start, Busy, Over
  <2>3. UNCHANGED <<weights, artifacts, dir, torn>>  BY <1>2 DEF Start
  <2>4. NoRun.out.path = NoPath  BY DEF NoRun, NoWeights, NoPath
  <2> QED  BY <1>0, <2>1, <2>2, <2>3, <2>4, DataLeft DEF Sound
<1>3. CASE GetModel(t) \/ Update(t) \/ SetEntity(t) \/ Name(t)
  <2>1. PICK l \in {"start", "entity", "returned", "raised", "load"} : at' = [at EXCEPT ![t] = l]
    BY <1>3 DEF GetModel, Update, After, SetEntity, Name
  <2>2. at[t] # "fill" /\ UNCHANGED <<run, weights, artifacts, dir, torn>>
    BY <1>3 DEF GetModel, Update, SetEntity, Name
  <2> QED  BY <1>0, <2>1, <2>2, DataLeft DEF Sound
<1>4. CASE Load(t)
  <2>1. PICK l \in {"prepare", "predict"} : at' = [at EXCEPT ![t] = l]  BY <1>4 DEF Load
  <2>2. at[t] = "load" /\ UNCHANGED <<run, artifacts, dir, torn>>  BY <1>4 DEF Load
  <2>3. Sound(weights)'  BY <1>0, <1>1, <1>4, <2>2 DEF Load, Loaded, Sound, Using
  <2> QED  BY <1>0, <2>1, <2>2, <2>3, DataLeft, ZenonT(40) DEF Sound
<1>5. CASE Pass(t) \/ Direct(t)
  <2>1. at[t] # "fill" /\ UNCHANGED <<weights, artifacts, dir, torn>>  BY <1>5 DEF Pass, Direct
  <2>2. PICK l \in {"direct", "subset"} : at' = [at EXCEPT ![t] = l]  BY <1>5 DEF Pass, Direct
  <2>3. PICK r \in Runs : run' = [run EXCEPT ![t] = r] /\ r.out = run[t].out
    <3>1. at[t] \in Using  BY <1>5 DEF Pass, Direct, Using, Dirs
    <3>2. run'[t] \in Runs  BY StepStage, <1>5 DEF StageInv, DataTypes, Step, Start, Pass, Direct, Busy, Over
    <3>3. run'[t].out = run[t].out /\ run' = [run EXCEPT ![t] = run'[t]]
      BY <1>0, <1>5 DEF Pass, Direct, Runs
    <3> QED  BY <3>2, <3>3
  <2> QED  BY <1>0, <2>1, <2>2, <2>3, DataLeft DEF Sound
<1>6. CASE Prepare(t)
  <2> DEFINE r == [run[t] EXCEPT !.data = <<@[1], Work(entity).on>>]
             l == IF Missing(t) THEN "download" ELSE "convert"
  <2>1. /\ at[t] = "subset" /\ at' = [at EXCEPT ![t] = l] /\ run' = [run EXCEPT ![t] = r]
        /\ torn' = IF Missing(t) THEN torn ELSE torn \cup ({run[t].path} \cap FilledBy(t))
        /\ UNCHANGED <<dir, weights, artifacts>>
    BY <1>0, <1>6 DEF Prepare
  <2>2. r.path = run[t].path /\ r.out = run[t].out /\ run[t].path \in Paths
    BY <1>0, <2>1 DEF Runs, Stage, Dirs
  <2>3. l \in {"convert", "train"} => dir[r.path].is = "whole" \/ r.path \in torn'
    <3>1. CASE dir[run[t].path].is = "part" /\ run[t].path \notin torn
      <4>1. PICK u \in Threads : at[u] = "fill" /\ run[u].path = run[t].path
        BY <2>2, <3>1 DEF DataInv
      <4>2. u # t  BY <2>1, <4>1
      <4> QED  BY <2>1, <2>2, <3>1, <4>1, <4>2 DEF FilledBy, Missing
    <3> QED  BY <1>0, <2>1, <2>2, <3>1 DEF Missing, Folders
  <2>4. torn \subseteq torn' /\ l # "fill"  BY <2>1
  <2> HIDE DEF r, l
  <2> QED  BY <1>0, <2>1, <2>2, <2>3, <2>4, DataLeft DEF Sound
<1>7. CASE Download(t)
  <2> DEFINE p == run[t].path
             d == [is |-> IF dir[p].is = "none" THEN "part" ELSE dir[p].is,
                   of |-> dir[p].of \cup {run[t].data}]
  <2>1. /\ at[t] = "download" /\ at' = [at EXCEPT ![t] = "fill"]
        /\ UNCHANGED <<run, weights, artifacts>>
        /\ torn' = IF Id(t) \in crossed THEN torn \cup {p} ELSE torn
    BY <1>7 DEF Download
  <2>2. p \in Paths /\ dir[p] \in Folders  BY <1>0, <2>1 DEF Stage, Dirs
  <2>3. dir' = [dir EXCEPT ![p] = d]  BY <1>0, <1>7, <2>2 DEF Download
  <2>4. d.is \in {"part", "whole"} /\ (dir[p].is # "none" => d.is = dir[p].is)
        /\ d.of = dir[p].of \cup {run[t].data}
    BY <2>2 DEF Folders
  <2>5. ASSUME p \notin torn' PROVE run[t].data = p
    <3>1. OwnAt(at[t], run[t], entity, weights, Id(t), Mine(t))  BY <2>1, <2>5 DEF OwnInv
    <3> QED  BY <2>1, <3>1 DEF OwnAt, Dirs
  <2> HIDE DEF p, d
  <2>6. dir'[p] = d /\ \A q \in Paths : q # p => dir'[q] = dir[q]  BY <1>0, <2>2, <2>3
  <2>7. ASSUME NEW q \in Paths
        PROVE  /\ dir'[q].is # "none" => dir'[q].of # {}
               /\ q[1] = q[2] => q \in torn' \/ dir'[q].of \subseteq {q}
    <3>1. torn \subseteq torn'  BY <2>1
    <3>2. CASE q = p  BY <2>4, <2>5, <2>6, <3>1, <3>2 DEF DataInv, Filed
    <3>3. CASE q # p  BY <2>6, <3>1, <3>3 DEF DataInv, Filed
    <3> QED  BY <3>2, <3>3
  <2>8. Filed'  BY <2>7 DEF Filed
  <2>9. \A q \in Paths :
           /\ dir[q].is # "none" => dir'[q].is # "none"
           /\ dir[q].is = "whole" => dir'[q].is = "whole"
           /\ dir'[q].is = "part" => dir[q].is = "part" \/ ("fill" = "fill" /\ run[t].path = q)
    BY <2>4, <2>6 DEF p
  <2>10. dir'[run[t].path].is # "none"  BY <2>4, <2>6 DEF p
  <2>11. torn \subseteq torn' /\ at[t] # "fill"  BY <2>1
  <2>12. Sound(weights)' /\ \A m \in Models : Sound(artifacts[m])'  BY <1>0, <2>1, <2>11 DEF Sound
  <2>13. run' = [run EXCEPT ![t] = run[t]]  BY <1>0, <2>1
  <2>14. at' = [at EXCEPT ![t] = "fill"] /\ "fill" \notin {"convert", "train"}  BY <2>1
  <2> QED  BY <2>8, <2>9, <2>10, <2>11, <2>12, <2>13, <2>14, DataKept
<1>8. CASE Fill(t)
  <2> DEFINE p == run[t].path
  <2>1. /\ at[t] = "fill" /\ at' = [at EXCEPT ![t] = "convert"]
        /\ UNCHANGED <<run, weights, artifacts>> /\ torn \subseteq torn'
    BY <1>8 DEF Fill
  <2>2. p \in Paths /\ dir[p] \in Folders /\ dir[p].is # "none"
    BY <1>0, <2>1 DEF Stage, Dirs, DataInv
  <2>3. CASE dir' = dir /\ p \in torn'
    BY <1>0, <2>1, <2>3, DataLeft DEF Sound
  <2>4. CASE dir' = [dir EXCEPT ![p].is = "whole"]
    <3>1. dir'[p].is = "whole" /\ dir'[p].of = dir[p].of /\ \A q \in Paths : q # p => dir'[q] = dir[q]
      BY <1>0, <2>2, <2>4 DEF Folders
    <3> HIDE DEF p
    <3>2. Filed'  BY <2>1, <2>2, <3>1 DEF DataInv, Filed
    <3>3. \A q \in Paths :
             /\ dir[q].is # "none" => dir'[q].is # "none"
             /\ dir[q].is = "whole" => dir'[q].is = "whole"
             /\ dir'[q].is = "part" =>
                   dir[q].is = "part" \/ ("convert" = "fill" /\ run[t].path = q)
      BY <3>1
    <3>4. dir'[run[t].path].is = "whole"  BY <3>1 DEF p
    <3>5. Sound(weights)' /\ \A m \in Models : Sound(artifacts[m])'  BY <1>0, <2>1 DEF Sound
    <3> QED  BY <1>0, <2>1, <3>2, <3>3, <3>4, <3>5, DataKept
  <2> QED  BY <1>8, <2>3, <2>4 DEF Fill
<1>9. CASE Convert(t)
  <2> DEFINE r == [run[t] EXCEPT !.ready = TRUE]
  <2>1. /\ at[t] = "convert" /\ at' = [at EXCEPT ![t] = "train"] /\ run' = [run EXCEPT ![t] = r]
        /\ UNCHANGED <<dir, torn, weights, artifacts>>
    BY <1>0, <1>9 DEF Convert
  <2>2. r.path = run[t].path /\ r.out = run[t].out  BY <1>0 DEF Runs
  <2>3. dir[r.path].is = "whole" \/ r.path \in torn  BY <2>1, <2>2 DEF DataInv
  <2> HIDE DEF r
  <2> QED  BY <1>0, <2>1, <2>2, <2>3, DataLeft DEF Sound
<1>10. CASE Train(t)
  <2> DEFINE p == run[t].path
  <2>1. /\ at[t] = "train" /\ at' = [at EXCEPT ![t] = "save"]
        /\ UNCHANGED <<run, artifacts, dir, torn>>
    BY <1>10 DEF Train
  <2>2. weights'.path = p /\ weights'.full = AllOf(dir[p], p[1])
    BY <1>0, <1>10 DEF Train, Weights
  <2>3. p \in Paths /\ dir[p] \in Folders /\ p = <<p[1], p[2]>>
    BY <1>0, <2>1 DEF Stage, Dirs, Paths
  <2>4. ASSUME p \notin torn, p[1] = p[2] PROVE AllOf(dir[p], p[1])
    <3>1. dir[p].is = "whole"  BY <2>1, <2>4 DEF DataInv
    <3>2. dir[p].of = {p}  BY <2>3, <2>4, <3>1 DEF DataInv, Filed
    <3> QED  BY <2>3, <2>4, <3>1, <3>2 DEF AllOf, DataOf
  <2>5. Sound(weights)'
    <3> HIDE DEF p
    <3> QED  BY <2>1, <2>2, <2>4 DEF Sound
  <2> QED  BY <1>0, <2>1, <2>5, DataLeft, ZenonT(40) DEF Sound
<1>11. CASE Save(t) \/ Predict(t)
  <2> DEFINE r == [run[t] EXCEPT !.out = weights]
  <2>1. /\ at[t] # "fill" /\ run' = [run EXCEPT ![t] = r]
        /\ UNCHANGED <<weights, artifacts, dir, torn>>
    BY <1>11 DEF Save, Predict
  <2>2. PICK l \in {"upload", "name"} : at' = [at EXCEPT ![t] = l]  BY <1>11 DEF Save, Predict
  <2>3. r.out = weights  BY <1>0 DEF Runs
  <2> HIDE DEF r
  <2> QED  BY <1>0, <2>1, <2>2, <2>3, DataLeft DEF Sound
<1>12. CASE Upload(t)
  <2>1. PICK l \in {"failed", "trained"} : at' = [at EXCEPT ![t] = l]  BY <1>12 DEF Upload
  <2>2. at[t] = "upload" /\ UNCHANGED <<run, weights, dir, torn>>  BY <1>12 DEF Upload
  <2>3. \A m \in Models : Sound(artifacts[m])'
    <3>1. artifacts' = Uploaded(t)  BY <1>12 DEF Upload
    <3> QED  BY <1>0, <2>2, <3>1 DEF Uploaded, Sound, Runs, Weights
  <2> QED  BY <1>0, <2>1, <2>2, <2>3, DataLeft DEF Sound
<1> QED
  BY <1>2, <1>3, <1>4, <1>5, <1>6, <1>7, <1>8, <1>9, <1>10, <1>11, <1>12 DEF Step

LEMMA FailData ==
    ASSUME StageInv, DataInv, NEW t \in Threads, Fail(t) \/ KillEvent(t) PROVE DataInv'
<1> DEFINE r == [run[t] EXCEPT !.rescue = ~Outside(t)]
<1>0. /\ at \in [Threads -> Labels] /\ run \in [Threads -> Runs]
      /\ dir \in [Paths -> Folders] /\ artifacts \in [Models -> Weights]
      /\ Sound(weights) /\ Sound(run[t].out) /\ \A m \in Models : Sound(artifacts[m])
  BY DEF StageInv, DataTypes, DataInv
<1>1. /\ at' = [at EXCEPT ![t] = Raised(t)] /\ run' = [run EXCEPT ![t] = r]
      /\ weights' = weights /\ torn \subseteq torn' /\ dir' = dir
      /\ artifacts' = artifacts \/ (artifacts' = Uploaded(t) /\ at[t] = "upload")
  BY DEF Fail, KillEvent, Raise, Goto, adapter, platform
<1>2. r.out = run[t].out  BY <1>0 DEF Runs
<1>3. Raised(t) \notin {"fill", "convert", "train"}  BY DEF Raised
<1>4. at[t] = "fill" => run[t].path \in torn'  BY DEF Fail, KillEvent
<1>5. Sound(weights)' /\ \A m \in Models : Sound(artifacts[m])'
  <2>1. CASE artifacts' = artifacts  BY <1>0, <1>1, <2>1 DEF Sound
  <2>2. CASE artifacts' = Uploaded(t)
    <3>1. \A m \in Models : \/ artifacts'[m] = artifacts[m]
                            \/ artifacts'[m] = [run[t].out EXCEPT !.by = Id(t)]
      BY <1>0, <2>2 DEF Uploaded
    <3>2. LET w == [run[t].out EXCEPT !.by = Id(t)]
          IN w.path = run[t].out.path /\ w.full = run[t].out.full
      BY <1>0 DEF Runs, Weights
    <3> QED  BY <1>0, <1>1, <3>1, <3>2 DEF Sound
  <2> QED  BY <1>1, <2>1, <2>2
<1> HIDE DEF r
<1> QED  BY <1>0, <1>1, <1>2, <1>3, <1>4, <1>5, DataLeft

LEMMA KillData == ASSUME StageInv, DataInv, Kill PROVE DataInv'
<1>1. /\ run' = [t \in Threads |-> NoRun] /\ weights' = NoWeights /\ UNCHANGED <<artifacts, dir>>
      /\ torn' = torn \cup {run[t].path : t \in {u \in Threads : at[u] = "fill"}}
  BY DEF Kill, platform
<1>2. Sound(weights)' /\ \A t \in Threads : Sound(run[t].out)'
  BY <1>1 DEF Sound, NoRun, NoWeights, NoPath
<1>3. \A m \in Models : Sound(artifacts[m])'  BY <1>1 DEF Sound, DataInv
<1>4. \A p \in Paths : dir'[p].is = "part" => p \in torn'  BY <1>1 DEF DataInv
<1>5. \A t \in Threads : at'[t] \notin {"fill", "convert", "train"}  BY DEF Kill, Busy, Over
<1>6. Filed'  BY <1>1 DEF DataInv, Filed
<1> QED  BY <1>2, <1>3, <1>4, <1>5, <1>6 DEF DataInv

LEMMA NextData == StageInv /\ OwnInv /\ DataInv /\ [Next]_vars => DataInv'
<1> SUFFICES ASSUME StageInv, OwnInv, DataInv, [Next]_vars PROVE DataInv'  OBVIOUS
<1>1. ASSUME UNCHANGED <<thread, adapter, platform, dir, torn>> PROVE DataInv'
  BY <1>1 DEF thread, adapter, platform, DataInv, Sound, Filed
<1>2. ASSUME NEW t \in Threads, Step(t) \/ Fail(t) \/ Decide(t) \/ KillEvent(t)
      PROVE  DataInv'
  BY <1>1, <1>2, StepData, FailData DEF Decide
<1>3. ASSUME NEW id \in due, Terminate(id) PROVE DataInv'  BY <1>1, <1>3 DEF Terminate
<1>4. CASE Kill  BY <1>4, KillData
<1>5. CASE UNCHANGED vars  BY <1>1, <1>5 DEF vars
<1> QED  BY <1>2, <1>3, <1>4, <1>5 DEF Next

\* A model is trained on all its own data and no other, unless the data of its directory are
\* torn or others disturbed the training (base_model_adapter.py:229, 243-255, 447).
THEOREM TrainingWholeData == Spec => []WholeData
<1>1. Init => DataInv
  <2> SUFFICES ASSUME Init PROVE DataInv  OBVIOUS
  <2>1. /\ weights = NoWeights /\ run = [t \in Threads |-> NoRun]
        /\ artifacts = [m \in Models |-> [NoWeights EXCEPT !.of = m]]
        /\ dir = [p \in Paths |-> NoDir] /\ at = [t \in Threads |-> "idle"]
    BY DEF Init, Paths
  <2>2. NoDir.is = "none" /\ NoDir.of = {}  BY DEF NoDir
  <2>3. Filed  BY <2>1, <2>2 DEF Filed
  <2> QED  BY <2>1, <2>2, <2>3 DEF DataInv, Sound, NoRun, NoWeights, NoPath
<1>2. StageInv /\ OwnInv /\ DataInv => WholeData
  <2> SUFFICES ASSUME StageInv, OwnInv, DataInv, NEW m \in Models,
                      artifacts[m].path # NoPath, artifacts[m].by \notin crossed
               PROVE  (artifacts[m].path = <<m, m>> /\ artifacts[m].full) \/ artifacts[m].path \in torn
    BY DEF WholeData
  <2>1. OfOwn(artifacts[m], m)  BY DEF OwnInv
  <2>2. Sound(artifacts[m])  BY DEF DataInv
  <2> QED  BY <2>1, <2>2 DEF OfOwn, Sound
<1> QED  BY <1>1, <1>2, InitOwn, NextOwn, NextData, StageAlways, PTL DEF Spec
-----------------------------------------------------------------------------
(* How the training of a model ended. *)

\* A step of thread t keeps EndIsTold if it tells the end of the training it ends, or that
\* it is lost, and says so of every other model whose status it writes.
LEMMA ToldKept ==
    ASSUME StageInv, EndIsTold, NEW t \in Threads, NEW l,
           at' = [at EXCEPT ![t] = l], UNCHANGED <<prog, nth>>,
           \A m \in Models : m = Mine(t) \/ ended'[m] = "lost"
                             \/ (ended'[m] = ended[m] /\ status'[m] = status[m]),
           \/ Trains(t) /\ l \notin Over \cup {"idle", "get", "start"}
           \/ ended'[Mine(t)] \in {status'[Mine(t)], "lost"}
           \/ ~Untold(t) /\ ended'[Mine(t)] = ended[Mine(t)] /\ status'[Mine(t)] = status[Mine(t)]
    PROVE  EndIsTold'
<1>0. at \in [Threads -> Labels]  BY DEF StageInv, DataTypes
<1>1. \A u \in Threads : Mine(u)' = Mine(u) /\ Trains(u)' = Trains(u)
  BY DEF Mine, Trains, Work, Id
<1>2. \A u \in Threads : u # t => Untold(u)' = Untold(u)
  BY <1>0, <1>1 DEF Untold, Busy
<1>3. Trains(t) /\ l \notin Over \cup {"idle", "get", "start"} => Untold(t)'
  BY <1>0, <1>1 DEF Untold, Busy
<1>4. ASSUME NEW m \in Models, ended'[m] \notin {status'[m], "lost"}
      PROVE  \E u \in Threads : Untold(u)' /\ Mine(u)' = m
  <2>1. CASE m = Mine(t) /\ Trains(t) /\ l \notin Over \cup {"idle", "get", "start"}
    BY <1>1, <1>3, <2>1
  <2>2. CASE ~(m = Mine(t) /\ Trains(t) /\ l \notin Over \cup {"idle", "get", "start"})
    <3>1. ended[m] \notin {status[m], "lost"} /\ (m = Mine(t) => ~Untold(t))
      BY <1>4, <2>2
    <3>2. PICK u \in Threads : Untold(u) /\ Mine(u) = m  BY <3>1 DEF EndIsTold
    <3> QED  BY <1>1, <1>2, <3>1, <3>2
  <2> QED  BY <2>1, <2>2
<1> QED  BY <1>4 DEF EndIsTold

LEMMA StepTold ==
    ASSUME StageInv, EndIsTold, NEW t \in Threads, Step(t), ~Start(t) PROVE EndIsTold'
<1> USE DEF Goto, platform, runner, adapter
<1>0. /\ Stage(t) /\ Mine(t) \in Models
      /\ status = [m \in Models |-> status[m]] /\ ended = [m \in Models |-> ended[m]]
  <2>1. Id(t) \in DOMAIN local  BY StepBusy DEF StageInv, DataTypes, Busy
  <2> QED  BY <2>1, WorkKnown DEF StageInv, DataTypes, Mine
<1>1. CASE GetModel(t)
  <2>1. at' = [at EXCEPT ![t] = "start"] /\ UNCHANGED <<prog, nth, ended, status>> /\ ~Untold(t)
    BY <1>1 DEF GetModel, Untold
  <2> QED  BY <2>1, ToldKept
<1>2. CASE Update(t)
  <2>1. /\ at' = [at EXCEPT ![t] = After(t)] /\ UNCHANGED <<prog, nth>>
        /\ status' = [status EXCEPT ![Mine(t)] = Labelled(t)]
        /\ ended' = IF at[t] = "start" THEN ended ELSE [ended EXCEPT ![Mine(t)] = Labelled(t)]
    BY <1>2 DEF Update
  <2>2. at[t] = "start" => Trains(t) /\ After(t) = "entity"
    BY <1>0 DEF Stage, OfTraining, After
  <2>3. \A m \in Models : m = Mine(t) \/ (ended'[m] = ended[m] /\ status'[m] = status[m])
    BY <1>0, <2>1
  <2>4. at[t] # "start" => ended'[Mine(t)] = status'[Mine(t)]  BY <1>0, <2>1
  <2>5. CASE at[t] = "start"  BY <2>1, <2>2, <2>3, <2>5, ToldKept DEF Over
  <2>6. CASE at[t] # "start"  BY <2>1, <2>3, <2>4, <2>6, ToldKept
  <2> QED  BY <2>5, <2>6
<1>3. CASE Upload(t)
  <2>1. PICK l \in {"failed", "trained"} : at' = [at EXCEPT ![t] = l]  BY <1>3 DEF Upload
  <2>2. at[t] = "upload" /\ UNCHANGED <<prog, nth>> /\ ended' = Misled(t, ended)
    BY <1>3 DEF Upload
  <2>3. Trains(t) /\ l \notin Over \cup {"idle", "get", "start"}
    BY <1>0, <2>1, <2>2 DEF Stage, OfTraining, Over
  <2>4. \A m \in Models : m = Mine(t) \/ ended'[m] = "lost"
                          \/ (ended'[m] = ended[m] /\ status'[m] = status[m])
    BY <2>2 DEF Misled
  <2> QED  BY <2>1, <2>2, <2>3, <2>4, ToldKept
<1>4. CASE ~GetModel(t) /\ ~Update(t) /\ ~Upload(t)
  <2>1. /\ UNCHANGED <<prog, nth, ended, status>>
        /\ \E l \in Labels \ {"idle", "get", "start"} :
              at' = [at EXCEPT ![t] = l] /\ (l \in Over => l = "returned" /\ at[t] = "name")
    BY <1>4, SMTT(40) DEF Step, SetEntity, Load, Pass, Direct, Prepare, Download, Fill, Convert, Train,
                Save, Predict, Name, Labels, OfTraining, Using, Dirs, Over
  <2>2. at[t] = "name" => ~Untold(t)  BY <1>0 DEF Stage, Untold
  <2>3. ~Trains(t) => ~Untold(t)  BY DEF Untold
  <2> QED  BY <2>1, <2>2, <2>3, ToldKept
<1> QED  BY <1>1, <1>2, <1>3, <1>4

LEMMA FailTold ==
    ASSUME StageInv, EndIsTold, NEW t \in Threads, Fail(t) \/ KillEvent(t) PROVE EndIsTold'
<1>0. /\ Busy(t) /\ Stage(t) /\ faults[t] \in Nat /\ Mine(t) \in Models
      /\ status = [m \in Models |-> status[m]] /\ ended = [m \in Models |-> ended[m]]
  <2>1. Busy(t)  BY DEF Fail, KillEvent, Busy, Over
  <2>2. Id(t) \in DOMAIN local  BY <2>1 DEF StageInv, DataTypes, Busy
  <2> QED  BY <2>1, <2>2, WorkKnown DEF StageInv, DataTypes, Mine
<1>1. /\ at' = [at EXCEPT ![t] = Raised(t)] /\ UNCHANGED <<prog, nth>>
      /\ ended' = EndsAs(t) \/ ended' = Misled(t, EndsAs(t))
      /\ KillEvent(t) => status' = status
  BY DEF Fail, KillEvent, Raise, Goto, platform
<1>2. \A m \in Models : m # Mine(t) => EndsAs(t)[m] = ended[m]  BY <1>0 DEF EndsAs
<1>3. \A m \in Models : m = Mine(t) \/ ended'[m] = "lost"
                        \/ (ended'[m] = ended[m] /\ status'[m] = status[m])
  BY <1>1, <1>2 DEF Misled, Fail
<1>4. ended'[Mine(t)] = EndsAs(t)[Mine(t)]  BY <1>0, <1>1 DEF Misled
<1>5. CASE Raised(t) # "raised"
  <2>1. Trains(t) /\ Raised(t) \notin Over \cup {"idle", "get", "start"}
    BY <1>5 DEF Raised, Outside, Over
  <2> QED  BY <1>1, <1>3, <2>1, ToldKept
<1>6. CASE Raised(t) = "raised" /\ Trains(t) /\ at[t] # "get"
  <2>1. faults[t] # 0  BY <1>0, <1>6 DEF Raised, Outside, Stage
  <2>2. ended'[Mine(t)] = "lost"  BY <1>0, <1>4, <1>6, <2>1 DEF EndsAs
  <2> QED  BY <1>1, <1>3, <2>2, ToldKept
<1>7. CASE ~Trains(t) \/ at[t] = "get"
  <2>1. ~Untold(t) /\ EndsAs(t) = ended  BY <1>7 DEF Untold, EndsAs
  <2>2. at[t] \notin {"start", "trained", "failed", "upload"}
    BY <1>0, <1>7 DEF Stage, OfTraining
  <2>3. status' = status  BY <1>1, <2>2 DEF Fail
  <2> QED  BY <1>1, <1>3, <1>4, <2>1, <2>3, ToldKept
<1> QED  BY <1>5, <1>6, <1>7

LEMMA StartTold ==
    ASSUME StageInv, EndIsTold, NEW t \in Threads, Start(t) PROVE EndIsTold'
<1>1. /\ nth' = [nth EXCEPT ![t] = @ + 1] /\ UNCHANGED <<prog, status, ended>>
      /\ \E l \in {"get", "start", "entity"} : at' = [at EXCEPT ![t] = l]
      /\ ~Untold(t)
  BY DEF Start, Untold
<1>2. \A u \in Threads : u # t => Untold(u)' = Untold(u) /\ Mine(u)' = Mine(u)
  BY <1>1 DEF StageInv, DataTypes, Untold, Busy, Trains, Mine, Work, Id
<1> QED  BY <1>1, <1>2 DEF EndIsTold

LEMMA KillTold == ASSUME EndIsTold, Kill PROVE EndIsTold'
<1>1. /\ status' = status
      /\ ended' = [m \in Models |->
                     IF \E t \in Threads : Untold(t) /\ Mine(t) = m THEN "lost" ELSE ended[m]]
  BY DEF Kill, platform
<1> QED  BY <1>1 DEF EndIsTold

LEMMA NextTold == StageInv /\ EndIsTold /\ [Next]_vars => EndIsTold'
<1> SUFFICES ASSUME StageInv, EndIsTold, [Next]_vars PROVE EndIsTold'  OBVIOUS
<1>1. ASSUME UNCHANGED <<prog, thread, status, ended>> PROVE EndIsTold'
  BY <1>1 DEF thread, EndIsTold, Untold, Busy, Trains, Mine, Work, Id
<1>2. ASSUME NEW t \in Threads, Step(t) \/ Fail(t) \/ Decide(t) \/ KillEvent(t)
      PROVE  EndIsTold'
  BY <1>1, <1>2, StartTold, StepTold, FailTold DEF Decide, platform
<1>3. ASSUME NEW id \in due, Terminate(id) PROVE EndIsTold'
  BY <1>1, <1>3 DEF Terminate, platform
<1>4. CASE UNCHANGED vars  BY <1>1, <1>4 DEF vars, platform
<1> QED  BY <1>2, <1>3, <1>4, KillTold DEF Next

\* When nobody trains a model any more its status tells how the last training ended that
\* came as far as its try, unless a kill, a second failure or an upload by an execution of
\* another model lost it (base_model_adapter.py:421-425, 468, 474-481).
THEOREM TrainingEndIsTold == Spec => []EndIsTold
<1>1. Init => EndIsTold  BY DEF Init, EndIsTold
<1> QED  BY <1>1, NextTold, StageAlways, PTL DEF Spec

-----------------------------------------------------------------------------
(***************************************************************************)
(* Types, punctuality and honesty of Waits for any timeouts, latencies and   *)
(* reruns.                                                                  *)
(***************************************************************************)

\* Whoever is about to poll is within the time; an endless wait has no clock.
Timely ==
    IF Endless THEN now = 0
    ELSE /\ pc \in {"loop", "get"} => now <= Limit
         /\ now <= Limit + MaxLatency

\* An execution that polls has polls left; the loop head is a command's.
PollsLeft ==
    /\ pc = "loop" => kind = "command"
    /\ kind = "execution" /\ pc \in {"get", "sleep"} => tries <= MaxPolls

\* What a command knows: an end it saw is still the end of the job, for a command is not
\* run again; and it leaves the loop for that or for the time.
Knows ==
    kind = "command" =>
      /\ seen \in Ending => state = seen
      /\ pc \in {"loop", "get"} => seen \notin Ending
      /\ pc \in {"get", "sleep"} => ~Reached(elapsed)
      /\ pc = "conclude" => (IF Reached(elapsed) THEN seen \in Running ELSE seen \in Ending)
      /\ seen = "none" => elapsed = 0

\* Who polls, or has seen the end, was not beyond the deadline after the answer before.
InTime ==
    /\ pc \in {"loop", "get", "sleep"} => ~Passed(elapsed)
    /\ pc = "sleep" => seen \in Running
    /\ pc = "conclude" =>
         /\ seen \in Running \cup Ending
         /\ Passed(elapsed) => kind = "execution" /\ seen \in Running

\* An execution has slept 2 ^ i between its polls, or up to its timeout; it concludes for
\* an end or, if its polls are enough, for the time.
Waited ==
    kind = "execution" =>
      /\ ~Endless /\ pc \in {"get", "sleep"} => now >= 2 ^ (tries + 1) - 4 \/ now >= Limit
      /\ pc = "conclude" => Reached(elapsed) \/ seen \in Ending \/ OutOfPolls

\* The result comes at the end.
Honest ==
    /\ pc # "done" => result = "none"
    /\ HonestResult

WaitInv == TypeOK /\ Timely /\ PollsLeft /\ Knows /\ InTime /\ Waited /\ Honest
-----------------------------------------------------------------------------
LEMMA Numbers ==
    TypeOK => /\ reruns \in Nat /\ now \in Nat /\ elapsed \in Nat /\ elapsed <= now
              /\ tries \in Int /\ 1 <= tries /\ tries <= 19 /\ slept \in Int
<1>1. TypeOK => /\ reruns \in Nat /\ now \in Nat /\ elapsed \in 0..now
                /\ tries \in 1..(MaxPolls + 1) /\ slept \in Int
  BY Zenon DEF TypeOK
<1> QED  BY <1>1 DEF MaxPolls

LEMMA TimeoutType == TypeOK => timeout \in Nat \/ timeout = NoTimeout
<1>1. Timeouts \subseteq Nat \cup {NoTimeout}  BY WaitsAssumption
<1> QED  BY <1>1, Zenon DEF TypeOK

LEMMA LimitType == TypeOK => Limit \in Nat
<1>1. ExecutionTimeout \in Nat  BY WaitsAssumption
<1> QED  BY <1>1, TimeoutType DEF Limit

LEMMA LimitPositive == TypeOK /\ kind = "command" /\ ~Endless => Limit > 0
  BY TimeoutType DEF Limit, Endless

LEMMA LeastElement ==
    ASSUME NEW S, \E x \in S : \A y \in S : x <= y
    PROVE  Min(S) \in S /\ \A y \in S : Min(S) <= y
  BY DEF Min

\* A sleep never passes the deadline, is negative only after it, and a command's never
\* exceeds the cap.
LEMMA SleepTimes ==
    ASSUME TypeOK, NEW n \in 1..(MaxPolls + 1), NEW t \in Nat
    PROVE  /\ SleepTime(n, t) \in Int
           /\ ~Endless => SleepTime(n, t) <= Limit - t
           /\ SleepTime(n, t) < 0 => ~Endless /\ t > Limit
           /\ kind = "command" => SleepTime(n, t) <= MAX_SLEEP_TIME
<1> DEFINE p == 2 ^ n
           q == Backoff * p
           left == Limit - t
<1>1. p \in Nat  BY PowersOfTwo
<1>2. q \in Nat
  <2> HIDE DEF p
  <2> QED  BY <1>1, WaitsAssumption
<1>3. left \in Int /\ (left < 0 => t > Limit)  BY LimitType
<1>4. Longest(n) = IF kind = "command" THEN {q, 30} ELSE {p}  BY DEF Longest, MAX_SLEEP_TIME
<1> DEFINE S == Longest(n) \cup (IF Endless THEN {} ELSE {left})
<1> HIDE DEF p, q, left
<1>5. \A x : x \in S <=> \/ kind = "command" /\ x \in {q, 30}
                         \/ kind # "command" /\ x = p
                         \/ ~Endless /\ x = left
  <2>1. \A x : x \in Longest(n) <=> x \in IF kind = "command" THEN {q, 30} ELSE {p}  BY <1>4, Zenon
  <2>2. \A x : x \in S <=> x \in Longest(n) \/ (~Endless /\ x = left)  BY Zenon
  <2> QED  BY <2>1, <2>2, Zenon
<1>6. SleepTime(n, t) = Min(S)  BY DEF SleepTime, left
<1> HIDE DEF S
<1>7. \E x \in S : \A y \in S : x <= y
  <2>1. CASE kind = "command"
    <3>1. \E x \in {q, 30} : \A y \in {q, 30} : x <= y  BY <1>2
    <3>2. PICK x \in {q, 30} : \A y \in {q, 30} : x <= y  BY <3>1
    <3>3. x \in Int  BY <1>2, <3>2
    <3>6. x \in S /\ (~Endless => left \in S)
      <4>1. x \in {q, 30}  BY <3>2
      <4> QED  BY <1>5, <2>1, <4>1, Zenon
    <3>4. CASE ~Endless /\ left < x
      <4>1. \A y \in S : left <= y  BY <1>2, <1>3, <1>5, <2>1, <3>2, <3>4
      <4> QED  BY <3>4, <3>6, <4>1
    <3>5. CASE ~(~Endless /\ left < x)
      <4>1. \A y \in S : x <= y  BY <1>2, <1>3, <1>5, <2>1, <3>2, <3>3, <3>5
      <4> QED  BY <3>6, <4>1
    <3> QED  BY <3>4, <3>5
  <2>2. CASE kind # "command"
    <3>1. CASE ~Endless /\ left < p  BY <1>1, <1>3, <1>5, <2>2, <3>1
    <3>2. CASE ~(~Endless /\ left < p)  BY <1>1, <1>3, <1>5, <2>2, <3>2
    <3> QED  BY <3>1, <3>2
  <2> QED  BY <2>1, <2>2
<1>8. Min(S) \in S /\ \A y \in S : Min(S) <= y  BY <1>7, LeastElement
<1>9. /\ Min(S) \in Int
      /\ ~Endless => Min(S) <= left
      /\ Min(S) < 0 => ~Endless /\ left < 0
      /\ kind = "command" => Min(S) <= 30
  BY <1>1, <1>2, <1>3, <1>5, <1>8
<1> QED  BY <1>3, <1>6, <1>9 DEF MAX_SLEEP_TIME, left

\* An execution sleeps 2 ^ i seconds, or what is left of its time.
LEMMA ExecutionSleep ==
    ASSUME TypeOK, kind = "execution", NEW n \in 1..(MaxPolls + 1), NEW t \in Nat
    PROVE  SleepTime(n, t) \in {2 ^ n, Limit - t}
<1> DEFINE p == 2 ^ n
           left == Limit - t
           S == {p} \cup (IF Endless THEN {} ELSE {left})
<1>1. SleepTime(n, t) = Min(S)  BY DEF SleepTime, Longest
<1>2. p \in Nat /\ left \in Int  BY PowersOfTwo, LimitType
<1> HIDE DEF p, left
<1>3. \E x \in S : \A y \in S : x <= y
  <2>1. CASE ~Endless /\ left < p  BY <1>2, <2>1
  <2>2. CASE ~(~Endless /\ left < p)  BY <1>2, <2>2
  <2> QED  BY <2>1, <2>2
<1>4. Min(S) \in S
  <2> HIDE DEF S
  <2> QED  BY <1>3, LeastElement
<1> QED  BY <1>1, <1>4 DEF p, left
-----------------------------------------------------------------------------
LEMMA InitInv == WtInit => WaitInv
<1> SUFFICES ASSUME WtInit PROVE WaitInv  OBVIOUS
<1>1. TypeOK
  BY DEF WtInit, TypeOK, Running, Ending, Poll, MaxPolls, MAX_SLEEP_TIME
<1>2. Timely  BY <1>1, LimitType, WaitsAssumption DEF WtInit, Timely
<1>3. PollsLeft  BY DEF WtInit, PollsLeft, Poll, MaxPolls
<1>4. Knows
  BY <1>1 DEF WtInit, Knows, Poll, Ending
<1>5. Honest  BY DEF WtInit, Honest, HonestResult
<1>6. Waited
  <2>1. 2 ^ (tries + 1) - 4 = 0
    BY PowersOfTwo DEF WtInit, MaxPolls
  <2> QED  BY <2>1 DEF WtInit, Waited, Poll
<1>7. InTime
  <2>1. ~Passed(elapsed)  BY <1>1, LimitType DEF WtInit, Passed
  <2> QED  BY <2>1 DEF WtInit, InTime, Poll
<1> QED  BY <1>1, <1>2, <1>3, <1>4, <1>5, <1>6, <1>7 DEF WaitInv

LEMMA ProgressKeeps == WaitInv /\ Progress => WaitInv'
<1> SUFFICES ASSUME WaitInv, Progress PROVE WaitInv'  OBVIOUS
<1> USE DEF Progress, call, WaitInv
<1>1. TypeOK'  BY DEF TypeOK, Running
<1>2. Timely'  BY DEF Timely, Endless, Limit
<1>3. PollsLeft'  BY DEF PollsLeft
<1>4. Knows'  BY DEF Knows, Reached, Endless, Limit, Running, Ending
<1>5. Honest'
  BY DEF Honest, HonestResult, OutOfPolls, TooFewPolls, OnTheDot, Knows, Endless, Limit, Running, Ending
<1>6. Waited'  BY DEF Waited, OutOfPolls, TooFewPolls, Reached, Endless, Limit
<1>7. InTime'  BY DEF InTime, Passed, Endless, Limit
<1> QED  BY <1>1, <1>2, <1>3, <1>4, <1>5, <1>6, <1>7

LEMMA RerunKeeps == WaitInv /\ Rerun => WaitInv'
<1> SUFFICES ASSUME WaitInv, Rerun PROVE WaitInv'  OBVIOUS
<1> USE DEF Rerun, call, WaitInv
<1>1. TypeOK'
  <2>1. state' \in Running /\ reruns' \in Nat  BY Numbers DEF Running
  <2> QED  BY <2>1 DEF TypeOK
<1>2. Timely'  BY DEF Timely, Endless, Limit
<1>3. PollsLeft'  BY DEF PollsLeft
<1>4. Knows'  BY DEF Knows
<1>5. Honest'  BY DEF Honest, HonestResult, OutOfPolls, TooFewPolls, OnTheDot, Endless, Limit
<1>6. Waited'  BY DEF Waited, OutOfPolls, TooFewPolls, Reached, Endless, Limit
<1>7. InTime'  BY DEF InTime, Passed, Endless, Limit
<1> QED  BY <1>1, <1>2, <1>3, <1>4, <1>5, <1>6, <1>7

LEMMA LoopKeeps == WaitInv /\ Loop => WaitInv'
<1> SUFFICES ASSUME WaitInv, Loop PROVE WaitInv'  OBVIOUS
<1> USE DEF Loop, call, job, WaitInv
<1>1. TypeOK'  BY DEF TypeOK
<1>2. Timely'  BY DEF Timely, Endless, Limit
<1>3. PollsLeft'  BY DEF PollsLeft
<1>4. Knows'
  <2>1. kind = "command" /\ Reached(elapsed) => seen # "none"
    BY LimitType, LimitPositive DEF Knows, Reached
  <2> QED  BY <2>1 DEF Knows, PollsLeft, TypeOK, Reached, Endless, Limit
<1>5. Honest'  BY DEF Honest, HonestResult, OutOfPolls, TooFewPolls, OnTheDot, Endless, Limit
<1>6. Waited'  BY DEF Waited, OutOfPolls, TooFewPolls, Reached, Endless, Limit, PollsLeft
<1>7. InTime'
  <2>1. kind = "command" /\ Passed(elapsed)' = Passed(elapsed) /\ ~Passed(elapsed)
    BY DEF InTime, PollsLeft, Passed, Endless, Limit
  <2>2. Reached(elapsed) => seen \in Running \cup Ending
    <3>1. Reached(elapsed) => seen # "none"  BY <2>1, LimitType, LimitPositive DEF Knows, Reached
    <3> QED  BY <3>1 DEF TypeOK
  <2> QED  BY <2>1, <2>2 DEF InTime
<1> QED  BY <1>1, <1>2, <1>3, <1>4, <1>5, <1>6, <1>7

LEMMA GetKeeps == WaitInv /\ Get => WaitInv'
<1> SUFFICES ASSUME WaitInv, Get PROVE WaitInv'  OBVIOUS
<1> USE DEF Get, call, job, WaitInv
<1>1. PICK d \in 0..MaxLatency : now' = Later(d)  BY WaitsAssumption
<1>2. /\ now' \in Nat /\ now <= now' /\ MaxLatency \in Nat /\ Limit \in Nat
      /\ IF Endless THEN now' = 0 ELSE now' <= now + MaxLatency
  BY <1>1, WaitsAssumption, LimitType, Numbers DEF Later, Timely
<1>3. TypeOK'
  <2>1. elapsed' \in 0..now'  BY <1>2, Numbers
  <2> QED  BY <1>2, <2>1 DEF TypeOK
<1>4. Timely'
  BY <1>2, Numbers DEF Timely, Endless, Limit
<1>5. PollsLeft'  BY DEF PollsLeft
<1>6. Knows'
  <2>1. state \in Running \/ state \in Ending  BY DEF TypeOK
  <2>2. state \in Ending => state \notin Running /\ state # "none"  BY DEF Running, Ending
  <2>3. "none" \notin Running  BY DEF Running
  <2> QED  BY <2>1, <2>2, <2>3 DEF Knows, Reached, Endless, Limit, Ended
<1>7. Honest'  BY DEF Honest, HonestResult
<1>8. Waited'
  <2>1. 2 ^ (tries + 1) \in Int
    BY PowersOfTwo, Numbers DEF PollsLeft, MaxPolls
  <2> QED  BY <1>2, <2>1, Numbers DEF Waited, OutOfPolls, TooFewPolls, Reached, Endless, Limit, Ended
<1>9. InTime'
  <2>1. state \in Running \cup Ending /\ (~Ended(state) => state \in Running)
    BY DEF TypeOK, Ended
  <2> QED  BY <2>1 DEF InTime, Passed, Endless, Limit
<1> QED  BY <1>3, <1>4, <1>5, <1>6, <1>7, <1>8, <1>9

LEMMA GetFailsKeeps == WaitInv /\ GetFails => WaitInv'
<1> SUFFICES ASSUME WaitInv, GetFails PROVE WaitInv'  OBVIOUS
<1> USE DEF GetFails, call, job, WaitInv
<1>1. TypeOK'  BY DEF TypeOK
<1>2. Timely'  BY DEF Timely, Endless, Limit
<1>3. PollsLeft'  BY DEF PollsLeft
<1>4. Knows'  BY DEF Knows, Reached, Endless, Limit
<1>5. Honest'  BY DEF Honest, HonestResult
<1>6. Waited'  BY DEF Waited, OutOfPolls, TooFewPolls, Reached, Endless, Limit
<1>7. InTime'  BY DEF InTime
<1> QED  BY <1>1, <1>2, <1>3, <1>4, <1>5, <1>6, <1>7

LEMMA SleepCommandKeeps == WaitInv /\ SleepCommand => WaitInv'
<1> SUFFICES ASSUME WaitInv, SleepCommand PROVE WaitInv'  OBVIOUS
<1> USE DEF SleepCommand, call, job, WaitInv
<1>1. /\ slept' \in Int /\ slept' <= MAX_SLEEP_TIME
      /\ ~Endless => slept' <= Limit - now
      /\ slept' < 0 => ~Endless /\ now > Limit
  BY SleepTimes DEF TypeOK
<1>2. tries' \in 1..(MaxPolls + 1)
  <2>1. CASE 2 ^ tries > MAX_SLEEP_TIME  BY <2>1, Numbers DEF MaxPolls
  <2>2. CASE ~(2 ^ tries > MAX_SLEEP_TIME)
    <3>1. tries \in 1..(MaxPolls + 1)  BY Numbers DEF MaxPolls
    <3>2. ~(tries >= 5)  BY <2>2, <3>1, PowersOfTwo
    <3> QED  BY <2>2, <3>1, <3>2 DEF MaxPolls
  <2> QED  BY <2>1, <2>2
<1>3. Limit \in Nat /\ MaxLatency \in Nat /\ now \in Nat /\ elapsed' = now /\ kind = "command"
  BY LimitType, WaitsAssumption, Numbers
<1>4. CASE slept' < 0
  <2>1. pc' = "done" /\ result' = "ValueError" /\ now' = now  BY <1>4
  <2>2. TypeOK'
    <3>1. elapsed' \in 0..now'  BY <1>3, <2>1
    <3> QED  BY <1>1, <1>2, <1>3, <2>1, <3>1, Zenon DEF TypeOK
  <2>3. Timely'  BY <2>1 DEF Timely, Endless, Limit
  <2>4. PollsLeft'  BY <2>1 DEF PollsLeft
  <2>5. Knows'
    <3>1. seen \in Running /\ seen \notin Ending /\ seen # "none" /\ state' = state
      BY DEF InTime, Running, Ending
    <3> QED  BY <2>1, <3>1 DEF Knows
  <2>6. Honest'
    BY <1>1, <1>3, <1>4, <2>1 DEF Honest, HonestResult, OnTheDot, InTime, Endless, Limit
  <2>7. Waited'  BY <1>3 DEF Waited
  <2>8. InTime'  BY <2>1 DEF InTime
  <2> QED  BY <2>2, <2>3, <2>4, <2>5, <2>6, <2>7, <2>8
<1>5. CASE ~(slept' < 0)
  <2>1. pc' = "loop" /\ now' = Later(slept') /\ result' = result  BY <1>3, <1>5 DEF Poll
  <2>2. /\ now' \in Nat /\ now <= now'
        /\ IF Endless THEN now' = 0 ELSE now' <= Limit
    BY <1>1, <1>3, <1>5, <2>1 DEF Later, Timely
  <2>3. TypeOK'
    <3>1. elapsed' \in 0..now'  BY <1>3, <2>2
    <3> QED  BY <1>1, <1>2, <2>1, <2>2, <3>1 DEF TypeOK
  <2>4. Timely'  BY <1>3, <2>2 DEF Timely, Endless, Limit
  <2>5. PollsLeft'  BY <1>3, <2>1 DEF PollsLeft
  <2>6. Knows'
    <3>1. seen \in Running /\ seen \notin Ending /\ seen # "none"
      BY <1>3 DEF InTime, Running, Ending
    <3> QED  BY <2>1, <3>1 DEF Knows
  <2>7. Honest'  BY <2>1 DEF Honest, HonestResult
  <2>8. Waited'  BY <1>3 DEF Waited
  <2>9. InTime'
    <3>1. ~Passed(elapsed)'
      BY <1>1, <1>3, <1>5 DEF Passed, Endless, Limit
    <3> QED  BY <2>1, <3>1 DEF InTime
  <2> QED  BY <2>3, <2>4, <2>5, <2>6, <2>7, <2>8, <2>9
<1> QED  BY <1>4, <1>5

LEMMA Doubled ==
    ASSUME NEW n \in 1..MaxPolls
    PROVE  2 ^ n \in Nat /\ 2 ^ (n + 1) = 2 * 2 ^ n
<1>1. n \in 1..(MaxPolls + 1)  BY DEF MaxPolls
<1> QED  BY <1>1, PowersOfTwo

LEMMA SleepExecutionKeeps == WaitInv /\ SleepExecution => WaitInv'
<1> SUFFICES ASSUME WaitInv, SleepExecution PROVE WaitInv'  OBVIOUS
<1> USE DEF SleepExecution, call, job, WaitInv
<1>1. Limit \in Nat /\ MaxLatency \in Nat /\ now \in Nat /\ elapsed' = now /\ kind = "execution"
  BY LimitType, WaitsAssumption, Numbers
<1>2. tries' \in 1..(MaxPolls + 1)  BY <1>1, Numbers DEF PollsLeft, Counted, MaxPolls
<1>3. CASE tries' > MaxPolls \/ Passed(elapsed')
  <2>1. pc' = "conclude" /\ UNCHANGED <<now, slept>>  BY <1>3
  <2>2. TypeOK'
    <3>1. elapsed' \in 0..now'  BY <1>1, <2>1
    <3> QED  BY <1>1, <1>2, <2>1, <3>1, Zenon DEF TypeOK
  <2>3. Timely'  BY <2>1 DEF Timely, Endless, Limit
  <2>4. PollsLeft'  BY <2>1 DEF PollsLeft
  <2>5. Knows' /\ Honest'  BY <1>1, <2>1 DEF Knows, Honest, HonestResult
  <2>6. Waited'
    <3> SUFFICES Reached(now) \/ (tries' > MaxPolls /\ TooFewPolls)
      BY <1>1, <2>1 DEF Waited, OutOfPolls, TooFewPolls, Reached, Endless, Limit
    <3>1. CASE Passed(now)
      BY <1>1, <3>1 DEF Passed, Reached
    <3>2. CASE tries' > MaxPolls
      <4>1. tries + 1 = MaxPolls + 1
        BY <1>2, <3>2 DEF Counted, MaxPolls
      <4>2. ~Endless => now >= 2 ^ (MaxPolls + 1) - 4 \/ now >= Limit
        BY <1>1, <4>1 DEF Waited
      <4>3. 2 ^ (MaxPolls + 1) \in Int
        BY PowersOfTwo DEF MaxPolls
      <4> QED  BY <1>1, <3>2, <4>2, <4>3 DEF TooFewPolls, Reached
    <3> QED  BY <1>1, <1>3, <3>1, <3>2
  <2>7. InTime'  BY <1>1, <2>1 DEF InTime
  <2> QED  BY <2>2, <2>3, <2>4, <2>5, <2>6, <2>7
<1>4. CASE ~(tries' > MaxPolls \/ Passed(elapsed'))
  <2>1. slept' = SleepTime(tries', now) /\ pc' = "get" /\ now' = Later(slept')
    BY <1>1, <1>4 DEF Poll
  <2>2. /\ slept' \in Int /\ (~Endless => slept' <= Limit - now) /\ (slept' < 0 => ~Endless /\ now > Limit)
    BY <1>1, <1>2, <2>1, SleepTimes
  <2>3. ~(slept' < 0)  BY <1>1, <1>4, <2>2 DEF Passed
  <2>4. /\ now' \in Nat /\ now <= now'
        /\ IF Endless THEN now' = 0 ELSE now' <= Limit
    BY <1>1, <2>1, <2>2, <2>3 DEF Later, Timely
  <2>5. TypeOK'
    <3>1. elapsed' \in 0..now'  BY <1>1, <2>4
    <3> QED  BY <1>1, <1>2, <2>1, <2>2, <2>4, <3>1 DEF TypeOK
  <2>6. Timely'  BY <1>1, <2>4 DEF Timely, Endless, Limit
  <2>7. PollsLeft'  BY <1>1, <1>2, <1>4, <2>1 DEF PollsLeft, MaxPolls
  <2>8. Knows' /\ Honest'  BY <1>1, <2>1 DEF Knows, Honest, HonestResult
  <2>9. Waited'
    <3> DEFINE p == 2 ^ tries'
    <3>1. tries' \in 1..MaxPolls /\ tries' = tries + 1
      BY <1>2, <1>4 DEF Counted, MaxPolls
    <3>2. p \in Nat /\ 2 ^ (tries' + 1) = 2 * p
      BY <3>1, Doubled
    <3>3. now >= p - 4 \/ now >= Limit \/ Endless
      BY <1>1, <3>1 DEF Waited
    <3> HIDE DEF p
    <3>4. SleepTime(tries', now) \in {p, Limit - now}
      BY <1>1, <1>2, ExecutionSleep DEF p
    <3>5. Endless \/ now' = now + p \/ now' = Limit
      BY <1>1, <2>1, <3>4 DEF Later
    <3>6. Endless \/ now' >= 2 * p - 4 \/ now' >= Limit
      <4>1. CASE now' = now + p /\ now >= p - 4
        BY <1>1, <3>2, <4>1
      <4>2. CASE now' = now + p /\ now >= Limit
        BY <1>1, <2>4, <4>2
      <4>3. CASE now' = Limit
        BY <1>1, <4>3
      <4> QED  BY <3>3, <3>5, <4>1, <4>2, <4>3
    <3>7. tries' + 1 \in Int /\ 2 * p \in Int
      BY <3>1, <3>2
    <3>8. UNCHANGED <<kind, timeout>>
      OBVIOUS
    <3>9. Endless' = Endless /\ Limit' = Limit
      BY <3>8 DEF Endless, Limit
    <3>10. ~Endless => now' >= 2 ^ (tries' + 1) - 4 \/ now' >= Limit'
      BY <3>2, <3>6, <3>9
    <3> QED  BY <2>1, <3>9, <3>10 DEF Waited, Poll
  <2>10. InTime'
    <3>1. ~Passed(elapsed)'  BY <1>1, <1>4 DEF Passed, Endless, Limit
    <3> QED  BY <2>1, <3>1 DEF InTime
  <2> QED  BY <2>5, <2>6, <2>7, <2>8, <2>9, <2>10
<1> QED  BY <1>3, <1>4

LEMMA Deadline ==
    TypeOK => /\ Reached(elapsed) => ~Endless /\ now >= Limit /\ elapsed >= Limit
              /\ Reached(elapsed) /\ ~Passed(elapsed) => elapsed = Limit
<1> SUFFICES ASSUME TypeOK, ~Endless
             PROVE  /\ elapsed >= Limit => now >= Limit
                    /\ elapsed >= Limit /\ ~(elapsed > Limit) => elapsed = Limit
  BY Zenon DEF Reached, Passed
<1>1. Limit \in Nat /\ elapsed \in Nat /\ now \in Nat /\ elapsed <= now
  BY LimitType, Numbers
<1> HIDE DEF Limit
<1> QED  BY <1>1

LEMMA ConcludeKeeps == WaitInv /\ Conclude => WaitInv'
<1> SUFFICES ASSUME WaitInv, Conclude PROVE WaitInv'  OBVIOUS
<1> USE DEF Conclude, call, job, WaitInv
<1>1. TypeOK'  BY DEF TypeOK
<1>2. Timely'  BY DEF Timely, Endless, Limit
<1>3. PollsLeft'  BY DEF PollsLeft
<1>4. Knows'  BY DEF Knows
<1>5. Honest'
  <2>1. /\ Reached(elapsed) => ~Endless /\ now >= Limit /\ elapsed >= Limit
        /\ Reached(elapsed) /\ ~Passed(elapsed) => elapsed = Limit
    BY Deadline, Zenon
  <2>2. /\ UNCHANGED <<kind, timeout, state, now, seen, elapsed, tries>>
        /\ Endless' = Endless /\ Limit' = Limit /\ OutOfPolls' = OutOfPolls
        /\ pc' = "done" /\ kind \in {"command", "execution"}
    BY DEF Endless, Limit, OutOfPolls, TooFewPolls, TypeOK
  <2>3. CASE kind = "command" /\ Reached(elapsed)
    <3>1. result' = "TimeoutError" /\ seen \in Running  BY <2>3 DEF Knows
    <3>2. ~Passed(elapsed)  BY <2>3 DEF InTime
    <3> QED  BY <2>1, <2>2, <2>3, <3>1, <3>2 DEF Honest, HonestResult
  <2>4. CASE kind = "command" /\ ~Reached(elapsed)
    <3>1. seen \in Ending /\ state = seen  BY <2>4 DEF Knows
    <3>2. result' = IF seen # "success" THEN "command failed" ELSE "returned"  BY <2>4
    <3> QED  BY <2>2, <2>4, <3>1, <3>2 DEF Honest, HonestResult
  <2>5. CASE kind = "execution"
    <3>1. ~Reached(elapsed) => seen \in Ending \/ OutOfPolls  BY <2>5 DEF Waited
    <3>2. Reached(elapsed) => seen \in Running \/ elapsed = Limit  BY <2>1, <2>5 DEF InTime
    <3>3. result' = IF Reached(elapsed) THEN "TimeoutError" ELSE "returned"  BY <2>5
    <3> QED  BY <2>1, <2>2, <2>5, <3>1, <3>2, <3>3 DEF Honest, HonestResult, OnTheDot
  <2> QED  BY <2>2, <2>3, <2>4, <2>5
<1>6. Waited'  BY DEF Waited
<1>7. InTime'  BY DEF InTime
<1> QED  BY <1>1, <1>2, <1>3, <1>4, <1>5, <1>6, <1>7

LEMMA WaitsNextKeeps == WaitInv /\ [WtNext]_wtvars => WaitInv'
<1> SUFFICES ASSUME WaitInv, [WtNext]_wtvars PROVE WaitInv'  OBVIOUS
<1>1. CASE UNCHANGED wtvars
  <2>1. /\ kind' = kind /\ timeout' = timeout /\ state' = state /\ reruns' = reruns
        /\ now' = now /\ pc' = pc /\ elapsed' = elapsed /\ tries' = tries /\ seen' = seen
        /\ slept' = slept /\ result' = result
    BY <1>1 DEF wtvars, call, job
  <2>2. TypeOK'  BY <2>1, Zenon DEF WaitInv, TypeOK
  <2>3. Timely' /\ PollsLeft'  BY <2>1 DEF WaitInv, Timely, PollsLeft, Endless, Limit
  <2>4. Knows'  BY <2>1 DEF WaitInv, Knows, Reached, Endless, Limit
  <2>5. Honest'  BY <2>1 DEF WaitInv, Honest, HonestResult, OutOfPolls, TooFewPolls, OnTheDot, Endless, Limit
  <2>6. Waited'  BY <2>1 DEF WaitInv, Waited, OutOfPolls, TooFewPolls, Reached, Endless, Limit
  <2>7. InTime'  BY <2>1 DEF WaitInv, InTime, Passed, Endless, Limit
  <2> QED  BY <2>2, <2>3, <2>4, <2>5, <2>6, <2>7 DEF WaitInv
<1>2. CASE WtNext
  BY <1>1, <1>2, ProgressKeeps, RerunKeeps, LoopKeeps, GetKeeps, GetFailsKeeps, SleepCommandKeeps,
     SleepExecutionKeeps, ConcludeKeeps DEF WtNext, Wait, Done
<1> QED  BY <1>1, <1>2
-----------------------------------------------------------------------------
LEMMA Invariance == WtSpec => []WaitInv
<1>1. WtInit => WaitInv  BY InitInv
<1>2. WaitInv /\ [WtNext]_wtvars => WaitInv'  BY WaitsNextKeeps
<1> QED  BY <1>1, <1>2, PTL DEF WtSpec

\* The types, the cap on a command's sleep among them (commands.py:105).
THEOREM WaitsTypes == WtSpec => []TypeOK
<1>1. WaitInv => TypeOK  BY DEF WaitInv
<1> QED  BY <1>1, Invariance, PTL

\* No wait outlives its timeout by more than one answer (commands.py:105,
\* executions.py:604-606).
THEOREM WaitsPunctual == WtSpec => []Punctual
<1>1. WaitInv => Punctual  BY LimitType, WaitsAssumption DEF WaitInv, Timely, Punctual
<1> QED  BY <1>1, Invariance, PTL

\* The caller is told the truth (HonestResult), whatever the timeout: about a command
\* (commands.py:99-122), and about an execution (executions.py:586-612), which is returned
\* while it still runs only if its timeout is more than the 524284 seconds that its eighteen
\* polls last, and given up after its end only if an answer came at the deadline.
THEOREM WaitsHonest == WtSpec => []HonestResult
<1>1. WaitInv => HonestResult  BY DEF WaitInv, Honest
<1> QED  BY <1>1, Invariance, PTL
=============================================================================
