------------------------------ MODULE Training ------------------------------
(***************************************************************************)
(* dtlpy/ml/base_model_adapter.py (train_model, evaluate_model and what     *)
(* they call) on the runner of dtlpy/utilities/base_package_runner.py: the  *)
(* threads of a service process execute their executions on one adapter     *)
(* object, that holds one model entity and one set of weights.             *)
(*                                                                         *)
(* An execution trains or evaluates a model.  It updates the status of the  *)
(* model at the service, keeps the data it downloads in a directory that    *)
(* outlives it, and uploads its weights as the artifacts of the model.  Any *)
(* call may fail, the platform may signal the thread of an execution to     *)
(* end it, and the process may be killed, after which the platform runs     *)
(* the execution again or gives it up.                                     *)
(***************************************************************************)
EXTENDS Naturals, Sequences, FiniteSets, Functions

CONSTANTS
    Threads, Models,
    Scenes      \* what each thread executes; and the bounds: calls that fail, signals and
                \* kills

Works == [do : {"train", "evaluate"}, on : Models]
None == "none"

ASSUME TrainingAssumption ==
    /\ None \notin Models
    /\ \A s \in Scenes : /\ s.prog \in [Threads -> Seq(Works)]
                         /\ s.fails \in Nat /\ s.signals \in Nat /\ s.kills \in Nat

VARIABLES
    prog,        \* the executions of each thread
    budget,      \* calls that may still fail, signals, kills
    at, nth,     \* where each thread is, in which of its executions
    run,         \* its locals: the data directory, and the data it is for; is output_path
                 \* known, and the weights saved there; is it in the except clause
    entity,      \* self.model_entity: the execution it came with
    weights,     \* self.model
    local,       \* model.status of the object of each execution
    status,      \* at the service, of each model
    artifacts,   \* at the service, of each model
    dir,         \* the data directories: none, part or whole; and of which data
    terminated,  \* how often _threads_terminated holds each thread
    due,         \* signals on their way: executions
    predictions, \* at the service: by which execution, weights and name of which model
    faults,      \* history: what went wrong in each thread's execution
    meant,       \* history: executions that the platform wanted to end
    inherited,   \* history: executions whose thread got the signal of another one
    interrupted, \* history: executions that InterruptedError ended
    crossed,     \* history: executions during which another used the adapter, and those
                 \* that loaded what such an execution uploaded
    torn,        \* history: data directories left half filled, used while filled, or
                 \* filled by an execution in crossed
    ended        \* history: how the training of each model that ended last did; "lost"
                 \* when its status may not tell

runner == <<terminated, due, meant, inherited, interrupted>>
adapter == <<entity, weights>>
thread == <<at, nth, run>>
platform == <<local, status, artifacts, predictions>>
vars == <<prog, budget, thread, adapter, platform, dir, runner, faults, crossed, torn, ended>>

Over == {"returned", "raised", "killed"}
Busy(t) == at[t] \notin Over \cup {"idle"}
Id(t) == <<t, nth[t]>>
Work(id) == prog[id[1]][id[2]]
Mine(t) == Work(Id(t)).on
Trains(t) == Work(Id(t)).do = "train"
Ids == UNION {{<<t, i>> : i \in DOMAIN prog[t]} : t \in Threads}

NoWeights == [of |-> None, by |-> <<None, 0>>, path |-> <<None, None>>, full |-> FALSE]
NoPath == <<None, None>>

\* The data of a model: its data set, and the filters of its subset.
DataOf(m) == <<m, m>>
NoDir == [is |-> "none", of |-> {}]

NoRun == [path |-> NoPath, data |-> NoPath, ready |-> FALSE, out |-> NoWeights, rescue |-> FALSE]

Init ==
    \E s \in Scenes :
        /\ prog = s.prog
        /\ budget = [fails |-> s.fails, signals |-> s.signals, kills |-> s.kills]
        /\ at = [t \in Threads |-> "idle"] /\ nth = [t \in Threads |-> 0]
        /\ run = [t \in Threads |-> NoRun]
        /\ entity = <<None, 0>> /\ weights = NoWeights
        /\ local = <<>>
        /\ status = [m \in Models |-> "created"]
        /\ artifacts = [m \in Models |-> [NoWeights EXCEPT !.of = m]]
        /\ predictions = {}
        /\ dir = [p \in Models \X Models |-> NoDir]
        /\ terminated = [t \in Threads |-> 0]
        /\ due = {} /\ meant = {} /\ inherited = {} /\ interrupted = {}
        /\ faults = [t \in Threads |-> 0]
        /\ crossed = {} /\ torn = {} /\ ended = [m \in Models |-> "created"]
-----------------------------------------------------------------------------
Goto(t, label) == at' = [at EXCEPT ![t] = label] /\ UNCHANGED nth

\* An execution that set its entity and is not over shares the adapter with thread t.
Sharing(t) == {Id(u) : u \in {v \in Threads \ {t} :
                                  Busy(v) /\ at[v] \notin {"get", "start", "entity"}}}
CrossesOthers(t) == crossed' = crossed \cup Sharing(t)

\* The runner starts the next execution of a thread, with a model of its own; train_model
\* gets that of a dict from the service, before its try.
Start(t) ==
    /\ ~Busy(t) /\ nth[t] < Len(prog[t])
    /\ nth' = [nth EXCEPT ![t] = @ + 1] /\ run' = [run EXCEPT ![t] = NoRun]
    /\ LET work == prog[t][nth[t] + 1]
       IN /\ \E label \in IF work.do = "train" THEN {"get", "start"} ELSE {"entity"} :
                at' = [at EXCEPT ![t] = label]
          /\ local' = [id \in DOMAIN local \cup {<<t, nth[t] + 1>>} |->
                          IF id = <<t, nth[t] + 1>> THEN status[work.on] ELSE local[id]]
    /\ inherited' = IF terminated[t] > 0 THEN inherited \cup {<<t, nth[t] + 1>>} ELSE inherited
    /\ faults' = [faults EXCEPT ![t] = 0]
    /\ UNCHANGED <<prog, budget, adapter, status, artifacts, predictions, dir, terminated, due,
                   meant, interrupted, crossed, torn, ended>>

GetModel(t) ==
    /\ at[t] = "get"
    /\ local' = [local EXCEPT ![Id(t)] = status[Mine(t)]]
    /\ Goto(t, "start")
    /\ UNCHANGED <<prog, budget, run, adapter, status, artifacts, predictions, dir, runner, faults,
                   crossed, torn, ended>>

\* model.status = ...; model.update()
Labelled(t) == CASE at[t] = "start" -> "training"
                 [] at[t] = "trained" -> "trained"
                 [] at[t] = "failed" -> "failed"
After(t) == CASE at[t] = "start" -> "entity"
              [] at[t] = "trained" -> "returned"
              [] at[t] = "failed" -> "raised"

Update(t) ==
    /\ at[t] \in {"start", "trained", "failed"}
    /\ local' = [local EXCEPT ![Id(t)] = Labelled(t)]
    /\ status' = [status EXCEPT ![Mine(t)] = Labelled(t)]
    /\ Goto(t, After(t))
    /\ ended' = IF at[t] = "start" THEN ended ELSE [ended EXCEPT ![Mine(t)] = Labelled(t)]
    /\ UNCHANGED <<prog, budget, run, adapter, artifacts, predictions, dir, runner, faults, crossed,
                   torn>>

\* load_from_model: the entity first ...
SetEntity(t) ==
    /\ at[t] = "entity"
    /\ entity' = Id(t) /\ CrossesOthers(t)
    /\ Goto(t, "load")
    /\ UNCHANGED <<prog, budget, run, weights, platform, dir, runner, faults, torn, ended>>

\* ... then its artifacts, downloaded and loaded.
LoadedOnce(t) == IF weights.of # None THEN weights ELSE artifacts[Work(entity).on]
Loaded(t) == artifacts[Work(entity).on]

Load(t) ==
    /\ at[t] = "load"
    /\ weights' = Loaded(t)
    /\ crossed' = crossed \cup Sharing(t)
                    \cup IF artifacts[Work(entity).on].by \in crossed THEN {Id(t)} ELSE {}
    /\ Goto(t, IF Trains(t) THEN "prepare" ELSE "predict")
    /\ UNCHANGED <<prog, budget, run, entity, platform, dir, runner, faults, torn, ended>>

\* prepare_data reads self.model_entity three times: train_model passes its data set, the
\* directory of the data, below that of this model, is named after its data set ...
Pass(t) ==
    /\ at[t] = "prepare"
    /\ run' = [run EXCEPT ![t].data = <<Work(entity).on, @[2]>>]
    /\ Goto(t, "direct")
    /\ UNCHANGED <<prog, budget, adapter, platform, dir, runner, faults, crossed, torn, ended>>

Target(t) == <<Mine(t), Work(entity).on>>

Direct(t) ==
    /\ at[t] = "direct"
    /\ run' = [run EXCEPT ![t].path = Target(t)]
    /\ Goto(t, "subset")
    /\ UNCHANGED <<prog, budget, adapter, platform, dir, runner, faults, crossed, torn, ended>>

\* ... and the filters are those of its subset, whose directory, if it exists, is not
\* downloaded again.
FilledBy(t) == {run[u].path : u \in {v \in Threads \ {t} : at[v] = "fill"}}

MadeFirst(t) == FALSE
Missing(t) == dir[run[t].path].is = "none"

Prepare(t) ==
    /\ at[t] = "subset"
    /\ run' = [run EXCEPT ![t].data = <<@[1], Work(entity).on>>]
    /\ Goto(t, IF Missing(t) THEN "download" ELSE "convert")
    /\ torn' = IF Missing(t) THEN torn ELSE torn \cup ({run[t].path} \cap FilledBy(t))
    /\ UNCHANGED <<prog, budget, adapter, platform, dir, runner, faults, crossed, ended>>

\* The download begins: from now on the directory exists.
Download(t) ==
    /\ at[t] = "download"
    /\ dir' = [dir EXCEPT ![run[t].path] = [is |-> IF @.is = "none" THEN "part" ELSE @.is,
                                            of |-> @.of \cup {run[t].data}]]
    /\ torn' = IF Id(t) \in crossed THEN torn \cup {run[t].path} ELSE torn
    /\ Goto(t, "fill")
    /\ UNCHANGED <<prog, budget, run, adapter, platform, runner, faults, crossed, ended>>

\* The download ends, with items that failed or without: it raises for neither.
Fill(t) ==
    /\ at[t] = "fill"
    /\ \/ /\ dir' = [dir EXCEPT ![run[t].path].is = "whole"]
          /\ UNCHANGED <<budget, torn>>
       \/ /\ budget.fails > 0 /\ budget' = [budget EXCEPT !.fails = @ - 1]
          /\ torn' = torn \cup {run[t].path}
          /\ UNCHANGED dir
    /\ Goto(t, "convert")
    /\ UNCHANGED <<prog, run, adapter, platform, runner, faults, crossed, ended>>

\* prepare_data returns; only now is output_path known to train_model.
Convert(t) ==
    /\ at[t] = "convert"
    /\ run' = [run EXCEPT ![t].ready = TRUE] /\ Goto(t, "train")
    /\ UNCHANGED <<prog, budget, adapter, platform, dir, runner, faults, crossed, torn, ended>>

\* The train method of the package: the weights learn from the data.
AllOf(d, m) == d.is = "whole" /\ d.of = {DataOf(m)}

Train(t) ==
    /\ at[t] = "train"
    /\ weights' = [weights EXCEPT !.path = run[t].path, !.full = AllOf(dir[run[t].path], run[t].path[1])]
    /\ CrossesOthers(t)
    /\ Goto(t, "save")
    /\ UNCHANGED <<prog, budget, run, entity, platform, dir, runner, faults, torn, ended>>

\* save_to_model: the weights to output_path ...
Save(t) ==
    /\ at[t] = "save"
    /\ run' = [run EXCEPT ![t].out = weights] /\ Goto(t, "upload")
    /\ UNCHANGED <<prog, budget, adapter, platform, dir, runner, faults, crossed, torn, ended>>

\* ... and from there to the artifacts of the adapter's model; Artifacts.upload updates
\* that model, with the status its object holds.
Destination(t) == Work(entity).on
Uploaded(t) == [artifacts EXCEPT ![Destination(t)] = [run[t].out EXCEPT !.by = Id(t)]]

\* The end of the training of another model may not be told any more.
Misled(t, e) ==
    [m \in Models |-> IF m # Mine(t) /\ status'[m] # status[m] THEN "lost" ELSE e[m]]

Upload(t) ==
    /\ at[t] = "upload"
    /\ artifacts' = Uploaded(t)
    /\ status' = [status EXCEPT ![Destination(t)] = local[entity]]
    /\ ended' = Misled(t, ended)
    /\ Goto(t, IF run[t].rescue THEN "failed" ELSE "trained")
    /\ UNCHANGED <<prog, budget, run, adapter, local, predictions, dir, runner, faults, crossed, torn>>

\* predict_items: the weights predict, and the name of the adapter's model is put on the
\* predictions, which are uploaded.
Predict(t) ==
    /\ at[t] = "predict"
    /\ run' = [run EXCEPT ![t].out = weights] /\ Goto(t, "name")
    /\ UNCHANGED <<prog, budget, adapter, platform, dir, runner, faults, crossed, torn, ended>>

Name(t) ==
    /\ at[t] = "name"
    /\ predictions' = predictions \cup {[by |-> Id(t), of |-> run[t].out.of, name |-> Work(entity).on]}
    /\ Goto(t, "returned")
    /\ UNCHANGED <<prog, budget, run, adapter, local, status, artifacts, dir, runner, faults, crossed,
                   torn, ended>>
-----------------------------------------------------------------------------
\* The except clause of train_model saves what there is, once output_path is known; an
\* exception in it, before the try, or in evaluate_model, ends the execution.
Outside(t) == ~Trains(t) \/ run[t].rescue \/ at[t] = "get"
RaisedAtOnce(t) == IF ~Outside(t) /\ run[t].ready THEN "save" ELSE "raised"
Raised(t) ==
    IF Outside(t) THEN "raised" ELSE IF run[t].ready THEN "save" ELSE "failed"

Raise(t) ==
    /\ run' = [run EXCEPT ![t].rescue = ~Outside(t)] /\ Goto(t, Raised(t))
    /\ faults' = [faults EXCEPT ![t] = @ + 1]

\* One failure in the try can be told, but not another in the except clause.
EndsAs(t) ==
    IF Raised(t) = "raised" /\ Trains(t) /\ at[t] # "get"
    THEN [ended EXCEPT ![Mine(t)] = IF faults[t] = 0 THEN "failed" ELSE "lost"]
    ELSE ended

\* A call fails: nothing was done, or it was and the answer is lost.
Fail(t) ==
    /\ Busy(t) /\ at[t] # "entity"
    /\ budget.fails > 0 /\ budget' = [budget EXCEPT !.fails = @ - 1]
    /\ Raise(t)
    /\ local' = IF at[t] \in {"start", "trained", "failed"}
                THEN [local EXCEPT ![Id(t)] = Labelled(t)] ELSE local
    /\ status' \in {status} \cup
          CASE at[t] \in {"start", "trained", "failed"} ->
                   {[status EXCEPT ![Mine(t)] = Labelled(t)]}
            [] at[t] = "upload" -> {[status EXCEPT ![Destination(t)] = local[entity]]}
            [] OTHER -> {}
    /\ artifacts' \in {artifacts} \cup
          IF at[t] = "upload" THEN {Uploaded(t)} ELSE {}
    /\ ended' = Misled(t, EndsAs(t))
    /\ torn' = IF at[t] = "fill" THEN torn \cup {run[t].path} ELSE torn
    /\ UNCHANGED <<prog, adapter, predictions, dir, runner, crossed>>

\* The platform wants to end an execution; its agent finds the thread and calls
\* _terminate, by when the thread may be at another execution.
Decide(t) ==
    /\ Busy(t) /\ Id(t) \notin due
    /\ budget.signals > 0 /\ budget' = [budget EXCEPT !.signals = @ - 1]
    /\ due' = due \cup {Id(t)} /\ meant' = meant \cup {Id(t)}
    /\ UNCHANGED <<prog, thread, adapter, platform, dir, terminated, inherited, interrupted,
                   faults, crossed, torn, ended>>

Terminate(id) ==
    /\ id \in due /\ due' = due \ {id}
    /\ terminated' = [terminated EXCEPT ![id[1]] = @ + 1]
    /\ inherited' = IF Busy(id[1]) /\ Id(id[1]) # id THEN inherited \cup {Id(id[1])} ELSE inherited
    /\ UNCHANGED <<prog, budget, thread, adapter, platform, dir, meant, interrupted, faults, crossed,
                   torn, ended>>

\* kill_event, which the train method calls: the signal is taken and InterruptedError is
\* raised, an Exception as any other.
Anyone(t) == \E u \in Threads : terminated[u] > 0
Signalled(t) == terminated[t] > 0

KillEvent(t) ==
    /\ at[t] = "train" /\ Signalled(t)
    /\ terminated' = [terminated EXCEPT ![t] = @ - 1]
    /\ Raise(t)
    /\ interrupted' = interrupted \cup {Id(t)} /\ ended' = EndsAs(t)
    /\ UNCHANGED <<prog, budget, adapter, platform, dir, due, meant, inherited, crossed, torn>>

\* A training has begun that has not told its end.
Untold(t) == Busy(t) /\ Trains(t) /\ at[t] \notin {"get", "start"}

\* The process dies, and its memory with it; an execution is run again, or given up.
Kill ==
    /\ budget.kills > 0 /\ budget' = [budget EXCEPT !.kills = @ - 1]
    /\ \E again \in BOOLEAN :
          /\ at' = [t \in Threads |->
                      IF ~Busy(t) THEN at[t] ELSE IF again THEN "idle" ELSE "killed"]
          /\ nth' = [t \in Threads |-> IF again /\ Busy(t) THEN nth[t] - 1 ELSE nth[t]]
    /\ run' = [t \in Threads |-> NoRun]
    /\ torn' = torn \cup {run[t].path : t \in {u \in Threads : at[u] = "fill"}}
    /\ ended' = [m \in Models |->
                    IF \E t \in Threads : Untold(t) /\ Mine(t) = m THEN "lost" ELSE ended[m]]
    /\ entity' = <<None, 0>> /\ weights' = NoWeights
    /\ terminated' = [t \in Threads |-> 0]
    /\ UNCHANGED <<prog, platform, dir, due, meant, inherited, interrupted, faults, crossed>>

Step(t) ==
    \/ Start(t) \/ GetModel(t) \/ Update(t) \/ SetEntity(t) \/ Load(t)
    \/ Pass(t) \/ Direct(t) \/ Prepare(t) \/ Download(t) \/ Fill(t) \/ Convert(t)
    \/ Train(t) \/ Save(t) \/ Upload(t) \/ Predict(t) \/ Name(t)

Next ==
    \/ \E t \in Threads : Step(t) \/ Fail(t) \/ Decide(t) \/ KillEvent(t)
    \/ \E id \in due : Terminate(id)
    \/ Kill

Spec == Init /\ [][Next]_vars
-----------------------------------------------------------------------------
\* What an execution uploads, weights or predictions, is of its own model, unless another
\* execution loaded a model into the same adapter, or trained it, meanwhile, or it built on
\* what was uploaded in such a mix-up
\* (base_model_adapter.py:272, 307, 633).
OwnWork ==
    /\ \A m \in Models :
          LET by == artifacts[m].by
          IN by[1] # None /\ by \notin crossed => artifacts[m].of = m /\ Work(by).on = m
    /\ \A p \in predictions : p.by \notin crossed => p.of = Work(p.by).on /\ p.name = p.of

\* A model is trained on all its own data and no other, unless a download into its
\* directory failed, was killed, was still running when the directory was found there, or
\* was of an execution that others disturbed, as the training may have been itself
\* (base_model_adapter.py:229, 243-255, 447).
WholeData ==
    \A m \in Models :
        LET w == artifacts[m]
        IN w.path # NoPath /\ w.by \notin crossed => (w.path = <<m, m>> /\ w.full) \/ w.path \in torn

\* When nobody trains a model any more its status tells how the last training ended that
\* came as far as its try.  Only a kill, a failure in the except clause after another in the
\* try, or an upload by an execution of another model leave something else, as "training"
\* (base_model_adapter.py:421-425, 468, 474-481).
EndIsTold ==
    \A m \in Models :
        (\E t \in Threads : Untold(t) /\ Mine(t) = m) \/ ended[m] \in {status[m], "lost"}

\* An execution is interrupted only when the platform meant it to, unless its thread got
\* the signal of another: a late one, a repeated one or one that its predecessor on the
\* thread did not take (base_package_runner.py:23-32).
InterruptedIfMeant ==
    \A id \in interrupted : id \in meant \/ id \in inherited
=============================================================================
