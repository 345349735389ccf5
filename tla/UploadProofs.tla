---------------------------- MODULE UploadProofs ----------------------------
(***************************************************************************)
(* Proofs about Upload, for any number of elements, paths, permits and      *)
(* tries: its types, the conservation of the semaphore's permits, the items *)
(* and the annotations of what is reported a success, and the report.       *)
(* Below them those about Reporter, which uploads and downloads file with,  *)
(* for any workers, calls and chunk: what it keeps and what it counts.      *)
(***************************************************************************)
EXTENDS Upload, Reporter, FiniteSetTheorems, TLAPS

Holders == {e \in Elements : pc[e] \in Holding}

\* A coroutine about to try has a try left: what makes the bound on attempt hold.
TryLeft == \A e \in Elements :
    /\ pc[e] = "try" => attempt[e] < NUM_TRIES
    /\ pc[e] \in {"new", "queued"} => attempt[e] = 0

\* What the coroutines conclude and what the reporter keeps of it.
ReportTypes ==
    /\ outcome \in [Elements -> {"none", "success", "error"}]
    /\ successOf \in [Refs -> {"none", "true", "false"}]
    /\ statusOf \in [Refs -> Ops \cup {"none", "error"}]
    /\ flushed \subseteq Elements

\* What is typed without knowing that permits are conserved.
Shape ==
    /\ mode \in {"skip", "overwrite"} /\ sizeOf \in SizesOf
    /\ main \in {"building", "draining", "returned", "raised"}
    /\ next \in 1..(N + 1) /\ drain \in 1..(N + 1)
    /\ pc \in [Elements -> PCs]
    /\ sem \in Nat
    /\ attempt \in [Elements -> 0..NUM_TRIES]
    /\ temp \in [Elements -> {"none", "present", "removed"}]
    /\ dataset \in [Names -> [ver : Nat, size : Stored]]
    /\ owner \in [Names -> Elements \cup {0}]
    /\ answer \in [Elements -> Answers]
    /\ annotated \in [Elements -> {"no", "handed", "logged"}]
    /\ ReportTypes
    /\ TryLeft

\* Updating a function at a point with a value of its range keeps its type.
LEMMA ExceptType ==
    ASSUME NEW S, NEW T, NEW f \in [S -> T], NEW x \in S, NEW v \in T
    PROVE  [f EXCEPT ![x] = v] \in [S -> T]
  OBVIOUS

-----------------------------------------------------------------------------
(* The steps of a coroutine, seen from the permits. *)

\* The set of coroutines that hold a permit is finite.
LEMMA HoldersFinite ==
    ASSUME Shape
    PROVE  IsFiniteSet(Holders) /\ IsFiniteSet(Elements) /\ Cardinality(Holders) \in Nat
  <1>1. IsFiniteSet(Elements)
    BY FS_Interval, UploadAssumption DEF Elements
  <1>2. Holders \subseteq Elements
    BY DEF Holders
  <1>3. IsFiniteSet(Holders)
    BY <1>1, <1>2, FS_Subset
  <1> QED
    BY <1>1, <1>3, FS_CardinalityType

\* A coroutine that leaves the async with block is one holder less.
LEMMA LeaveHolders ==
    ASSUME Shape, NEW e \in Elements, pc[e] \in Holding, NEW v \in PCs \ Holding,
           pc' = [pc EXCEPT ![e] = v]
    PROVE  Cardinality(Holders') = Cardinality(Holders) - 1
  <1>1. Holders' = Holders \ {e} /\ e \in Holders
    BY DEF Shape, Holders
  <1> QED
    BY <1>1, HoldersFinite, FS_RemoveElement

\* One that takes a permit is one more.
LEMMA EnterHolders ==
    ASSUME Shape, NEW e \in Elements, pc[e] \notin Holding, NEW v \in Holding,
           pc' = [pc EXCEPT ![e] = v]
    PROVE  Cardinality(Holders') = Cardinality(Holders) + 1
  <1>1. Holders' = Holders \cup {e} /\ e \notin Holders
    BY DEF Shape, Holders
  <1> QED
    BY <1>1, HoldersFinite, FS_AddElement

\* Any other move of a coroutine leaves the holders as they are.
LEMMA SameHolders ==
    ASSUME Shape, NEW e \in Elements, NEW v \in PCs,
           (pc[e] \in Holding) <=> (v \in Holding),
           pc' = [pc EXCEPT ![e] = v]
    PROVE  Holders' = Holders
  BY DEF Shape, Holders

-----------------------------------------------------------------------------
(* Shape and permits. *)

\* Conservation, over the name used in the lemmas.
Permit == sem + Cardinality(Holders) = Permits

\* Filing an entry, flushed or not, concludes the coroutine and gives its permit back.
LEMMA FinishStep ==
    ASSUME Shape, Permit, NEW e \in Elements, NEW ref \in Refs,
           NEW status \in Ops \cup {"error"}, NEW ok \in BOOLEAN,
           pc[e] \in Holding, Finish(e, ref, status, ok)
    PROVE  /\ \E v \in {"done", "raised"} : pc' = [pc EXCEPT ![e] = v]
           /\ pc' \in [Elements -> PCs] /\ sem' \in Nat
           /\ ReportTypes' /\ Permit'
  <1>1. PICK v \in {"done", "raised"} : pc' = [pc EXCEPT ![e] = v]
    BY DEF Finish, File
  <1>2. pc' \in [Elements -> PCs]
    BY <1>1, ExceptType DEF Shape, PCs
  <1>3. Cardinality(Holders') = Cardinality(Holders) - 1
    BY <1>1, LeaveHolders DEF PCs, Holding
  <1>4. sem' = sem + 1 /\ sem \in Nat
    BY DEF Finish, Shape
  <1>5. Permit' /\ sem' \in Nat
    BY <1>3, <1>4, HoldersFinite DEF Permit
  <1>6. outcome' \in [Elements -> {"none", "success", "error"}]
    BY ExceptType DEF Finish, Shape, ReportTypes
  <1>7. ReportTypes'
    <2> DEFINE S == [successOf EXCEPT ![ref] = IF ok THEN "true" ELSE "false"]
               T == [statusOf EXCEPT ![ref] = status]
    <2>1. /\ S \in [Refs -> {"none", "true", "false"}]
          /\ T \in [Refs -> Ops \cup {"none", "error"}]
          /\ Unfiled \in [Refs -> {"none"}]
      BY ExceptType DEF Shape, ReportTypes, Unfiled
    <2>2. /\ successOf' \in {S, Unfiled} /\ statusOf' \in {T, Unfiled}
          /\ flushed' \in {flushed, Concluded \cup {e}}
      BY DEF Finish, File
    <2>3. flushed' \subseteq Elements
      BY <2>2 DEF Shape, ReportTypes, Concluded
    <2> QED
      BY <2>1, <2>2, <2>3, <1>6 DEF ReportTypes
  <1> QED
    BY <1>1, <1>2, <1>5, <1>7

\* A failed try keeps types and permits, whether it is the last or not.
LEMMA FailTryStep ==
    ASSUME Shape, Permit, NEW e \in Elements, NEW n \in 0..NUM_TRIES,
           pc[e] \in Holding, FailTry(e, n),
           attempt' = [attempt EXCEPT ![e] = n]
    PROVE  /\ pc' \in [Elements -> PCs] /\ sem' \in Nat
           /\ temp' \in [Elements -> {"none", "present", "removed"}]
           /\ ReportTypes' /\ TryLeft' /\ Permit'
  <1>0. SourceOf[e] \in Refs
    BY UploadAssumption DEF Refs
  <1>1. temp' \in [Elements -> {"none", "present", "removed"}]
    BY DEF FailTry, DropTemp, Shape
  <1>2. CASE n < NUM_TRIES
    <2>1. pc' = [pc EXCEPT ![e] = "try"] /\ UNCHANGED <<sem, report>>
      BY <1>2 DEF FailTry, MoreTries
    <2>2. Holders' = Holders
      BY <2>1, SameHolders DEF PCs, Holding
    <2>3. TryLeft'
      BY <2>1, <1>2, UploadAssumption DEF TryLeft, Shape
    <2> QED
      BY <2>1, <2>2, <2>3, <1>1 DEF Shape, ReportTypes, report, ReportTypes, Permit, PCs
  <1>3. CASE ~(n < NUM_TRIES)
    <2>1. Finish(e, SourceOf[e], "error", FALSE)
      BY <1>3 DEF FailTry, MoreTries
    <2>2. PICK v \in {"done", "raised"} : pc' = [pc EXCEPT ![e] = v]
      BY <1>0, <2>1, FinishStep
    <2>3. TryLeft'
      BY <2>2 DEF TryLeft, Shape
    <2> QED
      BY <2>1, <2>3, <1>0, <1>1, FinishStep
  <1> QED
    BY <1>2, <1>3

\* A try that got an item keeps types and permits.
LEMMA GotItemStep ==
    ASSUME Shape, Permit, NEW e \in Elements, NEW op \in Ops,
           pc[e] \in Holding, GotItem(e, op),
           \A f \in Elements \ {e} : attempt'[f] = attempt[f]
    PROVE  /\ pc' \in [Elements -> PCs] /\ sem' \in Nat
           /\ temp' \in [Elements -> {"none", "present", "removed"}]
           /\ ReportTypes' /\ TryLeft' /\ Permit'
  <1>0. NameOf[e] \in Refs
    BY UploadAssumption DEF Refs
  <1>1. temp' \in [Elements -> {"none", "present", "removed"}]
    BY DEF GotItem, DropTemp, Shape
  <1>2. CASE pc' = [pc EXCEPT ![e] = "annotate"] /\ UNCHANGED <<sem, report>>
    <2>1. Holders' = Holders
      BY <1>2, SameHolders DEF PCs, Holding
    <2>2. TryLeft'
      BY <1>2 DEF TryLeft, Shape
    <2> QED
      BY <1>2, <2>1, <2>2, <1>1 DEF Shape, ReportTypes, report, ReportTypes, Permit, PCs
  <1>3. CASE Finish(e, NameOf[e], op, TRUE)
    <2>1. PICK v \in {"done", "raised"} : pc' = [pc EXCEPT ![e] = v]
      BY <1>0, <1>3, FinishStep
    <2>2. TryLeft'
      BY <2>1 DEF TryLeft, Shape
    <2> QED
      BY <1>3, <2>2, <1>0, <1>1, FinishStep
  <1> QED
    BY <1>2, <1>3 DEF GotItem

\* What is not built yet has no coroutine.
Unbuilt == \A e \in Elements : e >= next => pc[e] = "new"

\* The inductive invariant for types and permits.
PermitInv == Shape /\ Permit /\ Unbuilt

LEMMA InitPermitInv == Init => PermitInv
  <1> SUFFICES ASSUME Init PROVE PermitInv
    OBVIOUS
  <1> USE UploadAssumption
  <1>1. Shape
    BY DEF Init, Shape, TryLeft, PCs, ReportTypes, Unfiled, NoAnswer, Answers, Ops, Stored, Absent, Elements
  <1>2. Holders = {}
    BY DEF Init, Holders, Holding
  <1>3. Permit
    BY <1>2, FS_EmptySet DEF Permit, Init
  <1> QED
    BY <1>1, <1>3 DEF PermitInv, Unbuilt, Init

\* The calling thread holds no permit and types stay.
LEMMA ThreadStep ==
    ASSUME PermitInv, Thread
    PROVE  PermitInv'
  <1> USE UploadAssumption
  <1>1. CASE Submit
    <2>1. next \in Elements /\ pc[next] = "new" /\ next' = next + 1
      BY <1>1 DEF Submit, PermitInv, Shape, Elements, Unbuilt
    <2>2. pc' = [pc EXCEPT ![next] = "queued"]
      BY <1>1 DEF Submit
    <2>3. Shape'
      BY <1>1, <2>1 DEF Submit, PermitInv, Shape, TryLeft, PCs, given, service, report, ReportTypes, Elements
    <2>4. Holders' = Holders
      BY <2>1, <2>2, SameHolders DEF PermitInv, PCs, Holding
    <2>5. Unbuilt'
      BY <2>1, <2>2 DEF PermitInv, Shape, Unbuilt, Elements
    <2> QED
      BY <1>1, <2>3, <2>4, <2>5 DEF Submit, PermitInv, Permit
  <1>2. CASE BuildFails \/ StartDraining \/ DrainOne \/ Return
    <2>1. UNCHANGED <<given, next, pc, sem, attempt, temp, service, answer, annotated, report>>
      BY <1>2 DEF BuildFails, StartDraining, DrainOne, Return
    <2>2. /\ main' \in {"building", "draining", "returned", "raised"}
          /\ drain' \in 1..(N + 1)
      BY <1>2 DEF BuildFails, StartDraining, DrainOne, Return, PermitInv, Shape
    <2>3. Shape'
      BY <2>1, <2>2 DEF PermitInv, Shape, TryLeft, given, service, report, ReportTypes
    <2> QED
      BY <2>1, <2>3 DEF PermitInv, Permit, Holders, Unbuilt
  <1> QED
    BY <1>1, <1>2 DEF Thread

\* Starting takes a permit, unless fetching the url raises.
LEMMA StartStep ==
    ASSUME PermitInv, NEW e \in Elements, Start(e)
    PROVE  PermitInv'
  <1> USE UploadAssumption
  <1>1. pc[e] = "queued" /\ sem > 0 /\ UNCHANGED <<thread, attempt, service, answer, annotated, report>>
    BY DEF Start
  <1>2. temp' \in [Elements -> {"none", "present", "removed"}]
    BY DEF Start, PermitInv, Shape
  <1>3. CASE pc' = [pc EXCEPT ![e] = "try"] /\ sem' = sem - 1
    <2>1. Cardinality(Holders') = Cardinality(Holders) + 1
      BY <1>1, <1>3, EnterHolders DEF PermitInv, Holding
    <2>2. Permit' /\ sem' \in Nat
      BY <1>1, <1>3, <2>1, HoldersFinite DEF Permit, PermitInv, Shape
    <2>3. Shape' /\ Unbuilt'
      BY <1>1, <1>2, <1>3, <2>2 DEF PermitInv, Shape, TryLeft, Unbuilt, PCs, thread, given, service, report, ReportTypes
    <2> QED
      BY <2>2, <2>3 DEF PermitInv
  <1>4. CASE pc' = [pc EXCEPT ![e] = "raised"] /\ sem' = PermitsAfterRaise
    <2>1. Holders' = Holders
      BY <1>1, <1>4, SameHolders DEF PermitInv, PCs, Holding
    <2>2. Shape' /\ Unbuilt'
      BY <1>1, <1>2, <1>4 DEF PermitInv, Shape, TryLeft, Unbuilt, PCs, thread, given, service, report, ReportTypes, PermitsAfterRaise
    <2> QED
      BY <2>1, <2>2, <1>4 DEF PermitInv, Permit, PermitsAfterRaise
  <1> QED
    BY <1>3, <1>4 DEF Start

\* Only the coroutine that moves changes its pc, and a moved one was built.
LEMMA UnbuiltStep ==
    ASSUME PermitInv, NEW e \in Elements, pc[e] # "new", next' = next,
           \E v \in PCs : pc' = [pc EXCEPT ![e] = v]
    PROVE  Unbuilt'
  BY DEF PermitInv, Shape, Unbuilt

\* The pc after the end of a try.
LEMMA TryMoves ==
    ASSUME NEW e \in Elements, NEW n, NEW op, FailTry(e, n) \/ GotItem(e, op)
    PROVE  \E v \in PCs : pc' = [pc EXCEPT ![e] = v]
  BY DEF FailTry, GotItem, Finish, File, PCs

\* What the service may answer and hold is of its type.
LEMMA HandleStep ==
    ASSUME PermitInv, NEW e \in Elements, Handle(e)
    PROVE  PermitInv'
  <1> USE UploadAssumption
  <1>1. /\ pc[e] = "sent" /\ pc' = [pc EXCEPT ![e] = "answered"]
        /\ UNCHANGED <<thread, sem, attempt, temp, annotated, report>>
    BY DEF Handle
  <1>2. NameOf[e] \in Names /\ NoAnswer \in Answers
    BY DEF NoAnswer, Answers, Ops, Stored, Absent
  <1>3. /\ dataset' \in [Names -> [ver : Nat, size : Stored]]
        /\ owner' \in [Names -> Elements \cup {0}]
        /\ answer' \in [Elements -> Answers]
    <2> DEFINE n == NameOf[e]
               old == dataset[n]
    <2>0. old \in [ver : Nat, size : Stored]
      BY <1>2 DEF PermitInv, Shape
    <2>1. CASE answer' = [answer EXCEPT ![e] = NoAnswer] /\ UNCHANGED service
      BY <2>1, <1>2 DEF service, PermitInv, Shape
    <2>2. ASSUME NEW lost \in BOOLEAN, NEW op \in Ops, NEW v \in Nat, NEW c \in Stored,
                 Respond(e, lost, op, v, c)
          PROVE  owner' \in [Names -> Elements \cup {0}] /\ answer' \in [Elements -> Answers]
      <3>1. [ok |-> TRUE, op |-> op, ver |-> v, size |-> c] \in Answers
        BY DEF Answers
      <3> QED
        BY <2>2, <3>1, <1>2 DEF Respond, PermitInv, Shape
    <2>3. ASSUME NEW lost \in BOOLEAN, NEW c \in Sizes, NEW op \in {"created", "overwrite"},
                 NEW v \in {old.ver, old.ver + 1}, Store(e, lost, op, v, c)
          PROVE  <1>3
      <3>1. v \in Nat /\ c \in Stored /\ op \in Ops
        BY <2>0 DEF Stored, Ops
      <3>2. dataset' \in [Names -> [ver : Nat, size : Stored]]
        BY <2>3, <3>1, <1>2 DEF Store, PermitInv, Shape, Stored
      <3> QED
        BY <2>2, <2>3, <3>1, <3>2 DEF Store
    <2>4. CASE \E lost \in BOOLEAN : Respond(e, lost, "skip", old.ver, old.size) /\ UNCHANGED dataset
      BY <2>0, <2>2, <2>4 DEF Ops, PermitInv, Shape
    <2> QED
      BY <2>1, <2>3, <2>4 DEF Handle
  <1>4. Holders' = Holders
    BY <1>1, SameHolders DEF PermitInv, PCs, Holding
  <1>5. Shape'
    BY <1>1, <1>3 DEF PermitInv, Shape, TryLeft, PCs, thread, given, report, ReportTypes
  <1>6. Unbuilt'
    BY <1>1, UnbuiltStep DEF PCs, thread, given
  <1> QED
    BY <1>1, <1>4, <1>5, <1>6 DEF PermitInv, Permit

\* Beginning a try: it fails before the request, or the request leaves.
LEMMA BeginStep ==
    ASSUME PermitInv, NEW e \in Elements, FailLocally(e) \/ Send(e)
    PROVE  PermitInv'
  <1> USE UploadAssumption
  <1>1. /\ pc[e] = "try" /\ attempt' = [attempt EXCEPT ![e] = @ + 1]
        /\ UNCHANGED <<thread, service, answer, annotated>>
    BY DEF FailLocally, Send
  <1>2. attempt[e] + 1 \in 0..NUM_TRIES /\ attempt' \in [Elements -> 0..NUM_TRIES]
    BY <1>1 DEF PermitInv, Shape, TryLeft
  <1>3. CASE FailLocally(e)
    <2>1. FailTry(e, attempt[e] + 1) /\ attempt' = [attempt EXCEPT ![e] = attempt[e] + 1]
      BY <1>1, <1>3 DEF FailLocally, PermitInv, Shape
    <2>2. Unbuilt'
      BY <1>1, <2>1, TryMoves, UnbuiltStep DEF thread, given
    <2> QED
      BY <1>1, <1>2, <2>1, <2>2, FailTryStep DEF PermitInv, Shape, Holding, thread, given, service
  <1>4. CASE Send(e)
    <2>1. pc' = [pc EXCEPT ![e] = "sent"] /\ UNCHANGED <<sem, temp, report>>
      BY <1>4 DEF Send
    <2>2. Holders' = Holders
      BY <1>1, <2>1, SameHolders DEF PermitInv, PCs, Holding
    <2>3. Unbuilt'
      BY <1>1, <2>1, UnbuiltStep DEF PCs, thread, given
    <2> QED
      BY <1>1, <1>2, <2>1, <2>2, <2>3 DEF PermitInv, Permit, Shape, TryLeft, PCs, thread, given, service, report, ReportTypes
  <1> QED
    BY <1>3, <1>4

\* An import: one blocking request and the end of the try.
LEMMA ImportStep ==
    ASSUME PermitInv, NEW e \in Elements, Import(e)
    PROVE  PermitInv'
  <1> USE UploadAssumption
  <1>1. /\ pc[e] = "try" /\ attempt' = [attempt EXCEPT ![e] = @ + 1]
        /\ answer' = [answer EXCEPT ![e] = [NoAnswer EXCEPT !.op = "created"]]
        /\ UNCHANGED <<thread, annotated>>
    BY DEF Import
  <1>2. attempt[e] + 1 \in 0..NUM_TRIES /\ attempt' \in [Elements -> 0..NUM_TRIES]
    BY <1>1 DEF PermitInv, Shape, TryLeft
  <1>3. answer' \in [Elements -> Answers]
    BY <1>1 DEF PermitInv, Shape, Answers, NoAnswer, Ops, Stored, Absent
  <1>4. dataset' \in [Names -> [ver : Nat, size : Stored]] /\ owner' \in [Names -> Elements \cup {0}]
    <2> DEFINE n == NameOf[e]
    <2>1. \/ UNCHANGED service
          \/ /\ dataset' = [dataset EXCEPT ![n] = [ver |-> dataset[n].ver + 1, size |-> sizeOf[e]]]
             /\ owner' = [owner EXCEPT ![n] = e]
      BY DEF Import, PermitInv, Shape
    <2>2. /\ dataset \in [Names -> [ver : Nat, size : Stored]]
          /\ owner \in [Names -> Elements \cup {0}]
      BY DEF PermitInv, Shape
    <2>3. n \in Names /\ dataset[n].ver + 1 \in Nat
      BY <2>2
    <2>4. [ver |-> dataset[n].ver + 1, size |-> sizeOf[e]] \in [ver : Nat, size : Stored]
      BY <2>3, UploadAssumption DEF Stored, Absent, PermitInv, Shape
    <2>5. [dataset EXCEPT ![n] = [ver |-> dataset[n].ver + 1, size |-> sizeOf[e]]]
             \in [Names -> [ver : Nat, size : Stored]]
      BY <2>2, <2>3, <2>4, ExceptType
    <2>6. CASE UNCHANGED service
      BY <2>2, <2>6 DEF service
    <2>7. CASE ~UNCHANGED service
      <3>1. owner' = [owner EXCEPT ![n] = e] /\ e \in Elements \cup {0}
        BY <2>1, <2>7
      <3>2. owner' \in [Names -> Elements \cup {0}]
        BY <3>1, <2>2, <2>3, ExceptType
      <3>3. dataset' \in [Names -> [ver : Nat, size : Stored]]
        BY <2>1, <2>7, <2>5
      <3> QED
        BY <3>2, <3>3
    <2> QED
      BY <2>6, <2>7
  <1>5. CASE FailTry(e, attempt[e] + 1)
    <2>1. Unbuilt'
      BY <1>1, <1>5, TryMoves, UnbuiltStep DEF thread, given
    <2> QED
      BY <1>1, <1>2, <1>3, <1>4, <1>5, <2>1, FailTryStep DEF PermitInv, Shape, Holding, thread, given
  <1>6. ASSUME NEW op \in {"created", "skip"}, GotItem(e, op)
        PROVE  PermitInv'
    <2>1. Unbuilt'
      BY <1>1, <1>6, TryMoves, UnbuiltStep DEF thread, given
    <2>2. \A f \in Elements \ {e} : attempt'[f] = attempt[f]
      BY <1>1 DEF PermitInv, Shape
    <2> QED
      BY <1>1, <1>2, <1>3, <1>4, <1>6, <2>1, <2>2, GotItemStep DEF PermitInv, Shape, Holding, thread, given, Ops
  <1> QED
    BY <1>5, <1>6 DEF Import

\* Resuming with the answer.
LEMMA ResumeStep ==
    ASSUME PermitInv, NEW e \in Elements, Resume(e)
    PROVE  PermitInv'
  <1> USE UploadAssumption
  <1>1. pc[e] = "answered" /\ UNCHANGED <<thread, attempt, answer, annotated>>
    BY DEF Resume
  <1>2. dataset' \in [Names -> [ver : Nat, size : Stored]] /\ owner' \in [Names -> Elements \cup {0}]
    <2> DEFINE n == NameOf[e]
    <2>1. \/ UNCHANGED service
          \/ /\ dataset' = [dataset EXCEPT ![n].size = Absent]
             /\ owner' = [owner EXCEPT ![n] = 0]
      BY DEF Resume
    <2>2. /\ dataset \in [Names -> [ver : Nat, size : Stored]]
          /\ owner \in [Names -> Elements \cup {0}]
      BY DEF PermitInv, Shape
    <2>3. [dataset EXCEPT ![n].size = Absent] \in [Names -> [ver : Nat, size : Stored]]
      BY <2>2 DEF Stored, Absent
    <2> QED
      BY <2>1, <2>2, <2>3 DEF service
  <1>3. answer[e].op \in Ops /\ attempt[e] \in 0..NUM_TRIES /\ attempt' = [attempt EXCEPT ![e] = attempt[e]]
    BY <1>1 DEF PermitInv, Shape, Answers
  <1>4. CASE FailTry(e, attempt[e])
    <2>1. Unbuilt'
      BY <1>1, <1>4, TryMoves, UnbuiltStep DEF thread, given
    <2> QED
      BY <1>1, <1>2, <1>3, <1>4, <2>1, FailTryStep DEF PermitInv, Shape, Holding, thread, given
  <1>5. CASE GotItem(e, answer[e].op)
    <2>1. Unbuilt'
      BY <1>1, <1>5, TryMoves, UnbuiltStep DEF thread, given
    <2> QED
      BY <1>1, <1>2, <1>3, <1>5, <2>1, GotItemStep DEF PermitInv, Shape, Holding, thread, given
  <1> QED
    BY <1>4, <1>5 DEF Resume

\* Filing the entry after the annotations.
LEMMA AnnotateStep ==
    ASSUME PermitInv, NEW e \in Elements, Annotate(e)
    PROVE  PermitInv'
  <1> USE UploadAssumption
  <1>1. /\ pc[e] = "annotate" /\ Finish(e, NameOf[e], answer[e].op, TRUE)
        /\ annotated' \in [Elements -> {"no", "handed", "logged"}]
        /\ UNCHANGED <<thread, attempt, temp, service, answer>>
    BY ZenonT(40) DEF Annotate, PermitInv, Shape
  <1>2. answer[e].op \in Ops /\ NameOf[e] \in Refs /\ pc[e] \in Holding
    BY <1>1 DEF PermitInv, Shape, Answers, Refs, Holding
  <1>3. PICK v \in {"done", "raised"} : pc' = [pc EXCEPT ![e] = v]
    BY <1>1, <1>2, FinishStep DEF PermitInv
  <1>4. Permit' /\ ReportTypes' /\ sem' \in Nat /\ pc' \in [Elements -> PCs]
    BY <1>1, <1>2, FinishStep DEF PermitInv
  <1>5. Unbuilt'
    BY <1>1, <1>3, UnbuiltStep DEF PCs, thread, given
  <1>6. TryLeft'
    BY <1>1, <1>3 DEF PermitInv, Shape, TryLeft
  <1> QED
    BY <1>1, <1>4, <1>5, <1>6 DEF PermitInv, Shape, thread, given, service

\* Every step keeps the invariant.
LEMMA NextPermitInv == PermitInv /\ [Next]_vars => PermitInv'
  <1> SUFFICES ASSUME PermitInv, [Next]_vars PROVE PermitInv'
    OBVIOUS
  <1>1. CASE Thread
    BY <1>1, ThreadStep
  <1>2. ASSUME NEW e \in Elements, Coroutine(e) \/ Handle(e)
        PROVE  PermitInv'
    BY <1>2, StartStep, BeginStep, ImportStep, ResumeStep, AnnotateStep, HandleStep DEF Coroutine
  <1>3. CASE UNCHANGED vars
    BY <1>3 DEF vars, thread, given, service, report, ReportTypes, PermitInv, Shape, TryLeft, Permit, Holders, Unbuilt
  <1> QED
    BY <1>1, <1>2, <1>3 DEF Next, Done

\* The invariant implies the type invariant: sem cannot exceed Permits.
LEMMA PermitInvTypes == PermitInv => TypeOK /\ PermitsConserved
  <1> SUFFICES ASSUME PermitInv PROVE TypeOK /\ PermitsConserved
    OBVIOUS
  <1>1. sem \in 0..Permits
    BY HoldersFinite, FS_CardinalityType, UploadAssumption DEF PermitInv, Permit, Shape
  <1> QED
    BY <1>1 DEF PermitInv, Permit, Holders, Shape, ReportTypes, TypeOK, PermitsConserved

\* The invariant holds throughout.
LEMMA PermitInvAlways == Spec => []PermitInv
  BY InitPermitInv, NextPermitInv, PTL DEF Spec

\* Type correctness of the coroutines, the service and the reporter's entries.
THEOREM UploadTypes == Spec => []TypeOK
  BY PermitInvAlways, PermitInvTypes, PTL

\* No path out of a coroutine leaks a permit of the semaphore 'items.upload' or
\* returns one twice, whatever the number of elements, permits and tries.
THEOREM UploadPermits == Spec => []PermitsConserved
  BY PermitInvAlways, PermitInvTypes, PTL
-----------------------------------------------------------------------------
(* mode skip: a success keeps its item. *)

\* The elements of the path of f have one size.
OneSize(f) == pc[f] # "new" /\ \A e \in Peers(NameOf[f]) : sizeOf[e] = sizeOf[f]

\* What a coroutine relies on: the item of its size it was told of, or is about to
\* report, is there; and one of another size it is about to delete by id is either
\* still of another size or already replaced under a new id.
Claim(e) ==
    LET d == dataset[NameOf[e]]
        a == answer[e]
    IN  /\ pc[e] = "answered" /\ a.ok /\ a.size = sizeOf[e] => d.size = sizeOf[e]
        /\ pc[e] = "answered" /\ a.ok /\ a.size # sizeOf[e] =>
              d.ver >= a.ver /\ (d.ver = a.ver => d.size # sizeOf[e])
        /\ KindOf[e] # "external_file" /\ (pc[e] = "annotate" \/ outcome[e] = "success") =>
              d.size = sizeOf[e]

Claims == \A e \in Elements : OneSize(e) => Claim(e)

\* What a step may do to the item of f in mode skip.
GrowsFor(f) ==
    LET n == NameOf[f] IN
    /\ dataset[n].size = sizeOf[f] => dataset'[n] = dataset[n]
    /\ dataset'[n].ver >= dataset[n].ver
    /\ dataset'[n].ver = dataset[n].ver /\ dataset'[n].size = sizeOf[f] => dataset[n].size = sizeOf[f]
Grows == \A f \in Elements : OneSize(f) => GrowsFor(f)

\* Coroutines leave the elements of a path and their sizes as they are.
LEMMA SizeStays ==
    ASSUME PermitInv, NEW e \in Elements, pc[e] # "new", pc'[e] # "new", UNCHANGED sizeOf,
           \A f \in Elements \ {e} : pc'[f] = pc[f]
    PROVE  \A f \in Elements : OneSize(f)' <=> OneSize(f)
  BY UploadAssumption DEF OneSize, Peers

\* The size of an element is not that of an absent item.
LEMMA ItemTypes ==
    ASSUME PermitInv, NEW e \in Elements
    PROVE  /\ sizeOf[e] \in Sizes /\ sizeOf[e] # Absent
           /\ NameOf[e] \in Names /\ dataset \in [Names -> [ver : Nat, size : Stored]]
           /\ dataset[NameOf[e]].ver \in Nat
  <1>1. sizeOf \in [Elements -> Sizes] /\ Sizes \subseteq Nat
    BY UploadAssumption DEF PermitInv, Shape
  <1>2. sizeOf[e] \in Sizes /\ sizeOf[e] \in Nat
    BY <1>1
  <1>3. sizeOf[e] # Absent
    BY <1>2 DEF Absent
  <1>4. NameOf[e] \in Names /\ dataset \in [Names -> [ver : Nat, size : Stored]]
    BY UploadAssumption DEF PermitInv, Shape
  <1>5. dataset[NameOf[e]].ver \in Nat
    BY <1>4
  <1> QED
    BY <1>2, <1>3, <1>4, <1>5

\* Peers of one size.
LEMMA PeersAlike ==
    ASSUME NEW e \in Elements, NEW f \in Elements, pc[e] # "new", OneSize(f),
           NameOf[f] = NameOf[e]
    PROVE  OneSize(e) /\ sizeOf[e] = sizeOf[f]
  BY DEF OneSize, Peers

\* A step on the item of e alone that keeps it in this way does so for all.
LEMMA GrowsAll ==
    ASSUME PermitInv, NEW e \in Elements, pc[e] # "new",
           \A m \in Names \ {NameOf[e]} : dataset'[m] = dataset[m],
           OneSize(e) => GrowsFor(e)
    PROVE  Grows
  <1> SUFFICES ASSUME NEW f \in Elements, OneSize(f) PROVE GrowsFor(f)
    BY DEF Grows
  <1>1. NameOf[f] \in Names /\ dataset[NameOf[f]].ver \in Nat
    BY UploadAssumption DEF PermitInv, Shape
  <1>2. CASE NameOf[f] = NameOf[e]
    BY <1>2, PeersAlike DEF GrowsFor
  <1>3. CASE NameOf[f] # NameOf[e]
    BY <1>1, <1>3 DEF GrowsFor
  <1> QED
    BY <1>2, <1>3

\* A claim survives the steps of others.
LEMMA ClaimKept ==
    ASSUME PermitInv, PermitInv', NEW f \in Elements, OneSize(f), Claim(f), Grows,
           UNCHANGED sizeOf,
           pc'[f] = pc[f], answer'[f] = answer[f], outcome'[f] = outcome[f]
    PROVE  Claim(f)'
  <1> DEFINE n == NameOf[f]
  <1>0. GrowsFor(f)
    BY DEF Grows
  <1>1. n \in Names
    BY UploadAssumption
  <1>2. dataset[n].ver \in Nat /\ dataset'[n].ver \in Nat /\ answer[f].ver \in Nat
    BY <1>1 DEF PermitInv, Shape, Answers
  <1>4. CASE dataset[n].size = sizeOf[f]
    <2>1. dataset'[n] = dataset[n]
      BY <1>0, <1>4 DEF GrowsFor
    <2> QED
      BY <2>1 DEF Claim
  <1>5. CASE dataset[n].size # sizeOf[f]
    <2>1. /\ ~(pc'[f] = "answered" /\ answer'[f].ok /\ answer'[f].size = sizeOf'[f])
          /\ ~(KindOf[f] # "external_file" /\ (pc'[f] = "annotate" \/ outcome'[f] = "success"))
      BY <1>5 DEF Claim
    <2>2. ASSUME pc'[f] = "answered", answer'[f].ok, answer'[f].size # sizeOf'[f]
          PROVE  /\ dataset'[n].ver >= answer[f].ver
                 /\ dataset'[n].ver = answer[f].ver => dataset'[n].size # sizeOf[f]
      <3>1. dataset[n].ver >= answer[f].ver
        BY <2>2 DEF Claim
      <3>2. dataset'[n].ver >= dataset[n].ver
        BY <1>0 DEF GrowsFor
      <3>3. CASE dataset'[n].ver = dataset[n].ver
        BY <1>0, <1>2, <1>5, <3>1, <3>3 DEF GrowsFor
      <3>4. CASE dataset'[n].ver > dataset[n].ver
        BY <1>2, <3>1, <3>4
      <3> QED
        BY <1>2, <3>2, <3>3, <3>4
    <2> QED
      BY <2>1, <2>2 DEF Claim
  <1> QED
    BY <1>4, <1>5
\* A step that leaves the items alone and does not bring a coroutine to a claim.
LEMMA GrowsSame == UNCHANGED dataset /\ PermitInv => Grows
  BY UploadAssumption DEF Grows, GrowsFor, PermitInv, Shape

\* Claims of all, from those of the others and that of the one that moves.
LEMMA ClaimsStay ==
    ASSUME PermitInv, PermitInv', Claims, NEW e \in Elements, pc[e] # "new", pc'[e] # "new",
           UNCHANGED sizeOf, Grows, OneSize(e) => Claim(e)',
           \A f \in Elements \ {e} :
              pc'[f] = pc[f] /\ answer'[f] = answer[f] /\ outcome'[f] = outcome[f]
    PROVE  Claims'
  <1>1. \A f \in Elements : OneSize(f)' <=> OneSize(f)
    BY SizeStays
  <1>2. ASSUME NEW f \in Elements \ {e}, OneSize(f) PROVE Claim(f)'
    BY <1>2, ClaimKept DEF Claims
  <1> QED
    BY <1>1, <1>2 DEF Claims

\* Filing an entry concludes, or raises out of, the coroutine that files.
LEMMA FinishEnds ==
    ASSUME PermitInv, NEW e \in Elements, NEW ref, NEW status, NEW ok \in BOOLEAN,
           Finish(e, ref, status, ok)
    PROVE  /\ pc'[e] \in {"done", "raised"}
           /\ outcome'[e] = IF ok THEN "success" ELSE "error"
           /\ \A f \in Elements \ {e} : pc'[f] = pc[f] /\ outcome'[f] = outcome[f]
  <1>1. outcome' = [outcome EXCEPT ![e] = IF ok THEN "success" ELSE "error"]
    BY DEF Finish
  <1>2. PICK v \in {"done", "raised"} : pc' = [pc EXCEPT ![e] = v]
    BY DEF Finish, File
  <1> QED
    BY <1>1, <1>2 DEF PermitInv, Shape, ReportTypes

\* The end of a failed try makes no claim.
LEMMA FailClaim ==
    ASSUME PermitInv, NEW e \in Elements, NEW n, FailTry(e, n), pc[e] \in Holding
    PROVE  /\ pc'[e] \in {"try", "done", "raised"}
           /\ outcome'[e] \in {outcome[e], "error"}
           /\ \A f \in Elements \ {e} : pc'[f] = pc[f] /\ outcome'[f] = outcome[f]
  <1>1. CASE pc' = [pc EXCEPT ![e] = "try"] /\ UNCHANGED <<sem, report>>
    BY <1>1 DEF report, PermitInv, Shape
  <1>2. CASE Finish(e, SourceOf[e], "error", FALSE)
    BY <1>2, FinishEnds
  <1> QED
    BY <1>1, <1>2 DEF FailTry

\* Nor does the end of a successful one touch the others.
LEMMA GotClaim ==
    ASSUME PermitInv, NEW e \in Elements, NEW op, GotItem(e, op)
    PROVE  /\ pc'[e] \in {"annotate", "done", "raised"}
           /\ \A f \in Elements \ {e} : pc'[f] = pc[f] /\ outcome'[f] = outcome[f]
           /\ pc'[e] = "annotate" \/ outcome'[e] = "success"
  <1>1. CASE pc' = [pc EXCEPT ![e] = "annotate"] /\ UNCHANGED <<sem, report>>
    BY <1>1 DEF report, PermitInv, Shape
  <1>2. CASE Finish(e, NameOf[e], op, TRUE)
    BY <1>2, FinishEnds
  <1> QED
    BY <1>1, <1>2 DEF GotItem

\* A coroutine that is at work has not been reported.
Unreported == \A e \in Elements : outcome[e] # "none" => pc[e] \in {"done", "raised"}

LEMMA UnreportedStep ==
    ASSUME PermitInv, Unreported, [Next]_vars
    PROVE  Unreported'
  <1>1. CASE Thread
    <2>1. CASE Submit
      <3>1. next \in Elements /\ pc[next] = "new" /\ pc' = [pc EXCEPT ![next] = "queued"] /\ outcome' = outcome
        BY <2>1 DEF Submit, PermitInv, Shape, Elements, Unbuilt, report, ReportTypes
      <3> QED
        BY <3>1 DEF Unreported, PermitInv, Shape
    <2>2. CASE BuildFails \/ StartDraining \/ DrainOne \/ Return
      BY <2>2 DEF BuildFails, StartDraining, DrainOne, Return, Unreported, report
    <2> QED
      BY <1>1, <2>1, <2>2 DEF Thread
  <1>2. ASSUME NEW e \in Elements, Coroutine(e) \/ Handle(e)
        PROVE  Unreported'
    <2>1. pc[e] \notin {"done", "raised"}
      BY <1>2 DEF Coroutine, Handle, Start, FailLocally, Send, Import, Resume, Annotate
    <2>2. \/ outcome' = outcome /\ \E v : pc' = [pc EXCEPT ![e] = v]
          \/ \E ref, status : \E ok \in BOOLEAN : Finish(e, ref, status, ok)
      BY <1>2 DEF Coroutine, Handle, Start, FailLocally, Send, Import, Resume, Annotate,
                  FailTry, GotItem, report
    <2>3. CASE outcome' = outcome /\ \E v : pc' = [pc EXCEPT ![e] = v]
      BY <2>1, <2>3 DEF Unreported, PermitInv, Shape
    <2>4. CASE \E ref, status : \E ok \in BOOLEAN : Finish(e, ref, status, ok)
      BY <2>4, FinishEnds DEF Unreported
    <2> QED
      BY <2>2, <2>3, <2>4
  <1>3. CASE UNCHANGED vars
    BY <1>3 DEF vars, report, Unreported
  <1> QED
    BY <1>1, <1>2, <1>3 DEF Next, Done

\* The service's step, in mode skip.
LEMMA HandleClaims ==
    ASSUME mode = "skip", PermitInv, PermitInv', Unreported, Claims, NEW e \in Elements, Handle(e)
    PROVE  Claims'
  <1> DEFINE n == NameOf[e]
             old == dataset[n]
  <1>0. /\ n \in Names /\ old.ver \in Nat /\ NoAnswer \in Answers
        /\ dataset \in [Names -> [ver : Nat, size : Stored]]
        /\ answer \in [Elements -> Answers]
        /\ sizeOf[e] \in Sizes /\ sizeOf[e] # Absent
    BY UploadAssumption DEF PermitInv, Shape, NoAnswer, Answers, Ops, Stored, Absent
  <1>1. /\ pc[e] = "sent" /\ pc' = [pc EXCEPT ![e] = "answered"] /\ outcome' = outcome
        /\ UNCHANGED sizeOf
        /\ \A f \in Elements \ {e} : pc'[f] = pc[f] /\ answer'[f] = answer[f]
    BY ZenonT(40) DEF Handle, Respond, Store, report, thread, given, PermitInv, Shape
  <1>2. outcome[e] = "none"
    BY <1>1 DEF Unreported, PermitInv, Shape, ReportTypes
  <1>3. Grows /\ Claim(e)'
    <2>1. CASE answer' = [answer EXCEPT ![e] = NoAnswer] /\ dataset' = dataset
      <3>1. ~answer'[e].ok
        BY <2>1, <1>0 DEF NoAnswer
      <3> QED
        BY <2>1, <3>1, <1>1, <1>2, GrowsSame DEF Claim, PermitInv, Shape
    <2>2. ASSUME dataset' = dataset, answer'[e].ver = old.ver, answer'[e].size = old.size
          PROVE  Grows /\ Claim(e)'
      BY <2>2, <1>0, <1>1, <1>2, GrowsSame DEF Claim, PermitInv, Shape
    <2>3. ASSUME NEW c \in Sizes, old.size = Absent,
                 dataset' = [dataset EXCEPT ![n] = [ver |-> old.ver + 1, size |-> c]],
                 ~answer'[e].ok \/ (answer'[e].ver = old.ver + 1 /\ answer'[e].size = c)
          PROVE  Grows /\ Claim(e)'
      <3>1. dataset'[n] = [ver |-> old.ver + 1, size |-> c]
        BY <2>3, <1>0
      <3>2. \A m \in Names \ {n} : dataset'[m] = dataset[m]
        BY <2>3, <1>0
      <3>3. Grows
        <4>1. GrowsFor(e)
          BY <3>1, <2>3, <1>0 DEF GrowsFor
        <4> QED
          BY <3>2, <4>1, <1>1, GrowsAll
      <3>4. Claim(e)'
        BY <3>1, <2>3, <1>0, <1>1, <1>2 DEF Claim, PermitInv, Shape
      <3> QED
        BY <3>3, <3>4
    <2>4. CASE \E lost \in BOOLEAN : Respond(e, lost, "skip", old.ver, old.size) /\ UNCHANGED dataset
      <3>1. ~answer'[e].ok \/ (answer'[e].ver = old.ver /\ answer'[e].size = old.size)
        BY <2>4, <1>0 DEF Respond, NoAnswer
      <3>2. CASE ~answer'[e].ok
        BY <2>4, <3>2, <1>0, <1>1, <1>2, GrowsSame DEF Claim, PermitInv, Shape
      <3> QED
        BY <2>2, <2>4, <3>1, <3>2
    <2>5. CASE \E lost \in BOOLEAN, c \in {s \in Sizes : s <= sizeOf[e]} :
                 old.size = Absent /\ Store(e, lost, "created", old.ver + 1, c)
      <3>1. PICK lost \in BOOLEAN, c \in Sizes :
                 old.size = Absent /\ Store(e, lost, "created", old.ver + 1, c)
        BY <2>5
      <3>2. ~answer'[e].ok \/ (answer'[e].ver = old.ver + 1 /\ answer'[e].size = c)
        BY <3>1, <1>0 DEF Store, Respond, NoAnswer
      <3> QED
        BY <2>3, <3>1, <3>2 DEF Store
    <2> QED
      BY <2>1, <2>4, <2>5 DEF Handle, service
  <1> QED
    BY <1>1, <1>3, ClaimsStay
\* Beginning and importing: a try that fails makes no claim, an import makes none.
LEMMA BeginClaims ==
    ASSUME mode = "skip", PermitInv, PermitInv', Unreported, Claims, NEW e \in Elements,
           Start(e) \/ FailLocally(e) \/ Send(e) \/ Import(e)
    PROVE  Claims'
  <1> DEFINE n == NameOf[e]
  <1>0. /\ n \in Names /\ dataset \in [Names -> [ver : Nat, size : Stored]]
        /\ sizeOf[e] # Absent /\ UNCHANGED sizeOf
        /\ pc[e] \in {"queued", "try"} /\ outcome[e] = "none"
    <2>1. pc[e] \in {"queued", "try"} /\ UNCHANGED sizeOf
      BY DEF Start, FailLocally, Send, Import, thread, given
    <2>2. outcome[e] = "none"
      BY <2>1 DEF Unreported, PermitInv, Shape, ReportTypes
    <2> QED
      BY <2>1, <2>2, ItemTypes
  <1>1. CASE Start(e) \/ Send(e)
    <2>1. /\ UNCHANGED dataset /\ UNCHANGED outcome /\ UNCHANGED answer
          /\ pc'[e] \in {"try", "raised", "sent"} /\ \A f \in Elements \ {e} : pc'[f] = pc[f]
      BY <1>1 DEF Start, Send, service, report, PermitInv, Shape
    <2>2. Claim(e)'
      BY <2>1, <1>0 DEF Claim
    <2> QED
      BY <1>0, <2>1, <2>2, GrowsSame, ClaimsStay
  <1>2. CASE FailLocally(e)
    <2>1. FailTry(e, attempt[e] + 1) /\ UNCHANGED dataset /\ UNCHANGED answer /\ pc[e] \in Holding
      BY <1>2 DEF FailLocally, service, Holding
    <2>2. /\ pc'[e] \in {"try", "done", "raised"} /\ outcome'[e] \in {"none", "error"}
          /\ \A f \in Elements \ {e} : pc'[f] = pc[f] /\ outcome'[f] = outcome[f]
      BY <2>1, <1>0, FailClaim
    <2>3. Claim(e)'
      BY <2>2 DEF Claim
    <2> QED
      BY <1>0, <2>1, <2>2, <2>3, GrowsSame, ClaimsStay
  <1>3. CASE Import(e)
    <2>1. KindOf[e] = "external_file" /\ pc[e] = "try" /\ pc[e] \in Holding
      BY <1>3 DEF Import, Holding
    <2>2. /\ pc'[e] \in {"try", "annotate", "done", "raised"}
          /\ \A f \in Elements \ {e} : pc'[f] = pc[f] /\ outcome'[f] = outcome[f] /\ answer'[f] = answer[f]
      BY <1>3, <2>1, FailClaim, GotClaim DEF Import, PermitInv, Shape
    <2>3. Claim(e)'
      BY <2>1, <2>2 DEF Claim
    <2>4. Grows
      <3>1. CASE UNCHANGED dataset
        BY <3>1, GrowsSame
      <3>2. CASE /\ dataset[n].size = Absent
                 /\ dataset' = [dataset EXCEPT ![n] = [ver |-> dataset[n].ver + 1, size |-> sizeOf[e]]]
        <4>1. GrowsFor(e) /\ \A m \in Names \ {n} : dataset'[m] = dataset[m]
          BY <3>2, <1>0 DEF GrowsFor
        <4> QED
          BY <4>1, <1>0, GrowsAll
      <3> QED
        BY <1>3, <1>0, <3>1, <3>2 DEF Import, service
    <2> QED
      BY <1>0, <2>2, <2>3, <2>4, ClaimsStay
  <1> QED
    BY <1>1, <1>2, <1>3

\* Resuming: the only deletion, of an item that is not of the size of the path's elements.
LEMMA ResumeClaims ==
    ASSUME mode = "skip", PermitInv, PermitInv', Unreported, Claims, NEW e \in Elements, Resume(e)
    PROVE  Claims'
  <1> DEFINE n == NameOf[e]
  <1>0. /\ n \in Names /\ dataset \in [Names -> [ver : Nat, size : Stored]]
        /\ pc[e] = "answered" /\ pc[e] \in Holding /\ outcome[e] = "none" /\ UNCHANGED answer
        /\ dataset[n].ver \in Nat /\ sizeOf[e] # Absent /\ UNCHANGED sizeOf
    <2>1. pc[e] = "answered" /\ UNCHANGED answer /\ UNCHANGED sizeOf
      BY DEF Resume, thread, given
    <2>2. outcome[e] = "none" /\ pc[e] \in Holding
      BY <2>1 DEF Unreported, PermitInv, Shape, ReportTypes, Holding
    <2> QED
      BY <2>1, <2>2, ItemTypes
  <1>1. CASE /\ answer[e].ok /\ SizeMatches(e, answer[e]) /\ GotItem(e, answer[e].op)
             /\ UNCHANGED service
    <2>1. UNCHANGED dataset /\ (OneSize(e) => dataset[n].size = sizeOf[e])
      BY <1>0, <1>1 DEF Claims, Claim, SizeMatches, service
    <2>2. OneSize(e) => Claim(e)'
      BY <1>0, <1>1, <2>1, GotClaim DEF Claim
    <2>3. pc'[e] # "new"
      BY <1>1, GotClaim
    <2> QED
      BY <1>0, <1>1, <2>1, <2>2, <2>3, GotClaim, GrowsSame, ClaimsStay
  <1>2. CASE /\ FailTry(e, attempt[e])
             /\ \/ UNCHANGED service
                \/ /\ answer[e].ok /\ ~SizeMatches(e, answer[e])
                   /\ dataset[n].ver = answer[e].ver
                   /\ dataset' = [dataset EXCEPT ![n].size = Absent]
    <2>1. Claim(e)' /\ pc'[e] # "new"
      BY <1>0, <1>2, FailClaim DEF Claim
    <2>2. Grows
      <3>1. CASE UNCHANGED service
        BY <3>1, GrowsSame DEF service
      <3>2. CASE /\ answer[e].ok /\ ~SizeMatches(e, answer[e])
                 /\ dataset[n].ver = answer[e].ver
                 /\ dataset' = [dataset EXCEPT ![n].size = Absent]
        <4>1. OneSize(e) => dataset[n].size # sizeOf[e]
          BY <1>0, <3>2 DEF Claims, Claim, SizeMatches
        <4>2. dataset'[n].size = Absent /\ dataset'[n].ver = dataset[n].ver
          BY <3>2, <1>0
        <4>3. \A m \in Names \ {n} : dataset'[m] = dataset[m]
          BY <3>2, <1>0
        <4>4. OneSize(e) => GrowsFor(e)
          BY <4>1, <4>2, <1>0 DEF GrowsFor
        <4> QED
          BY <4>3, <4>4, <1>0, GrowsAll
      <3> QED
        BY <1>2, <3>1, <3>2
    <2> QED
      BY <1>0, <1>2, <2>1, <2>2, FailClaim, ClaimsStay
  <1> QED
    BY <1>1, <1>2 DEF Resume

\* In both modes: of the coroutines on the path of an item that has the size of none of
\* them, one has not been told of an item of its size since.
Told(e) ==
    \/ pc[e] = "answered" /\ answer[e].ok /\ answer[e].size = sizeOf[e]
    \/ pc[e] = "annotate" \/ outcome[e] = "success"
Blamed(e) == ~Told(e) \/ KindOf[e] = "external_file"
Whole(n) == \E e \in Peers(n) : dataset[n].size = sizeOf[e]
Blame == \A n \in Names : Whole(n) \/ Peers(n) = {} \/ \E e \in Peers(n) : Blamed(e)

\* What the step of a coroutine does to its item, and to what it knows of it.
LEMMA BlameOrGood ==
    ASSUME PermitInv, Unreported, NEW e \in Elements,
           Coroutine(e) \/ Handle(e)
    PROVE  /\ pc[e] # "new" /\ pc'[e] # "new" /\ UNCHANGED sizeOf
           /\ \A f \in Elements \ {e} :
                 pc'[f] = pc[f] /\ answer'[f] = answer[f] /\ outcome'[f] = outcome[f]
           /\ \A m \in Names \ {NameOf[e]} : dataset'[m] = dataset[m]
           /\ \/ dataset'[NameOf[e]].size = sizeOf[e] \/ Blamed(e)'
              \/ Told(e) /\ UNCHANGED dataset
  <1> USE UploadAssumption
  <1>0. /\ NameOf[e] \in Names /\ NoAnswer \in Answers
        /\ pc[e] \notin {"done", "raised"} => outcome[e] = "none"
        /\ UNCHANGED sizeOf
    <2>1. NameOf[e] \in Names /\ NoAnswer \in Answers
      BY DEF NoAnswer, Answers, Ops, Stored, Absent
    <2>2. pc[e] \notin {"done", "raised"} => outcome[e] = "none"
      BY DEF Unreported, PermitInv, Shape, ReportTypes
    <2>3. UNCHANGED sizeOf
      BY DEF Coroutine, Start, FailLocally, Send, Import, Resume, Annotate, Handle, thread, given
    <2> QED
      BY <2>1, <2>2, <2>3
  <1>1. CASE Start(e) \/ Send(e)
    <2>1. /\ UNCHANGED <<dataset, answer, outcome>> /\ pc[e] \in {"queued", "try"}
          /\ pc'[e] \in {"try", "raised", "sent"}
          /\ \A f \in Elements \ {e} : pc'[f] = pc[f]
      BY <1>1 DEF Start, Send, service, report, PermitInv, Shape
    <2> QED
      BY <1>0, <2>1 DEF Blamed, Told
  <1>2. CASE FailLocally(e)
    <2>1. /\ FailTry(e, attempt[e] + 1) /\ UNCHANGED <<dataset, answer>> /\ pc[e] = "try"
      BY <1>2 DEF FailLocally, service
    <2>2. /\ pc'[e] \in {"try", "done", "raised"} /\ outcome'[e] \in {outcome[e], "error"}
          /\ \A f \in Elements \ {e} : pc'[f] = pc[f] /\ outcome'[f] = outcome[f]
      BY <2>1, FailClaim DEF Holding
    <2> QED
      BY <1>0, <2>1, <2>2 DEF Blamed, Told
  <1>3. CASE Import(e)
    <2>1. /\ KindOf[e] = "external_file" /\ pc[e] = "try"
          /\ \A f \in Elements \ {e} : answer'[f] = answer[f]
          /\ \A m \in Names \ {NameOf[e]} : dataset'[m] = dataset[m]
      BY <1>0, <1>3 DEF Import, service, PermitInv, Shape
    <2>2. /\ pc'[e] \in {"try", "annotate", "done", "raised"}
          /\ \A f \in Elements \ {e} : pc'[f] = pc[f] /\ outcome'[f] = outcome[f]
      BY <1>3, <2>1, FailClaim, GotClaim DEF Import, Holding
    <2> QED
      BY <1>0, <2>1, <2>2 DEF Blamed
  <1>4. CASE Handle(e)
    <2>1. /\ pc[e] = "sent" /\ pc'[e] = "answered" /\ UNCHANGED outcome
          /\ \A f \in Elements \ {e} : pc'[f] = pc[f] /\ answer'[f] = answer[f]
      BY <1>4 DEF Handle, Respond, Store, report, PermitInv, Shape
    <2>2. CASE answer' = [answer EXCEPT ![e] = NoAnswer] /\ UNCHANGED service
      <3>1. ~answer'[e].ok
        BY <2>2 DEF NoAnswer, PermitInv, Shape
      <3> QED
        BY <1>0, <2>1, <2>2, <3>1 DEF Blamed, Told, service
    <2>3. ASSUME NEW lost \in BOOLEAN, NEW c \in Sizes, NEW op, NEW v,
                 Store(e, lost, op, v, c)
          PROVE  /\ \A m \in Names \ {NameOf[e]} : dataset'[m] = dataset[m]
                 /\ dataset'[NameOf[e]].size = sizeOf[e] \/ Blamed(e)'
      <3>1. dataset' = [dataset EXCEPT ![NameOf[e]] = [ver |-> v, size |-> c]]
        BY <2>3 DEF Store
      <3>2. answer'[e].ok => answer'[e].size = c
        BY <2>3 DEF Store, Respond, NoAnswer, PermitInv, Shape
      <3>3. dataset'[NameOf[e]].size = c
        BY <1>0, <3>1 DEF PermitInv, Shape
      <3> QED
        BY <1>0, <2>1, <3>1, <3>2, <3>3 DEF Blamed, Told, PermitInv, Shape
    <2>4. CASE \E lost \in BOOLEAN :
                 /\ Respond(e, lost, "skip", dataset[NameOf[e]].ver, dataset[NameOf[e]].size)
                 /\ UNCHANGED dataset
      <3>1. answer'[e].ok => answer'[e].size = dataset[NameOf[e]].size
        BY <2>4 DEF Respond, NoAnswer, PermitInv, Shape
      <3> QED
        BY <1>0, <2>1, <2>4, <3>1 DEF Blamed, Told
    <2> QED
      BY <1>0, <1>4, <2>1, <2>2, <2>3, <2>4 DEF Handle
  <1>5. CASE Resume(e)
    <2>1. pc[e] = "answered" /\ UNCHANGED answer
      BY <1>5 DEF Resume
    <2>2. CASE /\ answer[e].ok /\ SizeMatches(e, answer[e]) /\ GotItem(e, answer[e].op)
               /\ UNCHANGED service
      BY <1>0, <2>1, <2>2, GotClaim DEF Told, SizeMatches, service
    <2>3. CASE FailTry(e, attempt[e])
      <3>1. /\ pc'[e] \in {"try", "done", "raised"} /\ outcome'[e] \in {outcome[e], "error"}
            /\ \A f \in Elements \ {e} : pc'[f] = pc[f] /\ outcome'[f] = outcome[f]
        BY <2>1, <2>3, FailClaim DEF Holding
      <3>2. \A m \in Names \ {NameOf[e]} : dataset'[m] = dataset[m]
        BY <1>0, <1>5 DEF Resume, service, PermitInv, Shape
      <3> QED
        BY <1>0, <2>1, <3>1, <3>2 DEF Blamed, Told
    <2> QED
      BY <1>5, <2>2, <2>3 DEF Resume
  <1>6. CASE Annotate(e)
    <2>1. pc[e] = "annotate" /\ UNCHANGED <<answer, dataset>> /\ Finish(e, NameOf[e], answer[e].op, TRUE)
      BY <1>6 DEF Annotate, service
    <2> QED
      BY <1>0, <2>1, FinishEnds DEF Told
  <1> QED
    BY <1>1, <1>2, <1>3, <1>4, <1>5, <1>6 DEF Coroutine

LEMMA NextBlame ==
    ASSUME PermitInv, Unreported, Blame, [Next]_vars
    PROVE  Blame'
  <1>1. CASE Thread
    <2>1. UNCHANGED <<dataset, answer, outcome, sizeOf>>
      BY <1>1 DEF Thread, Submit, BuildFails, StartDraining, DrainOne, Return, service, report, given
    <2>2. \A e \in Elements :
            pc'[e] = pc[e] \/ (pc[e] = "new" /\ pc'[e] = "queued" /\ outcome[e] = "none")
      <3>1. CASE Submit
        BY <3>1 DEF Submit, PermitInv, Shape, ReportTypes, Unbuilt, Unreported, Elements
      <3> QED
        BY <1>1, <3>1 DEF Thread, BuildFails, StartDraining, DrainOne, Return
    <2>3. ASSUME NEW n \in Names
          PROVE  Whole(n)' \/ Peers(n)' = {} \/ \E e \in Peers(n)' : Blamed(e)'
      <3>1. CASE \E e \in Elements : NameOf[e] = n /\ pc'[e] # pc[e]
        BY <2>1, <2>2, <3>1 DEF Peers, Blamed, Told
      <3>2. CASE \A e \in Elements : NameOf[e] = n => pc'[e] = pc[e]
        BY <2>1, <3>2 DEF Blame, Whole, Peers, Blamed, Told
      <3> QED
        BY <3>1, <3>2
    <2> QED
      BY <2>3 DEF Blame
  <1>2. ASSUME NEW e \in Elements, Coroutine(e) \/ Handle(e) PROVE Blame'
    <2>1. \A m \in Names : Peers(m)' = Peers(m)
      BY <1>2, BlameOrGood DEF Peers
    <2>2. \A f \in Elements \ {e} : (Blamed(f) => Blamed(f)')
      BY <1>2, BlameOrGood DEF Blamed, Told
    <2>3. ASSUME NEW m \in Names
          PROVE  Whole(m)' \/ Peers(m)' = {} \/ \E f \in Peers(m)' : Blamed(f)'
      <3>1. CASE m # NameOf[e]
        <4>1. e \notin Peers(m) /\ Peers(m) \subseteq Elements /\ dataset'[m] = dataset[m] /\ UNCHANGED sizeOf
          BY <1>2, <3>1, BlameOrGood DEF Peers
        <4> QED
          BY <2>1, <2>2, <4>1 DEF Blame, Whole
      <3>2. CASE m = NameOf[e]
        <4>1. e \in Peers(m) /\ Peers(m) \subseteq Elements /\ UNCHANGED sizeOf
          BY <1>2, <3>2, BlameOrGood DEF Peers
        <4>2. \/ dataset'[m].size = sizeOf[e] \/ Blamed(e)'
              \/ Told(e) /\ UNCHANGED dataset
          BY <1>2, <3>2, BlameOrGood
        <4>3. CASE Told(e) /\ UNCHANGED dataset /\ KindOf[e] # "external_file"
          BY <2>1, <2>2, <4>1, <4>3 DEF Blame, Blamed, Whole
        <4>4. KindOf[e] = "external_file" => Blamed(e)'
          BY DEF Blamed
        <4>5. dataset'[m].size = sizeOf[e] => Whole(m)'
          BY <2>1, <4>1 DEF Whole
        <4> QED
          BY <2>1, <4>1, <4>2, <4>3, <4>4, <4>5
      <3> QED
        BY <3>1, <3>2
    <2> QED
      BY <2>3 DEF Blame
  <1>3. CASE UNCHANGED vars
    BY <1>3 DEF vars, given, service, report, Blame, Whole, Peers, Blamed, Told
  <1> QED
    BY <1>1, <1>2, <1>3 DEF Next, Done

\* The inductive invariant for both modes.
IntactInv ==
    /\ PermitInv /\ Unreported
    /\ mode = "skip" => Claims
    /\ Blame

\* A call keeps its mode.
LEMMA ModeStays == [Next]_vars => mode' = mode /\ sizeOf' = sizeOf
  BY DEF Next, vars, Done, Thread, Submit, BuildFails, StartDraining, DrainOne, Return, thread,
         given, Coroutine, Start, FailLocally, Send, Import, Resume, Annotate, Handle

LEMMA InitIntactInv == Init => IntactInv
  BY InitPermitInv DEF Init, IntactInv, Unreported, Claims, Claim, OneSize, Blame, Peers

LEMMA NextClaims == mode = "skip" /\ IntactInv /\ [Next]_vars => Claims'
  <1> SUFFICES ASSUME mode = "skip", IntactInv, [Next]_vars PROVE Claims'
    OBVIOUS
  <1>0. PermitInv /\ PermitInv' /\ Unreported /\ Unreported' /\ Claims /\ UNCHANGED sizeOf
    BY NextPermitInv, UnreportedStep, ModeStays DEF IntactInv
  <1>1. CASE Thread
    <2>1. /\ UNCHANGED dataset /\ UNCHANGED outcome /\ UNCHANGED answer
          /\ \A f \in Elements : pc'[f] # pc[f] => pc'[f] = "queued" /\ outcome[f] = "none"
      <3>1. CASE Submit
        BY <3>1, <1>0 DEF Submit, PermitInv, Shape, ReportTypes, Unbuilt, Elements, Unreported, service, report
      <3> QED
        BY <1>1, <3>1 DEF Thread, BuildFails, StartDraining, DrainOne, Return, service, report
    <2>2. \A f \in Elements : pc[f] # "new" => pc'[f] # "new"
      BY <2>1
    <2>3. ASSUME NEW f \in Elements, OneSize(f)' PROVE Claim(f)'
      <3>1. CASE pc'[f] = pc[f]
        <4>1. OneSize(f)
          BY <1>0, <2>2, <2>3, <3>1 DEF OneSize, Peers
        <4> QED
          BY <2>1, <3>1, <4>1, <1>0, GrowsSame, ClaimKept DEF Claims
      <3>2. CASE pc'[f] # pc[f]
        BY <2>1, <3>2 DEF Claim
      <3> QED
        BY <3>1, <3>2
    <2> QED
      BY <2>3 DEF Claims
  <1>2. ASSUME NEW e \in Elements, Annotate(e) PROVE Claims'
    <2>1. UNCHANGED dataset /\ UNCHANGED answer /\ pc[e] = "annotate" /\ Finish(e, NameOf[e], answer[e].op, TRUE)
      BY <1>2 DEF Annotate, service
    <2>2. /\ pc'[e] \in {"done", "raised"}
          /\ \A f \in Elements \ {e} : pc'[f] = pc[f] /\ outcome'[f] = outcome[f]
      BY <1>0, <2>1, FinishEnds
    <2>3. OneSize(e) => Claim(e)'
      BY <2>1, <2>2, <1>0 DEF Claims, Claim
    <2> QED
      BY <1>0, <2>1, <2>2, <2>3, GrowsSame, ClaimsStay
  <1>3. CASE UNCHANGED vars
    BY <1>3, <1>0 DEF vars, given, service, report, Claims, Claim, OneSize, Peers
  <1> QED
    BY <1>0, <1>1, <1>2, <1>3, HandleClaims, BeginClaims, ResumeClaims DEF Next, Done, Coroutine

LEMMA NextIntactInv == IntactInv /\ [Next]_vars => IntactInv'
  BY ModeStays, NextPermitInv, UnreportedStep, NextClaims, NextBlame DEF IntactInv

\* Whatever the interleaving, truncation or lost answer, and also when several elements
\* share a path: in mode skip a success among elements of one size has its item of that
\* size in the dataset, and in both modes, elements of different sizes included, the path
\* of elements that all succeeded holds an item of the size of one (SuccessIsIntact).
THEOREM UploadIntact == Spec => []SuccessIsIntact
  <1>1. IntactInv => SuccessIsIntact
    <2> SUFFICES ASSUME IntactInv, NEW n \in Names,
                        \A e \in Peers(n) : KindOf[e] # "external_file",
                        NEW g \in Peers(n), outcome[g] = "success",
                        \/ mode = "skip" /\ \A e, f \in Peers(n) : sizeOf[e] = sizeOf[f]
                        \/ \A e \in Peers(n) : outcome[e] = "success"
                 PROVE  \E e \in Peers(n) : dataset[n].size = sizeOf[e]
      BY DEF SuccessIsIntact
    <2>1. CASE mode = "skip" /\ \A e, f \in Peers(n) : sizeOf[e] = sizeOf[f]
      <3>1. g \in Elements /\ NameOf[g] = n /\ OneSize(g)
        BY <2>1 DEF OneSize, Peers
      <3> QED
        BY <2>1, <3>1 DEF IntactInv, Claims, Claim
    <2>2. CASE \A e \in Peers(n) : outcome[e] = "success"
      BY <2>2 DEF IntactInv, Blame, Blamed, Told, Whole
    <2> QED
      BY <2>1, <2>2
  <1> QED
    BY <1>1, InitIntactInv, NextIntactInv, PTL DEF Spec
-----------------------------------------------------------------------------
(* Who wrote an item annotates it. *)

\* An element that the service acknowledged as the writer of the item its path holds
\* has not yet concluded, has been told so, or has handed over its annotations or tried
\* to.  While it tries again the item is not of its size: a "skip" cannot make it a
\* success.
Writer(e) ==
    LET d == dataset[NameOf[e]]
        a == answer[e]
    IN  owner[NameOf[e]] = e =>
          /\ pc[e] \notin {"new", "queued"}
          /\ pc[e] = "try" => KindOf[e] # "external_file"
          /\ pc[e] \in {"try", "sent"} => d.size # sizeOf[e]
          /\ pc[e] = "answered" =>
               IF a.ok /\ a.size = sizeOf[e] THEN a.op \in WritingOps ELSE d.size # sizeOf[e]
          /\ outcome[e] = "success" /\ e \in HasAnnotations => annotated[e] # "no"
Writers ==
    /\ \A e \in Elements : Writer(e) /\ (pc[e] \in {"sent", "answered"} => KindOf[e] # "external_file")
    /\ \A n \in Names : owner[n] # 0 => NameOf[owner[n]] = n
WriterInv == PermitInv /\ Unreported /\ Writers

\* A step of the coroutine, or of the service for it, makes it the writer of an item at
\* most, and takes an item from its writer only together with the item.
Writes(e) ==
    \A n \in Names : \/ owner'[n] = owner[n] /\ dataset'[n] = dataset[n]
                     \/ owner'[n] = 0
                     \/ owner'[n] = e /\ n = NameOf[e]

\* The others stay the writers that they are.
LEMMA WritersKept ==
    ASSUME PermitInv, Writers, NEW e \in Elements, Writes(e), UNCHANGED sizeOf,
           \A f \in Elements : annotated[f] # "no" => annotated'[f] # "no",
           \A f \in Elements \ {e} :
              pc'[f] = pc[f] /\ answer'[f] = answer[f] /\ outcome'[f] = outcome[f],
           Writer(e)', pc'[e] \in {"sent", "answered"} => KindOf[e] # "external_file"
    PROVE  Writers'
  <1>1. ASSUME NEW f \in Elements \ {e} PROVE Writer(f)'
    <2>1. f # 0 /\ f # e /\ NameOf[f] \in Names
      BY UploadAssumption DEF Elements
    <2>2. owner'[NameOf[f]] = f =>
            owner[NameOf[f]] = f /\ dataset'[NameOf[f]] = dataset[NameOf[f]]
      BY <2>1 DEF Writes
    <2> QED
      BY <2>2 DEF Writers, Writer
  <1>2. \A n \in Names : owner'[n] # 0 => NameOf[owner'[n]] = n
    BY DEF Writes, Writers
  <1> QED
    BY <1>1, <1>2 DEF Writers

\* What the end of a try does to the claim of the one whose try it is.
LEMMA FailWriter ==
    ASSUME PermitInv, Unreported, NEW e \in Elements, NEW n, FailTry(e, n),
           pc[e] \in {"try", "answered"},
           owner'[NameOf[e]] = e => /\ KindOf[e] # "external_file"
                                    /\ dataset'[NameOf[e]].size # sizeOf'[e]
    PROVE  Writer(e)'
  <1>1. pc'[e] \in {"try", "done", "raised"} /\ outcome'[e] \in {outcome[e], "error"}
    BY FailClaim DEF Holding
  <1>2. outcome[e] = "none" /\ NameOf[e] \in Names
    BY ItemTypes DEF Unreported
  <1> QED
    BY <1>1, <1>2 DEF Writer
LEMMA GotWriter ==
    ASSUME PermitInv, Unreported, NEW e \in Elements, NEW op, GotItem(e, op),
           pc[e] \in {"try", "answered"}, owner'[NameOf[e]] = e => op \in WritingOps
    PROVE  Writer(e)'
  <1>1. outcome[e] = "none"
    BY DEF Unreported, PermitInv, Shape
  <1>2. CASE op \in WritingOps /\ e \in HasAnnotations
    BY <1>1, <1>2 DEF GotItem, report, Writer, PermitInv, Shape
  <1>3. CASE ~(op \in WritingOps /\ e \in HasAnnotations)
    <2>1. pc'[e] \in {"done", "raised"}
      BY <1>3, FinishEnds DEF GotItem
    <2> QED
      BY <1>1, <1>3, <2>1 DEF Writer
  <1> QED
    BY <1>2, <1>3

LEMMA NextWriters == WriterInv /\ [Next]_vars => Writers'
  <1> SUFFICES ASSUME WriterInv, [Next]_vars PROVE Writers'
    OBVIOUS
  <1> USE UploadAssumption
  <1>0. PermitInv /\ Unreported /\ Writers /\ UNCHANGED sizeOf
    BY ModeStays DEF WriterInv
  <1>1. CASE Thread
    <2>1. UNCHANGED <<dataset, owner, answer, outcome, annotated>>
      BY <1>1 DEF Thread, Submit, BuildFails, StartDraining, DrainOne, Return, service, report
    <2>2. \A e \in Elements : pc'[e] = pc[e] \/ (pc[e] = "new" /\ pc'[e] = "queued")
      <3>1. CASE Submit
        BY <1>0, <3>1 DEF Submit, PermitInv, Shape, Unbuilt, Elements
      <3> QED
        BY <1>1, <3>1 DEF Thread, BuildFails, StartDraining, DrainOne, Return
    <2>3. ASSUME NEW e \in Elements PROVE Writer(e)'
      BY <1>0, <2>1, <2>2 DEF Writers, Writer
    <2> QED
      BY <1>0, <2>1, <2>2, <2>3 DEF Writers
  <1>2. ASSUME NEW e \in Elements, Start(e) \/ Send(e) PROVE Writers'
    <2>1. /\ UNCHANGED <<dataset, owner, answer, outcome, annotated>>
          /\ \A f \in Elements \ {e} : pc'[f] = pc[f]
          /\ \/ pc[e] = "queued" /\ pc'[e] \in {"try", "raised"}
             \/ pc[e] = "try" /\ pc'[e] = "sent" /\ KindOf[e] # "external_file"
      BY <1>0, <1>2 DEF Start, Send, service, report, PermitInv, Shape
    <2>2. Writes(e)
      BY <2>1 DEF Writes
    <2>3. Writer(e)'
      BY <1>0, <2>1 DEF Writers, Writer
    <2> QED
      BY <1>0, <2>1, <2>2, <2>3, WritersKept
  <1>3. ASSUME NEW e \in Elements, FailLocally(e) PROVE Writers'
    <2>1. /\ UNCHANGED <<dataset, owner, answer, annotated>> /\ pc[e] = "try"
          /\ FailTry(e, attempt[e] + 1)
      BY <1>3 DEF FailLocally, service
    <2>2. /\ pc'[e] \in {"try", "done", "raised"}
          /\ \A f \in Elements \ {e} : pc'[f] = pc[f] /\ outcome'[f] = outcome[f]
      BY <1>0, <2>1, FailClaim DEF Holding
    <2>3. Writer(e)'
      BY <1>0, <2>1, FailWriter DEF Writers, Writer
    <2> QED
      BY <1>0, <2>1, <2>2, <2>3, WritersKept DEF Writes
  <1>4. ASSUME NEW e \in Elements, Import(e) PROVE Writers'
    <2> DEFINE n == NameOf[e]
    <2>1. /\ KindOf[e] = "external_file" /\ pc[e] = "try" /\ UNCHANGED annotated
          /\ n \in Names /\ owner[n] # e
          /\ \A f \in Elements \ {e} : answer'[f] = answer[f]
      BY <1>0, <1>4 DEF Import, Writers, Writer, PermitInv, Shape
    <2>2. /\ pc'[e] \in {"try", "annotate", "done", "raised"}
          /\ \A f \in Elements \ {e} : pc'[f] = pc[f] /\ outcome'[f] = outcome[f]
      BY <1>0, <1>4, <2>1, FailClaim, GotClaim DEF Import, Holding
    <2>3. CASE FailTry(e, attempt[e] + 1) /\ UNCHANGED service
      <3>1. Writer(e)'
        BY <1>0, <2>1, <2>3, FailWriter DEF service
      <3> QED
        BY <1>0, <2>1, <2>2, <2>3, <3>1, WritersKept DEF Writes, service
    <2>4. CASE owner' = [owner EXCEPT ![n] = e] /\ GotItem(e, "created")
      <3>1. Writes(e)
        <4>1. \A m \in Names \ {n} : dataset'[m] = dataset[m] /\ owner'[m] = owner[m]
          BY <1>0, <1>4, <2>1 DEF Import, service, PermitInv, Shape
        <4> QED
          BY <1>0, <2>1, <2>4, <4>1 DEF Writes, PermitInv, Shape
      <3>2. Writer(e)'
        BY <1>0, <2>1, <2>4, GotWriter DEF WritingOps
      <3> QED
        BY <1>0, <2>1, <2>2, <3>1, <3>2, WritersKept
    <2>5. CASE GotItem(e, "skip") /\ UNCHANGED service
      <3>1. Writer(e)'
        BY <1>0, <2>1, <2>5, GotWriter DEF service
      <3> QED
        BY <1>0, <2>1, <2>2, <2>5, <3>1, WritersKept DEF Writes, service
    <2> QED
      BY <1>4, <2>3, <2>4, <2>5 DEF Import
  <1>5. ASSUME NEW e \in Elements, Handle(e) PROVE Writers'
    <2> DEFINE n == NameOf[e]
    <2>1. /\ pc[e] = "sent" /\ pc'[e] = "answered" /\ UNCHANGED <<outcome, annotated>>
          /\ KindOf[e] # "external_file" /\ n \in Names /\ outcome[e] = "none"
          /\ \A f \in Elements \ {e} : pc'[f] = pc[f] /\ answer'[f] = answer[f]
      BY <1>0, <1>5, SMTT(30)
      DEF Handle, Respond, Store, report, PermitInv, Shape, Writers, Unreported
    <2>2. owner[n] = e => dataset[n].size # sizeOf[e]
      BY <1>0, <2>1 DEF Writers, Writer
    <2>3. CASE answer' = [answer EXCEPT ![e] = NoAnswer] /\ UNCHANGED service
      <3>1. ~answer'[e].ok
        BY <1>0, <2>3 DEF NoAnswer, PermitInv, Shape
      <3>2. Writer(e)'
        BY <1>0, <2>1, <2>2, <2>3, <3>1 DEF Writer, service
      <3> QED
        BY <1>0, <2>1, <2>3, <3>2, WritersKept DEF Writes, service
    <2>4. ASSUME NEW lost \in BOOLEAN,
                 Respond(e, lost, "skip", dataset[n].ver, dataset[n].size),
                 UNCHANGED dataset
          PROVE  Writers'
      <3>1. owner' = owner
        BY <1>0, <2>4 DEF Respond, PermitInv, Shape
      <3>2. answer'[e].ok => answer'[e].size = dataset[n].size
        BY <1>0, <2>4 DEF Respond, NoAnswer, PermitInv, Shape
      <3>3. Writer(e)'
        BY <1>0, <2>1, <2>2, <2>4, <3>1, <3>2 DEF Writer
      <3> QED
        BY <1>0, <2>1, <2>4, <3>1, <3>3, WritersKept DEF Writes
    <2>5. ASSUME NEW lost \in BOOLEAN, NEW c \in Sizes, NEW op \in WritingOps,
                 NEW v, Store(e, lost, op, v, c)
          PROVE  Writers'
      <3>1. owner' = [owner EXCEPT ![n] = IF lost THEN 0 ELSE e]
        BY <2>5 DEF Store, Respond, WritingOps
      <3>2. dataset' = [dataset EXCEPT ![n] = [ver |-> v, size |-> c]]
        BY <2>5 DEF Store
      <3>3. Writes(e)
        BY <1>0, <2>1, <3>1, <3>2 DEF Writes, PermitInv, Shape
      <3>4. ~lost => answer'[e] = [ok |-> TRUE, op |-> op, ver |-> v, size |-> c]
        BY <1>0, <2>5 DEF Store, Respond, PermitInv, Shape
      <3>5. owner'[n] = e => ~lost
        BY <1>0, <2>1, <3>1 DEF PermitInv, Shape, Elements
      <3>6. dataset'[n].size = c
        BY <1>0, <2>1, <3>2 DEF PermitInv, Shape
      <3>7. Writer(e)'
        BY <2>1, <3>4, <3>5, <3>6 DEF Writer
      <3> QED
        BY <1>0, <2>1, <3>3, <3>7, WritersKept
    <2> QED
      BY <1>5, <2>3, <2>4, <2>5 DEF Handle, WritingOps
  <1>6. ASSUME NEW e \in Elements, Resume(e) PROVE Writers'
    <2> DEFINE n == NameOf[e]
    <2>1. /\ pc[e] = "answered" /\ UNCHANGED <<answer, annotated>>
          /\ KindOf[e] # "external_file" /\ n \in Names
      <3>1. pc[e] = "answered" /\ UNCHANGED <<answer, annotated>>
        BY <1>6 DEF Resume
      <3>2. KindOf[e] # "external_file" /\ n \in Names
        BY <1>0, <3>1 DEF Writers
      <3> QED
        BY <3>1, <3>2
    <2>2. owner[n] = e => IF answer[e].ok /\ SizeMatches(e, answer[e])
                          THEN answer[e].op \in WritingOps ELSE dataset[n].size # sizeOf[e]
      BY <1>0, <2>1 DEF Writers, Writer, SizeMatches
    <2>3. CASE /\ answer[e].ok /\ SizeMatches(e, answer[e]) /\ GotItem(e, answer[e].op)
               /\ UNCHANGED service
      <3>1. Writer(e)'
        BY <1>0, <2>1, <2>2, <2>3, GotWriter DEF service
      <3>2. /\ pc'[e] \in {"annotate", "done", "raised"}
            /\ \A f \in Elements \ {e} : pc'[f] = pc[f] /\ outcome'[f] = outcome[f]
        BY <1>0, <2>3, GotClaim
      <3> QED
        BY <1>0, <2>1, <2>3, <3>1, <3>2, WritersKept DEF Writes, service
    <2>4. CASE /\ ~(answer[e].ok /\ SizeMatches(e, answer[e])) /\ FailTry(e, attempt[e])
               /\ \/ UNCHANGED service
                  \/ /\ dataset' = [dataset EXCEPT ![n].size = Absent]
                     /\ owner' = [owner EXCEPT ![n] = 0]
      <3>1. Writes(e)
        <4>1. CASE UNCHANGED service
          BY <4>1 DEF Writes, service
        <4>2. CASE /\ dataset' = [dataset EXCEPT ![n].size = Absent]
                   /\ owner' = [owner EXCEPT ![n] = 0]
          BY <1>0, <2>1, <4>2 DEF Writes, PermitInv, Shape
        <4> QED
          BY <2>4, <4>1, <4>2
      <3>2. owner'[n] = e => dataset'[n].size # sizeOf'[e]
        BY <1>0, <2>1, <2>2, <2>4 DEF service, PermitInv, Shape, Elements
      <3>3. Writer(e)'
        BY <1>0, <2>1, <2>4, <3>2, FailWriter
      <3>4. /\ pc'[e] \in {"try", "done", "raised"}
            /\ \A f \in Elements \ {e} : pc'[f] = pc[f] /\ outcome'[f] = outcome[f]
        BY <1>0, <2>1, <2>4, FailClaim DEF Holding
      <3> QED
        BY <1>0, <2>1, <3>1, <3>3, <3>4, WritersKept
    <2> QED
      BY <1>6, <2>3, <2>4 DEF Resume
  <1>7. ASSUME NEW e \in Elements, Annotate(e) PROVE Writers'
    <2>1. /\ UNCHANGED <<dataset, owner, answer>> /\ Finish(e, NameOf[e], answer[e].op, TRUE)
          /\ annotated'[e] # "no"
          /\ \A f \in Elements \ {e} : annotated'[f] = annotated[f]
      BY <1>0, <1>7 DEF Annotate, service, PermitInv, Shape
    <2>3. /\ pc'[e] \in {"done", "raised"}
          /\ \A f \in Elements \ {e} : pc'[f] = pc[f] /\ outcome'[f] = outcome[f]
      BY <1>0, <2>1, FinishEnds
    <2>2. Writer(e)'
      BY <2>1, <2>3 DEF Writer
    <2> QED
      BY <1>0, <2>1, <2>2, <2>3, WritersKept DEF Writes
  <1>8. CASE UNCHANGED vars
    BY <1>0, <1>8 DEF vars, given, service, report, Writers, Writer
  <1> QED
    BY <1>1, <1>2, <1>3, <1>4, <1>5, <1>6, <1>7, <1>8 DEF Next, Coroutine, Done

\* An element whose request the service acknowledged as the one that wrote the item its
\* path holds has handed over its annotations when it is a success, or its attempt to do
\* so failed and was logged (WriterAnnotates): no retry, lost answer or failed delete makes a later "skip" hide that it was the writer.
THEOREM UploadAnnotates == Spec => []WriterAnnotates
  <1>1. Init => WriterInv
    BY InitPermitInv, UploadAssumption, SMTT(30) DEF Init, WriterInv, Unreported, Writers, Writer, Elements
  <1>2. WriterInv /\ [Next]_vars => WriterInv'
    BY NextPermitInv, UnreportedStep, NextWriters DEF WriterInv
  <1>3. WriterInv => WriterAnnotates
    <2> SUFFICES ASSUME WriterInv, NEW n \in Names, owner[n] \in HasAnnotations,
                        outcome[owner[n]] = "success"
                 PROVE  annotated[owner[n]] # "no"
      BY DEF WriterAnnotates
    <2> DEFINE e == owner[n]
    <2>0. e \in Elements
      BY UploadAssumption
    <2>1. e # 0
      BY <2>0, UploadAssumption DEF Elements
    <2>2. NameOf[e] = n /\ Writer(e)
      BY <2>0, <2>1 DEF WriterInv, Writers
    <2> QED
      BY <2>2 DEF Writer
  <1> QED
    BY <1>1, <1>2, <1>3, PTL DEF Spec
-----------------------------------------------------------------------------
(* What upload() reports. *)

\* The reporter holds what the coroutines concluded since its last flush, and a future
\* that was waited for is resolved.
RefOf(e) == IF outcome[e] = "success" THEN NameOf[e] ELSE SourceOf[e]
Recorded ==
    /\ \A e \in Elements :
          /\ pc[e] = "done" \/ e \in flushed => outcome[e] # "none"
          /\ e \notin flushed /\ outcome[e] = "success" => successOf[NameOf[e]] = "true"
          /\ e \notin flushed /\ outcome[e] = "error" => successOf[SourceOf[e]] = "false"
          /\ main # "raised" /\ e < drain => pc[e] = "done"
    /\ \A r \in Refs : successOf[r] = "false" => \E e \in Elements \ flushed : outcome[e] = "error"
    /\ \A r \in Refs : successOf[r] # "none" => \E e \in Elements : outcome[e] # "none" /\ RefOf(e) = r
    /\ main = "returned" => drain = N + 1
    /\ flushed # {} => N > CHUNK
RecordInv == PermitInv /\ Unreported /\ Recorded

\* As many references as elements, at most.
LEMMA FewRefs ==
    ASSUME NEW S \in [Refs -> {"none", "true", "false"}], NEW ref \in [Elements -> Refs],
           \A r \in Refs : S[r] # "none" => \E e \in Elements : ref[e] = r, Crowded(S)
    PROVE  N > CHUNK
  <1> DEFINE T == {ref[e] : e \in Elements}
             H == {r \in Refs : S[r] # "none"}
  <1>1. IsFiniteSet(Elements) /\ Cardinality(Elements) = N
    BY FS_Interval, UploadAssumption DEF Elements
  <1>2. ref \in Surjection(Elements, T)
    BY DEF Surjection
  <1>3. IsFiniteSet(T) /\ Cardinality(T) <= N
    BY <1>1, <1>2, FS_Surjection
  <1>4. H \in SUBSET T
    OBVIOUS
  <1>5. Cardinality(H) <= Cardinality(T) /\ Cardinality(H) \in Nat /\ Cardinality(T) \in Nat
    BY <1>3, <1>4, FS_Subset, FS_CardinalityType
  <1>6. Cardinality(H) > CHUNK
    BY DEF Crowded
  <1> QED
    BY <1>3, <1>5, <1>6, UploadAssumption

\* A step of a coroutine or of the service goes on, or concludes and files its entry.
LEMMA GoesOnOrEnds ==
    ASSUME NEW e \in Elements, Coroutine(e) \/ Handle(e)
    PROVE  /\ UNCHANGED thread /\ pc[e] \notin {"done", "raised"}
           /\ \/ UNCHANGED report /\ \E v \in PCs \ {"done"} : pc' = [pc EXCEPT ![e] = v]
              \/ \E status : \/ Finish(e, NameOf[e], status, TRUE)
                             \/ Finish(e, SourceOf[e], status, FALSE)
  <1>1. UNCHANGED thread /\ pc[e] \notin {"done", "raised"}
    BY DEF Coroutine, Start, FailLocally, Send, Import, Resume, Annotate, Handle
  <1>2. ASSUME NEW n, FailTry(e, n)
        PROVE  \/ UNCHANGED report /\ pc' = [pc EXCEPT ![e] = "try"]
               \/ Finish(e, SourceOf[e], "error", FALSE)
    BY <1>2 DEF FailTry
  <1>3. ASSUME NEW op, GotItem(e, op)
        PROVE  \/ UNCHANGED report /\ pc' = [pc EXCEPT ![e] = "annotate"]
               \/ Finish(e, NameOf[e], op, TRUE)
    BY <1>3 DEF GotItem
  <1>4. CASE Start(e) \/ Send(e) \/ Handle(e)
    <2>1. UNCHANGED report /\ \E v \in {"try", "raised", "sent", "answered"} :
              pc' = [pc EXCEPT ![e] = v]
      BY <1>4 DEF Start, Send, Handle
    <2> QED
      BY <1>1, <2>1 DEF PCs
  <1>5. CASE FailLocally(e) \/ Import(e) \/ Resume(e) \/ Annotate(e)
    BY <1>1, <1>2, <1>3, <1>5 DEF FailLocally, Import, Resume, Annotate, PCs
  <1> QED
    BY <1>4, <1>5 DEF Coroutine

\* Filing an entry, with or without the flush that it causes.
LEMMA FinishRecords ==
    ASSUME RecordInv, NEW e \in Elements, pc[e] \notin {"done", "raised"}, NEW ok \in BOOLEAN,
           NEW status, UNCHANGED <<main, drain>>,
           Finish(e, IF ok THEN NameOf[e] ELSE SourceOf[e], status, ok)
    PROVE  Recorded'
  <1> USE UploadAssumption DEF RecordInv
  <1> DEFINE ref == IF ok THEN NameOf[e] ELSE SourceOf[e]
             S == [successOf EXCEPT ![ref] = IF ok THEN "true" ELSE "false"]
  <1>0. /\ ref \in Refs /\ outcome[e] = "none" /\ e \notin flushed /\ flushed \subseteq Elements
        /\ S \in [Refs -> {"none", "true", "false"}]
        /\ \A f \in Elements : NameOf[f] \in Refs /\ SourceOf[f] \in Refs
        /\ \A f, g \in Elements : NameOf[f] # SourceOf[g]
    BY DEF Unreported, Recorded, PermitInv, Shape, ReportTypes, Refs
  <1>1. /\ pc'[e] \in {"done", "raised"} /\ outcome'[e] = (IF ok THEN "success" ELSE "error")
        /\ \A f \in Elements \ {e} : pc'[f] = pc[f] /\ outcome'[f] = outcome[f]
    BY FinishEnds
  <1>2. RefOf(e)' = ref /\ \A f \in Elements \ {e} : RefOf(f)' = RefOf(f)
    BY <1>1 DEF RefOf
  <1>3. \A r \in Refs : S[r] # "none" => \E f \in Elements : outcome'[f] # "none" /\ RefOf(f)' = r
    <2> SUFFICES ASSUME NEW r \in Refs, S[r] # "none"
                 PROVE  \E f \in Elements : outcome'[f] # "none" /\ RefOf(f)' = r
      OBVIOUS
    <2>1. CASE r = ref
      BY <2>1, <1>1, <1>2
    <2>2. CASE r # ref
      <3>1. successOf[r] # "none"
        BY <2>2 DEF PermitInv, Shape, ReportTypes
      <3>2. PICK f \in Elements : outcome[f] # "none" /\ RefOf(f) = r
        BY <3>1 DEF Recorded
      <3> QED
        BY <3>2, <1>0, <1>1, <1>2
    <2> QED
      BY <2>1, <2>2
  <1>4. Crowded(S) => N > CHUNK
    <2> DEFINE g == [f \in Elements |-> RefOf(f)']
    <2>1. g \in [Elements -> Refs]
      BY <1>0 DEF RefOf
    <2>2. \A r \in Refs : S[r] # "none" => \E f \in Elements : g[f] = r
      BY <1>3
    <2> HIDE DEF g, S
    <2> QED
      BY <1>0, <2>1, <2>2, FewRefs
  <1>5. CASE successOf' = S /\ UNCHANGED flushed
    <2>1. \A r \in Refs : S[r] = "false" => \E f \in Elements \ flushed : outcome'[f] = "error"
      <3> SUFFICES ASSUME NEW r \in Refs, S[r] = "false"
                   PROVE  \E f \in Elements \ flushed : outcome'[f] = "error"
        OBVIOUS
      <3>1. CASE r = ref
        BY <3>1, <1>0, <1>1 DEF PermitInv, Shape, ReportTypes
      <3>2. CASE r # ref
        <4>1. successOf[r] = "false"
          BY <3>2 DEF PermitInv, Shape, ReportTypes
        <4>2. PICK f \in Elements \ flushed : outcome[f] = "error"
          BY <4>1 DEF Recorded
        <4>3. f # e /\ outcome'[f] = "error"
          BY <4>2, <1>0, <1>1
        <4> QED
          BY <4>2, <4>3
      <3> QED
        BY <3>1, <3>2
    <2>2. S[ref] = IF ok THEN "true" ELSE "false"
      BY <1>0 DEF PermitInv, Shape, ReportTypes
    <2>3. \A r \in Refs \ {ref} : S[r] = successOf[r]
      BY <1>0 DEF PermitInv, Shape, ReportTypes
    <2>4. ASSUME NEW f \in Elements, f \notin flushed
          PROVE  /\ outcome'[f] = "success" => S[NameOf[f]] = "true"
                 /\ outcome'[f] = "error" => S[SourceOf[f]] = "false"
      <3>1. CASE f = e
        BY <3>1, <1>1, <2>2
      <3>2. CASE f # e
        <4>1. outcome[f] = "success" => successOf[NameOf[f]] = "true"
          BY <2>4 DEF Recorded
        <4>2. outcome[f] = "error" => successOf[SourceOf[f]] = "false"
          BY <2>4 DEF Recorded
        <4>3. outcome'[f] = outcome[f]
          BY <3>2, <1>1
        <4>4. NameOf[f] = ref => ok
          BY <1>0
        <4>5. SourceOf[f] = ref => ~ok
          BY <1>0
        <4> QED
          BY <4>1, <4>2, <4>3, <4>4, <4>5, <1>0, <2>2, <2>3
      <3> QED
        BY <3>1, <3>2
    <2>5. ASSUME NEW f \in Elements
          PROVE  /\ pc'[f] = "done" \/ f \in flushed => outcome'[f] # "none"
                 /\ main # "raised" /\ f < drain => pc'[f] = "done"
      <3>1. CASE f = e
        BY <3>1, <1>0, <1>1 DEF Recorded
      <3>2. CASE f # e
        BY <3>2, <1>1 DEF Recorded
      <3> QED
        BY <3>1, <3>2
    <2> HIDE DEF S
    <2> QED
      BY <1>3, <1>5, <2>1, <2>4, <2>5 DEF Recorded
  <1>6. CASE successOf' = Unfiled /\ flushed' = Concluded \cup {e} /\ Crowded(S)
    <2>1. \A f \in Elements : f \in flushed' <=> outcome'[f] # "none"
      BY <1>1, <1>6 DEF Concluded
    <2>2. \A r \in Refs : successOf'[r] = "none"
      BY <1>6 DEF Unfiled
    <2>3. ASSUME NEW f \in Elements
          PROVE  /\ pc'[f] = "done" => outcome'[f] # "none"
                 /\ main # "raised" /\ f < drain => pc'[f] = "done"
      <3>1. CASE f = e
        BY <3>1, <1>0, <1>1 DEF Recorded
      <3>2. CASE f # e
        BY <3>2, <1>1 DEF Recorded
      <3> QED
        BY <3>1, <3>2
    <2> HIDE DEF S
    <2> QED
      BY <1>4, <1>6, <2>1, <2>2, <2>3 DEF Recorded
  <1> QED
    BY <1>5, <1>6 DEF Finish, File

LEMMA NextRecorded == RecordInv /\ [Next]_vars => Recorded'
  <1> SUFFICES ASSUME RecordInv, [Next]_vars PROVE Recorded'
    OBVIOUS
  <1> USE UploadAssumption DEF RecordInv
  <1>1. CASE Submit
    <2>1. next \in Elements /\ pc[next] = "new" /\ pc' = [pc EXCEPT ![next] = "queued"]
      BY <1>1 DEF Submit, PermitInv, Shape, Elements, Unbuilt
    <2>2. UNCHANGED <<main, drain, outcome, successOf, flushed>>
      BY <1>1 DEF Submit, report
    <2> QED
      BY <2>1, <2>2 DEF Recorded, RefOf, PermitInv, Shape
  <1>2. CASE BuildFails \/ StartDraining \/ Return
    BY <1>2 DEF BuildFails, StartDraining, Return, report, Recorded, RefOf
  <1>3. CASE DrainOne
    <2>1. /\ drain \in Elements /\ UNCHANGED <<pc, outcome, successOf, flushed>>
          /\ main = "draining"
      BY <1>3 DEF DrainOne, report, Elements, PermitInv, Shape
    <2>2. /\ drain' = drain + 1
          /\ \/ main' = "raised"
             \/ main' = main /\ pc[drain] = "done"
      BY <1>3 DEF DrainOne, Resolved
    <2>3. \A e \in Elements : main' # "raised" /\ e < drain' => pc[e] = "done"
      <3>1. ASSUME NEW e \in Elements, e < drain + 1 PROVE e < drain \/ e = drain
        BY <2>1, <3>1 DEF Elements
      <3> QED
        BY <2>1, <2>2, <3>1 DEF Recorded
    <2>4. main' # "returned"
      BY <2>1, <2>2
    <2> QED
      BY <2>1, <2>3, <2>4 DEF Recorded, RefOf
  <1>4. ASSUME NEW e \in Elements, Coroutine(e) \/ Handle(e)
        PROVE  Recorded'
    <2>1. UNCHANGED <<main, drain>> /\ pc[e] \notin {"done", "raised"}
      BY <1>4, GoesOnOrEnds DEF thread
    <2>2. CASE UNCHANGED report /\ \E v \in PCs \ {"done"} : pc' = [pc EXCEPT ![e] = v]
      BY <2>1, <2>2 DEF report, Recorded, RefOf, PermitInv, Shape
    <2>3. ASSUME NEW status, Finish(e, NameOf[e], status, TRUE)
          PROVE  Recorded'
      BY <2>1, <2>3, FinishRecords
    <2>4. ASSUME NEW status, Finish(e, SourceOf[e], status, FALSE)
          PROVE  Recorded'
      BY <2>1, <2>4, FinishRecords
    <2> QED
      BY <1>4, <2>2, <2>3, <2>4, GoesOnOrEnds
  <1>5. CASE UNCHANGED vars
    BY <1>5 DEF vars, thread, report, Recorded, RefOf
  <1> QED
    BY <1>1, <1>2, <1>3, <1>4, <1>5 DEF Next, Thread, Done

\* upload() returns only after every coroutine it scheduled concluded, and what the
\* reporter then has in memory says which failed since its last flush
\* (ReturnMeansReported), also when elements share a path or a source: a call of at most
\* CHUNK elements writes the error log exactly when there is an error.
THEOREM UploadReported == Spec => []ReturnMeansReported
  <1>1. Init => RecordInv
    <2> SUFFICES ASSUME Init PROVE RecordInv
      OBVIOUS
    <2>1. \A e \in Elements : /\ pc[e] = "new" /\ outcome[e] = "none" /\ ~(e < drain)
      BY UploadAssumption DEF Init, Elements
    <2>2. flushed = {} /\ \A r \in Refs : successOf[r] = "none"
      BY DEF Init, Unfiled
    <2>3. main = "building"
      BY DEF Init
    <2> QED
      BY <2>1, <2>2, <2>3, InitPermitInv DEF RecordInv, Unreported, Recorded
  <1>2. RecordInv /\ [Next]_vars => RecordInv'
    BY NextPermitInv, UnreportedStep, NextRecorded DEF RecordInv
  <1>3. RecordInv => ReturnMeansReported
    <2> SUFFICES ASSUME RecordInv, main = "returned" PROVE ReturnMeansReported
      BY DEF ReturnMeansReported
    <2>1. \A e \in Elements : pc[e] = "done"
      BY UploadAssumption DEF RecordInv, Recorded, Elements
    <2>2. \A e \in Elements : SourceOf[e] \in Refs
      BY UploadAssumption DEF Refs
    <2> QED
      BY <2>1, <2>2 DEF RecordInv, Recorded, ReturnMeansReported
  <1> QED
    BY <1>1, <1>2, <1>3, PTL DEF Spec


-----------------------------------------------------------------------------
(* What a reporter counts, and what it keeps. *)

Calls == [ref : Keys, ok : BOOLEAN]
Stages ==
    {"idle", "error", "status", "success", "output", "check", "lock", "count", "incr", "clear",
     "push errors", "clear errors", "push status", "clear status", "push output",
     "clear output", "unlock"}

Disks == [errors : SUBSET SUBSET Keys, status : SUBSET SUBSET Keys, output : SUBSET SUBSET Keys,
          failure : Int, success : Int]
Lost == [errors : SUBSET Keys, status : SUBSET Keys, output : SUBSET Keys,
         failure : Int, success : Int]

Types ==
    /\ scene \in Scenes
    /\ at \in [Workers -> Stages] /\ todo \in [Workers -> Seq(Calls)]
    /\ ram \in [Dicts -> SUBSET Keys]
    /\ succ \subseteq Keys /\ fail \subseteq Keys /\ succ \cap fail = {}
    /\ disk \in Disks /\ gone \in Lost
    /\ numTrue \in Nat
    /\ filed \subseteq Calls
    /\ IsFiniteSet(succ) /\ IsFiniteSet(fail) /\ IsFiniteSet(filed)

\* What a worker has left is the end of what it files; what was filed came before.
Filed(w) == Len(scene[w]) - Len(todo[w])

Order ==
    /\ \A w \in Workers :
         /\ Len(todo[w]) <= Len(scene[w])
         /\ \A i \in 1..Len(todo[w]) : todo[w][i] = scene[w][Filed(w) + i]
         /\ at[w] # "idle" => todo[w] # <<>>
    /\ \A c \in filed : \E w \in Workers : \E i \in 1..Filed(w) : c = scene[w][i]

\* The mutex keeps flushes apart.
OneFlush == \A w \in Flushing : mutex = w

\* Workers whose present call has written its outcome.
Late == {w \in Workers : at[w] \notin {"idle", "error", "status", "success"}}

\* What was ever counted on disk.
Trues == disk.success + gone.success
Falses == disk.failure + gone.failure
Counted == Trues + Falses

AtMost ==
    /\ (\A w \in Workers : at[w] # "clear") =>
         Cardinality(Success) + Counted <= Cardinality(filed) + Cardinality(Late)
    /\ Counted <= Cardinality(filed) + Cardinality(Late)

\* Only u files.
Solo(u) == \A v \in Workers \ {u} : scene[v] = <<>>

\* The calls whose entry, or whose outcome, was written.
Before == [errors |-> {"idle", "error"}, status |-> {"idle", "error", "status"},
           output |-> {"idle", "error", "status", "success", "output"}]
Entered(u, early) == IF at[u] \in early THEN filed ELSE filed \cup {Call(u)}
Written(u) == Entered(u, {"idle", "error", "status", "success"})
Oks(u) == {c \in Written(u) : c.ok}
Bads(u) == {c \in Written(u) : ~c.ok}

\* Errors are kept of what failed, outputs of what succeeded.
Kept(d, c) == (d = "errors" => ~c.ok) /\ (d = "output" => c.ok)
RpRecorded(u, d) == {c.ref : c \in {e \in Entered(u, Before[d]) : Kept(d, e)}}

\* What was ever pushed, each key in one row only.
Out(d) == OnDisk(d) \cup gone[d]
Apart(d) == \A row \in disk[d] : /\ row \cap gone[d] = {}
                                /\ \A other \in disk[d] \ {row} : row \cap other = {}

DictInv(u) ==
    \A d \in Dicts :
      /\ ram[d] \cup Out(d) = RpRecorded(u, d) /\ Apart(d)
      /\ IF at[u] = ClearOf[d] THEN ram[d] \subseteq Out(d) ELSE ram[d] \cap Out(d) = {}

SumInv(u) ==
    /\ Success \subseteq {c.ref : c \in Written(u)}
    /\ IF at[u] = "clear"
       THEN Trues = Cardinality(Oks(u)) /\ Falses = Cardinality(Bads(u))
       ELSE /\ Cardinality(succ) + Trues = Cardinality(Oks(u))
            /\ Cardinality(fail) + Falses = Cardinality(Bads(u))
    /\ at[u] = "incr" => numTrue = Cardinality(succ)

Alone == \A u \in Workers : Solo(u) => DictInv(u) /\ SumInv(u)

ReportInv == Types /\ Order /\ OneFlush /\ AtMost /\ Alone
-----------------------------------------------------------------------------
(* Calls. *)

LEMMA SceneIs ==
    ASSUME Types
    PROVE  \A w \in Workers : scene[w] \in Seq(Calls) /\ Len(scene[w]) \in Nat
<1>1. scene \in [Workers -> Seq(Calls)]  BY ReporterAssumption DEF Types, Calls
<1> QED  BY <1>1

LEMMA GoesTo ==
    ASSUME Types, NEW w \in Workers, NEW l, GoTo(w, l)
    PROVE  /\ at'[w] = l /\ \A v \in Workers \ {w} : at'[v] = at[v]
           /\ l \in Stages => at' \in [Workers -> Stages]
  BY DEF Types, GoTo

\* The present call of a worker was not filed, and no call that was filed has its reference.
LEMMA CallIs ==
    ASSUME Types, Order, NEW w \in Workers, todo[w] # <<>>
    PROVE  /\ Call(w) \in Calls /\ Call(w).ref \in Keys /\ Call(w).ok \in BOOLEAN
           /\ \A c \in filed : c.ref # Call(w).ref
           /\ Call(w) \notin filed
<1>1. todo[w] \in Seq(Calls) /\ scene[w] \in Seq(Calls)  BY SceneIs DEF Types
<1>2. Call(w) \in Calls /\ Call(w) = todo[w][1] /\ Len(todo[w]) \in Nat \ {0}
      /\ Len(scene[w]) \in Nat
  BY <1>1 DEF Call
<1>3. Call(w) = scene[w][Filed(w) + 1]  BY <1>2 DEF Order
<1>0. Len(todo[w]) <= Len(scene[w])  BY DEF Order
<1>4. Filed(w) \in Nat /\ Filed(w) + 1 \in 1..Len(scene[w])
  <2>1. Filed(w) = Len(scene[w]) - Len(todo[w])  BY DEF Filed
  <2>2. Len(todo[w]) \in Nat /\ Len(todo[w]) # 0 /\ Len(scene[w]) \in Nat  BY <1>2
  <2>3. Filed(w) \in Nat  BY <1>0, <2>1, <2>2
  <2>4. Filed(w) + 1 <= Len(scene[w])  BY <1>0, <2>1, <2>2
  <2> QED  BY <2>2, <2>3, <2>4
<1>5. ASSUME NEW c \in filed, c.ref = Call(w).ref PROVE FALSE
  <2>1. PICK v \in Workers : \E i \in 1..Filed(v) : c = scene[v][i]  BY DEF Order
  <2>2. PICK i \in 1..Filed(v) : c = scene[v][i]  BY <2>1
  <2>3. Len(scene[v]) \in Nat /\ Len(todo[v]) \in Nat  BY SceneIs DEF Types
  <2>4. i \in 1..Len(scene[v])  BY <2>2, <2>3 DEF Filed
  <2>5. scene[v][i].ref = scene[w][Filed(w) + 1].ref  BY <1>3, <1>5, <2>2
  <2>6. v = w /\ i = Filed(w) + 1
    BY <1>4, <2>4, <2>5, ReporterAssumption DEF Types
  <2> QED  BY <1>4, <2>2, <2>6
<1> QED  BY <1>2, <1>5 DEF Calls

LEMMA OrderStays ==
    ASSUME Order, UNCHANGED <<scene, todo, filed>>,
           \A w \in Workers : at'[w] # "idle" => todo[w] # <<>>
    PROVE  Order'
  BY ZenonT(40) DEF Order, Filed

LEMMA OrderLeaves ==
    ASSUME Types, Order, NEW w \in Workers, at[w] # "idle", Leave(w), UNCHANGED scene
    PROVE  /\ Order' /\ todo' \in [Workers -> Seq(Calls)]
           /\ filed' \subseteq Calls /\ IsFiniteSet(filed')
           /\ Cardinality(filed') = Cardinality(filed) + 1
           /\ at' \in [Workers -> Stages]
<1>1. /\ todo[w] # <<>> /\ todo[w] \in Seq(Calls) /\ todo \in [Workers -> Seq(Calls)]
      /\ \A v \in Workers : Len(todo[v]) \in Nat /\ Len(scene[v]) \in Nat
  BY SceneIs DEF Order, Types
<1>2. /\ todo'[w] = Tail(todo[w]) /\ \A v \in Workers \ {w} : todo'[v] = todo[v]
      /\ filed' = filed \cup {Call(w)} /\ GoTo(w, "idle")
  BY <1>1 DEF Leave
<1>3. at'[w] = "idle" /\ (\A v \in Workers \ {w} : at'[v] = at[v]) /\ at' \in [Workers -> Stages]
  BY <1>2, GoesTo DEF Stages
<1>4. /\ Len(todo'[w]) = Len(todo[w]) - 1
      /\ \A i \in 1..Len(todo'[w]) : todo'[w][i] = todo[w][i + 1]
      /\ Tail(todo[w]) \in Seq(Calls) /\ Call(w) = todo[w][1] /\ Len(todo[w]) \in Nat \ {0}
  BY <1>1, <1>2 DEF Call
<1>5. Call(w) \in Calls /\ Call(w) \notin filed  BY <1>1, CallIs
<1>6. todo' \in [Workers -> Seq(Calls)]
  <2>1. todo' = [todo EXCEPT ![w] = Tail(todo[w])]  BY DEF Leave
  <2> QED  BY <1>1, <1>4, <2>1
<1>7. Cardinality(filed') = Cardinality(filed) + 1 /\ IsFiniteSet(filed')
  BY <1>2, <1>5, FS_AddElement DEF Types
<1>8. Filed(w)' = Filed(w) + 1 /\ \A v \in Workers \ {w} : Filed(v)' = Filed(v)
  <2>1. Filed(w) = Len(scene[w]) - Len(todo[w]) /\ Filed(w)' = Len(scene[w]) - Len(todo'[w])
    BY DEF Filed
  <2>2. \A v \in Workers \ {w} : Filed(v)' = Filed(v)  BY <1>2 DEF Filed
  <2>3. Filed(w)' = Filed(w) + 1  BY <1>1, <1>4, <2>1
  <2> QED  BY <2>2, <2>3
<1>12. \A v \in Workers : Filed(v) \in Nat
  <2>1. \A v \in Workers : Len(todo[v]) <= Len(scene[v])  BY DEF Order
  <2> QED  BY <1>1, <2>1 DEF Filed
<1>9. ASSUME NEW v \in Workers
      PROVE  /\ Len(todo'[v]) <= Len(scene[v])
             /\ \A i \in 1..Len(todo'[v]) : todo'[v][i] = scene[v][Filed(v)' + i]
             /\ at'[v] # "idle" => todo'[v] # <<>>
  <2>1. CASE v = w
    <3>1. Len(todo[w]) <= Len(scene[w])  BY DEF Order
    <3>2. ASSUME NEW i \in 1..Len(todo'[w]) PROVE todo'[w][i] = scene[w][Filed(w)' + i]
      <4>1. i + 1 \in 1..Len(todo[w])  BY <1>4
      <4>2. todo[w][i + 1] = scene[w][Filed(w) + (i + 1)]  BY <4>1 DEF Order
      <4>3. Filed(w) + (i + 1) = Filed(w)' + i  BY <1>8, <1>12
      <4> QED  BY <1>4, <4>2, <4>3
    <3> QED  BY <1>1, <1>3, <1>4, <2>1, <3>1, <3>2
  <2>2. CASE v # w  BY <1>2, <1>3, <1>8, <2>2 DEF Order
  <2> QED  BY <2>1, <2>2
<1>10. ASSUME NEW c \in filed'
       PROVE  \E v \in Workers : \E i \in 1..Filed(v)' : c = scene[v][i]
  <2>1. CASE c = Call(w)
    <3>1. Filed(w) + 1 \in 1..Filed(w)'
      BY <1>8, <1>12
    <3>2. c = scene[w][Filed(w) + 1]  BY <1>4, <2>1 DEF Order
    <3> QED  BY <3>1, <3>2
  <2>2. CASE c \in filed
    <3>1. PICK v \in Workers : \E i \in 1..Filed(v) : c = scene[v][i]  BY <2>2 DEF Order
    <3>2. PICK i \in 1..Filed(v) : c = scene[v][i]  BY <3>1
    <3>3. i \in 1..Filed(v)'  BY <1>8, <1>12, <3>2
    <3> QED  BY <3>2, <3>3
  <2> QED  BY <1>2, <2>1, <2>2
<1>11. Order'  BY <1>9, <1>10 DEF Order
<1> QED  BY <1>2, <1>3, <1>5, <1>6, <1>7, <1>11 DEF Types
-----------------------------------------------------------------------------
(* Types, the order of the calls, and one flush at a time. *)

Unlocked == {"idle", "error", "status", "success", "output", "check", "lock"}

LEMMA FlushStays ==
    ASSUME Types, OneFlush, NEW w \in Workers, NEW l, GoTo(w, l), mutex' = mutex,
           l \in Unlocked \/ w \in Flushing
    PROVE  OneFlush'
<1>1. at'[w] = l /\ \A v \in Workers \ {w} : at'[v] = at[v]  BY GoesTo
<1>2. \A v \in Flushing' : v \in Flushing  BY <1>1 DEF Flushing, Unlocked
<1> QED  BY <1>2 DEF OneFlush

\* A step that only moves on: the calls stay as they are.
LEMMA CallStays ==
    ASSUME Types, Order, NEW w \in Workers, NEW l \in Stages, GoTo(w, l), todo[w] # <<>>,
           UNCHANGED <<scene, todo, filed>>
    PROVE  Order' /\ at' \in [Workers -> Stages] /\ Call(w)' = Call(w)
<1>1. at'[w] = l /\ (\A v \in Workers \ {w} : at'[v] = at[v]) /\ at' \in [Workers -> Stages]
  BY GoesTo
<1>2. \A v \in Workers : at'[v] # "idle" => todo[v] # <<>>  BY <1>1 DEF Order
<1> QED  BY <1>1, <1>2, OrderStays DEF Call

LEMMA WriteBase ==
    ASSUME Types, Order, OneFlush, NEW w \in Workers,
           \/ Enter(w) \/ WriteError(w) \/ WriteStatus(w) \/ WriteSuccess(w) \/ WriteOutput(w)
    PROVE  Types' /\ Order' /\ OneFlush'
<1>1. todo[w] # <<>>
  BY DEF Enter, WriteError, WriteStatus, WriteSuccess, WriteOutput, Order
<1>2. Call(w).ref \in Keys /\ Call(w).ok \in BOOLEAN  BY <1>1, CallIs
<1>3. PICK l \in Unlocked : GoTo(w, l)
  BY DEF Enter, WriteError, WriteStatus, WriteSuccess, WriteOutput, Unlocked
<1>4. UNCHANGED <<scene, todo, filed, disk, gone, mutex, numTrue>>
  BY DEF Enter, WriteError, WriteStatus, WriteSuccess, WriteOutput
<1>5. Order' /\ at' \in [Workers -> Stages]  BY <1>1, <1>3, <1>4, CallStays DEF Unlocked, Stages
<1>6. OneFlush'  BY <1>3, <1>4, FlushStays
<1>7. /\ succ' \subseteq Keys /\ fail' \subseteq Keys /\ succ' \cap fail' = {}
      /\ IsFiniteSet(succ') /\ IsFiniteSet(fail')
  <2>1. CASE WriteSuccess(w)
    <3> DEFINE r == Call(w).ref
    <3>1. /\ IsFiniteSet(succ \cup {r}) /\ IsFiniteSet(fail \cup {r})
          /\ IsFiniteSet(succ \ {r}) /\ IsFiniteSet(fail \ {r})
      BY FS_AddElement, FS_RemoveElement DEF Types
    <3>2. \/ Call(w).ok /\ succ' = succ \cup {r} /\ fail' = fail \ {r}
          \/ ~Call(w).ok /\ succ' = succ \ {r} /\ fail' = fail \cup {r}
      BY <2>1 DEF WriteSuccess
    <3> QED  BY <1>2, <3>1, <3>2 DEF Types
  <2>2. CASE UNCHANGED <<succ, fail>>  BY <2>2 DEF Types
  <2> QED  BY <2>1, <2>2 DEF Enter, WriteError, WriteStatus, WriteSuccess, WriteOutput
<1>8. ram' \in [Dicts -> SUBSET Keys]
  BY <1>2 DEF Types, Put, Dicts, Enter, WriteError, WriteStatus, WriteSuccess, WriteOutput
<1> QED  BY <1>4, <1>5, <1>6, <1>7, <1>8 DEF Types

LEMMA LeaveBase ==
    ASSUME Types, Order, OneFlush, NEW w \in Workers, at[w] # "idle", Leave(w),
           UNCHANGED <<scene, ram, succ, fail, disk, gone, numTrue>>,
           mutex' = mutex \/ Flushing \subseteq {w}
    PROVE  Types' /\ Order' /\ OneFlush'
<1>1. /\ Order' /\ todo' \in [Workers -> Seq(Calls)]
      /\ filed' \subseteq Calls /\ IsFiniteSet(filed') /\ at' \in [Workers -> Stages]
  BY OrderLeaves
<1>2. GoTo(w, "idle")  BY DEF Leave
<1>3. at'[w] = "idle" /\ \A v \in Workers \ {w} : at'[v] = at[v]  BY <1>2, GoesTo
<1>4. \A v \in Flushing' : v \in Flushing \ {w}  BY <1>3 DEF Flushing
<1>5. OneFlush'  BY <1>4 DEF OneFlush
<1> QED  BY <1>1, <1>5 DEF Types

LEMMA CheckBase ==
    ASSUME Types, Order, OneFlush, NEW w \in Workers, Check(w) \/ Lock(w) \/ Unlock(w)
    PROVE  Types' /\ Order' /\ OneFlush'
<1>1. /\ UNCHANGED <<scene, ram, succ, fail, disk, gone, numTrue>> /\ at[w] # "idle"
      /\ todo[w] # <<>>
  BY DEF Check, Lock, Unlock, Order
<1>2. CASE Leave(w) /\ mutex' = mutex  BY <1>1, <1>2, LeaveBase
<1>3. CASE GoTo(w, "lock") /\ UNCHANGED <<todo, filed, mutex>>
  <2>1. Order' /\ at' \in [Workers -> Stages]  BY <1>1, <1>3, CallStays DEF Stages
  <2>2. OneFlush'  BY <1>3, FlushStays DEF Unlocked
  <2> QED  BY <1>1, <1>3, <2>1, <2>2 DEF Types
<1>4. CASE Unlock(w)
  <2>1. w \in Flushing  BY <1>4 DEF Unlock, Flushing
  <2>2. Flushing \subseteq {w}  BY <2>1 DEF OneFlush
  <2> QED  BY <1>1, <1>4, <2>2, LeaveBase DEF Unlock
<1>5. CASE Lock(w) /\ mutex' = w /\ GoTo(w, "count") /\ UNCHANGED <<todo, filed>>
  <2>1. Order' /\ at' \in [Workers -> Stages]  BY <1>1, <1>5, CallStays DEF Stages
  <2>2. at'[w] = "count" /\ \A v \in Workers \ {w} : at'[v] = at[v]  BY <1>5, GoesTo
  <2>3. \A v \in Workers : v \notin Flushing
    <3>1. mutex = NoWorker  BY <1>5 DEF Lock
    <3> QED  BY <3>1, ReporterAssumption DEF OneFlush, Flushing
  <2>4. OneFlush'  BY <1>5, <2>2, <2>3 DEF OneFlush, Flushing
  <2> QED  BY <1>1, <1>5, <2>1, <2>4 DEF Types
<1>6. CASE Lock(w) /\ Leave(w)
  <2>1. mutex' = mutex  BY <1>6 DEF Lock, AfterError, Leave, GoTo, Types
  <2> QED  BY <1>1, <1>6, <2>1, LeaveBase
<1> QED  BY <1>2, <1>3, <1>4, <1>5, <1>6 DEF Check, Lock

LEMMA StageOf ==
    ASSUME NEW d \in Dicts
    PROVE  /\ PushOf[d] \in {"push errors", "push status", "push output"}
           /\ ClearOf[d] \in {"clear errors", "clear status", "clear output"}
           /\ After[d] \in {"push status", "push output", "unlock"}
<1>1. CASE d = "errors"  BY <1>1 DEF PushOf, ClearOf, After
<1>2. CASE d = "status"  BY <1>2 DEF PushOf, ClearOf, After
<1>3. CASE d = "output"  BY <1>3 DEF PushOf, ClearOf, After
<1> QED  BY <1>1, <1>2, <1>3 DEF Dicts

LEMMA FlushBase ==
    ASSUME Types, Order, OneFlush, NEW w \in Workers,
           \/ Count(w) \/ Incr(w) \/ Clear(w)
           \/ \E d \in Dicts : Push(w, d) \/ ClearDict(w, d)
    PROVE  Types' /\ Order' /\ OneFlush' /\ w \in Flushing
<1>1. /\ w \in Flushing /\ at[w] # "idle" /\ todo[w] # <<>>
      /\ UNCHANGED <<scene, todo, filed, mutex, gone>>
  <2>1. at[w] \in {"count", "incr", "clear", "push errors", "push status", "push output",
                   "clear errors", "clear status", "clear output"}
    BY StageOf DEF Count, Incr, Clear, Push, ClearDict
  <2>2. UNCHANGED <<scene, todo, filed, mutex, gone>>
    BY DEF Count, Incr, Clear, Push, ClearDict
  <2> QED  BY <2>1, <2>2 DEF Flushing, Order
<1>2. PICK l \in Stages : GoTo(w, l)
  <2>1. ASSUME NEW d \in Dicts PROVE ClearOf[d] \in Stages /\ After[d] \in Stages
    BY StageOf DEF Stages
  <2>2. \E l \in Stages : GoTo(w, l)
    BY <2>1 DEF Count, Incr, Clear, Push, ClearDict, Stages
  <2> QED  BY <2>2
<1>3. Order' /\ at' \in [Workers -> Stages]  BY <1>1, <1>2, CallStays
<1>4. OneFlush'  BY <1>1, <1>2, FlushStays
<1>5. IsFiniteSet(Success) /\ Cardinality(Success) \in Nat /\ Cardinality(succ) \in Nat
      /\ Cardinality(fail) \in Nat
  BY FS_Union, FS_CardinalityType DEF Types, Success
<1>6. CASE Count(w)  BY <1>1, <1>3, <1>4, <1>5, <1>6 DEF Count, Types
<1>7. CASE Incr(w)
  <2>1. disk' \in Disks
    <3>1. disk.success + numTrue \in Int /\ disk.failure + Failures(numTrue) \in Int
      BY <1>5 DEF Failures, Types, Disks
    <3>2. disk' = [disk EXCEPT !.success = disk.success + numTrue,
                               !.failure = disk.failure + Failures(numTrue)]
      BY <1>7 DEF Incr
    <3> QED  BY <3>1, <3>2 DEF Types, Disks
  <2> QED  BY <1>1, <1>3, <1>4, <1>7, <2>1 DEF Incr, Types
<1>8. CASE Clear(w)
  <2>1. IsFiniteSet({})  BY FS_EmptySet
  <2>2. succ' = {} /\ fail' = {}  BY <1>8 DEF Clear, ClearSuccess
  <2> QED  BY <1>1, <1>3, <1>4, <1>8, <2>1, <2>2 DEF Clear, Types
<1>9. ASSUME NEW d \in Dicts, Push(w, d) PROVE Types'
  <2>1. disk' \in Disks
    <3>1. disk[d] \cup {ram[d]} \subseteq SUBSET Keys
      BY <1>9 DEF Types, Dicts, Disks
    <3>2. disk' = disk \/ disk' = [disk EXCEPT ![d] = disk[d] \cup {ram[d]}]
      BY <1>9 DEF Push, Pushed, PushDisk
    <3>6. PICK rows \in SUBSET SUBSET Keys :
            rows = disk[d] \cup {ram[d]} /\ (disk' = disk \/ disk' = [disk EXCEPT ![d] = rows])
      BY <3>1, <3>2, Zenon
    <3>7. disk \in Disks  BY DEF Types
    <3> HIDE DEF Types
    <3>3. CASE d = "errors"  BY <3>3, <3>6, <3>7 DEF Disks
    <3>4. CASE d = "status"  BY <3>4, <3>6, <3>7 DEF Disks
    <3>5. CASE d = "output"  BY <3>5, <3>6, <3>7 DEF Disks
    <3> QED  BY <1>9, <3>3, <3>4, <3>5 DEF Dicts
  <2> QED  BY <1>1, <1>3, <1>9, <2>1 DEF Push, Types
<1>10. ASSUME NEW d \in Dicts, ClearDict(w, d) PROVE Types'
  BY <1>1, <1>3, <1>10 DEF ClearDict, Types
<1> QED  BY <1>1, <1>3, <1>4, <1>6, <1>7, <1>8, <1>9, <1>10
-----------------------------------------------------------------------------
(* What was counted. *)

LEMMA Numbers ==
    ASSUME Types
    PROVE  /\ IsFiniteSet(Late) /\ Cardinality(Late) \in Nat
           /\ IsFiniteSet(Success) /\ Cardinality(Success) \in Nat
           /\ Cardinality(succ) \in Nat /\ Cardinality(fail) \in Nat
           /\ Cardinality(Success) = Cardinality(succ) + Cardinality(fail)
           /\ Cardinality(filed) \in Nat
           /\ disk.success \in Int /\ disk.failure \in Int
           /\ gone.success \in Int /\ gone.failure \in Int
           /\ Trues \in Int /\ Falses \in Int /\ Counted = Trues + Falses /\ Counted \in Int
<1>1. IsFiniteSet(Late)
  <2>1. Late \in SUBSET Workers  BY DEF Late
  <2> QED  BY <2>1, FS_Subset, ReporterAssumption
<1>2. IsFiniteSet(Success) /\ Cardinality(succ \cap fail) = 0
      /\ Cardinality(Success)
           = Cardinality(succ) + Cardinality(fail) - Cardinality(succ \cap fail)
  BY FS_Union, FS_EmptySet DEF Types, Success
<1>3. Cardinality(succ) \in Nat /\ Cardinality(fail) \in Nat  BY FS_CardinalityType DEF Types
<1>4. Cardinality(Late) \in Nat /\ Cardinality(Success) \in Nat /\ Cardinality(filed) \in Nat
  BY <1>1, <1>2, FS_CardinalityType DEF Types
<1>5. Cardinality(Success) = Cardinality(succ) + Cardinality(fail)  BY <1>2, <1>3
<1>6. disk.success \in Int /\ disk.failure \in Int /\ gone.success \in Int /\ gone.failure \in Int
  BY DEF Types, Disks, Lost
<1>7. Trues \in Int /\ Falses \in Int /\ Counted = Trues + Falses /\ Counted \in Int
  BY <1>6 DEF Trues, Falses, Counted
<1> QED  BY <1>1, <1>2, <1>3, <1>4, <1>5, <1>6, <1>7

LEMMA CountStays ==
    ASSUME Types, AtMost, NEW w \in Workers, NEW l, GoTo(w, l), at[w] # "clear",
           w \in Late <=> l \notin {"idle", "error", "status", "success"},
           UNCHANGED <<succ, fail, filed, gone>>,
           disk'.success = disk.success, disk'.failure = disk.failure
    PROVE  AtMost'
<1>1. at'[w] = l /\ \A v \in Workers \ {w} : at'[v] = at[v]  BY GoesTo
<1>2. Late' = Late  BY <1>1 DEF Late
<1>3. Success' = Success  BY DEF Success
<1>4. (\A v \in Workers : at'[v] # "clear") => \A v \in Workers : at[v] # "clear"  BY <1>1
<1>5. Counted' = Counted  BY DEF Counted, Trues, Falses
<1> QED  BY <1>2, <1>3, <1>4, <1>5 DEF AtMost

LEMMA CountLeaves ==
    ASSUME Types, Order, AtMost, NEW w \in Late, Leave(w), at[w] # "clear",
           UNCHANGED <<scene, succ, fail, disk, gone>>
    PROVE  AtMost'
<1>1. w \in Workers /\ at[w] # "idle" /\ GoTo(w, "idle")  BY DEF Late, Leave
<1>2. at'[w] = "idle" /\ \A v \in Workers \ {w} : at'[v] = at[v]  BY <1>1, GoesTo
<1>3. Late' = Late \ {w}  BY <1>2 DEF Late
<1>4. Cardinality(Late') = Cardinality(Late) - 1
  BY <1>3, Numbers, FS_RemoveElement
<1>5. Cardinality(filed') = Cardinality(filed) + 1  BY <1>1, OrderLeaves
<1>6. Cardinality(filed') + Cardinality(Late') = Cardinality(filed) + Cardinality(Late)
  BY <1>4, <1>5, Numbers
<1>7. Success' = Success  BY DEF Success
<1>8. (\A v \in Workers : at'[v] # "clear") => \A v \in Workers : at[v] # "clear"  BY <1>1, <1>2
<1>9. Counted' = Counted  BY DEF Counted, Trues, Falses
<1> QED  BY <1>6, <1>7, <1>8, <1>9 DEF AtMost

LEMMA StepCount ==
    ASSUME Types, Order, OneFlush, AtMost, NEW w \in Workers, SetIndex(w)
    PROVE  AtMost'
<1>1. CASE Enter(w) \/ WriteError(w) \/ WriteStatus(w)
  <2>1. PICK l \in {"error", "status", "success"} : GoTo(w, l)
    BY <1>1 DEF Enter, WriteError, WriteStatus
  <2>2. /\ UNCHANGED <<succ, fail, filed, disk, gone>> /\ w \notin Late /\ at[w] # "clear"
    BY <1>1 DEF Enter, WriteError, WriteStatus, Late
  <2> QED  BY <2>1, <2>2, CountStays
<1>2. CASE WriteSuccess(w)
  <2> DEFINE r == Call(w).ref
  <2>1. /\ UNCHANGED <<filed, disk, gone>> /\ w \notin Late /\ GoTo(w, "output") /\ at[w] # "clear"
        /\ Success' = Success \cup {r}
    BY <1>2 DEF WriteSuccess, Late, Success
  <2>2. at'[w] = "output" /\ \A v \in Workers \ {w} : at'[v] = at[v]  BY <2>1, GoesTo
  <2>3. Late' = Late \cup {w}  BY <2>2 DEF Late
  <2>4. Cardinality(Late') = Cardinality(Late) + 1  BY <2>1, <2>3, Numbers, FS_AddElement
  <2>5. Cardinality(Success') <= Cardinality(Success) + 1 /\ Cardinality(Success') \in Nat
    <3>1. /\ IsFiniteSet(Success \cup {r})
          /\ Cardinality(Success \cup {r})
               = IF r \in Success THEN Cardinality(Success) ELSE Cardinality(Success) + 1
      BY Numbers, FS_AddElement, Zenon
    <3>2. Cardinality(Success \cup {r}) \in Nat  BY <3>1, FS_CardinalityType
    <3> QED  BY <2>1, <3>1, <3>2, Numbers
  <2>6. (\A v \in Workers : at'[v] # "clear") => \A v \in Workers : at[v] # "clear"
    BY <2>1, <2>2
  <2>7. Counted' = Counted  BY <2>1 DEF Counted, Trues, Falses
  <2> QED  BY <2>1, <2>4, <2>5, <2>6, <2>7, Numbers DEF AtMost
<1>3. CASE WriteOutput(w) \/ Count(w) \/ \E d \in Dicts : Push(w, d) \/ ClearDict(w, d)
  <2>1. w \in Late /\ at[w] # "clear" /\ UNCHANGED <<succ, fail, filed, gone>>
    BY <1>3, StageOf DEF WriteOutput, Count, Push, ClearDict, Late
  <2>2. \E l : GoTo(w, l) /\ l \notin {"idle", "error", "status", "success"}
    <3>1. CASE WriteOutput(w) \/ Count(w)
      <4>1. GoTo(w, "check") \/ GoTo(w, "incr") \/ GoTo(w, "push errors")
        BY <3>1 DEF WriteOutput, Count
      <4>2. {"check", "incr", "push errors"} \cap {"idle", "error", "status", "success"} = {}
        OBVIOUS
      <4> QED  BY <4>1, <4>2
    <3>2. ASSUME NEW d \in Dicts, Push(w, d) \/ ClearDict(w, d)
          PROVE  \E l : GoTo(w, l) /\ l \notin {"idle", "error", "status", "success"}
      <4>1. GoTo(w, ClearOf[d]) \/ GoTo(w, After[d])  BY <3>2 DEF Push, ClearDict
      <4>2. /\ ClearOf[d] \notin {"idle", "error", "status", "success"}
            /\ After[d] \notin {"idle", "error", "status", "success"}
        BY StageOf
      <4> QED  BY <4>1, <4>2
    <3> QED  BY <1>3, <3>1, <3>2
  <2>3. disk'.success = disk.success /\ disk'.failure = disk.failure
    <3>1. CASE disk' = disk  BY <3>1
    <3>2. ASSUME NEW d \in Dicts, disk' = [disk EXCEPT ![d] = disk[d] \cup {ram[d]}]
          PROVE  disk'.success = disk.success /\ disk'.failure = disk.failure
      <4>1. d # "success" /\ d # "failure"  BY <3>2 DEF Dicts
      <4> QED  BY <3>2, <4>1 DEF Types, Disks
    <3> QED  BY <1>3, <3>1, <3>2 DEF WriteOutput, Count, Push, ClearDict, Pushed, PushDisk
  <2> QED  BY <2>1, <2>2, <2>3, CountStays
<1>4. CASE Incr(w)
  <2>1. /\ UNCHANGED <<succ, fail, filed, gone>> /\ w \in Late /\ GoTo(w, "clear")
        /\ at[w] = "incr" /\ w \in Flushing
    BY <1>4 DEF Incr, Late, Flushing
  <2>2. at'[w] = "clear" /\ \A v \in Workers \ {w} : at'[v] = at[v]  BY <2>1, GoesTo
  <2>3. \A v \in Workers : at[v] # "clear"  BY <2>1 DEF OneFlush, Flushing
  <2>4. Counted' = Counted + Cardinality(Success)
    <3>1. disk' = [disk EXCEPT !.success = disk.success + numTrue,
                               !.failure = disk.failure + (Cardinality(Success) - numTrue)]
      BY <1>4 DEF Incr, Failures
    <3>2. /\ disk'.success = disk.success + numTrue
          /\ disk'.failure = disk.failure + (Cardinality(Success) - numTrue)
      BY <3>1 DEF Types, Disks
    <3>3. numTrue \in Nat  BY DEF Types
    <3>4. /\ Counted' = (disk'.success + gone.success) + (disk'.failure + gone.failure)
          /\ Counted = (disk.success + gone.success) + (disk.failure + gone.failure)
      BY <2>1 DEF Counted, Trues, Falses
    <3> QED  BY <3>2, <3>3, <3>4, Numbers
  <2>5. Late' = Late  BY <2>1, <2>2 DEF Late
  <2>6. Cardinality(Success) + Counted <= Cardinality(filed) + Cardinality(Late)
    BY <2>3 DEF AtMost
  <2>7. Counted' <= Cardinality(filed) + Cardinality(Late)
    BY <2>4, <2>6, Numbers
  <2> QED  BY <2>1, <2>2, <2>5, <2>7 DEF AtMost
<1>5. CASE Clear(w)
  <2>1. /\ UNCHANGED <<filed, disk, gone>> /\ w \in Late /\ GoTo(w, "push errors")
        /\ Success' = {}
    BY <1>5 DEF Clear, ClearSuccess, Late, Success
  <2>2. at'[w] = "push errors" /\ \A v \in Workers \ {w} : at'[v] = at[v]  BY <2>1, GoesTo
  <2>3. Late' = Late  BY <2>1, <2>2 DEF Late
  <2>4. Cardinality(Success') = 0  BY <2>1, FS_EmptySet
  <2>5. Counted <= Cardinality(filed) + Cardinality(Late)  BY DEF AtMost
  <2>6. 0 + Counted <= Cardinality(filed) + Cardinality(Late)
    BY <2>5, Numbers
  <2>7. Counted' = Counted  BY <2>1 DEF Counted, Trues, Falses
  <2> QED  BY <2>1, <2>3, <2>4, <2>5, <2>6, <2>7 DEF AtMost
<1>6. CASE Check(w) \/ Lock(w) \/ Unlock(w)
  <2>1. /\ w \in Late /\ at[w] # "clear" /\ UNCHANGED <<scene, succ, fail, disk, gone>>
    BY <1>6 DEF Check, Lock, Unlock, Late
  <2>2. \/ Leave(w)
        \/ UNCHANGED filed /\ \E l \in {"lock", "count"} : GoTo(w, l)
    BY <1>6 DEF Check, Lock, Unlock
  <2> QED  BY <2>1, <2>2, CountStays, CountLeaves
<1> QED  BY <1>1, <1>2, <1>3, <1>4, <1>5, <1>6 DEF SetIndex
-----------------------------------------------------------------------------
(* One thread that files. *)

Quiet == {"idle", "error", "status", "success"}

LEMMA OnlyActor ==
    ASSUME Types, Order, NEW u \in Workers, Solo(u), NEW w \in Workers, SetIndex(w)
    PROVE  w = u
<1>1. todo[w] # <<>>
  <2>1. ASSUME NEW d \in Dicts, Push(w, d) \/ ClearDict(w, d) PROVE at[w] # "idle"
    BY <2>1, StageOf DEF Push, ClearDict
  <2>2. Enter(w) \/ at[w] # "idle"
    BY <2>1 DEF SetIndex, WriteError, WriteStatus, WriteSuccess, WriteOutput, Check, Lock,
                Count, Incr, Clear, Unlock
  <2> QED  BY <2>2 DEF Enter, Order
<1>2. Len(todo[w]) <= Len(scene[w]) /\ todo[w] \in Seq(Calls)  BY DEF Order, Types
<1>3. Len(scene[w]) # 0  BY <1>1, <1>2, SceneIs
<1> QED  BY <1>3 DEF Solo

LEMMA EnteredKeeps ==
    ASSUME Types, NEW u \in Workers, NEW l, GoTo(u, l), UNCHANGED <<todo, filed>>,
           NEW E, at[u] \in E <=> l \in E
    PROVE  Entered(u, E)' = Entered(u, E)
  BY GoesTo DEF Entered, Call

LEMMA EnteredLeaves ==
    ASSUME Types, NEW u \in Workers, Leave(u), NEW E, at[u] \notin E, "idle" \in E
    PROVE  Entered(u, E)' = Entered(u, E)
  BY GoesTo DEF Entered, Call, Leave

LEMMA EnteredGrows ==
    ASSUME Types, NEW u \in Workers, NEW l, GoTo(u, l), UNCHANGED <<todo, filed>>,
           NEW E, at[u] \in E, l \notin E
    PROVE  Entered(u, E) = filed /\ Entered(u, E)' = filed \cup {Call(u)}
  BY GoesTo DEF Entered, Call

\* A step that writes nothing, and either moves on within the same part or ends the call.
LEMMA AloneKeeps ==
    ASSUME Types, NEW u \in Workers, DictInv(u), SumInv(u), UNCHANGED <<ram, succ, fail, disk, gone>>,
           \A d \in Dicts : Entered(u, Before[d])' = Entered(u, Before[d]),
           Written(u)' = Written(u),
           \A d \in Dicts : at[u] # ClearOf[d] /\ at'[u] # ClearOf[d],
           at[u] # "clear", at'[u] # "clear",
           at'[u] = "incr" => numTrue' = Cardinality(succ)
    PROVE  DictInv(u)' /\ SumInv(u)'
<1>1. \A d \in Dicts : RpRecorded(u, d)' = RpRecorded(u, d)
  BY DEF RpRecorded, Kept
<1>2. DictInv(u)'
  <2>1. \A d \in Dicts : Out(d)' = Out(d) /\ (Apart(d)' <=> Apart(d))  BY DEF Out, OnDisk, Apart
  <2> QED  BY <1>1, <2>1 DEF DictInv
<1>3. Oks(u)' = Oks(u) /\ Bads(u)' = Bads(u) /\ Success' = Success
  BY DEF Oks, Bads, Success
<1>5. Trues' = Trues /\ Falses' = Falses  BY DEF Trues, Falses
<1>4. SumInv(u)'  BY <1>3, <1>5 DEF SumInv
<1> QED  BY <1>2, <1>4

\* A step that writes one entry, or need not write it.
LEMMA AloneWrites ==
    ASSUME Types, Order, NEW u \in Workers, todo[u] # <<>>, DictInv(u), SumInv(u),
           NEW d \in Dicts, NEW l, GoTo(u, l),
           UNCHANGED <<todo, filed, succ, fail, disk, gone>>,
           ram' = IF Kept(d, Call(u)) THEN [ram EXCEPT ![d] = ram[d] \cup {Call(u).ref}] ELSE ram,
           at[u] \in Before[d], l \notin Before[d],
           \A e \in Dicts \ {d} : at[u] \in Before[e] <=> l \in Before[e],
           at[u] \in Quiet <=> l \in Quiet,
           \A e \in Dicts : at[u] # ClearOf[e] /\ l # ClearOf[e],
           at[u] \notin {"clear", "incr"}, l \notin {"clear", "incr"}
    PROVE  DictInv(u)' /\ SumInv(u)'
<1>1. at'[u] = l  BY GoesTo
<1>2. Written(u)' = Written(u)  BY EnteredKeeps DEF Written, Quiet
<1>3. Oks(u)' = Oks(u) /\ Bads(u)' = Bads(u) /\ Success' = Success
  BY <1>2 DEF Oks, Bads, Success
<1>4. SumInv(u)'
  <2>1. Trues' = Trues /\ Falses' = Falses  BY DEF Trues, Falses
  <2> QED  BY <1>1, <1>2, <1>3, <2>1 DEF SumInv
<1>9. \A e \in Dicts : Out(e)' = Out(e) /\ (Apart(e)' <=> Apart(e))  BY DEF Out, OnDisk, Apart
<1>5. ASSUME NEW e \in Dicts \ {d}
      PROVE  /\ ram'[e] \cup Out(e)' = RpRecorded(u, e)' /\ ram'[e] \cap Out(e)' = {}
  <2>1. Entered(u, Before[e])' = Entered(u, Before[e])  BY EnteredKeeps
  <2>2. RpRecorded(u, e)' = RpRecorded(u, e)  BY <2>1 DEF RpRecorded, Kept
  <2>3. ram'[e] = ram[e]  BY DEF Types
  <2> QED  BY <1>9, <2>2, <2>3 DEF DictInv
<1>6. ram'[d] \cup Out(d)' = RpRecorded(u, d)' /\ ram'[d] \cap Out(d)' = {}
  <2> DEFINE c == Call(u)
  <2>1. Entered(u, Before[d]) = filed /\ Entered(u, Before[d])' = filed \cup {c}
    BY EnteredGrows
  <2>2. RpRecorded(u, d)' = RpRecorded(u, d) \cup (IF Kept(d, c) THEN {c.ref} ELSE {})
    BY <2>1 DEF RpRecorded, Kept
  <2>3. \A x \in filed : x.ref # c.ref  BY CallIs
  <2>4. c.ref \notin RpRecorded(u, d)  BY <2>1, <2>3 DEF RpRecorded
  <2>5. ram[d] \cup Out(d) = RpRecorded(u, d) /\ ram[d] \cap Out(d) = {}  BY DEF DictInv
  <2>6. ram'[d] = IF Kept(d, c) THEN ram[d] \cup {c.ref} ELSE ram[d]  BY DEF Types
  <2>7. Out(d)' = Out(d)  BY <1>9
  <2> HIDE DEF c
  <2>8. CASE Kept(d, c)  BY <2>2, <2>4, <2>5, <2>6, <2>7, <2>8
  <2>9. CASE ~Kept(d, c)  BY <2>2, <2>5, <2>6, <2>7, <2>9
  <2> QED  BY <2>8, <2>9
<1>7. \A e \in Dicts : at'[u] # ClearOf[e]  BY <1>1
<1>10. \A e \in Dicts : Apart(e)'  BY <1>9 DEF DictInv
<1>8. DictInv(u)'  BY <1>5, <1>6, <1>7, <1>10 DEF DictInv
<1> QED  BY <1>4, <1>8

LEMMA BeforeIs ==
    /\ Before["errors"] = {"idle", "error"} /\ Before["status"] = {"idle", "error", "status"}
    /\ Before["output"] = {"idle", "error", "status", "success", "output"}
    /\ \A d \in Dicts : Before[d] \in {Before["errors"], Before["status"], Before["output"]}
  BY DEF Before, Dicts

LEMMA WriteAlone ==
    ASSUME Types, Order, NEW u \in Workers, DictInv(u), SumInv(u),
           WriteError(u) \/ WriteStatus(u) \/ WriteOutput(u)
    PROVE  DictInv(u)' /\ SumInv(u)'
<1>1. todo[u] # <<>> /\ UNCHANGED <<todo, filed, succ, fail, disk, gone>>
  BY DEF WriteError, WriteStatus, WriteOutput, Order
<1>2. Call(u).ok \in BOOLEAN  BY <1>1, CallIs
<1>3. CASE WriteError(u)
  <2>1. at[u] = "error" /\ GoTo(u, "status")  BY <1>3 DEF WriteError
  <2>2. ram' = IF Kept("errors", Call(u))
               THEN [ram EXCEPT !["errors"] = ram["errors"] \cup {Call(u).ref}] ELSE ram
    BY <1>2, <1>3 DEF WriteError, Put, Kept
  <2>3. /\ "errors" \in Dicts /\ "error" \in Before["errors"] /\ "status" \notin Before["errors"]
        /\ \A e \in Dicts \ {"errors"} : "error" \in Before[e] /\ "status" \in Before[e]
    BY BeforeIs DEF Dicts
  <2>4. \A e \in Dicts : "error" # ClearOf[e] /\ "status" # ClearOf[e]  BY StageOf
  <2>5. "error" \in Quiet /\ "status" \in Quiet  BY DEF Quiet
  <2>6. /\ at[u] \in Before["errors"] /\ "status" \notin Before["errors"]
        /\ \A e \in Dicts \ {"errors"} : at[u] \in Before[e] <=> "status" \in Before[e]
        /\ at[u] \in Quiet <=> "status" \in Quiet
        /\ \A e \in Dicts : at[u] # ClearOf[e] /\ "status" # ClearOf[e]
        /\ at[u] \notin {"clear", "incr"} /\ "status" \notin {"clear", "incr"}
    BY <2>1, <2>3, <2>4, <2>5
  <2> QED  BY <1>1, <2>1, <2>2, <2>3, <2>6, AloneWrites
<1>4. CASE WriteStatus(u)
  <2>1. at[u] = "status" /\ GoTo(u, "success")  BY <1>4 DEF WriteStatus
  <2>2. ram' = IF Kept("status", Call(u))
               THEN [ram EXCEPT !["status"] = ram["status"] \cup {Call(u).ref}] ELSE ram
    BY <1>4 DEF WriteStatus, Put, Kept
  <2>3. /\ "status" \in Dicts /\ "status" \in Before["status"] /\ "success" \notin Before["status"]
        /\ \A e \in Dicts \ {"status"} : "status" \in Before[e] <=> "success" \in Before[e]
    BY BeforeIs DEF Dicts
  <2>4. \A e \in Dicts : "status" # ClearOf[e] /\ "success" # ClearOf[e]  BY StageOf
  <2>5. "status" \in Quiet /\ "success" \in Quiet  BY DEF Quiet
  <2>6. /\ at[u] \in Before["status"] /\ "success" \notin Before["status"]
        /\ \A e \in Dicts \ {"status"} : at[u] \in Before[e] <=> "success" \in Before[e]
        /\ at[u] \in Quiet <=> "success" \in Quiet
        /\ \A e \in Dicts : at[u] # ClearOf[e] /\ "success" # ClearOf[e]
        /\ at[u] \notin {"clear", "incr"} /\ "success" \notin {"clear", "incr"}
    BY <2>1, <2>3, <2>4, <2>5
  <2> QED  BY <1>1, <2>1, <2>2, <2>3, <2>6, AloneWrites
<1>5. CASE WriteOutput(u)
  <2>1. at[u] = "output" /\ GoTo(u, "check")  BY <1>5 DEF WriteOutput
  <2>2. ram' = IF Kept("output", Call(u))
               THEN [ram EXCEPT !["output"] = ram["output"] \cup {Call(u).ref}] ELSE ram
    BY <1>2, <1>5 DEF WriteOutput, Put, Kept
  <2>3. /\ "output" \in Dicts /\ "output" \in Before["output"] /\ "check" \notin Before["output"]
        /\ \A e \in Dicts \ {"output"} : "output" \notin Before[e] /\ "check" \notin Before[e]
    BY BeforeIs DEF Dicts
  <2>4. \A e \in Dicts : "output" # ClearOf[e] /\ "check" # ClearOf[e]  BY StageOf
  <2>5. "output" \notin Quiet /\ "check" \notin Quiet  BY DEF Quiet
  <2>6. /\ at[u] \in Before["output"] /\ "check" \notin Before["output"]
        /\ \A e \in Dicts \ {"output"} : at[u] \in Before[e] <=> "check" \in Before[e]
        /\ at[u] \in Quiet <=> "check" \in Quiet
        /\ \A e \in Dicts : at[u] # ClearOf[e] /\ "check" # ClearOf[e]
        /\ at[u] \notin {"clear", "incr"} /\ "check" \notin {"clear", "incr"}
    BY <2>1, <2>3, <2>4, <2>5
  <2> QED  BY <1>1, <2>1, <2>2, <2>3, <2>6, AloneWrites
<1> QED  BY <1>3, <1>4, <1>5

\* Past the last write nothing more is entered.
LEMMA PastWrites ==
    ASSUME NEW l, l \notin {"idle", "error", "status", "success", "output"}
    PROVE  l \notin Quiet /\ \A d \in Dicts : l \notin Before[d]
  BY BeforeIs DEF Quiet

LEMMA EnteredPast ==
    ASSUME Types, NEW u \in Workers, NEW l, GoTo(u, l), UNCHANGED <<todo, filed>>,
           l \notin {"idle", "error", "status", "success", "output"},
           at[u] \notin {"idle", "error", "status", "success", "output"}
    PROVE  /\ \A d \in Dicts : Entered(u, Before[d])' = Entered(u, Before[d])
           /\ Written(u)' = Written(u)
<1>1. ASSUME NEW d \in Dicts PROVE Entered(u, Before[d])' = Entered(u, Before[d])
  <2>1. at[u] \in Before[d] <=> l \in Before[d]  BY PastWrites
  <2> QED  BY <2>1, EnteredKeeps
<1>2. Written(u)' = Written(u)
  <2>1. at[u] \in Quiet <=> l \in Quiet  BY PastWrites
  <2> QED  BY <2>1, EnteredKeeps DEF Written, Quiet
<1> QED  BY <1>1, <1>2

LEMMA MoveAlone ==
    ASSUME Types, Order, NEW u \in Workers, DictInv(u), SumInv(u),
           Enter(u) \/ Check(u) \/ Lock(u) \/ Unlock(u) \/ Count(u)
    PROVE  DictInv(u)' /\ SumInv(u)'
<1>1. UNCHANGED <<ram, succ, fail, disk, gone>>  BY DEF Enter, Check, Lock, Unlock, Count
<1>2. CASE Enter(u)
  <2>1. at[u] = "idle" /\ GoTo(u, "error") /\ UNCHANGED <<todo, filed>>  BY <1>2 DEF Enter
  <2>2. at'[u] = "error"  BY <2>1, GoesTo
  <2>3. ASSUME NEW d \in Dicts PROVE Entered(u, Before[d])' = Entered(u, Before[d])
    <3>1. at[u] \in Before[d] <=> "error" \in Before[d]  BY <2>1, BeforeIs
    <3> QED  BY <2>1, <3>1, EnteredKeeps
  <2>4. Written(u)' = Written(u)
    <3>1. at[u] \in Quiet <=> "error" \in Quiet  BY <2>1 DEF Quiet
    <3> QED  BY <2>1, <3>1, EnteredKeeps DEF Written, Quiet
  <2>5. \A d \in Dicts : at[u] # ClearOf[d] /\ at'[u] # ClearOf[d]  BY <2>1, <2>2, StageOf
  <2> QED  BY <1>1, <2>1, <2>2, <2>3, <2>4, <2>5, AloneKeeps
<1>3. CASE Leave(u) /\ (Check(u) \/ Lock(u) \/ Unlock(u))
  <2>1. at[u] \in {"check", "lock", "unlock"}  BY <1>3 DEF Check, Lock, Unlock
  <2>2. at'[u] = "idle"  BY <1>3, GoesTo DEF Leave
  <2>3. ASSUME NEW d \in Dicts PROVE Entered(u, Before[d])' = Entered(u, Before[d])
    <3>1. at[u] \notin Before[d] /\ "idle" \in Before[d]  BY <2>1, BeforeIs
    <3> QED  BY <1>3, <3>1, EnteredLeaves
  <2>4. Written(u)' = Written(u)
    <3>1. at[u] \notin Quiet /\ "idle" \in Quiet  BY <2>1 DEF Quiet
    <3> QED  BY <1>3, <3>1, EnteredLeaves DEF Written, Quiet
  <2>5. \A d \in Dicts : at[u] # ClearOf[d] /\ at'[u] # ClearOf[d]  BY <2>1, <2>2, StageOf
  <2> QED  BY <1>1, <2>1, <2>2, <2>3, <2>4, <2>5, AloneKeeps
<1>4. ASSUME NEW l \in {"lock", "count", "incr", "push errors"}, GoTo(u, l),
             UNCHANGED <<todo, filed>>, at[u] \in {"check", "lock", "count"},
             l = "incr" => numTrue' = Cardinality(succ)
      PROVE  DictInv(u)' /\ SumInv(u)'
  <2>1. at'[u] = l  BY <1>4, GoesTo
  <2>2. /\ \A d \in Dicts : Entered(u, Before[d])' = Entered(u, Before[d])
        /\ Written(u)' = Written(u)
    BY <1>4, EnteredPast
  <2>3. \A d \in Dicts : at[u] # ClearOf[d] /\ at'[u] # ClearOf[d]  BY <1>4, <2>1, StageOf
  <2> QED  BY <1>1, <1>4, <2>1, <2>2, <2>3, AloneKeeps
<1> QED  BY <1>2, <1>3, <1>4 DEF Check, Lock, Unlock, Count

LEMMA SuccessAlone ==
    ASSUME Types, Order, NEW u \in Workers, DictInv(u), SumInv(u), WriteSuccess(u)
    PROVE  DictInv(u)' /\ SumInv(u)'
<1>1. /\ at[u] = "success" /\ GoTo(u, "output") /\ UNCHANGED <<todo, ram, disk, gone, filed>>
      /\ todo[u] # <<>>
  BY DEF WriteSuccess, Order
<1>2. at'[u] = "output"  BY <1>1, GoesTo
<1>3. DictInv(u)'
  <2>1. ASSUME NEW d \in Dicts PROVE RpRecorded(u, d)' = RpRecorded(u, d)
    <3>1. at[u] \in Before[d] <=> "output" \in Before[d]  BY <1>1, BeforeIs
    <3>2. Entered(u, Before[d])' = Entered(u, Before[d])  BY <1>1, <3>1, EnteredKeeps
    <3> QED  BY <3>2 DEF RpRecorded, Kept
  <2>2. \A d \in Dicts : at[u] # ClearOf[d] /\ at'[u] # ClearOf[d]  BY <1>1, <1>2, StageOf
  <2>3. \A d \in Dicts : Out(d)' = Out(d) /\ (Apart(d)' <=> Apart(d))
    BY <1>1 DEF Out, OnDisk, Apart
  <2> QED  BY <1>1, <2>1, <2>2, <2>3 DEF DictInv
<1>4. PICK c : c = Call(u)  OBVIOUS
<1>5. Written(u) = filed /\ Written(u)' = filed \cup {c}
  <2>1. at[u] \in Quiet /\ "output" \notin Quiet  BY <1>1 DEF Quiet
  <2> QED  BY <1>1, <1>4, <2>1, EnteredGrows DEF Written, Quiet
<1>6. c.ok \in BOOLEAN /\ (\A x \in filed : x.ref # c.ref) /\ c \notin filed
  BY <1>1, <1>4, CallIs
<1>7. Success \subseteq {x.ref : x \in filed} /\ c.ref \notin Success
  BY <1>5, <1>6 DEF SumInv
<1>8. IsFiniteSet(Oks(u)) /\ IsFiniteSet(Bads(u)) /\ c \notin Oks(u) /\ c \notin Bads(u)
      /\ IsFiniteSet(succ) /\ IsFiniteSet(fail)
  <2>1. Oks(u) \in SUBSET filed /\ Bads(u) \in SUBSET filed  BY <1>5 DEF Oks, Bads
  <2>2. IsFiniteSet(filed) /\ IsFiniteSet(succ) /\ IsFiniteSet(fail)  BY DEF Types
  <2> QED  BY <1>6, <2>1, <2>2, FS_Subset
<1>9. /\ Cardinality(Oks(u)) \in Nat /\ Cardinality(Bads(u)) \in Nat
      /\ Cardinality(succ) \in Nat /\ Cardinality(fail) \in Nat
      /\ Trues \in Int /\ Falses \in Int /\ Trues' = Trues /\ Falses' = Falses
      /\ Cardinality(succ) + Trues = Cardinality(Oks(u))
      /\ Cardinality(fail) + Falses = Cardinality(Bads(u))
  <2>1. /\ Cardinality(Oks(u)) \in Nat /\ Cardinality(Bads(u)) \in Nat
        /\ Cardinality(succ) \in Nat /\ Cardinality(fail) \in Nat
    BY <1>8, FS_CardinalityType
  <2>2. Trues' = Trues /\ Falses' = Falses  BY <1>1 DEF Trues, Falses
  <2>3. /\ Cardinality(succ) + Trues = Cardinality(Oks(u))
        /\ Cardinality(fail) + Falses = Cardinality(Bads(u))
    BY <1>1 DEF SumInv
  <2> QED  BY <2>1, <2>2, <2>3, Numbers
<1>10. CASE c.ok
  <2>1. succ' = succ \cup {c.ref} /\ fail' = fail
    BY <1>4, <1>7, <1>10 DEF WriteSuccess, Success
  <2>2. Oks(u)' = Oks(u) \cup {c} /\ Bads(u)' = Bads(u)  BY <1>5, <1>10 DEF Oks, Bads
  <2>3. Cardinality(succ') = Cardinality(succ) + 1
    BY <1>7, <1>8, <2>1, FS_AddElement DEF Success
  <2>4. Cardinality(Oks(u)') = Cardinality(Oks(u)) + 1  BY <1>8, <2>2, FS_AddElement
  <2>5. Success' \subseteq {x.ref : x \in Written(u)'}
    BY <1>5, <1>7, <2>1 DEF Success
  <2>6. Cardinality(succ') + Trues' = Cardinality(Oks(u)')  BY <1>1, <1>9, <2>3, <2>4
  <2>7. Cardinality(fail') + Falses' = Cardinality(Bads(u)')  BY <1>1, <1>9, <2>1, <2>2
  <2> QED  BY <1>2, <1>3, <2>5, <2>6, <2>7 DEF SumInv
<1>11. CASE ~c.ok
  <2>1. succ' = succ /\ fail' = fail \cup {c.ref}
    BY <1>4, <1>7, <1>11 DEF WriteSuccess, Success
  <2>2. Bads(u)' = Bads(u) \cup {c} /\ Oks(u)' = Oks(u)  BY <1>5, <1>11 DEF Oks, Bads
  <2>3. Cardinality(fail') = Cardinality(fail) + 1
    BY <1>7, <1>8, <2>1, FS_AddElement DEF Success
  <2>4. Cardinality(Bads(u)') = Cardinality(Bads(u)) + 1  BY <1>8, <2>2, FS_AddElement
  <2>5. Success' \subseteq {x.ref : x \in Written(u)'}
    BY <1>5, <1>7, <2>1 DEF Success
  <2>6. Cardinality(succ') + Trues' = Cardinality(Oks(u)')  BY <1>1, <1>9, <2>1, <2>2
  <2>7. Cardinality(fail') + Falses' = Cardinality(Bads(u)')  BY <1>1, <1>9, <2>3, <2>4
  <2> QED  BY <1>2, <1>3, <2>5, <2>6, <2>7 DEF SumInv
<1> QED  BY <1>10, <1>11

LEMMA Sums ==
    /\ \A a \in Int : 0 + a = a
    /\ \A a, o \in Int : \A b, c \in Nat :
         (a + b) + o = b + (a + o) /\ (a + ((b + c) - b)) + o = c + (a + o)
OBVIOUS

LEMMA CountAlone ==
    ASSUME Types, NEW u \in Workers, DictInv(u), SumInv(u), Incr(u) \/ Clear(u)
    PROVE  DictInv(u)' /\ SumInv(u)'
<1>1. PICK l \in {"clear", "push errors"} : GoTo(u, l) /\ (Incr(u) <=> l = "clear")
  BY DEF Incr, Clear
<1>2. at[u] \in {"incr", "clear"} /\ at'[u] = l /\ UNCHANGED <<todo, filed, ram, gone>>
  BY <1>1, GoesTo DEF Incr, Clear
<1>3. /\ \A d \in Dicts : Entered(u, Before[d])' = Entered(u, Before[d])
      /\ Written(u)' = Written(u)
  BY <1>1, <1>2, EnteredPast
<1>4. Oks(u)' = Oks(u) /\ Bads(u)' = Bads(u)  BY <1>3 DEF Oks, Bads
<1>5. DictInv(u)'
  <2>1. \A d \in Dicts : RpRecorded(u, d)' = RpRecorded(u, d)  BY <1>3 DEF RpRecorded, Kept
  <2>2. \A d \in Dicts : at[u] # ClearOf[d] /\ at'[u] # ClearOf[d]  BY <1>2, StageOf
  <2>3. \A d \in Dicts : disk'[d] = disk[d]  BY DEF Incr, Clear, Types, Disks, Dicts
  <2>4. \A d \in Dicts : Out(d)' = Out(d) /\ (Apart(d)' <=> Apart(d))
    BY <1>2, <2>3 DEF Out, OnDisk, Apart
  <2> QED  BY <1>2, <2>1, <2>2, <2>4 DEF DictInv
<1>6. CASE Incr(u)
  <2>1. at[u] = "incr" /\ UNCHANGED <<succ, fail>> /\ at'[u] = "clear"
    BY <1>1, <1>2, <1>6 DEF Incr
  <2>2. disk' = [disk EXCEPT !.success = disk.success + numTrue,
                             !.failure = disk.failure + (Cardinality(Success) - numTrue)]
    BY <1>6 DEF Incr, Failures
  <2>3. /\ disk'.success = disk.success + numTrue
        /\ disk'.failure = disk.failure + (Cardinality(Success) - numTrue)
    BY <2>2 DEF Types, Disks
  <2>4. numTrue = Cardinality(succ)  BY <2>1 DEF SumInv
  <2>5. /\ Cardinality(succ) + Trues = Cardinality(Oks(u))
        /\ Cardinality(fail) + Falses = Cardinality(Bads(u))
    BY <2>1 DEF SumInv
  <2>6. Trues' = Cardinality(Oks(u)) /\ Falses' = Cardinality(Bads(u))
    <3>1. /\ Cardinality(succ) \in Nat /\ Cardinality(fail) \in Nat
          /\ Cardinality(Success) = Cardinality(succ) + Cardinality(fail)
          /\ disk.success \in Int /\ disk.failure \in Int
          /\ gone.success \in Int /\ gone.failure \in Int
      BY Numbers
    <3>2. /\ Trues' = disk'.success + gone.success /\ Falses' = disk'.failure + gone.failure
          /\ Trues = disk.success + gone.success /\ Falses = disk.failure + gone.failure
      BY <1>2 DEF Trues, Falses
    <3>6. Trues' = (disk.success + Cardinality(succ)) + gone.success
      BY <2>3, <2>4, <3>2, Zenon
    <3>3. Trues' = Cardinality(succ) + Trues  BY <3>1, <3>2, <3>6, Sums, Zenon
    <3>4. Falses' = (disk.failure + ((Cardinality(succ) + Cardinality(fail)) - Cardinality(succ)))
                    + gone.failure
      BY <2>3, <2>4, <3>1, <3>2, Zenon
    <3>5. Falses' = Cardinality(fail) + Falses  BY <3>1, <3>2, <3>4, Sums, ZenonT(40)
    <3> QED  BY <2>5, <3>3, <3>5, Zenon
  <2> QED  BY <1>3, <1>4, <1>5, <2>1, <2>6 DEF SumInv, Success
<1>7. CASE Clear(u)
  <2>1. /\ at[u] = "clear" /\ succ' = {} /\ fail' = {} /\ disk' = disk
        /\ at'[u] = "push errors"
    BY <1>2, <1>7, GoesTo DEF Clear, ClearSuccess
  <2>2. Cardinality(succ') = 0 /\ Cardinality(fail') = 0  BY <2>1, FS_EmptySet
  <2>3. /\ Trues = Cardinality(Oks(u)) /\ Falses = Cardinality(Bads(u))
        /\ Trues' = Trues /\ Falses' = Falses
    BY <1>2, <2>1 DEF SumInv, Trues, Falses
  <2>4. 0 + Trues' = Cardinality(Oks(u)) /\ 0 + Falses' = Cardinality(Bads(u))
    <3>1. Trues \in Int /\ Falses \in Int  BY Numbers
    <3>2. 0 + Trues = Trues /\ 0 + Falses = Falses  BY <3>1, Sums, Zenon
    <3> QED  BY <2>3, <3>2, Zenon
  <2> QED  BY <1>3, <1>4, <1>5, <2>1, <2>2, <2>4 DEF SumInv, Success
<1> QED  BY <1>6, <1>7

LEMMA PushAlone ==
    ASSUME Types, NEW u \in Workers, DictInv(u), SumInv(u),
           NEW d \in Dicts, Push(u, d) \/ ClearDict(u, d)
    PROVE  DictInv(u)' /\ SumInv(u)'
<1>1. PICK l \in {ClearOf[d], After[d]} : GoTo(u, l)  BY DEF Push, ClearDict
<1>2. at'[u] = l /\ UNCHANGED <<todo, filed, succ, fail, gone, numTrue>>
  BY <1>1, GoesTo DEF Push, ClearDict
<1>3. at[u] = PushOf[d] \/ at[u] = ClearOf[d]  BY DEF Push, ClearDict
<1>4. /\ l \notin {"idle", "error", "status", "success", "output", "incr", "clear"}
      /\ at[u] \notin {"idle", "error", "status", "success", "output", "incr", "clear"}
  BY <1>1, <1>3, StageOf
<1>5. /\ \A e \in Dicts : Entered(u, Before[e])' = Entered(u, Before[e])
      /\ Written(u)' = Written(u)
  BY <1>1, <1>2, <1>4, EnteredPast
<1>6. disk' = disk \/ disk' = [disk EXCEPT ![d] = disk[d] \cup {ram[d]}]
  BY DEF Push, ClearDict, Pushed, PushDisk
<1>7. disk'.success = disk.success /\ disk'.failure = disk.failure
  <2>1. d # "success" /\ d # "failure"  BY DEF Dicts
  <2> QED  BY <1>6, <2>1 DEF Types, Disks
<1>8. SumInv(u)'
  <2>1. Oks(u)' = Oks(u) /\ Bads(u)' = Bads(u) /\ Success' = Success
    BY <1>2, <1>5 DEF Oks, Bads, Success
  <2>2. Trues' = Trues /\ Falses' = Falses  BY <1>2, <1>7 DEF Trues, Falses
  <2> QED  BY <1>2, <1>4, <1>5, <2>1, <2>2 DEF SumInv
<1>9. \A e \in Dicts : RpRecorded(u, e)' = RpRecorded(u, e)  BY <1>5 DEF RpRecorded, Kept
<1>10. \A e \in Dicts \ {d} : disk'[e] = disk[e] /\ ram'[e] = ram[e]
  <2>1. \A e \in Dicts \ {d} : disk'[e] = disk[e]  BY <1>6 DEF Types, Disks, Dicts
  <2>2. \A e \in Dicts \ {d} : ram'[e] = ram[e]  BY DEF Push, ClearDict, Types
  <2> QED  BY <2>1, <2>2
<1>11. \A e \in Dicts \ {d} : /\ ClearOf[e] # ClearOf[d]
                              /\ ClearOf[e] # PushOf[d] /\ ClearOf[e] # After[d]
  <2>1. \A e \in Dicts : /\ ClearOf[e] # PushOf[d] /\ ClearOf[e] # After[d]  BY StageOf
  <2>2. \A e \in Dicts \ {d} : ClearOf[e] # ClearOf[d]  
    <3>1. /\ ClearOf["errors"] = "clear errors" /\ ClearOf["status"] = "clear status"
          /\ ClearOf["output"] = "clear output"
      BY DEF ClearOf
    <3> QED  BY <3>1 DEF Dicts
  <2> QED  BY <2>1, <2>2
<1>12. ASSUME NEW e \in Dicts \ {d}
       PROVE  /\ ram'[e] \cup Out(e)' = RpRecorded(u, e)' /\ Apart(e)'
              /\ IF at'[u] = ClearOf[e] THEN ram'[e] \subseteq Out(e)'
                 ELSE ram'[e] \cap Out(e)' = {}
  <2>1. at[u] # ClearOf[e] /\ at'[u] # ClearOf[e]  BY <1>1, <1>2, <1>3, <1>11
  <2>2. Out(e)' = Out(e) /\ (Apart(e)' <=> Apart(e))  BY <1>2, <1>10 DEF Out, OnDisk, Apart
  <2> QED  BY <1>9, <1>10, <2>1, <2>2 DEF DictInv
<1>13. ClearOf[d] # PushOf[d] /\ ClearOf[d] # After[d]  BY StageOf
<1>14. /\ ram'[d] \cup Out(d)' = RpRecorded(u, d)' /\ Apart(d)'
       /\ IF at'[u] = ClearOf[d] THEN ram'[d] \subseteq Out(d)'
          ELSE ram'[d] \cap Out(d)' = {}
  <2>1. CASE Push(u, d) /\ l = ClearOf[d]
    <3>1. disk' = [disk EXCEPT ![d] = disk[d] \cup {ram[d]}] /\ ram' = ram
      BY <1>1, <1>2, <1>13, <2>1, GoesTo DEF Push, Pushed, PushDisk
    <3>2. disk'[d] = disk[d] \cup {ram[d]}  BY <3>1 DEF Types, Disks, Dicts
    <3>3. Out(d)' = Out(d) \cup ram[d]  BY <1>2, <3>2 DEF Out, OnDisk
    <3>4. ram[d] \cap Out(d) = {} /\ Apart(d)  BY <1>13, <2>1 DEF Push, DictInv
    <3>5. Apart(d)'
      <4>1. \A row \in disk[d] : row \cap ram[d] = {}  BY <3>4 DEF Out, OnDisk
      <4>2. ram[d] \cap gone[d] = {}  BY <3>4 DEF Out
      <4> QED  BY <1>2, <3>2, <3>4, <4>1, <4>2 DEF Apart
    <3> QED  BY <1>2, <1>9, <2>1, <3>1, <3>3, <3>5 DEF DictInv
  <2>2. CASE Push(u, d) /\ l = After[d]
    <3>1. disk' = disk /\ ram' = ram
      BY <1>1, <1>2, <1>13, <2>2, GoesTo DEF Push
    <3>2. at[u] = PushOf[d]  BY <2>2 DEF Push
    <3>3. Out(d)' = Out(d) /\ (Apart(d)' <=> Apart(d))  BY <1>2, <3>1 DEF Out, OnDisk, Apart
    <3> QED  BY <1>2, <1>9, <1>13, <2>2, <3>1, <3>2, <3>3 DEF DictInv
  <2>3. CASE ClearDict(u, d)
    <3>1. at[u] = ClearOf[d] /\ ram'[d] = {} /\ disk' = disk /\ at'[u] = After[d]
      BY <2>3, GoesTo DEF ClearDict, Types
    <3>2. Out(d)' = Out(d) /\ (Apart(d)' <=> Apart(d))  BY <1>2, <3>1 DEF Out, OnDisk, Apart
    <3> QED  BY <1>9, <1>13, <3>1, <3>2, ZenonT(40) DEF DictInv
  <2> QED  BY <1>1, <2>1, <2>2, <2>3
<1>15. DictInv(u)'
  <2>1. \A e \in Dicts : e = d \/ e \in Dicts \ {d}  OBVIOUS
  <2> QED  BY <1>12, <1>14, <2>1 DEF DictInv
<1> QED  BY <1>8, <1>15
-----------------------------------------------------------------------------
(* What expires on disk is lost and nothing else. *)

LEMMA RowExpires ==
    ASSUME ReportInv, NEW d \in Dicts, NEW row \in disk[d],
           disk' = [disk EXCEPT ![d] = disk[d] \ {row}],
           gone' = [gone EXCEPT ![d] = gone[d] \cup row]
    PROVE  /\ disk' \in Disks /\ gone' \in Lost
           /\ Trues' = Trues /\ Falses' = Falses
           /\ \A e \in Dicts : Out(e)' = Out(e) /\ (Apart(e) => Apart(e)')
<1>1. disk \in Disks /\ gone \in Lost  BY DEF ReportInv, Types
<1>2. d # "success" /\ d # "failure"  BY DEF Dicts
<1>3. /\ disk'[d] = disk[d] \ {row} /\ gone'[d] = gone[d] \cup row
      /\ \A e \in Dicts \ {d} : disk'[e] = disk[e] /\ gone'[e] = gone[e]
  BY <1>1 DEF Disks, Lost, Dicts
<1>4. Trues' = Trues /\ Falses' = Falses
  BY <1>1, <1>2 DEF Trues, Falses, Disks, Lost
<1>5. disk[d] \in SUBSET SUBSET Keys /\ gone[d] \in SUBSET Keys
  BY <1>1 DEF Disks, Lost, Dicts
<1>6. disk'[d] \in SUBSET SUBSET Keys /\ gone'[d] \in SUBSET Keys  BY <1>3, <1>5
<1>7. disk' \in Disks /\ gone' \in Lost
  <2>1. CASE d = "errors"  BY <1>1, <1>5, <2>1 DEF Disks, Lost
  <2>2. CASE d = "status"  BY <1>1, <1>5, <2>2 DEF Disks, Lost
  <2>3. CASE d = "output"  BY <1>1, <1>5, <2>3 DEF Disks, Lost
  <2> QED  BY <2>1, <2>2, <2>3 DEF Dicts
<1>8. ASSUME NEW e \in Dicts PROVE Out(e)' = Out(e) /\ (Apart(e) => Apart(e)')
  <2>1. CASE e = d  BY <1>3, <2>1 DEF Out, OnDisk, Apart
  <2>2. CASE e # d
    <3>1. disk'[e] = disk[e] /\ gone'[e] = gone[e]  BY <1>3, <2>2
    <3> QED  BY <3>1 DEF Out, OnDisk, Apart
  <2> QED  BY <2>1, <2>2
<1> QED  BY <1>4, <1>7, <1>8

LEMMA CounterExpires ==
    ASSUME ReportInv, NEW k \in Counters, disk' = [disk EXCEPT ![k] = 0],
           gone' = [gone EXCEPT ![k] = gone[k] + disk[k]]
    PROVE  /\ disk' \in Disks /\ gone' \in Lost
           /\ Trues' = Trues /\ Falses' = Falses
           /\ \A e \in Dicts : Out(e)' = Out(e) /\ (Apart(e) => Apart(e)')
<1>1. disk \in Disks /\ gone \in Lost  BY DEF ReportInv, Types
<1>2. \A e \in Dicts : disk'[e] = disk[e] /\ gone'[e] = gone[e]
  BY <1>1 DEF Disks, Lost, Dicts, Counters
<1>3. \A e \in Dicts : Out(e)' = Out(e) /\ (Apart(e) => Apart(e)')
  BY <1>2 DEF Out, OnDisk, Apart
<1>4. /\ disk.success \in Int /\ disk.failure \in Int
      /\ gone.success \in Int /\ gone.failure \in Int
  BY Numbers DEF ReportInv
<1>5. CASE k = "success"
  <2>1. /\ disk'.success = 0 /\ gone'.success = gone.success + disk.success
        /\ disk'.failure = disk.failure /\ gone'.failure = gone.failure
    BY <1>1, <1>5 DEF Disks, Lost
  <2>2. disk' \in Disks /\ gone' \in Lost  BY <1>1, <1>4, <1>5 DEF Disks, Lost
  <2> QED  BY <1>3, <1>4, <2>1, <2>2 DEF Trues, Falses
<1>6. CASE k = "failure"
  <2>1. /\ disk'.failure = 0 /\ gone'.failure = gone.failure + disk.failure
        /\ disk'.success = disk.success /\ gone'.success = gone.success
    BY <1>1, <1>6 DEF Disks, Lost
  <2>2. disk' \in Disks /\ gone' \in Lost  BY <1>1, <1>4, <1>6 DEF Disks, Lost
  <2> QED  BY <1>3, <1>4, <2>1, <2>2 DEF Trues, Falses
<1> QED  BY <1>5, <1>6 DEF Counters

LEMMA ExpireReport ==
    ASSUME ReportInv, Expire PROVE ReportInv'
<1>1. UNCHANGED <<scene, at, todo, ram, succ, fail, built, mutex, numTrue, filed>>
  BY DEF Expire, ExpireRow, ExpireCounter
<1>2. /\ disk' \in Disks /\ gone' \in Lost
      /\ Trues' = Trues /\ Falses' = Falses
      /\ \A e \in Dicts : Out(e)' = Out(e) /\ (Apart(e) => Apart(e)')
  BY RowExpires, CounterExpires DEF Expire, ExpireRow, ExpireCounter
<1>3. Types' /\ Order' /\ OneFlush'
  <2>1. Types'  BY <1>1, <1>2 DEF ReportInv, Types
  <2>2. Order'
    <3>1. Order /\ (\A w \in Workers : at'[w] # "idle" => todo[w] # <<>>)
      BY <1>1 DEF ReportInv, Order
    <3> QED  BY <1>1, <3>1, OrderStays
  <2>3. OneFlush'  BY <1>1 DEF ReportInv, OneFlush, Flushing
  <2> QED  BY <2>1, <2>2, <2>3
<1>4. AtMost'
  <2>1. Late' = Late /\ Success' = Success /\ Counted' = Counted
    BY <1>1, <1>2 DEF Late, Success, Counted
  <2> QED  BY <1>1, <2>1 DEF ReportInv, AtMost
<1>5. ASSUME NEW u \in Workers, Solo(u)' PROVE DictInv(u)' /\ SumInv(u)'
  <2>1. Solo(u)  BY <1>1, <1>5 DEF Solo
  <2>2. \A E : Entered(u, E)' = Entered(u, E)  BY <1>1 DEF Entered, Call
  <2>3. Written(u)' = Written(u) /\ \A d : RpRecorded(u, d)' = RpRecorded(u, d)
    BY <2>2 DEF Written, RpRecorded, Kept
  <2>4. Oks(u)' = Oks(u) /\ Bads(u)' = Bads(u) /\ Success' = Success
    BY <1>1, <2>3 DEF Oks, Bads, Success
  <2>5. DictInv(u) /\ SumInv(u)  BY <2>1 DEF ReportInv, Alone
  <2>6. DictInv(u)'  BY <1>1, <1>2, <2>3, <2>5 DEF DictInv
  <2>7. SumInv(u)'  BY <1>1, <1>2, <2>3, <2>4, <2>5 DEF SumInv
  <2> QED  BY <2>6, <2>7
<1> QED  BY <1>3, <1>4, <1>5 DEF ReportInv, Alone
-----------------------------------------------------------------------------
(* The theorems about Reporter. *)

LEMMA InitReport == RpInit => ReportInv
<1> SUFFICES ASSUME RpInit PROVE ReportInv  OBVIOUS
<1>1. scene \in [Workers -> Seq(Calls)] /\ todo = scene
  BY ReporterAssumption DEF RpInit, Calls
<1>2. IsFiniteSet({}) /\ Cardinality({}) = 0  BY FS_EmptySet
<1>3. Types
  <2>1. disk \in Disks /\ gone \in Lost  BY DEF RpInit, Nothing, Disks, Lost
  <2> QED  BY <1>1, <1>2, <2>1 DEF RpInit, Types, Stages
<1>4. Order
  <2>1. \A w \in Workers : todo[w] = scene[w] /\ Len(scene[w]) \in Nat /\ at[w] = "idle"
    BY <1>1 DEF RpInit
  <2>2. \A w \in Workers : Filed(w) = 0  BY <2>1 DEF Filed
  <2>3. filed = {}  BY DEF RpInit
  <2> QED  BY <2>1, <2>2, <2>3 DEF Order
<1>5. OneFlush  BY DEF RpInit, OneFlush, Flushing
<1>6. /\ Late = {} /\ Success = {} /\ filed = {}
      /\ Trues = 0 /\ Falses = 0 /\ Counted = 0
  <2>1. Late = {} /\ Success = {} /\ filed = {}  BY DEF RpInit, Late, Success
  <2>2. disk.success = 0 /\ disk.failure = 0 /\ gone.success = 0 /\ gone.failure = 0
    BY DEF RpInit, Nothing
  <2> QED  BY <2>1, <2>2 DEF Trues, Falses, Counted
<1>7. AtMost
  <2>1. Cardinality(Success) = 0 /\ Cardinality(Late) = 0 /\ Cardinality(filed) = 0
    BY <1>2, <1>6, Zenon
  <2> QED  BY <1>6, <2>1 DEF AtMost
<1>8. ASSUME NEW u \in Workers PROVE DictInv(u) /\ SumInv(u)
  <2>1. at[u] = "idle" /\ succ = {} /\ fail = {}  BY DEF RpInit
  <2>2. \A d \in Dicts : Entered(u, Before[d]) = {}
    <3>1. \A d \in Dicts : "idle" \in Before[d]  BY BeforeIs
    <3> QED  BY <1>6, <2>1, <3>1 DEF Entered
  <2>3. \A d \in Dicts : RpRecorded(u, d) = {}  BY <2>2 DEF RpRecorded
  <2>4. \A d \in Dicts : ram[d] = {} /\ Out(d) = {} /\ Apart(d)
    <3>1. \A d \in Dicts : ram[d] = {} /\ disk[d] = {} /\ gone[d] = {}
      BY DEF RpInit, Nothing, Dicts
    <3> QED  BY <3>1 DEF Out, OnDisk, Apart
  <2>5. DictInv(u)
    <3>1. \A d \in Dicts : at[u] # ClearOf[d]  BY <2>1, StageOf
    <3> QED  BY <2>3, <2>4, <3>1 DEF DictInv
  <2>6. Written(u) = {}  BY <1>6, <2>1 DEF Written, Entered
  <2>7. Oks(u) = {} /\ Bads(u) = {}  BY <2>6 DEF Oks, Bads
  <2>8. /\ Cardinality(succ) = 0 /\ Cardinality(fail) = 0
        /\ Cardinality(Oks(u)) = 0 /\ Cardinality(Bads(u)) = 0
    BY <1>2, <2>1, <2>7, Zenon
  <2>9. SumInv(u)  BY <1>6, <2>1, <2>6, <2>8 DEF SumInv
  <2> QED  BY <2>5, <2>9
<1> QED  BY <1>3, <1>4, <1>5, <1>7, <1>8 DEF ReportInv, Alone

LEMMA StepReport ==
    ASSUME ReportInv, NEW w \in Workers, SetIndex(w) PROVE ReportInv'
<1>1. Types /\ Order /\ OneFlush /\ AtMost /\ Alone  BY DEF ReportInv
<1>2. Types' /\ Order' /\ OneFlush'
  BY <1>1, WriteBase, CheckBase, FlushBase DEF SetIndex
<1>3. AtMost'  BY <1>1, StepCount
<1>4. scene' = scene
  BY DEF SetIndex, Enter, WriteError, WriteStatus, WriteSuccess, WriteOutput, Check, Lock,
         Count, Incr, Clear, Push, ClearDict, Unlock
<1>5. ASSUME NEW u \in Workers, Solo(u)' PROVE DictInv(u)' /\ SumInv(u)'
  <2>1. Solo(u)  BY <1>4, <1>5 DEF Solo
  <2>2. SetIndex(u) /\ DictInv(u) /\ SumInv(u)  BY <1>1, <2>1, OnlyActor DEF Alone
  <2> QED
    BY <1>1, <2>2, WriteAlone, MoveAlone, SuccessAlone, CountAlone, PushAlone DEF SetIndex
<1> QED  BY <1>2, <1>3, <1>5 DEF ReportInv, Alone

LEMMA StutterReport == ReportInv /\ UNCHANGED rpvars => ReportInv'
<1> SUFFICES ASSUME ReportInv, UNCHANGED rpvars PROVE ReportInv'  OBVIOUS
<1>1. UNCHANGED <<scene, at, todo, ram, succ, fail, disk, gone, built, mutex, numTrue, filed>>
  BY DEF rpvars
<1>2. Types' /\ Order' /\ OneFlush'
  BY <1>1 DEF ReportInv, Types, Order, Filed, OneFlush, Flushing
<1>6. /\ Trues' = Trues /\ Falses' = Falses /\ Counted' = Counted
      /\ \A d \in Dicts : Out(d)' = Out(d) /\ (Apart(d)' <=> Apart(d))
  BY <1>1 DEF Trues, Falses, Counted, Out, OnDisk, Apart
<1>3. AtMost'  BY <1>1, <1>6 DEF ReportInv, AtMost, Late, Success
<1>4. ASSUME NEW u \in Workers, Solo(u)' PROVE DictInv(u)' /\ SumInv(u)'
  <2>1. Solo(u)  BY <1>1, <1>4 DEF Solo
  <2>2. \A E : Entered(u, E)' = Entered(u, E)  BY <1>1 DEF Entered, Call
  <2>3. Written(u)' = Written(u) /\ \A d : RpRecorded(u, d)' = RpRecorded(u, d)
    BY <2>2 DEF Written, RpRecorded, Kept
  <2>4. Oks(u)' = Oks(u) /\ Bads(u)' = Bads(u) /\ Success' = Success
    BY <1>1, <2>3 DEF Oks, Bads, Success
  <2>5. DictInv(u) /\ SumInv(u)  BY <2>1 DEF ReportInv, Alone
  <2>6. DictInv(u)'  BY <1>1, <1>6, <2>3, <2>5 DEF DictInv
  <2>7. SumInv(u)'  BY <1>1, <1>6, <2>3, <2>4, <2>5 DEF SumInv
  <2> QED  BY <2>6, <2>7
<1> QED  BY <1>2, <1>3, <1>4 DEF ReportInv, Alone

LEMMA ReportAlways == RpSpec => []ReportInv
<1>1. ReportInv /\ [RpNext]_rpvars => ReportInv'
  BY StepReport, ExpireReport, StutterReport DEF RpNext, RpDone
<1> QED  BY InitReport, <1>1, PTL DEF RpSpec

\* An upload files from one thread, the event loop's.  Then a flush itself loses and
\* miscounts nothing: between calls every outcome and every entry is in RAM, on disk or
\* among what has expired on disk, and in one of them only.
THEOREM ReporterConserves == RpSpec => []Conserved
<1>1. ReportInv => Conserved
  <2> SUFFICES ASSUME ReportInv, NEW u \in Workers, \A v \in Workers \ {u} : scene[v] = <<>>,
                      \A w \in Workers : at[w] = "idle"
               PROVE  /\ Cardinality(succ) + disk.success + gone.success = Cardinality(Succeeded)
                      /\ Cardinality(fail) + disk.failure + gone.failure = Cardinality(Failed)
                      /\ {c.ref : c \in Failed}
                           = ram["errors"] \cup OnDisk("errors") \cup gone["errors"]
                      /\ {c.ref : c \in Succeeded}
                           = ram["output"] \cup OnDisk("output") \cup gone["output"]
                      /\ \A d \in Dicts : /\ ram[d] \cap (OnDisk(d) \cup gone[d]) = {}
                                          /\ OnDisk(d) \cap gone[d] = {}
    BY DEF Conserved
  <2>1. DictInv(u) /\ SumInv(u) /\ at[u] = "idle"  BY DEF ReportInv, Alone, Solo
  <2>2. \A d \in Dicts : "idle" \in Before[d] /\ "idle" # ClearOf[d]  BY BeforeIs, StageOf
  <2>3. \A d \in Dicts : Entered(u, Before[d]) = filed  BY <2>1, <2>2 DEF Entered
  <2>4. Written(u) = filed  BY <2>1 DEF Written, Entered
  <2>5. Oks(u) = Succeeded /\ Bads(u) = Failed  BY <2>4 DEF Oks, Bads, Succeeded, Failed
  <2>6. "errors" \in Dicts /\ "output" \in Dicts  BY DEF Dicts
  <2>7. RpRecorded(u, "errors") = {c.ref : c \in Failed}
        /\ RpRecorded(u, "output") = {c.ref : c \in Succeeded}
    BY <2>3, <2>6 DEF RpRecorded, Kept, Failed, Succeeded
  <2>8. \A d \in Dicts : /\ ram[d] \cap Out(d) = {} /\ ram[d] \cup Out(d) = RpRecorded(u, d)
                        /\ Apart(d)
    BY <2>1, <2>2 DEF DictInv
  <2>9. /\ Cardinality(succ) + Trues = Cardinality(Succeeded)
        /\ Cardinality(fail) + Falses = Cardinality(Failed)
    BY <2>1, <2>5 DEF SumInv
  <2>10. /\ Cardinality(succ) + disk.success + gone.success = Cardinality(Succeeded)
         /\ Cardinality(fail) + disk.failure + gone.failure = Cardinality(Failed)
    <3>1. /\ Cardinality(succ) \in Nat /\ Cardinality(fail) \in Nat
          /\ disk.success \in Int /\ disk.failure \in Int
          /\ gone.success \in Int /\ gone.failure \in Int
      BY Numbers DEF ReportInv
    <3>2. \A a \in Nat : \A b, c \in Int : a + b + c = a + (b + c)  OBVIOUS
    <3>3. /\ Cardinality(succ) + (disk.success + gone.success) = Cardinality(Succeeded)
          /\ Cardinality(fail) + (disk.failure + gone.failure) = Cardinality(Failed)
      BY <2>9 DEF Trues, Falses
    <3> QED  BY <3>1, <3>2, <3>3, Zenon
  <2>11. \A d \in Dicts : OnDisk(d) \cap gone[d] = {}  BY <2>8 DEF Apart, OnDisk
  <2> QED  BY <2>6, <2>7, <2>8, <2>10, <2>11 DEF Out
<1> QED  BY <1>1, ReportAlways, PTL

\* With several threads entries may be lost, yet none is counted twice, not even when a
\* counter that has expired is started again: flushes exclude each other, and what one
\* counted it also clears.
THEOREM ReporterCountsOnce == RpSpec => []NoneCountedTwice
<1>1. ReportInv => NoneCountedTwice
  <2> SUFFICES ASSUME ReportInv, \A w \in Workers : at[w] # "clear"
               PROVE  Cardinality(Success) + disk.success + disk.failure
                        + gone.success + gone.failure <=
                        Cardinality(filed) + Cardinality({w \in Workers : at[w] # "idle"})
    BY DEF NoneCountedTwice
  <2> DEFINE busy == {w \in Workers : at[w] # "idle"}
  <2>1. Types /\ AtMost  BY DEF ReportInv
  <2>2. busy \in SUBSET Workers /\ Late \in SUBSET busy  BY DEF Late
  <2>3. IsFiniteSet(busy)  BY <2>2, FS_Subset, ReporterAssumption
  <2>4. Cardinality(Late) <= Cardinality(busy)  BY <2>2, <2>3, FS_Subset
  <2>5. Cardinality(busy) \in Nat  BY <2>3, FS_CardinalityType
  <2>6. Cardinality(Success) + Counted <= Cardinality(filed) + Cardinality(Late)
    BY <2>1 DEF AtMost
  <2> HIDE DEF busy
  <2>7. Cardinality(Success) + disk.success + disk.failure + gone.success + gone.failure
          <= Cardinality(filed) + Cardinality(busy)
    <3>1. /\ Cardinality(Success) \in Nat /\ Cardinality(filed) \in Nat
          /\ Cardinality(Late) \in Nat /\ disk.success \in Int /\ disk.failure \in Int
          /\ gone.success \in Int /\ gone.failure \in Int
      BY <2>1, Numbers
    <3>2. Counted = disk.success + disk.failure + gone.success + gone.failure
      BY <3>1 DEF Counted, Trues, Falses
    <3> QED  BY <2>4, <2>5, <2>6, <3>1, <3>2
  <2> QED  BY <2>7 DEF busy
<1> QED  BY <1>1, ReportAlways, PTL
=============================================================================
