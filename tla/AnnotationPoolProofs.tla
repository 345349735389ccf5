------------------------ MODULE AnnotationPoolProofs ------------------------
(***************************************************************************)
(* Proofs about AnnotationPool, for any callers, items, batches and number  *)
(* of workers: its types, and what the return of upload_annotations means.  *)
(* Below them those about Requests, by which a job of a pool reaches the    *)
(* service.                                                                 *)
(***************************************************************************)
EXTENDS AnnotationPool, Requests, FiniteSetTheorems, WellFoundedInduction, TLAPS

\* Who has no pool yet may make one; what was made is no more than that allows.
Poolless == {u \in Users : poolOf[u] = 0}

Labels == {"start", "make", "submit", "join", "returned", "raised"}
Stages == {"new", "queued", "run", "make", "submit", "done", "raised"}

Types ==
    /\ batches \in Scenes
    /\ made \in Pools /\ current \in 1..made /\ shut \subseteq 1..made
    /\ queue \in [Pools -> Seq(Jobs)]
    /\ running \in [Pools -> SUBSET Jobs]
    /\ call \in [Callers -> Labels]
    /\ poolOf \in [Users -> 0..made]
    /\ task \in [Items -> Stages]
    /\ submitted \in [Items -> Nat] /\ \A i \in Items : submitted[i] <= batches[i]
    /\ sent = [i \in Items |-> sent[i]]
    /\ \A i \in Items : sent[i] \in [Batches(i) -> {"new", "queued", "sending", "over"}]

Counted ==
    /\ made + Cardinality(Poolless) <= Cardinality(Users) + 1
    /\ \A g \in Pools : IsFiniteSet(running[g]) /\ Cardinality(running[g]) <= Workers

\* Where a caller is, and the job of an item.
AtCall(c) ==
    /\ call[c] \in {"start", "make"} => poolOf[c] = 0 /\ Left(c) = Mine(c)
    /\ call[c] \in {"submit", "join", "returned"} => poolOf[c] # 0
    /\ call[c] \in {"join", "returned"} => poolOf[c] \in shut /\ Left(c) = {}
    /\ call[c] = "returned" => Drained(poolOf[c])

AtTask(i) ==
    /\ task[i] # "new" => poolOf[CallerOf[i]] # 0
    /\ task[i] \in {"new", "queued", "run", "make"} => poolOf[i] = 0 /\ submitted[i] = 0
    /\ task[i] = "submit" => poolOf[i] # 0
    /\ task[i] # "done" => \A b \in Batches(i) : b > submitted[i] => sent[i][b] = "new"
    /\ task[i] = "done" => NoneMissing(i)
    /\ task[i] = "raised" => submitted[i] = 0 \/ poolOf[i] \in shut

\* A pool that somebody was handed is shut down by a caller that was handed it too.
ShutByOwner ==
    \A u \in Users : poolOf[u] \in shut => \E d \in Callers : poolOf[d] = poolOf[u]

\* The pool a job was submitted to, and whether it waits there or has a worker.
HomeOf(i, b) == IF b = 0 THEN poolOf[CallerOf[i]] ELSE poolOf[i]
Waiting(i, b) == IF b = 0 THEN task[i] = "queued" ELSE sent[i][b] = "queued"
Working(i, b) == IF b = 0 THEN task[i] \in {"run", "make", "submit"} ELSE sent[i][b] = "sending"
InQueue(g, job) == \E k \in 1..Len(queue[g]) : queue[g][k] = job

AtHome(i, b) ==
    /\ Waiting(i, b) => HomeOf(i, b) \in Pools /\ InQueue(HomeOf(i, b), <<i, b>>)
    /\ Working(i, b) => HomeOf(i, b) \in Pools /\ <<i, b>> \in running[HomeOf(i, b)]
    /\ \A g \in Pools : InQueue(g, <<i, b>>) => g = HomeOf(i, b) /\ Waiting(i, b)

Once == \A g \in Pools : \A k, m \in 1..Len(queue[g]) : queue[g][k] = queue[g][m] => k = m

JobInv == Once /\ \A i \in Items : \A b \in Batches(i) \cup {0} : AtHome(i, b)

QuietInv ==
    /\ Types /\ Counted /\ ShutByOwner /\ JobInv
    /\ (\A c \in Callers : AtCall(c)) /\ (\A i \in Items : AtTask(i))
-----------------------------------------------------------------------------
(* Pools and jobs. *)

LEMMA PoolsAre ==
    /\ N \in Nat \ {0} /\ Workers \in Nat \ {0} /\ Cardinality(Callers) \in Nat
    /\ Cardinality(Users) = N + Cardinality(Callers) /\ IsFiniteSet(Users)
    /\ Pools = 1..(Cardinality(Users) + 1) /\ 0 \notin Pools
<1>1. N \in Nat \ {0} /\ Workers \in Nat \ {0} /\ IsFiniteSet(Callers) /\ Callers \cap Items = {}
  BY PoolAssumption
<1>2. Cardinality(Callers) \in Nat  BY <1>1, FS_CardinalityType
<1>3. IsFiniteSet(Items) /\ Cardinality(Items) = N  BY <1>1, FS_Interval DEF Items
<1>4. IsFiniteSet(Users) /\ Cardinality(Users) = Cardinality(Callers) + N - Cardinality({})
  BY <1>1, <1>3, FS_Union DEF Users
<1> QED  BY <1>1, <1>2, <1>3, <1>4, FS_EmptySet DEF Pools

\* A set of items has a first one.
LEMMA FirstOf ==
    ASSUME NEW S, S \subseteq Items, S # {}
    PROVE  \E i \in S : \A k \in S : i <= k
<1> DEFINE Upto == {1..k : k \in S}
<1>1. S \subseteq Nat \ {0}  BY PoolAssumption DEF Items
<1>2. IsFiniteSet(Items)  BY PoolAssumption, FS_Interval DEF Items
<1>3. Upto \subseteq FiniteSubsetsOf(Items) /\ Upto # {}
  <2>1. \A k \in S : 1..k \subseteq Items  BY <1>1, PoolAssumption DEF Items
  <2>2. FiniteSubsetsOf(Items) = SUBSET Items  BY <1>2, FS_FiniteSubsetsOfFinite
  <2>3. ASSUME NEW U \in Upto PROVE U \in SUBSET Items
    <3>1. PICK k \in S : U = 1..k  BY <2>3
    <3> QED  BY <2>1, <3>1
  <2>4. Upto # {}  BY Zenon
  <2> HIDE DEF Upto
  <2> QED  BY <2>2, <2>3, <2>4
<1>4. IsWellFoundedOn(StrictSubsetOrdering(Items), FiniteSubsetsOf(Items))
  BY FS_StrictSubsetOrderingWellFounded
<1>5. PICK T \in Upto : \A U \in Upto : <<U, T>> \notin StrictSubsetOrdering(Items)
  BY <1>3, <1>4, WFMin
<1>6. PICK i \in S : T = 1..i  BY <1>5
<1>7. ASSUME NEW k \in S, k < i PROVE FALSE
  <2>1. 1..k \subseteq 1..i /\ 1..k # 1..i /\ 1..k \in SUBSET Items /\ 1..i \in SUBSET Items
    <3>1. k \in Nat \ {0} /\ i \in Nat \ {0} /\ i \in 1..i /\ i \notin 1..k  BY <1>1, <1>7
    <3>2. 1..k \subseteq 1..i  BY <1>7, <3>1
    <3>3. i <= N /\ N \in Nat  BY PoolAssumption DEF Items
    <3>4. 1..i \subseteq Items  BY <3>1, <3>3 DEF Items
    <3> QED  BY <3>1, <3>2, <3>4
  <2>2. <<1..k, 1..i>> \in StrictSubsetOrdering(Items)  BY <2>1 DEF StrictSubsetOrdering
  <2> QED  BY <1>5, <1>6, <2>2
<1>8. \A k \in S : i <= k  BY <1>1, <1>7
<1> QED  BY <1>8

LEMMA JobIs ==
    ASSUME Types
    PROVE  /\ \A i \in Items : batches[i] \in Nat \ {0} /\ 0 \notin Batches(i)
           /\ \A i \in Items : \A b \in Batches(i) \cup {0} : <<i, b>> \in Jobs
           /\ \A j \in Jobs : \E i \in Items : \E b \in Batches(i) \cup {0} : j = <<i, b>>
<1>1. \A i \in Items : batches[i] \in Nat \ {0}  BY PoolAssumption DEF Types
<1>2. \A i \in Items : 0 \notin Batches(i)  BY DEF Batches
<1>3. ASSUME NEW i \in Items, NEW b \in Batches(i) \cup {0} PROVE <<i, b>> \in Jobs
  BY <1>3 DEF Jobs
<1>4. ASSUME NEW j \in Jobs
      PROVE  \E i \in Items : \E b \in Batches(i) \cup {0} : j = <<i, b>>
  BY DEF Jobs
<1> QED  BY <1>1, <1>2, <1>3, <1>4

\* What is in a queue after one more job, and after the first is taken.
LEMMA Appended ==
    ASSUME NEW S, NEW q \in Seq(S), NEW x \in S
    PROVE  /\ Append(q, x) \in Seq(S) /\ Len(Append(q, x)) = Len(q) + 1
           /\ \A k \in 1..Len(q) : Append(q, x)[k] = q[k]
           /\ Append(q, x)[Len(q) + 1] = x
  OBVIOUS

LEMMA Behind ==
    ASSUME NEW S, NEW q \in Seq(S), q # <<>>
    PROVE  /\ Head(q) \in S /\ Head(q) = q[1] /\ Tail(q) \in Seq(S) /\ Len(q) \in Nat \ {0}
           /\ Len(Tail(q)) = Len(q) - 1 /\ \A k \in 1..Len(Tail(q)) : Tail(q)[k] = q[k + 1]
  OBVIOUS

\* The jobs after a step that leaves the queues alone: those that wait, wait, and those that
\* have a worker had it and keep it.
LEMMA JobsStay ==
    ASSUME Types, JobInv, UNCHANGED <<batches, queue>>,
           \A i \in Items : \A b \in Batches(i) \cup {0} :
              /\ Waiting(i, b)' <=> Waiting(i, b)
              /\ Working(i, b)' => Working(i, b)
              /\ Waiting(i, b) \/ Working(i, b)' => HomeOf(i, b)' = HomeOf(i, b)
              /\ Working(i, b)' => \A g \in Pools : <<i, b>> \in running[g] => <<i, b>> \in running'[g]
    PROVE  JobInv'
<1>1. Once'  BY DEF JobInv, Once
<1>2. ASSUME NEW i \in Items, NEW b \in Batches(i) \cup {0} PROVE AtHome(i, b)'
  <2>1. AtHome(i, b)  BY DEF JobInv
  <2>2. \A g : InQueue(g, <<i, b>>)' <=> InQueue(g, <<i, b>>)  BY DEF InQueue
  <2> QED  BY <2>1, <2>2 DEF AtHome
<1>3. \A i : Batches(i)' = Batches(i)  BY DEF Batches
<1> QED  BY <1>1, <1>2, <1>3 DEF JobInv

\* The jobs after one of them was submitted to its pool.
LEMMA JobComes ==
    ASSUME Types, JobInv, NEW g \in Pools, NEW j \in Items, NEW d \in Batches(j) \cup {0},
           batches' = batches, Enqueue(g, <<j, d>>), ~Waiting(j, d),
           HomeOf(j, d)' = g, Waiting(j, d)', ~Working(j, d)', running' = running,
           \A i \in Items : \A b \in Batches(i) \cup {0} : <<i, b>> # <<j, d>> =>
              /\ Waiting(i, b)' <=> Waiting(i, b)
              /\ Working(i, b)' => Working(i, b)
              /\ Waiting(i, b) \/ Working(i, b)' => HomeOf(i, b)' = HomeOf(i, b)
    PROVE  JobInv'
<1>1. queue[g] \in Seq(Jobs) /\ <<j, d>> \in Jobs  BY JobIs DEF Types
<1>2. /\ queue' = [queue EXCEPT ![g] = Append(queue[g], <<j, d>>)]
      /\ queue'[g] = Append(queue[g], <<j, d>>)
      /\ \A h \in Pools \ {g} : queue'[h] = queue[h]
  BY DEF Enqueue, Types
<1>3. /\ Len(queue'[g]) = Len(queue[g]) + 1 /\ Len(queue[g]) \in Nat
      /\ \A k \in 1..Len(queue[g]) : queue'[g][k] = queue[g][k]
      /\ queue'[g][Len(queue[g]) + 1] = <<j, d>>
  BY <1>1, <1>2, Appended
<1>4. AtHome(j, d)  BY DEF JobInv
<1>5. \A h \in Pools : ~InQueue(h, <<j, d>>)  BY <1>4 DEF AtHome
<1>6. Once'
  <2>1. ASSUME NEW k \in 1..Len(queue'[g]), NEW m \in 1..Len(queue'[g]),
               queue'[g][k] = queue'[g][m]
        PROVE  k = m
    <3>1. \A n \in 1..Len(queue[g]) : queue[g][n] # <<j, d>>  BY <1>5 DEF InQueue
    <3>2. CASE k = Len(queue[g]) + 1  BY <1>3, <2>1, <3>1, <3>2
    <3>3. CASE m = Len(queue[g]) + 1  BY <1>3, <2>1, <3>1, <3>3
    <3>4. CASE k \in 1..Len(queue[g]) /\ m \in 1..Len(queue[g])
      BY <1>3, <2>1, <3>4 DEF JobInv, Once
    <3> QED  BY <1>3, <3>2, <3>3, <3>4
  <2> QED  BY <1>2, <2>1 DEF JobInv, Once
<1>7. ASSUME NEW h \in Pools, NEW x, x # <<j, d>>
      PROVE  InQueue(h, x)' <=> InQueue(h, x)
  <2>1. CASE h = g
    <3>1. ASSUME InQueue(g, x)' PROVE InQueue(g, x)
      <4>1. PICK k \in 1..Len(queue'[g]) : queue'[g][k] = x  BY <3>1 DEF InQueue
      <4>2. k \in 1..Len(queue[g])  BY <1>3, <1>7, <4>1
      <4> QED  BY <1>3, <4>1, <4>2 DEF InQueue
    <3>2. ASSUME InQueue(g, x) PROVE InQueue(g, x)'
      <4>1. PICK k \in 1..Len(queue[g]) : queue[g][k] = x  BY <3>2 DEF InQueue
      <4>2. k \in 1..Len(queue'[g])  BY <1>3, <4>1
      <4> QED  BY <1>3, <4>1, <4>2 DEF InQueue
    <3> QED  BY <2>1, <3>1, <3>2
  <2>2. CASE h # g  BY <1>2, <2>2 DEF InQueue
  <2> QED  BY <2>1, <2>2
<1>8. InQueue(g, <<j, d>>)'
  <2>1. Len(queue[g]) + 1 \in 1..Len(queue'[g])  BY <1>3
  <2> QED  BY <1>3, <2>1 DEF InQueue
<1>9. \A h \in Pools \ {g} : ~InQueue(h, <<j, d>>)'  BY <1>2, <1>5 DEF InQueue
<1>10. ASSUME NEW i \in Items, NEW b \in Batches(i) \cup {0} PROVE AtHome(i, b)'
  <2>1. CASE <<i, b>> = <<j, d>>  BY <1>8, <1>9, <2>1 DEF AtHome
  <2>2. CASE <<i, b>> # <<j, d>>
    <3>1. AtHome(i, b)  BY DEF JobInv
    <3> QED  BY <1>7, <2>2, <3>1 DEF AtHome
  <2> QED  BY <2>1, <2>2
<1>11. \A i : Batches(i)' = Batches(i)  BY DEF Batches
<1> QED  BY <1>6, <1>10, <1>11 DEF JobInv

\* The jobs after the first of a queue got a worker.
LEMMA JobGoes ==
    ASSUME Types, JobInv, NEW g \in Pools, NEW j \in Items, NEW d \in Batches(j) \cup {0},
           batches' = batches, queue[g] # <<>>, Head(queue[g]) = <<j, d>>,
           queue' = [queue EXCEPT ![g] = Tail(queue[g])],
           running' = [running EXCEPT ![g] = running[g] \cup {<<j, d>>}],
           ~Waiting(j, d)', poolOf' = poolOf,
           \A i \in Items : \A b \in Batches(i) \cup {0} : <<i, b>> # <<j, d>> =>
              /\ Waiting(i, b)' <=> Waiting(i, b)
              /\ Working(i, b)' => Working(i, b)
    PROVE  JobInv'
<1>1. queue \in [Pools -> Seq(Jobs)] /\ running \in [Pools -> SUBSET Jobs]  BY DEF Types
<1>2. /\ queue'[g] = Tail(queue[g]) /\ \A h \in Pools \ {g} : queue'[h] = queue[h]
      /\ running'[g] = running[g] \cup {<<j, d>>}
      /\ \A h \in Pools \ {g} : running'[h] = running[h]
  BY <1>1
<1>3. /\ queue[g][1] = <<j, d>> /\ Len(queue[g]) \in Nat \ {0}
      /\ Len(queue'[g]) = Len(queue[g]) - 1
      /\ \A k \in 1..Len(queue'[g]) : queue'[g][k] = queue[g][k + 1]
  BY <1>1, <1>2, Behind
<1>4. Once'
  <2>1. ASSUME NEW k \in 1..Len(queue'[g]), NEW m \in 1..Len(queue'[g]),
               queue'[g][k] = queue'[g][m]
        PROVE  k = m
    <3>1. k + 1 \in 1..Len(queue[g]) /\ m + 1 \in 1..Len(queue[g])
          /\ queue[g][k + 1] = queue[g][m + 1]
      BY <1>3, <2>1
    <3>2. k + 1 = m + 1  BY <3>1 DEF JobInv, Once
    <3> QED  BY <3>2
  <2> QED  BY <1>2, <2>1 DEF JobInv, Once
<1>5. InQueue(g, <<j, d>>)
  <2>1. 1 \in 1..Len(queue[g])  BY <1>3
  <2> QED  BY <1>3, <2>1 DEF InQueue
<1>6. AtHome(j, d)  BY DEF JobInv
<1>7. g = HomeOf(j, d) /\ \A h \in Pools \ {g} : ~InQueue(h, <<j, d>>)
  BY <1>5, <1>6 DEF AtHome
<1>8. ~InQueue(g, <<j, d>>)'
  <2>1. ASSUME NEW k \in 1..Len(queue'[g]), queue'[g][k] = <<j, d>> PROVE FALSE
    <3>1. k + 1 \in 1..Len(queue[g]) /\ 1 \in 1..Len(queue[g]) /\ queue[g][k + 1] = queue[g][1]
      BY <1>3, <2>1
    <3>2. k + 1 = 1  BY <3>1 DEF JobInv, Once
    <3> QED  BY <3>2
  <2> QED  BY <2>1 DEF InQueue
<1>9. ASSUME NEW h \in Pools, NEW x, x # <<j, d>>
      PROVE  InQueue(h, x)' <=> InQueue(h, x)
  <2>1. CASE h = g
    <3>1. ASSUME InQueue(g, x)' PROVE InQueue(g, x)
      <4>1. PICK k \in 1..Len(queue'[g]) : queue'[g][k] = x  BY <3>1 DEF InQueue
      <4>2. k + 1 \in 1..Len(queue[g]) /\ queue[g][k + 1] = x  BY <1>3, <4>1
      <4> QED  BY <4>2 DEF InQueue
    <3>2. ASSUME InQueue(g, x) PROVE InQueue(g, x)'
      <4>1. PICK k \in 1..Len(queue[g]) : queue[g][k] = x  BY <3>2 DEF InQueue
      <4>2. k # 1  BY <1>3, <1>9, <4>1
      <4>3. k - 1 \in 1..Len(queue'[g]) /\ (k - 1) + 1 = k  BY <1>3, <4>1, <4>2
      <4>4. queue'[g][k - 1] = x  BY <1>3, <4>1, <4>3
      <4> QED  BY <4>3, <4>4 DEF InQueue
    <3> QED  BY <2>1, <3>1, <3>2
  <2>2. CASE h # g  BY <1>2, <2>2 DEF InQueue
  <2> QED  BY <2>1, <2>2
<1>10. \A i : Batches(i)' = Batches(i)  BY DEF Batches
<1>11. ASSUME NEW i \in Items, NEW b \in Batches(i) \cup {0} PROVE AtHome(i, b)'
  <2>0. HomeOf(i, b)' = HomeOf(i, b)  BY DEF HomeOf
  <2>1. CASE <<i, b>> = <<j, d>>
    <3>0. \A h \in Pools \ {g} : ~InQueue(h, <<j, d>>)'  BY <1>2, <1>7 DEF InQueue
    <3>1. \A h \in Pools : ~InQueue(h, <<j, d>>)'  BY <1>8, <3>0
    <3>2. i = j /\ b = d  BY <2>1
    <3> QED  BY <1>2, <1>7, <2>0, <3>1, <3>2 DEF AtHome
  <2>2. CASE <<i, b>> # <<j, d>>
    <3>1. AtHome(i, b)  BY DEF JobInv
    <3>2. \A h \in Pools : running[h] \subseteq running'[h]  BY <1>2
    <3> QED  BY <1>9, <2>0, <2>2, <3>1, <3>2 DEF AtHome
  <2> QED  BY <2>1, <2>2
<1> QED  BY <1>4, <1>10, <1>11 DEF JobInv

\* Pools and what is known of the calls and the items, as long as a step leaves it.
LEMMA CallStays ==
    ASSUME Types, NEW c \in Callers, AtCall(c), call'[c] = call[c], poolOf'[c] = poolOf[c],
           shut \subseteq shut', Left(c)' = Left(c),
           call[c] = "returned" /\ Drained(poolOf[c]) => Drained(poolOf[c])'
    PROVE  AtCall(c)'
  BY DEF AtCall, Drained, Mine

LEMMA TaskStays ==
    ASSUME Types, NEW i \in Items, AtTask(i), batches' = batches, task'[i] = task[i],
           submitted'[i] = submitted[i], sent'[i] = sent[i], shut \subseteq shut',
           poolOf'[i] = poolOf[i],
           poolOf[CallerOf[i]] # 0 => poolOf'[CallerOf[i]] # 0
    PROVE  AtTask(i)'
  BY DEF AtTask, NoneMissing, Batches

\* Who leaves its worker.
LEMMA Left1 ==
    ASSUME Types, Counted, NEW job, Leave(job)
    PROVE  /\ running' \in [Pools -> SUBSET Jobs]
           /\ \A g \in Pools : running'[g] = running[g] \ {job}
           /\ \A g \in Pools : IsFiniteSet(running'[g]) /\ Cardinality(running'[g]) <= Workers
<1>1. running' \in [Pools -> SUBSET Jobs] /\ \A g \in Pools : running'[g] = running[g] \ {job}
  BY DEF Types, Leave
<1>2. ASSUME NEW g \in Pools
      PROVE  IsFiniteSet(running'[g]) /\ Cardinality(running'[g]) <= Workers
  <2>1. IsFiniteSet(running[g]) /\ Cardinality(running[g]) <= Workers /\ Workers \in Nat
    BY PoolsAre DEF Counted
  <2>2. IsFiniteSet(running[g] \ {job})
        /\ Cardinality(running[g] \ {job}) <= Cardinality(running[g])
    BY <2>1, FS_Subset
  <2>3. Cardinality(running[g] \ {job}) \in Nat /\ Cardinality(running[g]) \in Nat
    BY <2>1, <2>2, FS_CardinalityType
  <2>4. Cardinality(running[g] \ {job}) <= Workers  BY <2>1, <2>2, <2>3
  <2>5. running'[g] = running[g] \ {job}  BY <1>1
  <2> QED  BY <2>2, <2>4, <2>5, Zenon
<1> QED  BY <1>1, <1>2

\* Who is handed a pool that is not shut down.
LEMMA Handed ==
    ASSUME QuietInv, NEW u \in Users, poolOf[u] = 0, NEW g \in 1..made', g \notin shut,
           poolOf' = [poolOf EXCEPT ![u] = g],
           \/ made' = made
           \/ made' = made + 1,
           UNCHANGED <<batches, shut, running>>
    PROVE  /\ made' \in Pools /\ shut \subseteq 1..made' /\ poolOf' \in [Users -> 0..made']
           /\ poolOf'[u] = g /\ \A v \in Users \ {u} : poolOf'[v] = poolOf[v]
           /\ Counted' /\ ShutByOwner'
<1>1. /\ Types /\ Counted /\ made \in Nat /\ made + Cardinality(Poolless) <= Cardinality(Users) + 1
      /\ poolOf \in [Users -> 0..made] /\ Cardinality(Users) \in Nat /\ IsFiniteSet(Users)
  BY PoolsAre, FS_CardinalityType DEF QuietInv, Types, Counted
<1>2. u \in Poolless /\ Poolless \subseteq Users  BY DEF Poolless
<1>3. poolOf'[u] = g /\ \A v \in Users \ {u} : poolOf'[v] = poolOf[v]  BY <1>1
<1>4. Poolless' = Poolless \ {u}  BY <1>1, <1>3, PoolsAre DEF Poolless
<1>5. /\ IsFiniteSet(Poolless) /\ Cardinality(Poolless) \in Nat
      /\ Cardinality(Poolless') = Cardinality(Poolless) - 1 /\ Cardinality(Poolless) # 0
  BY <1>1, <1>2, <1>4, FS_Subset, FS_RemoveElement, FS_CardinalityType, FS_EmptySet
<1>6. made' + Cardinality(Poolless') <= Cardinality(Users) + 1
  BY <1>1, <1>5
<1>7. made' \in Pools
  <2>1. made' \in Nat \ {0} /\ made' <= Cardinality(Users) + 1
    BY <1>1, <1>5 DEF Types, Pools
  <2> QED  BY <1>1, <2>1, PoolsAre
<1>8. shut \subseteq 1..made' /\ poolOf' \in [Users -> 0..made']
  <2>1. shut \subseteq 1..made  BY <1>1 DEF Types
  <2> QED  BY <1>1, <2>1
<1>9. Counted'  BY <1>1, <1>6 DEF Counted
<1>10. ShutByOwner'
  <2>1. ASSUME NEW v \in Users, poolOf'[v] \in shut
        PROVE  \E d \in Callers : poolOf'[d] = poolOf'[v]
    <3>1. v # u /\ poolOf'[v] = poolOf[v]  BY <1>3, <2>1
    <3>2. PICK d \in Callers : poolOf[d] = poolOf[v]
      BY <2>1, <3>1 DEF QuietInv, ShutByOwner
    <3>3. d # u
      <4>1. 0 \notin shut  BY <1>1 DEF Types
      <4> QED  BY <2>1, <3>1, <3>2, <4>1
    <3> QED  BY <1>3, <3>1, <3>2, <3>3 DEF Users
  <2> QED  BY <2>1 DEF ShutByOwner
<1> QED  BY <1>3, <1>7, <1>8, <1>9, <1>10
-----------------------------------------------------------------------------
(* The steps of a caller. *)

LEMMA LeftIs ==
    ASSUME \A i \in Items : task'[i] = "new" <=> task[i] = "new", NEW c \in Callers
    PROVE  Left(c)' = Left(c)
  BY DEF Left, Mine

\* Whoever was handed a pool stays with it.
LEMMA OwnersStay == ShutByOwner /\ UNCHANGED <<poolOf, shut>> => ShutByOwner'
  BY DEF ShutByOwner

LEMMA PoollessStay ==
    Counted /\ UNCHANGED <<poolOf, made, running>> => Counted'
  BY DEF Counted, Poolless

LEMMA GetPoolStep == ASSUME QuietInv, NEW c \in Callers, GetPool(c) PROVE QuietInv'
<1>1. /\ Types /\ Counted /\ ShutByOwner /\ JobInv /\ c \in Users
      /\ (\A d \in Callers : AtCall(d)) /\ (\A i \in Items : AtTask(i))
      /\ made \in Nat /\ Items \subseteq Users /\ Callers \subseteq Users
      /\ \A i \in Items : CallerOf[i] \in Callers
  <2>1. \A i \in Items : CallerOf[i] \in Callers  BY PoolAssumption
  <2>2. Types  BY DEF QuietInv
  <2>3. made \in Nat  BY <2>2, PoolsAre DEF Types
  <2> QED  BY <2>1, <2>3 DEF QuietInv, Users
<1>2. /\ UNCHANGED <<batches, shut, queue, running, task, submitted, sent>>
      /\ call[c] \in {"start", "make"}
  BY DEF GetPool
<1>3. poolOf[c] = 0 /\ Left(c) = Mine(c)  BY <1>1, <1>2 DEF AtCall
<1>4. \A d \in Callers : Left(d)' = Left(d)  BY <1>2, LeftIs
<1>5. \A i \in Items : CallerOf[i] = c => task[i] = "new"  BY <1>3 DEF Left, Mine
<1>6. CASE call' = [call EXCEPT ![c] = "submit"]
  <2>1. PICK g \in 1..made' : /\ g \notin shut /\ poolOf' = [poolOf EXCEPT ![c] = g]
                              /\ made' = made \/ made' = made + 1
                              /\ current' \in 1..made'
    <3>1. CASE Hands(c) /\ UNCHANGED registry
      BY <1>1, <3>1 DEF Hands, registry, Types
    <3>2. CASE Replaces(c)
      <4>1. shut \subseteq 1..made  BY <1>1 DEF Types
      <4>2. made' = made + 1 /\ current' = made + 1 /\ poolOf' = [poolOf EXCEPT ![c] = made + 1]
        BY <3>2 DEF Replaces
      <4>3. made + 1 \notin shut /\ made + 1 \in 1..made' /\ current' \in 1..made'
        BY <1>1, <4>1, <4>2
      <4> QED  BY <4>2, <4>3
    <3> QED  BY <1>1, <1>2, <1>6, <3>1, <3>2 DEF GetPool, Types
  <2>2. /\ made' \in Pools /\ shut' \subseteq 1..made' /\ poolOf' \in [Users -> 0..made']
        /\ poolOf'[c] = g /\ \A v \in Users \ {c} : poolOf'[v] = poolOf[v]
        /\ Counted' /\ ShutByOwner'
    BY <1>1, <1>2, <1>3, <2>1, Handed
  <2>3. Types'  BY <1>1, <1>2, <1>6, <2>1, <2>2 DEF Types, Labels, Jobs, Batches
  <2>4. ASSUME NEW d \in Callers PROVE AtCall(d)'
    <3>1. CASE d = c
      BY <1>1, <1>6, <2>2, <3>1 DEF AtCall, Types, Labels
    <3>2. CASE d # c
      BY <1>1, <1>2, <1>4, <1>6, <2>2, <3>2, CallStays DEF Drained, Types
    <3> QED  BY <3>1, <3>2
  <2>5. ASSUME NEW i \in Items PROVE AtTask(i)'
    <3>1. poolOf'[i] = poolOf[i]  BY <1>1, <2>2, PoolAssumption
    <3>2. poolOf[CallerOf[i]] # 0 => poolOf'[CallerOf[i]] # 0  BY <1>1, <1>3, <2>2
    <3> QED  BY <1>1, <1>2, <3>1, <3>2, TaskStays
  <2>6. JobInv'
    <3>1. ASSUME NEW i \in Items, NEW b \in Batches(i) \cup {0}
          PROVE  /\ Waiting(i, b)' <=> Waiting(i, b)
                 /\ Working(i, b)' <=> Working(i, b)
                 /\ Waiting(i, b) \/ Working(i, b) => HomeOf(i, b)' = HomeOf(i, b)
      <4>1. (Waiting(i, b)' <=> Waiting(i, b)) /\ (Working(i, b)' <=> Working(i, b))
        BY <1>2 DEF Waiting, Working
      <4>2. poolOf'[i] = poolOf[i]  BY <1>1, <2>2, PoolAssumption
      <4>3. CallerOf[i] # c => poolOf'[CallerOf[i]] = poolOf[CallerOf[i]]  BY <1>1, <2>2
      <4>4. Waiting(i, b) \/ Working(i, b) => b # 0 \/ CallerOf[i] # c
        BY <1>5 DEF Waiting, Working
      <4> QED  BY <4>1, <4>2, <4>3, <4>4 DEF HomeOf
    <3> QED  BY <1>1, <1>2, <3>1, JobsStay
  <2> QED  BY <2>2, <2>3, <2>4, <2>5, <2>6 DEF QuietInv
<1>7. CASE call' = [call EXCEPT ![c] = "make"] /\ UNCHANGED <<registry, poolOf>>
  <2>1. Types'  BY <1>1, <1>2, <1>7 DEF Types, Labels, Jobs, Batches, registry
  <2>2. Counted' /\ ShutByOwner'
    BY <1>1, <1>2, <1>7, OwnersStay, PoollessStay DEF registry
  <2>3. ASSUME NEW d \in Callers PROVE AtCall(d)'
    <3>1. CASE d = c
      BY <1>1, <1>3, <1>4, <1>7, <3>1 DEF AtCall, Types, Labels, Mine
    <3>2. CASE d # c
      BY <1>1, <1>2, <1>4, <1>7, <3>2, CallStays DEF Drained, Types
    <3> QED  BY <3>1, <3>2
  <2>4. \A i \in Items : AtTask(i)'  BY <1>1, <1>2, <1>7, TaskStays
  <2>5. JobInv'  BY <1>1, <1>2, <1>7, JobsStay DEF Waiting, Working, HomeOf
  <2> QED  BY <2>1, <2>2, <2>3, <2>4, <2>5 DEF QuietInv
<1> QED  BY <1>6, <1>7 DEF GetPool

\* A caller that goes on with its pool.
LEMMA SubmitItemStep == ASSUME QuietInv, NEW c \in Callers, SubmitItem(c) PROVE QuietInv'
<1>1. /\ Types /\ Counted /\ ShutByOwner /\ JobInv
      /\ (\A d \in Callers : AtCall(d)) /\ (\A i \in Items : AtTask(i))
      /\ c \in Users /\ poolOf[c] # 0 /\ poolOf[c] \in Pools /\ call[c] = "submit"
  <2>1. Types /\ c \in Users /\ call[c] = "submit" /\ AtCall(c)
    BY DEF QuietInv, Users, SubmitItem
  <2>2. made \in Pools /\ poolOf[c] \in 1..made  BY <2>1, PoolsAre DEF Types, AtCall
  <2>3. poolOf[c] \in Pools  BY <2>2, PoolsAre
  <2> QED  BY <2>1, <2>3, PoolsAre DEF QuietInv
<1>2. \E j \in Left(c) : \A k \in Left(c) : j <= k
  <2>1. Left(c) \subseteq Items /\ Left(c) # {}  BY DEF SubmitItem, Left, Mine
  <2> QED  BY <2>1, FirstOf
<1>3. PICK first \in Left(c) : first = CHOOSE j \in Left(c) : \A k \in Left(c) : j <= k
  BY <1>2
<1>4. /\ first \in Items /\ CallerOf[first] = c /\ task[first] = "new"
  BY <1>3 DEF Left, Mine
<1>5. /\ UNCHANGED <<batches, registry, shut, running, poolOf, submitted, sent>>
      /\ \/ /\ Enqueue(poolOf[c], <<first, 0>>) /\ call' = call
            /\ task' = [task EXCEPT ![first] = "queued"] /\ poolOf[c] \notin shut
         \/ /\ call' = [call EXCEPT ![c] = "raised"] /\ UNCHANGED <<queue, task>>
  BY <1>3 DEF SubmitItem, Accepts
<1>6. Counted' /\ ShutByOwner'  BY <1>1, <1>5, OwnersStay, PoollessStay DEF registry
<1>7. CASE /\ Enqueue(poolOf[c], <<first, 0>>) /\ call' = call
           /\ task' = [task EXCEPT ![first] = "queued"] /\ poolOf[c] \notin shut
  <2>1. task'[first] = "queued" /\ \A i \in Items \ {first} : task'[i] = task[i]
    BY <1>1, <1>4, <1>7 DEF Types
  <2>2. /\ queue' \in [Pools -> Seq(Jobs)]
        /\ \A g \in Pools \ {poolOf[c]} : queue'[g] = queue[g]
    <3>1. <<first, 0>> \in Jobs  BY <1>1, <1>4, JobIs
    <3>2. queue[poolOf[c]] \in Seq(Jobs)  BY <1>1 DEF Types
    <3>3. Append(queue[poolOf[c]], <<first, 0>>) \in Seq(Jobs)  BY <3>1, <3>2, Appended
    <3>4. queue' = [queue EXCEPT ![poolOf[c]] = Append(queue[poolOf[c]], <<first, 0>>)]
      BY <1>7 DEF Enqueue
    <3>5. queue \in [Pools -> Seq(Jobs)]  BY <1>1 DEF Types
    <3> QED  BY <1>1, <3>3, <3>4, <3>5
  <2>3. Types'
    <3>1. task' \in [Items -> Stages]  BY <1>1, <1>7 DEF Types, Stages
    <3>2. Jobs' = Jobs /\ \A i : Batches(i)' = Batches(i)  BY <1>5 DEF Jobs, Batches
    <3> QED  BY <1>1, <1>5, <1>7, <2>2, <3>1, <3>2 DEF Types, registry
  <2>4. ASSUME NEW d \in Callers PROVE AtCall(d)'
    <3>1. CASE d = c
      BY <1>1, <1>5, <1>7, <3>1 DEF AtCall
    <3>2. CASE d # c
      <4>1. Left(d)' = Left(d)  BY <1>4, <2>1, <3>2 DEF Left, Mine
      <4>2. poolOf[d] \in shut => queue'[poolOf[d]] = queue[poolOf[d]]
        <5>1. shut \subseteq Pools  BY <1>1, PoolsAre DEF Types
        <5> QED  BY <1>7, <2>2, <5>1
      <4>3. call[d] = "returned" => poolOf[d] \in shut  BY <1>1 DEF AtCall
      <4> QED  BY <1>1, <1>5, <1>7, <4>1, <4>2, <4>3, CallStays DEF Drained
    <3> QED  BY <3>1, <3>2
  <2>5. ASSUME NEW i \in Items PROVE AtTask(i)'
    <3>1. CASE i = first
      BY <1>1, <1>4, <1>5, <2>1, <3>1 DEF AtTask, Batches
    <3>2. CASE i # first
      BY <1>1, <1>5, <2>1, <3>2, TaskStays
    <3> QED  BY <3>1, <3>2
  <2>6. JobInv'
    <3>1. ASSUME NEW i \in Items, NEW b \in Batches(i) \cup {0}, <<i, b>> # <<first, 0>>
          PROVE  /\ Waiting(i, b)' <=> Waiting(i, b)
                 /\ Working(i, b)' => Working(i, b)
                 /\ HomeOf(i, b)' = HomeOf(i, b)
      <4>1. b = 0 => i # first  BY <3>1
      <4>2. b = 0 => task'[i] = task[i]  BY <2>1, <4>1
      <4> QED  BY <1>5, <4>2 DEF Waiting, Working, HomeOf
    <3>2. ~Waiting(first, 0) /\ Waiting(first, 0)' /\ ~Working(first, 0)'
      <4>1. Waiting(first, 0) => task[first] = "queued"  BY DEF Waiting
      <4>2. Waiting(first, 0)' <=> task'[first] = "queued"  BY DEF Waiting
      <4>3. Working(first, 0)' <=> task'[first] \in {"run", "make", "submit"}  BY DEF Working
      <4> QED  BY <1>4, <2>1, <4>1, <4>2, <4>3
    <3>3. HomeOf(first, 0)' = poolOf[c]
      <4>1. poolOf'[c] = poolOf[c]  BY <1>5
      <4>2. HomeOf(first, 0)' = poolOf'[CallerOf[first]]  BY DEF HomeOf
      <4>3. CallerOf[first] = c  BY <1>4
      <4> QED  BY <4>1, <4>2, <4>3, Zenon
    <3>4. running' = running /\ batches' = batches /\ 0 \in Batches(first) \cup {0}  BY <1>5
    <3> QED  BY <1>1, <1>4, <1>7, <3>1, <3>2, <3>3, <3>4, JobComes
  <2> QED  BY <1>6, <2>3, <2>4, <2>5, <2>6 DEF QuietInv
<1>8. CASE call' = [call EXCEPT ![c] = "raised"] /\ UNCHANGED <<queue, task>>
  <2>1. Types'  BY <1>1, <1>5, <1>8 DEF Types, Labels, Jobs, Batches, registry
  <2>2. ASSUME NEW d \in Callers PROVE AtCall(d)'
    <3>1. CASE d = c  BY <1>1, <1>8, <3>1 DEF AtCall, Types
    <3>2. CASE d # c
      BY <1>1, <1>5, <1>8, <3>2, LeftIs, CallStays DEF Drained, Types
    <3> QED  BY <3>1, <3>2
  <2>3. \A i \in Items : AtTask(i)'  BY <1>1, <1>5, <1>8, TaskStays
  <2>4. JobInv'  BY <1>1, <1>5, <1>8, JobsStay DEF Waiting, Working, HomeOf
  <2> QED  BY <1>6, <2>1, <2>2, <2>3, <2>4 DEF QuietInv
<1> QED  BY <1>5, <1>7, <1>8

LEMMA CallerEnds ==
    ASSUME QuietInv, NEW c \in Callers, ListFails(c) \/ Shutdown(c) \/ Return(c)
    PROVE  QuietInv'
<1>1. /\ Types /\ Counted /\ ShutByOwner /\ JobInv /\ AtCall(c) /\ c \in Users
      /\ (\A d \in Callers : AtCall(d)) /\ (\A i \in Items : AtTask(i))
  BY DEF QuietInv, Users
<1>2. /\ UNCHANGED <<batches, registry, queue, running, poolOf, task, submitted, sent>>
      /\ call[c] \in {"submit", "join"}
  BY DEF ListFails, Shutdown, Return
<1>3. /\ shut' = shut \/ (Shutdown(c) /\ shut' = shut \cup {poolOf[c]})
      /\ shut \subseteq shut'
      /\ \E l \in {"raised", "join", "returned"} : call' = [call EXCEPT ![c] = l]
  BY DEF ListFails, Shutdown, Return
<1>4. poolOf[c] \in 1..made /\ poolOf[c] # 0
  BY <1>1, <1>2, PoolsAre DEF AtCall, Types
<1>5. Types'
  BY <1>1, <1>2, <1>3, <1>4 DEF Types, Labels, Jobs, Batches, registry
<1>6. Counted'  BY <1>1, <1>2, PoollessStay DEF registry
<1>7. ShutByOwner'  BY <1>1, <1>2, <1>3 DEF ShutByOwner
<1>8. \A d \in Callers : Left(d)' = Left(d)  BY <1>2, LeftIs
<1>9. ASSUME NEW d \in Callers PROVE AtCall(d)'
  <2>1. CASE d = c
    <3>1. CASE ListFails(c)
      <4>1. call'[c] = "raised"  BY <1>1, <3>1 DEF ListFails, Types
      <4> QED  BY <2>1, <4>1 DEF AtCall
    <3>2. CASE Shutdown(c)
      <4>1. call'[c] = "join" /\ Left(c) = {} /\ poolOf[c] \in shut'
        BY <1>1, <3>2 DEF Shutdown, Types
      <4> QED  BY <1>2, <1>4, <1>8, <2>1, <4>1 DEF AtCall
    <3>3. CASE Return(c)
      <4>1. /\ call'[c] = "returned" /\ call[c] = "join" /\ Drained(poolOf[c])
            /\ shut' = shut
        BY <1>1, <3>3 DEF Return, Types
      <4>2. Drained(poolOf[c])'  BY <1>2, <4>1 DEF Drained
      <4>3. poolOf[c] \in shut /\ Left(c) = {}  BY <1>1, <4>1 DEF AtCall
      <4> QED  BY <1>2, <1>4, <1>8, <2>1, <4>1, <4>2, <4>3 DEF AtCall
    <3> QED  BY <3>1, <3>2, <3>3
  <2>2. CASE d # c
    BY <1>1, <1>2, <1>3, <1>8, <2>2, CallStays DEF Drained, Types
  <2> QED  BY <2>1, <2>2
<1>10. \A i \in Items : AtTask(i)'  BY <1>1, <1>2, <1>3, TaskStays
<1>11. JobInv'  BY <1>1, <1>2, JobsStay DEF Waiting, Working, HomeOf
<1> QED  BY <1>5, <1>6, <1>7, <1>9, <1>10, <1>11 DEF QuietInv
-----------------------------------------------------------------------------
(* The steps of a pool and of the job of an item. *)

LEMMA Basics ==
    ASSUME QuietInv
    PROVE  /\ Types /\ Counted /\ ShutByOwner /\ JobInv
           /\ (\A c \in Callers : AtCall(c)) /\ (\A i \in Items : AtTask(i))
           /\ shut \subseteq Pools /\ \A u \in Users : poolOf[u] # 0 => poolOf[u] \in Pools
           /\ Items \subseteq Users /\ Callers \subseteq Users
           /\ \A i \in Items : CallerOf[i] \in Callers /\ i \notin Callers
<1>1. Types  BY DEF QuietInv
<1>2. \A i \in Items : CallerOf[i] \in Callers /\ i \notin Callers  BY PoolAssumption
<1>3. made \in Pools /\ shut \subseteq 1..made /\ poolOf \in [Users -> 0..made]
  BY <1>1 DEF Types
<1>4. shut \subseteq Pools /\ \A u \in Users : poolOf[u] # 0 => poolOf[u] \in Pools
  BY <1>3, PoolsAre
<1> QED  BY <1>1, <1>2, <1>4 DEF QuietInv, Users

\* A pool whose caller has returned is at rest.
LEMMA AtRest ==
    ASSUME QuietInv, NEW c \in Callers, call[c] = "returned"
    PROVE  /\ poolOf[c] \in Pools /\ poolOf[c] \in shut
           /\ queue[poolOf[c]] = <<>> /\ running[poolOf[c]] = {}
  BY Basics DEF AtCall, Drained

\* What a job that holds no pool's worker and no place changes in nobody else.
LEMMA SentIs ==
    ASSUME Types, NEW i \in Items, NEW b \in Batches(i),
           NEW s \in {"new", "queued", "sending", "over"}, batches' = batches,
           sent' = [sent EXCEPT ![i][b] = s]
    PROVE  /\ sent'[i][b] = s /\ \A e \in Batches(i) \ {b} : sent'[i][e] = sent[i][e]
           /\ \A k \in Items \ {i} : sent'[k] = sent[k]
           /\ sent' = [k \in Items |-> sent'[k]]
           /\ \A k \in Items : sent'[k] \in [Batches(k)' -> {"new", "queued", "sending", "over"}]
<1>1. sent[i] \in [Batches(i) -> {"new", "queued", "sending", "over"}]
      /\ sent = [k \in Items |-> sent[k]]
  BY DEF Types
<1>2. sent' = [sent EXCEPT ![i] = [sent[i] EXCEPT ![b] = s]]  OBVIOUS
<1>3. sent'[i] = [sent[i] EXCEPT ![b] = s] /\ \A k \in Items \ {i} : sent'[k] = sent[k]
  BY <1>1, <1>2
<1>4. sent'[i][b] = s /\ \A e \in Batches(i) \ {b} : sent'[i][e] = sent[i][e]
  BY <1>1, <1>3
<1>5. sent' = [k \in Items |-> sent'[k]]  BY <1>1, <1>2
<1>6. \A k : Batches(k)' = Batches(k)  BY DEF Batches
<1>7. sent'[i] \in [Batches(i) -> {"new", "queued", "sending", "over"}]  BY <1>1, <1>3
<1>8. \A k \in Items : sent'[k] \in [Batches(k)' -> {"new", "queued", "sending", "over"}]
  BY <1>3, <1>6, <1>7 DEF Types
<1> QED  BY <1>3, <1>4, <1>5, <1>8

\* A batch that was submitted and is not over belongs to a job that is not done.
LEMMA OnItsWay ==
    ASSUME Types, NEW i \in Items, AtTask(i), NEW b \in Batches(i),
           sent[i][b] \in {"queued", "sending"}
    PROVE  task[i] # "done" /\ ~(b > submitted[i])
  BY DEF AtTask, NoneMissing

LEMMA TakeStep == ASSUME QuietInv, NEW g \in Pools, Take(g) PROVE QuietInv'
<1>1. /\ Types /\ Counted /\ ShutByOwner /\ JobInv
      /\ (\A c \in Callers : AtCall(c)) /\ (\A i \in Items : AtTask(i))
  BY Basics
<1>2. /\ UNCHANGED <<batches, registry, shut, call, poolOf, submitted>>
      /\ queue[g] # <<>> /\ Cardinality(running[g]) < Workers
      /\ queue' = [queue EXCEPT ![g] = Tail(queue[g])]
      /\ running' = [running EXCEPT ![g] = running[g] \cup {Head(queue[g])}]
  BY DEF Take, WorkerFree
<1>3. /\ queue \in [Pools -> Seq(Jobs)] /\ running \in [Pools -> SUBSET Jobs]
      /\ queue[g] \in Seq(Jobs)
  BY <1>1 DEF Types
<1>4. Head(queue[g]) \in Jobs /\ Head(queue[g]) = queue[g][1] /\ Tail(queue[g]) \in Seq(Jobs)
      /\ 1 \in 1..Len(queue[g])
  BY <1>2, <1>3, Behind
<1>50. PICK i \in Items : \E b \in Batches(i) \cup {0} : Head(queue[g]) = <<i, b>>
  BY <1>1, <1>4, JobIs
<1>5. PICK b \in Batches(i) \cup {0} : Head(queue[g]) = <<i, b>>  BY <1>50
<1>6. InQueue(g, <<i, b>>)  BY <1>4, <1>5 DEF InQueue
<1>7. AtHome(i, b)  BY <1>1, <1>5 DEF JobInv
<1>8. Waiting(i, b) /\ g = HomeOf(i, b)  BY <1>6, <1>7 DEF AtHome
<1>9. queue' \in [Pools -> Seq(Jobs)] /\ running' \in [Pools -> SUBSET Jobs]
  BY <1>2, <1>3, <1>4
<1>10. \A c \in Callers : call[c] = "returned" /\ Drained(poolOf[c]) => Drained(poolOf[c])'
  <2>1. ASSUME NEW c \in Callers, call[c] = "returned" PROVE Drained(poolOf[c])'
    <3>1. poolOf[c] \in Pools \ {g} /\ queue[poolOf[c]] = <<>> /\ running[poolOf[c]] = {}
      BY <1>2, <2>1, AtRest
    <3> QED  BY <1>2, <1>3, <3>1 DEF Drained
  <2> QED  BY <2>1
<1>11. Counted'
  <2>1. IsFiniteSet(running[g]) /\ Cardinality(running[g]) \in Nat
    BY <1>1, FS_CardinalityType DEF Counted
  <2>2. IsFiniteSet(running[g] \cup {<<i, b>>})
        /\ Cardinality(running[g] \cup {<<i, b>>}) <= Cardinality(running[g]) + 1
    <3>1. IsFiniteSet(running[g] \cup {<<i, b>>})
          /\ Cardinality(running[g] \cup {<<i, b>>})
               = IF <<i, b>> \in running[g] THEN Cardinality(running[g])
                 ELSE Cardinality(running[g]) + 1
      BY <2>1, FS_AddElement, Zenon
    <3> QED  BY <2>1, <3>1
  <2>3. running'[g] = running[g] \cup {<<i, b>>}
        /\ \A h \in Pools \ {g} : running'[h] = running[h]
    BY <1>2, <1>3, <1>5
  <2>4. Cardinality(running[g] \cup {<<i, b>>}) \in Nat  BY <2>2, FS_CardinalityType
  <2>5. IsFiniteSet(running'[g]) /\ Cardinality(running'[g]) <= Workers
    <3>1. Cardinality(running[g] \cup {<<i, b>>}) <= Workers  BY <1>2, <2>1, <2>2, <2>4, PoolsAre
    <3> QED  BY <2>2, <2>3, <3>1, Zenon
  <2>6. Poolless' = Poolless /\ made' = made  BY <1>2 DEF Poolless, registry
  <2>7. \A h \in Pools : IsFiniteSet(running'[h]) /\ Cardinality(running'[h]) <= Workers
    BY <1>1, <2>3, <2>5 DEF Counted
  <2> QED  BY <1>1, <2>6, <2>7 DEF Counted
<1>12. ShutByOwner'  BY <1>1, <1>2, OwnersStay
<1>13. Jobs' = Jobs /\ \A k : Batches(k)' = Batches(k)  BY <1>2 DEF Jobs, Batches
<1>14. CASE b = 0
  <2>1. task[i] = "queued"  BY <1>8, <1>14 DEF Waiting
  <2>2. task' = [task EXCEPT ![i] = "run"] /\ sent' = sent  BY <1>5, <1>14 DEF Take
  <2>3. task'[i] = "run" /\ \A k \in Items \ {i} : task'[k] = task[k]
    BY <1>1, <2>2 DEF Types
  <2>4. task' \in [Items -> Stages]  BY <1>1, <2>2 DEF Types, Stages
  <2>5. Types'  BY <1>1, <1>2, <1>9, <1>13, <2>2, <2>4 DEF Types, registry
  <2>6. \A c \in Callers : Left(c)' = Left(c)  BY <2>1, <2>3, LeftIs
  <2>7. \A c \in Callers : AtCall(c)'  BY <1>1, <1>2, <1>10, <2>6, CallStays
  <2>8. ASSUME NEW k \in Items PROVE AtTask(k)'
    <3>1. CASE k = i
      BY <1>1, <1>2, <1>13, <2>1, <2>2, <2>3, <3>1 DEF AtTask
    <3>2. CASE k # i
      BY <1>1, <1>2, <2>2, <2>3, <3>2, TaskStays
    <3> QED  BY <3>1, <3>2
  <2>9. JobInv'
    <3>1. ASSUME NEW k \in Items, NEW e \in Batches(k) \cup {0}, <<k, e>> # <<i, b>>
          PROVE  (Waiting(k, e)' <=> Waiting(k, e)) /\ (Working(k, e)' => Working(k, e))
      <4>1. e = 0 => k # i  BY <1>14, <3>1
      <4>2. e = 0 => task'[k] = task[k]  BY <2>3, <4>1
      <4> QED  BY <2>2, <4>2 DEF Waiting, Working
    <3>2. ~Waiting(i, b)'  BY <1>14, <2>3 DEF Waiting
    <3> QED  BY <1>1, <1>2, <1>5, <3>1, <3>2, JobGoes
  <2> QED  BY <1>11, <1>12, <2>5, <2>7, <2>8, <2>9 DEF QuietInv
<1>15. CASE b # 0
  <2>1. sent[i][b] = "queued" /\ b \in Batches(i)  BY <1>8, <1>15 DEF Waiting
  <2>2. sent' = [sent EXCEPT ![i][b] = "sending"] /\ task' = task  BY <1>5, <1>15 DEF Take
  <2>3. /\ sent'[i][b] = "sending" /\ \A e \in Batches(i) \ {b} : sent'[i][e] = sent[i][e]
        /\ \A k \in Items \ {i} : sent'[k] = sent[k]
        /\ sent' = [k \in Items |-> sent'[k]]
        /\ \A k \in Items : sent'[k] \in [Batches(k)' -> {"new", "queued", "sending", "over"}]
    BY <1>1, <1>2, <2>1, <2>2, SentIs
  <2>4. Types'  BY <1>1, <1>2, <1>9, <1>13, <2>2, <2>3 DEF Types, registry
  <2>5. \A c \in Callers : Left(c)' = Left(c)  BY <2>2, LeftIs
  <2>6. \A c \in Callers : AtCall(c)'  BY <1>1, <1>2, <1>10, <2>5, CallStays
  <2>7. ASSUME NEW k \in Items PROVE AtTask(k)'
    <3>1. CASE k = i
      <4>1. task[i] # "done" /\ ~(b > submitted[i])  BY <1>1, <2>1, OnItsWay
      <4> QED  BY <1>1, <1>2, <1>13, <2>2, <2>3, <3>1, <4>1 DEF AtTask
    <3>2. CASE k # i
      BY <1>1, <1>2, <2>2, <2>3, <3>2, TaskStays
    <3> QED  BY <3>1, <3>2
  <2>8. JobInv'
    <3>1. ASSUME NEW k \in Items, NEW e \in Batches(k) \cup {0}, <<k, e>> # <<i, b>>
          PROVE  (Waiting(k, e)' <=> Waiting(k, e)) /\ (Working(k, e)' => Working(k, e))
      <4>1. e # 0 => sent'[k][e] = sent[k][e]  BY <2>3, <3>1
      <4> QED  BY <2>2, <4>1 DEF Waiting, Working
    <3>2. ~Waiting(i, b)'  BY <1>15, <2>3 DEF Waiting
    <3> QED  BY <1>1, <1>2, <1>5, <3>1, <3>2, JobGoes
  <2> QED  BY <1>11, <1>12, <2>4, <2>6, <2>7, <2>8 DEF QuietInv
<1> QED  BY <1>14, <1>15

\* A job gives its worker back.
LEMMA JobEnds ==
    ASSUME QuietInv, NEW i \in Items, NEW b \in Batches(i) \cup {0}, Leave(<<i, b>>),
           UNCHANGED <<batches, queue, poolOf>>,
           ~Waiting(i, b), ~Waiting(i, b)', ~Working(i, b)',
           \A k \in Items : \A e \in Batches(k) \cup {0} : <<k, e>> # <<i, b>> =>
              (Waiting(k, e)' <=> Waiting(k, e)) /\ (Working(k, e)' => Working(k, e))
    PROVE  JobInv'
<1>1. Types /\ Counted /\ JobInv  BY Basics
<1>2. \A g \in Pools : running'[g] = running[g] \ {<<i, b>>}  BY <1>1, Left1
<1>3. ASSUME NEW k \in Items, NEW e \in Batches(k) \cup {0}
      PROVE  /\ Waiting(k, e)' <=> Waiting(k, e)
             /\ Working(k, e)' => Working(k, e)
             /\ HomeOf(k, e)' = HomeOf(k, e)
             /\ Working(k, e)' => \A g \in Pools : <<k, e>> \in running[g]
                                                     => <<k, e>> \in running'[g]
  <2>1. HomeOf(k, e)' = HomeOf(k, e)  BY DEF HomeOf
  <2>2. CASE <<k, e>> = <<i, b>>
    <3>1. k = i /\ e = b  BY <2>2
    <3> QED  BY <2>1, <3>1
  <2>3. CASE <<k, e>> # <<i, b>>  BY <1>2, <2>1, <2>3
  <2> QED  BY <2>2, <2>3
<1> QED  BY <1>1, <1>3, JobsStay

\* Rest does not end when jobs only leave.
LEMMA RestStays ==
    ASSUME QuietInv, NEW c \in Callers, call[c] = "returned", UNCHANGED <<queue, poolOf>>,
           \A g \in Pools : running'[g] \subseteq running[g]
    PROVE  Drained(poolOf[c])'
  BY AtRest DEF Drained

LEMMA TaskEnds ==
    ASSUME QuietInv, NEW i \in Items, NEW how \in {"done", "raised"}, End(i, how),
           task[i] \in {"run", "submit"}, AtTask(i)',
           UNCHANGED <<batches, registry, shut, queue, call, poolOf, submitted>>,
           \/ sent' = sent
           \/ batches[i] = 1 /\ task[i] = "run" /\ sent' = [sent EXCEPT ![i][1] = "over"]
    PROVE  QuietInv'
<1>1. /\ Types /\ Counted /\ ShutByOwner /\ JobInv
      /\ (\A c \in Callers : AtCall(c)) /\ (\A k \in Items : AtTask(k))
  BY Basics
<1>2. task' = [task EXCEPT ![i] = how] /\ Leave(<<i, 0>>)  BY DEF End
<1>3. task'[i] = how /\ \A k \in Items \ {i} : task'[k] = task[k]  BY <1>1, <1>2 DEF Types
<1>4. task' \in [Items -> Stages]  BY <1>1, <1>2 DEF Types, Stages
<1>5. /\ running' \in [Pools -> SUBSET Jobs]
      /\ \A g \in Pools : running'[g] = running[g] \ {<<i, 0>>}
      /\ \A g \in Pools : IsFiniteSet(running'[g]) /\ Cardinality(running'[g]) <= Workers
  BY <1>1, <1>2, Left1
<1>6. /\ sent' = [k \in Items |-> sent'[k]]
      /\ \A k \in Items : sent'[k] \in [Batches(k)' -> {"new", "queued", "sending", "over"}]
      /\ \A k \in Items \ {i} : sent'[k] = sent[k]
      /\ \A e \in Batches(i) : sent'[i][e] = sent[i][e]
                               \/ (sent[i][e] = "new" /\ sent'[i][e] = "over")
  <2>1. CASE sent' = sent
    <3>1. \A k : Batches(k)' = Batches(k)  BY DEF Batches
    <3> QED  BY <1>1, <2>1, <3>1 DEF Types
  <2>2. CASE batches[i] = 1 /\ task[i] = "run" /\ sent' = [sent EXCEPT ![i][1] = "over"]
    <3>1. 1 \in Batches(i)  BY <2>2 DEF Batches
    <3>2. /\ sent'[i][1] = "over" /\ \A e \in Batches(i) \ {1} : sent'[i][e] = sent[i][e]
          /\ \A k \in Items \ {i} : sent'[k] = sent[k]
          /\ sent' = [k \in Items |-> sent'[k]]
          /\ \A k \in Items : sent'[k] \in [Batches(k)' -> {"new", "queued", "sending", "over"}]
      BY <1>1, <2>2, <3>1, SentIs
    <3>3. submitted[i] = 0  BY <1>1, <2>2 DEF AtTask
    <3>4. sent[i][1] = "new"  BY <1>1, <2>2, <3>1, <3>3 DEF AtTask
    <3> QED  BY <3>2, <3>4
  <2> QED  BY <2>1, <2>2
<1>7. Jobs' = Jobs /\ \A k : Batches(k)' = Batches(k)  BY DEF Jobs, Batches
<1>8. Types'  BY <1>1, <1>4, <1>5, <1>6, <1>7 DEF Types, registry
<1>9. Counted'
  <2>1. Poolless' = Poolless /\ made' = made  BY DEF Poolless, registry
  <2> QED  BY <1>1, <1>5, <2>1 DEF Counted
<1>10. ShutByOwner'  BY <1>1, OwnersStay
<1>11. \A c \in Callers : Left(c)' = Left(c)  BY <1>3, LeftIs
<1>12. \A c \in Callers : call[c] = "returned" => Drained(poolOf[c])'  BY <1>5, RestStays
<1>13. \A c \in Callers : AtCall(c)'  BY <1>1, <1>11, <1>12, CallStays
<1>14. ASSUME NEW k \in Items PROVE AtTask(k)'
  <2>1. CASE k = i  BY <2>1
  <2>2. CASE k # i  BY <1>1, <1>3, <1>6, <2>2, TaskStays
  <2> QED  BY <2>1, <2>2
<1>15. JobInv'
  <2>1. ASSUME NEW k \in Items, NEW e \in Batches(k) \cup {0}, <<k, e>> # <<i, 0>>
        PROVE  (Waiting(k, e)' <=> Waiting(k, e)) /\ (Working(k, e)' => Working(k, e))
    <3>1. CASE e = 0
      <4>1. k # i  BY <2>1, <3>1
      <4> QED  BY <1>3, <3>1, <4>1 DEF Waiting, Working
    <3>2. CASE e # 0
      <4>1. e \in Batches(k)  BY <3>2
      <4>2. sent'[k][e] = sent[k][e] \/ (sent[k][e] = "new" /\ sent'[k][e] = "over")
        BY <1>6, <4>1
      <4> QED  BY <3>2, <4>2 DEF Waiting, Working
    <3> QED  BY <3>1, <3>2
  <2>2. ~Waiting(i, 0) /\ ~Waiting(i, 0)' /\ ~Working(i, 0)'  BY <1>3 DEF Waiting, Working
  <2>3. 0 \in Batches(i) \cup {0}  OBVIOUS
  <2> QED  BY <1>2, <2>1, <2>2, <2>3, JobEnds
<1> QED  BY <1>8, <1>9, <1>10, <1>13, <1>14, <1>15 DEF QuietInv

LEMMA JobOver ==
    ASSUME QuietInv, NEW i \in Items, Unreadable(i) \/ Single(i) \/ Collect(i)
    PROVE  QuietInv'
<1>1. /\ Types /\ AtTask(i) /\ \A k : Batches(k)' = Batches(k)
      /\ UNCHANGED <<batches, registry, shut, queue, call, poolOf, submitted>>
  BY Basics DEF Unreadable, Single, Collect, Batches
<1>2. CASE Unreadable(i)
  <2>1. task[i] = "run" /\ End(i, "raised") /\ sent' = sent  BY <1>2 DEF Unreadable
  <2>2. task'[i] = "raised"  BY <1>1, <2>1 DEF End, Types
  <2>3. AtTask(i)'  BY <1>1, <2>1, <2>2 DEF AtTask
  <2> QED  BY <1>1, <2>1, <2>3, TaskEnds
<1>3. CASE Single(i)
  <2>1. /\ task[i] = "run" /\ batches[i] = 1 /\ sent' = [sent EXCEPT ![i][1] = "over"]
        /\ End(i, "done")
    BY <1>3 DEF Single
  <2>2. task'[i] = "done"  BY <1>1, <2>1 DEF End, Types
  <2>3. Batches(i) = {1}  BY <2>1 DEF Batches
  <2>4. sent'[i][1] = "over"
    <3>1. 1 \in Batches(i) /\ batches' = batches /\ Types  BY <1>1, <2>3
    <3>2. 1 \in DOMAIN sent[i] /\ i \in DOMAIN sent  BY <3>1 DEF Types
    <3>3. sent'[i] = [sent[i] EXCEPT ![1] = "over"]  BY <2>1, <3>2
    <3> QED  BY <3>2, <3>3
  <2>5. AtTask(i)'  BY <1>1, <2>1, <2>2, <2>3, <2>4 DEF AtTask, NoneMissing
  <2> QED  BY <1>1, <2>1, <2>5, TaskEnds
<1>4. CASE Collect(i)
  <2>1. task[i] = "submit" /\ NoneMissing(i) /\ End(i, "done") /\ sent' = sent
    BY <1>4 DEF Collect, AllOver
  <2>2. task'[i] = "done"  BY <1>1, <2>1 DEF End, Types
  <2>3. NoneMissing(i)'  BY <1>1, <2>1 DEF NoneMissing
  <2>4. AtTask(i)'  BY <1>1, <2>1, <2>2, <2>3 DEF AtTask
  <2> QED  BY <1>1, <2>1, <2>4, TaskEnds
<1> QED  BY <1>2, <1>3, <1>4

LEMMA GetPoolAgainStep == ASSUME QuietInv, NEW i \in Items, GetPoolAgain(i) PROVE QuietInv'
<1>1. /\ Types /\ Counted /\ ShutByOwner /\ JobInv /\ i \in Users /\ made \in Nat
      /\ (\A c \in Callers : AtCall(c)) /\ (\A k \in Items : AtTask(k))
      /\ Items \subseteq Users /\ Callers \subseteq Users
      /\ \A k \in Items : CallerOf[k] \in Callers \ {i}
      /\ \A c \in Callers : c # i
  <2>1. Types  BY Basics
  <2>2. made \in Nat  BY <2>1, PoolsAre DEF Types
  <2> QED  BY <2>2, Basics
<1>2. /\ UNCHANGED <<batches, shut, queue, running, call, submitted, sent>>
      /\ task[i] \in {"run", "make"}
  BY DEF GetPoolAgain
<1>3. /\ poolOf[i] = 0 /\ submitted[i] = 0 /\ \A b \in Batches(i) : sent[i][b] = "new"
  <2>1. poolOf[i] = 0 /\ submitted[i] = 0  BY <1>1, <1>2 DEF AtTask
  <2>2. \A b \in Batches(i) : b > submitted[i]  BY <2>1 DEF Batches
  <2> QED  BY <1>1, <1>2, <2>1, <2>2 DEF AtTask
<1>4. PICK s \in {"make", "submit"} : task' = [task EXCEPT ![i] = s]
  BY DEF GetPoolAgain
<1>5. task'[i] = s /\ \A k \in Items \ {i} : task'[k] = task[k]  BY <1>1, <1>4 DEF Types
<1>6. task' \in [Items -> Stages]  BY <1>1, <1>4 DEF Types, Stages
<1>7. \A c \in Callers : Left(c)' = Left(c)  BY <1>2, <1>5, LeftIs
<1>8. Jobs' = Jobs /\ \A k : Batches(k)' = Batches(k)  BY <1>2 DEF Jobs, Batches
<1>9. /\ made' \in Pools /\ current' \in 1..made' /\ shut \subseteq 1..made'
      /\ poolOf' \in [Users -> 0..made'] /\ Counted' /\ ShutByOwner'
      /\ \A v \in Users \ {i} : poolOf'[v] = poolOf[v]
      /\ s = "make" => poolOf'[i] = 0
      /\ s = "submit" => poolOf'[i] # 0
  <2>1. CASE s = "submit"
    <3>1. \/ Hands(i) /\ UNCHANGED registry
          \/ Replaces(i)
      BY <1>1, <1>4, <1>5, <2>1 DEF GetPoolAgain, Types
    <3>2. PICK g \in 1..made' : /\ g \notin shut /\ poolOf' = [poolOf EXCEPT ![i] = g]
                                /\ made' = made \/ made' = made + 1
                                /\ current' \in 1..made'
      <4>1. CASE Hands(i) /\ UNCHANGED registry
        BY <1>1, <4>1 DEF Hands, registry, Types
      <4>2. CASE Replaces(i)
        <5>1. shut \subseteq 1..made  BY <1>1 DEF Types
        <5>2. made' = made + 1 /\ current' = made + 1 /\ poolOf' = [poolOf EXCEPT ![i] = made + 1]
          BY <4>2 DEF Replaces
        <5>3. made + 1 \notin shut /\ made + 1 \in 1..made' /\ current' \in 1..made'
          BY <1>1, <5>1, <5>2
        <5> QED  BY <5>2, <5>3
      <4> QED  BY <3>1, <4>1, <4>2
    <3>3. /\ made' \in Pools /\ shut \subseteq 1..made' /\ poolOf' \in [Users -> 0..made']
          /\ poolOf'[i] = g /\ \A v \in Users \ {i} : poolOf'[v] = poolOf[v]
          /\ Counted' /\ ShutByOwner'
      BY <1>1, <1>2, <1>3, <3>2, Handed
    <3> QED  BY <2>1, <3>2, <3>3
  <2>2. CASE s = "make"
    <3>1. UNCHANGED <<registry, poolOf>>
      BY <1>1, <1>4, <1>5, <2>2 DEF GetPoolAgain, Types
    <3>2. Counted' /\ ShutByOwner'
      BY <1>1, <1>2, <3>1, OwnersStay, PoollessStay DEF registry
    <3> QED  BY <1>1, <1>2, <1>3, <2>2, <3>1, <3>2 DEF registry, Types
  <2> QED  BY <2>1, <2>2
<1>10. Types'  BY <1>1, <1>2, <1>6, <1>8, <1>9 DEF Types
<1>11. ASSUME NEW c \in Callers PROVE AtCall(c)'
  <2>1. poolOf'[c] = poolOf[c]  BY <1>1, <1>9
  <2> QED  BY <1>1, <1>2, <1>7, <2>1, CallStays DEF Drained
<1>12. ASSUME NEW k \in Items PROVE AtTask(k)'
  <2>1. poolOf'[CallerOf[k]] = poolOf[CallerOf[k]]  BY <1>1, <1>9
  <2>2. CASE k = i
    BY <1>1, <1>2, <1>3, <1>5, <1>8, <1>9, <2>1, <2>2 DEF AtTask
  <2>3. CASE k # i
    <3>1. poolOf'[k] = poolOf[k]  BY <1>1, <1>9, <2>3
    <3> QED  BY <1>1, <1>2, <1>5, <2>1, <2>3, <3>1, TaskStays
  <2> QED  BY <2>2, <2>3
<1>13. JobInv'
  <2>1. ASSUME NEW k \in Items, NEW b \in Batches(k) \cup {0}
        PROVE  /\ Waiting(k, b)' <=> Waiting(k, b)
               /\ Working(k, b)' => Working(k, b)
               /\ Waiting(k, b) \/ Working(k, b)' => HomeOf(k, b)' = HomeOf(k, b)
    <3>1. CASE b = 0
      <4>1. poolOf'[CallerOf[k]] = poolOf[CallerOf[k]]  BY <1>1, <1>9
      <4>2. HomeOf(k, b)' = HomeOf(k, b)  BY <3>1, <4>1 DEF HomeOf
      <4>3. CASE k = i
        <5>1. task'[k] # "queued" /\ task[k] # "queued"
          BY <1>2, <1>5, <4>3
        <5>2. task[k] \in {"run", "make", "submit"}  BY <1>2, <4>3
        <5> QED  BY <3>1, <4>2, <5>1, <5>2 DEF Waiting, Working
      <4>4. CASE k # i
        <5>1. task'[k] = task[k]  BY <1>5, <4>4
        <5> QED  BY <3>1, <4>2, <5>1 DEF Waiting, Working
      <4> QED  BY <4>3, <4>4
    <3>2. CASE b # 0
      <4>1. (Waiting(k, b)' <=> Waiting(k, b)) /\ (Working(k, b)' <=> Working(k, b))
        BY <1>2, <3>2 DEF Waiting, Working
      <4>2. CASE k = i
        <5>1. ~Waiting(k, b) /\ ~Working(k, b)  BY <1>3, <3>2, <4>2 DEF Waiting, Working
        <5> QED  BY <4>1, <5>1
      <4>3. CASE k # i
        <5>1. poolOf'[k] = poolOf[k]  BY <1>1, <1>9, <4>3
        <5>2. HomeOf(k, b)' = HomeOf(k, b)  BY <3>2, <5>1 DEF HomeOf
        <5> QED  BY <4>1, <5>2
      <4> QED  BY <4>2, <4>3
    <3> QED  BY <3>1, <3>2
  <2> QED  BY <1>1, <1>2, <2>1, JobsStay
<1> QED  BY <1>9, <1>10, <1>11, <1>12, <1>13 DEF QuietInv

LEMMA SubmitBatchStep == ASSUME QuietInv, NEW i \in Items, SubmitBatch(i) PROVE QuietInv'
<1>1. /\ Types /\ Counted /\ ShutByOwner /\ JobInv
      /\ (\A c \in Callers : AtCall(c)) /\ (\A k \in Items : AtTask(k))
  BY Basics
<1>2. /\ UNCHANGED <<batches, registry, shut, call, poolOf>> /\ task[i] = "submit"
      /\ submitted[i] < batches[i] /\ \A k : Batches(k)' = Batches(k) /\ Jobs' = Jobs
  BY DEF SubmitBatch, Batches, Jobs
<1>3. poolOf[i] \in Pools
  <2>1. poolOf[i] # 0  BY <1>1, <1>2 DEF AtTask
  <2> QED  BY <2>1, Basics
<1>4. CASE poolOf[i] \in shut
  <2>1. End(i, "raised") /\ UNCHANGED <<queue, submitted, sent>>
    BY <1>4 DEF SubmitBatch, Accepts
  <2>2. task'[i] = "raised"  BY <1>1, <2>1 DEF End, Types
  <2>3. AtTask(i)'  BY <1>1, <1>2, <1>4, <2>1, <2>2 DEF AtTask
  <2> QED  BY <1>2, <2>1, <2>3, TaskEnds
<1>5. CASE poolOf[i] \notin shut
  <2> DEFINE d == submitted[i] + 1
  <2>1. d \in Batches(i) /\ d \in Nat \ {0} /\ submitted[i] \in Nat /\ batches[i] \in Nat
    <3>1. submitted[i] \in Nat  BY <1>1 DEF Types
    <3>2. batches[i] \in Nat  BY <1>1, JobIs
    <3> QED  BY <1>2, <3>1, <3>2 DEF Batches
  <2>2. PICK e \in Batches(i) : e = submitted[i] + 1  BY <2>1
  <2> HIDE DEF d
  <2>3. /\ Enqueue(poolOf[i], <<i, e>>) /\ submitted' = [submitted EXCEPT ![i] = e]
        /\ sent' = [sent EXCEPT ![i][e] = "queued"] /\ UNCHANGED <<task, running>>
    BY <1>5, <2>2 DEF SubmitBatch, Accepts
  <2>4. sent[i][e] = "new"
    <3>1. e > submitted[i]  BY <2>1, <2>2
    <3> QED  BY <1>1, <1>2, <3>1 DEF AtTask
  <2>5. /\ sent'[i][e] = "queued" /\ \A b \in Batches(i) \ {e} : sent'[i][b] = sent[i][b]
        /\ \A k \in Items \ {i} : sent'[k] = sent[k]
        /\ sent' = [k \in Items |-> sent'[k]]
        /\ \A k \in Items : sent'[k] \in [Batches(k)' -> {"new", "queued", "sending", "over"}]
    BY <1>1, <1>2, <2>3, SentIs
  <2>6. /\ submitted' \in [Items -> Nat] /\ \A k \in Items : submitted'[k] <= batches[k]
        /\ submitted'[i] = e /\ \A k \in Items \ {i} : submitted'[k] = submitted[k]
    <3>1. e \in Nat /\ e <= batches[i]  BY <2>1, <2>2, <1>2
    <3> QED  BY <1>1, <2>3, <3>1 DEF Types
  <2>7. /\ queue' \in [Pools -> Seq(Jobs)]
        /\ \A g \in Pools \ {poolOf[i]} : queue'[g] = queue[g]
    <3>1. <<i, e>> \in Jobs  BY <1>1, JobIs
    <3>2. queue \in [Pools -> Seq(Jobs)] /\ queue[poolOf[i]] \in Seq(Jobs)
      BY <1>1, <1>3 DEF Types
    <3>3. Append(queue[poolOf[i]], <<i, e>>) \in Seq(Jobs)  BY <3>1, <3>2, Appended
    <3>4. queue' = [queue EXCEPT ![poolOf[i]] = Append(queue[poolOf[i]], <<i, e>>)]
      BY <2>3 DEF Enqueue
    <3> QED  BY <1>3, <3>2, <3>3, <3>4
  <2>8. Types'  BY <1>1, <1>2, <2>3, <2>5, <2>6, <2>7 DEF Types, registry
  <2>9. Counted' /\ ShutByOwner'
    BY <1>1, <1>2, <2>3, OwnersStay, PoollessStay DEF registry
  <2>10. ASSUME NEW c \in Callers PROVE AtCall(c)'
    <3>1. Left(c)' = Left(c)  BY <2>3, LeftIs
    <3>2. call[c] = "returned" => Drained(poolOf[c])'
      <4>1. ASSUME call[c] = "returned" PROVE Drained(poolOf[c])'
        <5>1. /\ poolOf[c] \in Pools \ {poolOf[i]} /\ queue[poolOf[c]] = <<>>
              /\ running[poolOf[c]] = {}
          BY <1>5, <4>1, AtRest
        <5> QED  BY <1>2, <2>3, <2>7, <5>1 DEF Drained
      <4> QED  BY <4>1
    <3> QED  BY <1>1, <1>2, <3>1, <3>2, CallStays
  <2>11. ASSUME NEW k \in Items PROVE AtTask(k)'
    <3>1. CASE k = i
      <4>1. \A b \in Batches(i) : b > e => b > submitted[i] /\ b # e
        BY <2>1, <2>2 DEF Batches
      <4>2. \A b \in Batches(i) : b > e => sent'[i][b] = "new"
        BY <1>1, <1>2, <2>5, <4>1 DEF AtTask
      <4> QED  BY <1>1, <1>2, <2>3, <2>6, <3>1, <4>2 DEF AtTask
    <3>2. CASE k # i
      BY <1>1, <1>2, <2>3, <2>5, <2>6, <3>2, TaskStays
    <3> QED  BY <3>1, <3>2
  <2>12. JobInv'
    <3>1. ASSUME NEW k \in Items, NEW b \in Batches(k) \cup {0}, <<k, b>> # <<i, e>>
          PROVE  /\ Waiting(k, b)' <=> Waiting(k, b)
                 /\ Working(k, b)' => Working(k, b)
                 /\ HomeOf(k, b)' = HomeOf(k, b)
      <4>1. b # 0 => sent'[k][b] = sent[k][b]  BY <2>5, <3>1
      <4> QED  BY <1>2, <2>3, <4>1 DEF Waiting, Working, HomeOf
    <3>2. e # 0  BY <2>1, <2>2
    <3>3. ~Waiting(i, e) /\ Waiting(i, e)' /\ ~Working(i, e)'
      BY <2>4, <2>5, <3>2 DEF Waiting, Working
    <3>4. HomeOf(i, e)' = poolOf[i]  BY <1>2, <3>2 DEF HomeOf
    <3>5. running' = running /\ batches' = batches /\ e \in Batches(i) \cup {0}
      BY <1>2, <2>3
    <3> QED  BY <1>1, <1>3, <2>3, <3>1, <3>3, <3>4, <3>5, JobComes
  <2> QED  BY <2>8, <2>9, <2>10, <2>11, <2>12 DEF QuietInv
<1> QED  BY <1>4, <1>5

LEMMA SendBatchStep ==
    ASSUME QuietInv, NEW i \in Items, NEW b \in Batches(i), SendBatch(i, b) PROVE QuietInv'
<1>1. /\ Types /\ Counted /\ ShutByOwner /\ JobInv /\ b # 0
      /\ (\A c \in Callers : AtCall(c)) /\ (\A k \in Items : AtTask(k))
  BY Basics, JobIs
<1>2. /\ UNCHANGED <<batches, registry, shut, queue, call, poolOf, task, submitted>>
      /\ sent[i][b] = "sending" /\ sent' = [sent EXCEPT ![i][b] = "over"] /\ Leave(<<i, b>>)
      /\ \A k : Batches(k)' = Batches(k) /\ Jobs' = Jobs
  BY DEF SendBatch, Batches, Jobs
<1>3. /\ sent'[i][b] = "over" /\ \A e \in Batches(i) \ {b} : sent'[i][e] = sent[i][e]
      /\ \A k \in Items \ {i} : sent'[k] = sent[k]
      /\ sent' = [k \in Items |-> sent'[k]]
      /\ \A k \in Items : sent'[k] \in [Batches(k)' -> {"new", "queued", "sending", "over"}]
  BY <1>1, <1>2, SentIs
<1>4. /\ running' \in [Pools -> SUBSET Jobs]
      /\ \A g \in Pools : running'[g] = running[g] \ {<<i, b>>}
      /\ \A g \in Pools : IsFiniteSet(running'[g]) /\ Cardinality(running'[g]) <= Workers
  BY <1>1, <1>2, Left1
<1>5. Types'  BY <1>1, <1>2, <1>3, <1>4 DEF Types, registry
<1>6. Counted'
  <2>1. Poolless' = Poolless /\ made' = made  BY <1>2 DEF Poolless, registry
  <2> QED  BY <1>1, <1>4, <2>1 DEF Counted
<1>7. ShutByOwner'  BY <1>1, <1>2, OwnersStay
<1>8. \A c \in Callers : Left(c)' = Left(c)  BY <1>2, LeftIs
<1>9. \A c \in Callers : call[c] = "returned" => Drained(poolOf[c])'  BY <1>2, <1>4, RestStays
<1>10. \A c \in Callers : AtCall(c)'  BY <1>1, <1>2, <1>8, <1>9, CallStays
<1>11. ASSUME NEW k \in Items PROVE AtTask(k)'
  <2>1. CASE k = i
    <3>1. task[i] # "done" /\ ~(b > submitted[i])  BY <1>1, <1>2, OnItsWay
    <3> QED  BY <1>1, <1>2, <1>3, <2>1, <3>1 DEF AtTask
  <2>2. CASE k # i  BY <1>1, <1>2, <1>3, <2>2, TaskStays
  <2> QED  BY <2>1, <2>2
<1>12. JobInv'
  <2>1. ASSUME NEW k \in Items, NEW e \in Batches(k) \cup {0}, <<k, e>> # <<i, b>>
        PROVE  (Waiting(k, e)' <=> Waiting(k, e)) /\ (Working(k, e)' => Working(k, e))
    <3>1. e # 0 => sent'[k][e] = sent[k][e]  BY <1>3, <2>1
    <3> QED  BY <1>2, <3>1 DEF Waiting, Working
  <2>2. ~Waiting(i, b) /\ ~Waiting(i, b)' /\ ~Working(i, b)'
    BY <1>1, <1>2, <1>3 DEF Waiting, Working
  <2>3. b \in Batches(i) \cup {0}  OBVIOUS
  <2> QED  BY <1>2, <2>1, <2>2, <2>3, JobEnds
<1> QED  BY <1>5, <1>6, <1>7, <1>10, <1>11, <1>12 DEF QuietInv
-----------------------------------------------------------------------------
(* The theorems about AnnotationPool. *)

LEMMA InitQuiet == Init => QuietInv
<1> SUFFICES ASSUME Init PROVE QuietInv  OBVIOUS
<1>1. \A i \in Items : batches[i] \in Nat \ {0}  BY PoolAssumption DEF Init
<1>2. \A u \in Users : poolOf[u] = 0  BY DEF Init
<1>3. 1 \in Pools /\ N \in Nat  BY PoolsAre
<1>4. Types
  <2>1. queue \in [Pools -> Seq(Jobs)] /\ running \in [Pools -> SUBSET Jobs]  BY DEF Init
  <2>2. submitted \in [Items -> Nat] /\ \A i \in Items : submitted[i] <= batches[i]
    BY <1>1 DEF Init
  <2>3. sent = [i \in Items |-> sent[i]]
        /\ \A i \in Items : sent[i] \in [Batches(i) -> {"new", "queued", "sending", "over"}]
    BY DEF Init
  <2>4. shut \subseteq 1..made /\ current \in 1..made /\ made \in Pools  BY <1>3 DEF Init
  <2>5. poolOf \in [Users -> 0..made]  BY DEF Init
  <2> QED  BY <2>1, <2>2, <2>3, <2>4, <2>5 DEF Init, Types, Labels, Stages
<1>5. Counted
  <2>1. Poolless = Users  BY <1>2 DEF Poolless
  <2>2. made + Cardinality(Poolless) <= Cardinality(Users) + 1
    BY <2>1, PoolsAre DEF Init
  <2>3. \A g \in Pools : running[g] = {}  BY DEF Init
  <2>4. \A g \in Pools : IsFiniteSet(running[g]) /\ Cardinality(running[g]) <= Workers
    <3>1. Cardinality({}) = 0 /\ IsFiniteSet({}) /\ 0 <= Workers  BY PoolsAre, FS_EmptySet
    <3> QED  BY <2>3, <3>1, Zenon
  <2> QED  BY <2>2, <2>4 DEF Counted
<1>6. ShutByOwner
  <2>1. 0 \notin shut  BY DEF Init
  <2> QED  BY <1>2, <2>1 DEF ShutByOwner
<1>7. \A g \in Pools : Len(queue[g]) = 0  BY DEF Init
<1>8. JobInv
  <2>1. Once  BY <1>7 DEF Once
  <2>2. ASSUME NEW i \in Items, NEW b \in Batches(i) \cup {0} PROVE AtHome(i, b)
    <3>1. \A g \in Pools : ~InQueue(g, <<i, b>>)  BY <1>7 DEF InQueue
    <3>2. ~Waiting(i, b) /\ ~Working(i, b)  BY DEF Init, Waiting, Working
    <3> QED  BY <3>1, <3>2 DEF AtHome
  <2> QED  BY <2>1, <2>2 DEF JobInv
<1>9. \A c \in Callers : AtCall(c)
  <2>1. \A c \in Callers : Left(c) = Mine(c)  BY DEF Init, Left, Mine
  <2>2. \A c \in Callers : call[c] = "start" /\ c \in Users  BY DEF Init, Users
  <2> QED  BY <1>2, <2>1, <2>2 DEF AtCall
<1>10. \A i \in Items : AtTask(i)  BY <1>2 DEF Init, AtTask, Users
<1> QED  BY <1>4, <1>5, <1>6, <1>8, <1>9, <1>10 DEF QuietInv

LEMMA StutterStep == ASSUME QuietInv, UNCHANGED vars PROVE QuietInv'
<1>1. UNCHANGED <<batches, current, made, shut, queue, running, call, poolOf, task, submitted, sent>>
  BY DEF vars
<1>2. \A i : Batches(i)' = Batches(i)  BY <1>1 DEF Batches
<1>3. Types'  BY <1>1, <1>2 DEF QuietInv, Types, Jobs
<1>4. Counted' /\ ShutByOwner'  BY <1>1, OwnersStay, PoollessStay DEF QuietInv
<1>5. \A c \in Callers : AtCall(c)'
  BY <1>1, Basics, LeftIs, CallStays DEF Drained
<1>6. \A i \in Items : AtTask(i)'  BY <1>1, Basics, TaskStays
<1>7. JobInv'  BY <1>1, Basics, JobsStay DEF Waiting, Working, HomeOf
<1> QED  BY <1>3, <1>4, <1>5, <1>6, <1>7 DEF QuietInv

LEMMA NextQuiet == QuietInv /\ [Next]_vars => QuietInv'
<1> SUFFICES ASSUME QuietInv, [Next]_vars PROVE QuietInv'  OBVIOUS
<1>1. ASSUME NEW c \in Callers, Caller(c) PROVE QuietInv'
  BY <1>1, GetPoolStep, SubmitItemStep, CallerEnds DEF Caller
<1>2. ASSUME NEW i \in Items, Task(i) PROVE QuietInv'
  BY <1>2, JobOver, GetPoolAgainStep, SubmitBatchStep DEF Task
<1>3. ASSUME NEW i \in Items, NEW b \in Batches(i), SendBatch(i, b) PROVE QuietInv'
  BY <1>3, SendBatchStep
<1>4. ASSUME Done PROVE QuietInv'  BY <1>4, StutterStep DEF Done
<1> QED  BY <1>1, <1>2, <1>3, <1>4, TakeStep, StutterStep DEF Next

LEMMA QuietAlways == Spec => []QuietInv
  BY InitQuiet, NextQuiet, PTL DEF Spec

\* Every variable has its type, and no pool has more jobs at work than it has threads: the
\* numbers of the pools made are no more than the callers and the jobs can use up.
THEOREM PoolTypes == Spec => []TypeOK
<1>1. QuietInv => TypeOK
  <2> SUFFICES ASSUME QuietInv PROVE TypeOK  OBVIOUS
  <2>1. Types /\ Counted  BY Basics
  <2>2. made \in Pools /\ made \in Nat /\ current \in 1..made /\ shut \subseteq Pools
        /\ poolOf \in [Users -> 0..made]
    BY <2>1, Basics, PoolsAre DEF Types
  <2>3. 1..made \subseteq Pools  BY <2>2, PoolsAre
  <2>4. current \in Pools /\ poolOf \in [Users -> Pools \cup {0}]
    <3>1. \A k \in 0..made : k \in Pools \cup {0}  BY <2>2, <2>3
    <3> QED  BY <2>2, <2>3, <3>1
  <2>5. \A i \in Items : submitted[i] \in 0..batches[i]
    <3>1. \A i \in Items : batches[i] \in Nat  BY <2>1, JobIs
    <3> QED  BY <2>1, <3>1 DEF Types
  <2>6. \A g \in Pools : Cardinality(running[g]) <= Workers  BY <2>1 DEF Counted
  <2> QED  BY <2>1, <2>2, <2>4, <2>5, <2>6 DEF Types, TypeOK, Labels, Stages
<1> QED  BY <1>1, QuietAlways, PTL

\* When upload_annotations returns, the job of every item it counted is over, and no batch
\* of those items is still on its way, unless the item's job was handed a pool that another
\* call uses and shuts down.
THEOREM PoolReturnIsQuiet == Spec => []ReturnIsQuiet
<1>1. QuietInv => ReturnIsQuiet
  <2> SUFFICES ASSUME QuietInv, NEW c \in Callers, call[c] = "returned", NEW i \in Mine(c)
               PROVE  /\ task[i] \in {"done", "raised"}
                      /\ Resting(i) \/ \E d \in Callers \ {c} : poolOf[d] = poolOf[i]
    BY DEF ReturnIsQuiet
  <2>1. /\ Types /\ JobInv /\ AtCall(c) /\ AtTask(i) /\ ShutByOwner
        /\ i \in Items /\ i \in Users /\ CallerOf[i] = c
    BY Basics DEF Mine
  <2>2. /\ poolOf[c] \in Pools /\ queue[poolOf[c]] = <<>> /\ running[poolOf[c]] = {}
    BY AtRest
  <2>3. \A x : ~InQueue(poolOf[c], x)
    <3>1. Len(queue[poolOf[c]]) = 0  BY <2>2
    <3> QED  BY <3>1 DEF InQueue
  <2>4. task[i] \in {"done", "raised"}
    <3>1. Left(c) = {}  BY <2>1 DEF AtCall
    <3>2. task[i] # "new"  BY <3>1 DEF Left
    <3>3. AtHome(i, 0) /\ HomeOf(i, 0) = poolOf[c]  BY <2>1 DEF JobInv, HomeOf
    <3>4. ~Waiting(i, 0) /\ ~Working(i, 0)  BY <2>2, <2>3, <3>3 DEF AtHome
    <3>5. task[i] \in Stages  BY <2>1 DEF Types
    <3> QED  BY <3>2, <3>4, <3>5 DEF Waiting, Working, Stages
  <2>5. CASE task[i] = "done"
    <3>1. Resting(i)  BY <2>1, <2>5 DEF AtTask, NoneMissing, Resting
    <3> QED  BY <2>4, <3>1
  <2>6. CASE task[i] = "raised" /\ submitted[i] = 0
    <3>1. \A b \in Batches(i) : sent[i][b] = "new"
      <4>1. \A b \in Batches(i) : b > submitted[i]  BY <2>6 DEF Batches
      <4> QED  BY <2>1, <2>6, <4>1 DEF AtTask
    <3> QED  BY <2>4, <3>1 DEF Resting
  <2>7. CASE task[i] = "raised" /\ poolOf[i] \in shut
    <3>1. PICK d \in Callers : poolOf[d] = poolOf[i]  BY <2>1, <2>7 DEF ShutByOwner
    <3>2. CASE d = c
      <4>1. ASSUME NEW b \in Batches(i) PROVE sent[i][b] \in {"new", "over"}
        <5>1. b # 0 /\ AtHome(i, b)  BY <2>1, JobIs DEF JobInv
        <5>2. HomeOf(i, b) = poolOf[c]  BY <3>1, <3>2, <5>1 DEF HomeOf
        <5>3. ~Waiting(i, b) /\ ~Working(i, b)  BY <2>2, <2>3, <5>1, <5>2 DEF AtHome
        <5>4. sent[i][b] \in {"new", "queued", "sending", "over"}  BY <2>1 DEF Types
        <5> QED  BY <5>1, <5>3, <5>4 DEF Waiting, Working
      <4> QED  BY <2>4, <4>1 DEF Resting
    <3>3. CASE d # c  BY <2>4, <3>1, <3>3
    <3> QED  BY <3>2, <3>3
  <2> QED  BY <2>1, <2>4, <2>5, <2>6, <2>7 DEF AtTask
<1> QED  BY <1>1, QuietAlways, PTL

-----------------------------------------------------------------------------
(***************************************************************************)
(* Theorems about Requests, for any requests, clients and numbers of tries. *)
(***************************************************************************)

\* A session without its adapter is the last one made, and its maker is about to mount
\* the adapter; a sync request past send_session's test finds a session.
SessionInv ==
    /\ \A r \in Requests : pc[r] \in {"make", "mount"} => kind[r] = "sync"
    /\ \A r \in Requests :
          kind[r] = "sync" /\ pc[r] \notin {"start", "make"} => session \in Requests
    /\ session \in Requests => session \in mounted \/ pc[session] = "mount"
    /\ bare \subseteq raced

\* What the service did, and may do yet, was asked of it in a try of its own.
InTry(r) == IF pc[r] = "sent" THEN 1 ELSE 0
TriesOf(r) ==
    /\ applied[r] + flying[r] + InTry(r) <= tries[r]
    /\ tries[r] <= MaxTries(r)
    /\ pc[r] \in {"start", "make", "mount", "send"} => tries[r] < MaxTries(r)
    /\ last[r] = "2xx" => applied[r] > 0
    /\ pc[r] # "end" => told[r] = "none"
    /\ pc[r] = "end" /\ last[r] \in Retried(r) => tries[r] = MaxTries(r) \/ r \in bare
TriesInv == \A r \in Requests : TriesOf(r)

IInv == RqTypeOK /\ SessionInv /\ TriesInv

\* Every client tries at least once.
LEMMA MaxTriesPositive ==
    ASSUME kind \in Mixes, NEW r \in Requests
    PROVE  MaxTries(r) \in Nat /\ MaxTries(r) > 0
<1>1. kind[r] \in Kinds
    BY RequestsAssumption
<1> QED
    BY <1>1, RequestsAssumption DEF MaxTries, Kinds

\* The invariant holds at first.
LEMMA InitInv == RqInit => IInv
<1> SUFFICES ASSUME RqInit PROVE IInv
    OBVIOUS
<1>1. RqTypeOK
    BY DEF RqInit, RqTypeOK, NoSession, Statuses, Exceptions
<1>2. SessionInv
    BY RequestsAssumption DEF RqInit, SessionInv, NoSession
<1>3. ASSUME NEW r \in Requests PROVE TriesOf(r)
    <2>1. MaxTries(r) \in Nat /\ MaxTries(r) > 0
        BY MaxTriesPositive DEF RqInit
    <2>2. /\ applied[r] = 0 /\ flying[r] = 0 /\ tries[r] = 0
          /\ pc[r] = "start" /\ last[r] = "none" /\ told[r] = "none"
        BY DEF RqInit
    <2> QED
        BY <2>1, <2>2 DEF TriesOf, InTry
<1> QED
    BY <1>1, <1>2, <1>3 DEF IInv, TriesInv

\* Every step keeps the types.
LEMMA NextType == RqTypeOK /\ [RqNext]_rqvars => RqTypeOK'
<1> SUFFICES ASSUME RqTypeOK, [RqNext]_rqvars PROVE RqTypeOK'
    OBVIOUS
<1> USE DEF RqTypeOK, Goto, Traffic
<1>1. CASE UNCHANGED rqvars
    BY <1>1 DEF rqvars
<1>2. ASSUME NEW r \in Requests, Arrive(r) PROVE RqTypeOK'
    BY <1>2 DEF Arrive
<1>3. ASSUME NEW r \in Requests, Step(r) PROVE RqTypeOK'
    <2>1. CASE CheckSession(r)
        BY <2>1 DEF CheckSession
    <2>2. CASE MakeSession(r)
        BY <2>2 DEF MakeSession
    <2>3. CASE Mount(r)
        BY <2>3, <1>3 DEF Mount, NoSession
    <2>4. CASE Send(r)
        BY <2>4 DEF Send
    <2>5. CASE Answer(r)
        BY <2>5 DEF Answer, Statuses
    <2>6. CASE NoAnswer(r)
        BY <2>6 DEF NoAnswer, Exceptions
    <2>7. CASE Retry(r)
        BY <2>7 DEF Retry
    <2>8. CASE Respond(r)
        BY <2>8 DEF Respond
    <2>9. CASE Raise(r)
        BY <2>9 DEF Raise
    <2> QED
        BY <1>3, <2>1, <2>2, <2>3, <2>4, <2>5, <2>6, <2>7, <2>8, <2>9 DEF Step
<1> QED
    BY <1>1, <1>2, <1>3 DEF RqNext

\* A session is mounted by the request that made it, or by the one that replaced it.
LEMMA NextSession == IInv /\ [RqNext]_rqvars => SessionInv'
<1> SUFFICES ASSUME IInv, [RqNext]_rqvars PROVE SessionInv'
    OBVIOUS
<1> USE DEF IInv, RqTypeOK, SessionInv, Goto, Traffic, NoSession
<1>1. CASE UNCHANGED rqvars
    BY <1>1 DEF rqvars
<1>2. ASSUME NEW r \in Requests, Arrive(r) PROVE SessionInv'
    BY <1>2 DEF Arrive
<1>3. ASSUME NEW r \in Requests, Step(r) PROVE SessionInv'
    <2>1. CASE CheckSession(r)
        BY <2>1 DEF CheckSession
    <2>2. CASE MakeSession(r)
        BY <2>2 DEF MakeSession
    <2>3. CASE Mount(r)
        BY <2>3 DEF Mount
    <2>4. CASE Send(r)
        BY <2>4 DEF Send
    <2>5. CASE Answer(r)
        BY <2>5 DEF Answer
    <2>6. CASE NoAnswer(r)
        BY <2>6 DEF NoAnswer
    <2>7. CASE Retry(r)
        BY <2>7 DEF Retry
    <2>8. CASE Respond(r)
        BY <2>8 DEF Respond
    <2>9. CASE Raise(r)
        BY <2>9 DEF Raise
    <2> QED
        BY <1>3, <2>1, <2>2, <2>3, <2>4, <2>5, <2>6, <2>7, <2>8, <2>9 DEF Step
<1> QED
    BY <1>1, <1>2, <1>3 DEF RqNext

\* A step of one request leaves the tries of the others alone; only its retries need
\* room below the limit.
LEMMA NextTries == IInv /\ [RqNext]_rqvars => TriesInv'
<1> SUFFICES ASSUME IInv, [RqNext]_rqvars, NEW q \in Requests
             PROVE  TriesOf(q)'
    BY DEF TriesInv
<1>0. kind' = kind /\ MaxTries(q)' = MaxTries(q) /\ Retried(q)' = Retried(q)
    <2>1. kind' = kind
        BY DEF RqNext, Step, Arrive, CheckSession, MakeSession, Mount, Send, Answer, NoAnswer, Retry,
               Respond, Raise, rqvars
    <2> QED
        BY <2>1 DEF MaxTries, Retried
<1>a. TriesOf(q) /\ MaxTries(q) \in Nat
    BY MaxTriesPositive DEF IInv, TriesInv, RqTypeOK
<1>b. RqTypeOK
    BY DEF IInv
<1> USE <1>0, <1>a, <1>b DEF TriesOf, InTry, Goto, Traffic
<1>1. CASE UNCHANGED rqvars
    BY <1>1 DEF rqvars
<1>2. ASSUME NEW r \in Requests, Arrive(r) PROVE TriesOf(q)'
    BY <1>2 DEF Arrive, RqTypeOK
<1>3. ASSUME NEW r \in Requests, Step(r) PROVE TriesOf(q)'
    <2>1. CASE CheckSession(r)
        BY <2>1 DEF CheckSession, RqTypeOK
    <2>2. CASE MakeSession(r)
        BY <2>2 DEF MakeSession, RqTypeOK
    <2>3. CASE Mount(r)
        BY <2>3 DEF Mount, RqTypeOK
    <2>4. CASE Send(r)
        BY <2>4 DEF Send, RqTypeOK
    <2>5. CASE Answer(r)
        BY <2>5 DEF Answer, RqTypeOK
    <2>6. CASE NoAnswer(r)
        BY <2>6 DEF NoAnswer, RqTypeOK, Exceptions
    <2>7. CASE Retry(r)
        BY <2>7 DEF Retry, TryAgain, TriesLeft, RqTypeOK
    <2>8. CASE Respond(r)
        BY <2>8 DEF Respond, TryAgain, TriesLeft, RqTypeOK
    <2>9. CASE Raise(r)
        BY <2>9 DEF Raise, TryAgain, TriesLeft, RqTypeOK
    <2> QED
        BY <1>3, <2>1, <2>2, <2>3, <2>4, <2>5, <2>6, <2>7, <2>8, <2>9 DEF Step
<1> QED
    BY <1>1, <1>2, <1>3 DEF RqNext

LEMMA Invariance == RqSpec => []IInv
<1>1. IInv /\ [RqNext]_rqvars => IInv'
    BY NextType, NextSession, NextTries DEF IInv
<1> QED
    BY InitInv, <1>1, PTL DEF RqSpec

\* A request gives up on what its client retries only after all its tries, unless it was
\* sent in the moment in which another one had made the session and not mounted the
\* adapter (api_client.py:1203-1221, aihttp_retry.py:46-72).
THEOREM RequestsGiveUpLate == RqSpec => []GivesUpLate
<1>1. IInv => GivesUpLate
    BY DEF IInv, SessionInv, TriesInv, TriesOf, GivesUpLate
<1> QED
    BY Invariance, <1>1, PTL

\* Success is true, the caller is told once, and the service does what was asked at most
\* as often as the client may try: the safety part of AtLeastOnce.
THEOREM RequestsKeepPromise == RqSpec => Promise!Safety
<1>1. RqInit => Promise!Init
    BY MaxTriesPositive DEF RqInit, Promise!Init
<1>2. IInv /\ [RqNext]_rqvars => [Promise!Next]_(Promise!vars)
    <2> SUFFICES ASSUME IInv, [RqNext]_rqvars PROVE [Promise!Next]_(Promise!vars)
        OBVIOUS
    <2>0. /\ kind' = kind
          /\ [r \in Requests |-> MaxTries(r)]' = [r \in Requests |-> MaxTries(r)]
        <3>1. kind' = kind
            BY DEF RqNext, Step, Arrive, CheckSession, MakeSession, Mount, Send, Answer, NoAnswer, Retry,
                   Respond, Raise, rqvars
        <3> QED
            BY <3>1 DEF MaxTries
    <2>1. ASSUME told' = told, applied' = applied PROVE UNCHANGED Promise!vars
        BY <2>0, <2>1 DEF Promise!vars
    <2>2. ASSUME NEW r \in Requests, applied[r] < MaxTries(r), told' = told,
                 applied' = [applied EXCEPT ![r] = @ + 1]
          PROVE  Promise!Next
        BY <2>0, <2>2 DEF Promise!Next, Promise!Apply
    <2>3. ASSUME NEW r \in Requests, NEW result \in {"ok", "refused", "error"},
                 told[r] = "none", result = "ok" => applied[r] > 0,
                 told' = [told EXCEPT ![r] = result], applied' = applied
          PROVE  Promise!Next
        BY <2>0, <2>3 DEF Promise!Next, Promise!Tell, Promise!Results
    <2>a. \A r \in Requests : TriesOf(r) /\ MaxTries(r) \in Nat
        BY MaxTriesPositive DEF IInv, TriesInv, RqTypeOK
    <2>4. CASE UNCHANGED rqvars
        BY <2>1, <2>4 DEF rqvars
    <2>5. ASSUME NEW r \in Requests, Arrive(r) PROVE Promise!Next
        <3>1. applied[r] < MaxTries(r)
            BY <2>a, <2>5 DEF TriesOf, InTry, Arrive, IInv, RqTypeOK
        <3> QED
            BY <2>2, <2>5, <3>1 DEF Arrive
    <2>6. ASSUME NEW r \in Requests, Step(r) PROVE [Promise!Next]_(Promise!vars)
        <3>1. CASE CheckSession(r) \/ MakeSession(r) \/ Mount(r) \/ Send(r) \/ Retry(r)
            BY <2>1, <3>1 DEF CheckSession, MakeSession, Mount, Send, Retry, Traffic
        <3>2. ASSUME NEW done \in {0, 1}, applied' = [applied EXCEPT ![r] = @ + done],
                     told' = told, pc[r] = "sent"
              PROVE  [Promise!Next]_(Promise!vars)
            <4>1. applied[r] < MaxTries(r)
                BY <2>a, <3>2 DEF TriesOf, InTry, IInv, RqTypeOK
            <4>2. CASE done = 0
                BY <2>1, <3>2, <4>2 DEF IInv, RqTypeOK
            <4>3. CASE done = 1
                BY <2>2, <3>2, <4>1, <4>3
            <4> QED
                BY <4>2, <4>3
        <3>3. CASE Answer(r) \/ NoAnswer(r)
            BY <3>2, <3>3 DEF Answer, NoAnswer
        <3>4. CASE Respond(r)
            BY <2>3, <2>a, <3>4 DEF Respond, TriesOf
        <3>5. CASE Raise(r)
            BY <2>3, <2>a, <3>5 DEF Raise, TriesOf
        <3> QED
            BY <2>6, <3>1, <3>3, <3>4, <3>5 DEF Step
    <2> QED
        BY <2>4, <2>5, <2>6 DEF RqNext
<1> QED
    BY Invariance, <1>1, <1>2, PTL DEF RqSpec, Promise!Safety
=============================================================================
