---------------------------- MODULE CookieProofs ----------------------------
(***************************************************************************)
(* Proofs about Cookie, for any number of actors, any programs, any number   *)
(* of tries and of crashes.                                                 *)
(***************************************************************************)
EXTENDS Cookie, SequenceTheorems, TLAPS

\* A try is left until the error is raised.
TryLeft == \A a \in Actors : pc[a] # "raised" => tries[a] < NumTries
TypeInv == TypeOK /\ TryLeft

\* The lock is held by the one who writes; a file that was looked at exists.
Held == \A a \in Actors : pc[a] \in Locking <=> lock = a
Exists == (\E a \in Actors : pc[a] \in {"verify", "write"} \cup Locking)
             => file.kind # "absent"
DamageInv == TypeOK /\ Held /\ Exists /\ DamageNeedsCrash

USE DEF Labels, Ended, Locking


-----------------------------------------------------------------------------
\* Every variable keeps its type (TypeOK), whatever the calls.
THEOREM CookieTypes == Spec => []TypeOK
<1>1. Init => TypeInv
  BY CookieAssumption DEF Init, TypeInv, TypeOK, TryLeft
<1>2. TypeInv /\ [Next]_vars => TypeInv'
  <2> SUFFICES ASSUME TypeInv, [Next]_vars PROVE TypeInv'
    OBVIOUS
  <2> USE CookieAssumption DEF TypeInv, TypeOK, TryLeft, GoTo, Return
  <2>1. ASSUME NEW a \in Actors, Begin(a) PROVE TypeInv'
    BY <2>1 DEF Begin
  <2>2. ASSUME NEW a \in Actors, Check(a) PROVE TypeInv'
    BY <2>2 DEF Check
  <2>3. ASSUME NEW a \in Actors, Open(a) PROVE TypeInv'
    BY <2>3 DEF Open, TakeLock
  <2>4. ASSUME NEW a \in Actors, Close(a) PROVE TypeInv'
    BY <2>4 DEF Close
  <2>5. ASSUME NEW a \in Actors, Verify(a) PROVE TypeInv'
    BY <2>5 DEF Verify
  <2>6. ASSUME NEW a \in Actors, ReadFails(a) PROVE TypeInv'
    BY <2>6 DEF ReadFails, LastTry
  <2>7. ASSUME NEW a \in Actors, Get(a) PROVE TypeInv'
    BY <2>7 DEF Get
  <2>8. ASSUME NEW a \in Actors, ReadForPut(a) PROVE TypeInv'
    BY <2>8 DEF ReadForPut
  <2>9. ASSUME NEW a \in Actors, Crash(a) PROVE TypeInv'
    BY <2>9 DEF Crash, FreesLock
  <2>10. ASSUME NEW a \in Actors, Add(a) PROVE TypeInv'
    BY <2>10 DEF Add
  <2>11. CASE UNCHANGED vars
    BY <2>11 DEF vars, io
  <2>12. ASSUME NEW a \in Actors, LookDir(a) \/ MakeDir(a) PROVE TypeInv'
    BY <2>12 DEF LookDir, MakeDir
  <2> QED
    BY <2>1, <2>2, <2>3, <2>4, <2>5, <2>6, <2>7, <2>8, <2>9, <2>10, <2>11, <2>12
    DEF Next, Step, Done
<1> QED
  BY <1>1, <1>2, PTL DEF Spec, TypeInv

\* The file is damaged only by who holds its lock, or by a crash.
LEMMA DamageInvAlways == Spec => []DamageInv
<1>1. Init => DamageInv
  BY CookieAssumption
  DEF Init, DamageInv, TypeOK, Held, Exists, DamageNeedsCrash
<1>2. TypeOK' /\ DamageInv /\ [Next]_vars => DamageInv'
  <2> SUFFICES ASSUME TypeOK', DamageInv, [Next]_vars PROVE DamageInv'
    OBVIOUS
  <2> USE CookieAssumption
      DEF DamageInv, TypeOK, Held, Exists, DamageNeedsCrash, GoTo, Return
  <2>1. ASSUME NEW a \in Actors, Begin(a) PROVE DamageInv'
    BY <2>1 DEF Begin
  <2>2. ASSUME NEW a \in Actors, Check(a) PROVE DamageInv'
    BY <2>2 DEF Check, SizedFile
  <2>3. ASSUME NEW a \in Actors, Open(a) PROVE DamageInv'
    BY <2>3 DEF Open, TakeLock
  <2>4. ASSUME NEW a \in Actors, Close(a) PROVE DamageInv'
    BY ZenonT(40), <2>4 DEF Close
  <2>5. ASSUME NEW a \in Actors, Verify(a) PROVE DamageInv'
    BY <2>5 DEF Verify
  <2>6. ASSUME NEW a \in Actors, ReadFails(a) PROVE DamageInv'
    BY <2>6 DEF ReadFails
  <2>7. ASSUME NEW a \in Actors, Get(a) PROVE DamageInv'
    BY <2>7 DEF Get
  <2>8. ASSUME NEW a \in Actors, ReadForPut(a) PROVE DamageInv'
    BY <2>8 DEF ReadForPut
  <2>9. ASSUME NEW a \in Actors, Crash(a) PROVE DamageInv'
    BY <2>9 DEF Crash, FreesLock
  <2>10. ASSUME NEW a \in Actors, Add(a) PROVE DamageInv'
    BY <2>10 DEF Add
  <2>11. CASE UNCHANGED vars
    BY <2>11 DEF vars, io
  <2>12. ASSUME NEW a \in Actors, LookDir(a) \/ MakeDir(a) PROVE DamageInv'
    BY <2>12 DEF LookDir, MakeDir
  <2> QED
    BY <2>1, <2>2, <2>3, <2>4, <2>5, <2>6, <2>7, <2>8, <2>9, <2>10, <2>11, <2>12
    DEF Next, Step, Done
<1> QED
  BY <1>1, <1>2, CookieTypes, PTL DEF Spec

\* Without a crash only the holder of the lock has an unreadable file, no reader
\* raises and no start exits (DamageNeedsCrash).
THEOREM CookieDamage == Spec => []DamageNeedsCrash
<1>1. DamageInv => DamageNeedsCrash
  BY DEF DamageInv
<1> QED
  BY <1>1, DamageInvAlways, PTL
LEMMA CookieHeld == Spec => []Held
<1>1. DamageInv => Held
  BY DEF DamageInv
<1> QED
  BY <1>1, DamageInvAlways, PTL
-----------------------------------------------------------------------------
(* What was put stays. *)

Active == {"look", "mkdir", "check", "reset", "resetting", "write", "writing", "verify", "read"}
AnyCall == Given \cup {[op |-> "load"], [op |-> "bump"], [op |-> "init"]}
Counts == [state : {"on", "off"}, number : Nat]

\* What an actor that is in a call is doing there.
AtCall(a) ==
    /\ pc[a] \in Active => todo[a] # <<>> /\ Call(a).op # "add"
    /\ pc[a] = "read" => Call(a).op # "create"
    /\ pc[a] \in {"write", "writing"} => Puts(a)
Locals ==
    /\ todo \in [Actors -> Seq(AnyCall)] /\ base \in [Actors -> Nat]
    /\ count = [a \in Actors |-> count[a]] /\ cfg = [a \in Actors |-> cfg[a]]
    /\ version \in Nat /\ adds \in Nat /\ file = [kind |-> file.kind, cfg |-> file.cfg]
    /\ \A a \in Actors : AtCall(a) /\ base[a] <= version

\* Until a write is based on an old file, the file is what was put last, and so is what
\* is written by whoever saw the last write.
Fresh(a) ==
    base[a] = version =>
      /\ pc[a] \in {"write", "writing"} => cfg[a] = With(last, Key(a), Value(a))
      /\ pc[a] \in {"reset", "resetting"} => last = Empty \/ lock \notin {NoActor, a}
Written ==
    /\ file.kind = "absent" => last = Empty
    /\ Counter \notin DOMAIN last => adds = 0
    /\ \A a \in Actors : pc[a] \in {"reset", "resetting"} => cfg[a] = Empty
    /\ ~raced =>
         /\ file.kind = "json" => file.cfg = last
         /\ lock = NoActor => file.kind \in {"absent", "json"}
         /\ \A a \in Actors : Fresh(a)

\* A user's file never holds the counter.
UserFile ==
    /\ \A a \in Actors : OnUserFile(todo[a]) /\ Counter \notin DOMAIN cfg[a]
    /\ Counter \notin DOMAIN file.cfg /\ Counter \notin DOMAIN last

\* What the counter of an actor holds, when it is as young as the file: the completed
\* increments, and the change of the save it is at.
Reckoned(a) ==
    /\ pc[a] \in Active /\ Call(a).op \in Saves =>
         count[a].number = CASE Call(a).op = "bump" -> adds + 1
                             [] Call(a).op = "clear" -> 0
                             [] OTHER -> adds
    /\ pc[a] = "idle" /\ todo[a] # <<>> /\ Call(a).op \notin {"create", "load"} =>
         count[a].number = adds

\* The counter's file exists once its constructor has created it.
CounterCalls(s) ==
    \A i \in DOMAIN s :
        /\ s[i].op \in Saves \cup {"create", "load", "add"}
        /\ s[i].op = "create" /\ i < Len(s) => s[i + 1].op = "load"
Counting(a) ==
    /\ CounterCalls(todo[a]) /\ count[a] \in Counts
    /\ todo[a] # <<>> => Call(a).op = "create" \/ file.kind # "absent"
    /\ pc[a] \in {"look", "mkdir", "check", "reset", "resetting", "verify"} => Call(a).op = "create"
    /\ Counter \in DOMAIN cfg[a] => cfg[a][Counter] \in Counts
CounterFile ==
    /\ \A a \in Actors : Counting(a)
    /\ Counter \in DOMAIN file.cfg => file.cfg[Counter] \in Counts
    /\ ~raced =>
         /\ Has(last, Counter) => last[Counter].number = adds
         /\ \A a \in Actors : base[a] = version => Reckoned(a)

KeptInv == TypeOK /\ Held /\ Locals /\ Written /\ (UserFile \/ CounterFile)

\* What setting a key makes of a file.
LEMMA WithKey ==
  ASSUME NEW f, NEW k, NEW v
  PROVE  /\ DOMAIN With(f, k, v) = {k} \cup DOMAIN f /\ With(f, k, v)[k] = v
         /\ \A x \in DOMAIN f \ {k} : With(f, k, v)[x] = f[x]
BY DEF With

\* The first of the calls that are left, and the rest.
LEMMA TailOf ==
  ASSUME NEW S, NEW s \in Seq(S), s # <<>>
  PROVE  /\ Head(s) = s[1] /\ 1 \in DOMAIN s
         /\ Tail(s) \in Seq(S) /\ Len(s) \in Nat \ {0} /\ Len(Tail(s)) = Len(s) - 1
         /\ \A i \in DOMAIN Tail(s) : i + 1 \in DOMAIN s /\ Tail(s)[i] = s[i + 1]
BY HeadTailProperties, LenProperties, EmptySeq

\* Calls put before those that are left.
LEMMA Before1 ==
  ASSUME NEW S, NEW s \in Seq(S), NEW x \in S
  PROVE  /\ <<x>> \o s \in Seq(S) /\ Len(<<x>> \o s) = Len(s) + 1 /\ <<x>> \o s # <<>>
         /\ (<<x>> \o s)[1] = x
         /\ \A i \in DOMAIN (<<x>> \o s) :
               i # 1 => i - 1 \in DOMAIN s /\ (<<x>> \o s)[i] = s[i - 1]
<1>1. <<x>> \in Seq(S) /\ Len(<<x>>) = 1 /\ <<x>>[1] = x
  OBVIOUS
<1> QED
  BY <1>1, ConcatProperties, LenProperties, EmptySeq
LEMMA Before2 ==
  ASSUME NEW S, NEW s \in Seq(S), NEW x \in S, NEW y \in S
  PROVE  /\ <<x, y>> \o s \in Seq(S) /\ Len(<<x, y>> \o s) = Len(s) + 2
         /\ <<x, y>> \o s # <<>>
         /\ (<<x, y>> \o s)[1] = x /\ (<<x, y>> \o s)[2] = y
         /\ \A i \in DOMAIN (<<x, y>> \o s) :
               i \notin {1, 2} => i - 2 \in DOMAIN s /\ (<<x, y>> \o s)[i] = s[i - 2]
<1>1. <<x, y>> \in Seq(S) /\ Len(<<x, y>>) = 2 /\ <<x, y>>[1] = x /\ <<x, y>>[2] = y
  OBVIOUS
<1> QED
  BY <1>1, ConcatProperties, LenProperties, EmptySeq

\* The calls that are left when one returns, or is replaced by those it makes.
LEMMA RestOfCalls ==
  ASSUME NEW s \in Seq(AnyCall), s # <<>>
  PROVE  /\ Tail(s) \in Seq(AnyCall)
         /\ OnUserFile(s) => OnUserFile(Tail(s))
         /\ CounterCalls(s) =>
              /\ CounterCalls(Tail(s))
              /\ Head(s).op = "create" /\ Tail(s) # <<>> => Head(Tail(s)).op = "load"
<1>1. Tail(s) \in Seq(AnyCall) /\ Len(s) \in Nat /\ Len(Tail(s)) \in Nat
      /\ Len(Tail(s)) = Len(s) - 1 /\ DOMAIN s = 1..Len(s)
      /\ DOMAIN Tail(s) = 1..Len(Tail(s)) /\ 1 \in DOMAIN s /\ Head(s) = s[1]
  BY TailOf, LenProperties
<1>2. \A i \in DOMAIN Tail(s) : i + 1 \in DOMAIN s /\ Tail(s)[i] = s[i + 1]
  BY TailOf
<1>3. OnUserFile(s) => OnUserFile(Tail(s))
  BY <1>1, <1>2 DEF OnUserFile
<1>4. ASSUME CounterCalls(s) PROVE CounterCalls(Tail(s))
  <2> SUFFICES ASSUME NEW i \in DOMAIN Tail(s)
               PROVE  /\ Tail(s)[i].op \in Saves \cup {"create", "load", "add"}
                      /\ Tail(s)[i].op = "create" /\ i < Len(Tail(s))
                            => Tail(s)[i + 1].op = "load"
    BY DEF CounterCalls
  <2>1. i + 1 \in DOMAIN s /\ Tail(s)[i] = s[i + 1] /\ i \in Nat
    BY <1>1, <1>2
  <2>2. i < Len(Tail(s)) => i + 1 < Len(s) /\ Tail(s)[i + 1] = s[(i + 1) + 1]
    BY <1>1, <1>2, <2>1
  <2> QED
    BY <1>4, <2>1, <2>2 DEF CounterCalls
<1>5. ASSUME CounterCalls(s), Head(s).op = "create", Tail(s) # <<>>
      PROVE  Head(Tail(s)).op = "load"
  <2>1. 1 \in DOMAIN Tail(s) /\ Head(Tail(s)) = Tail(s)[1]
    BY <1>1, <1>5, TailOf
  <2>2. Tail(s)[1] = s[2] /\ 1 < Len(s)
    BY <1>1, <1>2, <2>1
  <2> QED
    BY <1>1, <1>5, <2>1, <2>2 DEF CounterCalls
<1> QED
  BY <1>1, <1>3, <1>4, <1>5
LEMMA InitBefore ==
  ASSUME NEW s \in Seq(AnyCall)
  PROVE  /\ <<[op |-> "init"]>> \o s \in Seq(AnyCall) /\ <<[op |-> "init"]>> \o s # <<>>
         /\ Head(<<[op |-> "init"]>> \o s).op = "init"
         /\ CounterCalls(s) => CounterCalls(<<[op |-> "init"]>> \o s)
<1> DEFINE x == [op |-> "init"]
           t == <<x>> \o s
<1>1. x \in AnyCall /\ x.op = "init"
  BY DEF AnyCall
<1> HIDE DEF x
<1>2. /\ t \in Seq(AnyCall) /\ Len(t) = Len(s) + 1 /\ t # <<>> /\ t[1] = x
      /\ \A i \in DOMAIN t : i # 1 => i - 1 \in DOMAIN s /\ t[i] = s[i - 1]
  BY <1>1, Before1
<1> HIDE DEF t
<1>3. Head(t) = t[1] /\ Len(s) \in Nat /\ DOMAIN t = 1..Len(t) /\ DOMAIN s = 1..Len(s)
  BY <1>2, TailOf, LenProperties
<1>4. ASSUME CounterCalls(s) PROVE CounterCalls(t)
  <2> SUFFICES ASSUME NEW i \in DOMAIN t
               PROVE  /\ t[i].op \in Saves \cup {"create", "load", "add"}
                      /\ t[i].op = "create" /\ i < Len(t) => t[i + 1].op = "load"
    BY DEF CounterCalls
  <2>1. CASE i = 1
    BY <2>1, <1>1, <1>2 DEF Saves
  <2>2. CASE i # 1
    <3>1. i - 1 \in DOMAIN s /\ t[i] = s[i - 1] /\ i \in Nat
      BY <1>2, <1>3, <2>2
    <3>2. i < Len(t) => i - 1 < Len(s) /\ t[i + 1] = s[(i - 1) + 1]
      BY <1>2, <1>3, <3>1
    <3> QED
      BY <1>4, <3>1, <3>2 DEF CounterCalls
  <2> QED
    BY <2>1, <2>2
<1> QED
  BY <1>1, <1>2, <1>3, <1>4 DEF t, x
LEMMA CountBefore ==
  ASSUME NEW s \in Seq(AnyCall)
  PROVE  LET t == <<[op |-> "load"], [op |-> "bump"]>> \o s
         IN  /\ t \in Seq(AnyCall) /\ t # <<>> /\ Head(t).op = "load"
             /\ CounterCalls(s) => CounterCalls(t)
<1> DEFINE x == [op |-> "load"]
           y == [op |-> "bump"]
           t == <<x, y>> \o s
<1>1. x \in AnyCall /\ x.op = "load" /\ y \in AnyCall /\ y.op = "bump"
  BY DEF AnyCall
<1> HIDE DEF x, y
<1>2. /\ t \in Seq(AnyCall) /\ Len(t) = Len(s) + 2 /\ t # <<>> /\ t[1] = x /\ t[2] = y
      /\ \A i \in DOMAIN t : i \notin {1, 2} => i - 2 \in DOMAIN s /\ t[i] = s[i - 2]
  BY <1>1, Before2
<1> HIDE DEF t
<1>3. Head(t) = t[1] /\ Len(s) \in Nat /\ DOMAIN t = 1..Len(t) /\ DOMAIN s = 1..Len(s)
  BY <1>2, TailOf, LenProperties
<1>4. ASSUME CounterCalls(s) PROVE CounterCalls(t)
  <2> SUFFICES ASSUME NEW i \in DOMAIN t
               PROVE  /\ t[i].op \in Saves \cup {"create", "load", "add"}
                      /\ t[i].op = "create" /\ i < Len(t) => t[i + 1].op = "load"
    BY DEF CounterCalls
  <2>1. CASE i \in {1, 2}
    BY <2>1, <1>1, <1>2 DEF Saves
  <2>2. CASE i \notin {1, 2}
    <3>1. i - 2 \in DOMAIN s /\ t[i] = s[i - 2] /\ i \in Nat
      BY <1>2, <1>3, <2>2
    <3>2. i < Len(t) => i - 2 < Len(s) /\ t[i + 1] = s[(i - 2) + 1]
      BY <1>2, <1>3, <3>1
    <3> QED
      BY <1>4, <3>1, <3>2 DEF CounterCalls
  <2> QED
    BY <2>1, <2>2
<1> QED
  BY <1>1, <1>2, <1>3, <1>4 DEF t, x, y

\* Control, calls and local variables keep their types, and a step is taken by who is
\* at it.
LEMMA NextLocals ==
  ASSUME TypeOK, Locals, UserFile \/ CounterFile, [Next]_vars
  PROVE  Locals'
<1> USE DEF GoTo, Return
<1>0. \A a \in Actors : todo[a] # <<>> =>
        /\ Tail(todo[a]) \in Seq(AnyCall)
        /\ <<[op |-> "init"]>> \o Tail(todo[a]) \in Seq(AnyCall)
        /\ <<>> \o Tail(todo[a]) \in Seq(AnyCall)
        /\ <<[op |-> "load"], [op |-> "bump"]>> \o Tail(todo[a]) \in Seq(AnyCall)
  <2> SUFFICES ASSUME NEW a \in Actors, todo[a] # <<>>
               PROVE  /\ Tail(todo[a]) \in Seq(AnyCall)
                      /\ <<[op |-> "init"]>> \o Tail(todo[a]) \in Seq(AnyCall)
                      /\ <<>> \o Tail(todo[a]) \in Seq(AnyCall)
                      /\ <<[op |-> "load"], [op |-> "bump"]>> \o Tail(todo[a])
                            \in Seq(AnyCall)
    OBVIOUS
  <2>1. Tail(todo[a]) \in Seq(AnyCall)
    BY RestOfCalls DEF Locals
  <2> QED
    BY <2>1, InitBefore, CountBefore, ConcatEmptySeq
<1>1. ASSUME NEW a \in Actors, Add(a) PROVE Locals'
  BY <1>0, <1>1 DEF Add, Locals, AtCall, Active, Call, Puts, Key, TypeOK, history
<1>2. ASSUME NEW a \in Actors, Begin(a) PROVE Locals'
  BY <1>2 DEF Begin, Locals, AtCall, Active, Call, Puts, Key, TypeOK, history
<1>3. ASSUME NEW a \in Actors, Check(a) PROVE Locals'
  <2>1. \A b \in Actors : AtCall(b)'
    BY <1>3 DEF Check, Locals, AtCall, Active, Call, Puts, Key, TypeOK
  <2>2. /\ todo' = todo /\ count' = count /\ version' = version /\ adds' = adds
        /\ file' = file
    BY <1>3 DEF Check
  <2>3. cfg' = [b \in Actors |-> cfg'[b]]
    BY <1>3 DEF Check, Locals
  <2>4. base' \in [Actors -> Nat] /\ \A b \in Actors : base'[b] <= version
    BY <1>3 DEF Check, Locals
  <2> QED
    BY <2>1, <2>2, <2>3, <2>4 DEF Locals
<1>4. ASSUME NEW a \in Actors, Open(a) PROVE Locals'
  BY <1>4 DEF Open, Locals, AtCall, Active, Call, Puts, Key, TypeOK, history
<1>5. ASSUME NEW a \in Actors, Close(a) PROVE Locals'
  <2>1. pc[a] \in Active /\ todo[a] # <<>>
    BY <1>5 DEF Close, Locals, AtCall, Active
  <2>2. /\ version' \in Nat /\ adds' \in Nat /\ base' \in [Actors -> Nat]
        /\ \A b \in Actors : base'[b] <= version'
    BY <1>5 DEF Close, Locals
  <2>3. CASE pc[a] = "writing"
    BY ZenonT(40), <1>0, <1>5, <2>1, <2>2, <2>3
    DEF Close, Locals, AtCall, Active, Call, Puts, Key, TypeOK
  <2>4. CASE pc[a] = "resetting"
    BY <1>5, <2>1, <2>2, <2>4
    DEF Close, Locals, AtCall, Active, Call, Puts, Key, TypeOK
  <2> QED
    BY <1>5, <2>3, <2>4 DEF Close
<1>6. ASSUME NEW a \in Actors, Verify(a) PROVE Locals'
  BY ZenonT(40), <1>0, <1>6 DEF Verify, Locals, AtCall, Active, Call, Puts, Key, TypeOK, history
<1>7. ASSUME NEW a \in Actors, ReadFails(a) PROVE Locals'
  BY <1>7 DEF ReadFails, LastTry, Locals, AtCall, Active, Call, Puts, Key, TypeOK, history
<1>8. ASSUME NEW a \in Actors, Get(a) PROVE Locals'
  <2>1. pc[a] \in Active /\ todo[a] # <<>>
    BY <1>8 DEF Get, Locals, AtCall, Active
  <2>2. /\ todo' \in [Actors -> Seq(AnyCall)] /\ pc' = [pc EXCEPT ![a] = "idle"]
        /\ \A b \in Actors : b # a => todo'[b] = todo[b]
    BY <1>0, <1>8, <2>1 DEF Get, Locals
  <2>3. /\ version' \in Nat /\ adds' \in Nat /\ base' \in [Actors -> Nat]
        /\ (\A b \in Actors : base'[b] <= version') /\ file' = file
    BY <1>8 DEF Get, Locals
  <2>4. \A b \in Actors : AtCall(b)'
    BY <2>2 DEF Locals, AtCall, Active, Call, Puts, Key, TypeOK
  <2>5. /\ count' = [b \in Actors |-> count'[b]]
        /\ cfg' = [b \in Actors |-> cfg'[b]]
    BY <1>8 DEF Get, Locals
  <2> QED
    BY <2>2, <2>3, <2>4, <2>5 DEF Locals
<1>9. ASSUME NEW a \in Actors, ReadForPut(a) PROVE Locals'
  <2>1. \A b \in Actors : AtCall(b)'
    BY <1>9 DEF ReadForPut, Locals, AtCall, Active, Call, Puts, Key, TypeOK
  <2>2. /\ todo' = todo /\ count' = count /\ version' = version /\ adds' = adds
        /\ file' = file
    BY <1>9 DEF ReadForPut
  <2>3. cfg' = [b \in Actors |-> cfg'[b]]
    BY <1>9 DEF ReadForPut, Locals
  <2>4. base' \in [Actors -> Nat] /\ \A b \in Actors : base'[b] <= version
    BY <1>9 DEF ReadForPut, Locals
  <2> QED
    BY <2>1, <2>2, <2>3, <2>4 DEF Locals
<1>10. ASSUME NEW a \in Actors, Crash(a) PROVE Locals'
  <2>1. \A b \in Actors : AtCall(b)'
    BY <1>10 DEF Crash, Locals, AtCall, Active, Call, Puts, Key, TypeOK
  <2>2. file' = [kind |-> file'.kind, cfg |-> file'.cfg]
    BY <1>10 DEF Crash, Locals
  <2> QED
    BY <1>10, <2>1, <2>2 DEF Crash, Locals
<1>11. CASE UNCHANGED vars
  BY <1>11 DEF vars, io, history, Locals, AtCall, Active, Call, Puts, Key
<1>12. ASSUME NEW a \in Actors, LookDir(a) \/ MakeDir(a) PROVE Locals'
  <2>1. CASE LookDir(a)
    BY <1>12, <2>1 DEF LookDir, Locals, AtCall, Active, Call, Puts, Key, TypeOK, history
  <2>2. CASE MakeDir(a)
    BY <1>12, <2>2 DEF MakeDir, Locals, AtCall, Active, Call, Puts, Key, TypeOK, history
  <2> QED
    BY <1>12, <2>1, <2>2
<1> QED
  BY <1>1, <1>2, <1>3, <1>4, <1>5, <1>6, <1>7, <1>8, <1>9, <1>10, <1>11, <1>12
  DEF Next, Step, Done

\* A user's file stays without a counter.
LEMMA NextUser ==
  ASSUME TypeOK, Locals, UserFile, [Next]_vars
  PROVE  UserFile'
<1> USE DEF GoTo, Return
<1>0. ASSUME NEW a \in Actors, todo[a] # <<>>
      PROVE  /\ \/ Call(a).op \in {"create", "get"}
                \/ Call(a).op = "put" /\ Key(a) # Counter
             /\ OnUserFile(Tail(todo[a])) /\ OnUserFile(<<>> \o Tail(todo[a]))
  <2>1. todo[a] \in Seq(AnyCall) /\ OnUserFile(todo[a])
    BY DEF Locals, UserFile
  <2>2. Head(todo[a]) = todo[a][1] /\ 1 \in DOMAIN todo[a]
    BY <1>0, <2>1, TailOf
  <2>3. Tail(todo[a]) \in Seq(AnyCall) /\ OnUserFile(Tail(todo[a]))
    BY <1>0, <2>1, RestOfCalls
  <2>4. <<>> \o Tail(todo[a]) = Tail(todo[a])
    BY <2>3, ConcatEmptySeq
  <2> QED
    BY <2>1, <2>2, <2>3, <2>4 DEF OnUserFile, Call, Key
<1>1. ASSUME NEW a \in Actors, Add(a) PROVE FALSE
  BY <1>0, <1>1 DEF Add
<1>4. ASSUME NEW a \in Actors, todo[a] # <<>>, todo' = [todo EXCEPT ![a] = Tail(@)]
      PROVE  \A b \in Actors : OnUserFile(todo'[b])
  BY <1>0, <1>4 DEF Locals, UserFile
<1>2. ASSUME NEW a \in Actors, Begin(a) \/ Verify(a) \/ ReadFails(a) \/ Open(a) \/ Crash(a)
      PROVE  UserFile'
  <2>1. pc[a] = "verify" => todo[a] # <<>>
    BY DEF Locals, AtCall, Active
  <2>2. todo' = todo \/ (todo[a] # <<>> /\ todo' = [todo EXCEPT ![a] = Tail(@)])
    BY <1>2, <2>1 DEF Begin, Verify, ReadFails, Open, Crash
  <2>3. \A b \in Actors : OnUserFile(todo'[b])
    BY <1>4, <2>2 DEF UserFile
  <2>4. file'.cfg = file.cfg
    BY <1>2 DEF Begin, Verify, ReadFails, Open, Crash, Locals
  <2>5. cfg' = cfg /\ last' = last
    BY <1>2 DEF Begin, Verify, ReadFails, Open, Crash, history
  <2> QED
    BY <2>3, <2>4, <2>5 DEF UserFile
<1>3. ASSUME NEW a \in Actors, Check(a) PROVE UserFile'
  BY <1>3 DEF Check, UserFile, Locals, Empty
<1>5. ASSUME NEW a \in Actors, Close(a) PROVE UserFile'
  <2>1. /\ pc[a] \in Active /\ todo[a] # <<>>
        /\ pc[a] = "writing" => Key(a) # Counter
    BY <1>0, <1>5 DEF Close, Locals, AtCall, Active, Puts, Saves
  <2>2. \A b \in Actors : OnUserFile(todo'[b])
    BY <1>4, <1>5, <2>1 DEF Close, UserFile
  <2>3. DOMAIN With(last, Key(a), cfg[a][Key(a)]) = {Key(a)} \cup DOMAIN last
    BY WithKey
  <2>4. Counter \notin DOMAIN last'
    BY <1>5, <2>1, <2>3 DEF Close, UserFile
  <2>5. file'.cfg = cfg[a] /\ cfg' = cfg
    BY <1>5 DEF Close
  <2> QED
    BY <2>2, <2>4, <2>5 DEF UserFile
<1>8. ASSUME NEW a \in Actors, Get(a) PROVE UserFile'
  <2>1. todo[a] # <<>> /\ Call(a).op # "load"
    BY <1>0, <1>8 DEF Get, Locals, AtCall, Active
  <2>2. todo' = [todo EXCEPT ![a] = <<>> \o Tail(@)]
    BY <1>8, <2>1 DEF Get
  <2>3. \A b \in Actors : OnUserFile(todo'[b])
    BY <1>0, <2>1, <2>2 DEF Locals, UserFile
  <2> QED
    BY <1>8, <2>3 DEF Get, UserFile
<1>9. ASSUME NEW a \in Actors, ReadForPut(a) PROVE UserFile'
  <2>1. Key(a) # Counter
    BY <1>0, <1>9 DEF ReadForPut, Locals, AtCall, Active, Puts, Saves
  <2>2. Counter \notin DOMAIN Updated(a, file.cfg)
    <3>1. DOMAIN With(file.cfg, Key(a), Value(a)) = {Key(a)} \cup DOMAIN file.cfg
      BY WithKey
    <3> QED
      BY <2>1, <3>1 DEF Updated, UserFile
  <2>3. \A b \in Actors : Counter \notin DOMAIN cfg'[b]
    BY <1>9, <2>2 DEF ReadForPut, UserFile, Locals
  <2> QED
    BY <1>9, <2>3 DEF ReadForPut, UserFile
<1>11. CASE UNCHANGED vars
  BY <1>11 DEF vars, io, history, UserFile
<1>12. ASSUME NEW a \in Actors, LookDir(a) \/ MakeDir(a) PROVE UserFile'
  BY <1>12 DEF LookDir, MakeDir, history, UserFile
<1> QED
  BY <1>1, <1>2, <1>3, <1>5, <1>8, <1>9, <1>11, <1>12 DEF Next, Step, Done

\* The file is what was put last, until a write is based on an older one.
LEMMA NextWritten ==
  ASSUME TypeOK, Held, Locals, Written, [Next]_vars
  PROVE  Written'
<1> USE DEF GoTo, Return
<1>1. ASSUME NEW a \in Actors,
             \/ Add(a) \/ Begin(a) \/ Verify(a) \/ ReadFails(a) \/ Get(a)
             \/ LookDir(a) \/ MakeDir(a)
      PROVE  Written'
  <2>0. /\ UNCHANGED <<version, last, lock, cfg>>
        /\ pc'[a] \notin {"write", "writing", "reset", "resetting"}
        /\ \A b \in Actors : b # a => UNCHANGED <<pc[b], todo[b], count[b], base[b]>>
    <3>1. CASE Add(a) \/ Begin(a)
      BY <3>1 DEF Add, Begin, history, Locals, TypeOK
    <3>4. CASE LookDir(a) \/ MakeDir(a)
      BY <3>4 DEF LookDir, MakeDir, history, Locals, TypeOK
    <3>2. CASE Verify(a) \/ ReadFails(a)
      BY <3>2 DEF Verify, ReadFails, history, Locals, TypeOK
    <3>3. CASE Get(a)
      BY <3>3 DEF Get, history, Locals, TypeOK
    <3> QED
      BY <1>1, <3>1, <3>2, <3>3, <3>4
  <2>1. \A b \in Actors : (Fresh(b) => Fresh(b)')
    BY <2>0 DEF Fresh, Key, Call, Value
  <2>2. /\ file' = file /\ last' = last /\ adds' = adds /\ raced' = raced /\ lock' = lock
        /\ cfg' = cfg
    BY <1>1 DEF Add, Begin, Verify, ReadFails, Get, LookDir, MakeDir, history
  <2>3. \A b \in Actors : pc'[b] \in {"reset", "resetting"} => pc[b] = pc'[b]
    BY <1>1 DEF Add, Begin, Verify, ReadFails, Get, LookDir, MakeDir, TypeOK
  <2> QED
    BY <2>1, <2>2, <2>3 DEF Written
<1>2. ASSUME NEW a \in Actors, Check(a) PROVE Written'
  <2>1. /\ UNCHANGED <<file, lock, last, adds, raced, version, todo, count>>
        /\ pc' = [pc EXCEPT ![a] = IF SizedFile THEN "verify" ELSE "reset"]
        /\ cfg' = [cfg EXCEPT ![a] = Empty] /\ base' = [base EXCEPT ![a] = version]
        /\ pc[a] = "check"
    BY <1>2 DEF Check
  <2>2. \A b \in Actors : pc'[b] \in {"reset", "resetting"} => cfg'[b] = Empty
    BY <2>1 DEF Written, Locals, TypeOK
  <2>3. ASSUME NEW b \in Actors, b # a, Fresh(b) PROVE Fresh(b)'
    BY <2>1, <2>3 DEF Fresh, Key, Call, Value, Locals, TypeOK
  <2>4. ~raced => Fresh(a)'
    <3>1. lock # a
      BY <2>1 DEF Held
    <3>2. ~raced /\ ~SizedFile => last = Empty \/ lock # NoActor
      BY DEF SizedFile, Written, TypeOK
    <3> QED
      BY <2>1, <3>1, <3>2 DEF Fresh, TypeOK
  <2> QED
    BY <2>1, <2>2, <2>3, <2>4 DEF Written
<1>3. ASSUME NEW a \in Actors, Open(a) PROVE Written'
  <2>1. /\ UNCHANGED <<last, adds, raced, version, todo, count, cfg, base>>
        /\ pc' = [pc EXCEPT ![a] = IF pc[a] = "reset" THEN "resetting" ELSE "writing"]
        /\ pc[a] \in {"reset", "write"} /\ lock = NoActor /\ lock' = a
        /\ file'.kind = "empty"
    BY <1>3 DEF Open, TakeLock, history, Locals
  <2>2. \A b \in Actors : pc'[b] \in {"reset", "resetting"} => cfg'[b] = Empty
    BY <2>1 DEF Written, TypeOK
  <2>3. a # NoActor
    BY CookieAssumption
  <2>4. ASSUME NEW b \in Actors, Fresh(b) PROVE Fresh(b)'
    <3>1. CASE b = a
      BY <2>1, <2>3, <2>4, <3>1 DEF Fresh, Key, Call, Value, Locals, TypeOK
    <3>2. CASE b # a
      BY <2>1, <2>3, <2>4, <3>2 DEF Fresh, Key, Call, Value, Locals, TypeOK
    <3> QED
      BY <3>1, <3>2
  <2> QED
    BY <2>1, <2>2, <2>3, <2>4 DEF Written
<1>4. ASSUME NEW a \in Actors, Close(a) PROVE Written'
  <2> DEFINE k == Key(a)
             v == Value(a)
  <2>1. /\ pc[a] \in Locking /\ file' = [kind |-> "json", cfg |-> cfg[a]]
        /\ lock' = NoActor /\ cfg' = cfg /\ version' = version + 1
        /\ raced' = (raced \/ base[a] # version) /\ pc'[a] \in {"idle", "verify"}
        /\ base' = [base EXCEPT ![a] = version + 1] /\ lock = a
        /\ \A b \in Actors : b # a => pc'[b] = pc[b]
    BY <1>4 DEF Close, Held, TypeOK
  <2>2. a # NoActor
    BY CookieAssumption
  <2>3. \A b \in Actors : Fresh(b)'
    BY <2>1 DEF Fresh, Locals
  <2>4. \A b \in Actors : pc'[b] \in {"reset", "resetting"} => cfg'[b] = Empty
    BY <2>1 DEF Written
  <2>5. CASE pc[a] = "resetting"
    <3>1. last' = last /\ adds' = adds
      BY <1>4, <2>5 DEF Close
    <3>2. ~raced' => file'.cfg = last'
      BY <2>1, <2>2, <2>5, <3>1 DEF Written, Fresh
    <3> QED
      BY <2>1, <2>3, <2>4, <3>1, <3>2 DEF Written
  <2>6. CASE pc[a] = "writing"
    <3>1. last' = With(last, k, cfg[a][k])
      BY <1>4, <2>6 DEF Close
    <3>2. ~raced' => cfg[a] = With(last, k, v)
      BY <2>1, <2>6 DEF Written, Fresh
    <3>3. With(last, k, v)[k] = v /\ DOMAIN last' = {k} \cup DOMAIN last
      <4> HIDE DEF k, v
      <4>1. With(last, k, v)[k] = v
        BY DEF With
      <4>2. DOMAIN With(last, k, cfg[a][k]) = {k} \cup DOMAIN last
        BY WithKey
      <4> QED
        BY <3>1, <4>1, <4>2
    <3>4. Counter \notin DOMAIN last' => adds' = 0
      <4>1. k # Counter => Call(a).op = "put"
        BY DEF Key
      <4>2. Call(a).op = "put" => adds' = adds
        BY <1>4, <2>6 DEF Close
      <4> QED
        BY <3>3, <4>1, <4>2 DEF Written
    <3> HIDE DEF k, v
    <3>5. ~raced' => file'.cfg = last'
      BY <2>1, <3>1, <3>2, <3>3
    <3> QED
      BY <2>1, <2>3, <2>4, <3>4, <3>5 DEF Written
  <2> QED
    BY <2>1, <2>5, <2>6
<1>5. ASSUME NEW a \in Actors, ReadForPut(a) PROVE Written'
  <2>1. /\ UNCHANGED <<file, lock, last, adds, raced, version, todo, count>>
        /\ pc' = [pc EXCEPT ![a] = "write"] /\ file.kind = "json"
        /\ cfg' = [cfg EXCEPT ![a] = With(file.cfg, Key(a), Value(a))]
        /\ \A b \in Actors : b # a => base'[b] = base[b]
    BY <1>5 DEF ReadForPut, Updated, Locals
  <2>2. \A b \in Actors : pc'[b] \in {"reset", "resetting"} => cfg'[b] = Empty
    BY <2>1 DEF Written, Locals, TypeOK
  <2>3. ASSUME NEW b \in Actors, b # a, Fresh(b) PROVE Fresh(b)'
    BY <2>1, <2>3 DEF Fresh, Key, Call, Value, Locals, TypeOK
  <2>4. Key(a)' = Key(a) /\ Value(a)' = Value(a) /\ pc'[a] = "write"
    BY <2>1 DEF Key, Call, Value, TypeOK
  <2>5. ~raced => Fresh(a)'
    <3>1. cfg'[a] = With(file.cfg, Key(a), Value(a))
      BY <2>1 DEF Locals
    <3>2. ~raced => file.cfg = last
      BY <2>1 DEF Written
    <3> QED
      BY <2>1, <2>4, <3>1, <3>2 DEF Fresh
  <2> QED
    BY <2>1, <2>2, <2>3, <2>5 DEF Written
<1>6. ASSUME NEW a \in Actors, Crash(a) PROVE Written'
  <2>1. /\ UNCHANGED <<last, adds, version, todo, count, cfg, base>>
        /\ pc' = [pc EXCEPT ![a] = "crashed"]
        /\ lock' = IF lock = a THEN NoActor ELSE lock
        /\ raced' = (raced \/ pc[a] \in Locking)
        /\ file'.kind = "absent" <=> file.kind = "absent" /\ pc[a] \notin Locking
        /\ pc[a] \notin Locking => file' = file
    BY <1>6 DEF Crash, FreesLock, Locals
  <2>2. ~raced' => lock' = lock /\ file' = file /\ ~raced
    BY <2>1 DEF Held
  <2>3. ASSUME NEW b \in Actors, Fresh(b), ~raced' PROVE Fresh(b)'
    BY <2>1, <2>2, <2>3 DEF Fresh, Key, Call, Value, Locals, TypeOK
  <2>4. \A b \in Actors : pc'[b] \in {"reset", "resetting"} => cfg'[b] = Empty
    BY <2>1 DEF Written, TypeOK
  <2> QED
    BY <2>1, <2>2, <2>3, <2>4 DEF Written
<1>7. CASE UNCHANGED vars
  <2>1. \A b \in Actors : (Fresh(b) => Fresh(b)')
    BY <1>7 DEF vars, io, history, Fresh, Key, Call, Value
  <2> QED
    BY <1>7, <2>1 DEF vars, io, history, Written
<1> QED
  BY <1>1, <1>2, <1>3, <1>4, <1>5, <1>6, <1>7 DEF Next, Step, Done

\* What an actor does leaves the others' calls and counters alone.
Apart(a) ==
    /\ \A b \in Actors : b # a =>
          /\ pc'[b] = pc[b] /\ todo'[b] = todo[b] /\ cfg'[b] = cfg[b]
          /\ count'[b] = count[b] /\ base'[b] = base[b]
    /\ file'.kind = "absent" => file.kind = "absent"
LEMMA StepApart ==
  ASSUME TypeOK, Locals, NEW a \in Actors, Step(a) \/ Crash(a)
  PROVE  Apart(a)
<1> USE DEF GoTo, Return, Apart, TypeOK, Locals, history
<1>1. CASE Add(a) \/ Begin(a) \/ LookDir(a) \/ MakeDir(a) \/ Check(a)
  BY <1>1 DEF Add, Begin, LookDir, MakeDir, Check
<1>2. CASE Open(a) \/ Close(a)
  <2>1. file'.kind # "absent"
    BY <1>2 DEF Open, Close
  <2> QED
    BY <1>2, <2>1 DEF Open, Close
<1>3. CASE Verify(a) \/ ReadFails(a) \/ Get(a)
  BY <1>3 DEF Verify, ReadFails, Get
<1>4. CASE ReadForPut(a)
  BY <1>4 DEF ReadForPut
<1>5. CASE Crash(a)
  BY <1>5 DEF Crash
<1> QED
  BY <1>1, <1>2, <1>3, <1>4, <1>5 DEF Step
LEMMA OthersCounting ==
  ASSUME CounterFile, NEW a \in Actors, Apart(a), Counting(a)'
  PROVE  \A b \in Actors : Counting(b)'
BY DEF CounterFile, Counting, Apart, Call
LEMMA OthersReckoned ==
  ASSUME CounterFile, NEW a \in Actors, Apart(a), ~raced, adds' = adds,
         version' = version, base'[a] = version => Reckoned(a)'
  PROVE  \A b \in Actors : base'[b] = version' => Reckoned(b)'
BY DEF CounterFile, Reckoned, Apart, Call

\* The calls of the counter's file that are left.
LEMMA CounterCallsLeft ==
  ASSUME Locals, CounterFile, NEW a \in Actors, todo[a] # <<>>
  PROVE  /\ Call(a).op \in Saves \cup {"create", "load", "add"}
         /\ CounterCalls(Tail(todo[a]))
         /\ CounterCalls(<<[op |-> "init"]>> \o Tail(todo[a]))
         /\ Head(<<[op |-> "init"]>> \o Tail(todo[a])).op = "init"
         /\ CounterCalls(<<[op |-> "load"], [op |-> "bump"]>> \o Tail(todo[a]))
         /\ Head(<<[op |-> "load"], [op |-> "bump"]>> \o Tail(todo[a])).op = "load"
         /\ Call(a).op = "create" /\ Tail(todo[a]) # <<>>
              => Head(Tail(todo[a])).op = "load"
<1>1. todo[a] \in Seq(AnyCall) /\ CounterCalls(todo[a])
  BY DEF Locals, CounterFile, Counting
<1>2. Head(todo[a]) = todo[a][1] /\ 1 \in DOMAIN todo[a]
  BY <1>1, TailOf
<1>3. Tail(todo[a]) \in Seq(AnyCall) /\ CounterCalls(Tail(todo[a]))
  BY <1>1, RestOfCalls
<1>4. Call(a).op \in Saves \cup {"create", "load", "add"}
  BY <1>1, <1>2 DEF CounterCalls, Call
<1>5. Call(a).op = "create" /\ Tail(todo[a]) # <<>> => Head(Tail(todo[a])).op = "load"
  BY <1>1, RestOfCalls DEF Call
<1> QED
  BY <1>3, <1>4, <1>5, InitBefore, CountBefore

\* The counter's file keeps the completed increments, and so does what is written to it
\* by whoever saw the last write.
LEMMA NextCounter ==
  ASSUME TypeOK, Held, Locals, Written, CounterFile, [Next]_vars
  PROVE  CounterFile'
<1> USE DEF GoTo, Return
<1>1. ASSUME NEW a \in Actors, Apart(a), Counting(a)',
             ~raced /\ base'[a] = version => Reckoned(a)',
             file'.cfg = file.cfg, last' = last, adds' = adds, version' = version,
             ~raced' => ~raced
      PROVE  CounterFile'
  <2>1. \A b \in Actors : Counting(b)'
    BY <1>1, OthersCounting
  <2>2. ~raced => \A b \in Actors : base'[b] = version' => Reckoned(b)'
    BY <1>1, OthersReckoned
  <2> QED
    BY <1>1, <2>1, <2>2 DEF CounterFile, Has
<1>2. \A a \in Actors : Counting(a) /\ (~raced /\ base[a] = version => Reckoned(a))
  BY DEF CounterFile
<1>3. ASSUME NEW a \in Actors, Add(a) PROVE CounterFile'
  <2>1. /\ UNCHANGED <<pc, file, lock, cfg, count, version, base, last, adds, raced>>
        /\ pc[a] = "idle" /\ todo[a] # <<>> /\ Call(a).op = "add"
        /\ \/ todo'[a] = <<[op |-> "load"], [op |-> "bump"]>> \o Tail(todo[a])
           \/ todo'[a] = Tail(todo[a])
    BY <1>3 DEF Add, Locals, history
  <2>2. Counting(a)'
    BY <1>2, <2>1, CounterCallsLeft DEF Counting, Call
  <2>3. ~raced /\ base'[a] = version => Reckoned(a)'
    BY <1>2, <2>1, CounterCallsLeft DEF Reckoned, Call, Active
  <2> QED
    BY <1>1, <1>3, <2>1, <2>2, <2>3, StepApart DEF Step
<1>4. ASSUME NEW a \in Actors, Begin(a) PROVE CounterFile'
  <2>1. /\ UNCHANGED <<todo, file, lock, cfg, version, base, last, adds, raced>>
        /\ pc[a] = "idle" /\ todo[a] # <<>> /\ Call(a).op # "add"
        /\ count'[a] = Changed(count[a], Call(a).op)
        /\ pc'[a] = IF Call(a).op = "create" \/ (Puts(a) /\ file.kind = "absent")
                    THEN "look" ELSE "read"
    BY <1>4 DEF Begin, Locals, TypeOK, history
  <2>2. Call(a).op \in Saves \cup {"create", "load"}
    BY <2>1, CounterCallsLeft
  <2>3. pc'[a] = "look" => Call(a).op = "create"
    BY <1>2, <2>1 DEF Counting
  <2>4. /\ count'[a] \in Counts
        /\ count'[a].number = CASE Call(a).op = "bump" -> count[a].number + 1
                                [] Call(a).op = "clear" -> 0
                                [] OTHER -> count[a].number
    <3>1. count[a] \in Counts
      BY <1>2 DEF Counting
    <3> QED
      BY <2>1, <2>2, <3>1 DEF Changed, Counts, Saves
  <2>5. Counting(a)'
    BY <1>2, <2>1, <2>3, <2>4 DEF Counting, Call
  <2>6. ~raced /\ base'[a] = version => Reckoned(a)'
    BY <1>2, <2>1, <2>4 DEF Reckoned, Call, Active, Saves
  <2> QED
    BY <1>1, <1>4, <2>1, <2>5, <2>6, StepApart DEF Step
<1>5. ASSUME NEW a \in Actors, Check(a) PROVE CounterFile'
  <2>1. /\ UNCHANGED <<todo, file, lock, count, version, last, adds, raced>>
        /\ pc[a] = "check" /\ pc'[a] \in {"verify", "reset"} /\ cfg'[a] = Empty
    BY <1>5 DEF Check, Locals, TypeOK
  <2>2. Call(a).op = "create"
    BY <1>2, <2>1 DEF Counting
  <2>3. Counting(a)'
    BY <1>2, <2>1, <2>2 DEF Counting, Call, Empty
  <2>4. Reckoned(a)'
    BY <2>1, <2>2 DEF Reckoned, Call, Saves
  <2> QED
    BY <1>1, <1>5, <2>1, <2>3, <2>4, StepApart DEF Step
<1>6. ASSUME NEW a \in Actors, Open(a) PROVE CounterFile'
  <2>1. /\ UNCHANGED <<todo, cfg, count, version, base, last, adds, raced>>
        /\ \/ pc[a] = "reset" /\ pc'[a] = "resetting"
           \/ pc[a] = "write" /\ pc'[a] = "writing"
        /\ file'.kind = "empty" /\ file'.cfg = file.cfg
    BY <1>6 DEF Open, Locals, TypeOK, history
  <2>2. Counting(a)'
    BY <1>2, <2>1 DEF Counting, Call
  <2>3. ~raced /\ base'[a] = version => Reckoned(a)'
    BY <1>2, <2>1 DEF Reckoned, Call, Active
  <2> QED
    BY <1>1, <1>6, <2>1, <2>2, <2>3, StepApart DEF Step
<1>7. ASSUME NEW a \in Actors, Verify(a) PROVE CounterFile'
  <2>1. /\ UNCHANGED <<file, lock, cfg, count, version, base, last, adds, raced>>
        /\ pc[a] = "verify" /\ todo[a] # <<>>
        /\ \/ pc'[a] = "exited" /\ todo'[a] = todo[a]
           \/ pc'[a] = "idle" /\ todo'[a] = Tail(todo[a]) /\ file.kind = "json"
           \/ Call(a).op # "create"
    BY <1>7 DEF Verify, Locals, TypeOK, history, AtCall, Active
  <2>2. Call(a).op = "create"
    BY <1>2, <2>1 DEF Counting
  <2>3. Counting(a)'
    BY <1>2, <2>1, <2>2, CounterCallsLeft DEF Counting, Call
  <2>4. Reckoned(a)'
    BY <2>1, <2>2, CounterCallsLeft DEF Reckoned, Call, Active
  <2> QED
    BY <1>1, <1>7, <2>1, <2>3, <2>4, StepApart DEF Step
<1>8. ASSUME NEW a \in Actors, ReadFails(a) PROVE CounterFile'
  <2>1. /\ UNCHANGED <<todo, file, lock, cfg, count, version, base, last, adds, raced>>
        /\ pc[a] = "read" /\ pc'[a] \in {"raised", "read"}
    BY <1>8 DEF ReadFails, Locals, TypeOK, history
  <2>2. Counting(a)'
    BY <1>2, <2>1 DEF Counting, Call
  <2>3. ~raced /\ base'[a] = version => Reckoned(a)'
    BY <1>2, <2>1 DEF Reckoned, Call, Active
  <2> QED
    BY <1>1, <1>8, <2>1, <2>2, <2>3, StepApart DEF Step
<1>9. ASSUME NEW a \in Actors, Get(a) PROVE CounterFile'
  <2> DEFINE new == Call(a).op = "load" /\ ~Has(Stored, Counter)
  <2>1. pc[a] = "read" /\ ~Puts(a) /\ todo[a] # <<>>
    BY <1>9 DEF Get, Locals, AtCall, Active
  <2>2. Call(a).op = "load"
    BY <2>1, CounterCallsLeft DEF Puts, Locals, AtCall, Active
  <2>3. /\ UNCHANGED <<file, lock, cfg, version, last, adds, raced>> /\ pc'[a] = "idle"
        /\ file.kind \in {"absent", "json"}
    BY <1>9 DEF Get, Locals, TypeOK
  <2>4. CASE new
    <3>1. count'[a] = Off /\ todo'[a] = <<[op |-> "init"]>> \o Tail(todo[a])
      BY <1>9, <2>2, <2>4 DEF Get, Locals
    <3>2. Counting(a)'
      <4>1. file.kind # "absent"
        BY <1>2, <2>1, <2>2 DEF Counting
      <4>2. Off \in Counts
        BY DEF Off, Counts
      <4> QED
        BY <1>2, <2>1, <2>3, <3>1, <4>1, <4>2, CounterCallsLeft DEF Counting, Call
    <3>3. ~raced => adds = 0
      <4>1. file.kind = "absent" => Counter \notin DOMAIN last
        BY DEF Written, Empty
      <4>2. ~raced /\ file.kind = "json" => Counter \notin DOMAIN last
        BY <2>4 DEF Written, Stored, Has
      <4> QED
        BY <2>3, <4>1, <4>2 DEF Written
    <3>4. ~raced => Reckoned(a)'
      BY <2>1, <2>3, <3>1, <3>3 DEF Reckoned, Active, Off
    <3> QED
      BY <1>1, <1>9, <2>3, <3>2, <3>4, StepApart DEF Step
  <2>5. CASE ~new
    <3>1. todo' = [todo EXCEPT ![a] = <<>> \o Tail(@)] /\ count'[a] = Stored[Counter]
      BY <1>9, <2>2, <2>5 DEF Get, Locals
    <3>2. todo'[a] = Tail(todo[a])
      BY <2>1, <3>1, TailOf, ConcatEmptySeq DEF Locals
    <3>3. Counter \in DOMAIN Stored
      BY <2>2, <2>5 DEF Has
    <3>4. file.kind = "json" /\ Stored = file.cfg
      BY <2>3, <3>3 DEF Stored, Empty
    <3>5. count'[a] \in Counts
      BY <3>1, <3>3, <3>4 DEF CounterFile
    <3>6. Counting(a)'
      BY <1>2, <2>1, <2>3, <3>2, <3>4, <3>5, CounterCallsLeft DEF Counting, Call
    <3>7. ~raced => count'[a].number = adds
      BY <3>1, <3>3, <3>4 DEF Written, CounterFile, Has
    <3>8. ~raced => Reckoned(a)'
      BY <2>3, <3>7 DEF Reckoned, Active
    <3> QED
      BY <1>1, <1>9, <2>3, <3>6, <3>8, StepApart DEF Step
  <2> QED
    BY <2>4, <2>5
<1>10. ASSUME NEW a \in Actors, ReadForPut(a) PROVE CounterFile'
  <2>1. /\ UNCHANGED <<file, lock, todo, count, version, last, adds, raced>>
        /\ pc[a] = "read" /\ Puts(a) /\ pc'[a] = "write" /\ todo[a] # <<>>
        /\ cfg'[a] = With(file.cfg, Key(a), Value(a))
        /\ Call(a).op # "put" => base'[a] = base[a]
    BY <1>10 DEF ReadForPut, Updated, Locals, TypeOK, AtCall, Active
  <2>2. Call(a).op \in Saves /\ Call(a).op # "put"
    BY <2>1, CounterCallsLeft DEF Puts, Saves
  <2>3. cfg'[a][Counter] = count[a]
    BY <2>1, <2>2 DEF With, Key, Value
  <2>4. Counting(a)'
    BY <1>2, <2>1, <2>3 DEF Counting, Call
  <2>5. ~raced /\ base'[a] = version => Reckoned(a)'
    BY <1>2, <2>1, <2>2 DEF Reckoned, Call, Active
  <2> QED
    BY <1>1, <1>10, <2>1, <2>4, <2>5, StepApart DEF Step
<1>11. ASSUME NEW a \in Actors, Crash(a) PROVE CounterFile'
  <2>1. /\ UNCHANGED <<todo, cfg, count, version, base, last, adds>>
        /\ pc'[a] = "crashed" /\ file'.cfg = file.cfg /\ (~raced' => ~raced)
    BY <1>11 DEF Crash, Locals, TypeOK
  <2>2. file'.kind = "absent" => file.kind = "absent"
    BY <1>11, StepApart DEF Apart
  <2>3. Counting(a)'
    <3>1. file.kind # "absent" => file'.kind # "absent"
      BY <2>2
    <3> QED
      BY <1>2, <2>1, <3>1 DEF Counting, Call
  <2>4. Reckoned(a)'
    BY <2>1 DEF Reckoned, Active
  <2> QED
    BY <1>1, <1>11, <2>1, <2>3, <2>4, StepApart
<1>12. ASSUME NEW a \in Actors, Close(a) PROVE CounterFile'
  <2>1. /\ pc[a] \in Locking /\ file'.cfg = cfg[a] /\ file'.kind = "json" /\ todo[a] # <<>>
        /\ UNCHANGED <<cfg, count>> /\ base'[a] = version + 1 /\ version' = version + 1
        /\ raced' = (raced \/ base[a] # version)
    BY <1>12 DEF Close, Locals, AtCall, Active
  <2>2. \A b \in Actors : base'[b] = version' => b = a
    BY <1>12, <2>1, StepApart DEF Locals, Apart, Step
  <2>3. Counter \in DOMAIN file'.cfg => file'.cfg[Counter] \in Counts
    BY <1>2, <2>1 DEF Counting
  <2>4. CASE pc[a] = "resetting"
    <3>1. pc'[a] = "verify" /\ UNCHANGED <<todo, last, adds>>
      BY <1>12, <2>4 DEF Close, TypeOK
    <3>2. Counting(a)' /\ Reckoned(a)'
      BY <1>2, <2>1, <2>4, <3>1 DEF Counting, Reckoned, Call, Saves
    <3>3. \A b \in Actors : Counting(b)'
      BY <1>12, <3>2, StepApart, OthersCounting DEF Step
    <3> QED
      BY <2>1, <2>2, <2>3, <3>1, <3>2, <3>3 DEF CounterFile, Has
  <2>5. CASE pc[a] = "writing"
    <3>1. /\ pc'[a] = "idle" /\ todo'[a] = Tail(todo[a])
          /\ last' = With(last, Key(a), cfg[a][Key(a)])
          /\ adds' = CASE Call(a).op = "bump" -> adds + 1 [] Call(a).op = "clear" -> 0
                       [] OTHER -> adds
      BY <1>12, <2>5 DEF Close, TypeOK, Locals
    <3>2. Call(a).op \in Saves /\ Call(a).op # "put"
      BY <2>1, <2>5, CounterCallsLeft DEF Locals, AtCall, Puts, Saves
    <3>3. Key(a) = Counter /\ Value(a) = count[a]
      BY <3>2 DEF Key, Value
    <3>4. Counting(a)'
      BY <1>2, <2>1, <2>5, <3>1, CounterCallsLeft DEF Counting, Call
    <3>5. ~raced' => count[a].number = adds'
      BY <1>2, <2>1, <2>5, <3>1, <3>2 DEF Reckoned, Active
    <3>6. ~raced' => last'[Counter].number = adds'
      <4>1. ~raced' => cfg[a][Counter] = count[a]
        BY <2>1, <2>5, <3>3 DEF Written, Fresh, With
      <4>2. last'[Counter] = cfg[a][Counter]
        BY <3>1, <3>3 DEF With
      <4> QED
        BY <3>5, <4>1, <4>2
    <3>7. ~raced' => Reckoned(a)'
      BY <2>1, <3>1, <3>5 DEF Reckoned, Active
    <3>8. \A b \in Actors : Counting(b)'
      BY <1>12, <3>4, StepApart, OthersCounting DEF Step
    <3> QED
      BY <2>2, <2>3, <3>6, <3>7, <3>8 DEF CounterFile
  <2> QED
    BY <2>1, <2>4, <2>5
<1>13. CASE UNCHANGED vars
  BY <1>13 DEF vars, io, history, CounterFile, Counting, Reckoned, Call, Has
<1>14. ASSUME NEW a \in Actors, LookDir(a) \/ MakeDir(a) PROVE CounterFile'
  <2>1. /\ UNCHANGED <<todo, file, lock, cfg, count, version, base, last, adds, raced>>
        /\ pc[a] \in {"look", "mkdir"} /\ pc'[a] \in {"mkdir", "check", "beaten"}
    BY <1>14 DEF LookDir, MakeDir, Locals, TypeOK, history
  <2>2. Call(a).op = "create"
    BY <1>2, <2>1 DEF Counting
  <2>3. Counting(a)'
    BY <1>2, <2>1, <2>2 DEF Counting, Call
  <2>4. Reckoned(a)'
    BY <2>1, <2>2 DEF Reckoned, Call, Saves
  <2> QED
    BY <1>1, <1>14, <2>1, <2>3, <2>4, StepApart DEF Step
<1> QED
  BY <1>3, <1>4, <1>5, <1>6, <1>7, <1>8, <1>9, <1>10, <1>11, <1>12, <1>13, <1>14
  DEF Next, Step, Done

\* What was put stays, and the counter counts, until a write is based on an older file
\* than the one it replaces (KeptUnlessRaced): an overtaken put, increment or creation,
\* or a killed write, and nothing else, loses what was saved.
THEOREM CookieKept == Spec => []KeptUnlessRaced
<1>1. Init => KeptInv
  <2> SUFFICES ASSUME Init PROVE KeptInv
    OBVIOUS
  <2>1. TypeOK /\ Held
    BY CookieAssumption DEF Init, TypeOK, Held
  <2>2. \A a \in Actors : todo[a] \in Seq(AnyCall)
    <3>1. todo \in [Actors -> Seq(Given)]
      BY CookieAssumption DEF Init
    <3>2. Given \subseteq AnyCall
      BY DEF AnyCall
    <3>3. \A s \in Seq(Given) : s \in Seq(AnyCall)
      BY <3>2, SeqMonotonic
    <3> QED
      BY <3>1, <3>3
  <2>3. Locals
    BY <2>2, CookieAssumption DEF Init, Locals, AtCall, Active
  <2>4. Written
    BY DEF Init, Written, Fresh, Empty
  <2>5. ASSUME \A a \in Actors : OnUserFile(todo[a]) PROVE UserFile
    BY <2>5 DEF Init, UserFile, Empty
  <2>6. ASSUME \A a \in Actors : OnCounterFile(todo[a]) PROVE CounterFile
    <3>1. ASSUME NEW a \in Actors PROVE Counting(a) /\ Reckoned(a)
      <4>1. CounterCalls(todo[a])
        BY <2>6 DEF OnCounterFile, CounterCalls, Saves
      <4>2. todo[a] # <<>> => Call(a).op = "create"
        BY <2>2, <2>6, TailOf DEF OnCounterFile, Call
      <4>3. count[a] \in Counts
        BY DEF Init, Off, Counts
      <4> QED
        BY <4>1, <4>2, <4>3 DEF Init, Counting, Reckoned, Active, Empty
    <3> QED
      BY <3>1 DEF Init, CounterFile, Empty, Has
  <2> QED
    BY <2>1, <2>3, <2>4, <2>5, <2>6, CookieAssumption DEF KeptInv, Init
<1>2. TypeOK' /\ Held' /\ KeptInv /\ [Next]_vars => KeptInv'
  BY NextLocals, NextWritten, NextUser, NextCounter DEF KeptInv
<1>3. KeptInv => KeptUnlessRaced
  <2> SUFFICES ASSUME KeptInv, ~raced, file.kind = "json" PROVE KeptUnlessRaced
    BY DEF KeptUnlessRaced
  <2>1. file.cfg = last
    BY DEF KeptInv, Written
  <2>2. Has(last, Counter) => last[Counter].number = adds
    BY DEF KeptInv, UserFile, CounterFile, Has
  <2> QED
    BY <2>1, <2>2 DEF KeptUnlessRaced, Has
<1> QED
  BY <1>1, <1>2, <1>3, CookieTypes, CookieHeld, PTL DEF Spec
=============================================================================
