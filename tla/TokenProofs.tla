---------------------------- MODULE TokenProofs -----------------------------
(***************************************************************************)
(* What a login keeps, for any number of threads, processes, users, calls,   *)
(* expirations and crashes.                                                  *)
(***************************************************************************)
EXTENDS Token, FiniteSetTheorems, TLAPS

(* Types. *)

Calls == Users \cup {"call", "logout"}

Words == {"token", "clear", "active", "save", "env", "refresh"}

\* The last n writes of a script.
LastWrites(n) == [i \in 1..n |-> Writes[9 - n + i]]

\* What thread t has still to write, and what it is at.
Part(t) ==
    /\ Len(script[t]) \in 0..9 /\ script[t] = LastWrites(Len(script[t]))
    /\ script[t] # <<>> => pc[t] \in {"set", "dead"}
    /\ pc[t] \notin {"idle", "dead"} => todo[t] # <<>> /\ P(t) \in started
    /\ pc[t] = "login" => Head(todo[t]) \in Users /\ ~second[t]
    /\ pc[t] = "post" => newRefresh[t] # Absent
    /\ pc[t] = "dead" => crashes > 0

Local ==
    /\ todo \in [Threads -> Seq(Calls)]
    /\ script \in [Threads -> Seq(Words)]
    /\ second \in [Threads -> BOOLEAN]
    /\ outcome \in [Threads -> {"none", "ok", "error", "600", "TypeError"}]

World ==
    /\ scene \in Scenes /\ epoch \in 0..MaxEpoch /\ crashes \in Nat
    /\ refused \in BOOLEAN /\ bare \in BOOLEAN

TypeInv == TypeOK /\ World /\ Local /\ \A t \in Threads : Part(t)

-----------------------------------------------------------------------------
(* What the calls are. *)

\* What is left to do was to be done, so that who has no calls is at none.
Programme ==
    \A t \in Threads :
        /\ \A i \in 1..Len(todo[t]) : todo[t][i] \in Kinds
        /\ scene.calls[t] = <<>> => todo[t] = <<>>

TodoInv == TypeInv /\ Programme

-----------------------------------------------------------------------------
(* One login. *)

OneLogin(login) ==
    login.token # None /\ login.refresh # None => login.token.user = login.refresh

\* What thread t sets is one login; between the writes that clear and set the refresh
\* token there is none.
Orderly(t) ==
    pc[t] = "set" =>
      /\ newRefresh[t] # Absent => OneLogin([token |-> newToken[t], refresh |-> newRefresh[t]])
      /\ Len(script[t]) \in 3..7 => env[P(t)].refresh = None
      /\ Len(script[t]) \in 3..4 => env[P(t)].token = newToken[t]

LoginInv ==
    OneThreadEach =>
      /\ OneLogin(cookie)
      /\ \A p \in Procs : OneLogin(env[p])
      /\ \A t \in Threads : Orderly(t)

-----------------------------------------------------------------------------
(* The refresh token of one process whose threads make requests only. *)

Firsts == {k \in Tokens : k # None /\ k.user = First}
Alike == \A t, u \in Threads : P(t) = P(u)
Calm == crashes = 0 /\ ~bare /\ Kinds \subseteq {"call"} /\ Alike

\* A thread renews with the refresh token, or finds none because another is between the
\* writes that clear and set it.
Renewing(t) ==
    /\ pc[t] # "login"
    /\ pc[t] = "set" => newToken[t] \in Firsts /\ newRefresh[t] = First
    /\ pc[t] = "post" => newRefresh[t] \in {First, None}

Cleared == \E t \in Threads : Len(script[t]) \in 3..7
Unsaved == \E t \in Threads : script[t] # <<>>

Shared(p) ==
    /\ token[p] \in Firsts \cup {None}
    /\ p \notin started => cookie.refresh = First
    /\ p \in started =>
         /\ env[p].token \in Firsts
         /\ env[p].refresh = First \/ (env[p].refresh = None /\ Cleared)
         /\ cookie = env[p] \/ Unsaved

\* Only processes that have a thread are started.
Begun == started \subseteq {P(t) : t \in Threads}

RefreshInv ==
    /\ Begun
    /\ Calm => /\ cookie.token \in Firsts
               /\ \A t \in Threads : Renewing(t) /\ Shared(P(t))

-----------------------------------------------------------------------------
(* A thread alone. *)

Alone(t) == \A u \in Threads \ {t} : scene.calls[u] = <<>>

\* As long as it has a refresh token and the service refuses nothing it has both tokens, or
\* is about to set them: n writes are left.
InSession(t) ==
    /\ ~second[t] /\ pc[t] # "lower" /\ (pc[t] = "idle" => outcome[t] # "600")
    /\ P(t) \notin started =>
          cookie.token # None /\ cookie.refresh # None /\ active[P(t)]
    /\ P(t) \in started /\ pc[t] # "dead" =>
          /\ Len(script[t]) <= 6 => active[P(t)]
          /\ Len(script[t]) <= 4 => env[P(t)].token # None
          /\ Len(script[t]) <= 2 => env[P(t)].refresh # None
    /\ pc[t] = "set" => newToken[t] # None /\ newRefresh[t] \notin {None, Absent}
    /\ pc[t] = "post" => newRefresh[t] # None

SessionInv ==
    \A t \in Threads : Alone(t) => InSession(t) \/ refused \/ bare
-----------------------------------------------------------------------------
(* The proofs about types. *)

LEMMA WritesAre ==
    /\ Writes \in Seq(Words) /\ Len(Writes) = 9
    /\ Writes[1] = "token" /\ Writes[2] = "clear" /\ Writes[3] = "active" /\ Writes[4] = "save"
    /\ Writes[5] = "env" /\ Writes[6] = "save" /\ Writes[7] = "refresh" /\ Writes[8] = "active"
    /\ Writes[9] = "save"
  BY DEF Writes, ClearFirst, Words

LEMMA TailIs ==
    ASSUME NEW s \in Seq(Words), s # <<>>
    PROVE  /\ Tail(s) \in Seq(Words) /\ Len(s) \in Nat \ {0} /\ Len(Tail(s)) = Len(s) - 1
           /\ Tail(s) = [i \in 1..(Len(s) - 1) |-> s[i + 1]]
<1> DEFINE r == Tail(s)
<1>1. r \in Seq(Words) /\ Len(s) \in Nat \ {0} /\ Len(r) = Len(s) - 1
      /\ \A i \in 1..Len(r) : r[i] = s[i + 1]
  OBVIOUS
<1> HIDE DEF r
<1>2. r = [i \in 1..Len(r) |-> r[i]]  BY <1>1
<1> QED  BY <1>1, <1>2 DEF r

LEMMA LastOnes ==
    ASSUME NEW n \in 1..9
    PROVE  /\ Head(LastWrites(n)) = Writes[10 - n]
           /\ Tail(LastWrites(n)) = LastWrites(n - 1)
<1>1. LastWrites(n) \in Seq(Words) /\ Len(LastWrites(n)) = n /\ LastWrites(n) # <<>>
  BY WritesAre DEF LastWrites, Words
<1>2. LastWrites(n)[1] = Writes[10 - n]  BY DEF LastWrites
<1>3. Tail(LastWrites(n)) = [i \in 1..(n - 1) |-> LastWrites(n)[i + 1]]  BY <1>1, TailIs
<1>4. \A i \in 1..(n - 1) : LastWrites(n)[i + 1] = Writes[9 - (n - 1) + i]
  BY DEF LastWrites
<1>5. Tail(LastWrites(n)) = LastWrites(n - 1)  BY <1>3, <1>4 DEF LastWrites
<1> QED  BY <1>1, <1>2, <1>5

LEMMA AllOfThem == Writes = LastWrites(9)
<1>1. \A i \in 1..9 : LastWrites(9)[i] = Writes[i]  BY DEF LastWrites
<1>2. Writes = [i \in 1..9 |-> Writes[i]]  BY WritesAre
<1> QED  BY <1>1, <1>2 DEF LastWrites

LEMMA NoneLeft == \A s \in Seq(Words) :
                      /\ s = <<>> <=> Len(s) = 0
                      /\ s = <<>> => s = LastWrites(0)
<1>1. LastWrites(0) = <<>>  BY DEF LastWrites
<1> QED  BY <1>1

LEMMA Programs == \A s \in Scenes : s.proc \in [Threads -> Procs] /\ s.calls \in [Threads -> Seq(Calls)]
  BY TokenAssumption DEF Calls

LEMMA ProcOf == ASSUME TypeInv, NEW t \in Threads PROVE P(t) \in Procs
  BY Programs DEF TypeInv, World, P

LEMMA CallsLeft ==
    ASSUME TypeInv, NEW t \in Threads, todo[t] # <<>>
    PROVE  Head(todo[t]) \in Calls /\ Tail(todo[t]) \in Seq(Calls)
<1>1. todo[t] \in Seq(Calls)  BY DEF TypeInv, Local
<1> QED  BY <1>1

\* From f to g only the entry of thread t may change.
At(f, g, t) == g = [u \in Threads |-> g[u]] /\ \A u \in Threads \ {t} : g[u] = f[u]

LEMMA Changed ==
    ASSUME NEW t \in Threads, NEW S, NEW f \in [Threads -> S], NEW g
    PROVE  /\ g = f => At(f, g, t) /\ g[t] = f[t]
           /\ \A v : g = [f EXCEPT ![t] = v] => At(f, g, t) /\ g[t] = v
  BY DEF At

\* Thread t goes on, what it has being of its type.
Locally(t) ==
    /\ At(pc, pc', t) /\ At(todo, todo', t) /\ At(script, script', t)
    /\ At(newToken, newToken', t) /\ At(newRefresh, newRefresh', t)
    /\ At(second, second', t) /\ At(outcome, outcome', t)
Fits(t) ==
    /\ pc'[t] \in Labels /\ todo'[t] \in Seq(Calls) /\ script'[t] \in Seq(Words)
    /\ newToken'[t] \in Tokens /\ newRefresh'[t] \in Users \cup {None, Absent}
    /\ second'[t] \in BOOLEAN
    /\ outcome'[t] \in {"none", "ok", "error", "600", "TypeError"}
Marked == refused' \in BOOLEAN /\ bare' \in BOOLEAN
Globally ==
    /\ scene' = scene /\ started' = started /\ crashes' = crashes /\ epoch' = epoch
    /\ Marked
RamFits ==
    /\ token' \in [Procs -> Tokens]
    /\ env' \in [Procs -> [token : Tokens, refresh : Users \cup {None}]]
    /\ cookie' \in [token : Tokens, refresh : Users \cup {None}]
    /\ active' \in [Procs -> BOOLEAN]

LEMMA GoesOn ==
    ASSUME TypeInv, NEW t \in Threads, Locally(t), Fits(t), Globally, RamFits, Part(t)'
    PROVE  TypeInv'
<1>1. TypeOK'
  <2>1. pc' \in [Threads -> Labels]  BY DEF TypeInv, TypeOK, Locally, Fits, At
  <2>2. newToken' \in [Threads -> Tokens]  BY DEF TypeInv, TypeOK, Locally, Fits, At
  <2>3. newRefresh' \in [Threads -> Users \cup {None, Absent}]  BY DEF TypeInv, TypeOK, Locally, Fits, At
  <2> QED  BY <2>1, <2>2, <2>3 DEF TypeInv, TypeOK, Globally, RamFits
<1>2. World'  BY DEF TypeInv, World, Globally, Marked
<1>3. Local'
  <2>1. todo' \in [Threads -> Seq(Calls)]  BY DEF TypeInv, Local, Locally, Fits, At
  <2>2. script' \in [Threads -> Seq(Words)]  BY DEF TypeInv, Local, Locally, Fits, At
  <2>3. second' \in [Threads -> BOOLEAN]  BY DEF TypeInv, Local, Locally, Fits, At
  <2>4. outcome' \in [Threads -> {"none", "ok", "error", "600", "TypeError"}]
    BY DEF TypeInv, Local, Locally, Fits, At
  <2> QED  BY <2>1, <2>2, <2>3, <2>4 DEF Local
<1>4. ASSUME NEW u \in Threads PROVE Part(u)'
  <2>1. CASE u = t  BY <2>1
  <2>2. CASE u # t
    <3>1. /\ pc'[u] = pc[u] /\ script'[u] = script[u] /\ todo'[u] = todo[u] /\ P(u)' = P(u)
          /\ second'[u] = second[u] /\ newRefresh'[u] = newRefresh[u]
      BY <1>4, <2>2 DEF Locally, At, Globally, P
    <3>2. Part(u)  BY DEF TypeInv
    <3> QED  BY <3>1, <3>2 DEF Globally, Part
  <2> QED  BY <2>1, <2>2
<1> QED  BY <1>1, <1>2, <1>3, <1>4 DEF TypeInv

LEMMA RamStays == ASSUME TypeInv, UNCHANGED <<ram, cookie>> PROVE RamFits
  BY DEF TypeInv, TypeOK, RamFits, ram

LEMMA InitTypes == Init => TypeInv
<1> SUFFICES ASSUME Init PROVE TypeInv  OBVIOUS
<1>1. First \in Users /\ MaxEpoch \in Nat  BY TokenAssumption
<1>2. TypeOK
  <2>1. [user |-> First, epoch |-> 0] \in Tokens /\ None \in Tokens  BY <1>1 DEF Tokens
  <2>2. cookie \in [token : Tokens, refresh : Users \cup {None}]
    BY <1>1, <2>1 DEF Init
  <2>3. NoLogin \in [token : Tokens, refresh : Users \cup {None}]  BY <2>1 DEF NoLogin
  <2>4. env \in [Procs -> [token : Tokens, refresh : Users \cup {None}]]  BY <2>3 DEF Init
  <2> QED  BY <2>1, <2>2, <2>4 DEF Init, TypeOK, Labels
<1>3. World
  <2>1. scene \in Scenes /\ epoch = 0 /\ crashes = 0 /\ refused = FALSE  BY Zenon DEF Init
  <2>2. refused \in BOOLEAN /\ bare \in BOOLEAN
    <3>1. PICK x \in {First, None} : bare = (x = None)  BY DEF Init
    <3> QED  BY <2>1, <3>1, Zenon
  <2>3. epoch \in 0..MaxEpoch /\ crashes \in Nat  BY <1>1, <2>1
  <2> QED  BY <2>1, <2>2, <2>3 DEF World
<1>4. Local
  <2>1. todo \in [Threads -> Seq(Calls)]  BY Programs DEF Init
  <2>2. script \in [Threads -> Seq(Words)]  BY DEF Init
  <2> QED  BY <2>1, <2>2 DEF Local, Init
<1>5. ASSUME NEW t \in Threads PROVE Part(t)
  <2>1. script[t] = <<>>  BY DEF Init
  <2>2. Len(script[t]) = 0 /\ script[t] = LastWrites(0)
    <3>1. <<>> \in Seq(Words) /\ Len(<<>>) = 0  OBVIOUS
    <3> QED  BY <2>1, <3>1, NoneLeft
  <2>3. pc[t] = "idle"  BY DEF Init
  <2> QED  BY <2>1, <2>2, <2>3 DEF Part
<1> QED  BY <1>2, <1>3, <1>4, <1>5 DEF TypeInv

\* What thread t has is of its type.
LEMMA PartOf ==
    ASSUME TypeInv, NEW t \in Threads
    PROVE  /\ Part(t) /\ pc[t] \in Labels /\ todo[t] \in Seq(Calls) /\ P(t) \in Procs
           /\ newToken[t] \in Tokens /\ newRefresh[t] \in Users \cup {None, Absent}
           /\ script[t] \in Seq(Words) /\ second[t] \in BOOLEAN
           /\ outcome[t] \in {"none", "ok", "error", "600", "TypeError"}
<1>1. P(t) \in Procs  BY ProcOf
<1>2. pc[t] \in Labels /\ newToken[t] \in Tokens /\ newRefresh[t] \in Users \cup {None, Absent}
  BY DEF TypeInv, TypeOK
<1>3. /\ todo[t] \in Seq(Calls) /\ script[t] \in Seq(Words) /\ second[t] \in BOOLEAN
      /\ outcome[t] \in {"none", "ok", "error", "600", "TypeError"}
  BY DEF TypeInv, Local
<1>4. Part(t)  BY DEF TypeInv
<1> QED  BY <1>1, <1>2, <1>3, <1>4, Zenon

\* A variable that thread t changes at its own entry, or leaves.
LEMMA Entries ==
    ASSUME TypeInv, NEW t \in Threads
    PROVE  /\ pc' = pc => At(pc, pc', t) /\ pc'[t] = pc[t]
           /\ \A v : pc' = [pc EXCEPT ![t] = v] => At(pc, pc', t) /\ pc'[t] = v
           /\ todo' = todo => At(todo, todo', t) /\ todo'[t] = todo[t]
           /\ \A v : todo' = [todo EXCEPT ![t] = v] => At(todo, todo', t) /\ todo'[t] = v
           /\ script' = script => At(script, script', t) /\ script'[t] = script[t]
           /\ \A v : script' = [script EXCEPT ![t] = v] => At(script, script', t) /\ script'[t] = v
           /\ newToken' = newToken => At(newToken, newToken', t) /\ newToken'[t] = newToken[t]
           /\ \A v : newToken' = [newToken EXCEPT ![t] = v] =>
                       At(newToken, newToken', t) /\ newToken'[t] = v
           /\ newRefresh' = newRefresh =>
                At(newRefresh, newRefresh', t) /\ newRefresh'[t] = newRefresh[t]
           /\ \A v : newRefresh' = [newRefresh EXCEPT ![t] = v] =>
                       At(newRefresh, newRefresh', t) /\ newRefresh'[t] = v
           /\ second' = second => At(second, second', t) /\ second'[t] = second[t]
           /\ \A v : second' = [second EXCEPT ![t] = v] => At(second, second', t) /\ second'[t] = v
           /\ outcome' = outcome => At(outcome, outcome', t) /\ outcome'[t] = outcome[t]
           /\ \A v : outcome' = [outcome EXCEPT ![t] = v] =>
                       At(outcome, outcome', t) /\ outcome'[t] = v
<1>1. /\ pc \in [Threads -> Labels] /\ newToken \in [Threads -> Tokens]
      /\ newRefresh \in [Threads -> Users \cup {None, Absent}]
  BY DEF TypeInv, TypeOK
<1>2. /\ todo \in [Threads -> Seq(Calls)] /\ script \in [Threads -> Seq(Words)]
      /\ second \in [Threads -> BOOLEAN]
      /\ outcome \in [Threads -> {"none", "ok", "error", "600", "TypeError"}]
  BY DEF TypeInv, Local
<1>3. /\ pc' = pc => At(pc, pc', t) /\ pc'[t] = pc[t]
      /\ \A v : pc' = [pc EXCEPT ![t] = v] => At(pc, pc', t) /\ pc'[t] = v
  BY <1>1, Changed
<1>4. /\ todo' = todo => At(todo, todo', t) /\ todo'[t] = todo[t]
      /\ \A v : todo' = [todo EXCEPT ![t] = v] => At(todo, todo', t) /\ todo'[t] = v
  BY <1>2, Changed
<1>5. /\ script' = script => At(script, script', t) /\ script'[t] = script[t]
      /\ \A v : script' = [script EXCEPT ![t] = v] => At(script, script', t) /\ script'[t] = v
  BY <1>2, Changed
<1>6. /\ newToken' = newToken => At(newToken, newToken', t) /\ newToken'[t] = newToken[t]
      /\ \A v : newToken' = [newToken EXCEPT ![t] = v] =>
                  At(newToken, newToken', t) /\ newToken'[t] = v
  BY <1>1, Changed
<1>7. /\ newRefresh' = newRefresh =>
           At(newRefresh, newRefresh', t) /\ newRefresh'[t] = newRefresh[t]
      /\ \A v : newRefresh' = [newRefresh EXCEPT ![t] = v] =>
                  At(newRefresh, newRefresh', t) /\ newRefresh'[t] = v
  BY <1>1, Changed
<1>8. /\ second' = second => At(second, second', t) /\ second'[t] = second[t]
      /\ \A v : second' = [second EXCEPT ![t] = v] => At(second, second', t) /\ second'[t] = v
  BY <1>2, Changed
<1>9. /\ outcome' = outcome => At(outcome, outcome', t) /\ outcome'[t] = outcome[t]
      /\ \A v : outcome' = [outcome EXCEPT ![t] = v] =>
                  At(outcome, outcome', t) /\ outcome'[t] = v
  BY <1>2, Changed
<1> QED  BY <1>3, <1>4, <1>5, <1>6, <1>7, <1>8, <1>9
-----------------------------------------------------------------------------
(* What a step does, and the types after it. *)

\* Values of a thread that a step sets.
LEMMA SetIs ==
    ASSUME TypeInv, NEW t \in Threads, NEW k, NEW r, Sets(t, k, r)
    PROVE  /\ At(script, script', t) /\ script'[t] = Writes
           /\ At(newToken, newToken', t) /\ newToken'[t] = k
           /\ At(newRefresh, newRefresh', t) /\ newRefresh'[t] = r
  BY Entries DEF Sets

LEMMA GoesTo ==
    ASSUME TypeInv, NEW t \in Threads, NEW l, GoTo(t, l)
    PROVE  At(pc, pc', t) /\ pc'[t] = l
  BY Entries DEF GoTo

LEMMA EndIs ==
    ASSUME TypeInv, NEW t \in Threads, NEW how, End(t, how)
    PROVE  /\ At(pc, pc', t) /\ pc'[t] = "idle"
           /\ At(outcome, outcome', t) /\ outcome'[t] = how
           /\ At(todo, todo', t) /\ todo'[t] = Tail(todo[t])
<1>1. GoTo(t, "idle") /\ outcome' = [outcome EXCEPT ![t] = how]
      /\ todo' = [todo EXCEPT ![t] = Tail(todo[t])]
  BY DEF End
<1> QED  BY ZenonT(40), <1>1, Entries, GoesTo

LEMMA BeginIs ==
    ASSUME TypeInv, NEW t \in Threads, Begin(t)
    PROVE  /\ pc[t] = "idle" /\ todo[t] # <<>> /\ P(t) \in started
           /\ Locally(t) /\ todo'[t] = todo[t] /\ second'[t] = FALSE /\ outcome'[t] = outcome[t]
           /\ \/ /\ Head(todo[t]) = "call" /\ pc'[t] = "check" /\ script'[t] = script[t]
                 /\ newToken'[t] = newToken[t] /\ newRefresh'[t] = newRefresh[t]
                 /\ bare' = bare
              \/ /\ Head(todo[t]) = "logout" /\ pc'[t] = "set" /\ script'[t] = Writes
                 /\ newToken'[t] = None /\ newRefresh'[t] = None /\ bare' = TRUE
              \/ /\ Head(todo[t]) \notin {"call", "logout"} /\ pc'[t] = "login"
                 /\ script'[t] = script[t]
                 /\ newToken'[t] = newToken[t] /\ newRefresh'[t] = newRefresh[t]
                 /\ bare' = bare
           /\ UNCHANGED <<ram, cookie, scene, started, crashes, epoch, refused>>
<1>1. /\ todo' = todo /\ outcome' = outcome /\ second' = [second EXCEPT ![t] = FALSE]
      /\ UNCHANGED <<ram, cookie, scene, started, crashes, epoch, refused>>
      /\ pc[t] = "idle" /\ todo[t] # <<>> /\ P(t) \in started
  BY DEF Begin
<1>2. /\ At(todo, todo', t) /\ todo'[t] = todo[t] /\ At(second, second', t) /\ second'[t] = FALSE
      /\ At(outcome, outcome', t) /\ outcome'[t] = outcome[t]
  BY <1>1, Entries
<1>3. CASE Head(todo[t]) = "call"
  <2>1. /\ GoTo(t, "check") /\ script' = script /\ newToken' = newToken
        /\ newRefresh' = newRefresh /\ bare' = bare
    BY <1>3 DEF Begin
  <2>2. At(pc, pc', t) /\ pc'[t] = "check"  BY <2>1, GoesTo
  <2>3. At(script, script', t) /\ At(newToken, newToken', t) /\ At(newRefresh, newRefresh', t)
    BY <2>1, Entries
  <2> QED  BY <1>1, <1>2, <1>3, <2>1, <2>2, <2>3 DEF Locally
<1>4. CASE Head(todo[t]) = "logout"
  <2>1. GoTo(t, "set") /\ Sets(t, None, None) /\ bare' = TRUE  BY <1>4 DEF Begin
  <2>2. At(pc, pc', t) /\ pc'[t] = "set"  BY <2>1, GoesTo
  <2> QED  BY <1>1, <1>2, <1>4, <2>1, <2>2, SetIs DEF Locally
<1>5. CASE Head(todo[t]) \notin {"call", "logout"}
  <2>1. /\ GoTo(t, "login") /\ script' = script /\ newToken' = newToken
        /\ newRefresh' = newRefresh /\ bare' = bare
    BY <1>5 DEF Begin
  <2>2. At(pc, pc', t) /\ pc'[t] = "login"  BY <2>1, GoesTo
  <2>3. At(script, script', t) /\ At(newToken, newToken', t) /\ At(newRefresh, newRefresh', t)
    BY <2>1, Entries
  <2> QED  BY <1>1, <1>2, <1>5, <2>1, <2>2, <2>3 DEF Locally
<1> QED  BY <1>3, <1>4, <1>5

LEMMA LoginIs ==
    ASSUME TypeInv, NEW t \in Threads, Login(t)
    PROVE  /\ pc[t] = "login" /\ pc'[t] = "set" /\ script'[t] = Writes
           /\ Locally(t) /\ todo'[t] = todo[t] /\ second'[t] = second[t] /\ outcome'[t] = outcome[t]
           /\ \/ /\ newToken'[t] = [user |-> Head(todo[t]), epoch |-> epoch]
                 /\ \/ newRefresh'[t] = Head(todo[t]) /\ bare' = (Head(todo[t]) = Absent)
                    \/ newRefresh'[t] = Absent /\ bare' = TRUE
                 /\ refused' = FALSE
              \/ newToken'[t] = None /\ newRefresh'[t] = None /\ bare' = TRUE /\ refused' = TRUE
           /\ UNCHANGED <<ram, cookie, scene, started, crashes, epoch>>
<1>1. /\ todo' = todo /\ outcome' = outcome /\ second' = second /\ pc[t] = "login"
      /\ UNCHANGED <<ram, cookie, scene, started, crashes, epoch>> /\ GoTo(t, "set")
  BY DEF Login
<1>2. /\ At(todo, todo', t) /\ todo'[t] = todo[t] /\ At(second, second', t)
      /\ second'[t] = second[t] /\ At(outcome, outcome', t) /\ outcome'[t] = outcome[t]
  BY <1>1, Entries
<1>3. At(pc, pc', t) /\ pc'[t] = "set"  BY <1>1, GoesTo
<1>4. ASSUME NEW r \in {Head(todo[t]), Absent},
             Sets(t, [user |-> Head(todo[t]), epoch |-> epoch], r),
             bare' = (r = Absent) /\ refused' = FALSE
      PROVE  /\ Locally(t) /\ script'[t] = Writes /\ newRefresh'[t] = r
             /\ newToken'[t] = [user |-> Head(todo[t]), epoch |-> epoch]
  BY <1>1, <1>2, <1>3, <1>4, SetIs DEF Locally
<1>5. CASE Sets(t, None, None) /\ bare' = TRUE /\ refused' = TRUE
  BY <1>1, <1>2, <1>3, <1>5, SetIs DEF Locally
<1>6. CASE \E r \in {Head(todo[t]), Absent} :
             /\ Sets(t, [user |-> Head(todo[t]), epoch |-> epoch], r)
             /\ bare' = (r = Absent) /\ refused' = FALSE
  <2>1. PICK r \in {Head(todo[t]), Absent} :
             /\ Sets(t, [user |-> Head(todo[t]), epoch |-> epoch], r)
             /\ bare' = (r = Absent) /\ refused' = FALSE
    BY <1>6
  <2>2. /\ Locally(t) /\ script'[t] = Writes /\ newRefresh'[t] = r
        /\ newToken'[t] = [user |-> Head(todo[t]), epoch |-> epoch]
    BY <1>4, <2>1
  <2> QED  BY <1>1, <1>2, <1>3, <2>1, <2>2
<1> QED  BY <1>5, <1>6 DEF Login

\* Thread t sets nothing.
Idles(t) ==
    /\ At(script, script', t) /\ script'[t] = script[t]
    /\ At(newToken, newToken', t) /\ newToken'[t] = newToken[t]
    /\ At(newRefresh, newRefresh', t) /\ newRefresh'[t] = newRefresh[t]

LEMMA IdlesIf ==
    ASSUME TypeInv, NEW t \in Threads, UNCHANGED <<script, newToken, newRefresh>>
    PROVE  Idles(t)
  BY Entries DEF Idles

\* Thread t stays at its call.
Goon(t) ==
    /\ At(todo, todo', t) /\ todo'[t] = todo[t] /\ At(outcome, outcome', t)
    /\ outcome'[t] = outcome[t]
SameSecond(t) == At(second, second', t) /\ second'[t] = second[t]
To(t, l) == At(pc, pc', t) /\ pc'[t] = l

LEMMA GoonIf == ASSUME TypeInv, NEW t \in Threads, UNCHANGED <<todo, outcome>> PROVE Goon(t)
  BY Entries DEF Goon
LEMMA SecondIf == ASSUME TypeInv, NEW t \in Threads, second' = second PROVE SameSecond(t)
  BY Entries DEF SameSecond

\* Its call is over.
Ends(t, how) ==
    /\ To(t, "idle") /\ At(outcome, outcome', t) /\ outcome'[t] = how
    /\ At(todo, todo', t) /\ todo'[t] = Tail(todo[t])

LEMMA EndsIf == ASSUME TypeInv, NEW t \in Threads, NEW how, End(t, how) PROVE Ends(t, how)
  BY EndIs DEF Ends, To

LEMMA NoAnswerIs ==
    ASSUME TypeInv, NEW t \in Threads, NoAnswer(t)
    PROVE  /\ pc[t] \in {"login", "post"} /\ Ends(t, "error") /\ Idles(t) /\ SameSecond(t)
           /\ UNCHANGED <<ram, cookie, world>>
  BY EndsIf, IdlesIf, SecondIf DEF NoAnswer

\* Thread t has set what it had to.
Stops(t) ==
    /\ At(script, script', t) /\ script'[t] = <<>>
    /\ At(newToken, newToken', t) /\ newToken'[t] = newToken[t]
    /\ At(newRefresh, newRefresh', t) /\ newRefresh'[t] = newRefresh[t]

LEMMA WrittenIs ==
    ASSUME TypeInv, NEW t \in Threads, Written(t)
    PROVE  /\ pc[t] = "set" /\ (script[t] = <<>> \/ newRefresh[t] = Absent) /\ Stops(t)
           /\ SameSecond(t)
           /\ \/ Head(todo[t]) = "call" /\ To(t, "send") /\ Goon(t)
              \/ Head(todo[t]) # "call" /\ Ends(t, "ok")
           /\ UNCHANGED <<ram, cookie, world>>
<1>1. Stops(t) /\ SameSecond(t)
  <2>1. /\ script' = [script EXCEPT ![t] = <<>>] /\ newToken' = newToken
        /\ newRefresh' = newRefresh /\ second' = second
    BY DEF Written
  <2> QED  BY <2>1, Entries, SecondIf DEF Stops
<1>2. CASE Head(todo[t]) = "call"
  <2>1. GoTo(t, "send") /\ UNCHANGED <<todo, outcome>>  BY <1>2 DEF Written
  <2> QED  BY <1>1, <1>2, <2>1, GoesTo, GoonIf DEF Written, NoMore, To
<1>3. CASE Head(todo[t]) # "call"
  <2>1. End(t, "ok")  BY <1>3 DEF Written
  <2> QED  BY <1>1, <1>3, <2>1, EndsIf DEF Written, NoMore
<1> QED  BY <1>2, <1>3

LEMMA CheckIs ==
    ASSUME TypeInv, NEW t \in Threads, Check(t)
    PROVE  /\ pc[t] = "check" /\ (To(t, "send") \/ To(t, "renew"))
           /\ Goon(t) /\ Idles(t) /\ SameSecond(t) /\ UNCHANGED <<ram, cookie, world>>
<1>1. Idles(t) /\ SameSecond(t) /\ Goon(t)  BY IdlesIf, SecondIf, GoonIf DEF Check
<1>2. GoTo(t, "send") \/ GoTo(t, "renew")  BY DEF Check
<1> QED  BY <1>1, <1>2, GoesTo DEF Check, To

\* It tries a second time, or raises.
Tries(t) ==
    \/ second[t] /\ Ends(t, "600") /\ SameSecond(t)
    \/ /\ ~second[t] /\ To(t, "renew") /\ Goon(t) /\ At(second, second', t) /\ second'[t] = TRUE

LEMMA TriesIf == ASSUME TypeInv, NEW t \in Threads, NotRenewed(t) PROVE Tries(t)
<1>1. CASE second[t]
  BY <1>1, EndsIf, SecondIf DEF NotRenewed, Tries
<1>2. CASE ~second[t]
  <2>1. second' = [second EXCEPT ![t] = TRUE] /\ GoTo(t, "renew") /\ UNCHANGED <<todo, outcome>>
    BY <1>2 DEF NotRenewed
  <2> QED  BY ZenonT(40), <1>2, <2>1, Entries, GoesTo, GoonIf DEF Tries, To
<1> QED  BY <1>1, <1>2

LEMMA RenewIs ==
    ASSUME TypeInv, NEW t \in Threads, Renew(t)
    PROVE  /\ pc[t] = "renew" /\ Idles(t)
           /\ \/ ~active[P(t)] /\ Tries(t)
              \/ /\ active[P(t)] /\ Goon(t) /\ SameSecond(t)
                 /\ \/ To(t, "lower") /\ (Token(P(t)) = None \/ env[P(t)].refresh = None)
                    \/ To(t, "test")
           /\ UNCHANGED <<ram, cookie, world>>
<1>1. Idles(t)  BY IdlesIf DEF Renew
<1>2. CASE ~active[P(t)]  BY <1>1, <1>2, TriesIf DEF Renew
<1>3. CASE active[P(t)]
  <2>1. /\ UNCHANGED <<todo, second, outcome>>
        /\ \/ GoTo(t, "lower") /\ (Token(P(t)) = None \/ env[P(t)].refresh = None)
           \/ GoTo(t, "test")
    BY <1>3 DEF Renew
  <2> QED  BY <1>1, <1>3, <2>1, GoesTo, GoonIf, SecondIf DEF Renew, To
<1> QED  BY <1>2, <1>3

LEMMA LowerIs ==
    ASSUME TypeInv, NEW t \in Threads, Lower(t)
    PROVE  /\ pc[t] = "lower" /\ To(t, "test") /\ Goon(t) /\ Idles(t) /\ SameSecond(t)
           /\ active' = [active EXCEPT ![P(t)] = FALSE]
           /\ UNCHANGED <<token, env, cookie, world>>
  BY IdlesIf, SecondIf, GoonIf, GoesTo DEF Lower, To

LEMMA TestIs ==
    ASSUME TypeInv, NEW t \in Threads, Test(t)
    PROVE  /\ pc[t] = "test"
           /\ \/ ~active[P(t)] /\ Tries(t) /\ Idles(t)
              \/ /\ active[P(t)] /\ Goon(t) /\ SameSecond(t) /\ To(t, "post")
                 /\ At(newRefresh, newRefresh', t) /\ newRefresh'[t] = env[P(t)].refresh
                 /\ At(newToken, newToken', t) /\ newToken'[t] = newToken[t]
                 /\ At(script, script', t) /\ script'[t] = script[t]
           /\ UNCHANGED <<ram, cookie, world>>
<1>1. CASE ~active[P(t)]  BY <1>1, IdlesIf, TriesIf DEF Test
<1>2. CASE active[P(t)]
  <2>1. /\ newRefresh' = [newRefresh EXCEPT ![t] = env[P(t)].refresh]
        /\ GoTo(t, "post") /\ UNCHANGED <<todo, second, outcome, script, newToken>>
    BY <1>2 DEF Test
  <2>2. /\ At(newRefresh, newRefresh', t) /\ newRefresh'[t] = env[P(t)].refresh
        /\ At(newToken, newToken', t) /\ newToken'[t] = newToken[t]
        /\ At(script, script', t) /\ script'[t] = script[t]
    BY <2>1, Entries
  <2>3. To(t, "post") /\ Goon(t) /\ SameSecond(t)  BY <2>1, GoesTo, GoonIf, SecondIf DEF To
  <2> QED  BY <1>2, <2>2, <2>3 DEF Test
<1> QED  BY <1>1, <1>2

LEMMA PostIs ==
    ASSUME TypeInv, NEW t \in Threads, Post(t)
    PROVE  /\ pc[t] = "post"
           /\ \/ /\ newRefresh[t] # None /\ To(t, "set") /\ Goon(t) /\ SameSecond(t)
                 /\ At(script, script', t) /\ script'[t] = Writes
                 /\ At(newToken, newToken', t)
                 /\ newToken'[t] = [user |-> newRefresh[t], epoch |-> epoch]
                 /\ At(newRefresh, newRefresh', t) /\ newRefresh'[t] = newRefresh[t]
                 /\ refused' = refused
              \/ /\ newRefresh[t] = None \/ MayRefuse
                 /\ refused' = (refused \/ newRefresh[t] # None) /\ Tries(t) /\ Idles(t)
           /\ UNCHANGED <<ram, cookie, scene, started, crashes, epoch, bare>>
<1>1. pc[t] = "post" /\ UNCHANGED <<ram, cookie, scene, started, crashes, epoch, bare>>
  BY DEF Post
<1>2. CASE /\ newRefresh[t] # None
           /\ Sets(t, [user |-> newRefresh[t], epoch |-> epoch], newRefresh[t])
           /\ GoTo(t, "set") /\ UNCHANGED <<todo, second, outcome, refused>>
  BY <1>1, <1>2, SetIs, GoesTo, GoonIf, SecondIf DEF To
<1>3. CASE /\ newRefresh[t] = None \/ MayRefuse
           /\ refused' = (refused \/ newRefresh[t] # None) /\ NotRenewed(t)
           /\ UNCHANGED <<script, newToken, newRefresh>>
  BY <1>1, <1>3, TriesIf, IdlesIf
<1> QED  BY <1>2, <1>3 DEF Post, Sent

LEMMA SendIs ==
    ASSUME TypeInv, NEW t \in Threads, Send(t)
    PROVE  /\ pc[t] = "send" /\ (Ends(t, "TypeError") \/ Ends(t, "ok"))
           /\ Idles(t) /\ SameSecond(t) /\ UNCHANGED <<ram, cookie, world>>
<1>1. Idles(t) /\ SameSecond(t)  BY IdlesIf, SecondIf DEF Send
<1>2. End(t, "TypeError") \/ End(t, "ok")  BY DEF Send
<1> QED  BY <1>1, <1>2, EndsIf DEF Send
-----------------------------------------------------------------------------
(* The types. *)

LEMMA PartAfter ==
    ASSUME TypeInv, NEW t \in Threads, UNCHANGED <<scene, started, crashes>>,
           pc'[t] # "dead", script'[t] \in {script[t], Writes, <<>>},
           script'[t] # <<>> => pc'[t] = "set",
           pc'[t] = "idle" \/ (todo'[t] # <<>> /\ P(t) \in started),
           pc'[t] = "login" => Head(todo'[t]) \in Users /\ ~second'[t],
           pc'[t] = "post" => newRefresh'[t] # Absent
    PROVE  Part(t)'
<1>1. Part(t)  BY PartOf
<1>2. Len(script'[t]) \in 0..9 /\ script'[t] = LastWrites(Len(script'[t]))
  <2>1. CASE script'[t] = Writes
    <3>1. Len(Writes) = 9 /\ Writes = LastWrites(Len(Writes))  BY WritesAre, AllOfThem
    <3>2. Len(Writes) \in 0..9  BY <3>1
    <3> QED  BY <2>1, <3>1, <3>2, Zenon
  <2>2. CASE script'[t] = script[t]  BY <1>1, <2>2 DEF Part
  <2>3. CASE script'[t] = <<>>
    <3>1. <<>> \in Seq(Words) /\ Len(<<>>) = 0 /\ 0 \in 0..9  OBVIOUS
    <3>2. Len(script'[t]) = 0 /\ script'[t] = LastWrites(0)  BY <2>3, <3>1, NoneLeft
    <3> QED  BY <3>1, <3>2, Zenon
  <2> QED  BY <2>1, <2>2, <2>3
<1>3. P(t)' = P(t)  BY DEF P
<1> QED  BY <1>2, <1>3 DEF Part

\* A thread in the middle of a call.
LEMMA Busy ==
    ASSUME TypeInv, NEW t \in Threads, pc[t] \notin {"idle", "dead"}
    PROVE  todo[t] # <<>> /\ P(t) \in started /\ (pc[t] # "set" => script[t] = <<>>)
  BY PartOf DEF Part

\* A step that keeps what is shared.
LEMMA QuietTypes ==
    ASSUME TypeInv, NEW t \in Threads, Locally(t), Fits(t), Part(t)', Marked,
           UNCHANGED <<ram, cookie, scene, started, crashes, epoch>>
    PROVE  TypeInv'
  BY GoesOn, RamStays DEF Globally

LEMMA NoTokens ==
    /\ None \in Tokens /\ None \in Users \cup {None}
    /\ \A r \in Users, e \in 0..MaxEpoch : [user |-> r, epoch |-> e] \in Tokens
    /\ \A e \in 0..MaxEpoch, r \in Users : [user |-> r, epoch |-> e] # None
  BY TokenAssumption DEF Tokens

LEMMA BeginTypes == ASSUME TypeInv, NEW t \in Threads, Begin(t) PROVE TypeInv'
<1>1. Fits(t)
  BY ZenonT(40), PartOf, BeginIs, WritesAre, NoTokens DEF Fits, Labels
<1>2. Part(t)'
  <2>1. script[t] = <<>>  BY PartOf, BeginIs DEF Part
  <2>2. pc'[t] = "login" => Head(todo[t]) \in Users  BY CallsLeft, BeginIs DEF Calls
  <2>3. ~second'[t] /\ pc'[t] # "post" /\ pc'[t] # "dead"  BY BeginIs
  <2>4. /\ script'[t] \in {script[t], Writes} /\ (script'[t] # <<>> => pc'[t] = "set")
        /\ todo'[t] # <<>> /\ P(t) \in started /\ UNCHANGED <<scene, started, crashes>>
        /\ todo'[t] = todo[t]
    BY <2>1, BeginIs
  <2> QED  BY <2>2, <2>3, <2>4, PartAfter
<1>3. Marked  BY BeginIs DEF Marked, TypeInv, World
<1> QED  BY <1>1, <1>2, <1>3, BeginIs, QuietTypes

LEMMA LoginTypes == ASSUME TypeInv, NEW t \in Threads, Login(t) PROVE TypeInv'
<1>1. Head(todo[t]) \in Users /\ epoch \in 0..MaxEpoch  BY PartOf, LoginIs DEF Part, TypeInv, World
<1>2. Fits(t)
  BY ZenonT(40), <1>1, PartOf, LoginIs, WritesAre, NoTokens DEF Fits, Labels
<1>3. Part(t)'
  <2>1. /\ pc'[t] = "set" /\ script'[t] = Writes /\ todo'[t] # <<>> /\ P(t) \in started
        /\ UNCHANGED <<scene, started, crashes>>
    BY LoginIs, Busy
  <2> QED  BY <2>1, PartAfter
<1>4. Marked  BY LoginIs DEF Marked, TypeInv, World
<1> QED  BY <1>2, <1>3, <1>4, LoginIs, QuietTypes

\* A step that ends a call, or goes on with it, and sets nothing.
LEMMA StopsIf ==
    ASSUME TypeInv, NEW t \in Threads, Idles(t), pc[t] \notin {"idle", "dead", "set"}
    PROVE  Stops(t)
  BY Busy DEF Idles, Stops

LEMMA IdleTypes ==
    ASSUME TypeInv, NEW t \in Threads, Stops(t), pc[t] \notin {"idle", "dead"},
           At(second, second', t), second'[t] \in BOOLEAN,
           \/ \E how \in {"ok", "error", "600", "TypeError"} : Ends(t, how)
           \/ Goon(t) /\ \E l \in Labels \ {"idle", "dead", "login", "post"} : To(t, l)
    PROVE  Locally(t) /\ Fits(t) /\ (UNCHANGED <<scene, started, crashes>> => Part(t)')
<1>1. Locally(t)  BY DEF Stops, Ends, Goon, To, Locally
<1>2. Fits(t)
  <2>1. Tail(todo[t]) \in Seq(Calls) /\ <<>> \in Seq(Words)  BY Busy, CallsLeft
  <2> QED  BY <2>1, PartOf DEF Stops, Ends, Goon, To, Fits, Labels
<1>3. ASSUME UNCHANGED <<scene, started, crashes>> PROVE Part(t)'
  <2>1. script'[t] = <<>>  BY DEF Stops
  <2>2. pc'[t] \notin {"dead", "login", "post"}  BY DEF Ends, Goon, To
  <2>3. pc'[t] = "idle" \/ (todo'[t] # <<>> /\ P(t) \in started)
    BY Busy DEF Ends, Goon, To
  <2> QED  BY <1>3, <2>1, <2>2, <2>3, PartAfter
<1> QED  BY <1>1, <1>2, <1>3

\* Trying again, or not, is such a step.
LEMMA TriesTypes ==
    ASSUME TypeInv, NEW t \in Threads, Idles(t), Tries(t), pc[t] \in {"renew", "test", "post"}
    PROVE  Locally(t) /\ Fits(t) /\ (UNCHANGED <<scene, started, crashes>> => Part(t)')
<1>1. At(second, second', t) /\ second'[t] \in BOOLEAN  BY PartOf DEF Tries, SameSecond
<1>2. \/ \E how \in {"ok", "error", "600", "TypeError"} : Ends(t, how)
      \/ Goon(t) /\ \E l \in Labels \ {"idle", "dead", "login", "post"} : To(t, l)
  BY DEF Tries, Labels
<1> QED  BY <1>1, <1>2, StopsIf, IdleTypes

LEMMA CallTypes ==
    ASSUME TypeInv, NEW t \in Threads,
           NoAnswer(t) \/ Written(t) \/ Check(t) \/ Renew(t) \/ Test(t) \/ Post(t) \/ Send(t)
    PROVE  TypeInv'
<1> DEFINE Stays == UNCHANGED <<ram, cookie, scene, started, crashes, epoch>>
           Fine == Locally(t) /\ Fits(t) /\ Part(t)' /\ Marked
<1>1. ASSUME UNCHANGED <<ram, cookie, world>> PROVE Stays /\ Marked
  BY <1>1 DEF world, Marked, TypeInv, World
<1>2. ASSUME SameSecond(t) PROVE At(second, second', t) /\ second'[t] \in BOOLEAN
  BY <1>2, PartOf DEF SameSecond
<1>3. CASE NoAnswer(t)
  <2>1. Stays /\ Marked  BY <1>1, <1>3, NoAnswerIs
  <2>2. Fine  BY <2>1, <1>2, <1>3, NoAnswerIs, StopsIf, IdleTypes
  <2> QED  BY <2>1, <2>2, QuietTypes
<1>4. CASE Written(t)
  <2>1. Stays /\ Marked  BY <1>1, <1>4, WrittenIs
  <2>2. "send" \in Labels  BY DEF Labels
  <2>3. Fine  BY <2>1, <2>2, <1>2, <1>4, WrittenIs, IdleTypes
  <2> QED  BY <2>1, <2>3, QuietTypes
<1>5. CASE Check(t)
  <2>1. Stays /\ Marked  BY <1>1, <1>5, CheckIs
  <2>2. "send" \in Labels /\ "renew" \in Labels  BY DEF Labels
  <2>3. Fine  BY <2>1, <2>2, <1>2, <1>5, CheckIs, StopsIf, IdleTypes
  <2> QED  BY <2>1, <2>3, QuietTypes
<1>6. CASE Renew(t)
  <2>1. Stays /\ Marked  BY <1>1, <1>6, RenewIs
  <2>2. "lower" \in Labels /\ "test" \in Labels  BY DEF Labels
  <2>3. CASE Tries(t)
    <3>1. Fine  BY <2>1, <2>3, <1>6, RenewIs, TriesTypes
    <3> QED  BY <2>1, <3>1, QuietTypes
  <2>4. CASE Goon(t) /\ SameSecond(t) /\ (To(t, "lower") \/ To(t, "test"))
    <3>1. Fine  BY <2>1, <2>2, <2>4, <1>2, <1>6, RenewIs, StopsIf, IdleTypes
    <3> QED  BY <2>1, <3>1, QuietTypes
  <2> QED  BY <1>6, <2>3, <2>4, RenewIs
<1>7. CASE Test(t)
  <2>1. Stays /\ Marked  BY <1>1, <1>7, TestIs
  <2>2. CASE Tries(t) /\ Idles(t)
    <3>1. Fine  BY <2>1, <2>2, <1>7, TestIs, TriesTypes
    <3> QED  BY <2>1, <3>1, QuietTypes
  <2>3. CASE ~(Tries(t) /\ Idles(t))
    <3>1. Locally(t)  BY <1>7, <2>3, TestIs DEF Goon, SameSecond, To, Locally
    <3>2. env[P(t)].refresh \in Users \cup {None}  BY PartOf DEF TypeInv, TypeOK
    <3>3. Fits(t)  BY <1>7, <2>3, <3>2, PartOf, TestIs DEF Goon, SameSecond, To, Fits, Labels
    <3>4. Part(t)'
      <4>1. script'[t] = script[t] /\ script[t] = <<>> /\ pc'[t] = "post" /\ todo'[t] = todo[t]
        BY <1>7, <2>3, TestIs, Busy DEF Goon, To
      <4>2. todo[t] # <<>> /\ P(t) \in started  BY <1>7, TestIs, Busy
      <4>3. newRefresh'[t] # Absent  BY <1>7, <2>3, <3>2, TestIs, TokenAssumption
      <4> QED  BY <2>1, <4>1, <4>2, <4>3, PartAfter
    <3> QED  BY <2>1, <3>1, <3>3, <3>4, QuietTypes
  <2> QED  BY <2>2, <2>3
<1>8. CASE Post(t)
  <2>1. Stays /\ Marked
    <3>1. (refused \/ newRefresh[t] # None) \in BOOLEAN /\ refused \in BOOLEAN /\ bare \in BOOLEAN
      BY Zenon DEF TypeInv, World
    <3> QED  BY <1>8, <3>1, PostIs DEF Marked
  <2>2. CASE Tries(t) /\ Idles(t)
    <3>1. Fine  BY <2>1, <2>2, <1>8, PostIs, TriesTypes
    <3> QED  BY <2>1, <3>1, QuietTypes
  <2>3. CASE ~(Tries(t) /\ Idles(t))
    <3>1. Locally(t)  BY <1>8, <2>3, PostIs DEF Goon, SameSecond, To, Locally
    <3>2. newRefresh[t] \in Users /\ epoch \in 0..MaxEpoch
      BY <1>8, <2>3, PostIs, PartOf DEF Part, TypeInv, World
    <3>3. Fits(t)
      BY <1>8, <2>3, <3>2, PartOf, PostIs, WritesAre, NoTokens
      DEF Goon, SameSecond, To, Fits, Labels
    <3>4. Part(t)'
      <4>1. script'[t] = Writes /\ pc'[t] = "set" /\ todo'[t] = todo[t]
        BY <1>8, <2>3, PostIs DEF Goon, To
      <4>2. todo[t] # <<>> /\ P(t) \in started  BY <1>8, PostIs, Busy
      <4> QED  BY <2>1, <4>1, <4>2, PartAfter
    <3> QED  BY <2>1, <3>1, <3>3, <3>4, QuietTypes
  <2> QED  BY <2>2, <2>3
<1>9. CASE Send(t)
  <2>1. Stays /\ Marked  BY <1>1, <1>9, SendIs
  <2>2. Fine  BY <2>1, <1>2, <1>9, SendIs, StopsIf, IdleTypes
  <2> QED  BY <2>1, <2>2, QuietTypes
<1> QED  BY <1>3, <1>4, <1>5, <1>6, <1>7, <1>8, <1>9

\* The write that comes when n are left.
Word(n) == Writes[10 - n]

LEMMA WriteIs ==
    ASSUME TypeInv, NEW t \in Threads, Write(t)
    PROVE  /\ pc[t] = "set" /\ Len(script[t]) \in 1..9
           /\ At(pc, pc', t) /\ pc'[t] = "set" /\ Goon(t) /\ SameSecond(t)
           /\ At(newToken, newToken', t) /\ newToken'[t] = newToken[t]
           /\ At(newRefresh, newRefresh', t) /\ newRefresh'[t] = newRefresh[t]
           /\ At(script, script', t) /\ script'[t] \in Seq(Words)
           /\ Len(script'[t]) = Len(script[t]) - 1
           /\ script'[t] = LastWrites(Len(script'[t]))
           /\ world' = world /\ ~(newRefresh[t] = Absent /\ Len(script[t]) = 3)
           /\ token' = IF Len(script[t]) = 9 THEN [token EXCEPT ![P(t)] = newToken[t]] ELSE token
           /\ Len(script[t]) = 8 => env' = [env EXCEPT ![P(t)].refresh = None]
           /\ Len(script[t]) = 5 => env' = [env EXCEPT ![P(t)].token = newToken[t]]
           /\ Len(script[t]) = 3 => env' = [env EXCEPT ![P(t)].refresh = newRefresh[t]]
           /\ Len(script[t]) \notin {8, 5, 3} => env' = env
           /\ active' = IF Len(script[t]) \in {7, 2} THEN [active EXCEPT ![P(t)] = TRUE] ELSE active
           /\ cookie' = IF Len(script[t]) \in {6, 4, 1} THEN env[P(t)] ELSE cookie
<1> DEFINE n == Len(script[t])
<1>1. /\ Part(t) /\ script[t] \in Seq(Words) /\ script[t] # <<>> /\ pc[t] = "set"
      /\ ~(newRefresh[t] = Absent /\ Len(script[t]) = 3)
  BY PartOf DEF Write, NoMore
<1>2. n \in 1..9 /\ script[t] = LastWrites(n)  BY <1>1, NoneLeft DEF Part
<1>3. Head(script[t]) = Word(n) /\ Tail(script[t]) = LastWrites(n - 1)
  <2> HIDE DEF n
  <2> QED  BY <1>2, LastOnes, Zenon DEF Word
<1>4. Tail(script[t]) \in Seq(Words) /\ Len(Tail(script[t])) = n - 1  BY <1>1, TailIs
<1>5. /\ script' = [script EXCEPT ![t] = Tail(script[t])]
      /\ UNCHANGED <<pc, todo, newToken, newRefresh, second, outcome, world>>
  BY DEF Write
<1>6. /\ At(pc, pc', t) /\ pc'[t] = pc[t] /\ Goon(t) /\ SameSecond(t)
      /\ At(newToken, newToken', t) /\ newToken'[t] = newToken[t]
      /\ At(newRefresh, newRefresh', t) /\ newRefresh'[t] = newRefresh[t]
      /\ At(script, script', t) /\ script'[t] = Tail(script[t])
  BY <1>5, Entries, GoonIf, SecondIf
<1>7. /\ Word(9) = "token" /\ Word(8) = "clear" /\ Word(7) = "active" /\ Word(6) = "save"
      /\ Word(5) = "env" /\ Word(4) = "save" /\ Word(3) = "refresh" /\ Word(2) = "active"
      /\ Word(1) = "save"
  BY WritesAre DEF Word
<1>8. n = 1 \/ n = 2 \/ n = 3 \/ n = 4 \/ n = 5 \/ n = 6 \/ n = 7 \/ n = 8 \/ n = 9
  BY <1>2
<1> HIDE DEF n
<1>9. token' = IF n = 9 THEN [token EXCEPT ![P(t)] = newToken[t]] ELSE token
  <2>1. token' = IF Word(n) = "token" THEN [token EXCEPT ![P(t)] = newToken[t]] ELSE token
    BY <1>3 DEF Write
  <2> QED  BY <2>1, <1>7, <1>8
<1>10. /\ n = 8 => env' = [env EXCEPT ![P(t)].refresh = None]
       /\ n = 5 => env' = [env EXCEPT ![P(t)].token = newToken[t]]
       /\ n = 3 => env' = [env EXCEPT ![P(t)].refresh = newRefresh[t]]
       /\ n \notin {8, 5, 3} => env' = env
  <2>1. env' = CASE Word(n) = "clear" -> [env EXCEPT ![P(t)].refresh = None]
                 [] Word(n) = "env" -> [env EXCEPT ![P(t)].token = newToken[t]]
                 [] Word(n) = "refresh" -> [env EXCEPT ![P(t)].refresh = newRefresh[t]]
                 [] OTHER -> env
    BY <1>3 DEF Write
  <2> QED  BY <2>1, <1>7, <1>8
<1>11. active' = IF n \in {7, 2} THEN [active EXCEPT ![P(t)] = TRUE] ELSE active
  <2>1. active' = IF Word(n) = "active" THEN [active EXCEPT ![P(t)] = TRUE] ELSE active
    BY <1>3 DEF Write
  <2> QED  BY <2>1, <1>7, <1>8
<1>12. cookie' = IF n \in {6, 4, 1} THEN env[P(t)] ELSE cookie
  <2>1. cookie' = IF Word(n) = "save" THEN env[P(t)] ELSE cookie
    BY <1>3 DEF Write
  <2> QED  BY <2>1, <1>7, <1>8
<1>13. Len(script'[t]) = n - 1 /\ script'[t] = LastWrites(Len(script'[t]))
       /\ script'[t] \in Seq(Words)
  BY <1>3, <1>4, <1>6, Zenon
<1> QED  BY <1>1, <1>2, <1>5, <1>6, <1>9, <1>10, <1>11, <1>12, <1>13 DEF n

\* The tokens of the processes after a write.
LEMMA EnvIs ==
    ASSUME TypeInv, NEW t \in Threads, Write(t)
    PROVE  /\ env' \in [Procs -> [token : Tokens, refresh : Users \cup {None}]]
           /\ token' \in [Procs -> Tokens]
           /\ \A p \in Procs \ {P(t)} : env'[p] = env[p] /\ token'[p] = token[p]
           /\ token'[P(t)] \in {newToken[t], token[P(t)]}
           /\ env'[P(t)].token = IF Len(script[t]) = 5 THEN newToken[t] ELSE env[P(t)].token
           /\ env'[P(t)].refresh = IF Len(script[t]) = 8 THEN None
                                   ELSE IF Len(script[t]) = 3 THEN newRefresh[t]
                                   ELSE env[P(t)].refresh
<1> DEFINE n == Len(script[t])
           Logins == [token : Tokens, refresh : Users \cup {None}]
<1>1. /\ env \in [Procs -> Logins] /\ token \in [Procs -> Tokens]
      /\ newToken[t] \in Tokens /\ (n = 3 => newRefresh[t] \in Users \cup {None})
      /\ P(t) \in Procs
  BY PartOf, WriteIs DEF TypeInv, TypeOK
<1>2. /\ token' \in [Procs -> Tokens] /\ token'[P(t)] \in {newToken[t], token[P(t)]}
      /\ \A p \in Procs \ {P(t)} : token'[p] = token[p]
  <2>1. token' = [token EXCEPT ![P(t)] = newToken[t]] \/ token' = token  BY WriteIs
  <2> QED  BY <1>1, <2>1
<1>3. CASE n = 8
  <2>1. env' = [env EXCEPT ![P(t)].refresh = None]  BY <1>3, WriteIs
  <2> QED  BY <1>1, <1>2, <1>3, <2>1
<1>4. CASE n = 5
  <2>1. env' = [env EXCEPT ![P(t)].token = newToken[t]]  BY <1>4, WriteIs
  <2> QED  BY <1>1, <1>2, <1>4, <2>1
<1>5. CASE n = 3
  <2>1. env' = [env EXCEPT ![P(t)].refresh = newRefresh[t]]  BY <1>5, WriteIs
  <2> QED  BY <1>1, <1>2, <1>5, <2>1
<1>6. CASE n \notin {8, 5, 3}
  <2>1. env' = env  BY <1>6, WriteIs
  <2> QED  BY <1>1, <1>2, <1>6, <2>1
<1> QED  BY <1>3, <1>4, <1>5, <1>6

LEMMA WriteTypes == ASSUME TypeInv, NEW t \in Threads, Write(t) PROVE TypeInv'
<1>1. Locally(t) /\ Globally
  BY WriteIs DEF Locally, Goon, SameSecond, Globally, Marked, world, TypeInv, World
<1>2. Fits(t)  BY PartOf, WriteIs DEF Fits, Goon, SameSecond
<1>3. RamFits
  <2>1. cookie' \in {cookie, env[P(t)]}  BY WriteIs
  <2>2. cookie' \in [token : Tokens, refresh : Users \cup {None}]
    BY <2>1, PartOf DEF TypeInv, TypeOK
  <2>3. active' \in [Procs -> BOOLEAN]
    <3>1. active' = [active EXCEPT ![P(t)] = TRUE] \/ active' = active  BY WriteIs
    <3> QED  BY <3>1 DEF TypeInv, TypeOK
  <2> QED  BY <2>2, <2>3, EnvIs DEF RamFits
<1>4. Part(t)'
  <2>1. todo'[t] = todo[t] /\ todo[t] # <<>> /\ P(t)' = P(t) /\ P(t) \in started'
    BY WriteIs, Busy DEF world, P, Goon
  <2>2. /\ Len(script[t]) \in 1..9 /\ Len(script'[t]) = Len(script[t]) - 1
        /\ script'[t] = LastWrites(Len(script'[t])) /\ pc'[t] = "set"
    BY WriteIs, Zenon
  <2> QED  BY <2>1, <2>2 DEF Part
<1> QED  BY <1>1, <1>2, <1>3, <1>4, GoesOn

LEMMA LowerTypes == ASSUME TypeInv, NEW t \in Threads, Lower(t) PROVE TypeInv'
<1>1. Globally  BY LowerIs DEF Globally, Marked, world, TypeInv, World
<1>2. At(second, second', t) /\ second'[t] \in BOOLEAN  BY PartOf, LowerIs DEF SameSecond
<1>3. "test" \in Labels  BY DEF Labels
<1>4. Locally(t) /\ Fits(t) /\ Part(t)'  BY <1>2, <1>3, LowerIs, StopsIf, IdleTypes DEF world
<1>5. RamFits
  <2>1. active' \in [Procs -> BOOLEAN]  BY LowerIs DEF TypeInv, TypeOK
  <2> QED  BY <2>1, LowerIs DEF RamFits, TypeInv, TypeOK
<1> QED  BY <1>1, <1>4, <1>5, GoesOn

LEMMA StepTypes == ASSUME TypeInv, NEW t \in Threads, Step(t) PROVE TypeInv'
  BY BeginTypes, LoginTypes, CallTypes, WriteTypes, LowerTypes DEF Step

\* A step that leaves the threads and what they set alone.
LEMMA StartTypes == ASSUME TypeInv, NEW p \in Procs, Start(p) PROVE TypeInv'
<1>1. TypeOK'
  <2>1. env' \in [Procs -> [token : Tokens, refresh : Users \cup {None}]]
    BY DEF Start, TypeInv, TypeOK
  <2> QED  BY <2>1 DEF Start, local, TypeInv, TypeOK
<1>2. World'  BY DEF Start, TypeInv, World
<1>3. Local'  BY DEF Start, local, TypeInv, Local
<1>4. ASSUME NEW t \in Threads PROVE Part(t)'
  <2>1. Part(t)  BY PartOf
  <2> QED  BY <2>1 DEF Start, local, Part, P
<1> QED  BY <1>1, <1>2, <1>3, <1>4 DEF TypeInv

LEMMA ExpireTypes == ASSUME TypeInv, Expire PROVE TypeInv'
<1>1. TypeOK'  BY DEF Expire, local, ram, TypeInv, TypeOK
<1>2. World'  BY TokenAssumption DEF Expire, TypeInv, World
<1>3. Local'  BY DEF Expire, local, TypeInv, Local
<1>4. ASSUME NEW t \in Threads PROVE Part(t)'
  <2>1. Part(t)  BY PartOf
  <2> QED  BY <2>1 DEF Expire, local, Part, P
<1> QED  BY <1>1, <1>2, <1>3, <1>4 DEF TypeInv

LEMMA CrashTypes == ASSUME TypeInv, NEW p \in Procs, Crash(p) PROVE TypeInv'
<1>1. TypeOK'
  <2>1. pc' \in [Threads -> Labels]  BY DEF Crash, TypeInv, TypeOK, Labels
  <2> QED  BY <2>1 DEF Crash, ram, TypeInv, TypeOK
<1>2. World'  BY DEF Crash, TypeInv, World
<1>3. Local'  BY DEF Crash, TypeInv, Local
<1>4. ASSUME NEW t \in Threads PROVE Part(t)'
  <2>1. Part(t) /\ pc'[t] \in {"dead", pc[t]}  BY PartOf DEF Crash
  <2>2. crashes' > 0  BY DEF Crash, TypeInv, World
  <2>3. /\ script'[t] = script[t] /\ todo'[t] = todo[t] /\ P(t)' = P(t) /\ started' = started
        /\ second'[t] = second[t] /\ newRefresh'[t] = newRefresh[t]
    BY DEF Crash, P
  <2> QED  BY <2>1, <2>2, <2>3 DEF Part
<1> QED  BY <1>1, <1>2, <1>3, <1>4 DEF TypeInv

LEMMA SameTypes == ASSUME TypeInv, UNCHANGED vars PROVE TypeInv'
<1>1. TypeOK'
  <2>1. /\ pc' = pc /\ newToken' = newToken /\ newRefresh' = newRefresh /\ token' = token
        /\ env' = env /\ cookie' = cookie /\ active' = active /\ started' = started
    BY DEF vars, local, ram, world
  <2> QED  BY <2>1, Zenon DEF TypeInv, TypeOK
<1>2. World'  BY DEF vars, world, TypeInv, World
<1>3. Local'  BY DEF vars, local, TypeInv, Local
<1>4. ASSUME NEW t \in Threads PROVE Part(t)'
  <2>1. Part(t)  BY PartOf
  <2> QED  BY <2>1 DEF vars, local, world, Part, P
<1> QED  BY <1>1, <1>2, <1>3, <1>4 DEF TypeInv

LEMMA NextTypes == TypeInv /\ [Next]_vars => TypeInv'
  BY StepTypes, StartTypes, ExpireTypes, CrashTypes, SameTypes DEF Next, Done

\* Every variable has its type (TypeOK), whatever the threads do and whenever they crash.
THEOREM TokenTypes == Spec => []TypeOK
<1>1. TypeInv => TypeOK  BY DEF TypeInv
<1> QED  BY <1>1, InitTypes, NextTypes, PTL DEF Spec
-----------------------------------------------------------------------------
(* What the threads were asked to do. *)

LEMMA SceneStays ==
    ASSUME scene' = scene
    PROVE  /\ Kinds' = Kinds /\ OneThreadEach' = OneThreadEach /\ Alike' = Alike
           /\ \A t \in Threads : P(t)' = P(t) /\ Alone(t)' = Alone(t)
  BY DEF Kinds, OneThreadEach, Alike, Alone, P

LEMMA NextScene == [Next]_vars => scene' = scene
  BY DEF Next, Step, Done, Start, Crash, Expire, Begin, Login, NoAnswer, Write, Written, Check,
         Renew, Lower, Test, Post, Send, world, vars

\* Who takes a step has a call, and goes on with it or is over with it.
LEMMA StepCalls ==
    ASSUME TypeInv, NEW t \in Threads, Step(t)
    PROVE  /\ todo[t] # <<>> /\ At(todo, todo', t) /\ todo'[t] \in {todo[t], Tail(todo[t])}
           /\ pc[t] # "dead" /\ P(t) \in started
<1>1. CASE Begin(t)  BY <1>1, BeginIs DEF Locally
<1>2. CASE Login(t)  BY <1>2, LoginIs, Busy DEF Locally
<1>3. CASE NoAnswer(t)  BY <1>3, NoAnswerIs, Busy DEF Ends
<1>4. CASE Write(t)  BY <1>4, WriteIs, Busy DEF Goon
<1>5. CASE Written(t)  BY <1>5, WrittenIs, Busy DEF Goon, Ends
<1>6. CASE Check(t)  BY <1>6, CheckIs, Busy DEF Goon
<1>7. CASE Renew(t)  BY <1>7, RenewIs, Busy DEF Goon, Tries, Ends
<1>8. CASE Lower(t)  BY <1>8, LowerIs, Busy DEF Goon
<1>9. CASE Test(t)  BY <1>9, TestIs, Busy DEF Goon, Tries, Ends
<1>10. CASE Post(t)  BY <1>10, PostIs, Busy DEF Goon, Tries, Ends
<1>11. CASE Send(t)  BY <1>11, SendIs, Busy DEF Ends
<1> QED  BY <1>1, <1>2, <1>3, <1>4, <1>5, <1>6, <1>7, <1>8, <1>9, <1>10, <1>11 DEF Step

LEMMA RestOfCalls ==
    ASSUME NEW q \in Seq(Calls), q # <<>>, NEW K, \A i \in 1..Len(q) : q[i] \in K
    PROVE  Head(q) \in K /\ \A i \in 1..Len(Tail(q)) : Tail(q)[i] \in K
<1>1. /\ Len(q) \in Nat \ {0} /\ Len(Tail(q)) = Len(q) - 1 /\ Head(q) = q[1]
      /\ \A i \in 1..Len(Tail(q)) : Tail(q)[i] = q[i + 1]
  OBVIOUS
<1> QED  BY <1>1

LEMMA InitTodo == Init => Programme
<1> SUFFICES ASSUME Init, NEW t \in Threads
             PROVE  /\ \A i \in 1..Len(todo[t]) : todo[t][i] \in Kinds
                    /\ scene.calls[t] = <<>> => todo[t] = <<>>
  BY DEF Programme
<1>1. todo[t] = scene.calls[t]  BY DEF Init
<1> QED  BY <1>1 DEF Kinds

LEMMA NextTodo == TodoInv /\ [Next]_vars => TodoInv'
<1> SUFFICES ASSUME TodoInv, [Next]_vars PROVE TodoInv'  OBVIOUS
<1>1. TypeInv' /\ TypeInv /\ scene' = scene  BY NextTypes, NextScene DEF TodoInv
<1>2. Kinds' = Kinds  BY <1>1, SceneStays
<1>3. ASSUME NEW u \in Threads,
             todo'[u] = todo[u] \/ (todo[u] # <<>> /\ todo'[u] = Tail(todo[u]))
      PROVE  /\ \A i \in 1..Len(todo'[u]) : todo'[u][i] \in Kinds'
             /\ scene'.calls[u] = <<>> => todo'[u] = <<>>
  <2>1. todo[u] \in Seq(Calls) /\ (\A i \in 1..Len(todo[u]) : todo[u][i] \in Kinds)
        /\ (scene.calls[u] = <<>> => todo[u] = <<>>)
    BY <1>1, PartOf DEF TodoInv, Programme
  <2>2. CASE todo'[u] = todo[u]  BY <1>1, <1>2, <2>1, <2>2
  <2>3. CASE todo[u] # <<>> /\ todo'[u] = Tail(todo[u])
    BY <1>1, <1>2, <2>1, <2>3, RestOfCalls
  <2> QED  BY <1>3, <2>2, <2>3
<1>4. ASSUME NEW u \in Threads
      PROVE  todo'[u] = todo[u] \/ (todo[u] # <<>> /\ todo'[u] = Tail(todo[u]))
  <2>1. ASSUME NEW t \in Threads, Step(t)
        PROVE  todo'[u] = todo[u] \/ (todo[u] # <<>> /\ todo'[u] = Tail(todo[u]))
    BY <1>1, <2>1, StepCalls DEF At
  <2>2. ASSUME NEW p \in Procs, Start(p) \/ Crash(p) PROVE todo' = todo
    BY <2>2 DEF Start, Crash, local
  <2>3. Expire \/ Done \/ UNCHANGED vars => todo' = todo  BY DEF Expire, Done, vars, local
  <2> QED  BY <2>1, <2>2, <2>3 DEF Next
<1>5. Programme'  BY <1>3, <1>4 DEF Programme
<1> QED  BY <1>1, <1>5 DEF TodoInv

\* Who was asked nothing takes no step.
LEMMA NoCallsNoStep ==
    ASSUME TodoInv, NEW t \in Threads, scene.calls[t] = <<>> PROVE ~Step(t)
  BY StepCalls DEF TodoInv, Programme
-----------------------------------------------------------------------------
(* One login. *)

\* A step changes nothing that another thread has.
LEMMA StepLocal == ASSUME TypeInv, NEW t \in Threads, Step(t) PROVE Locally(t)
<1> USE DEF Locally
<1>1. CASE Begin(t)  BY <1>1, BeginIs
<1>2. CASE Login(t)  BY <1>2, LoginIs
<1>3. CASE NoAnswer(t)  BY <1>3, NoAnswerIs DEF Idles, Ends, To, SameSecond
<1>4. CASE Write(t)  BY <1>4, WriteIs DEF Goon, SameSecond
<1>5. CASE Written(t)  BY <1>5, WrittenIs DEF Stops, Ends, To, SameSecond, Goon
<1>6. CASE Check(t)  BY <1>6, CheckIs DEF Idles, To, SameSecond, Goon
<1>7. CASE Renew(t)  BY <1>7, RenewIs DEF Idles, Tries, Ends, To, SameSecond, Goon
<1>8. CASE Lower(t)  BY <1>8, LowerIs DEF Idles, To, SameSecond, Goon
<1>9. CASE Test(t)  BY <1>9, TestIs DEF Idles, Tries, Ends, To, SameSecond, Goon
<1>10. CASE Post(t)  BY <1>10, PostIs DEF Idles, Tries, Ends, To, SameSecond, Goon
<1>11. CASE Send(t)  BY <1>11, SendIs DEF Idles, Ends, To, SameSecond
<1> QED  BY <1>1, <1>2, <1>3, <1>4, <1>5, <1>6, <1>7, <1>8, <1>9, <1>10, <1>11 DEF Step

\* What a thread is about to set is one login.
Pair(t) == [token |-> newToken[t], refresh |-> newRefresh[t]]

LEMMA OneLoginIf ==
    /\ \A k : OneLogin([token |-> None, refresh |-> k])
    /\ \A k : OneLogin([token |-> k, refresh |-> None])
    /\ \A u, e : OneLogin([token |-> [user |-> u, epoch |-> e], refresh |-> u])
  BY DEF OneLogin

\* Only the writes of a script touch the environment and the cookie.
LEMMA SetsPair ==
    ASSUME TypeInv, NEW t \in Threads, Step(t), ~Write(t)
    PROVE  /\ env' = env /\ cookie' = cookie /\ token' = token /\ scene' = scene
           /\ started' = started
           /\ pc'[t] = "set" => /\ script'[t] = Writes
                                /\ newRefresh'[t] # Absent => OneLogin(Pair(t)')
<1>1. CASE Begin(t)
  <2>1. pc'[t] = "set" => script'[t] = Writes /\ newToken'[t] = None  BY <1>1, BeginIs
  <2>2. pc'[t] = "set" => OneLogin(Pair(t)')  BY <2>1, OneLoginIf DEF Pair
  <2> QED  BY <1>1, <2>1, <2>2, BeginIs DEF ram, world
<1>2. CASE Login(t)
  <2>1. /\ script'[t] = Writes
        /\ \/ newToken'[t] = None \/ newRefresh'[t] = Absent
           \/ newToken'[t] = [user |-> newRefresh'[t], epoch |-> epoch]
    BY <1>2, LoginIs
  <2>2. newRefresh'[t] # Absent => OneLogin(Pair(t)')  BY <2>1, OneLoginIf DEF Pair
  <2> QED  BY <1>2, <2>1, <2>2, LoginIs DEF ram
<1>3. CASE NoAnswer(t)  BY <1>3, NoAnswerIs DEF Ends, To, ram, world
<1>4. CASE Written(t)  BY <1>4, WrittenIs DEF Ends, To, ram, world
<1>5. CASE Check(t)  BY <1>5, CheckIs DEF To, ram, world
<1>6. CASE Renew(t)  BY <1>6, RenewIs DEF Tries, Ends, To, ram, world
<1>7. CASE Lower(t)  BY <1>7, LowerIs DEF To, ram, world
<1>8. CASE Test(t)  BY <1>8, TestIs DEF Tries, Ends, To, ram, world
<1>9. CASE Post(t)
  <2>1. pc'[t] = "set" => /\ script'[t] = Writes
                          /\ newToken'[t] = [user |-> newRefresh'[t], epoch |-> epoch]
    BY <1>9, PostIs DEF Tries, Ends, To
  <2>2. pc'[t] = "set" => OneLogin(Pair(t)')  BY <2>1, OneLoginIf DEF Pair
  <2> QED  BY <1>9, <2>1, <2>2, PostIs DEF ram
<1>10. CASE Send(t)  BY <1>10, SendIs DEF Ends, To, ram, world
<1> QED  BY <1>1, <1>2, <1>3, <1>4, <1>5, <1>6, <1>7, <1>8, <1>9, <1>10 DEF Step

\* In a process of one thread nobody else writes what a thread at work relies on.
LEMMA Apart ==
    ASSUME TodoInv, OneThreadEach, NEW t \in Threads, Step(t), NEW u \in Threads \ {t},
           pc[u] \notin {"idle", "dead"}
    PROVE  P(u) # P(t)
<1>1. TypeInv /\ todo[u] # <<>> /\ todo[t] # <<>>  BY Busy, StepCalls DEF TodoInv
<1>2. scene.calls[u] # <<>> /\ scene.calls[t] # <<>>  BY <1>1 DEF TodoInv, Programme
<1> QED  BY <1>2 DEF OneThreadEach

LEMMA WriteLogin ==
    ASSUME TodoInv, OneThreadEach, LoginInv, NEW t \in Threads, Write(t)
    PROVE  /\ OneLogin(cookie') /\ Orderly(t)'
           /\ \A p \in Procs : OneLogin(env'[p])
<1> DEFINE n == Len(script[t])
<1>1. TypeInv /\ OneLogin(cookie) /\ (\A p \in Procs : OneLogin(env[p])) /\ Orderly(t)
      /\ P(t) \in Procs
  BY PartOf DEF LoginInv, TodoInv
<1>2. /\ n \in 1..9 /\ Len(script'[t]) = n - 1 /\ pc[t] = "set" /\ P(t)' = P(t)
      /\ newToken'[t] = newToken[t] /\ newRefresh'[t] = newRefresh[t]
      /\ cookie' \in {cookie, env[P(t)]}
  BY <1>1, WriteIs DEF world, P
<1>3. OneLogin(cookie')  BY <1>1, <1>2
<1>4. /\ newRefresh[t] # Absent => OneLogin(Pair(t))
      /\ n = 3 => newRefresh[t] # Absent
      /\ (n \in 3..7 => env[P(t)].refresh = None)
      /\ n \in 3..4 => env[P(t)].token = newToken[t]
  BY <1>1, <1>2, WriteIs DEF Orderly, Pair
<1>5. /\ env'[P(t)].token = IF n = 5 THEN newToken[t] ELSE env[P(t)].token
      /\ env'[P(t)].refresh = IF n = 8 THEN None
                              ELSE IF n = 3 THEN newRefresh[t] ELSE env[P(t)].refresh
      /\ \A p \in Procs \ {P(t)} : env'[p] = env[p]
  BY <1>1, EnvIs
<1> HIDE DEF n
<1>6. OneLogin(env'[P(t)])
  <2>1. CASE n = 5  BY <1>4, <1>5, <2>1 DEF OneLogin
  <2>2. CASE n = 8  BY <1>5, <2>2 DEF OneLogin
  <2>3. CASE n = 3  BY <1>4, <1>5, <2>3 DEF OneLogin, Pair
  <2>4. CASE n \notin {5, 8, 3}  BY <1>1, <1>5, <2>4 DEF OneLogin
  <2> QED  BY <2>1, <2>2, <2>3, <2>4
<1>7. newRefresh'[t] # Absent => OneLogin(Pair(t)')  BY <1>2, <1>4 DEF Pair
<1>8. Orderly(t)'
  <2>1. n - 1 \in 3..7 => env'[P(t)].refresh = None  BY <1>2, <1>4, <1>5
  <2>2. n - 1 \in 3..4 => env'[P(t)].token = newToken[t]  BY <1>2, <1>4, <1>5
  <2> QED  BY <1>2, <1>7, <2>1, <2>2 DEF Orderly, Pair
<1> QED  BY <1>1, <1>3, <1>5, <1>6, <1>8

LEMMA StepLogin ==
    ASSUME TodoInv, OneThreadEach, LoginInv, NEW t \in Threads, Step(t)
    PROVE  /\ OneLogin(cookie') /\ \A p \in Procs : OneLogin(env'[p])
           /\ \A u \in Threads : Orderly(u)'
<1>1. TypeInv /\ OneLogin(cookie) /\ (\A p \in Procs : OneLogin(env[p]))
      /\ (\A u \in Threads : Orderly(u))
  BY DEF LoginInv, TodoInv
<1>2. CASE Write(t)
  <2>1. ASSUME NEW u \in Threads \ {t} PROVE Orderly(u)'
    <3>1. /\ pc'[u] = pc[u] /\ newToken'[u] = newToken[u] /\ newRefresh'[u] = newRefresh[u]
          /\ script'[u] = script[u] /\ P(u)' = P(u)
      <4>1. Locally(t) /\ scene' = scene  BY <1>1, <1>2, WriteIs, StepLocal DEF world, Step
      <4>2. P(u)' = P(u)  BY <4>1 DEF P
      <4> QED  BY <2>1, <4>1, <4>2 DEF Locally, At
    <3>2. pc[u] = "set" => P(u) # P(t)  BY <1>2, <2>1, Apart DEF Step
    <3>3. pc[u] = "set" => env'[P(u)] = env[P(u)]  BY <1>1, <1>2, <3>2, PartOf, EnvIs
    <3> QED  BY <1>1, <3>1, <3>3 DEF Orderly
  <2> QED  BY <1>2, <2>1, WriteLogin
<1>3. CASE ~Write(t)
  <2>1. /\ env' = env /\ cookie' = cookie /\ scene' = scene
        /\ pc'[t] = "set" =>
             script'[t] = Writes /\ (newRefresh'[t] # Absent => OneLogin(Pair(t)'))
    BY <1>1, <1>3, SetsPair
  <2>2. ASSUME NEW u \in Threads \ {t} PROVE Orderly(u)'
    <3>1. /\ pc'[u] = pc[u] /\ newToken'[u] = newToken[u] /\ newRefresh'[u] = newRefresh[u]
          /\ script'[u] = script[u] /\ P(u)' = P(u)
      BY <1>1, <2>1, <2>2, StepLocal DEF Locally, At, P
    <3> QED  BY <1>1, <2>1, <3>1 DEF Orderly
  <2>3. Orderly(t)'
    <3>1. pc'[t] = "set" => Len(script'[t]) = 9  BY <2>1, WritesAre
    <3> QED  BY <2>1, <3>1 DEF Orderly, Pair
  <2> QED  BY <1>1, <2>1, <2>2, <2>3
<1> QED  BY <1>2, <1>3

LEMMA InitLogin == Init => LoginInv
<1> SUFFICES ASSUME Init PROVE LoginInv  OBVIOUS
<1>1. OneLogin(cookie)  BY DEF Init, OneLogin
<1>2. \A p \in Procs : OneLogin(env[p])  BY DEF Init, OneLogin, NoLogin
<1>3. \A t \in Threads : Orderly(t)  BY DEF Init, Orderly
<1> QED  BY <1>1, <1>2, <1>3 DEF LoginInv

LEMMA NextLogin == TodoInv /\ LoginInv /\ [Next]_vars => LoginInv'
<1> SUFFICES ASSUME TodoInv, LoginInv, [Next]_vars, OneThreadEach'
             PROVE  /\ OneLogin(cookie') /\ \A p \in Procs : OneLogin(env'[p])
                    /\ \A t \in Threads : Orderly(t)'
  BY DEF LoginInv
<1>1. OneThreadEach /\ scene' = scene  BY NextScene, SceneStays
<1>2. TypeInv /\ OneLogin(cookie) /\ (\A p \in Procs : OneLogin(env[p]))
      /\ (\A t \in Threads : Orderly(t)) /\ (\A t \in Threads : P(t)' = P(t))
  BY <1>1, SceneStays DEF LoginInv, TodoInv
<1>3. ASSUME NEW t \in Threads, Step(t)
      PROVE  /\ OneLogin(cookie') /\ \A p \in Procs : OneLogin(env'[p])
             /\ \A u \in Threads : Orderly(u)'
  BY <1>1, <1>3, StepLogin
<1>4. ASSUME NEW p \in Procs, Start(p)
      PROVE  /\ OneLogin(cookie') /\ \A q \in Procs : OneLogin(env'[q])
             /\ \A u \in Threads : Orderly(u)'
  <2>1. /\ env' = [env EXCEPT ![p] = cookie] /\ UNCHANGED <<local, cookie>> /\ p \notin started
    BY <1>4 DEF Start
  <2>2. ASSUME NEW q \in Procs PROVE env'[q] = IF q = p THEN cookie ELSE env[q]
    BY <1>2, <2>1 DEF TypeInv, TypeOK
  <2>3. ASSUME NEW u \in Threads PROVE Orderly(u)'
    <3>1. pc[u] = "set" => env'[P(u)] = env[P(u)]
      BY <1>2, <2>1, <2>2, Busy, PartOf
    <3> QED  BY <1>2, <2>1, <3>1 DEF Orderly, local
  <2> QED  BY <1>2, <2>1, <2>2, <2>3
<1>5. ASSUME NEW p \in Procs, Crash(p)
      PROVE  /\ OneLogin(cookie') /\ \A q \in Procs : OneLogin(env'[q])
             /\ \A u \in Threads : Orderly(u)'
  <2>1. /\ UNCHANGED <<script, newToken, newRefresh, env, cookie>>
        /\ \A u \in Threads : pc'[u] \in {"dead", pc[u]}
    BY <1>5 DEF Crash, ram
  <2> QED  BY <1>2, <2>1 DEF Orderly
<1>6. CASE Expire \/ Done \/ UNCHANGED vars
  <2>1. UNCHANGED <<pc, script, newToken, newRefresh, env, cookie>>
    BY <1>6 DEF Expire, Done, vars, local, ram
  <2> QED  BY <1>2, <2>1 DEF Orderly
<1> QED  BY <1>3, <1>4, <1>5, <1>6 DEF Next

\* The cookie never holds one user's token with another's refresh token, whatever processes
\* of one thread log in, renew, log out or die half way: the setter of the token clears the
\* refresh token first (api_client.py, token.setter).
THEOREM TokenOneLogin == Spec => []CookieIsOneLogin
<1>1. LoginInv => CookieIsOneLogin  BY DEF LoginInv, OneLogin, CookieIsOneLogin
<1>2. Init => TodoInv /\ LoginInv  BY InitTypes, InitTodo, InitLogin DEF TodoInv
<1>3. (TodoInv /\ LoginInv) /\ [Next]_vars => (TodoInv /\ LoginInv)'  BY NextTodo, NextLogin
<1> QED  BY <1>1, <1>2, <1>3, PTL DEF Spec
-----------------------------------------------------------------------------
(* A thread alone. *)

\* The session after a step of the thread that sets nothing, given what it changed.
LEMMA SessionAfter ==
    ASSUME TypeInv, NEW t \in Threads, InSession(t), P(t) \in started,
           UNCHANGED <<scene, started, env, active>>,
           second'[t] = FALSE, pc'[t] # "lower", pc'[t] = "idle" => outcome'[t] # "600",
           Len(script[t]) <= 2, script'[t] = <<>> \/ script'[t] = Writes, pc[t] # "dead",
           pc'[t] = "set" => newToken'[t] # None /\ newRefresh'[t] \notin {None, Absent},
           pc'[t] = "post" => newRefresh'[t] # None
    PROVE  InSession(t)'
<1>1. P(t)' = P(t) /\ Len(script[t]) <= 6 /\ Len(script[t]) <= 4
  <2>1. Len(script[t]) \in 0..9  BY PartOf DEF Part
  <2> QED  BY <2>1 DEF P
<1>2. env[P(t)].token # None /\ env[P(t)].refresh # None /\ active[P(t)]
  BY <1>1 DEF InSession
<1> QED  BY <1>1, <1>2 DEF InSession

LEMMA WriteSession ==
    ASSUME TypeInv, NEW t \in Threads, InSession(t), Write(t)
    PROVE  InSession(t)'
<1> DEFINE n == Len(script[t])
<1>1. /\ n \in 1..9 /\ Len(script'[t]) = n - 1 /\ pc[t] = "set" /\ pc'[t] = "set"
      /\ P(t)' = P(t) /\ started' = started
      /\ newToken'[t] = newToken[t] /\ newRefresh'[t] = newRefresh[t]
      /\ second'[t] = second[t]
  BY WriteIs DEF world, P, SameSecond
<1>2. /\ newToken[t] # None /\ newRefresh[t] \notin {None, Absent}
      /\ n <= 6 => active[P(t)]
      /\ n <= 4 => env[P(t)].token # None
      /\ n <= 2 => env[P(t)].refresh # None
      /\ P(t) \in started /\ ~second[t]
  BY <1>1, Busy DEF InSession
<1>3. /\ env'[P(t)].token = IF n = 5 THEN newToken[t] ELSE env[P(t)].token
      /\ env'[P(t)].refresh = IF n = 8 THEN None
                              ELSE IF n = 3 THEN newRefresh[t] ELSE env[P(t)].refresh
  BY EnvIs
<1>4. active'[P(t)] = IF n \in {7, 2} THEN TRUE ELSE active[P(t)]
  <2>1. active' = IF n \in {7, 2} THEN [active EXCEPT ![P(t)] = TRUE] ELSE active  BY WriteIs
  <2>2. active \in [Procs -> BOOLEAN] /\ P(t) \in Procs  BY PartOf DEF TypeInv, TypeOK
  <2> QED  BY <2>1, <2>2
<1> HIDE DEF n
<1>5. n - 1 <= 6 => active'[P(t)]  BY <1>1, <1>2, <1>4
<1>6. n - 1 <= 4 => env'[P(t)].token # None  BY <1>1, <1>2, <1>3
<1>7. n - 1 <= 2 => env'[P(t)].refresh # None  BY <1>1, <1>2, <1>3
<1> QED  BY <1>1, <1>2, <1>5, <1>6, <1>7 DEF InSession

\* A login that answers with both tokens begins a session, whatever was before.
LEMMA LoginSession ==
    ASSUME TypeInv, NEW t \in Threads, Login(t), ~refused', ~bare'
    PROVE  InSession(t)'
<1>1. /\ Head(todo[t]) \in Users /\ P(t) \in started /\ ~second[t] /\ epoch \in 0..MaxEpoch
  BY PartOf, LoginIs, Busy DEF Part, TypeInv, World
<1>2. /\ newToken'[t] # None /\ newRefresh'[t] \notin {None, Absent}
  BY <1>1, LoginIs, NoTokens, TokenAssumption
<1>3. pc'[t] = "set" /\ script'[t] = Writes /\ ~second'[t] /\ P(t)' = P(t) /\ started' = started
  BY <1>1, LoginIs DEF P
<1>4. Len(script'[t]) = 9  BY <1>3, WritesAre
<1> QED  BY <1>1, <1>2, <1>3, <1>4 DEF InSession

LEMMA StepSession ==
    ASSUME TodoInv, NEW t \in Threads, InSession(t), Step(t)
    PROVE  InSession(t)' \/ refused' \/ bare'
<1> USE DEF TodoInv
<1>1. CASE Write(t)  BY <1>1, WriteSession
<1>2. CASE Begin(t)
  <2>1. CASE Head(todo[t]) = "logout"  BY <1>2, <2>1, BeginIs
  <2>2. CASE Head(todo[t]) # "logout"
    <3>1. script[t] = <<>> /\ Len(script[t]) <= 2
      <4>1. script[t] = <<>>  BY <1>2, PartOf, BeginIs DEF Part
      <4> QED  BY <4>1
    <3>2. /\ second'[t] = FALSE /\ pc'[t] \in {"check", "login"} /\ script'[t] = <<>>
          /\ pc[t] = "idle" /\ P(t) \in started /\ UNCHANGED <<ram, scene, started>>
      BY <1>2, <2>2, <3>1, BeginIs
    <3> QED  BY <3>1, <3>2, SessionAfter DEF ram
  <2> QED  BY <2>1, <2>2
<1>3. CASE Login(t)  BY <1>3, LoginSession
<1>4. CASE Check(t) \/ Send(t) \/ NoAnswer(t)
  <2>1. /\ script[t] = <<>> /\ script'[t] = <<>> /\ P(t) \in started /\ pc[t] # "dead"
        /\ pc'[t] \in {"idle", "send", "renew"} /\ (pc'[t] = "idle" => outcome'[t] # "600")
        /\ second'[t] = FALSE
    BY <1>4, CheckIs, SendIs, NoAnswerIs, Busy, PartOf
    DEF Ends, To, Idles, Goon, SameSecond, InSession
  <2>2. UNCHANGED <<ram, scene, started>>
    BY <1>4, CheckIs, SendIs, NoAnswerIs DEF world
  <2>3. Len(script[t]) <= 2  BY <2>1
  <2> QED  BY <2>1, <2>2, <2>3, SessionAfter DEF ram
<1>5. CASE Renew(t)
  <2>1. script[t] = <<>> /\ P(t) \in started /\ pc[t] = "renew"  BY <1>5, RenewIs, Busy
  <2>2. Len(script[t]) <= 6 /\ Len(script[t]) <= 4 /\ Len(script[t]) <= 2  BY <2>1
  <2>3. env[P(t)].token # None /\ env[P(t)].refresh # None /\ active[P(t)]
    BY <2>1, <2>2 DEF InSession
  <2>4. Token(P(t)) # None  BY <2>3 DEF Token
  <2>5. To(t, "test") /\ Goon(t) /\ SameSecond(t) /\ Idles(t) /\ UNCHANGED <<ram, world>>
    BY <1>5, <2>3, <2>4, RenewIs
  <2>6. second'[t] = FALSE /\ pc'[t] = "test" /\ script'[t] = <<>>
    BY <2>1, <2>5, PartOf DEF SameSecond, To, Idles, InSession
  <2> QED  BY <2>1, <2>2, <2>5, <2>6, SessionAfter DEF ram, world
<1>6. CASE Lower(t)  BY <1>6, LowerIs DEF InSession
<1>7. CASE Test(t)
  <2>1. script[t] = <<>> /\ P(t) \in started /\ pc[t] = "test"  BY <1>7, TestIs, Busy
  <2>2. Len(script[t]) <= 6 /\ Len(script[t]) <= 2  BY <2>1
  <2>3. env[P(t)].refresh # None /\ active[P(t)]  BY <2>1, <2>2 DEF InSession
  <2>4. To(t, "post") /\ SameSecond(t) /\ script'[t] = script[t]
        /\ newRefresh'[t] = env[P(t)].refresh /\ UNCHANGED <<ram, world>>
    BY <1>7, <2>3, TestIs
  <2>5. second'[t] = FALSE /\ pc'[t] = "post" /\ script'[t] = <<>>
    BY <2>1, <2>4, PartOf DEF SameSecond, To, InSession
  <2> QED  BY <2>1, <2>2, <2>3, <2>4, <2>5, SessionAfter DEF ram, world
<1>8. CASE Post(t)
  <2>1. /\ script[t] = <<>> /\ P(t) \in started /\ pc[t] = "post" /\ newRefresh[t] # None
        /\ newRefresh[t] # Absent /\ newRefresh[t] \in Users /\ epoch \in 0..MaxEpoch
    <3>1. pc[t] = "post"  BY <1>8, PostIs
    <3>2. newRefresh[t] \notin {None, Absent}  BY <3>1, PartOf DEF Part, InSession
    <3> QED  BY <3>1, <3>2, Busy, PartOf DEF TypeInv, World
  <2>2. CASE refused' = (refused \/ newRefresh[t] # None)  BY <2>1, <2>2
  <2>3. CASE ~(refused' = (refused \/ newRefresh[t] # None))
    <3>1. /\ To(t, "set") /\ SameSecond(t) /\ script'[t] = Writes
          /\ newToken'[t] = [user |-> newRefresh[t], epoch |-> epoch]
          /\ newRefresh'[t] = newRefresh[t] /\ UNCHANGED <<ram, scene, started>>
      BY <1>8, <2>3, PostIs
    <3>2. second'[t] = FALSE /\ pc'[t] = "set"
      BY <3>1, PartOf DEF SameSecond, To, InSession
    <3>3. newToken'[t] # None  BY <2>1, <3>1, NoTokens
    <3>4. Len(script[t]) <= 2  BY <2>1
    <3> QED  BY <2>1, <3>1, <3>2, <3>3, <3>4, SessionAfter DEF ram
  <2> QED  BY <2>2, <2>3
<1>9. CASE Written(t)
  <2>1. /\ pc[t] = "set" /\ (script[t] = <<>> \/ newRefresh[t] = Absent) /\ script'[t] = <<>>
        /\ pc'[t] \in {"idle", "send"} /\ (pc'[t] = "idle" => outcome'[t] # "600")
        /\ second'[t] = FALSE /\ UNCHANGED <<ram, scene, started>>
    BY <1>9, WrittenIs, PartOf DEF Ends, To, Stops, Goon, SameSecond, InSession, world
  <2>2. script[t] = <<>> /\ P(t) \in started  BY <2>1, Busy DEF InSession
  <2>3. Len(script[t]) <= 2  BY <2>2
  <2> QED  BY <2>1, <2>2, <2>3, SessionAfter DEF ram
<1> QED  BY <1>1, <1>2, <1>3, <1>4, <1>5, <1>6, <1>7, <1>8, <1>9 DEF Step

\* Only a login ends what a refusal, a logout or a login without refresh token began.
LEMMA LapsedStays ==
    ASSUME TypeInv, [Next]_vars, \A t \in Threads : ~Login(t)
    PROVE  (refused => refused') /\ (bare => bare')
<1>1. ASSUME NEW t \in Threads, Step(t) PROVE (refused => refused') /\ (bare => bare')
  <2>1. CASE Begin(t)  BY <2>1, BeginIs
  <2>2. CASE Post(t)  BY <2>2, PostIs
  <2>3. CASE ~Begin(t) /\ ~Post(t)
    BY <1>1, <2>3 DEF Step, NoAnswer, Write, Written, Check, Renew, Lower, Test, Send, world
  <2> QED  BY <2>1, <2>2, <2>3
<1>2. ASSUME NEW p \in Procs, Start(p) \/ Crash(p) PROVE refused' = refused /\ bare' = bare
  BY <1>2 DEF Start, Crash
<1>3. Expire \/ Done \/ UNCHANGED vars => refused' = refused /\ bare' = bare
  BY DEF Expire, Done, vars, world
<1> QED  BY <1>1, <1>2, <1>3 DEF Next

LEMMA InitSession == Init => SessionInv
<1> SUFFICES ASSUME Init, NEW t \in Threads, ~bare PROVE InSession(t)  BY DEF SessionInv
<1>1. P(t) \in Procs  BY InitTypes, ProcOf
<1>2. active[P(t)] /\ started = {} /\ pc[t] = "idle" /\ outcome[t] = "none" /\ ~second[t]
  BY <1>1 DEF Init
<1>3. cookie.token # None /\ cookie.refresh # None
  <2>1. PICK r \in {First, None} :
             /\ cookie = [token |-> [user |-> First, epoch |-> 0], refresh |-> r]
             /\ bare = (r = None)
    BY DEF Init
  <2>2. cookie.refresh = First /\ cookie.token = [user |-> First, epoch |-> 0]  BY <2>1
  <2> QED  BY <2>2, TokenAssumption
<1> QED  BY <1>2, <1>3 DEF InSession

LEMMA NextSession == TodoInv /\ SessionInv /\ [Next]_vars => SessionInv'
<1> SUFFICES ASSUME TodoInv, SessionInv, [Next]_vars, NEW t \in Threads, Alone(t)', ~refused',
                    ~bare'
             PROVE  InSession(t)'
  BY DEF SessionInv
<1>1. TypeInv /\ scene' = scene /\ Alone(t) /\ P(t)' = P(t)
  BY NextScene, SceneStays DEF TodoInv
<1>2. ASSUME NEW u \in Threads, Step(u) PROVE u = t
  BY <1>1, <1>2, NoCallsNoStep DEF Alone
<1>3. CASE Login(t)  BY <1>1, <1>3, LoginSession
<1>4. CASE ~Login(t)
  <2>1. \A u \in Threads : ~Login(u)  BY <1>2, <1>4 DEF Step
  <2>2. InSession(t)  BY <1>1, <2>1, LapsedStays DEF SessionInv
  <2>3. ASSUME NEW u \in Threads, Step(u) PROVE InSession(t)'
    BY <1>2, <2>2, <2>3, StepSession
  <2>4. ASSUME NEW p \in Procs, Start(p) PROVE InSession(t)'
    <3>1. /\ env' = [env EXCEPT ![p] = cookie] /\ started' = started \cup {p}
          /\ UNCHANGED <<local, active, cookie>>
      BY <2>4 DEF Start
    <3>2. env'[P(t)] = IF P(t) = p THEN cookie ELSE env[P(t)]
      BY <1>1, <3>1, PartOf DEF TypeInv, TypeOK
    <3>3. P(t) = p => P(t) \notin started  BY <2>4 DEF Start
    <3> QED  BY <1>1, <2>2, <3>1, <3>2, <3>3 DEF InSession, local
  <2>5. ASSUME NEW p \in Procs, Crash(p) PROVE InSession(t)'
    <3>1. /\ UNCHANGED <<script, newToken, newRefresh, second, outcome, ram, cookie, started>>
          /\ pc'[t] \in {"dead", pc[t]}
      BY <2>5 DEF Crash
    <3> QED  BY <1>1, <2>2, <3>1 DEF InSession, ram
  <2>6. CASE Expire \/ Done \/ UNCHANGED vars
    <3>1. UNCHANGED <<local, ram, cookie, started>>
      BY <2>6 DEF Expire, Done, vars, world
    <3> QED  BY <1>1, <2>2, <3>1 DEF InSession, local, ram
  <2> QED  BY <2>3, <2>4, <2>5, <2>6 DEF Next
<1> QED  BY <1>3, <1>4

\* In one process with one thread a call asks for a login only if the last login or logout
\* left no refresh token or the service has refused something since: the flag
\* refresh_token_active is lowered only when a token is missing, expiry takes none away, and
\* a login that has both raises it again (api_client.py, renew_token, token and
\* refresh_token setters; logins.py, login_secret).
THEOREM TokenSession == Spec => []SessionSurvivesExpiry
<1>1. SessionInv => SessionSurvivesExpiry
  BY DEF SessionInv, Alone, InSession, SessionSurvivesExpiry
<1>2. Init => TodoInv /\ SessionInv  BY InitTypes, InitTodo, InitSession DEF TodoInv
<1>3. (TodoInv /\ SessionInv) /\ [Next]_vars => (TodoInv /\ SessionInv)'
  BY NextTodo, NextSession
<1> QED  BY <1>1, <1>2, <1>3, PTL DEF Spec
-----------------------------------------------------------------------------
(* Renewals that overlap. *)

LEMMA OneProcess ==
    ASSUME TypeInv, Cardinality({P(t) : t \in Threads}) = 1 PROVE Alike
<1> DEFINE S == {P(t) : t \in Threads}
<1>1. \A t \in Threads : P(t) \in Procs  BY ProcOf
<1>2. S \subseteq Procs  BY <1>1
<1>3. IsFiniteSet(S)  BY <1>2, FS_Subset, TokenAssumption
<1>4. PICK x : S = {x}  BY <1>3, FS_Singleton
<1> QED  BY <1>4 DEF Alike

\* Who is calm is alive and makes requests.
LEMMA CalmIs ==
    ASSUME TodoInv, Calm, NEW t \in Threads
    PROVE  /\ pc[t] # "dead"
           /\ pc[t] # "set" => script[t] = <<>>
           /\ todo[t] # <<>> => Head(todo[t]) = "call"
<1>1. Part(t) /\ todo[t] \in Seq(Calls)  BY PartOf DEF TodoInv
<1>2. pc[t] # "dead"  BY <1>1 DEF Part, Calm
<1>3. todo[t] # <<>> => Head(todo[t]) \in Kinds
  BY <1>1, RestOfCalls DEF TodoInv, Programme
<1> QED  BY <1>1, <1>2, <1>3 DEF Part, Calm

LEMMA FirstIs ==
    /\ First # None /\ \A k \in Firsts : k \in Tokens /\ k # None /\ k.user = First
    /\ \A e \in 0..MaxEpoch : [user |-> First, epoch |-> e] \in Firsts
  BY TokenAssumption, NoTokens DEF Firsts

\* How a thread goes on renewing.
LEMMA StepRenewing ==
    ASSUME TodoInv, RefreshInv, Calm, NEW t \in Threads, Step(t)
    PROVE  Renewing(t)'
<1> USE DEF TodoInv
<1>1. Renewing(t) /\ Shared(P(t))  BY DEF RefreshInv
<1>2. CASE Begin(t)
  <2>1. Head(todo[t]) = "call"  BY <1>2, BeginIs, CalmIs
  <2> QED  BY <1>2, <2>1, BeginIs DEF Renewing
<1>3. CASE Login(t)  BY <1>1, <1>3, LoginIs DEF Renewing
<1>4. CASE Write(t)  BY <1>1, <1>4, WriteIs DEF Renewing
<1>5. CASE NoAnswer(t) \/ Written(t) \/ Check(t) \/ Send(t) \/ Lower(t) \/ Renew(t)
  <2>1. pc'[t] \in {"idle", "send", "renew", "test", "lower"}
    BY <1>5, NoAnswerIs, WrittenIs, CheckIs, SendIs, LowerIs, RenewIs DEF Ends, To, Tries
  <2> QED  BY <2>1 DEF Renewing
<1>6. CASE Test(t)
  <2>1. P(t) \in started  BY <1>6, StepCalls DEF Step
  <2>2. env[P(t)].refresh \in {First, None}  BY <1>1, <2>1 DEF Shared
  <2>3. pc'[t] \in {"idle", "renew"} \/ (pc'[t] = "post" /\ newRefresh'[t] = env[P(t)].refresh)
    BY <1>6, TestIs DEF Ends, To, Tries
  <2> QED  BY <2>2, <2>3 DEF Renewing
<1>7. CASE Post(t)
  <2>1. newRefresh[t] \in {First, None} /\ epoch \in 0..MaxEpoch
    BY <1>1, <1>7, PostIs DEF Renewing, TypeInv, World
  <2>2. \/ pc'[t] \in {"idle", "renew"}
        \/ /\ pc'[t] = "set" /\ newRefresh[t] # None /\ newRefresh'[t] = newRefresh[t]
           /\ newToken'[t] = [user |-> newRefresh[t], epoch |-> epoch]
    BY <1>7, PostIs DEF Ends, To, Tries
  <2> QED  BY <2>1, <2>2, FirstIs DEF Renewing
<1> QED  BY <1>2, <1>3, <1>4, <1>5, <1>6, <1>7 DEF Step

\* A thread that is not writing has written all.
LEMMA NotWriting ==
    ASSUME TodoInv, RefreshInv, Calm, NEW t \in Threads, Step(t), ~Write(t)
    PROVE  script[t] = <<>> /\ Len(script[t]) = 0
<1>1. pc[t] = "set" => Written(t)
  BY BeginIs, LoginIs, NoAnswerIs, CheckIs, RenewIs, LowerIs, TestIs, PostIs, SendIs
  DEF TodoInv, Step
<1>2. pc[t] = "set" => newRefresh[t] # Absent
  BY TokenAssumption DEF RefreshInv, Renewing
<1>3. script[t] = <<>>  BY <1>1, <1>2, CalmIs, WrittenIs DEF TodoInv
<1> QED  BY <1>3

\* The writes of one thread.
LEMMA WriteShared ==
    ASSUME TodoInv, RefreshInv, Calm, NEW t \in Threads, Write(t)
    PROVE  cookie'.token \in Firsts /\ Shared(P(t))'
<1> DEFINE n == Len(script[t])
           p == P(t)
<1>1. TypeInv /\ Renewing(t) /\ Shared(p) /\ cookie.token \in Firsts /\ p \in started
      /\ p \in Procs
  BY StepCalls, PartOf DEF RefreshInv, TodoInv, Step
<1>2. /\ n \in 1..9 /\ Len(script'[t]) = n - 1 /\ pc[t] = "set" /\ p' = p
      /\ started' = started /\ script'[t] \in Seq(Words)
      /\ cookie' = IF n \in {6, 4, 1} THEN env[p] ELSE cookie
      /\ n \notin {8, 5, 3} => env' = env
      /\ \A u \in Threads \ {t} : script'[u] = script[u]
  BY <1>1, WriteIs DEF world, P, At
<1>3. /\ newToken[t] \in Firsts /\ newRefresh[t] = First /\ token[p] \in Firsts \cup {None}
      /\ env[p].token \in Firsts /\ (env[p].refresh = First \/ (env[p].refresh = None /\ Cleared))
  BY <1>1, <1>2 DEF Renewing, Shared
<1>4. /\ env'[p].token = IF n = 5 THEN newToken[t] ELSE env[p].token
      /\ env'[p].refresh = IF n = 8 THEN None
                           ELSE IF n = 3 THEN newRefresh[t] ELSE env[p].refresh
      /\ token'[p] \in {newToken[t], token[p]}
  BY <1>1, EnvIs
<1> HIDE DEF n, p
<1>5. cookie'.token \in Firsts  BY <1>1, <1>2, <1>3
<1>6. env'[p].token \in Firsts /\ token'[p] \in Firsts \cup {None}  BY <1>3, <1>4
<1>7. env'[p].refresh = First \/ (env'[p].refresh = None /\ Cleared')
  <2>1. n - 1 \in 3..7 => Cleared'  BY <1>2 DEF Cleared
  <2>2. CASE n = 8  BY <1>2, <1>4, <2>1, <2>2
  <2>3. CASE n = 3  BY <1>3, <1>4, <2>3
  <2>4. CASE n \notin {3, 8} /\ env[p].refresh = None
    <3>1. PICK u \in Threads : Len(script[u]) \in 3..7  BY <1>3, <2>4, FirstIs DEF Cleared
    <3>2. CASE u = t  BY <1>2, <1>4, <2>1, <2>4, <3>1, <3>2 DEF n
    <3>3. CASE u # t  BY <1>2, <1>4, <2>4, <3>1, <3>3 DEF Cleared
    <3> QED  BY <3>2, <3>3
  <2>5. CASE n \notin {3, 8} /\ env[p].refresh = First  BY <1>4, <2>5
  <2> QED  BY <1>3, <2>2, <2>3, <2>4, <2>5
<1>8. cookie' = env'[p] \/ Unsaved'
  <2>1. CASE n = 1  BY <1>2, <2>1
  <2>2. CASE n # 1
    <3>1. Len(script'[t]) # 0  BY <1>2, <2>2
    <3>2. script'[t] # <<>>  BY <3>1
    <3> QED  BY <3>2 DEF Unsaved
  <2> QED  BY <2>1, <2>2
<1>9. Shared(p)'  BY <1>1, <1>2, <1>6, <1>7, <1>8 DEF Shared
<1> QED  BY <1>5, <1>9 DEF p

LEMMA StepRefresh ==
    ASSUME TodoInv, RefreshInv, Calm, NEW t \in Threads, Step(t)
    PROVE  /\ cookie'.token \in Firsts /\ started' = started
           /\ \A u \in Threads : Renewing(u)' /\ Shared(P(u))'
<1>1. /\ TypeInv /\ cookie.token \in Firsts
      /\ \A u \in Threads : Renewing(u) /\ Shared(P(u)) /\ P(u) = P(t)
  BY DEF RefreshInv, TodoInv, Calm, Alike
<1>2. started' = started /\ \A u \in Threads : P(u)' = P(t)
  <2>1. scene' = scene /\ started' = started
    <3>1. CASE Write(t)  BY <1>1, <3>1, WriteIs DEF world
    <3>2. CASE ~Write(t)  BY <1>1, <3>2, SetsPair
    <3> QED  BY <3>1, <3>2
  <2> QED  BY <1>1, <2>1, SceneStays
<1>3. ASSUME NEW u \in Threads PROVE Renewing(u)'
  <2>1. CASE u = t  BY <2>1, StepRenewing
  <2>2. CASE u # t
    <3>1. pc'[u] = pc[u] /\ newToken'[u] = newToken[u] /\ newRefresh'[u] = newRefresh[u]
      BY <1>1, <1>3, <2>2, StepLocal DEF Locally, At
    <3> QED  BY <1>1, <3>1 DEF Renewing
  <2> QED  BY <2>1, <2>2
<1>4. cookie'.token \in Firsts /\ Shared(P(t))'
  <2>1. CASE Write(t)  BY <2>1, WriteShared
  <2>2. CASE ~Write(t)
    <3>1. UNCHANGED <<env, cookie, token, scene, started>>  BY <1>1, <2>2, SetsPair
    <3>2. script[t] = <<>> /\ Len(script[t]) = 0  BY <2>2, NotWriting
    <3>3. \A u \in Threads \ {t} : script'[u] = script[u]
      BY <1>1, StepLocal DEF Locally, At
    <3>4. (Cleared => Cleared') /\ (Unsaved => Unsaved')
      BY <3>2, <3>3 DEF Cleared, Unsaved
    <3>5. P(t)' = P(t)  BY <1>2
    <3> QED  BY <1>1, <3>1, <3>4, <3>5 DEF Shared
  <2> QED  BY <2>1, <2>2
<1>5. ASSUME NEW u \in Threads PROVE Shared(P(u))'
  <2>1. P(u)' = P(t)'  BY <1>2
  <2> QED  BY <1>4, <2>1 DEF Shared
<1> QED  BY <1>2, <1>3, <1>4, <1>5

LEMMA InitRefresh == Init => RefreshInv
<1> SUFFICES ASSUME Init PROVE RefreshInv  OBVIOUS
<1>3. Begun  BY DEF Init, Begun
<1> SUFFICES ASSUME ~bare
             PROVE  cookie.token \in Firsts /\ \A t \in Threads : Renewing(t) /\ Shared(P(t))
  BY <1>3 DEF RefreshInv, Calm
<1>1. cookie.token \in Firsts /\ cookie.refresh = First
  <2>1. PICK r \in {First, None} :
             /\ cookie = [token |-> [user |-> First, epoch |-> 0], refresh |-> r]
             /\ bare = (r = None)
    BY DEF Init
  <2>2. 0 \in 0..MaxEpoch  BY TokenAssumption
  <2>3. cookie.refresh = First /\ cookie.token = [user |-> First, epoch |-> 0]  BY <2>1
  <2> QED  BY <2>2, <2>3, FirstIs
<1>2. ASSUME NEW t \in Threads PROVE Renewing(t) /\ Shared(P(t))
  <2>1. P(t) \in Procs  BY InitTypes, ProcOf
  <2>2. pc[t] = "idle" /\ token[P(t)] = None /\ started = {}  BY <2>1 DEF Init
  <2> QED  BY <1>1, <2>2 DEF Renewing, Shared
<1> QED  BY <1>1, <1>2

LEMMA NextBegun == TypeInv /\ Begun /\ [Next]_vars => Begun'
<1> SUFFICES ASSUME TypeInv, Begun, [Next]_vars PROVE Begun'  OBVIOUS
<1>1. {P(t) : t \in Threads}' = {P(t) : t \in Threads}  BY NextScene DEF P
<1>2. ASSUME NEW t \in Threads, Step(t) PROVE started' = started
  <2>1. CASE Write(t)  BY <1>2, <2>1, WriteIs DEF world
  <2>2. CASE ~Write(t)  BY <1>2, <2>2, SetsPair
  <2> QED  BY <2>1, <2>2
<1>3. ASSUME NEW p \in Procs, Start(p)
      PROVE  p \in {P(t) : t \in Threads} /\ started' = started \cup {p}
  BY <1>3 DEF Start
<1>4. ASSUME NEW p \in Procs, Crash(p) PROVE started' = started  BY <1>4 DEF Crash
<1>5. Expire \/ Done \/ UNCHANGED vars => started' = started
  BY DEF Expire, Done, vars, world
<1>6. started' = started
      \/ \E p \in Procs : p \in {P(t) : t \in Threads} /\ started' = started \cup {p}
  BY <1>2, <1>3, <1>4, <1>5 DEF Next
<1> QED  BY <1>1, <1>6 DEF Begun

LEMMA NextRefresh == TodoInv /\ RefreshInv /\ [Next]_vars => RefreshInv'
<1> SUFFICES ASSUME TodoInv, RefreshInv, [Next]_vars PROVE RefreshInv'  OBVIOUS
<1>1. TypeInv /\ Begun /\ scene' = scene /\ crashes \in Nat
  BY NextScene DEF TodoInv, RefreshInv, TypeInv, World
<1>2. Begun'  BY <1>1, NextBegun
<1> SUFFICES ASSUME Calm'
             PROVE  /\ cookie'.token \in Firsts
                    /\ \A t \in Threads : Renewing(t)' /\ Shared(P(t))'
  BY <1>2 DEF RefreshInv, Firsts, Tokens
<1>3. crashes' = 0 /\ Kinds \subseteq {"call"} /\ Alike /\ \A t \in Threads : P(t)' = P(t)
  BY <1>1, SceneStays DEF Calm
<1>4. ASSUME NEW p \in Procs, Crash(p) PROVE FALSE
  BY <1>1, <1>3, <1>4 DEF Crash
<1>5. crashes = 0
  <2>1. ASSUME NEW t \in Threads, Step(t) PROVE crashes' = crashes
    BY <2>1 DEF Step, Begin, Login, NoAnswer, Write, Written, Check, Renew, Lower, Test, Post,
                Send, world
  <2>2. ASSUME NEW p \in Procs, Start(p) PROVE crashes' = crashes  BY <2>2 DEF Start
  <2>3. Expire \/ Done \/ UNCHANGED vars => crashes' = crashes
    BY DEF Expire, Done, vars, world
  <2> QED  BY <1>3, <1>4, <2>1, <2>2, <2>3 DEF Next
<1>6. Calm
  <2>1. ASSUME NEW t \in Threads, Login(t) PROVE FALSE
    <3>1. Head(todo[t]) \in Users /\ todo[t] # <<>>
      BY <1>1, <2>1, LoginIs, PartOf, Busy DEF Part
    <3>2. Head(todo[t]) \in Kinds  BY <1>1, <3>1, PartOf, RestOfCalls DEF TodoInv, Programme
    <3> QED  BY <1>3, <3>1, <3>2, TokenAssumption
  <2>2. bare => bare'  BY <1>1, <2>1, LapsedStays
  <2> QED  BY <1>3, <1>5, <2>2 DEF Calm
<1>7. cookie.token \in Firsts /\ \A t \in Threads : Renewing(t) /\ Shared(P(t))
  BY <1>6 DEF RefreshInv
<1>8. ASSUME NEW t \in Threads, Step(t)
      PROVE  cookie'.token \in Firsts /\ \A u \in Threads : Renewing(u)' /\ Shared(P(u))'
  BY <1>6, <1>8, StepRefresh
<1>9. ASSUME NEW p \in Procs, Start(p)
      PROVE  cookie'.token \in Firsts /\ \A u \in Threads : Renewing(u)' /\ Shared(P(u))'
  <2>1. /\ env' = [env EXCEPT ![p] = cookie] /\ started' = started \cup {p}
        /\ UNCHANGED <<scene, local, token, cookie>> /\ p \notin started
        /\ p \in {P(t) : t \in Threads}
    BY <1>9 DEF Start
  <2>2. env'[p] = cookie  BY <1>1, <2>1 DEF TypeInv, TypeOK
  <2>3. ASSUME NEW u \in Threads PROVE Renewing(u)' /\ Shared(P(u))'
    <3>1. P(u) = p /\ P(u)' = p  BY <1>3, <2>1 DEF Alike
    <3>2. token'[p] \in Firsts \cup {None} /\ cookie'.refresh = First /\ cookie.token \in Firsts
      BY <1>7, <2>1, <3>1 DEF Shared
    <3>3. Shared(P(u))'  BY <2>1, <2>2, <3>1, <3>2 DEF Shared
    <3>4. Renewing(u)'  BY <1>7, <2>1 DEF Renewing, local
    <3> QED  BY <3>3, <3>4
  <2> QED  BY <1>7, <2>1, <2>3
<1>10. CASE Expire \/ Done \/ UNCHANGED vars
  <2>1. UNCHANGED <<scene, local, token, env, cookie, started>>
    BY <1>10 DEF Expire, Done, vars, ram, world
  <2>2. (Cleared => Cleared') /\ (Unsaved => Unsaved')  BY <2>1 DEF local, Cleared, Unsaved
  <2> QED  BY <1>3, <1>7, <2>1, <2>2 DEF Renewing, Shared, local
<1> QED  BY <1>4, <1>8, <1>9, <1>10 DEF Next

\* Renewals that overlap, in any number of threads of one process, give the refresh token
\* back: who finds none has read it between the writes of another that will set it
\* (api_client.py, renew_token and _renew_token_with_refresh_token).
THEOREM TokenRefresh == Spec => []RefreshKept
<1>1. TodoInv /\ RefreshInv => RefreshKept
  <2> SUFFICES ASSUME TodoInv, RefreshInv, crashes = 0, ~bare, Kinds \subseteq {"call"},
                      Cardinality({P(t) : t \in Threads}) = 1,
                      \A t \in Threads : script[t] = <<>>, NEW p \in started
               PROVE  env[p].refresh = First /\ Token(p).user = First /\ cookie = env[p]
    BY DEF RefreshKept
  <2>1. Calm  BY OneProcess DEF Calm, TodoInv
  <2>2. PICK t \in Threads : p = P(t)  BY DEF RefreshInv, Begun
  <2>3. Shared(p)  BY <2>1, <2>2 DEF RefreshInv
  <2>4. ~Unsaved /\ ~Cleared
    <3>1. \A u \in Threads : Len(script[u]) = 0  OBVIOUS
    <3>2. 0 \notin 3..7  OBVIOUS
    <3>3. ~Cleared  BY <3>1, <3>2, Zenon DEF Cleared
    <3>4. ~Unsaved  BY Zenon DEF Unsaved
    <3> QED  BY <3>3, <3>4
  <2>5. Token(p) \in Firsts  BY <2>3 DEF Shared, Token
  <2> QED  BY <2>3, <2>4, <2>5, FirstIs DEF Shared
<1>2. Init => TodoInv /\ RefreshInv  BY InitTypes, InitTodo, InitRefresh DEF TodoInv
<1>3. (TodoInv /\ RefreshInv) /\ [Next]_vars => (TodoInv /\ RefreshInv)'
  BY NextTodo, NextRefresh
<1> QED  BY <1>1, <1>2, <1>3, PTL DEF Spec
=============================================================================
