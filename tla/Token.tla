------------------------------- MODULE Token --------------------------------
(***************************************************************************)
(* The login of dtlpy/services/api_client.py and logins.py: a token that      *)
(* expires, a refresh token that buys the next one, a flag that says whether  *)
(* buying is worth a try, and a copy of both in the cookie.  The threads of a *)
(* process share all but the locals and take no lock; processes share the     *)
(* cookie.  (The cookie's own lock is the subject of Cookie; here a put is    *)
(* one step, for the dictionary it writes is read when it writes.)           *)
(*                                                                         *)
(* A token names its user and the epoch it is good for, a refresh token its   *)
(* user.  The service answers a refresh or refuses it; what it answers to a  *)
(* login may hold no refresh token, and login_token never has one.           *)
(***************************************************************************)
EXTENDS Naturals, Sequences, FiniteSets

CONSTANTS
    Threads,
    Procs,
    Scenes,         \* [proc, calls]: the process of each thread and what it does:
                    \* "call", "logout", or a user, who logs in
    Users,
    First,          \* the user the cookie starts with
    MayRefuse,      \* whether the service may refuse
    MaxEpoch,       \* bounds the expirations
    MaxCrashes,     \* bounds the crashes
    None,
    Absent          \* the refresh token of an answer that has none

ASSUME TokenAssumption ==
    /\ First \in Users /\ IsFiniteSet(Procs)
    /\ \A s \in Scenes :
          /\ s.proc \in [Threads -> Procs]
          /\ s.calls \in [Threads -> Seq(Users \cup {"call", "logout"})]
    /\ MayRefuse \in BOOLEAN /\ MaxEpoch \in Nat /\ MaxCrashes \in Nat
    /\ None \notin Users \cup [user : Users, epoch : Nat]
    /\ Absent \notin Users \cup {None}
    /\ Users \cap {"call", "logout"} = {}

VARIABLES
    scene,      \* the one of Scenes that is played
    pc, todo,   \* control and remaining calls of a thread
    script,     \* the writes a thread has still to make to set a login
    newToken,   \* local: the token it sets
    newRefresh, \* local: the refresh token it sets
    second,     \* the decorator tries renew_token_method a second time
    outcome,    \* how the thread's last call ended
    token,      \* _token of a process
    env,        \* _environments[environment] of a process
    active,     \* refresh_token_active
    cookie,     \* login_parameters in the cookie file
    started, crashes, epoch,
    bare,       \* history: the last login or logout left no refresh token
    refused     \* history: the service refused something since the last login

local == <<pc, todo, script, newToken, newRefresh, second, outcome>>
ram == <<token, env, active>>
world == <<scene, started, crashes, epoch, bare, refused>>
vars == <<local, ram, cookie, world>>

NoLogin == [token |-> None, refresh |-> None]
Init ==
    /\ scene \in Scenes
    /\ pc = [t \in Threads |-> "idle"] /\ todo = scene.calls
    /\ script = [t \in Threads |-> <<>>] /\ newToken = [t \in Threads |-> None]
    /\ newRefresh = [t \in Threads |-> None] /\ second = [t \in Threads |-> FALSE]
    /\ outcome = [t \in Threads |-> "none"]
    /\ token = [p \in Procs |-> None] /\ env = [p \in Procs |-> NoLogin]
    /\ active = [p \in Procs |-> TRUE]
    /\ \E r \in {First, None} :
          /\ cookie = [token |-> [user |-> First, epoch |-> 0], refresh |-> r]
          /\ bare = (r = None)
    /\ started = {} /\ crashes = 0 /\ epoch = 0 /\ refused = FALSE

P(t) == scene.proc[t]
\* The properties token and token_expired.
Token(p) == IF token[p] # None THEN token[p] ELSE env[p].token
Valid(k) == k # None /\ k.epoch = epoch

GoTo(t, l) == pc' = [pc EXCEPT ![t] = l]
End(t, how) ==
    /\ GoTo(t, "idle") /\ outcome' = [outcome EXCEPT ![t] = how]
    /\ todo' = [todo EXCEPT ![t] = Tail(@)]
-----------------------------------------------------------------------------
\* A process reads the environments of its cookie, once.
Start(p) ==
    /\ p \in {P(t) : t \in Threads} \ started /\ started' = started \cup {p}
    /\ env' = [env EXCEPT ![p] = cookie]
    /\ UNCHANGED <<scene, local, token, active, cookie, crashes, epoch, bare, refused>>

\* The writes of a login: the setter of token clears the refresh token first, and
\* every setter saves the environments.
KeepRefresh == <<"token", "env", "save", "refresh", "active", "save">>
ClearFirst == <<"token", "clear", "active", "save", "env", "save",
                "refresh", "active", "save">>
StayInactive == <<"token", "clear", "save", "env", "save", "refresh", "save">>
Writes == ClearFirst

Sets(t, k, r) ==
    /\ script' = [script EXCEPT ![t] = Writes]
    /\ newToken' = [newToken EXCEPT ![t] = k]
    /\ newRefresh' = [newRefresh EXCEPT ![t] = r]

Begin(t) ==
    /\ pc[t] = "idle" /\ todo[t] # <<>> /\ P(t) \in started
    /\ LET c == Head(todo[t]) IN
         CASE c = "call" -> GoTo(t, "check") /\ UNCHANGED <<script, newToken, newRefresh, bare>>
           [] c = "logout" -> GoTo(t, "set") /\ Sets(t, None, None) /\ bare' = TRUE
           [] OTHER -> GoTo(t, "login") /\ UNCHANGED <<script, newToken, newRefresh, bare>>
    /\ second' = [second EXCEPT ![t] = FALSE]
    /\ UNCHANGED <<todo, outcome, ram, cookie, scene, started, crashes, epoch, refused>>

\* login_secret with force: an answer that has a refresh token or none (login_token
\* never has one), or a logout.
Login(t) ==
    LET u == Head(todo[t]) IN
    /\ pc[t] = "login" /\ GoTo(t, "set")
    /\ \/ \E r \in {u, Absent} :
             /\ Sets(t, [user |-> u, epoch |-> epoch], r)
             /\ bare' = (r = Absent) /\ refused' = FALSE
       \/ MayRefuse /\ Sets(t, None, None) /\ bare' = TRUE /\ refused' = TRUE
    /\ UNCHANGED <<todo, second, outcome, ram, cookie, scene, started, crashes, epoch>>

\* No answer at all: requests.request raises, out of a login or out of a call.
NoAnswer(t) ==
    /\ MayRefuse /\ pc[t] \in {"login", "post"} /\ End(t, "error")
    /\ UNCHANGED <<script, newToken, newRefresh, second, ram, cookie, world>>

\* 'if refresh_token in response_dict': the setter of refresh_token is not called.
NoMore(t) == newRefresh[t] = Absent /\ Len(script[t]) = 3

\* One write of the script.
Write(t) ==
    LET p == P(t) IN
    /\ pc[t] = "set" /\ script[t] # <<>> /\ ~NoMore(t)
    /\ script' = [script EXCEPT ![t] = Tail(@)]
    /\ token' = IF Head(script[t]) = "token" THEN [token EXCEPT ![p] = newToken[t]] ELSE token
    /\ env' = CASE Head(script[t]) = "clear" -> [env EXCEPT ![p].refresh = None]
                [] Head(script[t]) = "env" -> [env EXCEPT ![p].token = newToken[t]]
                [] Head(script[t]) = "refresh" -> [env EXCEPT ![p].refresh = newRefresh[t]]
                [] OTHER -> env
    /\ active' = IF Head(script[t]) = "active" THEN [active EXCEPT ![p] = TRUE] ELSE active
    /\ cookie' = IF Head(script[t]) = "save" THEN env[p] ELSE cookie
    /\ UNCHANGED <<pc, todo, newToken, newRefresh, second, outcome, world>>

\* After a renewal the request is sent, a login or a logout returns.
Written(t) ==
    /\ pc[t] = "set" /\ (script[t] = <<>> \/ NoMore(t))
    /\ script' = [script EXCEPT ![t] = <<>>]
    /\ IF Head(todo[t]) = "call" THEN GoTo(t, "send") /\ UNCHANGED <<todo, outcome>>
                                 ELSE End(t, "ok")
    /\ UNCHANGED <<newToken, newRefresh, second, ram, cookie, world>>
-----------------------------------------------------------------------------
(* A request: token_expired_decorator, token_expired, renew_token. *)

Check(t) ==
    /\ pc[t] = "check"
    /\ GoTo(t, IF Valid(Token(P(t))) THEN "send" ELSE "renew")
    /\ UNCHANGED <<todo, script, newToken, newRefresh, second, outcome, ram, cookie, world>>

\* renew_token returns False: token_expired returns True and the decorator calls
\* it again, then raises 'Token expired, Please login'.
NotRenewed(t) ==
    IF second[t] THEN End(t, "600") /\ UNCHANGED second
    ELSE /\ second' = [second EXCEPT ![t] = TRUE] /\ GoTo(t, "renew")
         /\ UNCHANGED <<todo, outcome>>

\* The tests of _renew_token_with_refresh_token read, and only then lower the flag.
Renew(t) ==
    LET p == P(t) IN
    /\ pc[t] = "renew"
    /\ IF ~active[p] THEN NotRenewed(t)
       ELSE /\ GoTo(t, IF Token(p) = None \/ env[p].refresh = None THEN "lower" ELSE "test")
            /\ UNCHANGED <<todo, second, outcome>>
    /\ UNCHANGED <<script, newToken, newRefresh, ram, cookie, world>>

Lower(t) ==
    /\ pc[t] = "lower" /\ GoTo(t, "test")
    /\ active' = [active EXCEPT ![P(t)] = FALSE]
    /\ UNCHANGED <<todo, script, newToken, newRefresh, second, outcome, token, env, cookie, world>>

\* if self.refresh_token_active is False: return; refresh_token = self.refresh_token
Test(t) ==
    LET p == P(t) IN
    /\ pc[t] = "test"
    /\ IF ~active[p] THEN NotRenewed(t) /\ UNCHANGED newRefresh
       ELSE /\ newRefresh' = [newRefresh EXCEPT ![t] = env[p].refresh]
            /\ GoTo(t, "post") /\ UNCHANGED <<todo, second, outcome>>
    /\ UNCHANGED <<script, newToken, ram, cookie, world>>

\* What the answer of /token is followed by: the refresh token that was sent is
\* set again.
Forgotten(t) == None
Sent(t) == newRefresh[t]

\* The request to /token.
Post(t) ==
    LET r == newRefresh[t] IN
    /\ pc[t] = "post"
    /\ \/ /\ r # None /\ Sets(t, [user |-> r, epoch |-> epoch], Sent(t))
          /\ GoTo(t, "set") /\ UNCHANGED <<todo, second, outcome, refused>>
       \/ /\ r = None \/ MayRefuse
          /\ refused' = (refused \/ r # None) /\ NotRenewed(t)
          /\ UNCHANGED <<script, newToken, newRefresh>>
    /\ UNCHANGED <<ram, cookie, scene, started, crashes, epoch, bare>>

\* auth of the request: 'Bearer ' + self.token
Send(t) ==
    /\ pc[t] = "send"
    /\ End(t, IF Token(P(t)) = None THEN "TypeError" ELSE "ok")
    /\ UNCHANGED <<script, newToken, newRefresh, second, ram, cookie, world>>
-----------------------------------------------------------------------------
\* Time passes.
Expire ==
    /\ epoch < MaxEpoch /\ epoch' = epoch + 1
    /\ UNCHANGED <<scene, local, ram, cookie, started, crashes, bare, refused>>

Crash(p) ==
    /\ crashes < MaxCrashes /\ p \in started /\ crashes' = crashes + 1
    /\ pc' = [t \in Threads |-> IF P(t) = p THEN "dead" ELSE pc[t]]
    /\ UNCHANGED <<todo, script, newToken, newRefresh, second, outcome, ram, cookie,
                   scene, started, epoch, bare, refused>>

Step(t) ==
    \/ Begin(t) \/ Login(t) \/ NoAnswer(t) \/ Write(t) \/ Written(t) \/ Check(t) \/ Renew(t)
    \/ Lower(t) \/ Test(t) \/ Post(t) \/ Send(t)

AllEnded == \A t \in Threads : pc[t] = "dead" \/ (pc[t] = "idle" /\ todo[t] = <<>>)
Done == AllEnded /\ UNCHANGED vars

Next ==
    \/ \E t \in Threads : Step(t)
    \/ \E p \in Procs : Start(p) \/ Crash(p)
    \/ Expire \/ Done
Spec == Init /\ [][Next]_vars
-----------------------------------------------------------------------------
(* Requirements. *)

Tokens == [user : Users, epoch : 0..MaxEpoch] \cup {None}
Labels == {"idle", "login", "set", "check", "renew", "lower", "test", "post", "send", "dead"}

\* Every variable has its type.
TypeOK ==
    /\ pc \in [Threads -> Labels]
    /\ newToken \in [Threads -> Tokens] /\ newRefresh \in [Threads -> Users \cup {None, Absent}]
    /\ token \in [Procs -> Tokens]
    /\ env \in [Procs -> [token : Tokens, refresh : Users \cup {None}]]
    /\ cookie \in [token : Tokens, refresh : Users \cup {None}]
    /\ active \in [Procs -> BOOLEAN] /\ started \subseteq Procs

Kinds == UNION {{scene.calls[t][i] : i \in 1..Len(scene.calls[t])} : t \in Threads}
OneThreadEach == \A t, u \in Threads : t # u /\ P(t) = P(u) => <<>> \in {scene.calls[t], scene.calls[u]}

\* Renewals that overlap, in any number of threads of a process, give the refresh
\* token back in the end: while nobody logs in or out and there is one, it is in RAM and in
\* the cookie, next to the token of its user.
RefreshKept ==
    crashes = 0 /\ ~bare /\ Kinds \subseteq {"call"} /\ Cardinality({P(t) : t \in Threads}) = 1
    /\ (\A t \in Threads : script[t] = <<>>) =>
        \A p \in started :
            env[p].refresh = First /\ Token(p).user = First /\ cookie = env[p]

\* Whatever processes of one thread log in, renew, log out or die half way: the
\* cookie never holds one user's token with another's refresh token.
CookieIsOneLogin ==
    OneThreadEach /\ cookie.token # None /\ cookie.refresh # None =>
        cookie.token.user = cookie.refresh

\* In one process with one thread a call asks for a login only if the last login, or a
\* logout after it, left no refresh token, or the service has refused something since:
\* expiry by itself does not end a session that has a refresh token.
SessionSurvivesExpiry ==
    (\E t \in Threads :
        /\ pc[t] = "idle" /\ outcome[t] = "600"
        /\ \A u \in Threads \ {t} : scene.calls[u] = <<>>) =>
      refused \/ bare
=============================================================================
