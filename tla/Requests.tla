------------------------------ MODULE Requests ------------------------------
(***************************************************************************)
(* How dtlpy sends a request: "sync" through _gen_request and the session  *)
(* of send_session (dtlpy/services/api_client.py), whose adapter retries;  *)
(* "async" through gen_async_request and the RetryClient of                *)
(* dtlpy/services/aihttp_retry.py; "upload" through upload_file_async,      *)
(* which tries once (its caller tries again: Upload.tla).                   *)
(*                                                                         *)
(* The requests are of threads and coroutines of one ApiClient.  They share *)
(* its session, which the first sync request makes, and mounts the adapter  *)
(* that retries on it, without a lock.  The service may fail at any time    *)
(* and for ever.                                                           *)
(***************************************************************************)
EXTENDS Naturals

CONSTANTS
    Requests,
    Mixes,        \* which client sends each request
    SyncTries,    \* 1 + total of the session's Retry: 6
    AsyncTries    \* retry_attempts: 5

Kinds == {"sync", "async", "upload"}
NoSession == "none"

ASSUME RequestsAssumption ==
    /\ Mixes \subseteq [Requests -> Kinds]
    /\ SyncTries \in Nat \ {0} /\ AsyncTries \in Nat \ {0}
    /\ NoSession \notin Requests

VARIABLES
    kind,      \* which client sends each request
    session,   \* self.session, named after the request that made it
    mounted,   \* sessions with the adapter that retries
    pc,
    bare,      \* sync requests on a session without it
    tries,     \* _current_attempt, or what the session's Retry counted
    last,      \* the last outcome of a try
    flying,    \* tries whose connection broke and that the service has yet to see
    applied,   \* how often the service did it
    told,      \* what the caller was told
    raced      \* history: sent while another request was about to mount

rqvars == <<kind, session, mounted, pc, bare, tries, last, flying, applied, told, raced>>

Statuses == {"2xx", "4xx", "500", "503"}    \* 500: a 5xx the session's Retry does not list
Exceptions == {"broken", "fatal"}           \* connection lost; any other exception

MaxTries(r) == CASE kind[r] = "sync" -> SyncTries
                 [] kind[r] = "async" -> AsyncTries
                 [] kind[r] = "upload" -> 1

\* _check_code and retry_exceptions; status_forcelist, connect and read.
Retried(r) == CASE kind[r] = "sync" -> {"broken", "503"}
                [] kind[r] = "async" -> {"broken", "500", "503"}
                [] kind[r] = "upload" -> {}

\* Rq: AnnotationPoolProofs extends AnnotationPool and this module.
RqInit ==
    /\ kind \in Mixes
    /\ session = NoSession /\ mounted = {}
    /\ pc = [r \in Requests |-> "start"]
    /\ bare = {}
    /\ tries = [r \in Requests |-> 0]
    /\ last = [r \in Requests |-> "none"]
    /\ flying = [r \in Requests |-> 0]
    /\ applied = [r \in Requests |-> 0]
    /\ told = [r \in Requests |-> "none"]
    /\ raced = {}
-----------------------------------------------------------------------------
Goto(r, label) == pc' = [pc EXCEPT ![r] = label]
Traffic == <<tries, last, flying, applied, told>>

\* send_session: if self.session is None.
CheckSession(r) ==
    /\ pc[r] = "start"
    /\ Goto(r, IF kind[r] = "sync" /\ session = NoSession THEN "make" ELSE "send")
    /\ UNCHANGED <<kind, session, mounted, bare, raced, Traffic>>

\* self.session = requests.Session()
MakeSession(r) ==
    /\ pc[r] = "make"
    /\ session' = r
    /\ Goto(r, "mount")
    /\ UNCHANGED <<kind, mounted, bare, raced, Traffic>>

\* self.session.mount, of the session that is there now.
MountFirst(r) ==
    /\ pc[r] = "mount"
    /\ mounted' = IF mounted = {} THEN {session} ELSE mounted
    /\ Goto(r, "send")
    /\ UNCHANGED <<kind, session, bare, raced, Traffic>>

Mount(r) ==
    /\ pc[r] = "mount"
    /\ mounted' = mounted \cup {session}
    /\ Goto(r, "send")
    /\ UNCHANGED <<kind, session, bare, raced, Traffic>>

\* The first try; a sync request takes the adapter of the session.
Send(r) ==
    /\ pc[r] = "send"
    /\ tries' = [tries EXCEPT ![r] = @ + 1]
    /\ bare' = IF kind[r] = "sync" /\ tries[r] = 0 /\ session \notin mounted
               THEN bare \cup {r} ELSE bare
    /\ raced' = IF tries[r] = 0 /\ \E q \in Requests \ {r} : pc[q] = "mount"
                THEN raced \cup {r} ELSE raced
    /\ Goto(r, "sent")
    /\ UNCHANGED <<kind, session, mounted, last, flying, applied, told>>

\* The service answers; it did what was asked, or, with an error, may have done it.
Answer(r) ==
    /\ pc[r] = "sent"
    /\ \E status \in Statuses, done \in {0, 1} :
          /\ status = "2xx" => done = 1
          /\ status = "4xx" => done = 0
          /\ last' = [last EXCEPT ![r] = status]
          /\ applied' = [applied EXCEPT ![r] = @ + done]
    /\ Goto(r, "tried")
    /\ UNCHANGED <<kind, session, mounted, bare, raced, tries, flying, told>>

\* No answer: the connection broke, and the service did it, will do it or never
\* saw it; or the request was never sent.
NoAnswer(r) ==
    /\ pc[r] = "sent"
    /\ \E exception \in Exceptions, done \in {0, 1}, later \in {0, 1} :
          /\ exception = "fatal" => done + later = 0
          /\ done + later < 2
          /\ last' = [last EXCEPT ![r] = exception]
          /\ applied' = [applied EXCEPT ![r] = @ + done]
          /\ flying' = [flying EXCEPT ![r] = @ + later]
    /\ Goto(r, "tried")
    /\ UNCHANGED <<kind, session, mounted, bare, raced, tries, told>>

Arrive(r) ==
    /\ flying[r] > 0
    /\ flying' = [flying EXCEPT ![r] = @ - 1]
    /\ applied' = [applied EXCEPT ![r] = @ + 1]
    /\ UNCHANGED <<kind, session, mounted, bare, raced, pc, tries, last, told>>

\* _do_request and the session's Retry count the tries; a bare session has one.
OneMore(r) == tries[r] <= MaxTries(r) /\ r \notin bare
OneLess(r) == tries[r] + 1 < MaxTries(r) /\ r \notin bare
TriesLeft(r) == tries[r] < MaxTries(r) /\ r \notin bare
TryAgain(r) == last[r] \in Retried(r) /\ TriesLeft(r)

Retry(r) ==
    /\ pc[r] = "tried" /\ TryAgain(r)
    /\ Goto(r, "send")
    /\ UNCHANGED <<kind, session, mounted, bare, raced, Traffic>>

\* The last answer reaches the caller; ok is a status below 400.
Respond(r) ==
    /\ pc[r] = "tried" /\ ~TryAgain(r)
    /\ last[r] \in Statuses
    /\ told' = [told EXCEPT ![r] = IF last[r] = "2xx" THEN "ok" ELSE "refused"]
    /\ Goto(r, "end")
    /\ UNCHANGED <<kind, session, mounted, bare, raced, tries, last, flying, applied>>

\* send raises, or the answer is an AsyncResponseError: after an exception, and after an
\* answer whose body breaks off, which no client tries again.
Raise(r) ==
    /\ pc[r] = "tried" /\ ~TryAgain(r)
    /\ told' = [told EXCEPT ![r] = "error"]
    /\ Goto(r, "end")
    /\ UNCHANGED <<kind, session, mounted, bare, raced, tries, last, flying, applied>>

Step(r) ==
    \/ CheckSession(r) \/ MakeSession(r) \/ Mount(r) \/ Send(r)
    \/ Answer(r) \/ NoAnswer(r) \/ Retry(r) \/ Respond(r) \/ Raise(r)

RqNext == \E r \in Requests : Step(r) \/ Arrive(r)

\* Every thread and coroutine runs on, and no connection stays silent for ever: the
\* requests have no timeout of their own (timeout=None, total=0).
Fairness == \A r \in Requests : WF_rqvars(Step(r))

RqSpec == RqInit /\ [][RqNext]_rqvars /\ Fairness
-----------------------------------------------------------------------------
RqTypeOK ==
    /\ kind \in Mixes
    /\ session \in Requests \cup {NoSession} /\ mounted \subseteq Requests \cup {NoSession}
    /\ pc \in [Requests -> {"start", "make", "mount", "send", "sent", "tried", "end"}]
    /\ bare \subseteq Requests /\ raced \subseteq Requests
    /\ tries \in [Requests -> Nat]
    /\ last \in [Requests -> Statuses \cup Exceptions \cup {"none"}]
    /\ flying \in [Requests -> Nat] /\ applied \in [Requests -> Nat]
    /\ told \in [Requests -> {"none", "ok", "refused", "error"}]

\* Whatever the service and the network do, a request keeps the promise of AtLeastOnce:
\* success is true, the caller is told once and in the end, and the service does it at
\* most as often as the client may try (aihttp_retry.py:46, api_client.py:1035).
Promise == INSTANCE AtLeastOnce WITH most <- [r \in Requests |-> MaxTries(r)]
KeepsPromise == Promise!Spec

\* A request gives up on an outcome its client retries only after all its tries; or it
\* was sent while another one had made the session and not mounted the adapter yet
\* (api_client.py:1203-1221).
GivesUpLate ==
    \A r \in Requests :
        \/ told[r] \in {"none", "ok"} \/ last[r] \notin Retried(r)
        \/ tries[r] = MaxTries(r)
        \/ r \in raced
=============================================================================
