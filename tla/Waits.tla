-------------------------------- MODULE Waits -------------------------------
(***************************************************************************)
(* The two polls for a job of the service: Commands.wait and Executions.wait *)
(* of dtlpy/repositories.  Both sleep longer and longer and both take a       *)
(* timeout, but a command looks at the clock before it sleeps and at the      *)
(* deadline before it polls, while an execution numbers its polls and has a   *)
(* default timeout.  The job is run, aborted and (an execution) run again by  *)
(* others.  Time is in whole seconds, and an answer takes some of it.         *)
(***************************************************************************)
EXTENDS Integers, FiniteSets, FiniteSetsExt

CONSTANTS
    Timeouts,           \* the arguments that are looked at: numbers and NoTimeout
    NoTimeout,          \* the argument None
    ExecutionTimeout,   \* execution_timeout of the service
    Backoff,            \* backoff_factor
    Latencies,          \* what an answer may take
    MaxLatency,         \* bounds the latencies
    MaxReruns           \* bounds the reruns

ASSUME WaitsAssumption ==
    /\ Timeouts \subseteq Nat \cup {NoTimeout} /\ ExecutionTimeout \in Nat
    /\ Backoff \in Nat \ {0} /\ MaxReruns \in Nat
    /\ MaxLatency \in Nat /\ Latencies \subseteq 0..MaxLatency
    /\ NoTimeout \notin Nat

MAX_SLEEP_TIME == 30
MaxPolls == 18

\* Powers of two, as far as they are slept.
ASSUME PowersOfTwo ==
    /\ 2 ^ 1 = 2
    /\ \A n \in 1..(MaxPolls + 1) : /\ 2 ^ n \in Nat /\ 2 ^ (n + 1) = 2 * 2 ^ n
                                    /\ n >= 5 => 2 ^ n > MAX_SLEEP_TIME

\* The other statuses of the service are treated like these.
Running == {"created", "in-progress"}
Ending == {"success", "failed", "aborted"}

VARIABLES
    kind, timeout,  \* which wait, and its argument
    state, reruns,  \* of the job, at the service: its status and how often it was rerun
    now,            \* seconds since start
    pc, elapsed,
    tries,          \* num_tries of a command, i of an execution
    seen,           \* the status of the last answer
    slept,          \* the argument of the last sleep
    result

call == <<kind, timeout>>
job == <<state, reruns>>
wtvars == <<call, job, now, pc, elapsed, tries, seen, slept, result>>

Poll == IF kind = "command" THEN "loop" ELSE "get"
\* Wt: TrainingProofs extends Training and this module.
WtInit ==
    /\ kind \in {"command", "execution"} /\ timeout \in Timeouts
    /\ state = "created" /\ reruns = 0 /\ now = 0
    /\ pc = Poll /\ elapsed = 0 /\ tries = 1 /\ seen = "none" /\ slept = 0 /\ result = "none"

\* timeout <= 0, and for a command also None, is infinity.
Endless == timeout = 0 \/ (kind = "command" /\ timeout = NoTimeout)
Limit == IF timeout = NoTimeout THEN ExecutionTimeout + 60 ELSE timeout
Reached(t) == ~Endless /\ t >= Limit
Passed(t) == ~Endless /\ t > Limit
\* The time after d more seconds; an endless wait never uses it.
Later(d) == IF Endless THEN 0 ELSE now + d
-----------------------------------------------------------------------------
(* The job. *)

Progress ==
    /\ state \in Running /\ state' \in {"in-progress"} \cup Ending
    /\ UNCHANGED <<call, reruns, now, pc, elapsed, tries, seen, slept, result>>

Rerun ==
    /\ kind = "execution" /\ state \in Ending /\ reruns < MaxReruns
    /\ state' = "created" /\ reruns' = reruns + 1
    /\ UNCHANGED <<call, now, pc, elapsed, tries, seen, slept, result>>
-----------------------------------------------------------------------------
(* The waits. *)

\* while elapsed < timeout, with the time before the last sleep
Loop ==
    /\ pc = "loop" /\ pc' = IF Reached(elapsed) THEN "conclude" ELSE "get"
    /\ UNCHANGED <<call, job, now, elapsed, tries, seen, slept, result>>

\* What ends the polling.
OnlySuccess(s) == s = "success"
Ended(s) == s \in Ending

Get ==
    /\ pc = "get"
    /\ \E d \in Latencies : now' = Later(d)
    /\ seen' = state
    /\ pc' = IF Ended(state) THEN "conclude" ELSE "sleep"
    /\ UNCHANGED <<call, job, elapsed, tries, slept, result>>

\* The request fails: PlatformException.
GetFails ==
    /\ pc = "get" /\ pc' = "done" /\ result' = "request failed"
    /\ UNCHANGED <<call, job, now, elapsed, tries, seen, slept>>

\* A command: min(timeout - elapsed, backoff_factor * 2 ** num_tries, MAX_SLEEP_TIME);
\* an execution: minimum(timeout - elapsed, 2 ** i).
Longest(n) == IF kind = "command" THEN {Backoff * 2 ^ n, MAX_SLEEP_TIME} ELSE {2 ^ n}
WholeTime(n, t) == Min(Longest(n))
SleepTime(n, t) == Min(Longest(n) \cup (IF Endless THEN {} ELSE {Limit - t}))

\* time.sleep raises ValueError for a negative time.  (The number of tries of a
\* command no longer matters once the cap is reached.)
SleepCommand ==
    /\ pc = "sleep" /\ kind = "command"
    /\ elapsed' = now /\ slept' = SleepTime(tries, elapsed')
    /\ tries' = IF 2 ^ tries > MAX_SLEEP_TIME THEN tries ELSE tries + 1
    /\ IF slept' < 0
       THEN pc' = "done" /\ result' = "ValueError" /\ UNCHANGED now
       ELSE pc' = Poll /\ now' = Later(slept') /\ UNCHANGED result
    /\ UNCHANGED <<call, job, seen>>

NotCounted(n) == n
Counted(n) == n + 1

\* if i > 18 or elapsed > timeout: break
SleepExecution ==
    /\ pc = "sleep" /\ kind = "execution"
    /\ elapsed' = now /\ tries' = Counted(tries)
    /\ IF tries' > MaxPolls \/ Passed(elapsed')
       THEN pc' = "conclude" /\ UNCHANGED <<now, slept>>
       ELSE /\ slept' = SleepTime(tries', elapsed')
            /\ pc' = Poll /\ now' = Later(slept')
    /\ UNCHANGED <<call, job, seen, result>>

\* Only a command that did not succeed is an exception.
Conclude ==
    /\ pc = "conclude" /\ pc' = "done"
    /\ result' = IF Reached(elapsed) THEN "TimeoutError"
                 ELSE IF kind = "command" /\ seen # "success" THEN "command failed"
                 ELSE "returned"
    /\ UNCHANGED <<call, job, now, elapsed, tries, seen, slept>>

Wait == Loop \/ Get \/ GetFails \/ SleepCommand \/ SleepExecution \/ Conclude
Done == pc = "done" /\ UNCHANGED wtvars
WtNext == Progress \/ Rerun \/ Wait \/ Done
WtSpec == WtInit /\ [][WtNext]_wtvars
FairSpec == WtSpec /\ WF_wtvars(Wait)
-----------------------------------------------------------------------------
(* Requirements. *)

\* Every variable has its type; a command never sleeps longer than the cap.
TypeOK ==
    /\ kind \in {"command", "execution"} /\ timeout \in Timeouts
    /\ state \in Running \cup Ending /\ seen \in Running \cup Ending \cup {"none"}
    /\ reruns \in Nat /\ now \in Nat /\ elapsed \in 0..now /\ tries \in 1..(MaxPolls + 1)
    /\ slept \in Int /\ (kind = "command" => slept <= MAX_SLEEP_TIME)
    /\ pc \in {"loop", "get", "sleep", "conclude", "done"}
    /\ result \in {"none", "request failed", "ValueError", "TimeoutError", "command failed", "returned"}

\* An execution is asked eighteen times, which may be over before the timeout.
TooFewPolls == Endless \/ Limit > 2 ^ (MaxPolls + 1) - 4
OutOfPolls == kind = "execution" /\ tries > MaxPolls /\ TooFewPolls
\* The answer before the last, to an execution, came at the deadline to the second.
OnTheDot == kind = "execution" /\ elapsed = Limit

\* The caller is told the truth: a command is returned if it succeeded, and failed
\* if it ended otherwise; an execution is returned if it ended, or when no polls are
\* left; a wait is given up only after the timeout and for a job that was still
\* running, but for an execution that ended within the second of the deadline.  The
\* TimeoutError a command's wait promises comes only if an answer came at the deadline:
\* after a later one the sleep is negative.
HonestResult ==
    /\ result = "returned" =>
         \/ kind = "command" /\ state = "success"
         \/ kind = "execution" /\ (seen \in Ending \/ OutOfPolls)
    /\ result = "command failed" => kind = "command" /\ state \in Ending \ {"success"}
    /\ result \in {"TimeoutError", "ValueError"} =>
         ~Endless /\ now >= Limit /\ (seen \in Running \/ OnTheDot)
    /\ kind = "command" =>
         /\ result = "TimeoutError" => elapsed = Limit
         /\ result = "ValueError" => elapsed > Limit
    /\ kind = "execution" => result # "ValueError"

\* A wait outlives its timeout by one answer at most, for it never sleeps beyond it.
Punctual == ~Endless => now <= Limit + MaxLatency

\* A wait ends: with the job, at the timeout, or when an execution's polls run out.
Ends == (kind = "command" /\ Endless /\ []<>(state \in Running)) \/ <>(pc = "done")
=============================================================================
