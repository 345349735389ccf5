----------------------------- MODULE AtLeastOnce -----------------------------
(***************************************************************************)
(* What the client promises of a request, whichever of its three clients   *)
(* sends it (dtlpy/services/api_client.py, aihttp_retry.py): the caller is  *)
(* told once, success only when the service did what was asked, and the    *)
(* service does it at most as often as the client may try.  It may do it    *)
(* more than once, and it may do it although, or after, the caller was told *)
(* of a failure.                                                           *)
(***************************************************************************)
EXTENDS Naturals

CONSTANTS Requests

VARIABLES
    most,     \* how often the client may try each request
    told,     \* what the caller was told
    applied   \* how often the service did it

vars == <<most, told, applied>>

Results == {"ok", "refused", "error"}

Init ==
    /\ most \in [Requests -> Nat]
    /\ told = [r \in Requests |-> "none"]
    /\ applied = [r \in Requests |-> 0]

Apply(r) ==
    /\ applied[r] < most[r]
    /\ applied' = [applied EXCEPT ![r] = @ + 1]
    /\ UNCHANGED <<most, told>>

Tell(r, result) ==
    /\ told[r] = "none"
    /\ result = "ok" => applied[r] > 0
    /\ told' = [told EXCEPT ![r] = result]
    /\ UNCHANGED <<most, applied>>

Next == \E r \in Requests : Apply(r) \/ \E result \in Results : Tell(r, result)

Fairness == \A r \in Requests : WF_vars(\E result \in Results : Tell(r, result))

Safety == Init /\ [][Next]_vars
Spec == Safety /\ Fairness
=============================================================================
