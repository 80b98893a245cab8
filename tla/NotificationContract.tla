------------------------ MODULE NotificationContract ------------------------
(***************************************************************************)
(* What a caller of NotificationService.send may rely on, with no queue,   *)
(* no log and no Redis in sight: a request is accepted or refused once,    *)
(* only an accepted one reaches a provider, a bounded number of times, and *)
(* every accepted request is settled in the end.                           *)
(***************************************************************************)
EXTENDS Naturals

CONSTANTS Request, MaxSends

VARIABLES status, sends
contractVars == <<status, sends>>

Init ==
    /\ status = [r \in Request |-> "new"]
    /\ sends = [r \in Request |-> 0]

Become(r, from, to) ==
    /\ status[r] = from
    /\ status' = [status EXCEPT ![r] = to]
    /\ UNCHANGED sends

\* The job is in the queue.
Accept(r) == Become(r, "new", "accepted")

\* Skipped, or cut off before it had a job: such a request is never delivered.
Refuse(r) == Become(r, "new", "refused")

\* The provider is called.  A run that lost its lock may still do so after the
\* queue has closed the job.
Dispatch(r) ==
    /\ status[r] \in {"accepted", "settled"}
    /\ sends[r] < MaxSends
    /\ sends' = [sends EXCEPT ![r] = @ + 1]
    /\ UNCHANGED status

\* The queue closes the job, as completed or as failed.
Settle(r) == Become(r, "accepted", "settled")

Next == \E r \in Request : Accept(r) \/ Refuse(r) \/ Dispatch(r) \/ Settle(r)

Spec == Init /\ [][Next]_contractVars

FairSpec == Spec /\ \A r \in Request : WF_contractVars(Settle(r))
=============================================================================
