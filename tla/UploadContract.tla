---------------------------- MODULE UploadContract ----------------------------
(***************************************************************************)
(* What a client may rely on while it uploads one file in chunks and waits *)
(* for its answers: an upload whose last chunk has arrived is processed    *)
(* and ends done or failed; a failed one may be started over.  What may go *)
(* wrong is said with what has to have happened before: an upload that is  *)
(* done relapses, one that is processed is dropped, one is forgotten.      *)
(***************************************************************************)
VARIABLES
    phase,
    shaken, dropped, forgotten      \* whether something has happened that excuses the three

Init == phase = "absent"

Go(from, to) == phase = from /\ phase' = to

\* The job begins; a file that is already there is done at once.
Begin == Go("absent", "collecting") \/ Go("absent", "done")

\* The last chunk is there, at the first try or after a failure; or a failed task is retried.
Assemble == Go("collecting", "processing") \/ Go("failed", "processing")

Settle == Go("processing", "done") \/ Go("processing", "failed")

\* The client starts over, or the provider reports that it has the file after all.
Recover == Go("failed", "collecting") \/ Go("failed", "done")

\* What was told to be done is processed again, or fails; what nobody works on fails.
Relapse ==
    /\ shaken'
    /\ Go("done", "processing") \/ Go("done", "failed") \/ Go("collecting", "failed")

\* Nobody works on the upload any more, or only the provider's report completes it.
Drop == dropped' /\ (Go("processing", "collecting") \/ Go("collecting", "done"))

Forget == forgotten' /\ phase' = "absent"

\* The client does not wait.
Excuse == phase' = "excused"

Next == Begin \/ Assemble \/ Settle \/ Recover \/ Relapse \/ Drop \/ Forget \/ Excuse

Settles == phase = "processing" ~> phase # "processing"

Spec == Init /\ [][Next]_phase /\ Settles
=============================================================================
