------------------------------- MODULE MCUpload -------------------------------
(* A small instance of the upload package for TLC. *)
EXTENDS UploadProperties, TLC

CONSTANTS j1, j2

\* The first job has one chunk or two, the second one.
MCTotals == {(j1 :> n) @@ (j2 :> 1) : n \in {1, 2}}

\* All files are images: they meet in one folder.
MCKind == [o \in Job \cup Direct |-> "image"]

\* One input that is accepted, and a buffer, which never is.
MCInputs == {[form |-> f, ext |-> "image", size |-> "small"] : f \in {"upload", "buffer"}}

MCDeployments == {<<"cloudinary", "redis">>, <<"local", "memory">>}

\* Images meet a job's file only where files are named by the clock, on the local disk; with
\* Cloudinary the direct call has been refused before the behaviour begins.
MCInit ==
    /\ InitStorage /\ mishaps = {} /\ InitChunked
    /\ place = [d \in Direct |-> IF provider = "local" THEN "idle" ELSE "failed"] /\ deleted = {}

MCSpec == MCInit /\ [][Next]_vars /\ Fairness
=============================================================================
