--------------------------- MODULE UploadProperties ---------------------------
(* What the upload package promises, and what it does not. *)
EXTENDS UploadSystem

Happened(ms) == mishaps \cap ms # {}

Rests(j) == \A c \in Call : call[c].job = j => ~Active(c)

TypeOK ==
    /\ <<provider, backend>> \in Deployments
    /\ name \in [Owner -> Owner] /\ bytes \in [Owner -> Content]
    /\ mishaps \subseteq Mishap
    /\ status \in [Job -> {"pending", "uploading", "done", "failed", None}]
    /\ url \in [Job -> Job \cup {None}] /\ \A j \in Job : status[j] = "done" <=> url[j] # None
    /\ known \subseteq Job /\ cached \in Job \cup {None} /\ disturbed \subseteq Job
    /\ crowded \subseteq disturbed /\ torn \subseteq Job
    /\ \A j \in Job : whole[j] \subseteq chunks[j] /\ chunks[j] \subseteq Index(j) /\ copies[j] \in Nat
    /\ \A c \in Call : call[c].at \in Label /\ call[c].path \in Call
                       /\ call[c].attempts < MaxAttempts /\ call[c].stalls \in 0 .. 1
    /\ place \in [Direct -> {"idle", "uploaded", "failed"}]
    /\ deleted \subseteq Owner

\* A URL that was answered or stored in a done job shows the file it was made for, all of it, and
\* nobody else's bytes.  What breaks it: a deletion, a name or a temporary file made in the same
\* millisecond by two uploads, a chunk whose write was cut short, and a client that sends a chunk
\* while another one is being written.
AnsweredUrlShowsTheFile ==
    ~Happened({"same ms", "same path"}) =>
        /\ \A j \in Job : status[j] = "done" /\ url[j] \notin deleted \cup crowded \cup torn
              => Shows(url[j]) = {url[j]}
        /\ \A d \in Direct : place[d] = "uploaded" /\ d \notin deleted => Shows(d) = {d}

\* No merged file stays on disk without somebody who still has to upload and delete it,
\* and no chunks stay behind once a job has ended: a failed queue.add or a crash leaves them,
\* a failing job store, disk or transcoding, and clients that send chunks late.
NothingIsLeftBehind ==
    /\ \A p \in Call : merged[p] # None =>
          Happened({"enqueue", "crash"}) \/ \E c \in Call : call[c].path = p /\ Holding(c)
    /\ \A j \in Job :
          chunks[j] # {} /\ status[j] \in {"done", "failed"} /\ Rests(j)
            => j \in disturbed \/ Happened({"crash", "transcode", "store", "disk"})

\* The file that a client assembles reaches the provider at most once, however often its task is
\* retried: a second copy takes a crash or a stalled task, whose second run uploads what the first
\* has uploaded; a temporary file that another merge has replaced; or a client that sends
\* chunks at the same time, of whose requests two may find themselves the last.
OneCopy ==
    \A j \in Job : copies[j] > 1 => j \in crowded \/ Happened({"crash", "stall", "same path"})

-----------------------------------------------------------------------------
(* Why they hold: the inductive invariant *)

CallType == [at : Label, job : Job \cup {None}, chunk : Nat, count : Nat, path : Call,
             attempts : -1 .. MaxAttempts - 1, stalls : 0 .. 1, lost : BOOLEAN]

\* Requests are for jobs that were initiated, and only tasks have attempts.
UploadTypes ==
    /\ total \in [Job -> Nat \ {0}] /\ chunks \in [Job -> SUBSET Nat] /\ whole \in [Job -> SUBSET Nat]
    /\ merged \in [Call -> Content \cup {None}] /\ hook \in [Job -> {"ok", "failed", None}]
    /\ call \in [Call -> CallType] /\ copies \in [Job -> Nat]
    /\ \A c \in Call :
          /\ Active(c) => call[c].job \in known
          /\ At(c, "saving") \/ At(c, "writing") => call[c].chunk \in Index(call[c].job)
          /\ At(c, "queued") => InQueue(c)
          /\ InQueue(c) => At(c, "queued") \/ call[c].at \in Uploading
    /\ \A j \in Job \ known : status[j] = None /\ chunks[j] = {} /\ hook[j] # "ok"

\* No two files share a name; after the one pair that may, a name is free.
Distinct(S) == \A o, p \in S : name[o] = name[p] => o = p
NamesAreDistinct ==
    \/ Distinct(Owner)
    \/ /\ "same ms" \in mishaps
       /\ \E o \in Owner : Distinct(Owner \ {o})
       /\ \E n \in Owner : \A o \in Owner : name[o] # n

\* A call has a merged file of its own, or that of the task of which it is the second run.
Repeats(c) ==
    LET first == call[c].path IN
    /\ InQueue(c)
    /\ At(first, "over") \/ (InQueue(first) /\ call[first].job = call[c].job)
PathsAreOwn == "same path" \notin mishaps => \A c \in Call : call[c].path = c \/ Repeats(c)

\* A client that does not crowd has one request or task under way, or the two runs of a task.
RunsAreAlone ==
    \A c, d \in Call :
        /\ Active(c) /\ Active(d) /\ call[c].job = call[d].job /\ call[c].job \notin crowded
        => c = d \/ (InQueue(c) /\ InQueue(d) /\ "stall" \in mishaps)

\* Its parts are whole but for the one that is being written.
Unharmed(j) == j \notin crowded \cup torn
ChunksAreWhole ==
    \A j \in Job : Unharmed(j) => \A i \in chunks[j] \ whole[j] :
        \E c \in Call : At(c, "writing") /\ call[c].job = j /\ call[c].chunk = i

\* What the provider has stored for an owner is that owner's file, once it answered.
Sound(o) == Shows(o) = {o} \/ o \in deleted \cup crowded \cup torn

FilesAreSound ==
    ~Happened({"same ms", "same path"}) =>
        /\ \A c \in Call : Unharmed(call[c].job) =>
              /\ At(c, "merging") => merged[call[c].path] = {}
              /\ At(c, "enqueueing") \/ At(c, "storing") \/ InQueue(c)
                    => merged[call[c].path] \in {None, {call[c].job}}
        /\ \A c \in Call : At(c, "tidying") \/ At(c, "completing") => Sound(call[c].job)
        /\ \A j \in Job : hook[j] = "ok" => Sound(j)
        /\ cached # None => Sound(cached)
        /\ \A j \in Job : status[j] = "done" => Sound(url[j])
        /\ \A d \in Direct : place[d] = "uploaded" => Sound(d)

\* Whoever is completing has deleted its merged file.
FilesAreHeld ==
    \A p \in Call : merged[p] # None =>
        Happened({"enqueue", "crash"}) \/ \E c \in Call : call[c].path = p /\ Holding(c) /\ ~At(c, "completing")

CopiesAreCounted ==
    ~Happened({"crash", "stall", "same path"}) =>
        \A j \in Job \ crowded :
            /\ copies[j] \in {0, 1}
            /\ copies[j] = 1 => \A c \in Call : Active(c) /\ call[c].job = j =>
                  \/ call[c].at \in {"tidying", "failing"}
                  \/ call[c].at \in {"queued", "storing", "completing"} /\ merged[call[c].path] = None

\* A client that waits has no chunks left when its file is queued or stored, or when it may
\* start over.
Quiet(j) == j \notin disturbed /\ ~Happened({"crash", "transcode", "store", "disk"})
ClientsAreServed ==
    \A j \in Job : Quiet(j) =>
        /\ Rests(j) => chunks[j] = {} \/ (status[j] \notin {"done", "failed"} /\ hook[j] # "ok")
        /\ \A c \in Call : Active(c) /\ call[c].job = j /\ (InQueue(c) \/ At(c, "completing")) => chunks[j] = {}

-----------------------------------------------------------------------------
(* The contract *)

\* What has to have happened before a job that is done relapses, one that is processed is dropped,
\* or one is forgotten.
Shaken == Happened({"lost", "cache", "observer", "store", "crash", "stall", "transcode"})
Dropped == Happened({"enqueue", "store", "crash"})
Forgotten == Happened({"expired", "crash"})

\* The final request or its task is at work.
Processing(j) == \E c \in Call : call[c].job = j /\ Holding(c)

\* A stored outcome is what clients see, also while somebody is still at work.
Phase(j) ==
    IF j \in disturbed THEN "excused"
    ELSE IF status[j] = None THEN "absent"
    ELSE IF status[j] \in {"done", "failed"} THEN status[j]
    ELSE IF Processing(j) THEN "processing"
    ELSE "collecting"

\* Before its file is with the provider, a job is not done and no webhook is due that says so; a
\* task that is at work again after it was has been shaken; and one that the webhook alone
\* completes has been dropped.
OutcomesAreOwed ==
    \A j \in Job \ disturbed :
        /\ hook[j] = "failed" => "transcode" \in mishaps
        /\ hook[j] = "ok" /\ status[j] \in {"pending", "uploading"} => Processing(j) \/ Dropped
        /\ \A c \in Call : Active(c) /\ call[c].job = j /\ (hook[j] = "ok" \/ status[j] = "done") =>
              \/ call[c].at \in {"tidying", "completing"}
              \/ Shaken /\ (InQueue(c) \/ At(c, "failing"))

UploadInv ==
    /\ TypeOK /\ UploadTypes /\ NamesAreDistinct /\ PathsAreOwn /\ RunsAreAlone /\ ChunksAreWhole
    /\ FilesAreSound /\ FilesAreHeld /\ CopiesAreCounted /\ ClientsAreServed /\ OutcomesAreOwed

Contract(j) ==
    INSTANCE UploadContract
        WITH phase <- Phase(j), shaken <- Shaken, dropped <- Dropped, forgotten <- Forgotten

\* The steps it may take, ...
FollowsContract ==
    /\ \A j \in Job : Contract(j)!Init
    /\ [][\A j \in Job : [Contract(j)!Next]_(Phase(j))]_vars

\* ... and all of it: every undisturbed upload keeps the contract.  It ends done or failed,
\* whatever the provider, the cache, the webhook and the retries do; and it stays done but for
\* what the contract names: a lost answer, a failing cache, job store or observer, a crash, a
\* stalled task or a failed transcoding.
KeepsContract == FollowsContract /\ \A j \in Job : Contract(j)!Settles

-----------------------------------------------------------------------------
(* What a comment says and the code does not do. *)

\* upload.processor.ts:92, "Throwing allows BullMQ to manage retries": a task that
\* BullMQ will try again still has the file it is to upload.
RetryHasItsFile ==
    \A c \in Call : At(c, "queued") /\ ~Happened({"same path"}) => merged[call[c].path] # None
=============================================================================
