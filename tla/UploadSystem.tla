----------------------------- MODULE UploadSystem -----------------------------
(* The upload package: chunked uploads and direct ones share one provider. *)
EXTENDS ChunkedUpload, UploadService

vars == <<storageVars, mishaps, chunkedVars, serviceVars>>

Init == InitStorage /\ mishaps = {} /\ InitChunked /\ InitService

Chunked == NextChunked /\ UNCHANGED serviceVars

\* What callers have a URL of.
Answered ==
    {d \in Direct : place[d] = "uploaded"} \cup {url[j] : j \in {x \in Job : status[x] = "done"}}

Service ==
    /\ \/ \E d \in Direct : Upload(d)
       \/ \E o \in Answered : \E k \in Kind, link \in {"url", "cdnUrl"} :
             DeleteResource(o, k, link)
    /\ UNCHANGED chunkedVars

Next == Chunked \/ Service

Spec == Init /\ [][Next]_vars

\* As long as a request or a task can go on, some one does: Node runs every continuation,
\* and BullMQ every task.
Fairness == WF_call(\E c \in Call : Step(c))
=============================================================================
