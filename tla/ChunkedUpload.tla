---------------------------- MODULE ChunkedUpload ----------------------------
(***************************************************************************)
(* Chunked uploads: ChunkedUploadService with its chunk storage, the job   *)
(* store, the BullMQ queue with UploadProcessor, and the Cloudinary        *)
(* webhook.                                                                *)
(*                                                                         *)
(* A call is one HTTP request of uploadChunk; when it enqueues a task, the *)
(* task is the rest of the call, and a task that stalls runs once more as  *)
(* a call of its own.  A step reaches from an await to the next one that   *)
(* others can tell: an update of the job store, which reads the job and    *)
(* writes it back, is one step because it keeps nothing that another       *)
(* update changes, save the URL of a job that is not done any more.        *)
(***************************************************************************)
EXTENDS MediaStorage

CONSTANTS
    Calls,          \* BOUND on the requests of uploadChunk and the second runs of tasks
    Totals,         \* how many chunks the jobs can have
    SameFile,       \* jobs whose clients send the same file: its name and its fileHash
    MaxAttempts,    \* attempts of a BullMQ job
    None            \* no job, no webhook, no file

Call == 1 .. Calls

ASSUME ChunkAssumption ==
    /\ Calls \in Nat
    /\ Totals \subseteq [Job -> Nat \ {0}]
    /\ SameFile \subseteq Job
    /\ MaxAttempts \in Nat \ {0}
    /\ None \notin Owner \cup {"pending", "uploading", "done", "failed", "ok"}
    /\ \A whose \in Content : None # whose

VARIABLES
    total,      \* total[j]: the number of chunks of job j
    status,     \* status[j]: of the stored UploadJob (None: there is none)
    url,        \* url[j]: the owner of the URL of a job that is done
    known,      \* jobs that initiateUpload has answered with
    cached,     \* the owner of the URL cached for SameFile's fileHash
    chunks,     \* chunks[j]: the .part files in j's directory
    whole,      \* whole[j]: those that hold their chunk, the others are being written or were cut
    merged,     \* merged[p]: whose bytes the merged file p holds
    call,       \* the requests
    hook,       \* hook[j]: the verdict of a webhook that is under way
    copies,     \* copies[j]: how often the provider has stored j's file since its client last came
    disturbed,  \* jobs whose client did not wait for what it had started,
    crowded,    \* among them those that were sent a chunk while another request or task was active
    torn        \* jobs that a chunk's write was cut short of

jobVars == <<status, url>>
cacheVars == <<total, known, cached>>
fileVars == <<chunks, whole, merged>>
historyVars == <<copies, disturbed, crowded, torn>>
chunkedVars == <<jobVars, cacheVars, fileVars, call, hook, historyVars>>

Index(j) == 0 .. total[j] - 1

Uploading == {"storing", "tidying", "completing", "failing"}
Label == {"idle", "saving", "writing", "listing", "noting", "merging", "enqueueing", "queued", "over"}
         \cup Uploading

\* What a request knows: where it is, its parameters, how many chunks it has listed, its
\* merged file (its own or that of a call in the same millisecond), and for its BullMQ job
\* the failed attempts (-1: not enqueued), how often it was found stalled, and whether it was
\* given to another run.
Fresh(c) == [at |-> "idle", job |-> None, chunk |-> 0, count |-> 0,
             path |-> c, attempts |-> -1, stalls |-> 0, lost |-> FALSE]

\* The request is not answered yet, or its task is not over.
Active(c) == call[c].at \notin {"idle", "over"}
InQueue(c) == call[c].attempts >= 0

\* The merged file of c is being written or is still to be uploaded.
Holding(c) == call[c].at \in {"merging", "enqueueing", "queued"} \cup Uploading

At(c, label) == call[c].at = label
GoTo(c, label) == call' = [call EXCEPT ![c].at = label]

\* A call ends, with an answer, an error or as a dropped task, and forgets what it knew.
Over(c) == [Fresh(c) EXCEPT !.at = "over"]
End(c) == call' = [call EXCEPT ![c] = Over(c)]

InitChunked ==
    /\ total \in Totals
    /\ status = [j \in Job |-> None]
    /\ url = [j \in Job |-> None]
    /\ known = {}
    /\ cached = None
    /\ chunks = [j \in Job |-> {}]
    /\ whole = [j \in Job |-> {}]
    /\ merged = [c \in Call |-> None]
    /\ call = [c \in Call |-> Fresh(c)]
    /\ hook = [j \in Job |-> None]
    /\ copies = [j \in Job |-> 0]
    /\ disturbed = {} /\ crowded = {} /\ torn = {}

-----------------------------------------------------------------------------
(* UploadJobService: a job that is not in the store is not updated. *)

Update(j, to, owner) ==
    IF status[j] = None THEN UNCHANGED jobVars
    ELSE status' = [status EXCEPT ![j] = to] /\ url' = [url EXCEPT ![j] = owner]

\* updateJobProgress makes any job "uploading", also one that is done or failed.
WriteProgress(j) == Update(j, "uploading", None)

WriteCompleted(j) == Update(j, "done", j)

WriteFailed(j) == Update(j, "failed", None)

\* An update that rejects: Redis fails, before or after it has written, and may go on failing;
\* or an observer throws when it is told.
Breaks(j, update) ==
    \/ backend = "redis" /\ Strikes("store") /\ (update \/ UNCHANGED jobVars)
    \/ status[j] # None /\ Befalls("observer") /\ update

-----------------------------------------------------------------------------
(* initiateUpload *)

\* A file whose URL is cached is done at once, any other waits for its chunks.
Initiate(j) ==
    /\ j \notin known
    /\ known' = known \cup {j}
    /\ url' = [url EXCEPT ![j] = IF j \in SameFile THEN cached ELSE None]
    /\ status' = [status EXCEPT ![j] = IF url'[j] # None THEN "done" ELSE "pending"]
    /\ UNCHANGED <<total, cached, fileVars, call, hook, historyVars, storageVars, mishaps>>

-----------------------------------------------------------------------------
(* uploadChunk *)

\* Another request of the job is not answered, or its task not over.
Crowds(j) == \E d \in Call : Active(d) /\ call[d].job = j

\* The client did not wait: for those, for the outcome of its final chunk, or before it sends a
\* chunk once more.
Disturbs(j, i) == Crowds(j) \/ i \in chunks[j] \/ hook[j] # None \/ status[j] = "done"

NextCall(c) == At(c, "idle") /\ \A d \in Call : d < c => ~At(d, "idle")

\* A request arrives that the rate limiter lets pass and whose job is in the store.  One
\* that is refused, with 429 or 404, changes nothing.
Receive(c) ==
    /\ NextCall(c)
    /\ \E j \in known : \E i \in Index(j) :
          /\ status[j] # None
          /\ call' = [call EXCEPT ![c].at = "saving", ![c].job = j, ![c].chunk = i]
          /\ disturbed' = IF Disturbs(j, i) THEN disturbed \cup {j} ELSE disturbed
          /\ crowded' = IF Crowds(j) THEN crowded \cup {j} ELSE crowded
          /\ copies' = IF Crowds(j) THEN copies ELSE [copies EXCEPT ![j] = 0]
    /\ UNCHANGED <<jobVars, cacheVars, fileVars, hook, torn, storageVars, mishaps>>

\* MUTANT of Save: the part appears with all its bytes, for which nobody waits.
SaveUnawaited(c) ==
    /\ At(c, "saving")
    /\ chunks' = [chunks EXCEPT ![call[c].job] = @ \cup {call[c].chunk}]
    /\ whole' = [whole EXCEPT ![call[c].job] = @ \ {call[c].chunk}]
    /\ call' = [call EXCEPT ![c].at = "listing", ![c].chunk = 0]
    /\ UNCHANGED <<jobVars, cacheVars, merged, hook, historyVars, storageVars, mishaps>>

\* chunkStorage.saveChunk: writeFile first creates the file or truncates it, ...
Save(c) ==
    /\ At(c, "saving")
    /\ chunks' = [chunks EXCEPT ![call[c].job] = @ \cup {call[c].chunk}]
    /\ whole' = [whole EXCEPT ![call[c].job] = @ \ {call[c].chunk}]
    /\ GoTo(c, "writing")
    /\ UNCHANGED <<jobVars, cacheVars, merged, hook, historyVars, storageVars, mishaps>>

\* Another request writes the same part, perhaps to a file that has taken the place of c's.
Contended(c) ==
    \E d \in Call \ {c} : At(d, "writing") /\ call[d].job = call[c].job /\ call[d].chunk = call[c].chunk

\* ... and then fills it, if nobody has removed it.
Fill(c) ==
    LET j == call[c].job
        i == call[c].chunk IN
    /\ At(c, "writing")
    /\ \/ whole' = [whole EXCEPT ![j] = IF i \in chunks[j] THEN @ \cup {i} ELSE @]
       \/ Contended(c) /\ UNCHANGED whole
    /\ call' = [call EXCEPT ![c].at = "listing", ![c].chunk = 0]
    /\ UNCHANGED <<jobVars, cacheVars, chunks, merged, hook, historyVars, storageVars, mishaps>>

\* The disk is full: the request fails, and what was written of the part stays.
Cut(c) ==
    /\ At(c, "writing") /\ Befalls("disk")
    /\ torn' = torn \cup {call[c].job}
    /\ End(c)
    /\ UNCHANGED <<jobVars, cacheVars, fileVars, hook, copies, disturbed, crowded, storageVars>>

\* chunkStorage.getUploadedChunks
List(c) ==
    /\ At(c, "listing")
    /\ call' = [call EXCEPT ![c].at = "noting", ![c].count = Cardinality(chunks[call[c].job])]
    /\ UNCHANGED <<jobVars, cacheVars, fileVars, hook, historyVars, storageVars, mishaps>>

\* The merged file's name is Date.now() and the file name; createWriteStream truncates it.
Assemble(c) ==
    \E d \in Call :
        /\ \/ d = c /\ UNCHANGED mishaps
           \/ /\ d # c /\ Holding(d)
              /\ {call[c].job, call[d].job} \subseteq SameFile \/ call[c].job = call[d].job
              /\ Befalls("same path")
        /\ call' = [call EXCEPT ![c].at = "merging", ![c].count = 0, ![c].path = call[d].path]
        /\ merged' = [merged EXCEPT ![call[d].path] = {}]

\* The progress is stored, or the request fails.  The call that has counted all chunks goes on
\* to merge them.
Note(c) ==
    LET all == call[c].count = total[call[c].job]
        progress == WriteProgress(call[c].job) IN
    /\ At(c, "noting")
    /\ \/ progress /\ all /\ Assemble(c)
       \/ progress /\ ~all /\ End(c) /\ UNCHANGED <<merged, mishaps>>
       \/ Breaks(call[c].job, progress) /\ End(c) /\ UNCHANGED merged
    /\ UNCHANGED <<cacheVars, chunks, whole, hook, historyVars, storageVars>>

\* What the chunks of j are read as.
Assembled(j) == IF chunks[j] \subseteq whole[j] THEN {j} ELSE {"torn"}

\* mergeChunksToStream: the chunks in order, or an error when one is missing.  The client
\* has asked for a synchronous or an asynchronous upload.
Merge(c) ==
    /\ At(c, "merging")
    /\ IF Index(call[c].job) \subseteq chunks[call[c].job]
       THEN /\ merged' = [merged EXCEPT ![call[c].path] =
                             IF @ = None THEN None ELSE @ \cup Assembled(call[c].job)]
            /\ GoTo(c, "enqueueing") \/ GoTo(c, "storing")
       ELSE GoTo(c, "failing") /\ UNCHANGED merged
    /\ UNCHANGED <<jobVars, cacheVars, chunks, whole, hook, historyVars, storageVars, mishaps>>

\* cleanChunks
CleanChunks(j) ==
    /\ chunks' = [chunks EXCEPT ![j] = {}]
    /\ whole' = [whole EXCEPT ![j] = {}]

\* An asynchronous upload removes its chunks and hands the merged file to the queue.  When
\* queue.add fails, the request fails and nothing else happens.
Enqueue(c) ==
    /\ At(c, "enqueueing")
    /\ CleanChunks(call[c].job)
    /\ \/ call' = [call EXCEPT ![c].at = "queued", ![c].attempts = 0] /\ UNCHANGED mishaps
       \/ Befalls("enqueue") /\ End(c)
    /\ UNCHANGED <<jobVars, cacheVars, merged, hook, historyVars, storageVars>>

-----------------------------------------------------------------------------
(* The upload of the merged file, by the request itself or by UploadProcessor. *)

\* The processor starts an attempt with updateJobProgress(95).
Take(c) ==
    /\ At(c, "queued")
    /\ \/ WriteProgress(call[c].job) /\ GoTo(c, "storing") /\ UNCHANGED mishaps
       \/ Breaks(call[c].job, WriteProgress(call[c].job)) /\ GoTo(c, "failing")
    /\ UNCHANGED <<cacheVars, fileVars, hook, historyVars, storageVars>>

\* The provider has the bytes, and Cloudinary may announce it by a webhook.
CountCopy(c) ==
    /\ copies' = [copies EXCEPT ![call[c].job] = @ + 1]
    /\ \/ UNCHANGED hook
       \/ provider = "cloudinary" /\ hook' = [hook EXCEPT ![call[c].job] = "ok"]

\* strategy.uploadLarge with a stream of the merged file.
Store(c) ==
    LET j == call[c].job
        file == merged[call[c].path] IN
    /\ At(c, "storing") /\ file # None
    /\ \/ Stores(j, file) /\ CountCopy(c) /\ GoTo(c, "tidying")
       \/ /\ Rejects(j, file) /\ GoTo(c, "failing")
          /\ IF "lost" \in mishaps' \ mishaps THEN CountCopy(c)
                                              ELSE UNCHANGED <<copies, hook>>
    /\ UNCHANGED <<jobVars, cacheVars, fileVars, disturbed, crowded, torn>>

\* The merged file is gone: Cloudinary's strategy rejects on the stream's error.
StoreNothing(c) ==
    /\ At(c, "storing") /\ merged[call[c].path] = None /\ provider = "cloudinary"
    /\ GoTo(c, "failing")
    /\ UNCHANGED <<jobVars, cacheVars, fileVars, hook, historyVars, storageVars, mishaps>>

\* The merged file is deleted, and by a request the chunks too.
Unlink(c) ==
    /\ merged' = [merged EXCEPT ![call[c].path] = None]
    /\ IF InQueue(c) THEN UNCHANGED <<chunks, whole>> ELSE CleanChunks(call[c].job)

\* Then the URL is cached under the fileHash; the processor only does it in Redis.
Tidy(c) ==
    /\ At(c, "tidying")
    /\ Unlink(c)
    /\ \/ /\ GoTo(c, "completing")
          /\ cached' = IF call[c].job \in SameFile /\ (InQueue(c) => backend = "redis")
                       THEN call[c].job ELSE cached
          /\ UNCHANGED mishaps
       \/ /\ call[c].job \in SameFile /\ backend = "redis" /\ Befalls("cache")
          /\ GoTo(c, "failing") /\ UNCHANGED cached
    /\ UNCHANGED <<jobVars, total, known, hook, historyVars, storageVars>>

\* completeJob
Complete(c) ==
    /\ At(c, "completing")
    /\ \/ WriteCompleted(call[c].job) /\ End(c) /\ UNCHANGED mishaps
       \/ Breaks(call[c].job, WriteCompleted(call[c].job)) /\ GoTo(c, "failing")
    /\ UNCHANGED <<cacheVars, fileVars, hook, historyVars, storageVars>>

\* BullMQ tries a task again, if it is still this run's; a request is answered with the error.
Retry(c, limit) ==
    IF InQueue(c) /\ ~call[c].lost /\ call[c].attempts + 1 < limit
    THEN call' = [call EXCEPT ![c].at = "queued", ![c].attempts = @ + 1]
    ELSE End(c)

\* failJob, after which the error is thrown, its own if it rejects.
TellFailure(j) ==
    \/ WriteFailed(j) /\ UNCHANGED mishaps
    \/ Breaks(j, WriteFailed(j))

\* MUTANT of Fail: the merged file is kept for the next attempt.
FailAndKeep(c) ==
    /\ At(c, "failing")
    /\ TellFailure(call[c].job) /\ Retry(c, MaxAttempts)
    /\ UNCHANGED <<cacheVars, fileVars, hook, historyVars, storageVars>>

\* MUTANT of Fail: the last attempt is counted wrongly.
FailOnceMore(c) ==
    /\ At(c, "failing")
    /\ Unlink(c) /\ TellFailure(call[c].job) /\ Retry(c, MaxAttempts + 1)
    /\ UNCHANGED <<cacheVars, hook, historyVars, storageVars>>

\* MUTANT of Fail: the job is not told.
FailSilently(c) ==
    /\ At(c, "failing")
    /\ Unlink(c) /\ Retry(c, MaxAttempts)
    /\ UNCHANGED <<jobVars, cacheVars, hook, historyVars, storageVars, mishaps>>

\* The catch blocks.
Fail(c) ==
    /\ At(c, "failing")
    /\ Unlink(c) /\ TellFailure(call[c].job) /\ Retry(c, MaxAttempts)
    /\ UNCHANGED <<cacheVars, hook, historyVars, storageVars>>

-----------------------------------------------------------------------------
(* Cloudinary's webhook *)

\* The asset is transcoded after it was stored, and that fails.
Transcode(j) ==
    /\ Shows(j) # {} /\ provider = "cloudinary" /\ hook[j] = None
    /\ Befalls("transcode")
    /\ hook' = [hook EXCEPT ![j] = "failed"]
    /\ UNCHANGED <<jobVars, cacheVars, fileVars, call, historyVars, storageVars>>

\* handleCloudinaryWebhook completes or fails the job, whatever its state.  When that rejects,
\* Cloudinary may call again.
Webhook(j) ==
    LET update == IF hook[j] = "ok" THEN WriteCompleted(j) ELSE WriteFailed(j) IN
    /\ hook[j] # None
    /\ \/ update /\ hook' = [hook EXCEPT ![j] = None] /\ UNCHANGED mishaps
       \/ Breaks(j, update) /\ (UNCHANGED hook \/ hook' = [hook EXCEPT ![j] = None])
    /\ UNCHANGED <<cacheVars, fileVars, call, historyVars, storageVars>>

-----------------------------------------------------------------------------
(* Time and faults *)

\* An hour after its last update the job store forgets the job.
Expire(j) ==
    /\ status[j] # None
    /\ Befalls("expired")
    /\ status' = [status EXCEPT ![j] = None]
    /\ url' = [url EXCEPT ![j] = None]
    /\ UNCHANGED <<cacheVars, fileVars, call, hook, historyVars, storageVars>>

\* BullMQ holds a task that is running for stalled, and gives it to a worker again, but only
\* once (maxStalledCount).
Anew(c) == [call[c] EXCEPT !.at = "queued", !.stalls = 1]
IsGivenAnew(c) == InQueue(c) /\ ~call[c].lost /\ call[c].stalls = 0

\* The worker has not renewed its lock, and still goes on: the task runs twice.
Stall(c, d) ==
    /\ call[c].at \in Uploading /\ IsGivenAnew(c) /\ NextCall(d)
    /\ Befalls("stall")
    /\ call' = [call EXCEPT ![c].lost = TRUE, ![d] = Anew(c)]
    /\ UNCHANGED <<jobVars, cacheVars, fileVars, hook, historyVars, storageVars>>

\* What a call is after the death of its process.
Restarted(c) ==
    IF call[c].at \in {"idle", "over", "queued"} THEN call[c]
    ELSE IF IsGivenAnew(c) THEN Anew(c)
    ELSE Over(c)

\* The process dies: requests are lost, and memory is empty.
Die ==
    /\ call' = [c \in Call |-> Restarted(c)]
    /\ torn' = torn \cup {call[c].job : c \in {d \in Call : At(d, "writing")}}
    /\ IF backend = "memory"
       THEN /\ status' = [j \in Job |-> None] /\ url' = [j \in Job |-> None]
            /\ cached' = None
       ELSE UNCHANGED <<jobVars, cached>>
    /\ UNCHANGED <<total, known, fileVars, hook, copies, disturbed, crowded, storageVars>>

Crash == Die /\ Befalls("crash")

\* The merged file is gone and the local strategy does not listen to the stream's error:
\* nobody catches it, and the process dies of it.
StoreNothingLocally(c) ==
    /\ At(c, "storing") /\ merged[call[c].path] = None /\ provider = "local"
    /\ Die
    /\ mishaps' = mishaps \cup {"crash"}

Step(c) ==
    \/ Save(c) \/ Fill(c) \/ Cut(c) \/ List(c) \/ Note(c) \/ Merge(c) \/ Enqueue(c)
    \/ Take(c) \/ Store(c) \/ StoreNothing(c) \/ StoreNothingLocally(c)
    \/ Tidy(c) \/ Complete(c) \/ Fail(c)

NextChunked ==
    \/ \E j \in Job : Initiate(j) \/ Transcode(j) \/ Webhook(j) \/ Expire(j)
    \/ \E c \in Call : Receive(c) \/ Step(c) \/ \E d \in Call : Stall(c, d)
    \/ Crash
=============================================================================
