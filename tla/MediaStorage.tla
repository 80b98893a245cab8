----------------------------- MODULE MediaStorage -----------------------------
(***************************************************************************)
(* Where uploaded files end up: the storage provider behind the upload and *)
(* delete strategies, Cloudinary or a local directory.  A file is known by *)
(* the owner it was stored for (an upload job, or a direct call of         *)
(* UploadService), and its content by whose bytes it holds.                *)
(***************************************************************************)
EXTENDS Integers, FiniteSets

CONSTANTS
    Job,        \* chunked upload jobs
    Direct,     \* calls of UploadService
    kind,       \* kind[o]: the type of the file
    Deployments,\* BOUND: pairs of a provider and a backend of the job store and the URL cache
    MaxMishaps  \* BOUND on the different kinds of mishap in one behaviour

Owner == Job \cup Direct

\* What a file holds: whose bytes, "torn" when some are missing, nothing when there is no file.
Content == SUBSET (Owner \cup {"torn"})

Kind == {"image", "video", "audio", "file", "model3d"}

ASSUME StorageAssumption ==
    /\ Job \cap Direct = {}
    /\ kind \in [Owner -> Kind]
    /\ Deployments \subseteq {"cloudinary", "local"} \X {"redis", "memory"}
    /\ MaxMishaps \in Nat

VARIABLES
    provider,   \* UPLOAD_PROVIDER
    backend,    \* whether a Redis service is injected: "redis" or "memory"
    name,       \* name[o]: the name of the file that o's URL points to
    bytes,      \* bytes[n]: what is stored under name n
    mishaps     \* what went wrong so far, each kind at most once

storageVars == <<provider, backend, name, bytes>>

\* "refused":    the provider rejects an upload
\* "lost":       it stores the file, and its answer is lost
\* "same ms":    two files get the same Date.now() name
\* "same path":  two merges write the same temporary file
\* "cache":      Redis fails while the URL is cached
\* "enqueue":    queue.add fails
\* "crash":      the process dies
\* "expired":    a job outlives its hour in the job store
\* "transcode":  Cloudinary reports a failure after it has stored the file
\* "observer":   an observer throws
\* "deleted":    a caller deletes a file by its URL
\* "disk":       the write of a chunk fails halfway
\* "store":      Redis fails while a job is updated
\* "stall":      a task loses its BullMQ lock while it runs
Mishap == {"refused", "lost", "same ms", "same path", "cache", "enqueue", "crash",
           "expired", "transcode", "observer", "deleted", "disk", "store", "stall"}

Befalls(m) ==
    /\ m \notin mishaps
    /\ Cardinality(mishaps) < MaxMishaps
    /\ mishaps' = mishaps \cup {m}

\* What goes wrong and then may go on doing so.
Strikes(m) == Befalls(m) \/ (m \in mishaps /\ UNCHANGED mishaps)

InitStorage ==
    /\ \E d \in Deployments : provider = d[1] /\ backend = d[2]
    /\ name = [o \in Owner |-> o]
    /\ bytes = [n \in Owner |-> {}]

\* What o's URL returns.
Shows(o) == bytes[name[o]]

\* A name that no other owner uses.
FreshName(o) == CHOOSE n \in Owner : \A x \in Owner \ {o} : name[x] # n

\* The name is Date.now(): a public_id that UploadService makes up for these types, and
\* every local file without a public_id.
NamedByClock(o) ==
    provider = "local" \/ (o \in Direct /\ kind[o] \in {"video", "audio", "model3d"})

\* Strategy.upload and uploadLarge store whose bytes for o under the name n.
PutAs(o, n, whose) ==
    /\ name' = [name EXCEPT ![o] = n]
    /\ bytes' = [bytes EXCEPT ![n] = whose]
    /\ UNCHANGED <<provider, backend>>

\* In the same millisecond as v's file, of whose type it is, and whose name it gets.
PutOver(o, whose) ==
    \E v \in Owner \ {o} :
        /\ Shows(v) # {}
        /\ NamedByClock(o) /\ NamedByClock(v) /\ kind[o] = kind[v]
        /\ PutAs(o, name[v], whose)

\* What the provider does with an upload for o: it answers with the URL ...
Stores(o, whose) ==
    \/ PutAs(o, FreshName(o), whose) /\ UNCHANGED mishaps
    \/ Befalls("same ms") /\ PutOver(o, whose)

\* ... or the strategy rejects, with the file stored or not.
Rejects(o, whose) ==
    \/ Befalls("refused") /\ UNCHANGED storageVars
    \/ Befalls("lost") /\ PutAs(o, FreshName(o), whose)

\* DeleteCommand: destroy or unlink; a missing file is "not found".
Remove(o) == bytes' = [bytes EXCEPT ![name[o]] = {}] /\ UNCHANGED <<provider, backend, name>>
=============================================================================
