----------------------------- MODULE UploadProofs -----------------------------
(***************************************************************************)
(* That uploads are sound, whatever the number of jobs, requests, chunks,  *)
(* attempts and mishaps.                                                   *)
(***************************************************************************)
EXTENDS UploadProperties, FiniteSetTheorems, TLAPS

-----------------------------------------------------------------------------
(* The types, by parts *)

StorageOK ==
    /\ <<provider, backend>> \in Deployments
    /\ name \in [Owner -> Owner] /\ bytes \in [Owner -> Content] /\ mishaps \subseteq Mishap

JobsOK ==
    /\ total \in [Job -> Nat \ {0}]
    /\ status \in [Job -> {"pending", "uploading", "done", "failed", None}]
    /\ url \in [Job -> Job \cup {None}] /\ \A j \in Job : status[j] = "done" <=> url[j] # None
    /\ known \subseteq Job /\ cached \in Job \cup {None} /\ disturbed \subseteq Job
    /\ crowded \subseteq disturbed /\ torn \subseteq Job
    /\ \A j \in Job \ known : status[j] = None

FilesOK ==
    /\ chunks \in [Job -> SUBSET Nat] /\ whole \in [Job -> SUBSET Nat]
    /\ \A j \in Job : chunks[j] \subseteq Index(j) /\ whole[j] \subseteq chunks[j]
    /\ \A j \in Job \ known : chunks[j] = {} /\ hook[j] # "ok"
    /\ merged \in [Call -> Content \cup {None}]
    /\ hook \in [Job -> {"ok", "failed", None}] /\ copies \in [Job -> Nat]

CallOK(c) ==
    /\ Active(c) => call[c].job \in known
    /\ At(c, "saving") \/ At(c, "writing") => call[c].chunk \in Index(call[c].job)
    /\ At(c, "queued") => InQueue(c)
    /\ InQueue(c) => At(c, "queued") \/ call[c].at \in Uploading
CallsOK == call \in [Call -> CallType] /\ \A c \in Call : CallOK(c)

ServiceOK == place \in [Direct -> {"idle", "uploaded", "failed"}] /\ deleted \subseteq Owner

Types == StorageOK /\ JobsOK /\ FilesOK /\ CallsOK /\ ServiceOK

LEMMA TypesAreTypes == TypeOK /\ UploadTypes <=> Types
<1>1. TypeOK /\ UploadTypes => Types
  BY DEF TypeOK, UploadTypes, Types, StorageOK, JobsOK, FilesOK, CallsOK, CallOK, ServiceOK
<1>2. ASSUME Types PROVE TypeOK /\ UploadTypes
  <2>1. \A c \in Call : call[c].at \in Label /\ call[c].path \in Call
                       /\ call[c].attempts < MaxAttempts /\ call[c].stalls \in 0 .. 1
    <3> SUFFICES ASSUME NEW c \in Call
                 PROVE  call[c].at \in Label /\ call[c].path \in Call
                       /\ call[c].attempts < MaxAttempts /\ call[c].stalls \in 0 .. 1
      OBVIOUS
    <3>1. call[c] \in CallType
      BY <1>2 DEF Types, CallsOK
    <3> QED BY <3>1, ChunkAssumption DEF CallType
  <2>2. UploadTypes
    BY <1>2 DEF UploadTypes, Types, JobsOK, FilesOK, CallsOK, CallOK
  <2>3. TypeOK
    <3>1. \A j \in Job : copies[j] \in Nat
      BY <1>2 DEF Types, FilesOK
    <3> QED BY <1>2, <2>1, <3>1 DEF TypeOK, Types, StorageOK, JobsOK, FilesOK, ServiceOK
  <2> QED BY <2>2, <2>3
<1> QED BY <1>1, <1>2

-----------------------------------------------------------------------------
(* The storage *)

\* There is a name for every upload.
LEMMA FreshNameIsFree ==
    ASSUME StorageOK, NamesAreDistinct, NEW o \in Owner
    PROVE  FreshName(o) \in Owner /\ \A x \in Owner \ {o} : name[x] # FreshName(o)
<1>1. \E n \in Owner : \A x \in Owner \ {o} : name[x] # n
  <2>1. CASE Distinct(Owner)
    <3>1. name[o] \in Owner /\ \A x \in Owner \ {o} : name[x] # name[o]
      BY <2>1 DEF StorageOK, Distinct
    <3> QED BY <3>1
  <2>2. CASE \E n \in Owner : \A x \in Owner : name[x] # n
    BY <2>2
  <2> QED BY <2>1, <2>2 DEF NamesAreDistinct
<1> QED BY <1>1 DEF FreshName

\* A file under a fresh name takes no name from anybody.
LEMMA PutKeepsNames ==
    ASSUME StorageOK, NamesAreDistinct, NEW o \in Owner, NEW whose \in Content,
           PutAs(o, FreshName(o), whose), mishaps \subseteq mishaps'
    PROVE  /\ name' \in [Owner -> Owner] /\ bytes' \in [Owner -> Content]
           /\ NamesAreDistinct'
           /\ Shows(o)' = whose /\ \A x \in Owner \ {o} : Shows(x)' = Shows(x)
<1> DEFINE n == FreshName(o)
<1>1. n \in Owner /\ \A x \in Owner \ {o} : name[x] # n
  BY FreshNameIsFree
<1>2. name' = [name EXCEPT ![o] = n] /\ bytes' = [bytes EXCEPT ![n] = whose]
  BY DEF PutAs
<1> HIDE DEF n
<1>3. /\ name' \in [Owner -> Owner] /\ bytes' \in [Owner -> Content]
      /\ name'[o] = n /\ bytes'[n] = whose
      /\ \A x \in Owner \ {o} : name'[x] = name[x] /\ name[x] \in Owner /\ bytes'[name[x]] = bytes[name[x]]
  BY <1>1, <1>2 DEF StorageOK
<1>4. Shows(o)' = whose /\ \A x \in Owner \ {o} : Shows(x)' = Shows(x)
  BY <1>3 DEF Shows
<1>5. ASSUME NEW S \in SUBSET Owner, Distinct(S) PROVE Distinct(S)'
  BY <1>1, <1>3, <1>5 DEF Distinct
<1>6. NamesAreDistinct'
  <2>1. CASE Distinct(Owner)
    BY <1>5, <2>1 DEF NamesAreDistinct
  <2>2. CASE ~Distinct(Owner)
    <3>1. PICK p \in Owner : Distinct(Owner \ {p})
      BY <2>2 DEF NamesAreDistinct
    <3>2. PICK free \in Owner : \A x \in Owner : name[x] # free
      BY <2>2 DEF NamesAreDistinct
    <3>3. Distinct(Owner \ {p})'
      BY <1>5, <3>1
    <3>4. "same ms" \in mishaps'
      BY <2>2 DEF NamesAreDistinct
    <3>5. CASE o = p
      <4>1. Distinct(Owner)'
        BY <1>1, <1>3, <3>3, <3>5 DEF Distinct
      <4> QED BY <4>1 DEF NamesAreDistinct
    <3>6. CASE o # p /\ name[o] = name[p]
      <4>1. \A x \in Owner \ {o, p} : name[x] # name[p]
        BY <3>1, <3>6 DEF Distinct
      <4>2. Distinct(Owner)'
        BY <1>1, <1>3, <3>3, <3>6, <4>1 DEF Distinct
      <4> QED BY <4>2 DEF NamesAreDistinct
    <3>7. CASE o # p /\ name[o] # name[p] /\ n # name[o]
      <4>1. \A x \in Owner : name'[x] # name[o]
        BY <1>3, <3>1, <3>7 DEF Distinct
      <4>2. name[o] \in Owner
        BY DEF StorageOK
      <4> QED BY <3>3, <3>4, <4>1, <4>2 DEF NamesAreDistinct
    <3>8. CASE n = name[o]
      <4>1. \A x \in Owner : name'[x] # free
        BY <1>3, <3>2, <3>8
      <4> QED BY <3>3, <3>4, <4>1 DEF NamesAreDistinct
    <3> QED BY <3>5, <3>6, <3>7, <3>8
  <2> QED BY <2>1, <2>2
<1> QED BY <1>3, <1>4, <1>6

\* The one pair of files that may share a name leaves one free.
LEMMA PutOverKeepsNames ==
    ASSUME StorageOK, NamesAreDistinct, NEW o \in Owner, NEW whose \in Content,
           PutOver(o, whose), Befalls("same ms")
    PROVE  /\ name' \in [Owner -> Owner] /\ bytes' \in [Owner -> Content]
           /\ UNCHANGED <<provider, backend>> /\ NamesAreDistinct'
<1>1. PICK v \in Owner \ {o} : PutAs(o, name[v], whose)
  BY DEF PutOver
<1>2. Distinct(Owner) /\ "same ms" \in mishaps'
  BY DEF NamesAreDistinct, Befalls
<1>3. /\ name' \in [Owner -> Owner] /\ bytes' \in [Owner -> Content]
      /\ name'[o] = name[v] /\ \A x \in Owner \ {o} : name'[x] = name[x]
  BY <1>1 DEF PutAs, StorageOK
<1>4. Distinct(Owner \ {o})'
  BY <1>2, <1>3 DEF Distinct
<1>5. name[o] \in Owner /\ \A x \in Owner : name'[x] # name[o]
  BY <1>2, <1>3 DEF Distinct, StorageOK
<1> QED BY <1>1, <1>2, <1>3, <1>4, <1>5 DEF NamesAreDistinct, PutAs

\* A mishap is added, once.
LEMMA MishapIsAdded ==
    ASSUME StorageOK, NEW m \in Mishap, Befalls(m)
    PROVE  m \notin mishaps /\ mishaps' = mishaps \cup {m} /\ mishaps' \subseteq Mishap
BY DEF Befalls, StorageOK

\* Whatever the provider makes of an upload for o, the files of all others are what they
\* were, unless a name was shared.
Keeps(o) == \A x \in Owner \ {o} : Shows(x)' = Shows(x)

LEMMA ObserverKeepsFiles ==
    ASSUME StorageOK, NamesAreDistinct, NEW o \in Owner, NEW whose \in Content,
           NEW m \in {"observer", "lost"}, Befalls(m), PutAs(o, FreshName(o), whose)
    PROVE  /\ StorageOK' /\ NamesAreDistinct' /\ mishaps' = mishaps \cup {m}
           /\ Keeps(o) /\ Shows(o)' = whose
<1>1. m \in Mishap
  BY DEF Mishap
<1>2. mishaps' = mishaps \cup {m} /\ mishaps' \subseteq Mishap
  BY <1>1, MishapIsAdded
<1>3. /\ name' \in [Owner -> Owner] /\ bytes' \in [Owner -> Content] /\ NamesAreDistinct'
      /\ Shows(o)' = whose /\ \A x \in Owner \ {o} : Shows(x)' = Shows(x)
  BY <1>2, PutKeepsNames
<1>4. <<provider, backend>>' \in Deployments
  BY DEF PutAs, StorageOK
<1> QED BY <1>2, <1>3, <1>4 DEF StorageOK, Keeps

LEMMA StoresKeepsFiles ==
    ASSUME StorageOK, NamesAreDistinct, NEW o \in Owner, NEW whose \in Content,
           Stores(o, whose)
    PROVE  /\ StorageOK' /\ NamesAreDistinct'
           /\ mishaps' = mishaps \/ mishaps' = mishaps \cup {"same ms"}
           /\ "same ms" \notin mishaps' => Keeps(o) /\ Shows(o)' = whose
<1>1. CASE PutAs(o, FreshName(o), whose) /\ UNCHANGED mishaps
  <2>1. /\ name' \in [Owner -> Owner] /\ bytes' \in [Owner -> Content] /\ NamesAreDistinct'
        /\ Shows(o)' = whose /\ \A x \in Owner \ {o} : Shows(x)' = Shows(x)
    <3>1. mishaps \subseteq mishaps'
      BY <1>1
    <3> QED BY <1>1, <3>1, PutKeepsNames
  <2>2. <<provider, backend>>' \in Deployments
    BY <1>1 DEF PutAs, StorageOK
  <2> QED BY <1>1, <2>1, <2>2 DEF StorageOK, Keeps
<1>2. CASE Befalls("same ms") /\ PutOver(o, whose)
  <2>1. mishaps' = mishaps \cup {"same ms"} /\ mishaps' \subseteq Mishap
    BY <1>2, MishapIsAdded DEF Mishap
  <2>2. /\ name' \in [Owner -> Owner] /\ bytes' \in [Owner -> Content]
        /\ UNCHANGED <<provider, backend>> /\ NamesAreDistinct'
    BY <1>2, PutOverKeepsNames
  <2>3. <<provider, backend>>' \in Deployments
    BY <2>2 DEF StorageOK
  <2> QED BY <2>1, <2>2, <2>3 DEF StorageOK
<1> QED BY <1>1, <1>2 DEF Stores

LEMMA RejectsKeepsFiles ==
    ASSUME StorageOK, NamesAreDistinct, NEW o \in Owner, NEW whose \in Content,
           Rejects(o, whose)
    PROVE  /\ StorageOK' /\ NamesAreDistinct' /\ Keeps(o)
           /\ \/ mishaps' = mishaps \cup {"refused"} /\ "lost" \notin mishaps' \ mishaps
                 /\ Shows(o)' = Shows(o)
              \/ mishaps' = mishaps \cup {"lost"} /\ "lost" \in mishaps' \ mishaps
                 /\ Shows(o)' = whose
<1>1. CASE Befalls("refused") /\ UNCHANGED storageVars
  <2>1. mishaps' = mishaps \cup {"refused"} /\ mishaps' \subseteq Mishap
    BY <1>1, MishapIsAdded DEF Mishap
  <2>2. UNCHANGED <<provider, backend, name, bytes>>
    BY <1>1 DEF storageVars
  <2>3. StorageOK'
    BY <2>1, <2>2 DEF StorageOK
  <2>4. NamesAreDistinct'
    BY <2>1, <2>2 DEF NamesAreDistinct, Distinct
  <2> QED BY <2>1, <2>2, <2>3, <2>4 DEF Keeps, Shows
<1>2. CASE Befalls("lost") /\ PutAs(o, FreshName(o), whose)
  <2>1. "lost" \notin mishaps
    BY <1>2 DEF Befalls
  <2> QED BY <1>2, <2>1, ObserverKeepsFiles
<1> QED BY <1>1, <1>2 DEF Rejects

\* What does not touch the provider keeps its part of the invariant.
LEMMA StorageStays ==
    ASSUME StorageOK, NamesAreDistinct, UNCHANGED storageVars,
           mishaps \subseteq mishaps', mishaps' \subseteq Mishap
    PROVE  /\ StorageOK' /\ NamesAreDistinct' /\ \A o \in Owner : Shows(o)' = Shows(o)
<1>1. UNCHANGED <<provider, backend, name, bytes>>
  BY DEF storageVars
<1> QED BY <1>1 DEF StorageOK, NamesAreDistinct, Distinct, Shows

-----------------------------------------------------------------------------
(* What a step does to the requests and to the jobs *)

Others(c) == \A d \in Call \ {c} : call'[d] = call[d]

\* c goes on for the same job, with the same merged file.
Goes(c, label, attempts) ==
    /\ call'[c].at = label /\ call'[c].attempts = attempts
    /\ call'[c].job = call[c].job /\ call'[c].path = call[c].path
    /\ Others(c)

Leaves(c) ==
    /\ call'[c].at = "over" /\ call'[c].attempts = -1
    /\ call'[c].job = None /\ call'[c].path = c
    /\ Others(c)

LEMMA OneCallMoves ==
    ASSUME Types, NEW c \in Call, UNCHANGED total, known \subseteq known',
           call' \in [Call -> CallType], Others(c), CallOK(c)'
    PROVE  CallsOK'
<1>1. ASSUME NEW d \in Call \ {c} PROVE CallOK(d)'
  <2>1. CallOK(d) /\ call'[d] = call[d]
    BY DEF Types, CallsOK, Others
  <2> QED BY <2>1 DEF CallOK, Active, At, InQueue, Index
<1> QED BY <1>1 DEF CallsOK

LEMMA GoingOn ==
    ASSUME Types, NEW c \in Call, NEW label \in Label, GoTo(c, label), UNCHANGED <<total, known>>,
           Active(c), label \notin {"saving", "writing", "queued"}, InQueue(c) => label \in Uploading
    PROVE  CallsOK' /\ Goes(c, label, call[c].attempts)
<1>1. call \in [Call -> CallType] /\ CallOK(c) /\ call' = [call EXCEPT ![c].at = label]
  BY DEF Types, CallsOK, GoTo
<1>2. call' \in [Call -> CallType] /\ call'[c] = [call[c] EXCEPT !.at = label] /\ Others(c)
  BY <1>1 DEF CallType, Others
<1>3. Goes(c, label, call[c].attempts)
  BY <1>1, <1>2 DEF Goes, CallType
<1>4. CallOK(c)'
  BY <1>1, <1>3 DEF CallOK, Goes, Active, At, InQueue
<1> QED BY <1>2, <1>3, <1>4, OneCallMoves

LEMMA Queueing ==
    ASSUME Types, NEW c \in Call, NEW n \in 0 .. MaxAttempts - 1, UNCHANGED <<total, known>>,
           Active(c), call' = [call EXCEPT ![c].at = "queued", ![c].attempts = n]
    PROVE  CallsOK' /\ Goes(c, "queued", n)
<1>1. call \in [Call -> CallType] /\ CallOK(c)
  BY DEF Types, CallsOK
<1>2. call' \in [Call -> CallType] /\ call'[c] = [call[c] EXCEPT !.at = "queued", !.attempts = n]
      /\ Others(c)
  <2>1. n \in -1 .. MaxAttempts - 1 /\ "queued" \in Label
    BY ChunkAssumption DEF Label
  <2>2. [call[c] EXCEPT !.at = "queued", !.attempts = n] \in CallType
    <3>1. call[c] \in CallType
      BY <1>1
    <3> HIDE DEF Label
    <3> QED BY <2>1, <3>1 DEF CallType
  <2>3. call' = [call EXCEPT ![c] = [call[c] EXCEPT !.at = "queued", !.attempts = n]]
    BY <1>1 DEF CallType
  <2> QED BY <1>1, <2>2, <2>3 DEF Others
<1>3. Goes(c, "queued", n)
  BY <1>1, <1>2 DEF Goes, CallType
<1>4. CallOK(c)'
  BY <1>1, <1>3 DEF CallOK, Goes, Active, At, InQueue, Uploading
<1> QED BY <1>2, <1>3, <1>4, OneCallMoves

LEMMA OverIsAtRest ==
    ASSUME NEW c \in Call
    PROVE  /\ Over(c) \in CallType
           /\ Over(c).at = "over" /\ Over(c).job = None /\ Over(c).path = c /\ Over(c).attempts = -1
<1>1. "over" \in Label /\ "idle" \in Label /\ -1 \in -1 .. MaxAttempts - 1 /\ 0 \in 0 .. 1
  BY ChunkAssumption DEF Label
<1>2. Fresh(c) \in CallType
  BY <1>1 DEF CallType, Fresh
<1>3. Fresh(c).job = None /\ Fresh(c).path = c /\ Fresh(c).attempts = -1
  BY DEF Fresh
<1> QED BY <1>1, <1>2, <1>3 DEF Over, CallType

LEMMA Ending ==
    ASSUME Types, NEW c \in Call, End(c), UNCHANGED <<total, known>>
    PROVE  CallsOK' /\ Leaves(c)
<1>1. call \in [Call -> CallType] /\ call' = [call EXCEPT ![c] = Over(c)]
  BY DEF Types, CallsOK, End
<1>2. call' \in [Call -> CallType] /\ call'[c] = Over(c) /\ Others(c)
  <2>1. Over(c) \in CallType
    BY OverIsAtRest
  <2> QED BY <1>1, <2>1 DEF Others
<1>3. Leaves(c)
  BY <1>2, OverIsAtRest DEF Leaves
<1>4. CallOK(c)'
  BY <1>3 DEF CallOK, Leaves, Active, At, InQueue
<1> QED BY <1>2, <1>3, <1>4, OneCallMoves

\* What only an arriving request or a fault changes.
Kept == UNCHANGED <<total, known, disturbed, crowded, torn>>

\* j's record, when there is one, gets the status.
Becomes(j, to, owner) ==
    /\ \A x \in Job \ {j} : status'[x] = status[x] /\ url'[x] = url[x]
    /\ \/ status[j] = None /\ status'[j] = None /\ url'[j] = url[j]
       \/ status[j] # None /\ status'[j] = to /\ url'[j] = owner

LEMMA Updating ==
    ASSUME Types, NEW j \in Job, Kept, cached' \in Job \cup {None},
           NEW to \in {"uploading", "done", "failed"}, NEW owner \in Job \cup {None},
           to = "done" <=> owner # None, Update(j, to, owner)
    PROVE  JobsOK' /\ Becomes(j, to, owner)
<1>1. JobsOK
  BY DEF Types
<1>2. CASE status[j] = None
  BY <1>1, <1>2 DEF Update, JobsOK, Becomes, jobVars, Kept
<1>3. CASE status[j] # None
  <2>1. status' = [status EXCEPT ![j] = to] /\ url' = [url EXCEPT ![j] = owner]
    BY <1>3 DEF Update
  <2>2. /\ status' \in [Job -> {"pending", "uploading", "done", "failed", None}]
        /\ url' \in [Job -> Job \cup {None}] /\ Becomes(j, to, owner)
    BY <1>1, <1>3, <2>1 DEF JobsOK, Becomes
  <2>3. to # None
    BY ChunkAssumption
  <2>4. \A x \in Job : status'[x] = "done" <=> url'[x] # None
    BY <1>1, <1>3, <2>1 DEF JobsOK, Kept
  <2>5. \A x \in Job \ known : status'[x] = None
    BY <1>1, <1>3, <2>1 DEF JobsOK, Kept
  <2> QED BY <1>1, <2>2, <2>4, <2>5 DEF JobsOK, Kept
<1> QED BY <1>2, <1>3

LEMMA Progressing ==
    ASSUME Types, NEW j \in Job, Kept, UNCHANGED cached, WriteProgress(j)
    PROVE  JobsOK' /\ Becomes(j, "uploading", None)
<1>1. cached' \in Job \cup {None}
  BY DEF Types, JobsOK
<1> QED BY <1>1, Updating DEF WriteProgress

LEMMA Completing ==
    ASSUME Types, NEW j \in Job, Kept, UNCHANGED cached, WriteCompleted(j)
    PROVE  JobsOK' /\ Becomes(j, "done", j)
<1>1. cached' \in Job \cup {None}
  BY DEF Types, JobsOK
<1>2. j # None
  BY ChunkAssumption DEF Owner
<1> QED BY <1>1, <1>2, Updating DEF WriteCompleted

LEMMA Failing ==
    ASSUME Types, NEW j \in Job, Kept, UNCHANGED cached, WriteFailed(j)
    PROVE  JobsOK' /\ Becomes(j, "failed", None)
<1>1. cached' \in Job \cup {None}
  BY DEF Types, JobsOK
<1> QED BY <1>1, Updating DEF WriteFailed

LEMMA JobsStay ==
    ASSUME Types, Kept, UNCHANGED <<status, url, cached>>
    PROVE  JobsOK'
BY DEF Types, JobsOK, Kept

LEMMA FilesStay ==
    ASSUME Types, UNCHANGED <<chunks, whole, merged, hook, copies, total, known>>
    PROVE  FilesOK'
BY DEF Types, FilesOK, Index

LEMMA ServiceStays == ASSUME Types, UNCHANGED serviceVars PROVE ServiceOK'
BY DEF Types, ServiceOK, serviceVars

\* The file and the job of a request that is under way.
LEMMA ActiveIsKnown ==
    ASSUME Types, NEW c \in Call, Active(c)
    PROVE  /\ call[c].job \in known /\ call[c].job \in Job /\ call[c].job \in Owner
           /\ call[c].path \in Call
           /\ call[c].attempts \in -1 .. MaxAttempts - 1 /\ call[c].count \in Nat /\ call[c].chunk \in Nat
<1>1. call[c] \in CallType /\ CallOK(c) /\ known \subseteq Job
  BY DEF Types, CallsOK, JobsOK
<1> QED BY <1>1 DEF CallType, CallOK, Owner

\* An update that rejects, and what it may have written.
Broken(j, to, owner) ==
    /\ UNCHANGED mishaps \/ \E m \in Mishap : Befalls(m)
    /\ \/ Becomes(j, to, owner) /\ Happened({"store", "observer"})'
       \/ UNCHANGED jobVars /\ "store" \in mishaps'

LEMMA Breaking ==
    ASSUME Types, NEW j \in Job, Kept, UNCHANGED cached,
           NEW to \in {"uploading", "done", "failed"}, NEW owner \in Job \cup {None},
           to = "done" <=> owner # None, Breaks(j, Update(j, to, owner))
    PROVE  JobsOK' /\ Broken(j, to, owner)
<1>1. cached' \in Job \cup {None}
  BY DEF Types, JobsOK
<1>2. ASSUME Update(j, to, owner) PROVE JobsOK' /\ Becomes(j, to, owner)
  BY <1>1, <1>2, Updating
<1>3. ASSUME UNCHANGED jobVars PROVE JobsOK'
  BY <1>3, JobsStay DEF jobVars
<1>4. CASE Strikes("store") /\ (Update(j, to, owner) \/ UNCHANGED jobVars)
  <2>1. "store" \in mishaps' /\ (UNCHANGED mishaps \/ \E m \in Mishap : Befalls(m))
    BY <1>4 DEF Strikes, Befalls, Mishap
  <2> QED BY <1>2, <1>3, <1>4, <2>1 DEF Broken, Happened
<1>5. CASE Befalls("observer") /\ Update(j, to, owner)
  <2>1. "observer" \in mishaps' /\ \E m \in Mishap : Befalls(m)
    BY <1>5 DEF Befalls, Mishap
  <2> QED BY <1>2, <1>5, <2>1 DEF Broken, Happened
<1> QED BY <1>4, <1>5 DEF Breaks

-----------------------------------------------------------------------------
(* Every step keeps the types, the names and the runs *)

Base == Types /\ NamesAreDistinct /\ PathsAreOwn /\ RunsAreAlone

\* A step that leaves the provider alone.
Aside == UNCHANGED storageVars /\ (UNCHANGED mishaps \/ \E m \in Mishap : Befalls(m))

SameFiles == \A o \in Owner : Shows(o)' = Shows(o)

LEMMA AsideIsAside ==
    ASSUME Base, Aside
    PROVE  /\ StorageOK' /\ NamesAreDistinct' /\ SameFiles
           /\ mishaps \subseteq mishaps' /\ UNCHANGED <<provider, backend>>
<1>1. mishaps \subseteq mishaps' /\ mishaps' \subseteq Mishap
  <2>1. CASE UNCHANGED mishaps
    BY <2>1 DEF Base, Types, StorageOK
  <2>2. CASE \E m \in Mishap : Befalls(m)
    BY <2>2, MishapIsAdded DEF Base, Types
  <2> QED BY <2>1, <2>2 DEF Aside
<1>2. StorageOK' /\ NamesAreDistinct' /\ \A o \in Owner : Shows(o)' = Shows(o)
  BY <1>1, StorageStays DEF Base, Types, Aside
<1> QED BY <1>1, <1>2 DEF SameFiles, Aside, storageVars

\* No other call has the merged file of a request that is under way.
LEMMA PathIsOwn ==
    ASSUME Base, "same path" \notin mishaps, NEW c \in Call, Active(c), ~InQueue(c)
    PROVE  call[c].path = c /\ \A d \in Call \ {c} : call[d].path # c
<1>1. call[c].path = c
  BY DEF Base, PathsAreOwn, Repeats
<1>2. ASSUME NEW d \in Call \ {c}, call[d].path = c PROVE FALSE
  <2>1. Repeats(d)
    BY <1>2 DEF Base, PathsAreOwn
  <2> QED BY <1>2, <2>1 DEF Repeats, Active, At
<1> QED BY <1>1, <1>2

\* Two that are at work for a job whose client does not crowd are two runs of a task.
LEMMA RunsAreTwo ==
    ASSUME Base, NEW c \in Call, NEW d \in Call \ {c}, Active(c), Active(d),
           call[c].job = call[d].job, call[c].job \notin crowded
    PROVE  InQueue(c) /\ InQueue(d) /\ "stall" \in mishaps
BY DEF Base, RunsAreAlone

\* c goes on, for the same job and as a request or as a task, or it ends.
LEMMA AloneStay ==
    ASSUME Base, NEW c \in Call, Active(c), Others(c), mishaps \subseteq mishaps', UNCHANGED crowded,
           Active(c)' => call'[c].job = call[c].job /\ (InQueue(c) => InQueue(c)')
    PROVE  RunsAreAlone'
<1> SUFFICES ASSUME NEW d \in Call, NEW e \in Call, Active(d)', Active(e)', d # e,
                    call'[d].job = call'[e].job, call'[d].job \notin crowded'
             PROVE  InQueue(d)' /\ InQueue(e)' /\ "stall" \in mishaps'
  BY DEF RunsAreAlone
<1>1. ASSUME NEW x \in Call, Active(x)'
      PROVE  Active(x) /\ call'[x].job = call[x].job /\ (InQueue(x) => InQueue(x)')
  BY <1>1 DEF Others, Active, InQueue
<1>2. InQueue(d) /\ InQueue(e) /\ "stall" \in mishaps
  BY <1>1, RunsAreTwo
<1> QED BY <1>1, <1>2

LEMMA PathsStay ==
    ASSUME Base, NEW c \in Call, Active(c), Others(c), mishaps \subseteq mishaps',
           \/ At(c, "over")' /\ call'[c].path = c
           \/ /\ call'[c].path = call[c].path /\ call'[c].job = call[c].job
              /\ InQueue(c) => InQueue(c)'
    PROVE  PathsAreOwn'
<1> SUFFICES ASSUME "same path" \notin mishaps', NEW d \in Call, call'[d].path # d
             PROVE  Repeats(d)'
  BY DEF PathsAreOwn
<1>1. call'[d].path = call[d].path /\ call'[d].job = call[d].job /\ (InQueue(d) => InQueue(d)')
  BY DEF Others, InQueue
<1>2. Repeats(d)
  BY <1>1 DEF Base, PathsAreOwn
<1> DEFINE first == call[d].path
<1>3. InQueue(d)' /\ first \in Call
  <2>1. call[d] \in CallType
    BY DEF Base, Types, CallsOK
  <2> QED BY <1>1, <1>2, <2>1 DEF Repeats, CallType
<1>4. At(first, "over")' \/ (InQueue(first)' /\ call'[first].job = call[d].job)
  <2>1. CASE first # c
    BY <1>2, <1>3, <2>1 DEF Repeats, Others, At, InQueue
  <2>2. CASE first = c
    BY <1>1, <1>2, <2>2 DEF Repeats, Active, At, InQueue
  <2> QED BY <2>1, <2>2
<1> QED BY <1>1, <1>3, <1>4 DEF Repeats

RunsStay == PathsAreOwn' /\ RunsAreAlone'

LEMMA RunsGoOn ==
    ASSUME Base, NEW c \in Call, Active(c), mishaps \subseteq mishaps', UNCHANGED crowded,
           NEW label, NEW n \in Int, Goes(c, label, n), InQueue(c) => n >= 0
    PROVE  RunsStay
BY AloneStay, PathsStay DEF Goes, InQueue, RunsStay

LEMMA RunsEnd ==
    ASSUME Base, NEW c \in Call, Active(c), mishaps \subseteq mishaps', UNCHANGED crowded, Leaves(c)
    PROVE  RunsStay
BY AloneStay, PathsStay DEF Leaves, At, Active, RunsStay

LEMMA RunsRest ==
    ASSUME Base, UNCHANGED <<call, crowded>>, mishaps \subseteq mishaps'
    PROVE  RunsStay
<1>1. PathsAreOwn'
  BY DEF Base, PathsAreOwn, Repeats, InQueue, At
<1>2. RunsAreAlone'
  BY DEF Base, RunsAreAlone, Active, InQueue
<1> QED BY <1>1, <1>2 DEF RunsStay

\* A call that goes on, and one that ends.
LEMMA GoesOn ==
    ASSUME Base, NEW c \in Call, NEW label \in Label, GoTo(c, label), Kept, mishaps \subseteq mishaps',
           Active(c), label \notin {"saving", "writing", "queued"}, InQueue(c) => label \in Uploading
    PROVE  CallsOK' /\ Goes(c, label, call[c].attempts) /\ RunsStay
<1>1. CallsOK' /\ Goes(c, label, call[c].attempts)
  BY GoingOn DEF Base, Kept
<1>2. call[c].attempts \in Int
  BY ActiveIsKnown DEF Base
<1> QED BY <1>1, <1>2, RunsGoOn DEF Kept, InQueue

LEMMA Ends ==
    ASSUME Base, NEW c \in Call, End(c), UNCHANGED <<total, known, crowded>>,
           mishaps \subseteq mishaps', Active(c)
    PROVE  CallsOK' /\ Leaves(c) /\ RunsStay
<1>1. CallsOK' /\ Leaves(c)
  BY Ending DEF Base
<1> QED BY <1>1, RunsEnd

LEMMA BaseStays ==
    ASSUME Base, Aside, RunsStay, JobsOK', FilesOK', CallsOK', ServiceOK'
    PROVE  Base'
BY AsideIsAside DEF Base, Types, RunsStay

LEMMA SaveStep ==
    ASSUME Base, NEW c \in Call, Save(c), UNCHANGED serviceVars
    PROVE  /\ Base' /\ Aside /\ Goes(c, "writing", call[c].attempts)
           /\ Active(c) /\ ~InQueue(c) /\ call'[c].chunk = call[c].chunk
           /\ call[c].job \in Job /\ call[c].chunk \in Nat
<1> DEFINE j == call[c].job
           i == call[c].chunk
<1>1. Types /\ Active(c) /\ ~InQueue(c)
  BY DEF Base, Types, CallsOK, CallOK, Save, At, Active, InQueue, Uploading
<1>2. call[c] \in CallType /\ call \in [Call -> CallType] /\ j \in Job /\ j \in known /\ i \in Index(j)
  BY <1>1, ActiveIsKnown DEF Types, CallsOK, CallOK, Save
<1>3. Kept /\ UNCHANGED <<total, known, cached, merged, hook, copies>> /\ UNCHANGED storageVars
      /\ UNCHANGED mishaps /\ UNCHANGED <<status, url>>
  BY DEF Save, historyVars, cacheVars, jobVars, Kept
<1>4. call' \in [Call -> CallType] /\ Goes(c, "writing", call[c].attempts) /\ call'[c].chunk = i
  BY <1>2 DEF Save, GoTo, Goes, Others, CallType, Label
<1>5. CallsOK'
  <2>1. CallOK(c)'
    BY <1>1, <1>2, <1>3, <1>4 DEF CallOK, Goes, Active, At, InQueue, Index
  <2> QED BY <1>1, <1>3, <1>4, <2>1, OneCallMoves DEF Goes
<1>6. FilesOK'
  <2>1. chunks' = [chunks EXCEPT ![j] = @ \cup {i}] /\ whole' = [whole EXCEPT ![j] = @ \ {i}]
    BY DEF Save
  <2>2. FilesOK /\ Index(j) \subseteq Nat
    BY <1>1 DEF Types, Index
  <2> HIDE DEF j, i
  <2>3. chunks' \in [Job -> SUBSET Nat] /\ whole' \in [Job -> SUBSET Nat]
    BY <1>2, <2>1, <2>2 DEF FilesOK
  <2>4. \A x \in Job : chunks'[x] \subseteq Index(x) /\ whole'[x] \subseteq chunks'[x]
    BY <1>2, <2>1, <2>2 DEF FilesOK
  <2>5. \A x \in Job \ known : chunks'[x] = {}
    BY <1>2, <2>1, <2>2 DEF FilesOK
  <2> QED BY <1>3, <2>2, <2>3, <2>4, <2>5 DEF FilesOK, Index
<1>7. JobsOK' /\ ServiceOK' /\ Aside
  BY <1>1, <1>3, JobsStay, ServiceStays DEF Aside
<1>8. RunsStay
  <2>1. call[c].attempts \in Int
    BY <1>1, ActiveIsKnown
  <2> QED BY <1>1, <1>3, <1>4, <2>1, RunsGoOn DEF Kept
<1>9. i \in Nat
  BY <1>2 DEF CallType
<1> QED BY <1>1, <1>2, <1>4, <1>5, <1>6, <1>7, <1>8, <1>9, BaseStays

LEMMA FillStep ==
    ASSUME Base, NEW c \in Call, Fill(c), UNCHANGED serviceVars
    PROVE  /\ Base' /\ Aside /\ Goes(c, "listing", call[c].attempts)
           /\ Active(c) /\ ~InQueue(c) /\ call[c].job \in Job
           /\ \/ whole' = [whole EXCEPT ![call[c].job] = IF call[c].chunk \in chunks[call[c].job]
                                                        THEN @ \cup {call[c].chunk} ELSE @]
              \/ Contended(c) /\ UNCHANGED whole
<1> DEFINE j == call[c].job
           i == call[c].chunk
           r == [call[c] EXCEPT !.at = "listing", !.chunk = 0]
           full == IF i \in chunks[j] THEN whole[j] \cup {i} ELSE whole[j]
<1>1. Types /\ Active(c) /\ ~InQueue(c)
  BY DEF Base, Types, CallsOK, CallOK, Fill, At, Active, InQueue, Uploading
<1>2. call[c] \in CallType /\ call \in [Call -> CallType] /\ j \in Job /\ j \in known
  BY <1>1, ActiveIsKnown DEF Types, CallsOK
<1>3. Kept /\ UNCHANGED <<total, known, cached, chunks, merged, hook, copies>> /\ UNCHANGED storageVars
      /\ UNCHANGED mishaps /\ UNCHANGED <<status, url>>
  BY DEF Fill, historyVars, cacheVars, jobVars, Kept
<1>4. r \in CallType /\ r.at = "listing" /\ r.job = j /\ r.path = call[c].path
      /\ r.attempts = call[c].attempts
  BY <1>2 DEF CallType, Label
<1>5. call' = [call EXCEPT ![c] = r]
  BY <1>2 DEF Fill, CallType
<1>6. \/ whole' = [whole EXCEPT ![j] = IF i \in chunks[j] THEN @ \cup {i} ELSE @]
      \/ Contended(c) /\ UNCHANGED whole
  BY DEF Fill
<1> HIDE DEF r
<1>7. call' \in [Call -> CallType] /\ Goes(c, "listing", call[c].attempts)
  BY <1>2, <1>4, <1>5 DEF Goes, Others
<1>8. CallsOK'
  <2>1. CallOK(c)'
    BY <1>1, <1>2, <1>3, <1>7 DEF CallOK, Goes, Active, At, InQueue
  <2> QED BY <1>1, <1>3, <1>7, <2>1, OneCallMoves DEF Goes
<1>9. FilesOK'
  <2>1. FilesOK
    BY <1>1 DEF Types
  <2>2. i \in Nat
    BY <1>2 DEF CallType
  <2>3. whole' = [whole EXCEPT ![j] = full] \/ whole' = whole
    BY <1>2, <1>6, <2>1 DEF FilesOK
  <2>4. full \in SUBSET Nat /\ full \subseteq chunks[j]
    BY <1>2, <2>1, <2>2 DEF FilesOK
  <2> HIDE DEF full, j, i
  <2>5. whole' \in [Job -> SUBSET Nat] /\ \A x \in Job : whole'[x] \subseteq chunks[x]
    BY <1>2, <2>1, <2>3, <2>4 DEF FilesOK
  <2> QED BY <1>3, <2>1, <2>5 DEF FilesOK, Index
<1>10. JobsOK' /\ ServiceOK' /\ Aside
  BY <1>1, <1>3, JobsStay, ServiceStays DEF Aside
<1>11. RunsStay
  <2>1. call[c].attempts \in Int
    BY <1>1, ActiveIsKnown
  <2> QED BY <1>1, <1>3, <1>7, <2>1, RunsGoOn DEF Kept
<1> QED BY <1>1, <1>2, <1>6, <1>7, <1>8, <1>9, <1>10, <1>11, BaseStays

LEMMA CutStep ==
    ASSUME Base, NEW c \in Call, Cut(c), UNCHANGED serviceVars
    PROVE  /\ Base' /\ Aside /\ Leaves(c) /\ "disk" \in mishaps'
           /\ Active(c) /\ ~InQueue(c) /\ call[c].job \in Job
<1>1. Types /\ Active(c) /\ ~InQueue(c)
  BY DEF Base, Types, CallsOK, CallOK, Cut, At, Active, InQueue, Uploading
<1>2. call[c].job \in Job
  BY <1>1, ActiveIsKnown
<1>3. /\ UNCHANGED <<total, known, disturbed, crowded, cached, chunks, whole, merged, hook, copies>>
      /\ UNCHANGED <<status, url>> /\ UNCHANGED storageVars
      /\ torn' = torn \cup {call[c].job} /\ End(c)
  BY DEF Cut, cacheVars, fileVars, jobVars
<1>4. Aside /\ "disk" \in mishaps' /\ mishaps \subseteq mishaps'
  BY <1>3 DEF Cut, Aside, Mishap, Befalls
<1>5. CallsOK' /\ Leaves(c) /\ RunsStay
  BY <1>1, <1>3, <1>4, Ends
<1>6. JobsOK'
  BY <1>1, <1>2, <1>3 DEF Types, JobsOK
<1>7. FilesOK' /\ ServiceOK'
  BY <1>1, <1>3, FilesStay, ServiceStays
<1> QED BY <1>1, <1>2, <1>4, <1>5, <1>6, <1>7, BaseStays

LEMMA ListStep ==
    ASSUME Base, NEW c \in Call, List(c), UNCHANGED serviceVars
    PROVE  /\ Base' /\ Aside /\ Goes(c, "noting", call[c].attempts)
           /\ Active(c) /\ ~InQueue(c) /\ call[c].job \in Job
<1> DEFINE j == call[c].job
           r == [call[c] EXCEPT !.at = "noting", !.count = Cardinality(chunks[j])]
<1>1. Types /\ Active(c) /\ ~InQueue(c)
  BY DEF Base, Types, CallsOK, CallOK, List, At, Active, InQueue, Uploading
<1>2. call[c] \in CallType /\ call \in [Call -> CallType] /\ j \in Job /\ j \in known
  BY <1>1, ActiveIsKnown DEF Types, CallsOK
<1>3. Cardinality(chunks[j]) \in Nat
  <2>1. total[j] \in Nat /\ chunks[j] \subseteq 0 .. total[j] - 1
    BY <1>1, <1>2 DEF Types, JobsOK, FilesOK, Index
  <2>2. IsFiniteSet(0 .. total[j] - 1)
    BY <2>1, FS_Interval
  <2>3. IsFiniteSet(chunks[j])
    BY <2>1, <2>2, FS_Subset
  <2> QED BY <2>3, FS_CardinalityType
<1>4. r \in CallType /\ r.at = "noting" /\ r.job = j /\ r.path = call[c].path
      /\ r.attempts = call[c].attempts
  BY <1>2, <1>3 DEF CallType, Label
<1>5. call' = [call EXCEPT ![c] = r] /\ Kept
      /\ UNCHANGED <<total, known, cached, status, url, chunks, whole, merged, hook, copies>>
      /\ UNCHANGED storageVars /\ UNCHANGED mishaps
  BY <1>2 DEF List, CallType, cacheVars, jobVars, fileVars, historyVars, Kept
<1> HIDE DEF r
<1>6. Goes(c, "noting", call[c].attempts) /\ call' \in [Call -> CallType]
  BY <1>2, <1>4, <1>5 DEF Goes, Others
<1>7. CallsOK'
  <2>1. CallOK(c)'
    BY <1>1, <1>2, <1>5, <1>6 DEF CallOK, Goes, Active, At, InQueue
  <2> QED BY <1>1, <1>5, <1>6, <2>1, OneCallMoves DEF Goes
<1>8. FilesOK' /\ JobsOK' /\ ServiceOK' /\ Aside
  BY <1>1, <1>5, FilesStay, JobsStay, ServiceStays DEF Aside
<1>9. RunsStay
  <2>1. call[c].attempts \in Int
    BY <1>1, ActiveIsKnown
  <2> QED BY <1>1, <1>5, <1>6, <2>1, RunsGoOn DEF Kept
<1> QED BY <1>1, <1>2, <1>6, <1>7, <1>8, <1>9, BaseStays

\* c truncates a merged file, its own or that of another call.
Assembles(c) ==
    /\ call'[c].at = "merging" /\ call'[c].attempts = call[c].attempts
    /\ call'[c].job = call[c].job /\ Others(c)
    /\ call'[c].path \in Call /\ merged' = [merged EXCEPT ![call'[c].path] = {}]
    /\ call'[c].path = call[c].path \/ "same path" \in mishaps'

LEMMA Assembling ==
    ASSUME Base, NEW c \in Call, Active(c), ~InQueue(c), Assemble(c), Kept,
           UNCHANGED <<chunks, whole, hook, copies>>, UNCHANGED storageVars
    PROVE  /\ CallsOK' /\ FilesOK' /\ RunsStay /\ Aside /\ Assembles(c)
           /\ mishaps' = mishaps \/ mishaps' = mishaps \cup {"same path"}
<1> DEFINE j == call[c].job
<1>1. Types /\ call[c] \in CallType /\ call \in [Call -> CallType] /\ j \in Job /\ j \in known
      /\ UNCHANGED <<total, known, crowded>>
  BY ActiveIsKnown DEF Base, Types, CallsOK, Kept
<1>2. PICK d \in Call :
         /\ \/ d = c /\ UNCHANGED mishaps
            \/ d # c /\ Befalls("same path")
         /\ call' = [call EXCEPT ![c].at = "merging", ![c].count = 0, ![c].path = call[d].path]
         /\ merged' = [merged EXCEPT ![call[d].path] = {}]
  BY DEF Assemble
<1> DEFINE q == call[d].path
           r == [call[c] EXCEPT !.at = "merging", !.count = 0, !.path = q]
<1>3. q \in Call
  BY <1>1 DEF CallType
<1>4. r \in CallType /\ r.at = "merging" /\ r.job = j /\ r.path = q /\ r.attempts = call[c].attempts
  BY <1>1, <1>3 DEF CallType, Label
<1>5. call' = [call EXCEPT ![c] = r]
  BY <1>1, <1>2 DEF CallType
<1> HIDE DEF r
<1>6. /\ call'[c].at = "merging" /\ call'[c].attempts = call[c].attempts
      /\ call'[c].job = j /\ call'[c].path = q /\ Others(c) /\ call' \in [Call -> CallType]
  BY <1>1, <1>4, <1>5 DEF Others
<1>7. CallsOK'
  <2>1. CallOK(c)'
    BY <1>1, <1>6 DEF CallOK, Active, At, InQueue
  <2> QED BY <1>1, <1>6, <2>1, OneCallMoves
<1>8. \/ mishaps' = mishaps /\ q = call[c].path
      \/ Befalls("same path") /\ mishaps' = mishaps \cup {"same path"}
  BY <1>2 DEF Befalls
<1>9. Aside /\ mishaps \subseteq mishaps'
  BY <1>8 DEF Aside, Mishap
<1>10. FilesOK'
  <2>1. FilesOK /\ {} \in Content
    BY <1>1 DEF Types, Content
  <2>2. merged' \in [Call -> Content \cup {None}]
    BY <1>2, <1>3, <2>1 DEF FilesOK
  <2> QED BY <1>1, <2>1, <2>2 DEF FilesOK, Index
<1>11. RunsStay
  <2>1. RunsAreAlone'
    BY <1>1, <1>6, <1>9, AloneStay DEF InQueue
  <2>2. PathsAreOwn'
    <3>1. CASE q = call[c].path
      BY <1>6, <1>9, <3>1, PathsStay DEF InQueue
    <3>2. CASE "same path" \in mishaps'
      BY <3>2 DEF PathsAreOwn
    <3> QED BY <1>8, <3>1, <3>2
  <2> QED BY <2>1, <2>2 DEF RunsStay
<1>12. Assembles(c)
  BY <1>2, <1>3, <1>6, <1>8 DEF Assembles
<1> QED BY <1>7, <1>8, <1>9, <1>10, <1>11, <1>12

LEMMA NoteStep ==
    ASSUME Base, NEW c \in Call, Note(c), UNCHANGED serviceVars
    PROVE  /\ Base' /\ Aside /\ Active(c) /\ ~InQueue(c) /\ call[c].job \in Job
           /\ \/ Becomes(call[c].job, "uploading", None) /\ Assembles(c)
              \/ Becomes(call[c].job, "uploading", None) /\ Leaves(c) /\ UNCHANGED merged
              \/ Broken(call[c].job, "uploading", None) /\ Leaves(c) /\ UNCHANGED merged
<1> DEFINE j == call[c].job
<1>1. Types /\ Active(c) /\ ~InQueue(c)
  BY DEF Base, Types, CallsOK, CallOK, Note, At, Active, InQueue, Uploading
<1>2. j \in Job
  BY <1>1, ActiveIsKnown
<1>3. Kept /\ UNCHANGED <<total, known, crowded, cached, chunks, whole, hook, copies>>
      /\ UNCHANGED storageVars
  BY DEF Note, cacheVars, historyVars, Kept
<1>4. ServiceOK' /\ (WriteProgress(j) => JobsOK' /\ Becomes(j, "uploading", None))
  BY <1>1, <1>2, <1>3, Progressing, ServiceStays
<1>5. CASE WriteProgress(j) /\ Assemble(c)
  <2>1. CallsOK' /\ FilesOK' /\ RunsStay /\ Aside /\ Assembles(c)
    BY <1>1, <1>3, <1>5, Assembling
  <2> QED BY <1>1, <1>2, <1>4, <1>5, <2>1, BaseStays
<1>6. ASSUME End(c), UNCHANGED merged, UNCHANGED mishaps \/ \E m \in Mishap : Befalls(m), JobsOK'
      PROVE  Base' /\ Aside /\ Leaves(c)
  <2>1. Aside /\ mishaps \subseteq mishaps'
    BY <1>3, <1>6 DEF Aside, Befalls
  <2>2. CallsOK' /\ Leaves(c) /\ RunsStay
    BY <1>1, <1>3, <1>6, <2>1, Ends
  <2>3. FilesOK'
    BY <1>1, <1>3, <1>6, FilesStay
  <2> QED BY <1>4, <1>6, <2>1, <2>2, <2>3, BaseStays
<1>7. CASE WriteProgress(j) /\ End(c) /\ UNCHANGED <<merged, mishaps>>
  BY <1>1, <1>2, <1>4, <1>6, <1>7
<1>8. CASE Breaks(j, WriteProgress(j)) /\ End(c) /\ UNCHANGED merged
  <2>1. JobsOK' /\ Broken(j, "uploading", None)
    <3>1. Breaks(j, Update(j, "uploading", None))
      BY <1>8 DEF WriteProgress
    <3>2. None \in Job \cup {None} /\ "uploading" \in {"uploading", "done", "failed"}
      OBVIOUS
    <3> QED BY <1>1, <1>2, <1>3, <3>1, <3>2, Breaking
  <2> QED BY <1>1, <1>2, <1>6, <1>8, <2>1 DEF Broken
<1> QED BY <1>5, <1>7, <1>8 DEF Note

LEMMA AssembledIsContent ==
    ASSUME NEW j \in Job, NEW file \in Content \cup {None}
    PROVE  (IF file = None THEN None ELSE file \cup Assembled(j)) \in Content \cup {None}
BY DEF Assembled, Content, Owner

LEMMA MergeStep ==
    ASSUME Base, NEW c \in Call, Merge(c), UNCHANGED serviceVars
    PROVE  /\ Base' /\ Aside /\ Active(c) /\ ~InQueue(c) /\ call[c].job \in Job
           /\ \/ /\ merged' = [merged EXCEPT ![call[c].path] =
                                  IF @ = None THEN None ELSE @ \cup Assembled(call[c].job)]
                 /\ \/ Goes(c, "enqueueing", call[c].attempts)
                    \/ Goes(c, "storing", call[c].attempts)
              \/ Goes(c, "failing", call[c].attempts) /\ UNCHANGED merged
<1> DEFINE j == call[c].job
           q == call[c].path
<1>1. Types /\ Active(c) /\ ~InQueue(c)
  BY DEF Base, Types, CallsOK, CallOK, Merge, At, Active, InQueue, Uploading
<1>2. j \in Job /\ q \in Call
  BY <1>1, ActiveIsKnown
<1>3. Kept /\ UNCHANGED <<total, known, cached, chunks, whole, hook, copies, status, url>> /\ Aside
      /\ mishaps \subseteq mishaps'
  BY DEF Merge, cacheVars, historyVars, jobVars, Aside, Kept
<1>4. JobsOK' /\ ServiceOK'
  BY <1>1, <1>3, JobsStay, ServiceStays
<1>5. ASSUME NEW label \in {"enqueueing", "storing", "failing"}, GoTo(c, label)
      PROVE  CallsOK' /\ Goes(c, label, call[c].attempts) /\ RunsStay
  <2>1. label \in Label /\ label \notin {"saving", "writing", "queued"}
    BY DEF Label, Uploading
  <2> QED BY <1>1, <1>3, <1>5, <2>1, GoesOn
<1>6. CASE Index(j) \subseteq chunks[j]
  <2>1. /\ merged' = [merged EXCEPT ![q] = IF @ = None THEN None ELSE @ \cup Assembled(j)]
        /\ GoTo(c, "enqueueing") \/ GoTo(c, "storing")
    BY <1>6 DEF Merge
  <2>2. FilesOK'
    <3>1. FilesOK
      BY <1>1 DEF Types
    <3>2. merged' \in [Call -> Content \cup {None}]
      <4>1. merged[q] \in Content \cup {None}
        BY <1>2, <3>1 DEF FilesOK
      <4>2. (IF merged[q] = None THEN None ELSE merged[q] \cup Assembled(j)) \in Content \cup {None}
        BY <1>2, <4>1, AssembledIsContent
      <4> QED BY <2>1, <3>1, <4>2 DEF FilesOK
    <3> QED BY <1>3, <3>1, <3>2 DEF FilesOK, Index
  <2> QED BY <1>1, <1>2, <1>3, <1>4, <1>5, <2>1, <2>2, BaseStays
<1>7. CASE ~(Index(j) \subseteq chunks[j])
  <2>1. GoTo(c, "failing") /\ UNCHANGED merged
    BY <1>7 DEF Merge
  <2>2. FilesOK'
    BY <1>1, <1>3, <2>1, FilesStay
  <2> QED BY <1>1, <1>2, <1>3, <1>4, <1>5, <2>1, <2>2, BaseStays
<1> QED BY <1>6, <1>7

\* The chunks of j are removed.
LEMMA Cleaning ==
    ASSUME FilesOK, NEW j \in Job, CleanChunks(j)
    PROVE  /\ chunks' \in [Job -> SUBSET Nat] /\ whole' \in [Job -> SUBSET Nat]
           /\ chunks'[j] = {} /\ whole'[j] = {}
           /\ \A x \in Job : x # j => chunks'[x] = chunks[x] /\ whole'[x] = whole[x]
BY DEF FilesOK, CleanChunks

LEMMA EnqueueStep ==
    ASSUME Base, NEW c \in Call, Enqueue(c), UNCHANGED serviceVars
    PROVE  /\ Base' /\ Aside /\ Active(c) /\ call[c].job \in Job /\ ~InQueue(c)
           /\ CleanChunks(call[c].job)
           /\ Goes(c, "queued", 0) \/ (Leaves(c) /\ "enqueue" \in mishaps')
<1> DEFINE j == call[c].job
<1>1. Types /\ Active(c) /\ ~InQueue(c)
  BY DEF Base, Types, CallsOK, CallOK, Enqueue, At, Active, InQueue, Uploading
<1>2. j \in Job
  BY <1>1, ActiveIsKnown
<1>3. Kept /\ UNCHANGED <<total, known, crowded, cached, merged, hook, copies, status, url>>
      /\ UNCHANGED storageVars /\ CleanChunks(j)
  BY DEF Enqueue, cacheVars, historyVars, jobVars, Kept
<1>4. JobsOK' /\ ServiceOK'
  BY <1>1, <1>3, JobsStay, ServiceStays
<1>5. FilesOK'
  BY <1>1, <1>2, <1>3, Cleaning DEF Types, FilesOK, Index
<1>6. CASE call' = [call EXCEPT ![c].at = "queued", ![c].attempts = 0] /\ UNCHANGED mishaps
  <2>1. 0 \in 0 .. MaxAttempts - 1
    BY ChunkAssumption
  <2>2. CallsOK' /\ Goes(c, "queued", 0)
    BY <1>1, <1>3, <1>6, <2>1, Queueing
  <2>3. RunsStay /\ Aside
    BY <1>1, <1>3, <1>6, <2>2, RunsGoOn DEF Aside
  <2> QED BY <1>1, <1>2, <1>3, <1>4, <1>5, <2>2, <2>3, BaseStays
<1>7. CASE Befalls("enqueue") /\ End(c)
  <2>1. Aside /\ "enqueue" \in mishaps' /\ mishaps \subseteq mishaps'
    BY <1>3, <1>7 DEF Aside, Mishap, Befalls
  <2>2. CallsOK' /\ Leaves(c) /\ RunsStay
    BY <1>1, <1>3, <1>7, <2>1, Ends
  <2> QED BY <1>1, <1>2, <1>3, <1>4, <1>5, <2>1, <2>2, BaseStays
<1> QED BY <1>6, <1>7 DEF Enqueue

LEMMA TakeStep ==
    ASSUME Base, NEW c \in Call, Take(c), UNCHANGED serviceVars
    PROVE  /\ Base' /\ Aside /\ Active(c) /\ InQueue(c) /\ call[c].job \in Job
           /\ \/ Becomes(call[c].job, "uploading", None) /\ Goes(c, "storing", call[c].attempts)
              \/ Broken(call[c].job, "uploading", None) /\ Goes(c, "failing", call[c].attempts)
<1> DEFINE j == call[c].job
<1>1. Types /\ Active(c) /\ InQueue(c)
  BY DEF Base, Types, CallsOK, CallOK, Take, At, Active
<1>2. j \in Job
  BY <1>1, ActiveIsKnown
<1>3. Kept /\ UNCHANGED <<total, known, cached, chunks, whole, merged, hook, copies>>
      /\ UNCHANGED storageVars
  BY DEF Take, cacheVars, fileVars, historyVars, Kept
<1>4. ServiceOK' /\ FilesOK'
  BY <1>1, <1>3, ServiceStays, FilesStay
<1>5. ASSUME NEW label \in {"storing", "failing"}, GoTo(c, label), mishaps \subseteq mishaps'
      PROVE  CallsOK' /\ Goes(c, label, call[c].attempts) /\ RunsStay
  <2>1. label \in Label /\ label \notin {"saving", "writing", "queued"} /\ label \in Uploading
    BY DEF Label, Uploading
  <2> QED BY <1>1, <1>3, <1>5, <2>1, GoesOn
<1>6. CASE WriteProgress(j) /\ GoTo(c, "storing") /\ UNCHANGED mishaps
  <2>1. JobsOK' /\ Becomes(j, "uploading", None)
    BY <1>1, <1>2, <1>3, <1>6, Progressing
  <2>2. Aside
    BY <1>3, <1>6 DEF Aside
  <2> QED BY <1>1, <1>2, <1>4, <1>5, <1>6, <2>1, <2>2, BaseStays
<1>7. CASE Breaks(j, WriteProgress(j)) /\ GoTo(c, "failing")
  <2>1. JobsOK' /\ Broken(j, "uploading", None)
    <3>1. Breaks(j, Update(j, "uploading", None))
      BY <1>7 DEF WriteProgress
    <3>2. None \in Job \cup {None} /\ "uploading" \in {"uploading", "done", "failed"}
      OBVIOUS
    <3> QED BY <1>1, <1>2, <1>3, <3>1, <3>2, Breaking
  <2>2. Aside /\ mishaps \subseteq mishaps'
    BY <1>3, <2>1 DEF Aside, Broken, Befalls
  <2> QED BY <1>1, <1>2, <1>4, <1>5, <1>7, <2>1, <2>2, BaseStays
<1> QED BY <1>6, <1>7 DEF Take

\* The provider has c's file once more, and its webhook may come.
HasCopy(c) ==
    /\ copies' = [copies EXCEPT ![call[c].job] = @ + 1]
    /\ UNCHANGED hook \/ hook' = [hook EXCEPT ![call[c].job] = "ok"]

\* The provider has the bytes of o's file, and nobody else's have changed.
Holds(o, whose) == Keeps(o) /\ Shows(o)' = whose

LEMMA StoreStep ==
    ASSUME Base, NEW c \in Call, Store(c), UNCHANGED serviceVars,
           NEW j, j = call[c].job, NEW file, file = merged[call[c].path]
    PROVE  /\ Base' /\ Active(c) /\ j \in Job /\ mishaps \subseteq mishaps'
           /\ file # None
           /\ \/ /\ Goes(c, "tidying", call[c].attempts) /\ HasCopy(c)
                 /\ "same ms" \notin mishaps' => Holds(j, file)
              \/ /\ Goes(c, "failing", call[c].attempts) /\ HasCopy(c) /\ "lost" \in mishaps'
                 /\ Holds(j, file)
              \/ /\ Goes(c, "failing", call[c].attempts) /\ UNCHANGED <<copies, hook>>
                 /\ SameFiles
<1>1. Types /\ Active(c) /\ StorageOK /\ NamesAreDistinct
  BY DEF Base, Types, Store, At, Active
<1>2. j \in Job /\ j \in known /\ j \in Owner /\ call[c].path \in Call /\ file \in Content /\ file # None
  <2>1. j \in Job /\ j \in known /\ j \in Owner /\ call[c].path \in Call
    BY <1>1, ActiveIsKnown
  <2>2. file \in Content \cup {None} /\ file # None
    BY <1>1, <2>1 DEF Types, FilesOK, Store
  <2> QED BY <2>1, <2>2
<1>3. Kept /\ UNCHANGED <<total, known, cached, chunks, whole, merged, status, url>>
  BY DEF Store, cacheVars, fileVars, jobVars, Kept
<1>4. JobsOK' /\ ServiceOK'
  BY <1>1, <1>3, JobsStay, ServiceStays
<1>5. ASSUME NEW label \in {"tidying", "failing"}, GoTo(c, label), mishaps \subseteq mishaps'
      PROVE  CallsOK' /\ Goes(c, label, call[c].attempts) /\ RunsStay
  <2>1. label \in Label /\ label \notin {"saving", "writing", "queued"} /\ label \in Uploading
    BY DEF Label, Uploading
  <2> QED BY <1>1, <1>3, <1>5, <2>1, GoesOn
<1> DEFINE Files == UNCHANGED <<copies, hook>> \/ HasCopy(c)
<1>6. ASSUME Files PROVE FilesOK'
  <2>1. FilesOK
    BY <1>1 DEF Types
  <2>2. /\ copies' \in [Job -> Nat] /\ hook' \in [Job -> {"ok", "failed", None}]
        /\ \A x \in Job \ known : hook'[x] # "ok"
    <3>1. CASE UNCHANGED <<copies, hook>>
      BY <2>1, <3>1 DEF FilesOK
    <3>2. CASE HasCopy(c)
      <4>1. copies' \in [Job -> Nat]
        BY <1>2, <2>1, <3>2 DEF FilesOK, HasCopy
      <4>2. hook' \in [Job -> {"ok", "failed", None}] /\ \A x \in Job \ known : hook'[x] # "ok"
        BY <1>2, <2>1, <3>2 DEF FilesOK, HasCopy
      <4> QED BY <4>1, <4>2
    <3> QED BY <1>6, <3>1, <3>2
  <2> QED BY <1>3, <2>1, <2>2 DEF FilesOK, Index
<1>7. ASSUME CountCopy(c) PROVE HasCopy(c)
  BY <1>7 DEF CountCopy, HasCopy
<1>8. CASE Stores(j, file) /\ CountCopy(c) /\ GoTo(c, "tidying")
  <2>1. /\ StorageOK' /\ NamesAreDistinct' /\ mishaps \subseteq mishaps'
        /\ "same ms" \notin mishaps' => Keeps(j) /\ Shows(j)' = file
    BY <1>1, <1>2, <1>8, StoresKeepsFiles
  <2>2. CallsOK' /\ Goes(c, "tidying", call[c].attempts) /\ RunsStay /\ HasCopy(c) /\ FilesOK'
    BY <1>5, <1>6, <1>7, <1>8, <2>1
  <2>3. Base'
    BY <1>4, <2>1, <2>2 DEF Base, Types, RunsStay
  <2> QED BY <1>1, <1>2, <2>1, <2>2, <2>3 DEF Holds
<1>9. CASE Rejects(j, file) /\ GoTo(c, "failing")
           /\ IF "lost" \in mishaps' \ mishaps THEN CountCopy(c) ELSE UNCHANGED <<copies, hook>>
  <2>1. /\ StorageOK' /\ NamesAreDistinct' /\ Keeps(j) /\ mishaps \subseteq mishaps'
        /\ \/ "lost" \notin mishaps' \ mishaps /\ Shows(j)' = Shows(j)
           \/ "lost" \in mishaps' \ mishaps /\ Shows(j)' = file
    BY <1>1, <1>2, <1>9, RejectsKeepsFiles
  <2>2. CallsOK' /\ Goes(c, "failing", call[c].attempts) /\ RunsStay
    BY <1>5, <1>9, <2>1
  <2>3. \/ HasCopy(c) /\ Holds(j, file) /\ "lost" \in mishaps'
        \/ UNCHANGED <<copies, hook>> /\ SameFiles
    BY <1>7, <1>9, <2>1 DEF Holds, SameFiles, Keeps
  <2>4. FilesOK'
    BY <1>6, <2>3
  <2>5. Base'
    BY <1>4, <2>1, <2>2, <2>4 DEF Base, Types, RunsStay
  <2> QED BY <1>1, <1>2, <2>1, <2>2, <2>3, <2>5
<1> QED BY <1>8, <1>9 DEF Store

LEMMA StoreNothingStep ==
    ASSUME Base, NEW c \in Call, StoreNothing(c), UNCHANGED serviceVars
    PROVE  /\ Base' /\ Aside /\ Active(c) /\ call[c].job \in Job
           /\ Goes(c, "failing", call[c].attempts) /\ merged[call[c].path] = None
<1>1. Types /\ Active(c)
  BY DEF Base, Types, StoreNothing, At, Active
<1>2. /\ Kept /\ UNCHANGED <<total, known, cached, chunks, whole, merged, hook, copies, status, url>>
      /\ Aside /\ GoTo(c, "failing") /\ mishaps \subseteq mishaps'
  BY DEF StoreNothing, cacheVars, fileVars, historyVars, jobVars, Aside, Kept
<1>3. CallsOK' /\ Goes(c, "failing", call[c].attempts) /\ RunsStay
  <2>1. "failing" \in Label /\ "failing" \in Uploading
    BY DEF Label, Uploading
  <2> QED BY <1>1, <1>2, <2>1, GoesOn
<1>4. JobsOK' /\ ServiceOK' /\ FilesOK'
  BY <1>1, <1>2, JobsStay, ServiceStays, FilesStay
<1>5. call[c].job \in Job
  BY <1>1, ActiveIsKnown
<1> QED BY <1>1, <1>2, <1>3, <1>4, <1>5, BaseStays DEF StoreNothing

\* What is left of the files when c has deleted its own.
Deletes(c) ==
    /\ merged' = [merged EXCEPT ![call[c].path] = None]
    /\ \/ InQueue(c) /\ UNCHANGED <<chunks, whole>>
       \/ ~InQueue(c) /\ CleanChunks(call[c].job)

LEMMA Deleting ==
    ASSUME Types, NEW c \in Call, Active(c), Unlink(c), UNCHANGED <<hook, copies, total, known>>
    PROVE  FilesOK' /\ Deletes(c)
<1>1. FilesOK /\ call[c].path \in Call /\ call[c].job \in Job
  BY ActiveIsKnown DEF Types
<1>2. Deletes(c)
  BY DEF Unlink, Deletes
<1>3. merged' \in [Call -> Content \cup {None}]
  BY <1>1, <1>2 DEF FilesOK, Deletes
<1>4. /\ chunks' \in [Job -> SUBSET Nat] /\ whole' \in [Job -> SUBSET Nat]
      /\ \A x \in Job : \/ chunks'[x] = chunks[x] /\ whole'[x] = whole[x]
                        \/ chunks'[x] = {} /\ whole'[x] = {}
  <2>1. CASE UNCHANGED <<chunks, whole>>
    BY <1>1, <2>1 DEF FilesOK
  <2>2. CASE CleanChunks(call[c].job)
    BY <1>1, <2>2, Cleaning
  <2> QED BY <1>2, <2>1, <2>2 DEF Deletes
<1>5. ASSUME NEW x \in Job
      PROVE  /\ chunks'[x] \subseteq Index(x) /\ whole'[x] \subseteq chunks'[x]
             /\ x \notin known => chunks'[x] = {}
  BY <1>1, <1>4 DEF FilesOK
<1> QED BY <1>1, <1>2, <1>3, <1>4, <1>5 DEF FilesOK, Index

LEMMA TidyStep ==
    ASSUME Base, NEW c \in Call, Tidy(c), UNCHANGED serviceVars
    PROVE  /\ Base' /\ Aside /\ Active(c) /\ Deletes(c) /\ call[c].job \in Job
           /\ \/ /\ Goes(c, "completing", call[c].attempts)
                 /\ cached' = call[c].job \/ cached' = cached
              \/ Goes(c, "failing", call[c].attempts) /\ UNCHANGED cached /\ "cache" \in mishaps'
<1> DEFINE j == call[c].job
<1>1. Types /\ Active(c)
  BY DEF Base, Types, Tidy, At, Active
<1>2. j \in Job
  BY <1>1, ActiveIsKnown
<1>3. Kept /\ UNCHANGED <<total, known, disturbed, crowded, torn, hook, copies, status, url>>
      /\ UNCHANGED storageVars /\ Unlink(c)
  BY DEF Tidy, historyVars, jobVars, Kept
<1>4. FilesOK' /\ Deletes(c) /\ ServiceOK'
  BY <1>1, <1>3, Deleting, ServiceStays
<1>5. ASSUME NEW label \in {"completing", "failing"}, GoTo(c, label), mishaps \subseteq mishaps'
      PROVE  CallsOK' /\ Goes(c, label, call[c].attempts) /\ RunsStay
  <2>1. label \in Label /\ label \notin {"saving", "writing", "queued"} /\ label \in Uploading
    BY DEF Label, Uploading
  <2> QED BY <1>1, <1>3, <1>5, <2>1, GoesOn
<1>6. ASSUME cached' = j \/ cached' = cached PROVE JobsOK'
  BY <1>1, <1>2, <1>3, <1>6 DEF Types, JobsOK
<1>7. CASE /\ GoTo(c, "completing") /\ UNCHANGED mishaps
           /\ cached' = IF j \in SameFile /\ (InQueue(c) => backend = "redis") THEN j ELSE cached
  <2>1. cached' = j \/ cached' = cached
    BY <1>7
  <2>2. Aside
    BY <1>3, <1>7 DEF Aside
  <2> QED BY <1>1, <1>2, <1>4, <1>5, <1>6, <1>7, <2>1, <2>2, BaseStays
<1>8. CASE Befalls("cache") /\ GoTo(c, "failing") /\ UNCHANGED cached
  <2>1. Aside /\ "cache" \in mishaps' /\ mishaps \subseteq mishaps'
    BY <1>3, <1>8 DEF Aside, Mishap, Befalls
  <2> QED BY <1>1, <1>2, <1>4, <1>5, <1>6, <1>8, <2>1, BaseStays
<1> QED BY <1>7, <1>8 DEF Tidy

LEMMA CompleteStep ==
    ASSUME Base, NEW c \in Call, Complete(c), UNCHANGED serviceVars
    PROVE  /\ Base' /\ Aside /\ Active(c) /\ call[c].job \in Job
           /\ \/ Becomes(call[c].job, "done", call[c].job) /\ Leaves(c)
              \/ Broken(call[c].job, "done", call[c].job) /\ Goes(c, "failing", call[c].attempts)
<1> DEFINE j == call[c].job
<1>1. Types /\ Active(c)
  BY DEF Base, Types, Complete, At, Active
<1>2. j \in Job
  BY <1>1, ActiveIsKnown
<1>3. Kept /\ UNCHANGED <<total, known, crowded, cached, chunks, whole, merged, hook, copies>>
      /\ UNCHANGED storageVars
  BY DEF Complete, cacheVars, fileVars, historyVars, Kept
<1>4. ServiceOK' /\ FilesOK'
  BY <1>1, <1>3, ServiceStays, FilesStay
<1>5. CASE WriteCompleted(j) /\ End(c) /\ UNCHANGED mishaps
  <2>1. JobsOK' /\ Becomes(j, "done", j)
    BY <1>1, <1>2, <1>3, <1>5, Completing
  <2>2. CallsOK' /\ Leaves(c) /\ RunsStay
    BY <1>1, <1>3, <1>5, Ends
  <2>3. Aside
    BY <1>3, <1>5 DEF Aside
  <2> QED BY <1>1, <1>2, <1>4, <2>1, <2>2, <2>3, BaseStays
<1>6. CASE Breaks(j, WriteCompleted(j)) /\ GoTo(c, "failing")
  <2>1. JobsOK' /\ Broken(j, "done", j)
    <3>1. Breaks(j, Update(j, "done", j))
      BY <1>6 DEF WriteCompleted
    <3>2. j \in Job \cup {None} /\ "done" \in {"uploading", "done", "failed"} /\ j # None
      BY <1>2, ChunkAssumption DEF Owner
    <3> QED BY <1>1, <1>2, <1>3, <3>1, <3>2, Breaking
  <2>2. Aside /\ mishaps \subseteq mishaps'
    BY <1>3, <2>1 DEF Aside, Broken, Befalls
  <2>3. CallsOK' /\ Goes(c, "failing", call[c].attempts) /\ RunsStay
    <3>1. "failing" \in Label /\ "failing" \in Uploading
      BY DEF Label, Uploading
    <3> QED BY <1>1, <1>3, <1>6, <2>2, <3>1, GoesOn
  <2> QED BY <1>1, <1>2, <1>4, <2>1, <2>2, <2>3, BaseStays
<1> QED BY <1>5, <1>6 DEF Complete

LEMMA FailStep ==
    ASSUME Base, NEW c \in Call, Fail(c), UNCHANGED serviceVars
    PROVE  /\ Base' /\ Aside /\ Active(c) /\ Deletes(c) /\ call[c].job \in Job
           /\ Becomes(call[c].job, "failed", None) \/ Broken(call[c].job, "failed", None)
           /\ Leaves(c) \/ (InQueue(c) /\ Goes(c, "queued", call[c].attempts + 1))
<1> DEFINE j == call[c].job
<1>1. Types /\ Active(c)
  BY DEF Base, Types, Fail, At, Active
<1>2. j \in Job /\ call[c].attempts \in -1 .. MaxAttempts - 1
  BY <1>1, ActiveIsKnown
<1>3. Kept /\ UNCHANGED <<total, known, crowded, cached, hook, copies>> /\ UNCHANGED storageVars
      /\ Unlink(c)
  BY DEF Fail, cacheVars, historyVars, Kept
<1>4. ServiceOK' /\ FilesOK' /\ Deletes(c)
  BY <1>1, <1>3, ServiceStays, Deleting
<1>5. /\ JobsOK' /\ Aside /\ mishaps \subseteq mishaps'
      /\ Becomes(j, "failed", None) \/ Broken(j, "failed", None)
  <2>1. CASE WriteFailed(j) /\ UNCHANGED mishaps
    BY <1>1, <1>2, <1>3, <2>1, Failing DEF Aside
  <2>2. CASE Breaks(j, WriteFailed(j))
    <3>1. Breaks(j, Update(j, "failed", None))
      BY <2>2 DEF WriteFailed
    <3>2. None \in Job \cup {None} /\ "failed" \in {"uploading", "done", "failed"}
      OBVIOUS
    <3>3. JobsOK' /\ Broken(j, "failed", None)
      BY <1>1, <1>2, <1>3, <3>1, <3>2, Breaking
    <3> QED BY <1>3, <3>3 DEF Broken, Aside, Befalls
  <2> QED BY <2>1, <2>2 DEF Fail, TellFailure
<1>6. CASE End(c)
  <2>1. CallsOK' /\ Leaves(c) /\ RunsStay
    BY <1>1, <1>3, <1>5, <1>6, Ends
  <2> QED BY <1>1, <1>2, <1>4, <1>5, <2>1, BaseStays
<1>7. CASE /\ InQueue(c) /\ call[c].attempts + 1 < MaxAttempts
           /\ call' = [call EXCEPT ![c].at = "queued", ![c].attempts = @ + 1]
  <2> DEFINE n == call[c].attempts + 1
  <2>1. call' = [call EXCEPT ![c].at = "queued", ![c].attempts = n]
    BY <1>7
  <2>2. n \in 0 .. MaxAttempts - 1 /\ n \in Int
    BY <1>2, <1>7, ChunkAssumption DEF InQueue
  <2> HIDE DEF n
  <2>3. CallsOK' /\ Goes(c, "queued", n)
    BY <1>1, <1>3, <2>1, <2>2, Queueing
  <2>4. RunsStay
    BY <1>1, <1>3, <1>5, <2>2, <2>3, RunsGoOn
  <2>5. Goes(c, "queued", call[c].attempts + 1)
    BY <2>3 DEF n
  <2> QED BY <1>1, <1>2, <1>4, <1>5, <1>7, <2>3, <2>4, <2>5, BaseStays
<1> QED BY <1>6, <1>7 DEF Fail, Retry

-----------------------------------------------------------------------------

LEMMA CallsStay ==
    ASSUME Types, UNCHANGED <<call, total>>, known \subseteq known'
    PROVE  CallsOK'
<1>1. ASSUME NEW c \in Call PROVE CallOK(c)'
  BY DEF Types, CallsOK, CallOK, Active, At, InQueue, Index
<1> QED BY <1>1 DEF Types, CallsOK

LEMMA InitiateStep ==
    ASSUME Base, NEW j \in Job, Initiate(j), UNCHANGED serviceVars
    PROVE  /\ Base' /\ Aside /\ UNCHANGED mishaps /\ j \notin known /\ known' = known \cup {j}
           /\ \A x \in Job \ {j} : status'[x] = status[x] /\ url'[x] = url[x]
           /\ UNCHANGED <<call, chunks, hook, cached>>
           /\ \/ status'[j] = "pending" /\ url'[j] = None
              \/ status'[j] = "done" /\ url'[j] = cached /\ cached # None
<1>1. Types /\ JobsOK /\ FilesOK
  BY DEF Base, Types
<1>2. /\ UNCHANGED <<total, cached, disturbed, crowded, torn, chunks, whole, merged, call, hook, copies, mishaps>>
      /\ Aside /\ j \notin known /\ known' = known \cup {j}
      /\ url' = [url EXCEPT ![j] = IF j \in SameFile THEN cached ELSE None]
      /\ status' = [status EXCEPT ![j] = IF url'[j] # None THEN "done" ELSE "pending"]
  BY DEF Initiate, fileVars, historyVars, Aside
<1>3. url' \in [Job -> Job \cup {None}] /\ url'[j] \in {cached, None}
      /\ \A x \in Job \ {j} : url'[x] = url[x]
  BY <1>1, <1>2 DEF JobsOK
<1>4. /\ status' \in [Job -> {"pending", "uploading", "done", "failed", None}]
      /\ status'[j] = IF url'[j] # None THEN "done" ELSE "pending"
      /\ \A x \in Job \ {j} : status'[x] = status[x]
  BY <1>1, <1>2 DEF JobsOK
<1>5. JobsOK'
  BY <1>1, <1>2, <1>3, <1>4 DEF JobsOK
<1>6. FilesOK'
  BY <1>1, <1>2 DEF FilesOK, Index
<1>7. CallsOK' /\ RunsStay /\ ServiceOK'
  BY <1>1, <1>2, CallsStay, RunsRest, ServiceStays
<1>8. Base'
  BY <1>2, <1>5, <1>6, <1>7, BaseStays
<1> QED BY <1>2, <1>3, <1>4, <1>8

LEMMA TranscodeStep ==
    ASSUME Base, NEW j \in Job, Transcode(j), UNCHANGED serviceVars
    PROVE  Base' /\ Aside /\ hook' = [hook EXCEPT ![j] = "failed"] /\ "transcode" \in mishaps'
<1>1. Types /\ FilesOK
  BY DEF Base, Types
<1>2. /\ Kept /\ UNCHANGED <<total, known, crowded, cached, chunks, whole, merged, call, copies, status, url>>
      /\ hook' = [hook EXCEPT ![j] = "failed"] /\ "transcode" \in mishaps' /\ mishaps \subseteq mishaps'
      /\ Aside
  BY DEF Transcode, cacheVars, fileVars, historyVars, jobVars, Aside, Mishap, Befalls, Kept
<1>3. FilesOK'
  BY <1>1, <1>2 DEF FilesOK, Index
<1>4. CallsOK' /\ RunsStay /\ ServiceOK' /\ JobsOK'
  BY <1>1, <1>2, CallsStay, RunsRest, ServiceStays, JobsStay
<1> QED BY <1>2, <1>3, <1>4, BaseStays

\* What the webhook does to j: its verdict is stored, or that fails and it may come again.
Tells(j, to, owner) ==
    \/ Becomes(j, to, owner) /\ hook' = [hook EXCEPT ![j] = None]
    \/ Broken(j, to, owner) /\ (UNCHANGED hook \/ hook' = [hook EXCEPT ![j] = None])

LEMMA WebhookStep ==
    ASSUME Base, NEW j \in Job, Webhook(j), UNCHANGED serviceVars
    PROVE  /\ Base' /\ Aside
           /\ \/ hook[j] = "ok" /\ Tells(j, "done", j)
              \/ hook[j] = "failed" /\ Tells(j, "failed", None)
<1>1. Types /\ FilesOK /\ hook[j] \in {"ok", "failed"}
  BY DEF Base, Types, FilesOK, Webhook
<1>2. Kept /\ UNCHANGED <<total, known, crowded, cached, chunks, whole, merged, call, copies>>
      /\ UNCHANGED storageVars /\ (UNCHANGED hook \/ hook' = [hook EXCEPT ![j] = None])
  BY DEF Webhook, cacheVars, fileVars, historyVars, Kept
<1>3. \/ hook[j] = "ok" /\ Webhook(j) /\ WriteCompleted(j) /\ UNCHANGED mishaps
      \/ hook[j] = "failed" /\ Webhook(j) /\ WriteFailed(j) /\ UNCHANGED mishaps
      \/ hook[j] = "ok" /\ Breaks(j, Update(j, "done", j))
      \/ hook[j] = "failed" /\ Breaks(j, Update(j, "failed", None))
  BY <1>1 DEF Webhook, WriteCompleted, WriteFailed
<1>4. /\ JobsOK' /\ Aside /\ mishaps \subseteq mishaps'
      /\ \/ hook[j] = "ok" /\ Tells(j, "done", j)
         \/ hook[j] = "failed" /\ Tells(j, "failed", None)
  <2>1. CASE WriteCompleted(j) /\ UNCHANGED mishaps /\ hook[j] = "ok" /\ hook' = [hook EXCEPT ![j] = None]
    BY <1>1, <1>2, <2>1, Completing DEF Tells, Aside
  <2>2. CASE WriteFailed(j) /\ UNCHANGED mishaps /\ hook[j] = "failed" /\ hook' = [hook EXCEPT ![j] = None]
    BY <1>1, <1>2, <2>2, Failing DEF Tells, Aside
  <2>3. CASE hook[j] = "ok" /\ Breaks(j, Update(j, "done", j))
    <3>1. j \in Job \cup {None} /\ "done" \in {"uploading", "done", "failed"} /\ j # None
      BY ChunkAssumption DEF Owner
    <3>2. JobsOK' /\ Broken(j, "done", j)
      BY <1>1, <1>2, <2>3, <3>1, Breaking
    <3> QED BY <1>2, <2>3, <3>2 DEF Tells, Broken, Aside, Befalls
  <2>4. CASE hook[j] = "failed" /\ Breaks(j, Update(j, "failed", None))
    <3>1. None \in Job \cup {None} /\ "failed" \in {"uploading", "done", "failed"}
      OBVIOUS
    <3>2. JobsOK' /\ Broken(j, "failed", None)
      BY <1>1, <1>2, <2>4, <3>1, Breaking
    <3> QED BY <1>2, <2>4, <3>2 DEF Tells, Broken, Aside, Befalls
  <2> QED BY <1>1, <2>1, <2>2, <2>3, <2>4 DEF Webhook, WriteCompleted, WriteFailed
<1>5. FilesOK'
  <2>1. hook' \in [Job -> {"ok", "failed", None}] /\ \A x \in Job : hook'[x] \in {hook[x], None}
    BY <1>1, <1>2 DEF FilesOK
  <2>2. None # "ok"
    BY ChunkAssumption
  <2> QED BY <1>1, <1>2, <2>1, <2>2 DEF FilesOK, Index
<1>6. CallsOK' /\ RunsStay /\ ServiceOK'
  BY <1>1, <1>2, <1>4, CallsStay, RunsRest, ServiceStays
<1>7. Base'
  BY <1>4, <1>5, <1>6, BaseStays
<1> QED BY <1>4, <1>7

LEMMA ExpireStep ==
    ASSUME Base, NEW j \in Job, Expire(j), UNCHANGED serviceVars
    PROVE  /\ Base' /\ Aside /\ "expired" \in mishaps'
           /\ \A x \in Job : \/ status'[x] = None
                             \/ status'[x] = status[x] /\ url'[x] = url[x]
<1>1. Types /\ JobsOK
  BY DEF Base, Types
<1>2. /\ Kept /\ UNCHANGED <<total, known, crowded, cached, chunks, whole, merged, call, hook, copies>>
      /\ status' = [status EXCEPT ![j] = None] /\ url' = [url EXCEPT ![j] = None]
      /\ "expired" \in mishaps' /\ mishaps \subseteq mishaps' /\ Aside
  BY DEF Expire, cacheVars, fileVars, historyVars, Aside, Mishap, Befalls, Kept
<1>3. JobsOK'
  <2>1. /\ status' \in [Job -> {"pending", "uploading", "done", "failed", None}]
        /\ url' \in [Job -> Job \cup {None}]
    BY <1>1, <1>2 DEF JobsOK
  <2>2. None # "done"
    BY ChunkAssumption
  <2>3. \A x \in Job : status'[x] = "done" <=> url'[x] # None
    BY <1>1, <1>2, <2>2 DEF JobsOK
  <2> QED BY <1>1, <1>2, <2>1, <2>3 DEF JobsOK, Kept
<1>4. CallsOK' /\ RunsStay /\ ServiceOK' /\ FilesOK'
  BY <1>1, <1>2, CallsStay, RunsRest, ServiceStays, FilesStay
<1>5. Base'
  BY <1>2, <1>3, <1>4, BaseStays
<1>6. \A x \in Job : status'[x] = None \/ (status'[x] = status[x] /\ url'[x] = url[x])
  BY <1>1, <1>2 DEF JobsOK
<1> QED BY <1>2, <1>5, <1>6

\* c is a new request for j.
Begins(c, j) ==
    /\ At(c, "idle") /\ ~InQueue(c)
    /\ call'[c].at = "saving" /\ call'[c].job = j /\ call'[c].path = call[c].path
    /\ call'[c].attempts = call[c].attempts /\ Others(c)

\* It is counted with what its client did before.
Notes(c, j, i) ==
    /\ disturbed' = IF Disturbs(j, i) THEN disturbed \cup {j} ELSE disturbed
    /\ crowded' = IF Crowds(j) THEN crowded \cup {j} ELSE crowded
    /\ copies' = IF Crowds(j) THEN copies ELSE [copies EXCEPT ![j] = 0]

LEMMA IdleIsNobodysFirst ==
    ASSUME Base, "same path" \notin mishaps, NEW c \in Call, At(c, "idle")
    PROVE  call[c].path = c /\ ~InQueue(c) /\ \A d \in Call \ {c} : call[d].path # c
<1>1. ~InQueue(c)
  BY DEF Base, Types, CallsOK, CallOK, At, InQueue, Uploading
<1>2. call[c].path = c
  BY <1>1 DEF Base, PathsAreOwn, Repeats
<1>3. ASSUME NEW d \in Call \ {c}, call[d].path = c PROVE FALSE
  <2>1. Repeats(d)
    BY <1>3 DEF Base, PathsAreOwn
  <2> QED BY <1>1, <1>3, <2>1 DEF Repeats, At
<1> QED BY <1>1, <1>2, <1>3

\* A call that takes a slot which was idle leaves the others their files.
LEMMA PathsStayToo ==
    ASSUME Base, NEW c \in Call, At(c, "idle"), Others(c), mishaps \subseteq mishaps',
           "same path" \notin mishaps' => call'[c].path = c
    PROVE  PathsAreOwn'
<1> SUFFICES ASSUME "same path" \notin mishaps', NEW d \in Call, call'[d].path # d
             PROVE  Repeats(d)'
  BY DEF PathsAreOwn
<1>1. d # c /\ call'[d] = call[d] /\ "same path" \notin mishaps
  BY DEF Others
<1> DEFINE first == call[d].path
<1>2. Repeats(d) /\ first # c
  BY <1>1, IdleIsNobodysFirst DEF Base, PathsAreOwn
<1>3. first \in Call
  BY DEF Base, Types, CallsOK, CallType
<1>4. call'[first] = call[first]
  BY <1>2, <1>3 DEF Others
<1> QED BY <1>1, <1>2, <1>4 DEF Repeats, InQueue, At

LEMMA ReceiveStep ==
    ASSUME Base, NEW c \in Call, Receive(c), UNCHANGED serviceVars
    PROVE  /\ Base' /\ Aside /\ UNCHANGED mishaps
           /\ \E j \in Job, i \in Nat :
                 /\ j \in known /\ status[j] # None /\ Begins(c, j) /\ Notes(c, j, i)
<1>1. Types /\ JobsOK /\ At(c, "idle")
  BY DEF Base, Types, Receive, NextCall
<1>2. PICK j \in known : \E i \in Index(j) :
          /\ status[j] # None
          /\ call' = [call EXCEPT ![c].at = "saving", ![c].job = j, ![c].chunk = i]
          /\ Notes(c, j, i)
  BY DEF Receive, Notes
<1>3. PICK i \in Index(j) :
          /\ status[j] # None
          /\ call' = [call EXCEPT ![c].at = "saving", ![c].job = j, ![c].chunk = i]
          /\ Notes(c, j, i)
  BY <1>2
<1>4. j \in Job /\ i \in Nat /\ total[j] \in Nat
  BY <1>1 DEF JobsOK, Index
<1>5. UNCHANGED <<total, known, cached, chunks, whole, merged, hook, torn, status, url, mishaps>> /\ Aside
  BY DEF Receive, cacheVars, fileVars, jobVars, Aside
<1> DEFINE r == [call[c] EXCEPT !.at = "saving", !.job = j, !.chunk = i]
<1>6. call[c] \in CallType /\ call \in [Call -> CallType] /\ ~InQueue(c)
  BY <1>1 DEF Types, CallsOK, CallOK, At, InQueue, Uploading
<1>7. r \in CallType /\ r.at = "saving" /\ r.job = j /\ r.path = call[c].path
      /\ r.attempts = call[c].attempts /\ r.chunk = i
  BY <1>4, <1>6 DEF CallType, Label
<1>8. call' = [call EXCEPT ![c] = r]
  BY <1>3, <1>6 DEF CallType
<1> HIDE DEF r
<1>9. Begins(c, j) /\ call' \in [Call -> CallType] /\ call'[c].chunk = i
  BY <1>1, <1>6, <1>7, <1>8 DEF Begins, Others
<1>10. CallsOK'
  <2>1. CallOK(c)'
    BY <1>5, <1>6, <1>9 DEF CallOK, Begins, Active, At, InQueue, Index
  <2> QED BY <1>1, <1>5, <1>9, <2>1, OneCallMoves DEF Begins
<1>11. JobsOK'
  <2>1. Crowds(j) => Disturbs(j, i)
    BY DEF Disturbs
  <2>2. disturbed' \subseteq Job /\ crowded' \subseteq disturbed'
    BY <1>1, <1>3, <1>4, <2>1 DEF JobsOK, Notes
  <2> QED BY <1>1, <1>5, <2>2 DEF JobsOK
<1>12. FilesOK' /\ ServiceOK'
  <2>1. copies' \in [Job -> Nat]
    BY <1>1, <1>3, <1>4 DEF Types, FilesOK, Notes
  <2> QED BY <1>1, <1>5, <2>1, ServiceStays DEF Types, FilesOK, Index
<1>13. RunsStay
  <2>1. PathsAreOwn'
    BY <1>1, <1>5, <1>9, PathsStayToo, IdleIsNobodysFirst DEF Begins
  <2>2. RunsAreAlone'
    <3> SUFFICES ASSUME NEW d \in Call, NEW e \in Call, Active(d)', Active(e)', d # e,
                        call'[d].job = call'[e].job, call'[d].job \notin crowded'
                 PROVE  InQueue(d)' /\ InQueue(e)' /\ "stall" \in mishaps'
      BY DEF RunsAreAlone
    <3>1. \A x \in Call \ {c} : call'[x] = call[x] /\ (Active(x)' <=> Active(x)) /\ (InQueue(x)' <=> InQueue(x))
      BY <1>9 DEF Begins, Others, Active, InQueue
    <3>2. ASSUME NEW x \in Call \ {c}, Active(x), call[x].job = j PROVE j \in crowded'
      BY <1>3, <3>2 DEF Crowds, Notes
    <3>3. d # c /\ e # c
      BY <1>9, <3>1, <3>2 DEF Begins
    <3>4. crowded \subseteq crowded'
      BY <1>3 DEF Notes
    <3> QED BY <1>5, <3>1, <3>3, <3>4, RunsAreTwo
  <2> QED BY <2>1, <2>2 DEF RunsStay
<1>14. Base'
  BY <1>5, <1>10, <1>11, <1>12, <1>13, BaseStays
<1> QED BY <1>3, <1>4, <1>5, <1>9, <1>14

\* The task of c runs once more as d.
RunsTwice(c, d) ==
    /\ c # d /\ InQueue(c) /\ Active(c) /\ At(d, "idle")
    /\ \A x \in Call \ {c, d} : call'[x] = call[x]
    /\ call'[c].at = call[c].at /\ call'[c].job = call[c].job /\ call'[c].path = call[c].path
    /\ call'[c].attempts = call[c].attempts
    /\ call'[d].at = "queued" /\ call'[d].job = call[c].job /\ call'[d].path = call[c].path
    /\ call'[d].attempts = call[c].attempts

LEMMA StallStep ==
    ASSUME Base, NEW c \in Call, NEW d \in Call, Stall(c, d), UNCHANGED serviceVars
    PROVE  Base' /\ Aside /\ "stall" \in mishaps' /\ RunsTwice(c, d) /\ call[c].job \in Job
<1>1. /\ Types /\ At(d, "idle") /\ InQueue(c) /\ Active(c) /\ c # d
      /\ call[c].at \in Uploading /\ call[c].stalls = 0
  BY DEF Base, Types, Stall, NextCall, IsGivenAnew, Active, At, Uploading
<1>2. Kept /\ UNCHANGED <<total, known, crowded, cached, chunks, whole, merged, hook, copies, status, url>>
      /\ UNCHANGED storageVars /\ call' = [call EXCEPT ![c].lost = TRUE, ![d] = Anew(c)]
  BY DEF Stall, cacheVars, fileVars, historyVars, jobVars, Kept
<1>3. Aside /\ "stall" \in mishaps' /\ mishaps \subseteq mishaps'
  BY <1>2 DEF Stall, Aside, Mishap, Befalls
<1>4. call \in [Call -> CallType] /\ call[c] \in CallType /\ call[c].job \in Job
  BY <1>1, ActiveIsKnown DEF Types, CallsOK
<1> DEFINE r == [call[c] EXCEPT !.lost = TRUE]
<1>5. /\ r \in CallType /\ r.at = call[c].at /\ r.job = call[c].job /\ r.path = call[c].path
      /\ r.attempts = call[c].attempts /\ r.chunk = call[c].chunk
  BY <1>4 DEF CallType
<1>6. /\ Anew(c) \in CallType /\ Anew(c).at = "queued" /\ Anew(c).job = call[c].job
      /\ Anew(c).path = call[c].path /\ Anew(c).attempts = call[c].attempts
  <2>1. "queued" \in Label /\ 1 \in 0 .. 1
    BY DEF Label
  <2> HIDE DEF Label
  <2> QED BY <1>4, <2>1 DEF CallType, Anew
<1>7. call' = [call EXCEPT ![c] = r, ![d] = Anew(c)]
  BY <1>1, <1>2, <1>4 DEF CallType
<1> HIDE DEF r
<1>8. /\ call' \in [Call -> CallType] /\ call'[c] = r /\ call'[d] = Anew(c)
      /\ \A x \in Call \ {c, d} : call'[x] = call[x]
  BY <1>1, <1>4, <1>5, <1>6, <1>7
<1>9. RunsTwice(c, d)
  BY <1>1, <1>5, <1>6, <1>8 DEF RunsTwice
<1>10. CallsOK'
  <2>1. ASSUME NEW x \in Call PROVE CallOK(x)'
    <3>1. CallOK(x) /\ CallOK(c)
      BY <1>1 DEF Types, CallsOK
    <3>2. CASE x = d
      BY <1>1, <1>2, <1>9, <3>1, <3>2 DEF CallOK, RunsTwice, Active, At, InQueue
    <3>3. CASE x = c
      BY <1>1, <1>2, <1>5, <1>8, <3>1, <3>3 DEF CallOK, Active, At, InQueue, Index
    <3>4. CASE x \notin {c, d}
      BY <1>2, <1>8, <3>1, <3>4 DEF CallOK, Active, At, InQueue, Index
    <3> QED BY <3>2, <3>3, <3>4
  <2> QED BY <1>8, <2>1 DEF CallsOK
<1>11. RunsStay
  <2>1. PathsAreOwn'
    <3> SUFFICES ASSUME "same path" \notin mishaps', NEW x \in Call, call'[x].path # x
                 PROVE  Repeats(x)'
      BY DEF PathsAreOwn
    <3>1. "same path" \notin mishaps
      BY <1>3
    <3>2. ASSUME NEW y \in Call, Repeats(y), y # d, call[y].path # d PROVE Repeats(y)'
      <4> DEFINE first == call[y].path
      <4>1. call'[y].path = first /\ call'[y].job = call[y].job /\ call'[y].attempts = call[y].attempts
        BY <1>9, <3>2 DEF RunsTwice
      <4>2. first \in Call
        BY <1>4 DEF CallType
      <4>3. call'[first].at = call[first].at /\ call'[first].job = call[first].job
            /\ call'[first].attempts = call[first].attempts
        BY <1>9, <3>2, <4>2 DEF RunsTwice
      <4> QED BY <3>2, <4>1, <4>3 DEF Repeats, InQueue, At
    <3>3. \A y \in Call \ {d} : call[y].path # d
      BY <1>1, <3>1, IdleIsNobodysFirst
    <3>4. CASE x # d
      <4>1. call[x].path # x
        BY <1>9, <3>4 DEF RunsTwice
      <4> QED BY <3>1, <3>2, <3>3, <3>4, <4>1 DEF Base, PathsAreOwn
    <3>5. CASE x = d
      <4> DEFINE first == call[c].path
      <4>1. first \in Call /\ first # d
        BY <1>1, <1>4, <3>3 DEF CallType
      <4>2. At(first, "over") \/ (InQueue(first) /\ call[first].job = call[c].job)
        BY <1>1, <3>1 DEF Base, PathsAreOwn, Repeats
      <4>3. call'[first].at = call[first].at /\ call'[first].job = call[first].job
            /\ call'[first].attempts = call[first].attempts
        BY <1>9, <4>1 DEF RunsTwice
      <4> QED BY <1>1, <1>9, <3>5, <4>2, <4>3 DEF Repeats, RunsTwice, InQueue, At
    <3> QED BY <3>4, <3>5
  <2>2. RunsAreAlone'
    <3> SUFFICES ASSUME NEW x \in Call, NEW y \in Call, Active(x)', Active(y)', x # y,
                        call'[x].job = call'[y].job, call'[x].job \notin crowded'
                 PROVE  InQueue(x)' /\ InQueue(y)' /\ "stall" \in mishaps'
      BY DEF RunsAreAlone
    <3>1. ASSUME NEW z \in Call \ {d}
          PROVE  call'[z].job = call[z].job /\ (Active(z)' <=> Active(z)) /\ (InQueue(z)' <=> InQueue(z))
      BY <1>9 DEF RunsTwice, Active, InQueue
    <3>2. InQueue(d)' /\ call'[d].job = call[c].job
      BY <1>1, <1>9 DEF RunsTwice, InQueue
    <3>3. ASSUME NEW z \in Call \ {d}, Active(z), call[z].job = call[c].job, call[c].job \notin crowded
          PROVE  InQueue(z)'
      <4>1. InQueue(z)
        <5>1. CASE z = c
          BY <1>1, <5>1
        <5>2. CASE z # c
          BY <1>1, <3>3, <5>2, RunsAreTwo
        <5> QED BY <5>1, <5>2
      <4> QED BY <3>1, <4>1
    <3>4. UNCHANGED crowded /\ "stall" \in mishaps'
      BY <1>2, <1>3
    <3>5. CASE x = d
      <4>1. y # d /\ Active(y) /\ call[y].job = call[c].job /\ call[c].job \notin crowded
        BY <3>1, <3>2, <3>4, <3>5
      <4> QED BY <3>2, <3>3, <3>4, <3>5, <4>1
    <3>6. CASE y = d
      <4>1. x # d /\ Active(x) /\ call[x].job = call[c].job /\ call[c].job \notin crowded
        BY <3>1, <3>2, <3>4, <3>6
      <4> QED BY <3>2, <3>3, <3>4, <3>6, <4>1
    <3>7. CASE x # d /\ y # d
      <4>1. Active(x) /\ Active(y) /\ call[x].job = call[y].job /\ call[x].job \notin crowded
        BY <3>1, <3>4, <3>7
      <4>2. InQueue(x) /\ InQueue(y)
        BY <4>1, RunsAreTwo
      <4> QED BY <3>1, <3>4, <3>7, <4>2
    <3> QED BY <3>5, <3>6, <3>7
  <2> QED BY <2>1, <2>2 DEF RunsStay
<1>12. JobsOK' /\ FilesOK' /\ ServiceOK'
  BY <1>1, <1>2, JobsStay, FilesStay, ServiceStays
<1> QED BY <1>3, <1>4, <1>9, <1>10, <1>11, <1>12, BaseStays

\* A direct upload changes no request, and nobody else's file unless a name is shared.
LEMMA UploadStep ==
    ASSUME Base, NEW d \in Direct, Upload(d), UNCHANGED chunkedVars
    PROVE  /\ Base' /\ mishaps \subseteq mishaps' /\ UNCHANGED deleted
           /\ mishaps' \subseteq mishaps \cup {"same ms", "refused", "lost", "observer"}
           /\ \A x \in Direct \ {d} : place'[x] = place[x]
           /\ place[d] = "idle" /\ place'[d] \in {"uploaded", "failed"}
           /\ "same ms" \notin mishaps' =>
                 Keeps(d) /\ (place'[d] = "uploaded" => Shows(d)' = {d})
<1>1. Types /\ StorageOK /\ NamesAreDistinct /\ ServiceOK /\ d \in Owner /\ {d} \in Content
  BY DEF Base, Types, Owner, Content
<1>2. Kept /\ UNCHANGED <<total, known, crowded, cached, chunks, whole, merged, call, hook, copies, status, url>>
  BY DEF chunkedVars, jobVars, cacheVars, fileVars, historyVars, Kept
<1>3. JobsOK' /\ FilesOK' /\ CallsOK'
  BY <1>1, <1>2, JobsStay, FilesStay, CallsStay
<1>4. ASSUME StorageOK', NamesAreDistinct', mishaps \subseteq mishaps',
             NEW outcome \in {"uploaded", "failed"}, Answer(d, outcome)
      PROVE  /\ Base' /\ UNCHANGED deleted
             /\ \A x \in Direct \ {d} : place'[x] = place[x]
             /\ place[d] = "idle" /\ place'[d] = outcome
  <2>1. place' = [place EXCEPT ![d] = outcome] /\ UNCHANGED deleted /\ place[d] = "idle"
    BY <1>4 DEF Upload, Answer
  <2>2. ServiceOK' /\ place'[d] = outcome /\ \A x \in Direct \ {d} : place'[x] = place[x]
    BY <1>1, <2>1 DEF ServiceOK
  <2>3. RunsStay
    BY <1>2, <1>4, RunsRest
  <2> QED BY <1>3, <1>4, <2>1, <2>2, <2>3 DEF Base, Types, RunsStay
<1>5. CASE Stores(d, {d}) /\ Answer(d, "uploaded")
  <2>1. /\ StorageOK' /\ NamesAreDistinct'
        /\ mishaps' = mishaps \/ mishaps' = mishaps \cup {"same ms"}
        /\ "same ms" \notin mishaps' => Keeps(d) /\ Shows(d)' = {d}
    BY <1>1, <1>5, StoresKeepsFiles
  <2> QED BY <1>4, <1>5, <2>1
<1>6. CASE Befalls("observer") /\ PutAs(d, FreshName(d), {d}) /\ Answer(d, "failed")
  <2>1. /\ StorageOK' /\ NamesAreDistinct' /\ mishaps' = mishaps \cup {"observer"}
        /\ Keeps(d) /\ Shows(d)' = {d}
    BY <1>1, <1>6, ObserverKeepsFiles
  <2> QED BY <1>4, <1>6, <2>1
<1>7. CASE Rejects(d, {d}) /\ Answer(d, "failed")
  <2>1. /\ StorageOK' /\ NamesAreDistinct' /\ Keeps(d)
        /\ \/ mishaps' = mishaps \cup {"refused"}
           \/ mishaps' = mishaps \cup {"lost"}
    BY <1>1, <1>7, RejectsKeepsFiles
  <2> QED BY <1>4, <1>7, <2>1
<1>8. CASE Answer(d, "failed") /\ UNCHANGED <<storageVars, mishaps>>
  <2>1. mishaps \subseteq mishaps' /\ mishaps' \subseteq Mishap
    BY <1>1, <1>8 DEF StorageOK
  <2>2. StorageOK' /\ NamesAreDistinct' /\ \A x \in Owner : Shows(x)' = Shows(x)
    BY <1>1, <1>8, <2>1, StorageStays
  <2>3. Keeps(d)
    BY <2>2 DEF Keeps
  <2> QED BY <1>4, <1>8, <2>1, <2>2, <2>3
<1> QED BY <1>5, <1>6, <1>7, <1>8 DEF Upload, Execute

LEMMA DeleteStep ==
    ASSUME Base, NEW o \in Owner, NEW k, NEW link, DeleteResource(o, k, link),
           UNCHANGED chunkedVars
    PROVE  /\ Base' /\ mishaps' = mishaps \cup {"deleted"} /\ deleted' = deleted \cup {o}
           /\ UNCHANGED place
           /\ "same ms" \notin mishaps => Keeps(o)
<1>1. Types /\ StorageOK /\ NamesAreDistinct /\ ServiceOK
  BY DEF Base, Types
<1>2. Kept /\ UNCHANGED <<total, known, crowded, cached, chunks, whole, merged, call, hook, copies, status, url>>
  BY DEF chunkedVars, jobVars, cacheVars, fileVars, historyVars, Kept
<1>3. JobsOK' /\ FilesOK' /\ CallsOK'
  BY <1>1, <1>2, JobsStay, FilesStay, CallsStay
<1>4. /\ bytes' = [bytes EXCEPT ![name[o]] = {}] /\ UNCHANGED <<provider, backend, name>>
      /\ mishaps' = mishaps \cup {"deleted"} /\ deleted' = deleted \cup {o} /\ UNCHANGED place
  BY DEF DeleteResource, Remove, Befalls
<1>5. StorageOK' /\ NamesAreDistinct' /\ ServiceOK' /\ RunsStay
  <2>1. bytes' \in [Owner -> Content] /\ mishaps' \subseteq Mishap
    BY <1>1, <1>4 DEF StorageOK, Mishap, Content
  <2>2. NamesAreDistinct'
    BY <1>1, <1>4 DEF NamesAreDistinct, Distinct
  <2>3. RunsStay
    BY <1>2, <1>4, RunsRest
  <2> QED BY <1>1, <1>4, <2>1, <2>2, <2>3 DEF StorageOK, ServiceOK
<1>6. ASSUME "same ms" \notin mishaps PROVE Keeps(o)
  <2>1. \A x \in Owner \ {o} : name[x] # name[o] /\ name[x] \in Owner
    BY <1>1, <1>6 DEF NamesAreDistinct, Distinct, StorageOK
  <2> QED BY <1>1, <1>4, <2>1 DEF Keeps, Shows, StorageOK
<1>7. Base'
  BY <1>3, <1>5 DEF Base, Types, RunsStay
<1> QED BY <1>4, <1>6, <1>7

\* What the death of the process leaves of c.
Survives(c) ==
    \/ call'[c].at \in {"idle", "over", "queued"} /\ call'[c] = call[c]
    \/ /\ InQueue(c) /\ Active(c) /\ call'[c].at = "queued" /\ call'[c].attempts = call[c].attempts
       /\ call'[c].job = call[c].job /\ call'[c].path = call[c].path
    \/ call'[c].at = "over" /\ call'[c].attempts = -1 /\ call'[c].job = None /\ call'[c].path = c

LEMMA SurvivorsRun ==
    ASSUME Base, \A c \in Call : Survives(c), mishaps \subseteq mishaps', UNCHANGED crowded
    PROVE  RunsStay
<1>1. ASSUME NEW c \in Call
      PROVE  \/ At(c, "over")' /\ call'[c].path = c
             \/ /\ call'[c].path = call[c].path /\ call'[c].job = call[c].job
                /\ call'[c].attempts = call[c].attempts /\ (Active(c)' => Active(c))
                /\ At(c, "over") => At(c, "over")'
  <2>1. Survives(c)
    OBVIOUS
  <2> QED BY <2>1 DEF Survives, Active, At
<1>2. PathsAreOwn'
  <2> SUFFICES ASSUME "same path" \notin mishaps', NEW c \in Call, call'[c].path # c
               PROVE  Repeats(c)'
    BY DEF PathsAreOwn
  <2>1. call'[c].path = call[c].path /\ call'[c].job = call[c].job
        /\ call'[c].attempts = call[c].attempts
    BY <1>1
  <2> DEFINE first == call[c].path
  <2>2. Repeats(c) /\ first \in Call
    BY <2>1 DEF Base, PathsAreOwn, Types, CallsOK, CallType
  <2>3. At(first, "over")' \/ (InQueue(first)' /\ call'[first].job = call[c].job)
    <3>1. \/ call'[first].at = "over"
          \/ /\ call'[first].job = call[first].job /\ call'[first].attempts = call[first].attempts
             /\ call[first].at = "over" => call'[first].at = "over"
      BY <1>1, <2>2 DEF At
    <3> QED BY <2>1, <2>2, <3>1 DEF Repeats, InQueue, At
  <2> QED BY <2>1, <2>2, <2>3 DEF Repeats, InQueue
<1>3. RunsAreAlone'
  <2> SUFFICES ASSUME NEW d \in Call, NEW e \in Call, Active(d)', Active(e)', d # e,
                      call'[d].job = call'[e].job, call'[d].job \notin crowded'
               PROVE  InQueue(d)' /\ InQueue(e)' /\ "stall" \in mishaps'
    BY DEF RunsAreAlone
  <2>1. ASSUME NEW x \in Call, Active(x)'
        PROVE  Active(x) /\ call'[x].job = call[x].job /\ (InQueue(x) => InQueue(x)')
    BY <1>1, <2>1 DEF Active, At, InQueue
  <2> QED BY <2>1, RunsAreTwo
<1> QED BY <1>2, <1>3 DEF RunsStay

LEMMA DieStep ==
    ASSUME Base, Die, mishaps' = mishaps \cup {"crash"}, UNCHANGED serviceVars
    PROVE  /\ Base' /\ SameFiles /\ \A c \in Call : Survives(c)
           /\ cached' = None \/ cached' = cached
           /\ \A j \in Job : status'[j] = None \/ (status'[j] = status[j] /\ url'[j] = url[j])
<1>1. Types /\ StorageOK /\ JobsOK /\ CallsOK /\ NamesAreDistinct
  BY DEF Base, Types
<1>2. /\ UNCHANGED <<total, known, disturbed, crowded, chunks, whole, merged, hook, copies>>
      /\ UNCHANGED storageVars
      /\ torn' = torn \cup {call[c].job : c \in {d \in Call : At(d, "writing")}}
      /\ call' = [c \in Call |-> Restarted(c)]
      /\ \/ /\ status' = [j \in Job |-> None] /\ url' = [j \in Job |-> None] /\ cached' = None
         \/ UNCHANGED <<status, url, cached>>
  BY DEF Die, fileVars, historyVars, jobVars
<1>3. mishaps \subseteq mishaps' /\ mishaps' \subseteq Mishap
  BY <1>1 DEF StorageOK, Mishap
<1>4. StorageOK' /\ NamesAreDistinct' /\ SameFiles
  BY <1>1, <1>2, <1>3, StorageStays DEF SameFiles
<1>5. ASSUME NEW c \in Call
      PROVE  call'[c] \in CallType /\ Survives(c) /\ CallOK(c)'
  <2>1. call[c] \in CallType /\ CallOK(c) /\ call'[c] = Restarted(c)
    BY <1>1, <1>2 DEF CallsOK
  <2>2. CASE call[c].at \in {"idle", "over", "queued"}
    <3>1. call'[c] = call[c]
      BY <2>1, <2>2 DEF Restarted
    <3> QED BY <1>2, <2>1, <2>2, <3>1 DEF Survives, CallOK, Active, At, InQueue, Index
  <2>3. CASE call[c].at \notin {"idle", "over", "queued"} /\ IsGivenAnew(c)
    <3> DEFINE r == [call[c] EXCEPT !.at = "queued", !.stalls = 1]
    <3>1. call'[c] = r
      BY <2>1, <2>3 DEF Restarted, Anew
    <3>2. r \in CallType /\ r.at = "queued" /\ r.attempts = call[c].attempts
          /\ r.job = call[c].job /\ r.path = call[c].path
      <4>1. "queued" \in Label /\ 1 \in 0 .. 1
        BY DEF Label
      <4> HIDE DEF Label
      <4> QED BY <2>1, <4>1 DEF CallType
    <3> HIDE DEF r
    <3>3. Survives(c) /\ InQueue(c)
      BY <2>3, <3>1, <3>2 DEF Survives, IsGivenAnew, Active
    <3>4. CallOK(c)'
      BY <1>2, <2>1, <2>3, <3>1, <3>2, <3>3 DEF CallOK, Active, At, InQueue
    <3> QED BY <3>1, <3>2, <3>3, <3>4
  <2>4. CASE call[c].at \notin {"idle", "over", "queued"} /\ ~IsGivenAnew(c)
    <3>1. call'[c] = Over(c)
      BY <2>1, <2>4 DEF Restarted
    <3>2. call'[c] \in CallType /\ call'[c].at = "over" /\ call'[c].attempts = -1
          /\ call'[c].job = None /\ call'[c].path = c
      BY <3>1, OverIsAtRest
    <3> QED BY <3>2 DEF Survives, CallOK, Active, At, InQueue
  <2> QED BY <2>2, <2>3, <2>4
<1>6. CallsOK'
  BY <1>2, <1>5 DEF CallsOK
<1>7. JobsOK' /\ \A j \in Job : status'[j] = None \/ (status'[j] = status[j] /\ url'[j] = url[j])
  <2>1. None # "done"
    BY ChunkAssumption
  <2>2. torn' \subseteq Job
    <3>1. ASSUME NEW c \in Call, At(c, "writing") PROVE call[c].job \in Job
      BY <1>1, <3>1, ActiveIsKnown DEF Active, At
    <3> QED BY <1>1, <1>2, <3>1 DEF JobsOK
  <2> QED BY <1>1, <1>2, <2>1, <2>2 DEF JobsOK
<1>8. FilesOK' /\ ServiceOK'
  BY <1>1, <1>2, FilesStay, ServiceStays
<1>9. RunsStay
  BY <1>2, <1>3, <1>5, SurvivorsRun
<1>10. cached' = None \/ cached' = cached
  BY <1>2
<1> QED BY <1>4, <1>5, <1>6, <1>7, <1>8, <1>9, <1>10 DEF Base, Types, RunsStay

-----------------------------------------------------------------------------
(* All steps *)

CallStep(c) ==
    \/ Receive(c) \/ Save(c) \/ Fill(c) \/ Cut(c) \/ List(c) \/ Note(c) \/ Merge(c) \/ Enqueue(c)
    \/ Take(c) \/ Store(c) \/ StoreNothing(c) \/ Tidy(c) \/ Complete(c) \/ Fail(c)

JobStep(j) == Initiate(j) \/ Transcode(j) \/ Webhook(j) \/ Expire(j)

\* Every step is one of these.
LEMMA Steps ==
    ASSUME Base, [Next]_vars
    PROVE  \/ \E c \in Call : CallStep(c) /\ UNCHANGED serviceVars
           \/ \E c, d \in Call : Stall(c, d) /\ UNCHANGED serviceVars
           \/ \E j \in Job : JobStep(j) /\ UNCHANGED serviceVars
           \/ Die /\ mishaps' = mishaps \cup {"crash"} /\ UNCHANGED serviceVars
           \/ \E d \in Direct : Upload(d) /\ UNCHANGED chunkedVars
           \/ \E o \in Owner : \E k, link : DeleteResource(o, k, link) /\ UNCHANGED chunkedVars
           \/ UNCHANGED vars
<1>1. CASE Chunked
  <2>1. CASE \E c \in Call : Receive(c) \/ Step(c)
    <3>1. PICK c \in Call : Receive(c) \/ Step(c)
      BY <2>1
    <3>2. CASE StoreNothingLocally(c)
      BY <1>1, <3>2 DEF StoreNothingLocally, Chunked
    <3> QED BY <1>1, <3>1, <3>2 DEF Step, Chunked, CallStep
  <2>2. CASE \E c, d \in Call : Stall(c, d)
    BY <1>1, <2>2 DEF Chunked
  <2>3. CASE Crash
    BY <1>1, <2>3 DEF Crash, Befalls, Chunked
  <2>4. CASE \E j \in Job : JobStep(j)
    BY <1>1, <2>4 DEF Chunked
  <2> QED BY <1>1, <2>1, <2>2, <2>3, <2>4 DEF Chunked, NextChunked, JobStep
<1>2. CASE Service
  <2>1. CASE \E d \in Direct : Upload(d)
    BY <1>2, <2>1 DEF Service
  <2>2. CASE \E o \in Answered : \E k \in Kind, link \in {"url", "cdnUrl"} : DeleteResource(o, k, link)
    <3>1. PICK o \in Answered, k \in Kind, link \in {"url", "cdnUrl"} : DeleteResource(o, k, link)
      BY <2>2
    <3>2. \A j \in Job : status[j] = "done" => url[j] \in Job
      BY DEF Base, Types, JobsOK
    <3>3. o \in Owner
      BY <3>2 DEF Answered, Owner
    <3> QED BY <1>2, <3>1, <3>3 DEF Service
  <2> QED BY <1>2, <2>1, <2>2 DEF Service
<1> QED BY <1>1, <1>2 DEF Next

LEMMA NothingChanges ==
    ASSUME UNCHANGED vars
    PROVE  /\ UNCHANGED <<provider, backend, name, bytes, mishaps>>
           /\ UNCHANGED <<status, url, total, known, cached, chunks, whole, merged, call, hook, copies>>
           /\ UNCHANGED <<disturbed, crowded, torn, place, deleted>>
BY DEF vars, storageVars, chunkedVars, jobVars, cacheVars, fileVars, historyVars, serviceVars

LEMMA BaseKeeps ==
    ASSUME Base, [Next]_vars
    PROVE  Base' /\ mishaps \subseteq mishaps'
<1>1. CASE \E c \in Call : CallStep(c) /\ ~Store(c) /\ UNCHANGED serviceVars
  <2>1. Base' /\ Aside
    BY <1>1, ReceiveStep, SaveStep, FillStep, CutStep, ListStep, NoteStep, MergeStep, EnqueueStep,
       TakeStep, StoreNothingStep, TidyStep, CompleteStep, FailStep DEF CallStep
  <2> QED BY <2>1, AsideIsAside
<1>2. CASE \E c \in Call : Store(c) /\ UNCHANGED serviceVars
  <2>1. PICK c \in Call : Store(c) /\ UNCHANGED serviceVars
    BY <1>2
  <2>2. PICK j, file : j = call[c].job /\ file = merged[call[c].path]
    OBVIOUS
  <2> QED BY <2>1, <2>2, StoreStep
<1>3. CASE \E j \in Job : JobStep(j) /\ UNCHANGED serviceVars
  <2>1. Base' /\ Aside
    BY <1>3, InitiateStep, TranscodeStep, WebhookStep, ExpireStep DEF JobStep
  <2> QED BY <2>1, AsideIsAside
<1>4. CASE Die /\ mishaps' = mishaps \cup {"crash"} /\ UNCHANGED serviceVars
  BY <1>4, DieStep
<1>5. CASE \E d \in Direct : Upload(d) /\ UNCHANGED chunkedVars
  BY <1>5, UploadStep
<1>6. CASE \E o \in Owner : \E k, link : DeleteResource(o, k, link) /\ UNCHANGED chunkedVars
  BY <1>6, DeleteStep
<1>7. CASE \E c, d \in Call : Stall(c, d) /\ UNCHANGED serviceVars
  <2>1. Base' /\ Aside
    BY <1>7, StallStep
  <2> QED BY <2>1, AsideIsAside
<1>8. CASE UNCHANGED vars
  <2>1. Base /\ mishaps \subseteq mishaps' /\ UNCHANGED <<total, known>>
    BY <1>8, NothingChanges
  <2>2. Kept /\ Types /\ UNCHANGED <<call, crowded>> /\ known \subseteq known'
    BY <1>8, NothingChanges DEF Kept, Base
  <2>3. JobsOK' /\ FilesOK' /\ CallsOK' /\ ServiceOK' /\ RunsStay /\ Aside
    BY <1>8, <2>1, <2>2, NothingChanges, JobsStay, FilesStay, CallsStay, ServiceStays, RunsRest
       DEF Aside, storageVars, serviceVars
  <2> QED BY <2>1, <2>3, BaseStays
<1> QED BY <1>1, <1>2, <1>3, <1>4, <1>5, <1>6, <1>7, <1>8, Steps

\* What is recorded of clients and of faults is not forgotten.
Remembers == disturbed \subseteq disturbed' /\ crowded \subseteq crowded' /\ torn \subseteq torn'

LEMMA HistoryIsKept ==
    ASSUME Base, [Next]_vars
    PROVE  Remembers
<1>1. ASSUME NEW c \in Call, CallStep(c) PROVE Remembers
  <2>1. CASE Save(c) \/ Fill(c) \/ List(c) \/ Note(c) \/ Merge(c) \/ Enqueue(c)
    BY <2>1 DEF Save, Fill, List, Note, Merge, Enqueue, historyVars, Remembers
  <2>2. CASE Take(c) \/ StoreNothing(c) \/ Tidy(c) \/ Complete(c) \/ Fail(c)
    BY <2>2 DEF Take, StoreNothing, Tidy, Complete, Fail, historyVars, Remembers
  <2>3. CASE Receive(c)
    BY <2>3 DEF Receive, Remembers
  <2>4. CASE Cut(c)
    BY <2>4 DEF Cut, Remembers
  <2>5. CASE Store(c)
    BY <2>5 DEF Store, Remembers
  <2> QED BY <1>1, <2>1, <2>2, <2>3, <2>4, <2>5 DEF CallStep
<1>2. CASE \E j \in Job : JobStep(j)
  BY <1>2 DEF JobStep, Initiate, Transcode, Webhook, Expire, historyVars, Remembers
<1>3. CASE Die \/ (\E c, d \in Call : Stall(c, d)) \/ UNCHANGED chunkedVars \/ UNCHANGED vars
  BY <1>3, NothingChanges DEF Die, Stall, historyVars, chunkedVars, Remembers
<1> QED BY <1>1, <1>2, <1>3, Steps

-----------------------------------------------------------------------------
(* Parts are whole *)

WritersStay == \A d \in Call : At(d, "writing") => call'[d] = call[d]

LEMMA WholeStays ==
    ASSUME Base, ChunksAreWhole, WritersStay, Remembers, UNCHANGED <<chunks, whole>>
    PROVE  ChunksAreWhole'
<1> SUFFICES ASSUME NEW j \in Job, Unharmed(j)', NEW i \in chunks[j] \ whole[j]
             PROVE  \E c \in Call : At(c, "writing")' /\ call'[c].job = j /\ call'[c].chunk = i
  BY DEF ChunksAreWhole
<1>1. Unharmed(j)
  BY DEF Unharmed, Remembers
<1>2. PICK c \in Call : At(c, "writing") /\ call[c].job = j /\ call[c].chunk = i
  BY <1>1 DEF ChunksAreWhole
<1> QED BY <1>2 DEF WritersStay, At

LEMMA WholeStaysClean ==
    ASSUME Base, ChunksAreWhole, WritersStay, Remembers, NEW j \in Job, CleanChunks(j)
    PROVE  ChunksAreWhole'
<1> SUFFICES ASSUME NEW x \in Job, Unharmed(x)', NEW i \in chunks'[x] \ whole'[x]
             PROVE  \E c \in Call : At(c, "writing")' /\ call'[c].job = x /\ call'[c].chunk = i
  BY DEF ChunksAreWhole
<1>1. Unharmed(x) /\ i \in chunks[x] \ whole[x]
  BY Cleaning DEF Unharmed, Remembers, Base, Types
<1>2. PICK c \in Call : At(c, "writing") /\ call[c].job = x /\ call[c].chunk = i
  BY <1>1 DEF ChunksAreWhole
<1> QED BY <1>2 DEF WritersStay, At

LEMMA SaveIsWhole ==
    ASSUME Base, ChunksAreWhole, NEW c \in Call, Save(c), UNCHANGED serviceVars
    PROVE  ChunksAreWhole'
<1>1. PICK j \in Job, i \in Nat : j = call[c].job /\ i = call[c].chunk
  BY SaveStep
<1>2. /\ Others(c) /\ At(c, "writing")' /\ call'[c].job = j /\ call'[c].chunk = i /\ At(c, "saving")
  BY <1>1, SaveStep DEF Goes, At, Save
<1>3. /\ chunks' = [chunks EXCEPT ![j] = @ \cup {i}]
      /\ whole' = [whole EXCEPT ![j] = @ \ {i}]
      /\ chunks \in [Job -> SUBSET Nat] /\ whole \in [Job -> SUBSET Nat]
      /\ UNCHANGED <<crowded, torn>>
  BY <1>1 DEF Save, historyVars, Base, Types, FilesOK
<1> SUFFICES ASSUME NEW x \in Job, Unharmed(x)', NEW k \in chunks'[x] \ whole'[x]
             PROVE  \E d \in Call : At(d, "writing")' /\ call'[d].job = x /\ call'[d].chunk = k
  BY DEF ChunksAreWhole
<1>4. CASE x = j /\ k = i
  BY <1>2, <1>4
<1>5. CASE ~(x = j /\ k = i)
  <2>1. k \in chunks[x] \ whole[x] /\ Unharmed(x)
    BY <1>3, <1>5 DEF Unharmed
  <2>2. PICK d \in Call : At(d, "writing") /\ call[d].job = x /\ call[d].chunk = k
    BY <2>1 DEF ChunksAreWhole
  <2> QED BY <1>2, <2>2 DEF At, Others
<1> QED BY <1>4, <1>5

LEMMA FillIsWhole ==
    ASSUME Base, ChunksAreWhole, NEW c \in Call, Fill(c), UNCHANGED serviceVars
    PROVE  ChunksAreWhole'
<1>1. PICK j \in Job, i \in Nat : j = call[c].job /\ i = call[c].chunk
  BY FillStep, ActiveIsKnown DEF Base
<1>2. /\ Others(c) /\ Active(c) /\ ~InQueue(c)
      /\ UNCHANGED <<chunks, crowded, torn>>
      /\ chunks \in [Job -> SUBSET Nat] /\ whole \in [Job -> SUBSET Nat]
      /\ \/ whole' = [whole EXCEPT ![j] = IF i \in chunks[j] THEN @ \cup {i} ELSE @]
         \/ Contended(c) /\ UNCHANGED whole
  BY <1>1, FillStep DEF Goes, Fill, historyVars, Base, Types, FilesOK
<1> SUFFICES ASSUME NEW x \in Job, Unharmed(x)', NEW k \in chunks'[x] \ whole'[x]
             PROVE  \E d \in Call : At(d, "writing")' /\ call'[d].job = x /\ call'[d].chunk = k
  BY DEF ChunksAreWhole
<1>3. Unharmed(x) /\ k \in chunks[x] \ whole[x]
  BY <1>2 DEF Unharmed
<1>4. PICK d \in Call : At(d, "writing") /\ call[d].job = x /\ call[d].chunk = k
  BY <1>3 DEF ChunksAreWhole
<1>5. CASE d # c
  BY <1>2, <1>4, <1>5 DEF At, Others
<1>6. CASE d = c
  <2>1. Contended(c)
    BY <1>1, <1>2, <1>3, <1>4, <1>6
  <2>2. PICK e \in Call \ {c} : At(e, "writing") /\ call[e].job = call[c].job
    BY <2>1 DEF Contended
  <2>3. InQueue(c)
    BY <1>2, <1>3, <1>4, <1>6, <2>2, RunsAreTwo DEF Unharmed, At, Active
  <2> QED BY <1>2, <2>3
<1> QED BY <1>5, <1>6

LEMMA CutIsWhole ==
    ASSUME Base, ChunksAreWhole, NEW c \in Call, Cut(c), UNCHANGED serviceVars
    PROVE  ChunksAreWhole'
<1>1. Others(c) /\ torn' = torn \cup {call[c].job} /\ UNCHANGED <<crowded, chunks, whole>>
  BY CutStep DEF Leaves, Cut, fileVars
<1> SUFFICES ASSUME NEW x \in Job, Unharmed(x)', NEW k \in chunks'[x] \ whole'[x]
             PROVE  \E d \in Call : At(d, "writing")' /\ call'[d].job = x /\ call'[d].chunk = k
  BY DEF ChunksAreWhole
<1>2. PICK d \in Call : At(d, "writing") /\ call[d].job = x /\ call[d].chunk = k
  BY <1>1 DEF ChunksAreWhole, Unharmed
<1>3. d # c
  BY <1>1, <1>2 DEF Unharmed
<1> QED BY <1>1, <1>2, <1>3 DEF At, Others

LEMMA DieIsWhole ==
    ASSUME Base, ChunksAreWhole, Die
    PROVE  ChunksAreWhole'
<1> SUFFICES ASSUME NEW x \in Job, Unharmed(x)', NEW k \in chunks'[x] \ whole'[x]
             PROVE  FALSE
  BY DEF ChunksAreWhole
<1>1. UNCHANGED <<crowded, chunks, whole>>
      /\ torn' = torn \cup {call[c].job : c \in {d \in Call : At(d, "writing")}}
  BY DEF Die, fileVars
<1>2. PICK d \in Call : At(d, "writing") /\ call[d].job = x /\ call[d].chunk = k
  BY <1>1 DEF ChunksAreWhole, Unharmed
<1> QED BY <1>1, <1>2 DEF Unharmed

LEMMA ChunksStayWhole ==
    ASSUME Base, ChunksAreWhole, [Next]_vars
    PROVE  ChunksAreWhole'
<1>1. Remembers
  BY HistoryIsKept
<1>2. CASE \E c \in Call : /\ CallStep(c) /\ ~Save(c) /\ ~Fill(c) /\ ~Cut(c) /\ UNCHANGED serviceVars
  <2>1. PICK c \in Call : /\ CallStep(c) /\ ~Save(c) /\ ~Fill(c) /\ ~Cut(c) /\ UNCHANGED serviceVars
    BY <1>2
  <2>2. PICK j, file : j = call[c].job /\ file = merged[call[c].path]
    OBVIOUS
  <2>3. ~At(c, "writing")
    BY <2>1 DEF CallStep, Receive, NextCall, List, Note, Merge, Enqueue, Take, Store, StoreNothing,
       Tidy, Complete, Fail, At
  <2>4. Others(c)
    BY <2>1, <2>2, ReceiveStep, ListStep, NoteStep, MergeStep, EnqueueStep, TakeStep, StoreStep,
       StoreNothingStep, TidyStep, CompleteStep, FailStep
       DEF CallStep, Begins, Goes, Leaves, Assembles
  <2>5. WritersStay
    BY <2>3, <2>4 DEF WritersStay, Others
  <2>6. UNCHANGED <<chunks, whole>> \/ (CleanChunks(call[c].job) /\ call[c].job \in Job)
    BY <2>1, EnqueueStep, TidyStep, FailStep
       DEF CallStep, Receive, List, Note, Merge, Enqueue, Take, Store, StoreNothing,
           Complete, Deletes, fileVars
  <2> QED BY <1>1, <2>5, <2>6, WholeStays, WholeStaysClean
<1>3. CASE \E c, d \in Call : Stall(c, d) /\ UNCHANGED serviceVars
  <2>1. PICK c, d \in Call : Stall(c, d) /\ UNCHANGED serviceVars
    BY <1>3
  <2>2. RunsTwice(c, d) /\ call[c].at \in Uploading /\ UNCHANGED <<chunks, whole>>
    BY <2>1, StallStep DEF Stall, fileVars
  <2>3. WritersStay
    BY <2>2 DEF WritersStay, RunsTwice, At, Uploading
  <2> QED BY <1>1, <2>2, <2>3, WholeStays
<1>4. CASE \E j \in Job : JobStep(j)
  <2>1. UNCHANGED <<call, chunks, whole>>
    BY <1>4 DEF JobStep, Initiate, Transcode, Webhook, Expire, fileVars
  <2> QED BY <1>1, <2>1, WholeStays DEF WritersStay
<1>5. CASE UNCHANGED chunkedVars \/ UNCHANGED vars
  <2>1. UNCHANGED <<call, chunks, whole>>
    BY <1>5, NothingChanges DEF chunkedVars, fileVars
  <2> QED BY <1>1, <2>1, WholeStays DEF WritersStay
<1>6. CASE \E c \in Call : (Save(c) \/ Fill(c) \/ Cut(c)) /\ UNCHANGED serviceVars
  BY <1>6, SaveIsWhole, FillIsWhole, CutIsWhole
<1> QED BY <1>2, <1>3, <1>4, <1>5, <1>6, DieIsWhole, Steps

-----------------------------------------------------------------------------
(* Files are sound *)

Clean == ~Happened({"same ms", "same path"})

CallSound(c) ==
    /\ Unharmed(call[c].job) =>
          /\ At(c, "merging") => merged[call[c].path] = {}
          /\ At(c, "enqueueing") \/ At(c, "storing") \/ InQueue(c)
                => merged[call[c].path] \in {None, {call[c].job}}
    /\ At(c, "tidying") \/ At(c, "completing") => Sound(call[c].job)

JobSound(j) == (hook[j] = "ok" => Sound(j)) /\ (status[j] = "done" => Sound(url[j]))
CacheSound == cached # None => Sound(cached)
DirectSound(d) == place[d] = "uploaded" => Sound(d)

AllSound ==
    /\ \A c \in Call : CallSound(c)
    /\ \A j \in Job : JobSound(j)
    /\ CacheSound
    /\ \A d \in Direct : DirectSound(d)

LEMMA SoundIsAllSound == FilesAreSound <=> (Clean => AllSound)
BY DEF FilesAreSound, Clean, AllSound, CallSound, JobSound, CacheSound, DirectSound

\* Nobody's file gets worse.
SoundStays == \A o \in Owner : Sound(o) => Sound(o)'

LEMMA CleanWas ==
    ASSUME mishaps \subseteq mishaps', Clean'
    PROVE  Clean /\ "same path" \notin mishaps
BY DEF Clean, Happened

LEMMA AsideStaysSound ==
    ASSUME Base, Aside, Remembers, UNCHANGED serviceVars
    PROVE  SoundStays /\ (AllSound => \A d \in Direct : DirectSound(d)')
<1>1. SameFiles /\ UNCHANGED <<deleted, place>>
  BY AsideIsAside DEF serviceVars
<1>2. SoundStays
  BY <1>1 DEF SoundStays, SameFiles, Sound, Remembers
<1> QED BY <1>1, <1>2 DEF AllSound, DirectSound, SoundStays, Owner

\* The merged files of others are left alone, but for a task's second run.
Spares(c) ==
    \A x \in Call \ {c} : Active(x) =>
        \/ merged'[call[x].path] = merged[call[x].path]
        \/ InQueue(x) /\ merged'[call[x].path] = None

LEMMA OwnFileSpares ==
    ASSUME Base, "same path" \notin mishaps, NEW c \in Call, Active(c),
           NEW file \in Content \cup {None}, merged' = [merged EXCEPT ![call[c].path] = file],
           ~InQueue(c) \/ file = None
    PROVE  Spares(c)
<1> SUFFICES ASSUME NEW x \in Call \ {c}, Active(x), call[x].path = call[c].path
             PROVE  InQueue(x) /\ file = None
  <2>1. merged \in [Call -> Content \cup {None}] /\ \A x \in Call : Active(x) => call[x].path \in Call
    BY ActiveIsKnown DEF Base, Types, FilesOK
  <2> QED BY <2>1 DEF Spares
<1> QED BY PathIsOwn

\* Only c, its merged file, and nothing stored has changed.
LEMMA CallsStaySound ==
    ASSUME Base, AllSound, SoundStays, Remembers, NEW c \in Call, Others(c), Spares(c), CallSound(c)'
    PROVE  \A x \in Call : CallSound(x)'
<1> SUFFICES ASSUME NEW x \in Call \ {c} PROVE CallSound(x)'
  OBVIOUS
<1>1. call'[x] = call[x] /\ CallSound(x) /\ CallOK(x)
  BY DEF Others, AllSound, Base, Types, CallsOK
<1>2. CASE Active(x)
  <2>1. \/ merged'[call[x].path] = merged[call[x].path]
        \/ InQueue(x) /\ merged'[call[x].path] = None
    BY <1>2 DEF Spares
  <2>2. call[x].job \in Owner
    BY <1>2, ActiveIsKnown DEF Base
  <2>3. InQueue(x) => ~At(x, "merging")
    BY <1>1 DEF CallOK, At, Uploading
  <2>4. Unharmed(call[x].job)' => Unharmed(call[x].job)
    BY <1>1 DEF Unharmed, Remembers
  <2> QED BY <1>1, <2>1, <2>2, <2>3, <2>4 DEF CallSound, At, InQueue, SoundStays
<1>3. CASE ~Active(x)
  <2>1. ~At(x, "merging") /\ ~At(x, "enqueueing") /\ ~At(x, "storing") /\ ~At(x, "tidying")
        /\ ~At(x, "completing") /\ ~InQueue(x)
    BY <1>1, <1>3 DEF Active, At, CallOK, Uploading
  <2> QED BY <1>1, <2>1 DEF CallSound, At, InQueue
<1> QED BY <1>2, <1>3

LEMMA JobsStaySound ==
    ASSUME Base, AllSound, SoundStays, UNCHANGED <<status, url, hook>>
    PROVE  \A j \in Job : JobSound(j)'
<1> SUFFICES ASSUME NEW j \in Job PROVE JobSound(j)'
  OBVIOUS
<1>1. JobSound(j) /\ j \in Owner /\ (status[j] = "done" => url[j] \in Owner)
  BY DEF AllSound, Base, Types, JobsOK, Owner
<1> QED BY <1>1 DEF JobSound, SoundStays

LEMMA BecomingStaysSound ==
    ASSUME Base, AllSound, SoundStays, NEW j \in Job, NEW to, NEW owner,
           Becomes(j, to, owner), UNCHANGED hook, to = "done" => owner = j /\ Sound(j)
    PROVE  \A x \in Job : JobSound(x)'
<1> SUFFICES ASSUME NEW x \in Job PROVE JobSound(x)'
  OBVIOUS
<1>1. JobSound(x) /\ x \in Owner /\ j \in Owner /\ (status[x] = "done" => url[x] \in Owner)
  BY DEF AllSound, Base, Types, JobsOK, Owner
<1>2. None # "done"
  BY ChunkAssumption
<1>3. CASE x = j
  BY <1>1, <1>2, <1>3 DEF JobSound, SoundStays, Becomes
<1>4. CASE x # j
  BY <1>1, <1>4 DEF JobSound, SoundStays, Becomes
<1> QED BY <1>3, <1>4

LEMMA BreakingStaysSound ==
    ASSUME Base, AllSound, SoundStays, NEW j \in Job, NEW to, NEW owner,
           Broken(j, to, owner), UNCHANGED hook, to = "done" => owner = j /\ Sound(j)
    PROVE  \A x \in Job : JobSound(x)'
<1>1. CASE Becomes(j, to, owner)
  BY <1>1, BecomingStaysSound
<1>2. CASE UNCHANGED jobVars
  BY <1>2, JobsStaySound DEF jobVars
<1> QED BY <1>1, <1>2 DEF Broken

LEMMA CacheStaysSound ==
    ASSUME Base, AllSound, SoundStays, UNCHANGED cached
    PROVE  CacheSound'
BY DEF AllSound, Base, Types, JobsOK, Owner, CacheSound, SoundStays

\* The requests and tasks, one step at a time.
LEMMA EarlyStepsSound ==
    ASSUME Base, AllSound, NEW c \in Call, Clean', Remembers, UNCHANGED serviceVars,
           Save(c) \/ Fill(c) \/ Cut(c) \/ List(c) \/ Take(c) \/ StoreNothing(c) \/ Enqueue(c)
    PROVE  AllSound'
<1>1. /\ Aside /\ UNCHANGED <<merged, cached, hook>> /\ Others(c)
      /\ \/ Goes(c, "writing", call[c].attempts) /\ ~InQueue(c)
         \/ Goes(c, "listing", call[c].attempts) /\ ~InQueue(c)
         \/ Goes(c, "noting", call[c].attempts) /\ ~InQueue(c)
         \/ Goes(c, "storing", call[c].attempts) /\ InQueue(c)
         \/ Goes(c, "failing", call[c].attempts)
         \/ Goes(c, "queued", 0) /\ At(c, "enqueueing")
         \/ Leaves(c)
  <2>1. CASE Save(c) \/ Fill(c) \/ Cut(c) \/ List(c)
    BY <2>1, SaveStep, FillStep, CutStep, ListStep
       DEF Save, Fill, Cut, List, cacheVars, fileVars, Goes, Leaves
  <2>2. CASE Take(c) \/ StoreNothing(c) \/ Enqueue(c)
    BY <2>2, TakeStep, StoreNothingStep, EnqueueStep
       DEF Take, StoreNothing, Enqueue, cacheVars, fileVars, Goes, Leaves
  <2> QED BY <2>1, <2>2
<1>2. SoundStays /\ \A d \in Direct : DirectSound(d)'
  BY <1>1, AsideStaysSound
<1>3. CallSound(c)'
  <2>1. CallSound(c) /\ CallOK(c)
    BY DEF AllSound, Base, Types, CallsOK
  <2>2. call'[c].job = call[c].job => (Unharmed(call[c].job)' => Unharmed(call[c].job))
    BY DEF Unharmed, Remembers
  <2> QED BY <1>1, <2>1, <2>2 DEF CallSound, CallOK, Goes, Leaves, At, InQueue, Uploading
<1>4. \A x \in Call : CallSound(x)'
  BY <1>1, <1>2, <1>3, CallsStaySound DEF Spares
<1>5. \A j \in Job : JobSound(j)'
  <2>1. CASE UNCHANGED <<status, url>>
    BY <1>1, <1>2, <2>1, JobsStaySound
  <2>2. CASE Take(c)
    <3>1. call[c].job \in Job
          /\ (Becomes(call[c].job, "uploading", None) \/ Broken(call[c].job, "uploading", None))
      BY <2>2, TakeStep
    <3> QED BY <1>1, <1>2, <3>1, BecomingStaysSound, BreakingStaysSound
  <2> QED BY <2>1, <2>2 DEF Save, Fill, Cut, List, StoreNothing, Enqueue, jobVars
<1>6. CacheSound'
  BY <1>1, <1>2, CacheStaysSound
<1> QED BY <1>2, <1>4, <1>5, <1>6 DEF AllSound

LEMMA NoteSounds ==
    ASSUME Base, AllSound, NEW c \in Call, Clean', Remembers, Note(c), UNCHANGED serviceVars
    PROVE  AllSound'
<1>1. /\ Base' /\ Aside /\ Active(c) /\ ~InQueue(c) /\ call[c].job \in Job
      /\ Becomes(call[c].job, "uploading", None) \/ Broken(call[c].job, "uploading", None)
      /\ \/ Leaves(c) /\ UNCHANGED merged
         \/ Assembles(c)
  BY NoteStep
<1>2. UNCHANGED <<cached, hook>> /\ FilesOK /\ "same path" \notin mishaps' /\ "same path" \notin mishaps
  <2>1. mishaps \subseteq mishaps'
    BY <1>1, AsideIsAside
  <2> QED BY <2>1 DEF Base, Types, Note, cacheVars, Clean, Happened
<1>3. SoundStays /\ \A d \in Direct : DirectSound(d)'
  BY <1>1, AsideStaysSound
<1>4. Spares(c) /\ CallSound(c)'
  <2>1. CASE Leaves(c) /\ UNCHANGED merged
    BY <2>1 DEF Leaves, CallSound, At, InQueue, Spares
  <2>2. CASE Assembles(c)
    <3>1. call'[c].path = call[c].path /\ merged' = [merged EXCEPT ![call[c].path] = {}]
          /\ call[c].path \in Call
      BY <1>2, <2>2 DEF Assembles
    <3>2. merged'[call'[c].path] = {}
      BY <1>2, <3>1 DEF FilesOK
    <3>3. Spares(c)
      <4>1. {} \in Content
        BY DEF Content
      <4> QED BY <1>1, <1>2, <3>1, <4>1, OwnFileSpares
    <3>4. CallSound(c)'
      BY <1>1, <2>2, <3>2 DEF Assembles, CallSound, At, InQueue
    <3> QED BY <3>3, <3>4
  <2> QED BY <1>1, <2>1, <2>2
<1>5. \A x \in Call : CallSound(x)'
  BY <1>1, <1>3, <1>4, CallsStaySound DEF Leaves, Assembles
<1>6. \A j \in Job : JobSound(j)'
  BY <1>1, <1>2, <1>3, BecomingStaysSound, BreakingStaysSound, ChunkAssumption
<1>7. CacheSound'
  BY <1>2, <1>3, CacheStaysSound
<1> QED BY <1>3, <1>5, <1>6, <1>7 DEF AllSound

\* Nobody is writing a part of a job whose client waits while its chunks are merged.
LEMMA MergedIsWhole ==
    ASSUME Base, ChunksAreWhole, NEW c \in Call, At(c, "merging"), ~InQueue(c), Unharmed(call[c].job),
           call[c].job \in Job
    PROVE  Assembled(call[c].job) = {call[c].job}
<1>1. Active(c)
  BY DEF At, Active
<1>2. ASSUME NEW i \in chunks[call[c].job] \ whole[call[c].job] PROVE FALSE
  <2>1. PICK d \in Call : At(d, "writing") /\ call[d].job = call[c].job
    BY DEF ChunksAreWhole
  <2>2. d # c /\ Active(d)
    BY <2>1 DEF At, Active
  <2> QED BY <1>1, <2>1, <2>2, RunsAreTwo DEF Unharmed
<1> QED BY <1>2 DEF Assembled

LEMMA MergeSounds ==
    ASSUME Base, ChunksAreWhole, AllSound, NEW c \in Call, Clean', Remembers, Merge(c),
           UNCHANGED serviceVars
    PROVE  AllSound'
<1>0. PICK j \in Job, p \in Call : j = call[c].job /\ p = call[c].path
  BY MergeStep, ActiveIsKnown DEF Base
<1>1. /\ Aside /\ Active(c) /\ ~InQueue(c) /\ UNCHANGED <<cached, hook, status, url>>
      /\ At(c, "merging") /\ UNCHANGED <<crowded, torn>>
      /\ \/ /\ merged' = [merged EXCEPT ![p] = IF @ = None THEN None ELSE @ \cup Assembled(j)]
            /\ \/ Goes(c, "enqueueing", call[c].attempts)
               \/ Goes(c, "storing", call[c].attempts)
         \/ Goes(c, "failing", call[c].attempts) /\ UNCHANGED merged
  BY <1>0, MergeStep DEF Merge, jobVars, cacheVars, historyVars
<1>2. SoundStays /\ (\A d \in Direct : DirectSound(d)') /\ FilesOK /\ "same path" \notin mishaps
  BY <1>1, AsideIsAside, CleanWas, AsideStaysSound DEF Base, Types
<1>3. Spares(c) /\ CallSound(c)'
  <2>1. CASE /\ merged' = [merged EXCEPT ![p] = IF @ = None THEN None ELSE @ \cup Assembled(j)]
             /\ \/ Goes(c, "enqueueing", call[c].attempts)
                \/ Goes(c, "storing", call[c].attempts)
    <3> DEFINE file == IF merged[p] = None THEN None ELSE merged[p] \cup Assembled(j)
    <3>1. file \in Content \cup {None} /\ merged' = [merged EXCEPT ![p] = file]
      BY <1>0, <1>2, <2>1, AssembledIsContent DEF FilesOK
    <3>2. Spares(c)
      <4> HIDE DEF file
      <4> QED BY <1>0, <1>1, <1>2, <3>1, OwnFileSpares
    <3>3. ASSUME Unharmed(j) PROVE merged'[p] = {j}
      <4>1. merged[p] = {} /\ merged[p] # None
        BY <1>0, <1>1, <3>3, ChunkAssumption DEF AllSound, CallSound, Content
      <4>2. Assembled(j) = {j}
        BY <1>0, <1>1, <3>3, MergedIsWhole
      <4> QED BY <1>0, <1>2, <2>1, <4>1, <4>2 DEF FilesOK
    <3>4. /\ call'[c].job = j /\ call'[c].path = p /\ call'[c].at \in {"enqueueing", "storing"}
          /\ Unharmed(j)' => Unharmed(j)
      BY <1>0, <1>1, <2>1 DEF Goes, Unharmed
    <3>5. CallSound(c)'
      BY <3>3, <3>4 DEF CallSound, At
    <3> QED BY <3>2, <3>5
  <2>2. CASE Goes(c, "failing", call[c].attempts) /\ UNCHANGED merged
    BY <1>1, <2>2 DEF Goes, CallSound, At, InQueue, Spares
  <2> QED BY <1>1, <2>1, <2>2
<1>4. \A x \in Call : CallSound(x)'
  BY <1>1, <1>2, <1>3, CallsStaySound DEF Goes
<1>5. (\A x \in Job : JobSound(x)') /\ CacheSound'
  BY <1>1, <1>2, JobsStaySound, CacheStaysSound
<1> QED BY <1>2, <1>4, <1>5 DEF AllSound

LEMMA StoreSounds ==
    ASSUME Base, AllSound, NEW c \in Call, Clean', Store(c), UNCHANGED serviceVars
    PROVE  AllSound'
<1>0. PICK file : file = merged[call[c].path]
  OBVIOUS
<1>1. PICK j \in Job : j = call[c].job /\ file = merged[call[c].path]
  BY <1>0, ActiveIsKnown DEF Base, Store, At, Active
<1>2. /\ mishaps \subseteq mishaps' /\ file # None
      /\ \/ /\ Goes(c, "tidying", call[c].attempts) /\ HasCopy(c)
            /\ "same ms" \notin mishaps' => Holds(j, file)
         \/ Goes(c, "failing", call[c].attempts) /\ HasCopy(c) /\ Holds(j, file)
         \/ Goes(c, "failing", call[c].attempts) /\ UNCHANGED <<copies, hook>> /\ SameFiles
  BY <1>1, StoreStep
<1>3. UNCHANGED <<cached, status, url, merged, place, deleted, crowded, torn>>
  BY DEF Store, jobVars, cacheVars, fileVars, serviceVars
<1>4. (Unharmed(j) => file = {j}) /\ CallSound(c) /\ Remembers
  <2>1. CallSound(c) /\ At(c, "storing")
    BY DEF AllSound, Store
  <2>2. Remembers
    BY DEF Store, Remembers
  <2> QED BY <1>1, <1>2, <2>1, <2>2 DEF CallSound
<1>5. /\ SoundStays
      /\ \/ Goes(c, "tidying", call[c].attempts) /\ HasCopy(c) /\ Sound(j)'
         \/ Goes(c, "failing", call[c].attempts) /\ HasCopy(c) /\ Sound(j)'
         \/ Goes(c, "failing", call[c].attempts) /\ UNCHANGED hook
  <2>1. Holds(j, file) \/ SameFiles
    BY <1>2 DEF Clean, Happened
  <2>2. Holds(j, file) => Sound(j)'
    BY <1>3, <1>4 DEF Holds, Sound, Unharmed
  <2>3. SoundStays
    BY <1>3, <2>1, <2>2 DEF SoundStays, Sound, SameFiles, Holds, Keeps
  <2>4. "same ms" \notin mishaps'
    BY DEF Clean, Happened
  <2> QED BY <1>2, <2>2, <2>3, <2>4
<1>6. \A x \in Call : CallSound(x)'
  <2>1. CallSound(c)'
    BY <1>1, <1>3, <1>4, <1>5 DEF CallSound, Goes, At, InQueue, Store, Unharmed
  <2> QED BY <1>3, <1>4, <1>5, <2>1, CallsStaySound DEF Goes, Spares
<1>7. \A x \in Job : JobSound(x)'
  <2> SUFFICES ASSUME NEW x \in Job PROVE JobSound(x)'
    OBVIOUS
  <2>1. JobSound(x) /\ x \in Owner /\ (status[x] = "done" => url[x] \in Owner) /\ FilesOK
    BY DEF AllSound, Base, Types, JobsOK, Owner
  <2>2. UNCHANGED hook \/ (hook' = [hook EXCEPT ![j] = "ok"] /\ Sound(j)')
    BY <1>1, <1>5 DEF HasCopy
  <2>3. hook'[x] = hook[x] \/ (x = j /\ Sound(j)')
    BY <2>1, <2>2 DEF FilesOK
  <2> QED BY <1>3, <1>5, <2>1, <2>3 DEF JobSound, SoundStays
<1>8. CacheSound' /\ \A d \in Direct : DirectSound(d)'
  BY <1>3, <1>5, CacheStaysSound DEF AllSound, DirectSound, SoundStays, Owner
<1> QED BY <1>6, <1>7, <1>8 DEF AllSound

\* Whoever deletes a merged file has uploaded it, or the others are runs of its task.
LEMMA DeletingSpares ==
    ASSUME Base, "same path" \notin mishaps, NEW c \in Call, Active(c), Deletes(c)
    PROVE  Spares(c) /\ merged'[call[c].path] = None
<1>1. call[c].path \in Call /\ FilesOK
  BY ActiveIsKnown DEF Base, Types
<1>2. merged' = [merged EXCEPT ![call[c].path] = None] /\ None \in Content \cup {None}
  BY DEF Deletes
<1> QED BY <1>1, <1>2, OwnFileSpares DEF FilesOK

LEMMA TidySounds ==
    ASSUME Base, AllSound, NEW c \in Call, Clean', Remembers, Tidy(c), UNCHANGED serviceVars
    PROVE  AllSound'
<1>1. PICK j \in Job : j = call[c].job
  BY TidyStep
<1>2. /\ Aside /\ Deletes(c) /\ Active(c)
      /\ \/ Goes(c, "completing", call[c].attempts) /\ (cached' = j \/ cached' = cached)
         \/ Goes(c, "failing", call[c].attempts) /\ UNCHANGED cached
  BY <1>1, TidyStep
<1>3. SoundStays /\ (\A d \in Direct : DirectSound(d)') /\ "same path" \notin mishaps
  BY <1>2, AsideIsAside, CleanWas, AsideStaysSound
<1>4. Sound(j) /\ Sound(j)'
  BY <1>1, <1>3 DEF AllSound, CallSound, Tidy, SoundStays, Owner
<1>5. merged'[call[c].path] = None /\ Spares(c)
  BY <1>2, <1>3, DeletingSpares
<1>6. \A x \in Call : CallSound(x)'
  <2>1. call'[c].job = j /\ call'[c].path = call[c].path /\ call'[c].at \in {"completing", "failing"}
        /\ Others(c)
    BY <1>1, <1>2 DEF Goes
  <2>2. CallSound(c)'
    BY <1>4, <1>5, <2>1 DEF CallSound, At, InQueue
  <2> QED BY <1>3, <1>5, <2>1, <2>2, CallsStaySound
<1>7. (\A x \in Job : JobSound(x)') /\ CacheSound'
  <2>1. UNCHANGED <<status, url, hook>>
    BY DEF Tidy, jobVars
  <2>2. CASE cached' = j
    BY <1>3, <1>4, <2>1, <2>2, JobsStaySound DEF CacheSound
  <2>3. CASE cached' = cached
    BY <1>3, <2>1, <2>3, JobsStaySound, CacheStaysSound
  <2> QED BY <1>2, <2>2, <2>3
<1> QED BY <1>3, <1>6, <1>7 DEF AllSound

LEMMA CompleteSounds ==
    ASSUME Base, AllSound, NEW c \in Call, Clean', Remembers, Complete(c) \/ Fail(c),
           UNCHANGED serviceVars
    PROVE  AllSound'
<1>1. PICK j \in Job : j = call[c].job
  BY CompleteStep, FailStep
<1>2. /\ Aside /\ UNCHANGED <<cached, hook>> /\ Active(c)
      /\ \/ /\ At(c, "completing") /\ UNCHANGED merged
            /\ Becomes(j, "done", j) \/ Broken(j, "done", j)
            /\ Leaves(c) \/ Goes(c, "failing", call[c].attempts)
         \/ /\ Becomes(j, "failed", None) \/ Broken(j, "failed", None)
            /\ Deletes(c)
            /\ Leaves(c) \/ (InQueue(c) /\ Goes(c, "queued", call[c].attempts + 1))
  <2>1. CASE Complete(c)
    BY <1>1, <2>1, CompleteStep DEF Complete, cacheVars, fileVars
  <2>2. CASE Fail(c)
    BY <1>1, <2>2, FailStep DEF Fail, cacheVars
  <2> QED BY <2>1, <2>2
<1>3. SoundStays /\ (\A d \in Direct : DirectSound(d)') /\ "same path" \notin mishaps
  BY <1>2, AsideIsAside, CleanWas, AsideStaysSound
<1>4. CallSound(c) /\ (Unharmed(j)' => Unharmed(j))
  BY DEF AllSound, Unharmed, Remembers
<1>5. CallSound(c)' /\ Spares(c) /\ Others(c)
  <2>1. CASE UNCHANGED merged /\ (Leaves(c) \/ Goes(c, "failing", call[c].attempts))
    BY <1>1, <1>4, <2>1 DEF CallSound, Leaves, Goes, At, InQueue, Spares
  <2>2. CASE Deletes(c) /\ (Leaves(c) \/ Goes(c, "queued", call[c].attempts + 1))
    <3>1. merged'[call[c].path] = None /\ Spares(c)
      BY <1>2, <1>3, <2>2, DeletingSpares
    <3> QED BY <2>2, <3>1 DEF CallSound, Leaves, Goes, At, InQueue
  <2> QED BY <1>2, <2>1, <2>2
<1>6. \A x \in Call : CallSound(x)'
  BY <1>3, <1>5, CallsStaySound
<1>7. \A x \in Job : JobSound(x)'
  <2>1. CASE At(c, "completing") /\ (Becomes(j, "done", j) \/ Broken(j, "done", j))
    <3>1. Sound(j)
      BY <1>1, <1>4, <2>1 DEF CallSound
    <3> QED BY <1>2, <1>3, <2>1, <3>1, BecomingStaysSound, BreakingStaysSound
  <2>2. CASE Becomes(j, "failed", None) \/ Broken(j, "failed", None)
    BY <1>2, <1>3, <2>2, BecomingStaysSound, BreakingStaysSound
  <2> QED BY <1>2, <2>1, <2>2
<1>8. CacheSound'
  BY <1>2, <1>3, CacheStaysSound
<1> QED BY <1>3, <1>6, <1>7, <1>8 DEF AllSound

LEMMA ReceiveSounds ==
    ASSUME Base, AllSound, NEW c \in Call, Clean', Remembers, Receive(c), UNCHANGED serviceVars
    PROVE  AllSound'
<1>1. PICK j \in Job : Aside /\ Begins(c, j)
  BY ReceiveStep
<1>2. UNCHANGED <<status, url, hook, merged, cached>>
  BY DEF Receive, jobVars, cacheVars, fileVars
<1>3. SoundStays /\ \A d \in Direct : DirectSound(d)'
  BY <1>1, AsideStaysSound
<1>4. CallSound(c)'
  BY <1>1 DEF Begins, CallSound, At, InQueue
<1>5. \A x \in Call : CallSound(x)'
  BY <1>1, <1>2, <1>3, <1>4, CallsStaySound DEF Begins, Spares
<1> QED BY <1>2, <1>3, <1>5, JobsStaySound, CacheStaysSound DEF AllSound

LEMMA StallSounds ==
    ASSUME Base, AllSound, NEW c \in Call, NEW d \in Call, Clean', Remembers, Stall(c, d),
           UNCHANGED serviceVars
    PROVE  AllSound'
<1>1. Aside /\ RunsTwice(c, d) /\ call[c].job \in Owner
  BY StallStep DEF Owner
<1>2. UNCHANGED <<status, url, hook, merged, cached, crowded, torn>>
  BY DEF Stall, jobVars, cacheVars, fileVars, historyVars
<1>3. SoundStays /\ \A o \in Direct : DirectSound(o)'
  BY <1>1, AsideStaysSound
<1>4. ASSUME NEW x \in Call PROVE CallSound(x)'
  <2>1. CallSound(x) /\ CallSound(c) /\ (Active(x) => call[x].job \in Owner)
    BY ActiveIsKnown DEF AllSound, Base
  <2>2. CASE x = d
    BY <1>1, <1>2, <2>1, <2>2 DEF CallSound, RunsTwice, At, InQueue, Unharmed
  <2>3. CASE x # d
    <3>1. call'[x].at = call[x].at /\ call'[x].job = call[x].job /\ call'[x].path = call[x].path
          /\ call'[x].attempts = call[x].attempts
      BY <1>1, <2>3 DEF RunsTwice
    <3>2. At(x, "tidying") \/ At(x, "completing") => call[x].job \in Owner
      BY <2>1 DEF At, Active
    <3> QED BY <1>2, <1>3, <2>1, <3>1, <3>2 DEF CallSound, At, InQueue, Unharmed, SoundStays
  <2> QED BY <2>2, <2>3
<1> QED BY <1>2, <1>3, <1>4, JobsStaySound, CacheStaysSound DEF AllSound

\* The jobs: no request moves, and no merged file changes.
LEMMA StillCallsStaySound ==
    ASSUME Base, AllSound, SoundStays, Remembers, UNCHANGED <<call, merged>>
    PROVE  \A x \in Call : CallSound(x)'
<1> SUFFICES ASSUME NEW x \in Call PROVE CallSound(x)'
  OBVIOUS
<1>1. At(x, "tidying") \/ At(x, "completing") => call[x].job \in Owner
  BY ActiveIsKnown DEF Base, At, Active
<1>2. Unharmed(call[x].job)' => Unharmed(call[x].job)
  BY DEF Unharmed, Remembers
<1> QED BY <1>1, <1>2 DEF AllSound, CallSound, At, InQueue, SoundStays

LEMMA InitiateSounds ==
    ASSUME Base, AllSound, NEW j \in Job, Clean', Remembers, Initiate(j), UNCHANGED serviceVars
    PROVE  AllSound'
<1>1. /\ Aside
      /\ \A x \in Job \ {j} : status'[x] = status[x] /\ url'[x] = url[x]
      /\ \/ status'[j] = "pending" /\ url'[j] = None
         \/ status'[j] = "done" /\ url'[j] = cached /\ cached # None
  BY InitiateStep
<1>2. UNCHANGED <<call, merged, cached, hook>>
  BY DEF Initiate, fileVars
<1>3. SoundStays /\ \A d \in Direct : DirectSound(d)'
  BY <1>1, AsideStaysSound
<1>4. ASSUME NEW x \in Job PROVE JobSound(x)'
  <2>1. JobSound(x) /\ x \in Owner /\ (status[x] = "done" => url[x] \in Owner) /\ CacheSound
        /\ (cached # None => cached \in Owner)
    BY DEF AllSound, Base, Types, JobsOK, Owner
  <2>2. CASE x = j
    BY <1>1, <1>2, <1>3, <2>1, <2>2 DEF JobSound, SoundStays, CacheSound
  <2>3. CASE x # j
    BY <1>1, <1>2, <1>3, <2>1, <2>3 DEF JobSound, SoundStays
  <2> QED BY <2>2, <2>3
<1> QED BY <1>2, <1>3, <1>4, StillCallsStaySound, CacheStaysSound DEF AllSound

LEMMA WebhookSounds ==
    ASSUME Base, AllSound, NEW j \in Job, Clean', Remembers, Webhook(j) \/ Transcode(j),
           UNCHANGED serviceVars
    PROVE  AllSound'
<1>1. /\ Aside
      /\ \/ /\ UNCHANGED hook \/ hook' = [hook EXCEPT ![j] = None]
            /\ \/ hook[j] = "ok" /\ (Becomes(j, "done", j) \/ UNCHANGED jobVars)
               \/ hook[j] = "failed" /\ (Becomes(j, "failed", None) \/ UNCHANGED jobVars)
         \/ hook' = [hook EXCEPT ![j] = "failed"] /\ UNCHANGED jobVars
  <2>1. CASE Webhook(j)
    BY <2>1, WebhookStep DEF Tells, Broken
  <2>2. CASE Transcode(j)
    BY <2>2, TranscodeStep DEF Transcode
  <2> QED BY <2>1, <2>2
<1>2. UNCHANGED <<call, merged, cached>>
  BY DEF Webhook, Transcode, cacheVars, fileVars
<1>3. SoundStays /\ \A d \in Direct : DirectSound(d)'
  BY <1>1, AsideStaysSound
<1>4. ASSUME NEW x \in Job PROVE JobSound(x)'
  <2>1. JobSound(x) /\ JobSound(j) /\ x \in Owner /\ j \in Owner
        /\ (status[x] = "done" => url[x] \in Owner) /\ FilesOK
    BY DEF AllSound, Base, Types, JobsOK, Owner
  <2>2. hook'[x] # "ok" \/ hook'[x] = hook[x]
    BY <1>1, <2>1, ChunkAssumption DEF FilesOK
  <2>3. status'[x] # "done" \/ (status'[x] = status[x] /\ url'[x] = url[x])
        \/ (x = j /\ hook[j] = "ok" /\ url'[j] = j)
    BY <1>1, ChunkAssumption DEF Becomes, jobVars
  <2> QED BY <1>3, <2>1, <2>2, <2>3 DEF JobSound, SoundStays
<1> QED BY <1>2, <1>3, <1>4, StillCallsStaySound, CacheStaysSound DEF AllSound

LEMMA ExpireSounds ==
    ASSUME Base, AllSound, NEW j \in Job, Clean', Remembers, Expire(j), UNCHANGED serviceVars
    PROVE  AllSound'
<1>1. Aside /\ \A x \in Job : status'[x] = None \/ (status'[x] = status[x] /\ url'[x] = url[x])
  BY ExpireStep
<1>2. UNCHANGED <<call, merged, cached, hook>>
  BY DEF Expire, cacheVars, fileVars
<1>3. SoundStays /\ \A d \in Direct : DirectSound(d)'
  BY <1>1, AsideStaysSound
<1>4. ASSUME NEW x \in Job PROVE JobSound(x)'
  <2>1. JobSound(x) /\ x \in Owner /\ (status[x] = "done" => url[x] \in Owner)
    BY DEF AllSound, Base, Types, JobsOK, Owner
  <2> QED BY <1>1, <1>2, <1>3, <2>1, ChunkAssumption DEF JobSound, SoundStays
<1> QED BY <1>2, <1>3, <1>4, StillCallsStaySound, CacheStaysSound DEF AllSound

LEMMA DieSounds ==
    ASSUME Base, AllSound, Clean', Remembers, Die, mishaps' = mishaps \cup {"crash"},
           UNCHANGED serviceVars
    PROVE  AllSound'
<1>1. /\ SameFiles /\ \A c \in Call : Survives(c)
      /\ cached' = None \/ cached' = cached
      /\ \A j \in Job : status'[j] = None \/ (status'[j] = status[j] /\ url'[j] = url[j])
  BY DieStep
<1>2. UNCHANGED <<hook, merged, place, deleted>>
  BY DEF Die, fileVars, serviceVars
<1>3. SoundStays /\ \A d \in Direct : DirectSound(d)'
  <2>1. SoundStays
    BY <1>1, <1>2 DEF SoundStays, SameFiles, Sound, Remembers
  <2> QED BY <1>2, <2>1 DEF SoundStays, AllSound, DirectSound, Owner
<1>4. ASSUME NEW x \in Job PROVE JobSound(x)'
  <2>1. JobSound(x) /\ x \in Owner /\ (status[x] = "done" => url[x] \in Owner)
    BY DEF AllSound, Base, Types, JobsOK, Owner
  <2> QED BY <1>1, <1>2, <1>3, <2>1, ChunkAssumption DEF JobSound, SoundStays
<1>5. ASSUME NEW c \in Call PROVE CallSound(c)'
  <2>1. CallSound(c) /\ CallOK(c) /\ Survives(c)
    BY <1>1 DEF AllSound, Base, Types, CallsOK
  <2>2. \A j : Unharmed(j)' => Unharmed(j)
    BY DEF Unharmed, Remembers
  <2> QED BY <1>2, <2>1, <2>2 DEF CallSound, CallOK, Survives, At, InQueue, Uploading
<1>6. CacheSound'
  <2>1. CASE cached' = None
    BY <2>1 DEF CacheSound
  <2>2. CASE cached' = cached
    BY <1>3, <2>2, CacheStaysSound
  <2> QED BY <1>1, <2>1, <2>2
<1> QED BY <1>3, <1>4, <1>5, <1>6 DEF AllSound

\* Direct uploads and deletions.
LEMMA UploadSounds ==
    ASSUME Base, AllSound, NEW d \in Direct, Clean', Upload(d), UNCHANGED chunkedVars
    PROVE  AllSound'
<1>1. /\ UNCHANGED deleted
      /\ \A x \in Direct \ {d} : place'[x] = place[x]
      /\ Keeps(d) /\ (place'[d] = "uploaded" => Shows(d)' = {d})
  <2>1. "same ms" \notin mishaps'
    BY DEF Clean, Happened
  <2> QED BY <2>1, UploadStep
<1>2. UNCHANGED <<call, merged, cached, hook, status, url, crowded, torn>>
  BY DEF chunkedVars, jobVars, cacheVars, fileVars, historyVars
<1>3. \A x \in Owner \ {d} : Sound(x) => Sound(x)'
  BY <1>1, <1>2 DEF Keeps, Sound
<1>4. \A j \in Job : j \in Owner \ {d}
  BY StorageAssumption DEF Owner
<1>5. ASSUME NEW x \in Job PROVE JobSound(x)'
  <2>1. JobSound(x) /\ (status[x] = "done" => url[x] \in Job)
    BY DEF AllSound, Base, Types, JobsOK
  <2> QED BY <1>2, <1>3, <1>4, <2>1 DEF JobSound
<1>6. ASSUME NEW c \in Call PROVE CallSound(c)'
  <2>1. CallSound(c) /\ (At(c, "tidying") \/ At(c, "completing") => call[c].job \in Job)
    BY ActiveIsKnown DEF AllSound, Base, At, Active
  <2> QED BY <1>2, <1>3, <1>4, <2>1 DEF CallSound, At, InQueue, Unharmed
<1>7. CacheSound'
  BY <1>2, <1>3, <1>4 DEF CacheSound, AllSound, Base, Types, JobsOK
<1>8. ASSUME NEW x \in Direct PROVE DirectSound(x)'
  <2>1. CASE x = d
    BY <1>1, <2>1 DEF DirectSound, Sound
  <2>2. CASE x # d
    BY <1>1, <1>3, <2>2 DEF DirectSound, AllSound, Owner
  <2> QED BY <2>1, <2>2
<1> QED BY <1>5, <1>6, <1>7, <1>8 DEF AllSound

LEMMA DeleteSounds ==
    ASSUME Base, AllSound, NEW o \in Owner, NEW k, NEW link, Clean', Remembers,
           DeleteResource(o, k, link), UNCHANGED chunkedVars
    PROVE  AllSound'
<1>1. /\ deleted' = deleted \cup {o} /\ UNCHANGED place /\ Keeps(o)
  <2>1. "same ms" \notin mishaps /\ mishaps' = mishaps \cup {"deleted"}
    BY DeleteStep DEF Clean, Happened
  <2> QED BY <2>1, DeleteStep
<1>2. UNCHANGED <<call, merged, cached, hook, status, url, crowded, torn>>
  BY DEF chunkedVars, jobVars, cacheVars, fileVars, historyVars
<1>3. SoundStays
  BY <1>1, <1>2 DEF Keeps, Sound, SoundStays
<1>4. \A d \in Direct : DirectSound(d)'
  BY <1>1, <1>3 DEF AllSound, DirectSound, SoundStays, Owner
<1> QED BY <1>2, <1>3, <1>4, StillCallsStaySound, JobsStaySound, CacheStaysSound DEF AllSound

LEMMA FilesStaySound ==
    ASSUME Base, ChunksAreWhole, FilesAreSound, [Next]_vars
    PROVE  FilesAreSound'
<1> SUFFICES ASSUME Clean' PROVE AllSound'
  BY DEF Clean, Happened, FilesAreSound, AllSound, CallSound, JobSound, CacheSound, DirectSound
<1>1. AllSound /\ Remembers
  BY BaseKeeps, CleanWas, SoundIsAllSound, HistoryIsKept
<1>2. CASE UNCHANGED vars
  <2>1. \A o \in Owner : Sound(o) <=> Sound(o)'
    BY <1>2, NothingChanges DEF Sound, Shows
  <2>2. SoundStays
    BY <2>1 DEF SoundStays
  <2>3. (\A d \in Direct : DirectSound(d)') /\ (\A x \in Call : CallSound(x)')
        /\ (\A j \in Job : JobSound(j)') /\ CacheSound'
    <3>1. \A d \in Direct : DirectSound(d)'
      BY <1>1, <1>2, <2>2, NothingChanges DEF AllSound, DirectSound, SoundStays, Owner
    <3> QED BY <1>1, <1>2, <2>2, <3>1, NothingChanges, StillCallsStaySound, JobsStaySound,
               CacheStaysSound
  <2> QED BY <2>3 DEF AllSound
<1>3. CASE \E c \in Call : CallStep(c) /\ UNCHANGED serviceVars
  BY <1>1, <1>3, ReceiveSounds, EarlyStepsSound, NoteSounds, MergeSounds, StoreSounds, TidySounds,
     CompleteSounds DEF CallStep
<1>4. CASE \E j \in Job : JobStep(j) /\ UNCHANGED serviceVars
  BY <1>1, <1>4, InitiateSounds, WebhookSounds, ExpireSounds DEF JobStep
<1>5. CASE Die /\ mishaps' = mishaps \cup {"crash"} /\ UNCHANGED serviceVars
  BY <1>1, <1>5, DieSounds
<1>6. CASE \E d \in Direct : Upload(d) /\ UNCHANGED chunkedVars
  BY <1>1, <1>6, UploadSounds
<1>7. CASE \E o \in Owner : \E k, link : DeleteResource(o, k, link) /\ UNCHANGED chunkedVars
  BY <1>1, <1>7, DeleteSounds
<1>8. CASE \E c, d \in Call : Stall(c, d) /\ UNCHANGED serviceVars
  BY <1>1, <1>8, StallSounds
<1> QED BY <1>2, <1>3, <1>4, <1>5, <1>6, <1>7, <1>8, Steps

-----------------------------------------------------------------------------
(* Merged files have a keeper *)

HoldsOn(c) == Holding(c) /\ ~At(c, "completing")

LEMMA HeldIsHeldOn ==
    FilesAreHeld <=> \A p \in Call : merged[p] # None =>
        Happened({"enqueue", "crash"}) \/ \E c \in Call : call[c].path = p /\ HoldsOn(c)
BY DEF FilesAreHeld, HoldsOn

\* Whoever has a file keeps it or deletes it.
LEMMA KeepersKeep ==
    ASSUME FilesAreHeld, mishaps \subseteq mishaps', NEW c \in Call, Others(c),
           \A p \in Call : merged'[p] # None =>
               \/ call'[c].path = p /\ HoldsOn(c)'
               \/ merged[p] # None /\ ~(call[c].path = p /\ HoldsOn(c))
    PROVE  FilesAreHeld'
<1> SUFFICES ASSUME NEW p \in Call, merged'[p] # None, ~Happened({"enqueue", "crash"})'
             PROVE  \E d \in Call : call'[d].path = p /\ HoldsOn(d)'
  BY DEF FilesAreHeld, HoldsOn
<1>1. CASE call'[c].path = p /\ HoldsOn(c)'
  BY <1>1
<1>2. CASE merged[p] # None /\ ~(call[c].path = p /\ HoldsOn(c))
  <2>1. ~Happened({"enqueue", "crash"})
    BY DEF Happened
  <2>2. PICK d \in Call : call[d].path = p /\ HoldsOn(d)
    BY <1>2, <2>1, HeldIsHeldOn
  <2>3. d # c /\ call'[d] = call[d]
    BY <1>2, <2>2 DEF Others
  <2> QED BY <2>2, <2>3 DEF HoldsOn, Holding, At
<1> QED BY <1>1, <1>2

LEMMA EarlyStepsHold ==
    ASSUME Base, FilesAreHeld, mishaps \subseteq mishaps', NEW c \in Call, UNCHANGED serviceVars,
           Receive(c) \/ Save(c) \/ Fill(c) \/ Cut(c) \/ List(c) \/ Note(c)
    PROVE  FilesAreHeld'
<1>1. ~HoldsOn(c) /\ FilesOK
  <2>1. call[c].at \in {"idle", "saving", "writing", "listing", "noting"}
    BY DEF Receive, NextCall, Save, Fill, Cut, List, Note, At
  <2> QED BY <2>1 DEF HoldsOn, Holding, Uploading, Base, Types
<1>2. /\ Others(c)
      /\ UNCHANGED merged \/ (call'[c].at = "merging" /\ merged' = [merged EXCEPT ![call'[c].path] = {}])
  <2>1. CASE Receive(c) \/ Save(c) \/ Fill(c) \/ Cut(c) \/ List(c)
    BY <2>1, ReceiveStep, SaveStep, FillStep, CutStep, ListStep
       DEF Begins, Goes, Leaves, Receive, Save, Fill, Cut, List, fileVars
  <2>2. CASE Note(c)
    BY <2>2, NoteStep DEF Assembles, Leaves
  <2> QED BY <2>1, <2>2
<1>3. CASE UNCHANGED merged
  BY <1>1, <1>2, <1>3, KeepersKeep
<1>4. CASE call'[c].at = "merging" /\ merged' = [merged EXCEPT ![call'[c].path] = {}]
  <2>1. HoldsOn(c)'
    BY <1>4 DEF HoldsOn, Holding, At
  <2>2. \A p \in Call : call'[c].path = p \/ merged'[p] = merged[p]
    BY <1>1, <1>4 DEF FilesOK
  <2> QED BY <1>1, <1>2, <2>1, <2>2, KeepersKeep
<1> QED BY <1>2, <1>3, <1>4

LEMMA MiddleStepsHold ==
    ASSUME Base, FilesAreHeld, mishaps \subseteq mishaps', NEW c \in Call, UNCHANGED serviceVars,
           Merge(c) \/ Enqueue(c) \/ Take(c) \/ StoreNothing(c) \/ Store(c)
    PROVE  FilesAreHeld'
<1>1. \A p \in Call : call[c].path = p \/ merged'[p] = merged[p]
  <2>1. FilesOK
    BY DEF Base, Types
  <2> QED BY <2>1 DEF FilesOK, Merge, Enqueue, Take, StoreNothing, Store, fileVars
<1>2. \/ Leaves(c) /\ "enqueue" \in mishaps'
      \/ \E label \in {"enqueueing", "storing", "failing", "queued", "tidying"},
            n \in {0, call[c].attempts} : Goes(c, label, n)
  <2>1. PICK j, file : j = call[c].job /\ file = merged[call[c].path]
    OBVIOUS
  <2> QED BY <2>1, MergeStep, EnqueueStep, TakeStep, StoreNothingStep, StoreStep
<1>3. CASE "enqueue" \in mishaps'
  BY <1>3 DEF FilesAreHeld, Happened
<1>4. CASE \E label \in {"enqueueing", "storing", "failing", "queued", "tidying"},
              n \in {0, call[c].attempts} : Goes(c, label, n)
  <2>1. HoldsOn(c)' /\ call'[c].path = call[c].path /\ Others(c)
    BY <1>4 DEF Goes, HoldsOn, Holding, At, Uploading
  <2>2. HoldsOn(c)
    BY DEF HoldsOn, Holding, At, Uploading, Merge, Enqueue, Take, StoreNothing, Store
  <2> QED BY <1>1, <2>1, <2>2, KeepersKeep
<1> QED BY <1>2, <1>3, <1>4

LEMMA LateStepsHold ==
    ASSUME Base, FilesAreHeld, mishaps \subseteq mishaps', NEW c \in Call, UNCHANGED serviceVars,
           Tidy(c) \/ Complete(c) \/ Fail(c)
    PROVE  FilesAreHeld'
<1>1. FilesOK /\ call[c].path \in Call /\ Others(c)
  <2>1. Active(c)
    BY DEF Tidy, Complete, Fail, At, Active
  <2> QED BY <2>1, ActiveIsKnown, TidyStep, CompleteStep, FailStep DEF Base, Types, Goes, Leaves
<1>2. CASE Complete(c)
  <2>1. ~HoldsOn(c) /\ UNCHANGED merged
    BY <1>2 DEF HoldsOn, Complete, fileVars
  <2> QED BY <1>1, <2>1, KeepersKeep
<1>3. CASE Tidy(c) \/ Fail(c)
  <2>1. merged' = [merged EXCEPT ![call[c].path] = None]
    BY <1>3, TidyStep, FailStep DEF Deletes
  <2>2. \A p \in Call : merged'[p] # None => merged[p] # None /\ call[c].path # p
    BY <1>1, <2>1 DEF FilesOK
  <2> QED BY <1>1, <2>2, KeepersKeep
<1> QED BY <1>2, <1>3

LEMMA StallHolds ==
    ASSUME Base, FilesAreHeld, mishaps \subseteq mishaps', NEW c \in Call, NEW d \in Call, Stall(c, d),
           UNCHANGED serviceVars
    PROVE  FilesAreHeld'
<1>1. RunsTwice(c, d) /\ UNCHANGED merged
  BY StallStep DEF Stall, fileVars
<1> SUFFICES ASSUME NEW p \in Call, merged[p] # None, ~Happened({"enqueue", "crash"})'
             PROVE  \E x \in Call : call'[x].path = p /\ HoldsOn(x)'
  BY <1>1 DEF FilesAreHeld, HoldsOn
<1>2. PICK x \in Call : call[x].path = p /\ HoldsOn(x)
  <2>1. ~Happened({"enqueue", "crash"})
    BY DEF Happened
  <2> QED BY <2>1, HeldIsHeldOn
<1>3. x # d
  BY <1>1, <1>2 DEF RunsTwice, HoldsOn, Holding, At, Uploading
<1>4. call'[x].path = call[x].path /\ call'[x].at = call[x].at
  BY <1>1, <1>3 DEF RunsTwice
<1> QED BY <1>2, <1>4 DEF HoldsOn, Holding, At

LEMMA FilesStayHeld ==
    ASSUME Base, FilesAreHeld, [Next]_vars
    PROVE  FilesAreHeld'
<1>1. mishaps \subseteq mishaps'
  BY BaseKeeps
<1>2. CASE \E c \in Call : CallStep(c) /\ UNCHANGED serviceVars
  BY <1>1, <1>2, EarlyStepsHold, MiddleStepsHold, LateStepsHold DEF CallStep
<1>3. CASE \E c, d \in Call : Stall(c, d) /\ UNCHANGED serviceVars
  BY <1>1, <1>3, StallHolds
<1>4. CASE mishaps' = mishaps \cup {"crash"}
  BY <1>4 DEF FilesAreHeld, Happened
<1>5. CASE UNCHANGED <<call, merged>>
  BY <1>1, <1>5 DEF FilesAreHeld, Happened, Holding, At
<1>6. CASE \E j \in Job : JobStep(j)
  BY <1>5, <1>6 DEF JobStep, Initiate, Transcode, Webhook, Expire, fileVars
<1>7. CASE UNCHANGED chunkedVars \/ UNCHANGED vars
  BY <1>5, <1>7, NothingChanges DEF chunkedVars, fileVars
<1> QED BY <1>2, <1>3, <1>4, <1>6, <1>7, Steps

-----------------------------------------------------------------------------
(* Copies are counted *)

\* c is the request, or the task, that works for j.
Busy(c, j) == Active(c) /\ call[c].job = j

\* Its file was stored, and is not stored once more.
After(c) ==
    \/ call[c].at \in {"tidying", "failing"}
    \/ call[c].at \in {"queued", "storing", "completing"} /\ merged[call[c].path] = None

Calm == ~Happened({"crash", "stall", "same path"})
Counted(j) == copies[j] \in {0, 1} /\ (copies[j] = 1 => \A c \in Call : Busy(c, j) => After(c))

LEMMA CountedIsCounted == CopiesAreCounted <=> (Calm => \A j \in Job \ crowded : Counted(j))
BY DEF CopiesAreCounted, Calm, Counted, Busy, After

LEMMA CalmWas ==
    ASSUME mishaps \subseteq mishaps', Calm'
    PROVE  Calm /\ "same path" \notin mishaps /\ "same path" \notin mishaps'
BY DEF Calm, Happened

LEMMA CountStays ==
    ASSUME Base, NEW c \in Call, Others(c), Spares(c), NEW j \in Job, Counted(j),
           copies'[j] = copies[j], Busy(c, j)' => Busy(c, j) /\ (After(c) => After(c)')
    PROVE  Counted(j)'
<1> SUFFICES ASSUME copies[j] = 1, NEW x \in Call, Busy(x, j)' PROVE After(x)'
  BY DEF Counted
<1>1. CASE x = c
  BY <1>1 DEF Counted
<1>2. CASE x # c
  <2>1. call'[x] = call[x] /\ Busy(x, j)
    BY <1>2 DEF Others, Busy, Active
  <2>2. After(x)
    BY <2>1 DEF Counted
  <2>3. merged'[call[x].path] = merged[call[x].path] \/ merged'[call[x].path] = None
    BY <1>2, <2>1 DEF Spares, Busy
  <2> QED BY <2>1, <2>2, <2>3 DEF After
<1> QED BY <1>1, <1>2

\* A step of c that stores nothing.
LEMMA CallsStayCounted ==
    ASSUME Base, CopiesAreCounted, mishaps \subseteq mishaps', NEW c \in Call, UNCHANGED <<copies, crowded>>,
           Calm' => /\ Others(c) /\ Spares(c)
                    /\ Active(c)' => Active(c) /\ call'[c].job = call[c].job /\ (After(c) => After(c)')
    PROVE  CopiesAreCounted'
<1> SUFFICES ASSUME Calm', NEW j \in Job \ crowded PROVE Counted(j)'
  BY DEF CopiesAreCounted, Calm, Counted, Busy, After
<1>1. Counted(j)
  BY CalmWas, CountedIsCounted
<1> QED BY <1>1, CountStays DEF Busy

LEMMA ReceiveCounts ==
    ASSUME Base, CopiesAreCounted, NEW c \in Call, UNCHANGED serviceVars, Receive(c)
    PROVE  CopiesAreCounted'
<1>1. PICK j \in Job, i \in Nat : Begins(c, j) /\ Notes(c, j, i)
  BY ReceiveStep
<1>2. UNCHANGED <<merged, mishaps>> /\ mishaps \subseteq mishaps' /\ copies \in [Job -> Nat]
  BY DEF Receive, fileVars, Base, Types, FilesOK
<1> SUFFICES ASSUME Calm', NEW x \in Job \ crowded' PROVE Counted(x)'
  BY DEF CopiesAreCounted, Calm, Counted, Busy, After
<1>3. x \notin crowded /\ Others(c) /\ Spares(c)
  BY <1>1, <1>2 DEF Notes, Begins, Spares
<1>4. Counted(x)
  BY <1>2, <1>3, CalmWas, CountedIsCounted
<1>5. CASE x = j
  <2>1. copies'[x] = 0
    BY <1>1, <1>2, <1>5 DEF Notes
  <2> QED BY <2>1 DEF Counted
<1>6. CASE x # j
  <2>1. copies'[x] = copies[x] /\ ~Busy(c, x)'
    BY <1>1, <1>2, <1>6 DEF Notes, Begins, Busy
  <2> QED BY <1>3, <1>4, <2>1, CountStays
<1> QED BY <1>5, <1>6

LEMMA EarlyStepsCount ==
    ASSUME Base, CopiesAreCounted, mishaps \subseteq mishaps', NEW c \in Call, UNCHANGED serviceVars,
           Save(c) \/ Fill(c) \/ Cut(c) \/ List(c) \/ Note(c) \/ Merge(c) \/ Enqueue(c)
    PROVE  CopiesAreCounted'
<1>1. /\ Active(c) /\ ~After(c) /\ UNCHANGED <<copies, crowded>> /\ FilesOK /\ call[c].path \in Call
  <2>1. call[c].at \in {"saving", "writing", "listing", "noting", "merging", "enqueueing"}
    BY DEF Save, Fill, Cut, List, Note, Merge, Enqueue, At
  <2>2. UNCHANGED <<copies, crowded>>
    BY DEF Save, Fill, Cut, List, Note, Merge, Enqueue, historyVars
  <2>3. Active(c)
    BY <2>1 DEF Active
  <2> QED BY <2>1, <2>2, <2>3, ActiveIsKnown DEF Active, After, Base, Types
<1>2. /\ Others(c) /\ ~InQueue(c) /\ (Active(c)' => call'[c].job = call[c].job)
      /\ \/ UNCHANGED merged
         \/ \E file \in Content \cup {None} : merged' = [merged EXCEPT ![call[c].path] = file]
         \/ "same path" \in mishaps'
  <2>1. CASE Save(c) \/ Fill(c) \/ Cut(c) \/ List(c) \/ Enqueue(c)
    BY <2>1, SaveStep, FillStep, CutStep, ListStep, EnqueueStep
       DEF Goes, Leaves, Active, Save, Fill, Cut, List, Enqueue, fileVars
  <2>2. CASE Note(c)
    <3>1. {} \in Content
      BY DEF Content
    <3> QED BY <2>2, <3>1, NoteStep DEF Assembles, Leaves, Active
  <2>3. CASE Merge(c)
    <3>1. /\ Goes(c, "enqueueing", call[c].attempts) \/ Goes(c, "storing", call[c].attempts)
             \/ Goes(c, "failing", call[c].attempts)
          /\ ~InQueue(c) /\ call[c].job \in Job
          /\ \/ UNCHANGED merged
             \/ merged' = [merged EXCEPT ![call[c].path] =
                              IF @ = None THEN None ELSE @ \cup Assembled(call[c].job)]
      BY <2>3, MergeStep
    <3> DEFINE file == IF merged[call[c].path] = None THEN None
                       ELSE merged[call[c].path] \cup Assembled(call[c].job)
    <3>2. file \in Content \cup {None}
      BY <1>1, <3>1, AssembledIsContent DEF FilesOK
    <3>3. UNCHANGED merged \/ merged' = [merged EXCEPT ![call[c].path] = file]
      BY <3>1
    <3> HIDE DEF file
    <3> QED BY <3>1, <3>2, <3>3 DEF Goes
  <2> QED BY <2>1, <2>2, <2>3
<1>3. ASSUME Calm' PROVE Spares(c)
  <2>1. CASE UNCHANGED merged
    BY <2>1 DEF Spares
  <2>2. ASSUME NEW file \in Content \cup {None}, merged' = [merged EXCEPT ![call[c].path] = file]
        PROVE  Spares(c)
    BY <1>1, <1>2, <1>3, <2>2, CalmWas, OwnFileSpares
  <2> QED BY <1>2, <1>3, <2>1, <2>2, CalmWas
<1> QED BY <1>1, <1>2, <1>3, CallsStayCounted

LEMMA LateStepsCount ==
    ASSUME Base, CopiesAreCounted, mishaps \subseteq mishaps', NEW c \in Call, UNCHANGED serviceVars,
           Take(c) \/ StoreNothing(c) \/ Tidy(c) \/ Complete(c) \/ Fail(c)
    PROVE  CopiesAreCounted'
<1>1. /\ Active(c) /\ UNCHANGED <<copies, crowded>> /\ FilesOK /\ call[c].path \in Call
  <2>1. Active(c) /\ UNCHANGED <<copies, crowded>>
    BY DEF Take, StoreNothing, Tidy, Complete, Fail, At, Active, historyVars
  <2> QED BY <2>1, ActiveIsKnown DEF Base, Types
<1>2. CASE Take(c) \/ StoreNothing(c) \/ Complete(c)
  <2>1. /\ Others(c) /\ Spares(c) /\ UNCHANGED merged
        /\ \/ Leaves(c) \/ Goes(c, "failing", call[c].attempts)
           \/ Goes(c, "storing", call[c].attempts) /\ At(c, "queued")
    BY <1>2, TakeStep, StoreNothingStep, CompleteStep
       DEF Goes, Leaves, Take, StoreNothing, Complete, fileVars, Spares
  <2>2. Active(c)' => call'[c].job = call[c].job /\ (After(c) => After(c)')
    BY <2>1 DEF Goes, Leaves, Active, After, At
  <2> QED BY <1>1, <2>1, <2>2, CallsStayCounted
<1>3. CASE Tidy(c) \/ Fail(c)
  <2>1. /\ Others(c) /\ Deletes(c)
        /\ \/ Leaves(c) \/ Goes(c, "failing", call[c].attempts) \/ Goes(c, "completing", call[c].attempts)
           \/ Goes(c, "queued", call[c].attempts + 1)
    BY <1>3, TidyStep, FailStep DEF Goes, Leaves
  <2>2. ASSUME Calm'
        PROVE  Spares(c) /\ (Active(c)' => call'[c].job = call[c].job /\ After(c)')
    <3>1. Spares(c) /\ merged'[call[c].path] = None
      BY <1>1, <2>1, <2>2, CalmWas, DeletingSpares
    <3> QED BY <2>1, <3>1 DEF Goes, Leaves, Active, After
  <2> QED BY <1>1, <2>1, <2>2, CallsStayCounted
<1> QED BY <1>2, <1>3

LEMMA StoreCounts ==
    ASSUME Base, CopiesAreCounted, mishaps \subseteq mishaps', NEW c \in Call, UNCHANGED serviceVars, Store(c)
    PROVE  CopiesAreCounted'
<1>1. PICK j, file : j \in Job /\ j = call[c].job /\ file = merged[call[c].path]
  BY ActiveIsKnown DEF Base, Store, At, Active
<1>2. /\ Active(c) /\ Others(c) /\ Spares(c) /\ call'[c].job = j /\ call'[c].at \in {"tidying", "failing"}
      /\ file # None /\ At(c, "storing") /\ UNCHANGED <<merged, crowded>> /\ copies \in [Job -> Nat]
      /\ HasCopy(c) \/ UNCHANGED copies
  BY <1>1, StoreStep DEF Store, Goes, Spares, fileVars, Base, Types, FilesOK
<1> SUFFICES ASSUME Calm', NEW x \in Job \ crowded PROVE Counted(x)'
  BY <1>2 DEF CopiesAreCounted, Calm, Counted, Busy, After
<1>3. Counted(x)
  BY CalmWas, CountedIsCounted
<1>4. CASE x = j
  <2>1. copies[j] = 0
    BY <1>1, <1>2, <1>3, <1>4 DEF Counted, Busy, After, At
  <2>2. copies'[j] \in {0, 1}
    BY <1>1, <1>2, <2>1 DEF HasCopy
  <2>3. ASSUME NEW d \in Call, Busy(d, j)' PROVE d = c
    <3>1. "stall" \notin mishaps
      BY DEF Calm, Happened
    <3>2. CASE d # c
      <4>1. call'[d] = call[d]
        BY <1>2, <3>2 DEF Others
      <4> QED BY <1>1, <1>2, <1>4, <2>3, <3>1, <3>2, <4>1, RunsAreTwo DEF Busy, Active
    <3> QED BY <3>2
  <2>4. After(c)'
    BY <1>2 DEF After
  <2> QED BY <1>4, <2>2, <2>3, <2>4 DEF Counted
<1>5. CASE x # j
  <2>1. copies'[x] = copies[x] /\ ~Busy(c, x)'
    BY <1>1, <1>2, <1>5 DEF HasCopy, Busy
  <2> QED BY <1>2, <1>3, <2>1, CountStays
<1> QED BY <1>4, <1>5

LEMMA CopiesStayCounted ==
    ASSUME Base, CopiesAreCounted, [Next]_vars
    PROVE  CopiesAreCounted'
<1>1. mishaps \subseteq mishaps'
  BY BaseKeeps
<1>2. CASE \E c \in Call : CallStep(c) /\ UNCHANGED serviceVars
  BY <1>1, <1>2, ReceiveCounts, EarlyStepsCount, LateStepsCount, StoreCounts DEF CallStep
<1>3. CASE \E c, d \in Call : Stall(c, d) /\ UNCHANGED serviceVars
  <2>1. "stall" \in mishaps'
    BY <1>3, StallStep
  <2> QED BY <2>1 DEF CopiesAreCounted, Happened
<1>4. CASE mishaps' = mishaps \cup {"crash"}
  BY <1>4 DEF CopiesAreCounted, Happened
<1>5. CASE UNCHANGED <<call, merged, copies, crowded>>
  BY <1>1, <1>5 DEF CopiesAreCounted, Happened, Active
<1>6. CASE \E j \in Job : JobStep(j)
  BY <1>5, <1>6 DEF JobStep, Initiate, Transcode, Webhook, Expire, fileVars, historyVars
<1>7. CASE UNCHANGED chunkedVars \/ UNCHANGED vars
  BY <1>5, <1>7, NothingChanges DEF chunkedVars, fileVars, historyVars
<1> QED BY <1>2, <1>3, <1>4, <1>6, <1>7, Steps

-----------------------------------------------------------------------------
(* Outcomes are owed, and the contract is followed: the job of a step *)

Announced(j) == hook[j] = "ok" \/ status[j] = "done"
Waiting(j) == status[j] \in {"pending", "uploading"}
Late(c) ==
    \/ call[c].at \in {"tidying", "completing"}
    \/ Shaken /\ (InQueue(c) \/ At(c, "failing"))

Owed(j) ==
    /\ hook[j] = "failed" => "transcode" \in mishaps
    /\ hook[j] = "ok" /\ Waiting(j) => Processing(j) \/ Dropped
    /\ \A c \in Call : Busy(c, j) /\ Announced(j) => Late(c)

LEMMA OwedIsOwed == OutcomesAreOwed <=> \A j \in Job \ disturbed : Owed(j)
BY DEF OutcomesAreOwed, Owed, Announced, Waiting, Late, Busy

LEMMA FaultsAreRemembered ==
    ASSUME mishaps \subseteq mishaps'
    PROVE  (Shaken => Shaken') /\ (Dropped => Dropped')
BY DEF Shaken, Dropped, Happened

Follows(j) == [Contract(j)!Next]_(Phase(j))

\* What a step of the contract is.
LEMMA ContractSteps ==
    ASSUME NEW j \in Job,
           \/ Phase(j)' = Phase(j)
           \/ Phase(j)' = "excused"
           \/ Phase(j) = "absent" /\ Phase(j)' \in {"collecting", "done"}
           \/ Phase(j) \in {"collecting", "failed"} /\ Phase(j)' = "processing"
           \/ Phase(j) = "processing" /\ Phase(j)' \in {"done", "failed"}
           \/ Phase(j) = "failed" /\ Phase(j)' \in {"collecting", "done"}
           \/ Shaken' /\ \/ Phase(j) = "done" /\ Phase(j)' \in {"processing", "failed"}
                         \/ Phase(j) = "collecting" /\ Phase(j)' = "failed"
           \/ Dropped' /\ \/ Phase(j) = "processing" /\ Phase(j)' = "collecting"
                          \/ Phase(j) = "collecting" /\ Phase(j)' = "done"
           \/ Forgotten' /\ Phase(j)' = "absent"
    PROVE  Follows(j)
BY DEF Contract!Next, Contract!Begin, Contract!Assemble, Contract!Settle, Contract!Recover,
       Contract!Relapse, Contract!Drop, Contract!Forget, Contract!Excuse, Contract!Go, Follows

LEMMA PhaseIs ==
    ASSUME Base, NEW j \in Job \ disturbed
    PROVE  /\ (status[j] = None /\ Phase(j) = "absent") \/ Waiting(j) \/ status[j] \in {"done", "failed"}
           /\ status[j] \in {"done", "failed"} => Phase(j) = status[j]
           /\ Waiting(j) /\ Processing(j) => Phase(j) = "processing"
           /\ Waiting(j) /\ ~Processing(j) => Phase(j) = "collecting"
<1>1. status[j] \in {"pending", "uploading", "done", "failed", None}
  BY DEF Base, Types, JobsOK
<1> QED BY <1>1, ChunkAssumption DEF Phase, Waiting

LEMMA PhaseWillBe ==
    ASSUME NEW j \in Job \ disturbed'
    PROVE  /\ status'[j] = None => Phase(j)' = "absent"
           /\ status'[j] \in {"done", "failed"} => Phase(j)' = status'[j]
           /\ Waiting(j)' /\ Processing(j)' => Phase(j)' = "processing"
           /\ Waiting(j)' /\ ~Processing(j)' => Phase(j)' = "collecting"
BY ChunkAssumption DEF Phase, Waiting

LEMMA ProcessingIsBusy ==
    ASSUME NEW j \in Job
    PROVE  /\ Processing(j) <=> \E c \in Call : Busy(c, j) /\ Holding(c)
           /\ Processing(j)' <=> \E c \in Call : Busy(c, j)' /\ Holding(c)'
BY DEF Processing, Busy, Active, Holding, Uploading

LEMMA PhaseStays ==
    ASSUME Base, NEW j \in Job \ disturbed, j \notin disturbed', status'[j] = status[j],
           Processing(j)' <=> Processing(j)
    PROVE  Phase(j)' = Phase(j)
BY DEF Phase

\* c is at work for j, whose client waits, and makes a step.
Tends(c, j) ==
    /\ Base /\ Owed(j) /\ j \in Job \ disturbed /\ Busy(c, j)
    /\ Others(c) /\ UNCHANGED disturbed /\ mishaps \subseteq mishaps'

\* Others at work for j are runs of the same task.
LEMMA Workmates ==
    ASSUME NEW j \in Job, NEW c \in Call, Tends(c, j), NEW d \in Call \ {c}, Busy(d, j) \/ Busy(d, j)'
    PROVE  /\ Busy(d, j) /\ InQueue(c) /\ InQueue(d) /\ Holding(d) /\ "stall" \in mishaps
           /\ Busy(d, j)' /\ InQueue(d)' /\ Holding(d)' /\ "stall" \in mishaps'
<1>1. call'[d] = call[d] /\ Busy(d, j)
  BY DEF Tends, Others, Busy, Active
<1>2. j \notin crowded
  BY DEF Tends, Base, Types, JobsOK
<1>3. InQueue(c) /\ InQueue(d) /\ "stall" \in mishaps
  BY <1>1, <1>2, RunsAreTwo DEF Tends, Busy
<1>4. Holding(d)
  BY <1>3 DEF Tends, Base, Types, CallsOK, CallOK, Holding, At
<1> QED BY <1>1, <1>3, <1>4 DEF Busy, Active, InQueue, Holding, At, Tends

LEMMA Workers ==
    ASSUME NEW j \in Job, NEW c \in Call, Tends(c, j)
    PROVE  /\ Processing(j) <=> Holding(c)
           /\ Holding(c)' /\ call'[c].job = j => Processing(j)'
           /\ Processing(j)' => (Holding(c)' /\ call'[c].job = j) \/ InQueue(c)
<1>1. InQueue(c) => Holding(c)
  BY DEF Tends, Base, Types, CallsOK, CallOK, Holding, At
<1>2. ASSUME Processing(j) PROVE Holding(c)
  <2>1. PICK d \in Call : Busy(d, j) /\ Holding(d)
    BY <1>2, ProcessingIsBusy
  <2> QED BY <1>1, <2>1, Workmates
<1>3. ASSUME Processing(j)' PROVE (Holding(c)' /\ call'[c].job = j) \/ InQueue(c)
  <2>1. PICK d \in Call : Busy(d, j)' /\ Holding(d)'
    BY <1>3, ProcessingIsBusy
  <2> QED BY <2>1, Workmates DEF Busy
<1>4. Holding(c) => Processing(j)
  BY DEF Tends, Busy, Processing
<1>5. Holding(c)' /\ call'[c].job = j => Processing(j)'
  BY DEF Processing
<1> QED BY <1>2, <1>3, <1>4, <1>5

LEMMA NothingIsOwed ==
    ASSUME NEW j \in Job, hook'[j] = "failed" => "transcode" \in mishaps', ~Announced(j)'
    PROVE  Owed(j)'
BY DEF Owed, Announced

LEMMA ItsOutcomeIsOwed ==
    ASSUME NEW j \in Job, NEW c \in Call, Tends(c, j),
           hook'[j] = "failed" => hook[j] = "failed",
           hook'[j] = "ok" /\ Waiting(j)' => (Holding(c)' /\ call'[c].job = j) \/ Dropped',
           Busy(c, j)' /\ Announced(j)' => Late(c)'
    PROVE  Owed(j)'
<1>1. hook'[j] = "failed" => "transcode" \in mishaps'
  BY DEF Tends, Owed
<1>2. hook'[j] = "ok" /\ Waiting(j)' => Processing(j)' \/ Dropped'
  BY Workers
<1>3. ASSUME NEW d \in Call, Busy(d, j)', Announced(j)' PROVE Late(d)'
  <2>1. CASE d = c
    BY <1>3, <2>1
  <2>2. CASE d # c
    BY <1>3, <2>2, Workmates DEF Late, Shaken, Happened
  <2> QED BY <2>1, <2>2
<1> QED BY <1>1, <1>2, <1>3 DEF Owed

\* Its outcome is owed after the step, and the step is one of the contract.
Fares(j) == Owed(j)' /\ Follows(j)

LEMMA EarlyStepFares ==
    ASSUME NEW j \in Job, NEW c \in Call, Tends(c, j), UNCHANGED serviceVars,
           Save(c) \/ Fill(c) \/ Cut(c) \/ List(c)
    PROVE  Fares(j)
<1>1. /\ ~InQueue(c) /\ ~Holding(c) /\ ~Late(c) /\ UNCHANGED <<status, hook>>
      /\ call'[c].at \in {"writing", "listing", "noting", "over"}
  <2>1. call[c].at \in {"saving", "writing", "listing"} /\ UNCHANGED <<status, hook>>
    BY DEF Save, Fill, Cut, List, At, jobVars
  <2>2. ~InQueue(c) /\ call'[c].at \in {"writing", "listing", "noting", "over"}
    BY SaveStep, FillStep, CutStep, ListStep DEF Goes, Leaves, Tends
  <2> QED BY <2>1, <2>2 DEF Holding, Late, At, Uploading
<1>2. ~Announced(j) /\ ~Announced(j)' /\ Owed(j)'
  BY <1>1, NothingIsOwed, FaultsAreRemembered DEF Tends, Owed, Announced
<1>3. ~Holding(c)'
  BY <1>1 DEF Holding, At, Uploading
<1>4. Processing(j)' <=> Processing(j)
  BY <1>1, <1>3, Workers
<1> QED BY <1>1, <1>2, <1>4, PhaseStays, ContractSteps DEF Fares, Tends

LEMMA NoteFares ==
    ASSUME NEW j \in Job, NEW c \in Call, Tends(c, j), UNCHANGED serviceVars, Note(c)
    PROVE  Fares(j)
<1>1. /\ ~InQueue(c) /\ ~Holding(c) /\ ~Late(c) /\ UNCHANGED hook
      /\ \/ Becomes(j, "uploading", None) /\ (Leaves(c) \/ Assembles(c))
         \/ Broken(j, "uploading", None) /\ Leaves(c)
  BY NoteStep DEF Note, Tends, Busy, At, Holding, Late, Uploading
<1>2. ~Announced(j) /\ status'[j] \in {None, "uploading", status[j]}
      /\ (status[j] = None <=> status'[j] = None)
  BY <1>1, ChunkAssumption DEF Tends, Owed, Becomes, Broken, jobVars
<1>3. ~Announced(j)' /\ Owed(j)'
  <2>1. ~Announced(j)'
    BY <1>1, <1>2, ChunkAssumption DEF Announced
  <2> QED BY <1>1, <2>1, NothingIsOwed DEF Tends, Owed
<1>4. ~Processing(j)
  BY <1>1, Workers
<1>5. \/ status[j] = None /\ Phase(j) = "absent"
      \/ Phase(j) = "collecting" /\ Waiting(j)
      \/ Phase(j) = "failed" /\ status[j] = "failed"
  BY <1>2, <1>4, PhaseIs DEF Tends, Announced
<1>6. CASE status'[j] = None
  <2>1. Phase(j)' = "absent" /\ Phase(j) = "absent"
    BY <1>2, <1>5, <1>6, PhaseWillBe, ChunkAssumption DEF Tends, Waiting
  <2> QED BY <1>3, <2>1, ContractSteps DEF Fares
<1>7. CASE status'[j] = "uploading"
  <2>1. Phase(j)' \in {"processing", "collecting"}
    BY <1>7, PhaseWillBe DEF Tends, Waiting
  <2>2. status[j] # None
    BY <1>2, <1>7, ChunkAssumption
  <2> QED BY <1>3, <1>5, <2>1, <2>2, ContractSteps DEF Fares
<1>8. CASE status'[j] = status[j] /\ Leaves(c)
  <2>1. ~Processing(j)'
    BY <1>1, <1>8, Workers DEF Leaves, Holding, At, Uploading
  <2> QED BY <1>3, <1>4, <1>8, <2>1, PhaseStays, ContractSteps DEF Fares, Tends
<1>9. CASE status'[j] = status[j] /\ Becomes(j, "uploading", None)
  BY <1>6, <1>7, <1>9, ChunkAssumption DEF Becomes
<1> QED BY <1>1, <1>2, <1>6, <1>7, <1>8, <1>9

LEMMA PrepareFares ==
    ASSUME NEW j \in Job, NEW c \in Call, Tends(c, j), UNCHANGED serviceVars, Merge(c) \/ Enqueue(c)
    PROVE  Fares(j)
<1>1. /\ ~InQueue(c) /\ Holding(c) /\ ~Late(c) /\ UNCHANGED <<hook, status>>
      /\ \/ Leaves(c) /\ "enqueue" \in mishaps'
         \/ call'[c].at \in {"enqueueing", "storing", "failing", "queued"} /\ call'[c].job = j
  <2>1. call[c].at \in {"merging", "enqueueing"} /\ UNCHANGED <<hook, status>> /\ call[c].job = j
    BY DEF Merge, Enqueue, At, jobVars, Tends, Busy
  <2>2. ~InQueue(c) /\ (\/ Leaves(c) /\ "enqueue" \in mishaps'
                        \/ \E n \in {0, call[c].attempts} :
                              \E label \in {"enqueueing", "storing", "failing", "queued"} : Goes(c, label, n))
    BY MergeStep, EnqueueStep DEF Tends
  <2> QED BY <2>1, <2>2 DEF Goes, Holding, Late, At, Uploading
<1>2. ~Announced(j)' /\ Owed(j)'
  BY <1>1, NothingIsOwed DEF Tends, Owed, Announced
<1>3. Processing(j)
  BY <1>1, Workers
<1>4. CASE Leaves(c) /\ "enqueue" \in mishaps'
  <2>1. Dropped'
    BY <1>4 DEF Dropped, Happened
  <2>2. CASE Processing(j)'
    BY <1>1, <1>2, <1>3, <2>2, PhaseStays, ContractSteps DEF Fares, Tends
  <2>3. CASE ~Processing(j)'
    <3>1. CASE Waiting(j)
      <4>1. Phase(j) = "processing" /\ Phase(j)' = "collecting"
        BY <1>1, <1>3, <2>3, <3>1, PhaseIs, PhaseWillBe DEF Tends, Waiting
      <4> QED BY <1>2, <2>1, <4>1, ContractSteps DEF Fares
    <3>2. CASE ~Waiting(j)
      <4>1. Phase(j)' = Phase(j)
        BY <1>1, <3>2, PhaseIs, PhaseWillBe DEF Tends
      <4> QED BY <1>2, <4>1, ContractSteps DEF Fares
    <3> QED BY <3>1, <3>2
  <2> QED BY <2>2, <2>3
<1>5. CASE call'[c].at \in {"enqueueing", "storing", "failing", "queued"} /\ call'[c].job = j
  <2>1. Processing(j)'
    BY <1>5, Workers DEF Holding, At, Uploading
  <2> QED BY <1>1, <1>2, <1>3, <2>1, PhaseStays, ContractSteps DEF Fares, Tends
<1> QED BY <1>1, <1>4, <1>5

LEMMA TakeFares ==
    ASSUME NEW j \in Job, NEW c \in Call, Tends(c, j), UNCHANGED serviceVars, Take(c)
    PROVE  Fares(j)
<1>1. /\ InQueue(c) /\ At(c, "queued") /\ Holding(c) /\ UNCHANGED hook
      /\ Becomes(j, "uploading", None) \/ Broken(j, "uploading", None)
      /\ call'[c].job = j /\ InQueue(c)' /\ call'[c].at \in {"storing", "failing"}
  <2>1. call[c].job = j
    BY DEF Tends, Busy
  <2> QED BY <2>1, TakeStep DEF Take, Tends, At, Holding, Goes, InQueue
<1>2. /\ status'[j] \in {None, "uploading", status[j]}
      /\ status[j] = None <=> status'[j] = None
  BY <1>1, ChunkAssumption DEF Becomes, Broken, jobVars
<1>3. Announced(j) => Shaken'
  BY <1>1, FaultsAreRemembered DEF Tends, Owed, Late, At
<1>4. Holding(c)' /\ Processing(j) /\ Processing(j)'
  BY <1>1, Workers DEF Holding, At, Uploading
<1>5. Owed(j)'
  <2>1. Announced(j)' => Announced(j)
    BY <1>1, <1>2, ChunkAssumption DEF Announced
  <2> QED BY <1>1, <1>3, <1>4, <2>1, ItsOutcomeIsOwed DEF Late
<1>6. CASE status'[j] = status[j]
  BY <1>4, <1>5, <1>6, PhaseStays, ContractSteps DEF Fares, Tends
<1>7. CASE status'[j] = "uploading"
  <2>1. Phase(j)' = "processing"
    BY <1>4, <1>7, PhaseWillBe DEF Tends, Waiting
  <2>2. \/ Phase(j) = "processing" \/ Phase(j) = "failed"
        \/ Phase(j) = "done" /\ Shaken'
    <3>1. status[j] # None
      BY <1>2, <1>7, ChunkAssumption
    <3> QED BY <1>3, <1>4, <3>1, PhaseIs DEF Tends, Announced
  <2> QED BY <1>5, <2>1, <2>2, ContractSteps DEF Fares
<1> QED BY <1>2, <1>6, <1>7

LEMMA StoreFares ==
    ASSUME NEW j \in Job, NEW c \in Call, Tends(c, j), UNCHANGED serviceVars,
           Store(c) \/ StoreNothing(c) \/ Tidy(c)
    PROVE  Fares(j)
<1>1. /\ Holding(c) /\ UNCHANGED status /\ call'[c].job = j /\ (InQueue(c)' <=> InQueue(c))
      /\ hook'[j] = "failed" => hook[j] = "failed"
      /\ \/ call'[c].at \in {"tidying", "completing"}
         \/ At(c, "failing")' /\ ({"lost", "cache"} \cap mishaps' # {} \/ (UNCHANGED hook /\ At(c, "storing")))
  <2>1. /\ call[c].job = j /\ Holding(c) /\ UNCHANGED status /\ hook \in [Job -> {"ok", "failed", None}]
    BY DEF Tends, Busy, Store, StoreNothing, Tidy, At, Holding, Uploading, jobVars, Base, Types, FilesOK
  <2>2. CASE Store(c)
    <3>1. PICK file : file = merged[call[c].path]
      OBVIOUS
    <3>2. /\ \/ Goes(c, "tidying", call[c].attempts) /\ HasCopy(c)
             \/ Goes(c, "failing", call[c].attempts) /\ HasCopy(c) /\ "lost" \in mishaps'
             \/ Goes(c, "failing", call[c].attempts) /\ UNCHANGED hook
          /\ At(c, "storing")
      BY <2>1, <2>2, <3>1, StoreStep DEF Tends, Store
    <3>3. hook'[j] = "failed" => hook[j] = "failed"
      BY <2>1, <3>2 DEF HasCopy
    <3> QED BY <2>1, <3>2, <3>3 DEF Goes, InQueue, At
  <2>3. CASE StoreNothing(c)
    BY <2>1, <2>3, StoreNothingStep DEF StoreNothing, Tends, Goes, InQueue, At
  <2>4. CASE Tidy(c)
    BY <2>1, <2>4, TidyStep DEF Tidy, Tends, Goes, InQueue, At
  <2> QED BY <2>2, <2>3, <2>4
<1>2. Processing(j) /\ Processing(j)' /\ Holding(c)'
  BY <1>1, Workers DEF Holding, At, Uploading
<1>3. ASSUME Announced(j)' PROVE Late(c)'
  <2>1. CASE call'[c].at \in {"tidying", "completing"}
    BY <2>1 DEF Late
  <2>2. CASE At(c, "failing")' /\ {"lost", "cache"} \cap mishaps' # {}
    BY <2>2 DEF Late, Shaken, Happened
  <2>3. CASE At(c, "failing")' /\ UNCHANGED hook /\ At(c, "storing")
    <3>1. Shaken
      BY <1>1, <1>3, <2>3 DEF Announced, Tends, Owed, Late, At
    <3> QED BY <2>3, <3>1, FaultsAreRemembered DEF Late, Tends
  <2> QED BY <1>1, <2>1, <2>2, <2>3
<1>4. Owed(j)'
  BY <1>1, <1>2, <1>3, ItsOutcomeIsOwed
<1> QED BY <1>1, <1>2, <1>4, PhaseStays, ContractSteps DEF Fares, Tends

LEMMA CompleteFares ==
    ASSUME NEW j \in Job, NEW c \in Call, Tends(c, j), UNCHANGED serviceVars, Complete(c)
    PROVE  Fares(j)
<1>1. /\ Holding(c) /\ UNCHANGED hook
      /\ \/ Becomes(j, "done", j) /\ Leaves(c)
         \/ /\ Broken(j, "done", j) /\ call'[c].at = "failing" /\ call'[c].job = j
  <2>1. call[c].job = j
    BY DEF Tends, Busy
  <2> QED BY <2>1, CompleteStep DEF Complete, Tends, At, Holding, Goes, Uploading
<1>2. Processing(j)
  BY <1>1, Workers
<1>3. Owed(j)'
  <2>1. CASE Becomes(j, "done", j) /\ Leaves(c)
    <3>1. ~Waiting(j)' /\ ~Busy(c, j)'
      BY <2>1, ChunkAssumption DEF Becomes, Waiting, Leaves, Busy, Active
    <3> QED BY <1>1, <3>1, ItsOutcomeIsOwed
  <2>2. CASE Broken(j, "done", j) /\ call'[c].at = "failing" /\ call'[c].job = j
    <3>1. Holding(c)' /\ Shaken'
      BY <2>2 DEF Holding, At, Uploading, Broken, Shaken, Happened
    <3> QED BY <1>1, <2>2, <3>1, ItsOutcomeIsOwed DEF Late, At
  <2> QED BY <1>1, <2>1, <2>2
<1>4. CASE Becomes(j, "done", j)
  <2>1. CASE status[j] = None
    BY <1>3, <1>4, <2>1, PhaseIs, PhaseWillBe, ContractSteps, ChunkAssumption
       DEF Becomes, Fares, Tends, Waiting
  <2>2. CASE status[j] # None
    <3>1. Phase(j)' = "done"
      BY <1>4, <2>2, PhaseWillBe DEF Becomes, Tends
    <3>2. Phase(j) \in {"processing", "done", "failed"}
      BY <1>2, <2>2, PhaseIs DEF Tends
    <3> QED BY <1>3, <3>1, <3>2, ContractSteps DEF Fares
  <2> QED BY <2>1, <2>2
<1>5. CASE UNCHANGED jobVars /\ call'[c].at = "failing" /\ call'[c].job = j
  <2>1. Processing(j)'
    BY <1>5, Workers DEF Holding, At, Uploading
  <2> QED BY <1>2, <1>3, <1>5, <2>1, PhaseStays, ContractSteps DEF Fares, Tends, jobVars
<1> QED BY <1>1, <1>4, <1>5 DEF Broken

LEMMA FailFares ==
    ASSUME NEW j \in Job, NEW c \in Call, Tends(c, j), UNCHANGED serviceVars, Fail(c)
    PROVE  Fares(j)
<1>1. /\ At(c, "failing") /\ Holding(c) /\ UNCHANGED hook
      /\ Becomes(j, "failed", None) \/ Broken(j, "failed", None)
      /\ \/ Leaves(c)
         \/ InQueue(c) /\ InQueue(c)' /\ call'[c].at = "queued" /\ call'[c].job = j
  <2>1. call[c].job = j /\ call[c].attempts \in -1 .. MaxAttempts - 1
    BY ActiveIsKnown DEF Tends, Busy, Base
  <2> QED BY <2>1, FailStep DEF Fail, Tends, At, Holding, Goes, Uploading, InQueue
<1>2. Processing(j) /\ (Announced(j) => Shaken')
  BY <1>1, Workers, FaultsAreRemembered DEF Tends, Owed, Late, At
<1>3. /\ \/ status'[j] = None /\ status[j] = None
         \/ status'[j] = "failed" /\ status[j] # None
         \/ status'[j] = status[j] /\ Dropped'
      /\ Announced(j)' => Announced(j)
  BY <1>1, ChunkAssumption DEF Becomes, Broken, jobVars, Announced, Dropped, Happened
<1>4. Owed(j)'
  <2>1. CASE Leaves(c)
    <3>1. ~Busy(c, j)' /\ (Waiting(j)' => Dropped')
      BY <1>3, <2>1, ChunkAssumption DEF Busy, Active, Leaves, Waiting
    <3> QED BY <1>1, <3>1, ItsOutcomeIsOwed
  <2>2. CASE InQueue(c)' /\ call'[c].at = "queued" /\ call'[c].job = j
    <3>1. Holding(c)'
      BY <2>2 DEF Holding, At
    <3> QED BY <1>1, <1>2, <1>3, <2>2, <3>1, ItsOutcomeIsOwed DEF Late
  <2> QED BY <1>1, <2>1, <2>2
<1>5. CASE status'[j] = None /\ status[j] = None
  BY <1>4, <1>5, PhaseIs, PhaseWillBe, ContractSteps, ChunkAssumption DEF Fares, Tends, Waiting
<1>6. CASE status'[j] = "failed" /\ status[j] # None
  <2>1. Phase(j)' = "failed"
    BY <1>6, PhaseWillBe DEF Tends
  <2>2. \/ Phase(j) \in {"processing", "failed"}
        \/ Phase(j) = "done" /\ Shaken'
    BY <1>2, <1>6, PhaseIs DEF Tends, Announced
  <2> QED BY <1>4, <2>1, <2>2, ContractSteps DEF Fares
<1>7. CASE status'[j] = status[j] /\ Dropped'
  <2>1. CASE Processing(j)'
    BY <1>2, <1>4, <1>7, <2>1, PhaseStays, ContractSteps DEF Fares, Tends
  <2>2. CASE ~Processing(j)' /\ Waiting(j)
    <3>1. Phase(j) = "processing" /\ Phase(j)' = "collecting"
      BY <1>2, <1>7, <2>2, PhaseIs, PhaseWillBe DEF Tends, Waiting
    <3> QED BY <1>4, <1>7, <3>1, ContractSteps DEF Fares
  <2>3. CASE ~Waiting(j)
    <3>1. Phase(j)' = Phase(j)
      BY <1>7, <2>3, PhaseIs, PhaseWillBe DEF Tends
    <3> QED BY <1>4, <3>1, ContractSteps DEF Fares
  <2> QED BY <2>1, <2>2, <2>3
<1> QED BY <1>3, <1>5, <1>6, <1>7

-----------------------------------------------------------------------------
(* ... and every job *)

\* A step of somebody else.
Unconcerned(c, j) == call'[c] = call[c] \/ (~Busy(c, j) /\ ~Busy(c, j)')

LEMMA ElsewhereFares ==
    ASSUME Base, NEW j \in Job \ disturbed, j \notin disturbed', Owed(j), mishaps \subseteq mishaps',
           \A c \in Call : Unconcerned(c, j), status'[j] = status[j], hook'[j] = hook[j]
    PROVE  Fares(j)
<1>1. \A c \in Call : Busy(c, j)' => Busy(c, j) /\ call'[c] = call[c]
  BY DEF Unconcerned, Busy, Active
<1>2. \A c \in Call : (Busy(c, j) /\ Holding(c))' <=> (Busy(c, j) /\ Holding(c))
  BY DEF Unconcerned, Busy, Active, Holding, At
<1>3. Processing(j)' <=> Processing(j)
  BY <1>2, ProcessingIsBusy
<1>4. Owed(j)'
  <2>1. \A c \in Call : Busy(c, j)' /\ Announced(j)' => Late(c)'
    BY <1>1, FaultsAreRemembered DEF Owed, Announced, Late, At, InQueue
  <2> QED BY <1>3, <2>1, FaultsAreRemembered DEF Owed, Waiting
<1> QED BY <1>3, <1>4, PhaseStays, ContractSteps DEF Fares

\* The steps of a request or task concern the job that it works for.
LEMMA ItsOwnJob ==
    ASSUME Base, NEW c \in Call, CallStep(c), ~Receive(c), UNCHANGED serviceVars
    PROVE  /\ Busy(c, call[c].job) /\ call[c].job \in Job /\ Others(c)
           /\ call'[c].job = call[c].job \/ ~Active(c)'
           /\ UNCHANGED <<disturbed, known, total>>
           /\ \A x \in Job \ {call[c].job} :
                 status'[x] = status[x] /\ hook'[x] = hook[x] /\ chunks'[x] = chunks[x]
<1>1. /\ Busy(c, call[c].job) /\ call[c].job \in Job /\ Others(c)
      /\ call'[c].job = call[c].job \/ ~Active(c)'
  <2>1. CASE Save(c) \/ Fill(c) \/ Cut(c) \/ List(c) \/ Note(c) \/ Merge(c)
    BY <2>1, SaveStep, FillStep, CutStep, ListStep, NoteStep, MergeStep
       DEF Goes, Leaves, Assembles, Active, Busy
  <2>2. CASE Enqueue(c) \/ Take(c) \/ StoreNothing(c)
    BY <2>2, EnqueueStep, TakeStep, StoreNothingStep DEF Goes, Leaves, Active, Busy
  <2>3. CASE Tidy(c) \/ Complete(c) \/ Fail(c)
    BY <2>3, TidyStep, CompleteStep, FailStep DEF Goes, Leaves, Active, Busy
  <2>4. CASE Store(c)
    <3>1. PICK j, file : j = call[c].job /\ file = merged[call[c].path]
      OBVIOUS
    <3> QED BY <2>4, <3>1, StoreStep DEF Goes, Active, Busy
  <2> QED BY <2>1, <2>2, <2>3, <2>4 DEF CallStep
<1>2. UNCHANGED <<disturbed, known, total>>
  <2>1. CASE Save(c) \/ Fill(c) \/ List(c) \/ Note(c) \/ Merge(c) \/ Enqueue(c)
    BY <2>1 DEF Save, Fill, List, Note, Merge, Enqueue, historyVars, cacheVars
  <2>2. CASE Take(c) \/ StoreNothing(c) \/ Tidy(c) \/ Complete(c) \/ Fail(c)
    BY <2>2 DEF Take, StoreNothing, Tidy, Complete, Fail, historyVars, cacheVars
  <2>3. CASE Cut(c) \/ Store(c)
    BY <2>3 DEF Cut, Store, cacheVars
  <2> QED BY <2>1, <2>2, <2>3 DEF CallStep
<1>3. ASSUME NEW x \in Job \ {call[c].job} PROVE status'[x] = status[x]
  <2>1. CASE Note(c) \/ Take(c) \/ Complete(c) \/ Fail(c)
    BY <2>1, NoteStep, TakeStep, CompleteStep, FailStep DEF Becomes, Broken, jobVars
  <2> QED BY <2>1 DEF CallStep, Save, Fill, Cut, List, Merge, Enqueue, Store, StoreNothing, Tidy, jobVars
<1>4. ASSUME NEW x \in Job \ {call[c].job} PROVE hook'[x] = hook[x]
  <2>1. CASE Store(c)
    <3>1. PICK j, file : j = call[c].job /\ file = merged[call[c].path]
      OBVIOUS
    <3>2. UNCHANGED hook \/ hook' = [hook EXCEPT ![call[c].job] = "ok"]
      BY <2>1, <3>1, StoreStep DEF HasCopy
    <3> QED BY <3>2 DEF Base, Types, FilesOK
  <2> QED BY <2>1 DEF CallStep, Save, Fill, Cut, List, Note, Merge, Enqueue, Take, StoreNothing,
                      Tidy, Complete, Fail
<1>5. ASSUME NEW x \in Job \ {call[c].job} PROVE chunks'[x] = chunks[x]
  <2>1. FilesOK
    BY DEF Base, Types
  <2>2. CASE Save(c)
    BY <2>1, <2>2 DEF Save, FilesOK
  <2>3. CASE Enqueue(c) \/ Tidy(c) \/ Fail(c)
    BY <1>1, <2>1, <2>3, EnqueueStep, TidyStep, FailStep, Cleaning DEF Deletes
  <2> QED BY <2>2, <2>3 DEF CallStep, Fill, Cut, List, Note, Merge, Take, Store, StoreNothing,
                            Complete, fileVars
<1> QED BY <1>1, <1>2, <1>3, <1>4, <1>5

LEMMA CallFares ==
    ASSUME Base, NEW j \in Job \ disturbed, Owed(j), mishaps \subseteq mishaps',
           NEW c \in Call, CallStep(c), ~Receive(c), UNCHANGED serviceVars
    PROVE  Fares(j)
<1>1. CASE j = call[c].job
  <2>1. Tends(c, j)
    BY <1>1, ItsOwnJob DEF Tends
  <2> QED BY <2>1, EarlyStepFares, NoteFares, PrepareFares, TakeFares, StoreFares, CompleteFares,
             FailFares DEF CallStep
<1>2. CASE j # call[c].job
  <2>1. \A d \in Call : Unconcerned(d, j)
    BY <1>2, ItsOwnJob DEF Unconcerned, Others, Busy
  <2> QED BY <1>2, <2>1, ItsOwnJob, ElsewhereFares
<1> QED BY <1>1, <1>2

LEMMA ReceiveFares ==
    ASSUME Base, NEW j \in Job \ disturbed, Owed(j), j \notin disturbed', NEW c \in Call, Receive(c),
           UNCHANGED serviceVars
    PROVE  Fares(j)
<1>1. PICK x \in Job, i \in Nat : Begins(c, x) /\ Notes(c, x, i)
  BY ReceiveStep
<1>2. UNCHANGED <<status, hook, mishaps>>
  BY DEF Receive, jobVars
<1>3. CASE x = j
  <2>1. ~Crowds(j) /\ hook[j] = None /\ status[j] # "done"
    BY <1>1, <1>3 DEF Notes, Disturbs
  <2>2. Owed(j)'
    BY <1>2, <2>1, NothingIsOwed, ChunkAssumption DEF Announced
  <2>3. ~Processing(j) /\ ~Processing(j)'
    <3>1. \A d \in Call : ~Busy(d, j)
      BY <2>1 DEF Crowds, Busy
    <3>2. \A d \in Call : Busy(d, j)' => d = c
      BY <1>1, <3>1 DEF Begins, Others, Busy, Active
    <3>3. ~Holding(c)'
      BY <1>1 DEF Begins, Holding, At, Uploading
    <3> QED BY <3>1, <3>2, <3>3, ProcessingIsBusy
  <2> QED BY <1>2, <2>2, <2>3, PhaseStays, ContractSteps DEF Fares
<1>4. CASE x # j
  <2>1. \A d \in Call : Unconcerned(d, j)
    BY <1>1, <1>4 DEF Begins, Unconcerned, Others, Busy, Active, At
  <2> QED BY <1>2, <2>1, ElsewhereFares
<1> QED BY <1>3, <1>4

LEMMA StallFares ==
    ASSUME Base, NEW j \in Job \ disturbed, Owed(j), mishaps \subseteq mishaps',
           NEW c \in Call, NEW d \in Call, Stall(c, d), UNCHANGED serviceVars
    PROVE  Fares(j)
<1>1. /\ RunsTwice(c, d) /\ "stall" \in mishaps' /\ call[c].at \in Uploading
      /\ UNCHANGED <<status, hook, disturbed>>
  BY StallStep DEF Stall, jobVars, historyVars
<1>2. CASE call[c].job = j
  <2>1. Processing(j) /\ Processing(j)'
    BY <1>1, <1>2 DEF RunsTwice, Processing, Holding, At
  <2>2. ASSUME NEW x \in Call, Busy(x, j)', Announced(j)' PROVE Late(x)'
    <3>1. Shaken'
      BY <1>1 DEF Shaken, Happened
    <3>2. CASE x = d
      <4>1. InQueue(x)'
        BY <1>1, <3>2 DEF RunsTwice, InQueue
      <4> QED BY <3>1, <4>1 DEF Late
    <3>3. CASE x # d
      <4>1. /\ call'[x].at = call[x].at /\ call'[x].job = call[x].job
            /\ call'[x].attempts = call[x].attempts
        BY <1>1, <3>3 DEF RunsTwice
      <4>2. Busy(x, j) /\ Announced(j)
        BY <1>1, <2>2, <4>1 DEF Busy, Active, Announced
      <4> QED BY <3>1, <4>1, <4>2 DEF Owed, Late, At, InQueue
    <3> QED BY <3>2, <3>3
  <2>3. Owed(j)'
    BY <1>1, <2>1, <2>2 DEF Owed, Waiting
  <2> QED BY <1>1, <2>1, <2>3, PhaseStays, ContractSteps DEF Fares
<1>3. CASE call[c].job # j
  <2>1. \A x \in Call : Unconcerned(x, j)
    BY <1>1, <1>3 DEF RunsTwice, Unconcerned, Busy, Active, At
  <2> QED BY <1>1, <2>1, ElsewhereFares
<1> QED BY <1>2, <1>3

\* No request moves.
LEMMA StillOwed ==
    ASSUME NEW j \in Job, Owed(j), mishaps \subseteq mishaps', UNCHANGED call,
           Announced(j)' => Announced(j), hook'[j] = "failed" => "transcode" \in mishaps',
           hook'[j] = "ok" /\ Waiting(j)' => hook[j] = "ok" /\ Waiting(j)
    PROVE  Owed(j)' /\ (Processing(j)' <=> Processing(j))
<1>1. Processing(j)' <=> Processing(j)
  BY DEF Processing, Holding, At
<1>2. \A c \in Call : Busy(c, j)' /\ Announced(j)' => Late(c)'
  BY FaultsAreRemembered DEF Owed, Late, Busy, Active, At, InQueue
<1> QED BY <1>1, <1>2, FaultsAreRemembered DEF Owed

LEMMA UnknownIsEmpty ==
    ASSUME Base, NEW j \in Job \ known
    PROVE  status[j] = None /\ chunks[j] = {} /\ hook[j] # "ok" /\ (\A c \in Call : ~Busy(c, j))
BY ActiveIsKnown DEF Base, Types, JobsOK, FilesOK, Busy

LEMMA InitiateFares ==
    ASSUME Base, NEW j \in Job \ disturbed, Owed(j), Initiate(j), UNCHANGED serviceVars
    PROVE  Fares(j)
<1>1. /\ j \notin known /\ UNCHANGED <<call, hook, mishaps, disturbed>>
      /\ status'[j] \in {"pending", "done"}
  BY InitiateStep DEF Initiate, historyVars
<1>2. status[j] = None /\ hook[j] # "ok" /\ \A c \in Call : ~Busy(c, j)
  BY <1>1, UnknownIsEmpty
<1>3. Owed(j)'
  BY <1>1, <1>2 DEF Owed, Busy, Active
<1>4. Phase(j) = "absent" /\ ~Processing(j)'
  <2>1. \A c \in Call : ~Busy(c, j)'
    BY <1>1, <1>2 DEF Busy, Active
  <2> QED BY <1>2, <2>1, ProcessingIsBusy, ChunkAssumption DEF Phase
<1>5. Phase(j)' \in {"collecting", "done"}
  BY <1>1, <1>4, PhaseWillBe DEF Waiting
<1> QED BY <1>3, <1>4, <1>5, ContractSteps DEF Fares

LEMMA WebhookFares ==
    ASSUME Base, NEW j \in Job \ disturbed, Owed(j), mishaps \subseteq mishaps', Webhook(j),
           UNCHANGED serviceVars
    PROVE  Fares(j)
<1>1. /\ UNCHANGED <<call, disturbed>>
      /\ hook'[j] \in {hook[j], None}
      /\ \/ hook[j] = "ok" /\ Tells(j, "done", j)
         \/ hook[j] = "failed" /\ Tells(j, "failed", None)
  BY WebhookStep DEF Webhook, historyVars, Tells, Base, Types, FilesOK
<1>2. \/ status'[j] = None /\ status[j] = None
      \/ status'[j] = "done" /\ hook[j] = "ok" /\ status[j] # None
      \/ status'[j] = "failed" /\ hook[j] = "failed" /\ status[j] # None
      \/ status'[j] = status[j]
  BY <1>1 DEF Tells, Becomes, Broken, jobVars
<1>3. Owed(j)' /\ (Processing(j)' <=> Processing(j))
  <2>1. Announced(j)' => Announced(j)
    BY <1>1, <1>2, ChunkAssumption DEF Announced
  <2>2. hook'[j] = "failed" => "transcode" \in mishaps'
    BY <1>1, ChunkAssumption DEF Owed
  <2>3. hook'[j] = "ok" /\ Waiting(j)' => hook[j] = "ok" /\ Waiting(j)
    BY <1>1, <1>2, ChunkAssumption DEF Waiting
  <2> QED BY <1>1, <2>1, <2>2, <2>3, StillOwed
<1>4. CASE status'[j] = status[j]
  BY <1>1, <1>3, <1>4, PhaseStays, ContractSteps DEF Fares
<1>5. CASE status'[j] = "done" /\ hook[j] = "ok" /\ status[j] # None
  <2>1. Phase(j)' = "done"
    BY <1>1, <1>5, PhaseWillBe
  <2>2. \/ Phase(j) \in {"processing", "done", "failed"}
        \/ Phase(j) = "collecting" /\ Dropped'
    BY <1>5, PhaseIs, FaultsAreRemembered DEF Owed
  <2> QED BY <1>3, <2>1, <2>2, ContractSteps DEF Fares
<1>6. CASE status'[j] = "failed" /\ hook[j] = "failed" /\ status[j] # None
  <2>1. Phase(j)' = "failed"
    BY <1>1, <1>6, PhaseWillBe
  <2>2. Shaken'
    BY <1>6 DEF Owed, Shaken, Happened
  <2>3. Phase(j) \in {"processing", "done", "failed", "collecting"}
    BY <1>6, PhaseIs
  <2> QED BY <1>3, <2>1, <2>2, <2>3, ContractSteps DEF Fares
<1> QED BY <1>2, <1>4, <1>5, <1>6

LEMMA ExpireFares ==
    ASSUME Base, NEW j \in Job \ disturbed, Owed(j), mishaps \subseteq mishaps',
           Transcode(j) \/ Expire(j), UNCHANGED serviceVars
    PROVE  Fares(j)
<1>1. /\ UNCHANGED <<call, disturbed>>
      /\ \/ status'[j] = status[j] /\ hook'[j] = "failed" /\ "transcode" \in mishaps'
         \/ status'[j] \in {status[j], None} /\ hook'[j] = hook[j] /\ "expired" \in mishaps'
  <2>1. CASE Transcode(j)
    BY <2>1, TranscodeStep DEF Transcode, jobVars, historyVars, Base, Types, FilesOK
  <2>2. CASE Expire(j)
    BY <2>2, ExpireStep DEF Expire, historyVars
  <2> QED BY <2>1, <2>2
<1>2. Owed(j)' /\ (Processing(j)' <=> Processing(j))
  <2>1. Announced(j)' => Announced(j)
    BY <1>1, ChunkAssumption DEF Announced
  <2>2. hook'[j] = "failed" => "transcode" \in mishaps'
    BY <1>1 DEF Owed
  <2>3. hook'[j] = "ok" /\ Waiting(j)' => hook[j] = "ok" /\ Waiting(j)
    BY <1>1, ChunkAssumption DEF Waiting
  <2> QED BY <1>1, <2>1, <2>2, <2>3, StillOwed
<1>3. CASE status'[j] = status[j]
  BY <1>1, <1>2, <1>3, PhaseStays, ContractSteps DEF Fares
<1>4. CASE status'[j] = None /\ "expired" \in mishaps'
  <2>1. Phase(j)' = "absent" /\ Forgotten'
    BY <1>1, <1>4, PhaseWillBe DEF Forgotten, Happened
  <2> QED BY <1>2, <2>1, ContractSteps DEF Fares
<1> QED BY <1>1, <1>3, <1>4

LEMMA DieFares ==
    ASSUME Base, NEW j \in Job \ disturbed, Owed(j), Die, mishaps' = mishaps \cup {"crash"},
           UNCHANGED serviceVars
    PROVE  Fares(j)
<1>1. /\ \A c \in Call : Survives(c)
      /\ UNCHANGED <<hook, disturbed>> /\ (status'[j] = None \/ status'[j] = status[j])
      /\ Shaken' /\ Dropped' /\ Forgotten'
  BY DieStep DEF Die, Shaken, Dropped, Forgotten, Happened
<1>2. ASSUME NEW c \in Call, Busy(c, j)'
      PROVE  InQueue(c)' /\ Busy(c, j) /\ Holding(c)
  <2>1. Survives(c) /\ CallOK(c)
    BY <1>1 DEF Base, Types, CallsOK
  <2> QED BY <1>2, <2>1 DEF Survives, CallOK, Busy, Active, InQueue, At, Holding
<1>3. Owed(j)'
  BY <1>1, <1>2 DEF Owed, Late
<1>4. Processing(j)' => Processing(j)
  BY <1>2, ProcessingIsBusy
<1>5. CASE status'[j] = None
  <2>1. Phase(j)' = "absent"
    BY <1>1, <1>5, PhaseWillBe
  <2> QED BY <1>1, <1>3, <2>1, ContractSteps DEF Fares
<1>6. CASE status'[j] = status[j]
  <2>1. CASE (Processing(j)' <=> Processing(j))
    BY <1>1, <1>3, <1>6, <2>1, PhaseStays, ContractSteps DEF Fares
  <2>2. CASE ~Processing(j)' /\ Processing(j) /\ Waiting(j)
    <3>1. Phase(j) = "processing" /\ Phase(j)' = "collecting"
      BY <1>1, <1>6, <2>2, PhaseIs, PhaseWillBe DEF Waiting
    <3> QED BY <1>1, <1>3, <3>1, ContractSteps DEF Fares
  <2>3. CASE ~Waiting(j)
    <3>1. Phase(j)' = Phase(j)
      BY <1>1, <1>6, <2>3, PhaseIs, PhaseWillBe
    <3> QED BY <1>3, <3>1, ContractSteps DEF Fares
  <2> QED BY <1>4, <2>1, <2>2, <2>3
<1> QED BY <1>1, <1>5, <1>6

LEMMA EveryJobFares ==
    ASSUME Base, [Next]_vars, NEW j \in Job \ disturbed, j \notin disturbed', Owed(j)
    PROVE  Fares(j)
<1>1. mishaps \subseteq mishaps'
  BY BaseKeeps
<1>2. CASE \E c \in Call : CallStep(c) /\ UNCHANGED serviceVars
  BY <1>1, <1>2, ReceiveFares, CallFares
<1>3. CASE \E c, d \in Call : Stall(c, d) /\ UNCHANGED serviceVars
  BY <1>1, <1>3, StallFares
<1>4. CASE \E i \in Job : JobStep(i) /\ UNCHANGED serviceVars
  <2>1. PICK i \in Job : JobStep(i) /\ UNCHANGED serviceVars
    BY <1>4
  <2>2. CASE i = j
    BY <1>1, <2>1, <2>2, InitiateFares, WebhookFares, ExpireFares DEF JobStep
  <2>3. CASE i # j
    <3>1. UNCHANGED call /\ hook'[j] = hook[j]
      BY <2>1, <2>3 DEF JobStep, Initiate, Transcode, Webhook, Expire, Base, Types, FilesOK
    <3>2. status'[j] = status[j]
      <4>1. CASE Initiate(i) \/ Webhook(i)
        BY <2>1, <2>3, <4>1, InitiateStep, WebhookStep DEF Tells, Becomes, Broken, jobVars
      <4>2. CASE Transcode(i) \/ Expire(i)
        BY <2>1, <2>3, <4>2 DEF Transcode, Expire, jobVars, Base, Types, JobsOK
      <4> QED BY <2>1, <4>1, <4>2 DEF JobStep
    <3> QED BY <1>1, <3>1, <3>2, ElsewhereFares DEF Unconcerned
  <2> QED BY <2>2, <2>3
<1>5. CASE Die /\ mishaps' = mishaps \cup {"crash"} /\ UNCHANGED serviceVars
  BY <1>5, DieFares
<1>6. CASE UNCHANGED chunkedVars \/ UNCHANGED vars
  <2>1. UNCHANGED <<call, status, hook, disturbed>>
    BY <1>6, NothingChanges DEF chunkedVars, jobVars, historyVars
  <2> QED BY <1>1, <2>1, ElsewhereFares DEF Unconcerned
<1> QED BY <1>2, <1>3, <1>4, <1>5, <1>6, Steps

\* What is owed stays owed.
LEMMA OutcomesStayOwed ==
    ASSUME Base, OutcomesAreOwed, [Next]_vars
    PROVE  OutcomesAreOwed'
<1>1. ASSUME NEW j \in Job \ disturbed' PROVE Owed(j)'
  <2>1. j \in Job \ disturbed
    BY HistoryIsKept DEF Remembers
  <2>2. Owed(j)
    BY <2>1, OwedIsOwed
  <2> QED BY <2>1, <2>2, EveryJobFares DEF Fares
<1> QED BY <1>1 DEF OutcomesAreOwed, Owed, Announced, Waiting, Late, Busy

-----------------------------------------------------------------------------
(* Clients that wait are served *)

Open(j) == status[j] \notin {"done", "failed"} /\ hook[j] # "ok"
Served(j) ==
    /\ (\A c \in Call : ~Busy(c, j)) => chunks[j] = {} \/ Open(j)
    /\ \A c \in Call : Busy(c, j) /\ (InQueue(c) \/ At(c, "completing")) => chunks[j] = {}

LEMMA ServedIsServed == ClientsAreServed <=> \A j \in Job : Quiet(j) => Served(j)
BY DEF ClientsAreServed, Served, Rests, Open, Busy

LEMMA NothingToServe == ASSUME NEW j \in Job, chunks'[j] = {} PROVE Served(j)'
BY DEF Served

\* A request goes on that nobody else works with.
LEMMA RequestServes ==
    ASSUME NEW j \in Job, NEW c \in Call, Tends(c, j), ~InQueue(c),
           NEW label \in {"writing", "listing", "noting", "merging", "enqueueing", "storing", "tidying",
                          "failing"},
           call'[c].at = label, call'[c].job = j, call'[c].attempts = call[c].attempts
    PROVE  Served(j)'
<1>1. Busy(c, j)' /\ ~InQueue(c)' /\ ~At(c, "completing")'
  BY DEF Busy, Active, InQueue, At
<1>2. \A d \in Call \ {c} : ~Busy(d, j)'
  BY Workmates
<1> QED BY <1>1, <1>2 DEF Served

LEMMA EarlyStepServes ==
    ASSUME NEW j \in Job, NEW c \in Call, Tends(c, j), Quiet(j)', UNCHANGED serviceVars,
           Save(c) \/ Fill(c) \/ Cut(c) \/ List(c) \/ Merge(c)
    PROVE  Served(j)'
<1>1. Base /\ call[c].job = j
  BY DEF Tends, Busy
<1>2. CASE Save(c) \/ Fill(c) \/ List(c) \/ Merge(c)
  <2>1. /\ ~InQueue(c) /\ call'[c].job = j /\ call'[c].attempts = call[c].attempts
        /\ call'[c].at \in {"writing", "listing", "noting", "enqueueing", "storing", "failing"}
    BY <1>1, <1>2, SaveStep, FillStep, ListStep, MergeStep DEF Goes
  <2> QED BY <2>1, RequestServes
<1>3. CASE Cut(c)
  BY <1>1, <1>3, CutStep DEF Quiet, Happened
<1> QED BY <1>2, <1>3

LEMMA NoteServes ==
    ASSUME NEW j \in Job, NEW c \in Call, Tends(c, j), Quiet(j)', UNCHANGED serviceVars, Note(c)
    PROVE  Served(j)'
<1>1. /\ Base /\ call[c].job = j /\ ~InQueue(c) /\ UNCHANGED hook
      /\ \/ Becomes(j, "uploading", None) /\ Assembles(c)
         \/ Becomes(j, "uploading", None) /\ Leaves(c)
         \/ Broken(j, "uploading", None) /\ Leaves(c)
  BY NoteStep DEF Tends, Busy, Note
<1>2. CASE Assembles(c)
  BY <1>1, <1>2, RequestServes DEF Assembles
<1>3. CASE Becomes(j, "uploading", None) /\ Leaves(c)
  <2>1. status'[j] \in {"uploading", None}
    BY <1>3 DEF Becomes
  <2>2. hook[j] # "ok"
    BY <1>1 DEF Tends, Owed, Announced, Late, Note, At
  <2>3. \A d \in Call : ~Busy(d, j)'
    BY <1>1, <1>3, Workmates DEF Leaves, Busy, Active
  <2> QED BY <1>1, <2>1, <2>2, <2>3, ChunkAssumption DEF Served, Open
<1>4. CASE UNCHANGED jobVars /\ "store" \in mishaps'
  BY <1>4 DEF Quiet, Happened
<1> QED BY <1>1, <1>2, <1>3, <1>4 DEF Broken

LEMMA LateStepServes ==
    ASSUME NEW j \in Job, NEW c \in Call, Tends(c, j), Served(j), UNCHANGED serviceVars,
           Enqueue(c) \/ Take(c) \/ Store(c) \/ StoreNothing(c) \/ Tidy(c) \/ Complete(c) \/ Fail(c)
    PROVE  Served(j)'
<1>1. Base /\ Busy(c, j) /\ call[c].job = j
  BY DEF Tends, Busy
<1>2. InQueue(c) \/ At(c, "completing") => chunks[j] = {}
  BY <1>1 DEF Served
<1>3. CASE Enqueue(c)
  BY <1>1, <1>3, EnqueueStep, Cleaning, NothingToServe DEF Base, Types
<1>4. CASE Take(c) \/ Complete(c)
  <2>1. UNCHANGED chunks /\ (InQueue(c) \/ At(c, "completing"))
    BY <1>1, <1>4, TakeStep DEF Take, Complete, fileVars
  <2> QED BY <1>2, <2>1, NothingToServe
<1>5. CASE Tidy(c) \/ Fail(c)
  <2>1. Deletes(c)
    BY <1>1, <1>5, TidyStep, FailStep
  <2>2. chunks'[j] = {}
    BY <1>1, <1>2, <2>1, Cleaning DEF Deletes, Base, Types
  <2> QED BY <2>2, NothingToServe
<1>6. CASE Store(c) \/ StoreNothing(c)
  <2>1. UNCHANGED chunks
    BY <1>6 DEF Store, StoreNothing, fileVars
  <2>2. CASE InQueue(c)
    BY <1>2, <2>1, <2>2, NothingToServe
  <2>3. CASE ~InQueue(c)
    <3>1. PICK file : file = merged[call[c].path]
      OBVIOUS
    <3>2. call'[c].job = j /\ call'[c].attempts = call[c].attempts /\ call'[c].at \in {"tidying", "failing"}
      BY <1>1, <1>6, <3>1, StoreStep, StoreNothingStep DEF Goes
    <3> QED BY <2>3, <3>2, RequestServes
  <2> QED BY <2>2, <2>3
<1> QED BY <1>3, <1>4, <1>5, <1>6

LEMMA ElsewhereServes ==
    ASSUME NEW j \in Job, Served(j), \A c \in Call : Unconcerned(c, j),
           status'[j] = status[j] \/ status'[j] = None, hook'[j] \in {hook[j], None}, chunks'[j] = chunks[j]
    PROVE  Served(j)'
<1>1. \A c \in Call : Busy(c, j)' => Busy(c, j) /\ call'[c] = call[c]
  BY DEF Unconcerned, Busy, Active
<1>2. \A c \in Call : Busy(c, j) => Busy(c, j)'
  BY DEF Unconcerned, Busy, Active
<1>3. Open(j) => Open(j)'
  BY ChunkAssumption DEF Open
<1> QED BY <1>1, <1>2, <1>3 DEF Served, InQueue, At

LEMMA CallServes ==
    ASSUME Base, NEW j \in Job \ disturbed, Quiet(j)', Owed(j), Served(j), mishaps \subseteq mishaps',
           NEW c \in Call, CallStep(c), ~Receive(c), UNCHANGED serviceVars
    PROVE  Served(j)'
<1>1. CASE j = call[c].job
  <2>1. Tends(c, j)
    BY <1>1, ItsOwnJob DEF Tends
  <2> QED BY <2>1, EarlyStepServes, NoteServes, LateStepServes DEF CallStep
<1>2. CASE j # call[c].job
  <2>1. \A d \in Call : Unconcerned(d, j)
    BY <1>2, ItsOwnJob DEF Unconcerned, Others, Busy
  <2> QED BY <1>2, <2>1, ItsOwnJob, ElsewhereServes
<1> QED BY <1>1, <1>2

LEMMA ReceiveServes ==
    ASSUME Base, NEW j \in Job, j \notin disturbed', Served(j), NEW c \in Call, Receive(c),
           UNCHANGED serviceVars
    PROVE  Served(j)'
<1>1. PICK x \in Job, i \in Nat : Begins(c, x) /\ Notes(c, x, i)
  BY ReceiveStep
<1>2. UNCHANGED <<status, hook, chunks>>
  BY DEF Receive, jobVars, fileVars
<1>3. CASE x = j
  <2>1. \A d \in Call : ~Busy(d, j)
    BY <1>1, <1>3 DEF Notes, Disturbs, Crowds, Busy
  <2>2. Busy(c, j)' /\ ~InQueue(c)' /\ ~At(c, "completing")'
    BY <1>1, <1>3 DEF Begins, Busy, Active, InQueue, At
  <2>3. \A d \in Call \ {c} : ~Busy(d, j)'
    BY <1>1, <2>1 DEF Begins, Others, Busy, Active
  <2> QED BY <2>2, <2>3 DEF Served
<1>4. CASE x # j
  <2>1. \A d \in Call : Unconcerned(d, j)
    BY <1>1, <1>4 DEF Begins, Unconcerned, Others, Busy, Active, At
  <2> QED BY <1>2, <2>1, ElsewhereServes
<1> QED BY <1>3, <1>4

LEMMA StallServes ==
    ASSUME Base, NEW j \in Job, Served(j), NEW c \in Call, NEW d \in Call, Stall(c, d),
           UNCHANGED serviceVars
    PROVE  Served(j)'
<1>1. RunsTwice(c, d) /\ UNCHANGED <<status, hook, chunks>>
  BY StallStep DEF Stall, jobVars, fileVars
<1>2. CASE call[c].job = j
  <2>1. chunks[j] = {}
    BY <1>1, <1>2 DEF RunsTwice, Busy, Served
  <2> QED BY <1>1, <2>1, NothingToServe
<1>3. CASE call[c].job # j
  <2>1. \A x \in Call : Unconcerned(x, j)
    BY <1>1, <1>3 DEF RunsTwice, Unconcerned, Busy, Active, At
  <2> QED BY <1>1, <2>1, ElsewhereServes
<1> QED BY <1>2, <1>3

LEMMA JobStepServes ==
    ASSUME Base, NEW j \in Job \ disturbed, Quiet(j)', Owed(j), Served(j), mishaps \subseteq mishaps',
           NEW i \in Job, JobStep(i), UNCHANGED serviceVars
    PROVE  Served(j)'
<1>1. UNCHANGED <<call, chunks>> /\ \A c \in Call : Unconcerned(c, j)
  BY DEF JobStep, Initiate, Transcode, Webhook, Expire, fileVars, Unconcerned
<1>2. "transcode" \notin mishaps' /\ hook[j] # "failed"
  BY DEF Quiet, Happened, Owed
<1>3. CASE i = j /\ Initiate(i)
  <2>1. chunks[j] = {}
    BY <1>3, InitiateStep, UnknownIsEmpty
  <2> QED BY <1>1, <2>1, NothingToServe
<1>4. CASE i = j /\ Webhook(i)
  <2>1. hook[j] = "ok"
    BY <1>2, <1>4, WebhookStep
  <2>2. (\A c \in Call : ~Busy(c, j)) => chunks[j] = {}
    BY <2>1 DEF Served, Open
  <2> QED BY <1>1, <2>2 DEF Served, Busy, Active, InQueue, At
<1>5. CASE Transcode(i)
  BY <1>2, <1>5, TranscodeStep
<1>6. CASE i # j \/ Expire(i)
  <2>1. status'[j] = status[j] \/ status'[j] = None
    <3>1. CASE i # j /\ (Initiate(i) \/ Webhook(i))
      BY <3>1, InitiateStep, WebhookStep DEF Tells, Becomes, Broken, jobVars
    <3>2. CASE Transcode(i) \/ Expire(i)
      BY <1>6, <3>2 DEF Transcode, Expire, jobVars, Base, Types, JobsOK
    <3> QED BY <1>6, <3>1, <3>2 DEF JobStep
  <2>2. hook'[j] \in {hook[j], None}
    BY <1>6 DEF JobStep, Initiate, Transcode, Webhook, Expire, Base, Types, FilesOK
  <2> QED BY <1>1, <2>1, <2>2, ElsewhereServes
<1> QED BY <1>3, <1>4, <1>5, <1>6 DEF JobStep

LEMMA ClientsStayServed ==
    ASSUME Base, ClientsAreServed, OutcomesAreOwed, [Next]_vars
    PROVE  ClientsAreServed'
<1>1. mishaps \subseteq mishaps' /\ disturbed \subseteq disturbed'
  BY BaseKeeps, HistoryIsKept DEF Remembers
<1>2. ASSUME NEW j \in Job, Quiet(j)' PROVE Served(j)'
  <2>1. j \in Job \ disturbed /\ Quiet(j) /\ j \notin disturbed'
    BY <1>1, <1>2 DEF Quiet, Happened
  <2>2. Owed(j) /\ Served(j)
    BY <2>1, OwedIsOwed, ServedIsServed
  <2>3. CASE \E c \in Call : CallStep(c) /\ UNCHANGED serviceVars
    BY <1>1, <1>2, <2>1, <2>2, <2>3, ReceiveServes, CallServes
  <2>4. CASE \E c, d \in Call : Stall(c, d) /\ UNCHANGED serviceVars
    BY <2>2, <2>4, StallServes
  <2>5. CASE \E i \in Job : JobStep(i) /\ UNCHANGED serviceVars
    BY <1>1, <1>2, <2>1, <2>2, <2>5, JobStepServes
  <2>6. CASE mishaps' = mishaps \cup {"crash"}
    BY <1>2, <2>6 DEF Quiet, Happened
  <2>7. CASE UNCHANGED chunkedVars \/ UNCHANGED vars
    <3>1. UNCHANGED <<call, status, hook, chunks>>
      BY <2>7, NothingChanges DEF chunkedVars, jobVars, fileVars
    <3>2. \A c \in Call : Unconcerned(c, j)
      BY <3>1 DEF Unconcerned
    <3> QED BY <2>2, <3>1, <3>2, ElsewhereServes
  <2> QED BY <2>3, <2>4, <2>5, <2>6, <2>7, Steps
<1> QED BY <1>2 DEF ClientsAreServed, Served, Rests, Open, Busy

-----------------------------------------------------------------------------
(* The theorems *)

LEMMA InvIsKept ==
    UploadInv <=> /\ Base /\ ChunksAreWhole /\ FilesAreSound /\ FilesAreHeld
                  /\ CopiesAreCounted /\ ClientsAreServed /\ OutcomesAreOwed
BY TypesAreTypes DEF UploadInv, Base

LEMMA UploadBegins == Init => UploadInv
<1> SUFFICES ASSUME Init
             PROVE  /\ Base /\ ChunksAreWhole /\ FilesAreSound /\ FilesAreHeld
                    /\ CopiesAreCounted /\ ClientsAreServed /\ OutcomesAreOwed
  BY InvIsKept
<1>1. /\ \E d \in Deployments : provider = d[1] /\ backend = d[2]
      /\ name = [o \in Owner |-> o] /\ bytes = [n \in Owner |-> {}] /\ mishaps = {}
      /\ total \in Totals /\ status = [j \in Job |-> None] /\ url = [j \in Job |-> None]
      /\ known = {} /\ cached = None /\ chunks = [j \in Job |-> {}] /\ whole = [j \in Job |-> {}]
      /\ merged = [c \in Call |-> None]
      /\ call = [c \in Call |-> Fresh(c)] /\ hook = [j \in Job |-> None]
      /\ copies = [j \in Job |-> 0] /\ disturbed = {} /\ crowded = {} /\ torn = {}
      /\ place = [d \in Direct |-> "idle"] /\ deleted = {}
  BY DEF Init, InitStorage, InitChunked, InitService
<1>2. StorageOK
  <2>1. PICK d \in Deployments : provider = d[1] /\ backend = d[2]
    BY <1>1
  <2>2. <<provider, backend>> = d
    BY <2>1, StorageAssumption
  <2>3. <<provider, backend>> \in Deployments
    BY <2>2
  <2>4. {} \in Content
    BY DEF Content
  <2> QED BY <1>1, <2>3, <2>4 DEF StorageOK
<1>3. ASSUME NEW c \in Call
      PROVE  /\ call[c] \in CallType /\ call[c].at = "idle" /\ call[c].path = c
             /\ call[c].attempts = -1 /\ ~InQueue(c) /\ ~Active(c)
  <2>1. call[c] = Fresh(c)
    BY <1>1
  <2>2. "idle" \in Label /\ -1 \in -1 .. MaxAttempts - 1 /\ 0 \in 0 .. 1
    BY ChunkAssumption DEF Label
  <2>3. Fresh(c) \in CallType
    BY <2>2 DEF Fresh, CallType
  <2> QED BY <2>1, <2>3 DEF Fresh, InQueue, Active
<1>4. CallsOK
  <2>1. call \in [Call -> CallType]
    BY <1>1, <1>3
  <2> QED BY <1>3, <2>1 DEF CallsOK, CallOK, At
<1>5. JobsOK
  <2>1. None # "done"
    BY ChunkAssumption
  <2>2. total \in [Job -> Nat \ {0}]
    BY <1>1, ChunkAssumption
  <2> QED BY <1>1, <2>1, <2>2 DEF JobsOK
<1>6. FilesOK /\ ServiceOK
  <2>1. None # "ok"
    BY ChunkAssumption
  <2> QED BY <1>1, <2>1 DEF FilesOK, ServiceOK
<1>7. NamesAreDistinct
  BY <1>1 DEF NamesAreDistinct, Distinct
<1>8. PathsAreOwn /\ RunsAreAlone
  BY <1>3 DEF PathsAreOwn, RunsAreAlone
<1>9. Base
  BY <1>2, <1>4, <1>5, <1>6, <1>7, <1>8 DEF Base, Types
<1>10. FilesAreSound
  <2>1. \A j \in Job : hook[j] # "ok" /\ status[j] # "done"
    BY <1>1, ChunkAssumption
  <2> QED BY <1>1, <1>3, <2>1 DEF FilesAreSound, At
<1>11. ChunksAreWhole /\ FilesAreHeld /\ CopiesAreCounted
  BY <1>1, <1>3 DEF ChunksAreWhole, FilesAreHeld, CopiesAreCounted
<1>12. ClientsAreServed
  BY <1>1, <1>3 DEF ClientsAreServed
<1>13. OutcomesAreOwed
  BY <1>1, <1>3, ChunkAssumption DEF OutcomesAreOwed
<1> QED BY <1>9, <1>10, <1>11, <1>12, <1>13

LEMMA UploadKeeps == UploadInv /\ [Next]_vars => UploadInv'
<1> SUFFICES ASSUME UploadInv, [Next]_vars PROVE UploadInv'
  OBVIOUS
<1>1. /\ Base /\ ChunksAreWhole /\ FilesAreSound /\ FilesAreHeld
      /\ CopiesAreCounted /\ ClientsAreServed /\ OutcomesAreOwed
  BY InvIsKept
<1>2. /\ Base' /\ ChunksAreWhole' /\ FilesAreSound' /\ FilesAreHeld'
      /\ CopiesAreCounted' /\ ClientsAreServed' /\ OutcomesAreOwed'
  BY <1>1, BaseKeeps, ChunksStayWhole, FilesStaySound, FilesStayHeld, CopiesStayCounted,
     ClientsStayServed, OutcomesStayOwed
<1>3. (TypeOK /\ UploadTypes <=> Types)'
  BY TypesAreTypes, PTL
<1> QED BY <1>2, <1>3 DEF UploadInv, Base

\* The inductive invariant of uploads holds throughout: names and temporary files are told
\* apart, chunks are whole, and files, copies, chunks and outcomes are accounted for.
THEOREM UploadHolds == Spec => []UploadInv
<1>1. Init => UploadInv
  BY UploadBegins
<1>2. UploadInv /\ [Next]_vars => UploadInv'
  BY UploadKeeps
<1> QED BY <1>1, <1>2, PTL DEF Spec

\* Every behaviour keeps every variable in its type: only tasks have attempts, and fewer than
\* MaxAttempts, a job is done exactly when it has a URL, and no chunk has a wrong number.
THEOREM UploadTyping == Spec => []TypeOK
<1>1. UploadInv => TypeOK
  BY DEF UploadInv
<1> QED BY <1>1, UploadHolds, PTL

\* A URL that chunked-upload.service.ts, the processor, the webhook or upload.service.ts has
\* answered or stored shows the file it was made for, all of it, although writeFile creates a
\* part before it fills it: for any number of jobs and requests, but for what the property names.
THEOREM UrlsShowTheirFiles == Spec => []AnsweredUrlShowsTheFile
<1>1. UploadInv => AnsweredUrlShowsTheFile
  <2> SUFFICES ASSUME UploadInv, ~Happened({"same ms", "same path"})
               PROVE  /\ \A j \in Job : status[j] = "done" /\ url[j] \notin deleted \cup crowded \cup torn
                            => Shows(url[j]) = {url[j]}
                      /\ \A d \in Direct : place[d] = "uploaded" /\ d \notin deleted => Shows(d) = {d}
    BY DEF AnsweredUrlShowsTheFile
  <2>1. /\ \A j \in Job : status[j] = "done" => Sound(url[j])
        /\ \A d \in Direct : place[d] = "uploaded" => Sound(d)
    BY DEF UploadInv, FilesAreSound
  <2>2. \A d \in Direct : d \notin crowded \cup torn
    BY StorageAssumption DEF UploadInv, TypeOK
  <2> QED BY <2>1, <2>2 DEF Sound
<1> QED BY <1>1, UploadHolds, PTL

\* Merged files are deleted by whoever uploads them, and chunks by the end of their job, on
\* every path through chunked-upload.service.ts and upload.processor.ts.
THEOREM NothingStaysBehind == Spec => []NothingIsLeftBehind
<1>1. UploadInv => NothingIsLeftBehind
  <2> SUFFICES ASSUME UploadInv PROVE NothingIsLeftBehind
    OBVIOUS
  <2>1. \A p \in Call : merged[p] # None =>
            Happened({"enqueue", "crash"}) \/ \E c \in Call : call[c].path = p /\ Holding(c)
    BY DEF UploadInv, FilesAreHeld
  <2>2. ASSUME NEW j \in Job, chunks[j] # {}, status[j] \in {"done", "failed"}, Rests(j), Quiet(j)
        PROVE  FALSE
    BY <2>2 DEF UploadInv, ClientsAreServed
  <2> QED BY <2>1, <2>2 DEF NothingIsLeftBehind, Quiet
<1> QED BY <1>1, UploadHolds, PTL

\* However often upload.processor.ts is run again by a retry, the provider gets the file that a
\* client assembles once; a second copy takes a crash, a stalled task, a shared temporary file,
\* or a client that sends chunks at the same time.
THEOREM OneCopyIsMade == Spec => []OneCopy
<1>1. UploadInv => OneCopy
  <2> SUFFICES ASSUME UploadInv, NEW j \in Job, j \notin crowded, Calm PROVE ~(copies[j] > 1)
    BY DEF OneCopy, Calm
  <2>1. copies[j] \in {0, 1}
    BY CountedIsCounted DEF UploadInv, Counted
  <2> QED BY <2>1
<1> QED BY <1>1, UploadHolds, PTL

\* An upload whose client waits moves as the contract says, step by step, whoever is at work:
\* from its chunks to the final request, and to done or failed.  What its store says is what
\* counts, so that a job which the webhook completes and a later attempt fails has relapsed:
\* from done it goes to processing or failed only after one of the mishaps that the contract names.
THEOREM UploadsFollowTheContract == Spec => FollowsContract
<1>1. Init => \A j \in Job : Contract(j)!Init
  <2> SUFFICES ASSUME Init, NEW j \in Job PROVE Phase(j) = "absent"
    BY DEF Contract!Init
  <2>1. disturbed = {} /\ status[j] = None
    BY DEF Init, InitChunked
  <2> QED BY <2>1 DEF Phase
<1>2. ASSUME UploadInv, [Next]_vars, NEW j \in Job PROVE Follows(j)
  <2>1. Base /\ OutcomesAreOwed
    BY <1>2, InvIsKept
  <2>2. CASE j \in disturbed'
    <3>1. Phase(j)' = "excused"
      BY <2>2 DEF Phase
    <3> QED BY <3>1, ContractSteps
  <2>3. CASE j \notin disturbed'
    <3>1. j \in Job \ disturbed
      BY <1>2, <2>1, <2>3, HistoryIsKept DEF Remembers
    <3>2. Owed(j)
      BY <2>1, <3>1, OwedIsOwed
    <3> QED BY <1>2, <2>1, <2>3, <3>1, <3>2, EveryJobFares DEF Fares
  <2> QED BY <2>2, <2>3
<1>3. UploadInv /\ [Next]_vars => [\A j \in Job : [Contract(j)!Next]_(Phase(j))]_vars
  BY <1>2 DEF Follows
<1> QED BY <1>1, <1>3, UploadHolds, PTL DEF Spec, FollowsContract
=============================================================================
