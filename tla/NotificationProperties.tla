----------------------- MODULE NotificationProperties -----------------------
(***************************************************************************)
(* What the notification engine promises, and what it only promises as     *)
(* long as no store, provider or process fails at the wrong moment.        *)
(***************************************************************************)
EXTENDS NotificationPipeline

SenderLabel == {"idle", "prefs", "rate", "dedup", "enqueue", "log", "queued", "skipped", "aborted"}
JobState == {"none", "waiting", "active", "completed", "failed"}
RunLabel == {"idle", "mark", "begin", "send", "logSuccess", "logFailure", "finish"}

SenderTypeOK ==
    /\ pc \in [Request -> SenderLabel]
    /\ msg \in [Request -> Message]
    /\ askedAt \in [Request -> Nat]
    /\ ttl \in [Request -> Nat]
RedisTypeOK ==
    /\ window \in [Channel -> SUBSET Request]
    /\ windowUntil \in [Channel -> Nat]
    /\ keyHolder \in [Key -> Request \cup {NoRequest}]
    /\ keyUntil \in [Key -> Nat]
QueueTypeOK ==
    /\ job \in [Request -> JobState]
    /\ jobId \in [Request -> Nat]
    /\ attemptsMade \in [Request -> Nat]
    /\ stalls \in [Request -> Nat]
    /\ lockedBy \in [Request -> Worker \cup {NoWorker}]
    /\ lastId \in [Channel -> Nat]
WorkerTypeOK ==
    /\ step \in [Worker -> RunLabel]
    /\ holds \in [Worker -> Request \cup {NoRequest}]
    /\ err \in [Worker -> {"none", "client", "provider", "expired"}]
    /\ \A w \in Worker : step[w] = "idle" <=> holds[w] = NoRequest
WorldTypeOK ==
    /\ sends \in [Request -> Nat]
    /\ delivered \in [Request -> Nat]
    /\ events \in [Request -> SUBSET Event]

\* Every variable keeps its type, a log row never gets a status outside the enum,
\* and a worker has a job exactly while it runs process().
TypeOK ==
    /\ now \in Nat /\ faults \in Nat /\ log \in Seq(LogRow)
    /\ SenderTypeOK /\ RedisTypeOK /\ QueueTypeOK /\ WorkerTypeOK /\ WorldTypeOK

\* However retries, stalls, crashes and zombie runs interleave, a provider is
\* called for one job at most `attempts` times plus once per tolerated stall.
SendsBounded == \A r \in Request : sends[r] <= Attempts + MaxStalled

\* The dedup key of an expiring message outlives it (ceil and a clock read before
\* the SET): two queued jobs of one key are never both still deliverable.
AtMostOneLiveJobPerKey ==
    \A r, s \in Request :
        /\ r # s /\ msg[r].key = msg[s].key /\ msg[r].key # NoKey
        /\ msg[r].expiresAt # Never /\ msg[s].expiresAt # Never
        /\ job[r] # "none" /\ job[s] # "none"
        => Expired(msg[r]) \/ Expired(msg[s])

\* A key is only ever kept by a send that passed every other pre-flight check and
\* went on to its job, or that a fault cut off before it: a skipped send, whatever the
\* reason, never blocks a later one.
KeyHolderIsAccountable ==
    \A k \in Key :
        LET h == keyHolder[k]
        IN  h # NoRequest =>
                /\ msg[h].key = k
                /\ pc[h] \in {"enqueue", "log", "queued", "aborted"}
                /\ pc[h] = "aborted" /\ job[h] = "none" => faults > 0

\* Each extra delivery of a job costs one fault: with no failing store, lost reply,
\* crash or lost lock, a job is delivered at most once.
DuplicatesNeedFaults == \A r \in Request : delivered[r] <= 1 + faults

\* A SENT row and an onDelivered callback are only ever about a delivered message
\* (with one channel: SentRowsAreDelivered tells what several channels do to it).
SuccessIsReal ==
    /\ Cardinality(Channel) = 1 =>
            \A i \in DOMAIN log : log[i].status = "SENT" => delivered[log[i].of] > 0
    /\ \A r \in Request : "delivered" \in events[r] => delivered[r] > 0

\* A job does not end in silence: a completed one was delivered and announced, and
\* a failed one was announced unless a fault got in the way.
SettledIsAnnounced ==
    \A r \in Request :
        /\ job[r] = "completed" => "delivered" \in events[r]
        /\ job[r] = "failed" => "failed" \in events[r] \/ faults > 0

\* A request as its caller sees it.
RequestStatus(r) ==
    IF job[r] \in {"completed", "failed"} THEN "settled"
    ELSE IF job[r] # "none" THEN "accepted"
    ELSE IF pc[r] \in {"skipped", "aborted"} THEN "refused"
    ELSE "new"

Contract == INSTANCE NotificationContract
    WITH status <- [r \in Request |-> RequestStatus(r)], MaxSends <- Attempts + MaxStalled

\* The engine keeps the contract: a refused request is never delivered, an accepted
\* one is never forgotten, and every accepted one is settled in the end although
\* workers crash, lose their locks and retry.
KeepsContract == Contract!FairSpec

-----------------------------------------------------------------------------
(* Why the delivery bounds hold: the inductive invariants of the proofs. *)

\* A request has no job before its send() reaches queue.add.
NoJobYet ==
    \A r \in Request :
        pc[r] \in {"idle", "prefs", "rate", "dedup", "enqueue", "skipped"} => job[r] = "none"

\* A BullMQ lock belongs to the run that is working on the active job.
LocksAreHeld ==
    \A r \in Request, w \in Worker :
        lockedBy[r] = w => job[r] = "active" /\ step[w] # "idle" /\ holds[w] = r

\* A job that can still run has an attempt left and has not stalled too often.
CountersInRange ==
    \A r \in Request :
        /\ job[r] \in {"none", "waiting", "active"}
               => attemptsMade[r] < Attempts /\ stalls[r] <= MaxStalled
        /\ attemptsMade[r] + stalls[r] <= Attempts + MaxStalled

\* The runs of job r, with or without its lock, that have yet to call the provider.
Unsent(r) == {w \in Worker : holds[w] = r /\ step[w] \in {"mark", "begin", "send"}}

\* Every provider call, made or to come, is one of the runs the queue has handed
\* out: those it has counted as attempts or stalls and the one in progress.
SendsAreRuns ==
    \A r \in Request :
        sends[r] + Cardinality(Unsent(r))
            <= attemptsMade[r] + stalls[r] + (IF job[r] = "active" THEN 1 ELSE 0)

SendsInv == NoJobYet /\ LocksAreHeld /\ CountersInRange /\ SendsAreRuns

\* The runs of r that lost its lock and have yet to call the provider.
Zombies(r) == {w \in Unsent(r) : lockedBy[r] # w}

\* The provider has accepted the message of this run, and the run knows it.
Succeeded(w) == step[w] = "logSuccess" \/ (step[w] = "finish" /\ err[w] = "none")

\* The delivery that the queue itself may still make of r.
Pending(r) ==
    IF \/ job[r] \in {"completed", "failed"}
       \/ \E w \in Worker : lockedBy[r] = w /\ Succeeded(w)
    THEN 0 ELSE 1

\* Deliveries made, and those zombies and the queue may still make, are paid for:
\* one is free, and each other one took a fault.
Paid(r) == delivered[r] + Cardinality(Zombies(r)) + Pending(r) <= 1 + faults
DeliveriesArePaid == \A r \in Request : Paid(r)

-----------------------------------------------------------------------------
(* Why the deduplication key covers a message: the inductive invariant. *)

\* The ttl read before the SET reaches to the end of the message or further.
TtlCovers ==
    \A r \in Request :
        pc[r] = "dedup" /\ msg[r].expiresAt # Never => now + ttl[r] >= msg[r].expiresAt

\* A send that passed the deduplication check and may have a job.
Admitted(r) == pc[r] \in {"enqueue", "log", "queued"} \/ job[r] # "none"

\* While its message is alive, such a send holds its key, and long enough.
KeyCovers ==
    \A r \in Request :
        Admitted(r) /\ msg[r].key # NoKey /\ msg[r].expiresAt # Never =>
            \/ Expired(msg[r])
            \/ /\ keyHolder[msg[r].key] = r
               /\ keyUntil[msg[r].key] >= msg[r].expiresAt

DedupInv == TtlCovers /\ KeyCovers

-----------------------------------------------------------------------------
(* Why what is reported is true: the inductive invariants. *)

\* A request that is logged, and one that a worker runs, has a job.
JobsExist ==
    /\ \A r \in Request : pc[r] \in {"log", "queued"} => job[r] # "none"
    /\ \A w \in Worker : step[w] # "idle" => job[holds[w]] # "none"

\* The jobs of one queue have different ids, none beyond the queue's counter.
IdsAreUnique ==
    \A r \in Request :
        job[r] # "none" =>
            /\ jobId[r] <= lastId[msg[r].channel]
            /\ \A s \in Request \ {r} :
                  job[s] # "none" /\ msg[s].channel = msg[r].channel => jobId[s] # jobId[r]

\* A row carries the id of the job of its own request.
RowsAreOfJobs ==
    \A i \in DOMAIN log : job[log[i].of] # "none" /\ log[i].jobId = jobId[log[i].of]

JobsInv == JobsExist /\ IdsAreUnique /\ RowsAreOfJobs

\* An active job without a lock is the trace of a crash or of missed renewals.
OrphansAreFaults ==
    \A r \in Request : job[r] = "active" /\ lockedBy[r] = NoWorker => faults > 0

\* What a run knows is so: its message was delivered before it says so, and what it
\* will report to BullMQ it has told the observers, unless its own update failed.
RunsAreTruthful ==
    \A w \in Worker :
        /\ step[w] = "logSuccess" => delivered[holds[w]] > 0
        /\ step[w] = "logFailure" => err[w] # "none"
        /\ step[w] = "finish" /\ err[w] = "none" => "delivered" \in events[holds[w]]
        /\ step[w] = "finish" /\ err[w] # "none" => "failed" \in events[holds[w]] \/ faults > 0

OutcomeInv == OrphansAreFaults /\ RunsAreTruthful /\ SuccessIsReal /\ SettledIsAnnounced

-----------------------------------------------------------------------------
(* What the documentation says and the code does not do; each is refuted. *)

\* README.md:51, "Success --> Update DB Log to SENT": once a job has completed and
\* its send() has returned, its row says SENT.
CompletedIsLoggedSent ==
    \A r \in Request :
        job[r] = "completed" /\ pc[r] = "queued"
            => \E i \in DOMAIN log : log[i].of = r /\ log[i].status = "SENT"

\* README.md:62, "Ensures exact message delivery even if network issues cause clients
\* to retry requests": a retry is only skipped as DUPLICATE when an earlier send of
\* that key has a job or is still on its way to one.
DuplicateIsCovered ==
    \A r \in Request :
        "DUPLICATE" \in events[r] =>
            \E s \in Request \ {r} :
                /\ msg[s].key = msg[r].key
                /\ job[s] # "none" \/ pc[s] = "enqueue"

\* README.md:51 again, with several channels: a row that says SENT is the row of a
\* message that was delivered.
SentRowsAreDelivered ==
    \A i \in DOMAIN log : log[i].status = "SENT" => delivered[log[i].of] > 0

=============================================================================
