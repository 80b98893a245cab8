------------------------ MODULE NotificationPipeline ------------------------
(***************************************************************************)
(* The notification engine of packages/notifications: NotificationService  *)
(* runs the pre-flight pipeline and enqueues, BullMQ keeps the job,        *)
(* NotificationProcessor delivers it.  The two halves meet in three shared *)
(* stores: Redis (deduplication keys and the rate limiter's sorted set),   *)
(* the BullMQ queue and the notification log.                              *)
(*                                                                         *)
(* Every action is the code between two awaits, so that the steps of       *)
(* concurrent send() calls, of workers and of the clock interleave exactly *)
(* where the event loop and the network let them.                          *)
(***************************************************************************)
EXTENDS Naturals, Sequences, FiniteSets

CONSTANTS
    Request,        \* calls of NotificationService.send
    Channel,        \* channels: one BullMQ queue each, one rate window each
    Key,            \* idempotency keys
    Worker,         \* runs of NotificationProcessor.process at a time
    NoKey,          \* a message without idempotencyKey
    NoRequest,      \* no one holds the key / the worker has no job
    NoWorker,       \* no worker holds the job's BullMQ lock
    Never,          \* a message without expiresAt
    Expiry,         \* the expiresAt times callers use
    MaxRequests,    \* RateLimiterConfig.maxRequests
    WindowTicks,    \* RateLimiterConfig.windowMs
    TicksPerSecond, \* clock ticks in one second, the unit of Redis' EX
    DefaultTtl,     \* DEFAULT_DEDUP_TTL_MS
    Attempts,       \* ChannelRetryPolicy.attempts
    MaxStalled,     \* BullMQ's maxStalledCount
    MaxTime,        \* BOUND on the clock
    MaxFaults       \* BOUND on crashes, lost replies and failing calls

ASSUME PipelineAssumption ==
    /\ MaxRequests \in Nat \ {0} /\ WindowTicks \in Nat \ {0}
    /\ TicksPerSecond \in Nat \ {0} /\ DefaultTtl \in Nat \ {0}
    /\ Attempts \in Nat \ {0} /\ MaxStalled \in Nat
    /\ MaxTime \in Nat /\ MaxFaults \in Nat
    /\ Expiry \subseteq Nat /\ Never \notin Nat
    /\ IsFiniteSet(Request) /\ IsFiniteSet(Worker) /\ IsFiniteSet(Channel)
    /\ NoKey \notin Key /\ NoRequest \notin Request /\ NoWorker \notin Worker

Message == [channel : Channel, key : Key \cup {NoKey}, expiresAt : Expiry \cup {Never}]

VARIABLES
    now,            \* the wall clock every process reads with Date.now()
    \* NotificationService.send, one instance per request
    pc, msg,
    askedAt,        \* the `now` isAllowed captured before its Lua script runs
    ttl,            \* the ttlMs computed before acquireIdempotency runs
    \* Redis
    window,         \* members of the notif:rl sorted set, by request
    windowUntil,    \* when that set's EXPIRE removes it
    keyHolder,      \* which request's SET NX created the notif:dedup key
    keyUntil,       \* when that key's EX removes it
    \* BullMQ: the job of a request, and each queue's id counter
    job, jobId, attemptsMade, stalls, lockedBy, lastId,
    \* the rows of the log repository, in creation order
    log,
    \* NotificationProcessor.process, one instance per worker
    step, holds, err,
    \* what the outside saw: provider calls, deliveries, observer callbacks
    sends, delivered, events,
    faults

senderVars == <<pc, msg, askedAt, ttl>>
redisVars  == <<window, windowUntil, keyHolder, keyUntil>>
queueVars  == <<job, jobId, attemptsMade, stalls, lockedBy, lastId>>
workerVars == <<step, holds, err>>
worldVars  == <<sends, delivered, events>>
vars == <<now, senderVars, redisVars, queueVars, log, workerVars, worldVars, faults>>

Status == {"PENDING", "SENT", "FAILED", "RETRYING", "EXPIRED", "SKIPPED"}
SkipReason == {"EXPIRED", "OPTED_OUT", "RATE_LIMITED", "DUPLICATE"}
Event == {"queued", "delivered", "failed"} \cup SkipReason

\* A row of the log.  `of` stands for its channel and recipientId columns.
LogRow == [jobId : Nat, of : Request, status : Status]

-----------------------------------------------------------------------------
(* Helpers *)

\* message.expiresAt <= new Date()
Expired(m) == m.expiresAt # Never /\ m.expiresAt <= now

\* Mutant of CeilToSeconds: Math.floor for Math.ceil.
FloorToSeconds(t) == t - (t % TicksPerSecond)

\* Math.ceil(ms / 1000), in ticks: Redis keeps time-to-live in whole seconds.
CeilToSeconds(t) ==
    IF t % TicksPerSecond = 0 THEN t
    ELSE t + (TicksPerSecond - (t % TicksPerSecond))

\* Mutant of TtlFor: without Math.max(0, ...).
UnclampedTtl(m) == IF m.expiresAt = Never THEN DefaultTtl ELSE m.expiresAt - now

\* ttlMs of runPreflightChecks; acquireIdempotency's default stands in for undefined.
TtlFor(m) ==
    IF m.expiresAt = Never THEN DefaultTtl
    ELSE IF m.expiresAt > now THEN m.expiresAt - now ELSE 0

KeyIsFree(k) == keyHolder[k] = NoRequest \/ now >= keyUntil[k]

\* What ZREMRANGEBYSCORE 0 windowStart leaves for a call that asked at time t.
LiveWindow(c, t) ==
    IF now >= windowUntil[c] THEN {}
    ELSE {r \in window[c] : askedAt[r] + WindowTicks > t}

\* updateByJobId: the first row with that jobId, and nothing when there is none.
FirstRow(id) ==
    CHOOSE i \in DOMAIN log :
        log[i].jobId = id /\ \A j \in DOMAIN log : log[j].jobId = id => i <= j
UpdateByJobId(id, status) ==
    log' = IF \E i \in DOMAIN log : log[i].jobId = id
           THEN [log EXCEPT ![FirstRow(id)].status = status]
           ELSE log

Notify(r, event) == events' = [events EXCEPT ![r] = @ \cup {event}]

\* A crash, a lost reply or a failing call; MaxFaults bounds how many.
Fault == faults < MaxFaults /\ faults' = faults + 1

-----------------------------------------------------------------------------
Init ==
    /\ now = 0
    /\ pc = [r \in Request |-> "idle"]
    /\ msg \in [Request -> Message]
    /\ askedAt = [r \in Request |-> 0]
    /\ ttl = [r \in Request |-> 0]
    /\ window = [c \in Channel |-> {}]
    /\ windowUntil = [c \in Channel |-> 0]
    /\ keyHolder = [k \in Key |-> NoRequest]
    /\ keyUntil = [k \in Key |-> 0]
    /\ job = [r \in Request |-> "none"]
    /\ jobId = [r \in Request |-> 0]
    /\ attemptsMade = [r \in Request |-> 0]
    /\ stalls = [r \in Request |-> 0]
    /\ lockedBy = [r \in Request |-> NoWorker]
    /\ lastId = [c \in Channel |-> 0]
    /\ log = <<>>
    /\ step = [w \in Worker |-> "idle"]
    /\ holds = [w \in Worker |-> NoRequest]
    /\ err = [w \in Worker |-> "none"]
    /\ sends = [r \in Request |-> 0]
    /\ delivered = [r \in Request |-> 0]
    /\ events = [r \in Request |-> {}]
    /\ faults = 0

Tick ==
    /\ now < MaxTime
    /\ now' = now + 1
    /\ UNCHANGED <<senderVars, redisVars, queueVars, log, workerVars, worldVars, faults>>

-----------------------------------------------------------------------------
(* NotificationService.send *)

GoTo(r, label) == pc' = [pc EXCEPT ![r] = label]

\* this.skip({reason, ...}); return true
Skip(r, reason) == GoTo(r, "skipped") /\ Notify(r, reason)

\* send() runs synchronously up to its first await: the expiry check.
Call(r) ==
    /\ pc[r] = "idle"
    /\ \/ Expired(msg[r]) /\ Skip(r, "EXPIRED")
       \/ ~Expired(msg[r]) /\ GoTo(r, "prefs") /\ UNCHANGED events
    /\ UNCHANGED <<now, msg, askedAt, ttl, redisVars, queueVars, log, workerVars,
                   sends, delivered, faults>>

\* isOptedOut answers: setOptOut may set or delete the preference key at any time,
\* so either answer is possible.  When opted in, isAllowed reads the clock.
CheckPreference(r) ==
    /\ pc[r] = "prefs"
    /\ \/ Skip(r, "OPTED_OUT") /\ UNCHANGED askedAt
       \/ /\ GoTo(r, "rate")
          /\ askedAt' = [askedAt EXCEPT ![r] = now]
          /\ UNCHANGED events
    /\ UNCHANGED <<now, msg, ttl, redisVars, queueVars, log, workerVars, sends, delivered,
                   faults>>

\* The Lua script runs atomically; the continuation computes the dedup ttl.
CheckRate(r) ==
    LET c    == msg[r].channel
        live == LiveWindow(c, askedAt[r])
    IN /\ pc[r] = "rate"
       /\ \/ /\ Cardinality(live) >= MaxRequests
             /\ window' = [window EXCEPT ![c] = live]
             /\ Skip(r, "RATE_LIMITED")
             /\ UNCHANGED <<ttl, windowUntil>>
          \/ /\ Cardinality(live) < MaxRequests
             /\ window' = [window EXCEPT ![c] = live \cup {r}]
             /\ windowUntil' = [windowUntil EXCEPT ![c] = now + CeilToSeconds(WindowTicks)]
             /\ GoTo(r, IF msg[r].key = NoKey THEN "enqueue" ELSE "dedup")
             /\ ttl' = [ttl EXCEPT ![r] = TtlFor(msg[r])]
             /\ UNCHANGED events
       /\ UNCHANGED <<now, msg, askedAt, keyHolder, keyUntil, queueVars, log,
                      workerVars, sends, delivered, faults>>

\* Mutant of AcquireIdempotency: SET without NX, whose old value tells the duplicate.
AcquireWithoutNX(r) ==
    LET k == msg[r].key
    IN /\ pc[r] = "dedup" /\ ttl[r] > 0
       /\ keyHolder' = [keyHolder EXCEPT ![k] = r]
       /\ keyUntil' = [keyUntil EXCEPT ![k] = now + CeilToSeconds(ttl[r])]
       /\ \/ KeyIsFree(k) /\ GoTo(r, "enqueue") /\ UNCHANGED events
          \/ ~KeyIsFree(k) /\ Skip(r, "DUPLICATE")
       /\ UNCHANGED <<now, msg, askedAt, ttl, window, windowUntil, queueVars, log, workerVars,
                      sends, delivered, faults>>

\* SET key 1 NX EX ceil(ttl): Redis refuses EX 0, setNX rethrows and send() rejects.
AcquireIdempotency(r) ==
    LET k == msg[r].key
        seconds == CeilToSeconds(ttl[r])
    IN /\ pc[r] = "dedup"
       /\ \/ seconds = 0 /\ GoTo(r, "aborted") /\ UNCHANGED <<keyHolder, keyUntil, events>>
          \/ /\ seconds > 0 /\ ~KeyIsFree(k)
             /\ Skip(r, "DUPLICATE")
             /\ UNCHANGED <<keyHolder, keyUntil>>
          \/ /\ seconds > 0 /\ KeyIsFree(k)
             /\ keyHolder' = [keyHolder EXCEPT ![k] = r]
             /\ keyUntil' = [keyUntil EXCEPT ![k] = now + seconds]
             /\ GoTo(r, "enqueue")
             /\ UNCHANGED events
       /\ ttl' = [ttl EXCEPT ![r] = 0]
       /\ UNCHANGED <<now, msg, askedAt, window, windowUntil, queueVars, log, workerVars,
                      sends, delivered, faults>>

\* queue.add: the queue of the channel numbers its own jobs.
Enqueue(r) ==
    LET c == msg[r].channel
    IN /\ pc[r] = "enqueue"
       /\ lastId' = [lastId EXCEPT ![c] = @ + 1]
       /\ jobId' = [jobId EXCEPT ![r] = lastId[c] + 1]
       /\ job' = [job EXCEPT ![r] = "waiting"]
       /\ GoTo(r, "log")
       /\ UNCHANGED <<now, msg, askedAt, ttl, redisVars, attemptsMade, stalls, lockedBy, log,
                      workerVars, worldVars, faults>>

\* logRepository.create, then onQueued.
CreateLog(r) ==
    /\ pc[r] = "log"
    /\ log' = Append(log, [jobId |-> jobId[r], of |-> r, status |-> "PENDING"])
    /\ GoTo(r, "queued")
    /\ Notify(r, "queued")
    /\ UNCHANGED <<now, msg, askedAt, ttl, redisVars, queueVars, workerVars, sends, delivered,
                   faults>>

\* A store rejects, its reply is lost, or the process dies between two awaits:
\* send() ends there, and nothing it did before is undone.
Abort(r) ==
    /\ pc[r] \in {"prefs", "rate", "dedup", "enqueue", "log"}
    /\ Fault
    /\ GoTo(r, "aborted")
    /\ UNCHANGED <<now, msg, askedAt, ttl, redisVars, queueVars, log, workerVars, worldVars>>

-----------------------------------------------------------------------------
(* BullMQ and NotificationProcessor.process *)

\* A worker takes a waiting job (backoff and priority leave the order open).
Fetch(w, r) ==
    /\ step[w] = "idle"
    /\ job[r] = "waiting"
    /\ job' = [job EXCEPT ![r] = "active"]
    /\ lockedBy' = [lockedBy EXCEPT ![r] = w]
    /\ holds' = [holds EXCEPT ![w] = r]
    /\ err' = [err EXCEPT ![w] = "none"]
    /\ step' = [step EXCEPT ![w] = IF attemptsMade[r] > 0 THEN "mark" ELSE "begin"]
    /\ UNCHANGED <<now, senderVars, redisVars, jobId, attemptsMade, stalls, lastId, log,
                   worldVars, faults>>

\* The run of worker w moves to `label` with error e.
Proceed(w, label, e) ==
    /\ step' = [step EXCEPT ![w] = label]
    /\ err' = [err EXCEPT ![w] = e]
    /\ UNCHANGED <<now, senderVars, redisVars, queueVars, holds>>

\* The RETRYING update stands before the try: when it throws, the attempt has
\* failed without a FAILED row and without onFailed.
MarkRetrying(w) ==
    /\ step[w] = "mark"
    /\ \/ UpdateByJobId(jobId[holds[w]], "RETRYING") /\ Proceed(w, "begin", "none")
          /\ UNCHANGED faults
       \/ Fault /\ Proceed(w, "finish", "provider") /\ UNCHANGED log
    /\ UNCHANGED worldVars

\* preProcess and getChannel: expiry, or a template or channel that throws.
PreProcess(w) ==
    /\ step[w] = "begin"
    /\ \/ Expired(msg[holds[w]]) /\ Proceed(w, "logFailure", "expired")
       \/ ~Expired(msg[holds[w]]) /\ Proceed(w, "logFailure", "provider")
       \/ ~Expired(msg[holds[w]]) /\ Proceed(w, "send", "none")
    /\ UNCHANGED <<log, worldVars, faults>>

\* Mutant of Send: the promise of notificationChannel.send is not awaited.
SendNotAwaited(w) ==
    LET r == holds[w]
    IN /\ step[w] = "send"
       /\ sends' = [sends EXCEPT ![r] = @ + 1]
       /\ \/ delivered' = [delivered EXCEPT ![r] = @ + 1]
          \/ UNCHANGED delivered
       /\ Proceed(w, "logSuccess", "none")
       /\ UNCHANGED <<log, events, faults>>

\* notificationChannel.send: delivered, refused, failed, or delivered with the
\* provider's answer lost, which the channel reports as a provider error.
Send(w) ==
    LET r == holds[w]
    IN /\ step[w] = "send"
       /\ sends' = [sends EXCEPT ![r] = @ + 1]
       /\ \/ /\ delivered' = [delivered EXCEPT ![r] = @ + 1]
             /\ Proceed(w, "logSuccess", "none")
             /\ UNCHANGED faults
          \/ \E e \in {"client", "provider"} :
                Proceed(w, "logFailure", e) /\ UNCHANGED <<delivered, faults>>
          \/ /\ Fault
             /\ delivered' = [delivered EXCEPT ![r] = @ + 1]
             /\ Proceed(w, "logFailure", "provider")
       /\ UNCHANGED <<log, events>>

\* Mutant of LogSuccess: notifyObservers does not catch what an observer throws.
LogSuccessObserverThrows(w) ==
    LET r == holds[w]
    IN /\ step[w] = "logSuccess"
       /\ UpdateByJobId(jobId[r], "SENT")
       /\ Notify(r, "delivered")
       /\ \/ Proceed(w, "finish", "none")
          \/ Proceed(w, "logFailure", "provider")
       /\ UNCHANGED <<sends, delivered, faults>>

\* SENT and onDelivered.  The update is inside the try: when it throws, the
\* catch block treats a delivered message as a failed one.
LogSuccess(w) ==
    LET r == holds[w]
    IN /\ step[w] = "logSuccess"
       /\ \/ /\ UpdateByJobId(jobId[r], "SENT")
             /\ Notify(r, "delivered")
             /\ Proceed(w, "finish", "none")
             /\ UNCHANGED faults
          \/ Fault /\ Proceed(w, "logFailure", "provider") /\ UNCHANGED <<log, events>>
       /\ UNCHANGED <<sends, delivered>>

\* Mutant of LogFailure: an expired message is dropped without onFailed.
LogFailureSilentOnExpiry(w) ==
    LET r == holds[w]
    IN /\ step[w] = "logFailure"
       /\ UpdateByJobId(jobId[r], IF err[w] = "expired" THEN "EXPIRED" ELSE "FAILED")
       /\ IF err[w] = "expired" THEN UNCHANGED events ELSE Notify(r, "failed")
       /\ Proceed(w, "finish", err[w])
       /\ UNCHANGED <<sends, delivered, faults>>

\* The catch block.  When its own update throws, neither onFailed nor the
\* UnrecoverableError is reached, and BullMQ sees a retryable error.
LogFailure(w) ==
    LET r == holds[w]
    IN /\ step[w] = "logFailure"
       /\ \/ /\ UpdateByJobId(jobId[r], IF err[w] = "expired" THEN "EXPIRED" ELSE "FAILED")
             /\ Notify(r, "failed")
             /\ Proceed(w, "finish", err[w])
             /\ UNCHANGED faults
          \/ Fault /\ Proceed(w, "finish", "provider") /\ UNCHANGED <<log, events>>
       /\ UNCHANGED <<sends, delivered>>

\* Mutant of Outcome: the attempt under way is not counted.
OutcomeOffByOne(r, e) ==
    IF e = "none" THEN "completed"
    ELSE IF e \in {"client", "expired"} \/ attemptsMade[r] >= Attempts THEN "failed"
    ELSE "waiting"

\* What BullMQ makes of the outcome of the attempt, when the worker still holds
\* the job's lock; without it the outcome is dropped.
Outcome(r, e) ==
    IF e = "none" THEN "completed"
    ELSE IF e \in {"client", "expired"} \/ attemptsMade[r] + 1 >= Attempts THEN "failed"
    ELSE "waiting"

\* Mutant of Finish: the lock token is not checked.
FinishWithoutToken(w) ==
    LET r == holds[w]
    IN /\ step[w] = "finish"
       /\ step' = [step EXCEPT ![w] = "idle"]
       /\ holds' = [holds EXCEPT ![w] = NoRequest]
       /\ err' = [err EXCEPT ![w] = "none"]
       /\ job' = [job EXCEPT ![r] = Outcome(r, err[w])]
       /\ attemptsMade' = [attemptsMade EXCEPT ![r] = @ + 1]
       /\ lockedBy' = [lockedBy EXCEPT ![r] = NoWorker]
       /\ UNCHANGED <<now, senderVars, redisVars, jobId, stalls, lastId, log, worldVars, faults>>

Finish(w) ==
    LET r == holds[w]
    IN /\ step[w] = "finish"
       /\ step' = [step EXCEPT ![w] = "idle"]
       /\ holds' = [holds EXCEPT ![w] = NoRequest]
       /\ err' = [err EXCEPT ![w] = "none"]
       /\ \/ /\ lockedBy[r] = w
             /\ job' = [job EXCEPT ![r] = Outcome(r, err[w])]
             /\ attemptsMade' = [attemptsMade EXCEPT ![r] = @ + 1]
             /\ lockedBy' = [lockedBy EXCEPT ![r] = NoWorker]
          \/ lockedBy[r] # w /\ UNCHANGED <<job, attemptsMade, lockedBy>>
       /\ UNCHANGED <<now, senderVars, redisVars, jobId, stalls, lastId, log,
                      worldVars, faults>>

Unlock(w) ==
    lockedBy' = [r \in Request |-> IF lockedBy[r] = w THEN NoWorker ELSE lockedBy[r]]

\* The worker process dies in the middle of a run and comes back idle.
Crash(w) ==
    /\ step[w] # "idle"
    /\ Fault
    /\ step' = [step EXCEPT ![w] = "idle"]
    /\ holds' = [holds EXCEPT ![w] = NoRequest]
    /\ err' = [err EXCEPT ![w] = "none"]
    /\ Unlock(w)
    /\ UNCHANGED <<now, senderVars, redisVars, job, jobId, attemptsMade, stalls, lastId, log,
                   worldVars>>

\* The worker misses its lock renewals (a blocked event loop) and runs on.
LoseLock(w) ==
    /\ step[w] # "idle"
    /\ lockedBy[holds[w]] = w
    /\ Fault
    /\ Unlock(w)
    /\ UNCHANGED <<now, senderVars, redisVars, job, jobId, attemptsMade, stalls, lastId, log,
                   workerVars, worldVars>>

\* BullMQ's stalled checker: an active job without a lock waits again, or fails
\* once it has stalled more than maxStalledCount times.
MoveStalled(r) ==
    /\ job[r] = "active"
    /\ lockedBy[r] = NoWorker
    /\ stalls' = [stalls EXCEPT ![r] = @ + 1]
    /\ job' = [job EXCEPT ![r] = IF stalls[r] + 1 > MaxStalled THEN "failed" ELSE "waiting"]
    /\ UNCHANGED <<now, senderVars, redisVars, jobId, attemptsMade, lockedBy, lastId, log,
                   workerVars, worldVars, faults>>

-----------------------------------------------------------------------------
SenderStep(r) ==
    \/ CheckPreference(r) \/ CheckRate(r) \/ AcquireIdempotency(r)
    \/ Enqueue(r) \/ CreateLog(r)

WorkerStep(w) ==
    \/ MarkRetrying(w) \/ PreProcess(w) \/ Send(w)
    \/ LogSuccess(w) \/ LogFailure(w) \/ Finish(w)

Next ==
    \/ Tick
    \/ \E r \in Request : Call(r) \/ SenderStep(r) \/ Abort(r) \/ MoveStalled(r)
    \/ \E w \in Worker : WorkerStep(w) \/ Crash(w) \/ LoseLock(w)
    \/ \E w \in Worker, r \in Request : Fetch(w, r)

Spec == Init /\ [][Next]_vars

\* The event loop runs every continuation, idle workers fetch, and BullMQ's
\* checker moves stalled jobs.  Nobody is obliged to call send(), faults are
\* never obliged to happen, and the clock may stop.
Fairness ==
    /\ \A r \in Request : WF_vars(SenderStep(r)) /\ WF_vars(MoveStalled(r))
    /\ \A w \in Worker : WF_vars(WorkerStep(w))
    /\ WF_vars(\E w \in Worker, r \in Request : Fetch(w, r))

FairSpec == Spec /\ Fairness
=============================================================================
