-------------------------- MODULE NotificationProofs --------------------------
(***************************************************************************)
(* Machine-checked proofs about the notification engine, for any number of *)
(* requests, keys, channels and workers and any retry policy.              *)
(***************************************************************************)
EXTENDS NotificationProperties, FiniteSetTheorems, SequenceTheorems, TLAPS

-----------------------------------------------------------------------------
(* Type correctness *)

\* Rounding up to whole seconds never shortens a time-to-live.
LEMMA CeilIsEnough ==
    ASSUME NEW t \in Nat
    PROVE  CeilToSeconds(t) \in Nat /\ CeilToSeconds(t) >= t
<1>1. t % TicksPerSecond \in 0..(TicksPerSecond - 1)
  BY PipelineAssumption
<1> QED BY <1>1, PipelineAssumption DEF CeilToSeconds

\* Replacing one value of a function by another of its type keeps its type.
LEMMA UpdateKeepsType ==
    ASSUME NEW S, NEW T, NEW f \in [S -> T], NEW x, NEW v \in T
    PROVE  [f EXCEPT ![x] = v] \in [S -> T]
OBVIOUS

\* An observer callback keeps the type of the events seen.
LEMMA NotifyTyping ==
    ASSUME NEW x, NEW e \in Event, events \in [Request -> SUBSET Event],
           events' = events \/ Notify(x, e)
    PROVE  events' \in [Request -> SUBSET Event]
<1>1. CASE x \in Request
  <2>1. events[x] \cup {e} \in SUBSET Event
    BY <1>1
  <2> QED BY <2>1, UpdateKeepsType DEF Notify
<1>2. CASE x \notin Request
  BY <1>2 DEF Notify
<1> QED BY <1>1, <1>2

\* updateByJobId keeps the log a sequence of rows.
LEMMA UpdateTyping ==
    ASSUME log \in Seq(LogRow), NEW id, NEW status \in Status, UpdateByJobId(id, status)
    PROVE  log' \in Seq(LogRow)
<1> DEFINE f == FirstRow(id)
           row == [log[f] EXCEPT !.status = status]
<1>1. log' = log \/ log' = [log EXCEPT ![f] = row]
  BY DEF UpdateByJobId
<1> HIDE DEF f
<1>2. CASE f \in 1..Len(log)
  <2>1. row \in LogRow
    <3>1. log[f] \in LogRow
      BY <1>2, ElementOfSeq
    <3> QED BY <3>1 DEF LogRow
  <2> HIDE DEF row
  <2> QED BY <1>1, <1>2, <2>1, ExceptSeq
<1>3. CASE f \notin 1..Len(log)
  <2> HIDE DEF row
  <2>1. log' = log
    BY <1>1, <1>3
  <2> QED BY <2>1
<1> QED BY <1>2, <1>3

THEOREM Typing == Spec => []TypeOK
<1>1. Init => TypeOK
  BY PipelineAssumption
  DEF Init, TypeOK, SenderTypeOK, RedisTypeOK, QueueTypeOK, WorkerTypeOK, WorldTypeOK,
      Message, SenderLabel, JobState, RunLabel
<1>2. TypeOK /\ [Next]_vars => TypeOK'
  <2> SUFFICES ASSUME TypeOK, [Next]_vars PROVE TypeOK'
    OBVIOUS
  <2> USE PipelineAssumption DEF senderVars, redisVars, queueVars, workerVars, worldVars
  <2>1. CASE Tick
    BY <2>1 DEF Tick, TypeOK, SenderTypeOK, RedisTypeOK, QueueTypeOK, WorkerTypeOK, WorldTypeOK
  <2>2. ASSUME NEW r \in Request, Call(r) PROVE TypeOK'
    <3>1. SenderTypeOK'
      BY <2>2 DEF Call, TypeOK, SenderTypeOK, Skip, GoTo, SenderLabel
    <3>2. WorldTypeOK'
      BY <2>2 DEF Call, TypeOK, WorldTypeOK, Skip, Notify, Event, SkipReason
    <3> QED BY <2>2, <3>1, <3>2 DEF Call, TypeOK, RedisTypeOK, QueueTypeOK, WorkerTypeOK
  <2>3. ASSUME NEW r \in Request, CheckPreference(r) PROVE TypeOK'
    <3>1. SenderTypeOK'
      <4>1. /\ pc' = [pc EXCEPT ![r] = "skipped"] \/ pc' = [pc EXCEPT ![r] = "rate"]
            /\ askedAt' = askedAt \/ askedAt' = [askedAt EXCEPT ![r] = now]
            /\ msg' = msg /\ ttl' = ttl
        BY <2>3 DEF CheckPreference, Skip, GoTo
      <4>2. pc' \in [Request -> SenderLabel]
        BY <4>1 DEF TypeOK, SenderTypeOK, SenderLabel
      <4>3. askedAt' \in [Request -> Nat]
        BY <4>1, UpdateKeepsType DEF TypeOK, SenderTypeOK
      <4> QED BY <4>1, <4>2, <4>3 DEF TypeOK, SenderTypeOK
    <3>2. WorldTypeOK'
      BY <2>3 DEF CheckPreference, TypeOK, WorldTypeOK, Skip, Notify, Event, SkipReason
    <3> QED BY <2>3, <3>1, <3>2 DEF CheckPreference, TypeOK, RedisTypeOK, QueueTypeOK, WorkerTypeOK
  <2>4. ASSUME NEW r \in Request, CheckRate(r) PROVE TypeOK'
    <3>1. msg[r] \in Message /\ msg[r].channel \in Channel
      BY DEF TypeOK, SenderTypeOK, Message
    <3>2. LiveWindow(msg[r].channel, askedAt[r]) \subseteq Request
      BY <3>1 DEF LiveWindow, TypeOK, RedisTypeOK
    <3>3. TtlFor(msg[r]) \in Nat
      <4>1. msg[r].expiresAt = Never \/ msg[r].expiresAt \in Nat
        BY <3>1 DEF Message
      <4> QED BY <4>1 DEF TtlFor, TypeOK
    <3>4. CeilToSeconds(WindowTicks) \in Nat
      BY CeilIsEnough
    <3>5. SenderTypeOK'
      <4>1. /\ \E l \in SenderLabel : pc' = [pc EXCEPT ![r] = l]
            /\ ttl' = ttl \/ ttl' = [ttl EXCEPT ![r] = TtlFor(msg[r])]
            /\ msg' = msg /\ askedAt' = askedAt
        BY <2>4 DEF CheckRate, Skip, GoTo, SenderLabel
      <4>2. pc' \in [Request -> SenderLabel]
        BY <4>1, UpdateKeepsType DEF TypeOK, SenderTypeOK
      <4>3. ttl' \in [Request -> Nat]
        BY <4>1, <3>3, UpdateKeepsType DEF TypeOK, SenderTypeOK
      <4> QED BY <4>1, <4>2, <4>3 DEF TypeOK, SenderTypeOK
    <3>6. RedisTypeOK'
      <4> DEFINE c == msg[r].channel
                 live == LiveWindow(c, askedAt[r])
      <4>1. \/ window' = [window EXCEPT ![c] = live] /\ windowUntil' = windowUntil
            \/ /\ window' = [window EXCEPT ![c] = live \cup {r}]
               /\ windowUntil' = [windowUntil EXCEPT ![c] = now + CeilToSeconds(WindowTicks)]
        BY <2>4 DEF CheckRate
      <4>2. keyHolder' = keyHolder /\ keyUntil' = keyUntil
        BY <2>4 DEF CheckRate
      <4>3. live \subseteq Request
        BY <3>2
      <4> HIDE DEF live
      <4>4. window' \in [Channel -> SUBSET Request]
        BY <4>1, <4>3, <3>1 DEF TypeOK, RedisTypeOK
      <4>5. windowUntil' \in [Channel -> Nat]
        <5> DEFINE until == now + CeilToSeconds(WindowTicks)
        <5>1. until \in Nat
          BY <3>4 DEF TypeOK
        <5>2. windowUntil' = windowUntil \/ windowUntil' = [windowUntil EXCEPT ![c] = until]
          BY <4>1
        <5>3. windowUntil \in [Channel -> Nat]
          BY DEF TypeOK, RedisTypeOK
        <5> HIDE DEF until
        <5> QED BY <5>1, <5>2, <5>3, UpdateKeepsType
      <4> QED BY <4>2, <4>4, <4>5 DEF TypeOK, RedisTypeOK
    <3>7. WorldTypeOK'
      <4>1. /\ events' = events \/ Notify(r, "RATE_LIMITED")
            /\ sends' = sends /\ delivered' = delivered
        BY <2>4 DEF CheckRate, Skip
      <4>2. "RATE_LIMITED" \in Event
        BY DEF Event, SkipReason
      <4>3. events' \in [Request -> SUBSET Event]
        BY <4>1, <4>2, NotifyTyping DEF TypeOK, WorldTypeOK
      <4> QED BY <4>1, <4>3 DEF TypeOK, WorldTypeOK
    <3> QED BY <2>4, <3>5, <3>6, <3>7 DEF CheckRate, TypeOK, QueueTypeOK, WorkerTypeOK
  <2>5. ASSUME NEW r \in Request, AcquireIdempotency(r) PROVE TypeOK'
    <3>1. CeilToSeconds(ttl[r]) \in Nat
      BY CeilIsEnough DEF TypeOK, SenderTypeOK
    <3>2. SenderTypeOK'
      BY <2>5 DEF AcquireIdempotency, TypeOK, SenderTypeOK, Skip, GoTo, SenderLabel
    <3>3. RedisTypeOK'
      <4> DEFINE k == msg[r].key
                 until == now + CeilToSeconds(ttl[r])
      <4>1. /\ keyHolder' = keyHolder \/ keyHolder' = [keyHolder EXCEPT ![k] = r]
            /\ keyUntil' = keyUntil \/ keyUntil' = [keyUntil EXCEPT ![k] = until]
            /\ window' = window /\ windowUntil' = windowUntil
        BY <2>5 DEF AcquireIdempotency
      <4>2. until \in Nat /\ r \in Request \cup {NoRequest}
        BY <3>1 DEF TypeOK
      <4>3. RedisTypeOK
        BY DEF TypeOK
      <4> HIDE DEF k, until
      <4>4. keyHolder' \in [Key -> Request \cup {NoRequest}]
        BY <4>1, <4>2, <4>3, UpdateKeepsType DEF RedisTypeOK
      <4>5. keyUntil' \in [Key -> Nat]
        BY <4>1, <4>2, <4>3, UpdateKeepsType DEF RedisTypeOK
      <4> QED BY <4>1, <4>3, <4>4, <4>5 DEF RedisTypeOK
    <3>4. WorldTypeOK'
      <4>1. /\ events' = events \/ Notify(r, "DUPLICATE")
            /\ sends' = sends /\ delivered' = delivered
        BY <2>5 DEF AcquireIdempotency, Skip
      <4>2. "DUPLICATE" \in Event
        BY DEF Event, SkipReason
      <4>3. events' \in [Request -> SUBSET Event]
        BY <4>1, <4>2, NotifyTyping DEF TypeOK, WorldTypeOK
      <4> QED BY <4>1, <4>3 DEF TypeOK, WorldTypeOK
    <3> QED BY <2>5, <3>2, <3>3, <3>4 DEF AcquireIdempotency, TypeOK, QueueTypeOK, WorkerTypeOK
  <2>6. ASSUME NEW r \in Request, Enqueue(r) PROVE TypeOK'
    <3>1. msg[r].channel \in Channel
      BY DEF TypeOK, SenderTypeOK, Message
    <3>2. SenderTypeOK'
      BY <2>6 DEF Enqueue, TypeOK, SenderTypeOK, GoTo, SenderLabel
    <3>3. QueueTypeOK'
      <4> DEFINE next == lastId[msg[r].channel] + 1
      <4>1. QueueTypeOK /\ next \in Nat
        BY <3>1 DEF TypeOK, QueueTypeOK
      <4>2. /\ lastId' = [lastId EXCEPT ![msg[r].channel] = next]
            /\ jobId' = [jobId EXCEPT ![r] = next]
            /\ job' = [job EXCEPT ![r] = "waiting"]
            /\ attemptsMade' = attemptsMade /\ stalls' = stalls /\ lockedBy' = lockedBy
        BY <2>6 DEF Enqueue
      <4> HIDE DEF next
      <4>3. lastId' \in [Channel -> Nat] /\ jobId' \in [Request -> Nat]
        BY <4>1, <4>2, UpdateKeepsType DEF QueueTypeOK
      <4>4. job' \in [Request -> JobState]
        BY <4>1, <4>2 DEF QueueTypeOK, JobState
      <4> QED BY <4>1, <4>2, <4>3, <4>4 DEF QueueTypeOK
    <3> QED BY <2>6, <3>2, <3>3 DEF Enqueue, TypeOK, RedisTypeOK, WorkerTypeOK, WorldTypeOK
  <2>7. ASSUME NEW r \in Request, CreateLog(r) PROVE TypeOK'
    <3>1. [jobId |-> jobId[r], of |-> r, status |-> "PENDING"] \in LogRow
      BY DEF TypeOK, QueueTypeOK, LogRow, Status
    <3>2. log' \in Seq(LogRow)
      BY <2>7, <3>1, AppendProperties DEF CreateLog, TypeOK
    <3>3. SenderTypeOK'
      BY <2>7 DEF CreateLog, TypeOK, SenderTypeOK, GoTo, SenderLabel
    <3>4. WorldTypeOK'
      BY <2>7 DEF CreateLog, TypeOK, WorldTypeOK, Notify, Event
    <3> QED BY <2>7, <3>2, <3>3, <3>4 DEF CreateLog, TypeOK, RedisTypeOK, QueueTypeOK, WorkerTypeOK
  <2>8. ASSUME NEW r \in Request, Abort(r) PROVE TypeOK'
    <3>1. SenderTypeOK'
      BY <2>8 DEF Abort, TypeOK, SenderTypeOK, GoTo, SenderLabel
    <3> QED BY <2>8, <3>1 DEF Abort, Fault, TypeOK, RedisTypeOK, QueueTypeOK, WorkerTypeOK, WorldTypeOK
  <2>9. ASSUME NEW r \in Request, MoveStalled(r) PROVE TypeOK'
    <3>1. QueueTypeOK'
      BY <2>9 DEF MoveStalled, TypeOK, QueueTypeOK, JobState
    <3> QED BY <2>9, <3>1 DEF MoveStalled, TypeOK, SenderTypeOK, RedisTypeOK, WorkerTypeOK, WorldTypeOK
  <2>10. ASSUME NEW w \in Worker, NEW r \in Request, Fetch(w, r) PROVE TypeOK'
    <3>1. QueueTypeOK'
      BY <2>10 DEF Fetch, TypeOK, QueueTypeOK, JobState
    <3>2. WorkerTypeOK'
      BY <2>10 DEF Fetch, TypeOK, WorkerTypeOK, RunLabel
    <3> QED BY <2>10, <3>1, <3>2 DEF Fetch, TypeOK, SenderTypeOK, RedisTypeOK, WorldTypeOK
  <2>11. ASSUME NEW w \in Worker, WorkerStep(w) PROVE TypeOK'
    <3>1. /\ SenderTypeOK /\ RedisTypeOK /\ QueueTypeOK /\ WorkerTypeOK /\ WorldTypeOK
          /\ now \in Nat /\ faults \in Nat /\ log \in Seq(LogRow)
      BY DEF TypeOK
    <3>2. CASE MarkRetrying(w)
      <4>1. log' \in Seq(LogRow)
        BY <3>1, <3>2, UpdateTyping DEF MarkRetrying, Status
      <4>2. WorkerTypeOK'
        BY <3>1, <3>2 DEF MarkRetrying, Proceed, WorkerTypeOK, RunLabel
      <4> QED BY <3>1, <3>2, <4>1, <4>2 DEF MarkRetrying, Proceed, Fault, TypeOK, SenderTypeOK,
                 RedisTypeOK, QueueTypeOK, WorldTypeOK
    <3>3. CASE PreProcess(w)
      <4>1. WorkerTypeOK'
        BY <3>1, <3>3 DEF PreProcess, Proceed, WorkerTypeOK, RunLabel
      <4> QED BY <3>1, <3>3, <4>1 DEF PreProcess, Proceed, TypeOK, SenderTypeOK, RedisTypeOK,
                 QueueTypeOK, WorldTypeOK
    <3>4. CASE Send(w)
      <4>1. WorkerTypeOK'
        BY <3>1, <3>4 DEF Send, Proceed, WorkerTypeOK, RunLabel
      <4>2. WorldTypeOK'
        <5>1. holds[w] \in Request
          BY <3>1, <3>4 DEF Send, WorkerTypeOK
        <5>2. sends' \in [Request -> Nat]
          BY <3>1, <3>4, <5>1 DEF Send, WorldTypeOK
        <5>3. delivered' = delivered \/ delivered' = [delivered EXCEPT ![holds[w]] = @ + 1]
          BY <3>4 DEF Send
        <5>4. delivered' \in [Request -> Nat]
          BY <3>1, <5>1, <5>3 DEF WorldTypeOK
        <5> QED BY <3>1, <3>4, <5>2, <5>4 DEF Send, WorldTypeOK
      <4> QED BY <3>1, <3>4, <4>1, <4>2 DEF Send, Proceed, Fault, TypeOK, SenderTypeOK,
                 RedisTypeOK, QueueTypeOK
    <3>5. CASE LogSuccess(w)
      <4>1. log' \in Seq(LogRow)
        BY <3>1, <3>5, UpdateTyping DEF LogSuccess, Status
      <4>2. WorkerTypeOK'
        BY <3>1, <3>5 DEF LogSuccess, Proceed, WorkerTypeOK, RunLabel
      <4>3. WorldTypeOK'
        <5>1. events' = events \/ Notify(holds[w], "delivered")
          BY <3>5 DEF LogSuccess
        <5>2. "delivered" \in Event
          BY DEF Event
        <5>3. events' \in [Request -> SUBSET Event]
          BY <3>1, <5>1, <5>2, NotifyTyping DEF WorldTypeOK
        <5> QED BY <3>1, <3>5, <5>3 DEF LogSuccess, WorldTypeOK
      <4> QED BY <3>1, <3>5, <4>1, <4>2, <4>3 DEF LogSuccess, Proceed, Fault, TypeOK,
                 SenderTypeOK, RedisTypeOK, QueueTypeOK
    <3>6. CASE LogFailure(w)
      <4>1. log' \in Seq(LogRow)
        BY <3>1, <3>6, UpdateTyping DEF LogFailure, Status
      <4>2. WorkerTypeOK'
        BY <3>1, <3>6 DEF LogFailure, Proceed, WorkerTypeOK, RunLabel
      <4>3. WorldTypeOK'
        <5>1. events' = events \/ Notify(holds[w], "failed")
          BY <3>6 DEF LogFailure
        <5>2. "failed" \in Event
          BY DEF Event
        <5>3. events' \in [Request -> SUBSET Event]
          BY <3>1, <5>1, <5>2, NotifyTyping DEF WorldTypeOK
        <5> QED BY <3>1, <3>6, <5>3 DEF LogFailure, WorldTypeOK
      <4>4. UNCHANGED <<now, senderVars, redisVars, queueVars>>
        BY <3>6 DEF LogFailure, Proceed
      <4>5. faults' \in Nat
        BY <3>1, <3>6 DEF LogFailure, Fault
      <4> QED BY <3>1, <4>1, <4>2, <4>3, <4>4, <4>5 DEF TypeOK, SenderTypeOK, RedisTypeOK,
                 QueueTypeOK
    <3>7. CASE Finish(w)
      <4>1. holds[w] \in Request
        BY <3>1, <3>7 DEF Finish, WorkerTypeOK
      <4>2. Outcome(holds[w], err[w]) \in JobState
        BY DEF Outcome, JobState
      <4>3. QueueTypeOK'
        <5>1. job' = job \/ job' = [job EXCEPT ![holds[w]] = Outcome(holds[w], err[w])]
          BY <3>7 DEF Finish
        <5>2. \/ attemptsMade' = attemptsMade
              \/ attemptsMade' = [attemptsMade EXCEPT ![holds[w]] = @ + 1]
          BY <3>7 DEF Finish
        <5>3. lockedBy' = lockedBy \/ lockedBy' = [lockedBy EXCEPT ![holds[w]] = NoWorker]
          BY <3>7 DEF Finish
        <5>4. jobId' = jobId /\ stalls' = stalls /\ lastId' = lastId
          BY <3>7 DEF Finish
        <5>5. job' \in [Request -> JobState]
          BY <3>1, <4>1, <4>2, <5>1 DEF QueueTypeOK
        <5>6. attemptsMade' \in [Request -> Nat]
          BY <3>1, <4>1, <5>2 DEF QueueTypeOK
        <5>7. lockedBy' \in [Request -> Worker \cup {NoWorker}]
          BY <3>1, <5>3 DEF QueueTypeOK
        <5> QED BY <3>1, <5>4, <5>5, <5>6, <5>7 DEF QueueTypeOK
      <4>4. WorkerTypeOK'
        BY <3>1, <3>7 DEF Finish, WorkerTypeOK, RunLabel
      <4> QED BY <3>1, <3>7, <4>3, <4>4 DEF Finish, TypeOK, SenderTypeOK, RedisTypeOK, WorldTypeOK
    <3> QED BY <2>11, <3>2, <3>3, <3>4, <3>5, <3>6, <3>7 DEF WorkerStep
  <2>12. ASSUME NEW w \in Worker, Crash(w) PROVE TypeOK'
    <3>1. QueueTypeOK'
      BY <2>12 DEF Crash, Unlock, TypeOK, QueueTypeOK
    <3>2. WorkerTypeOK'
      BY <2>12 DEF Crash, TypeOK, WorkerTypeOK, RunLabel
    <3> QED BY <2>12, <3>1, <3>2 DEF Crash, Fault, TypeOK, SenderTypeOK, RedisTypeOK, WorldTypeOK
  <2>13. ASSUME NEW w \in Worker, LoseLock(w) PROVE TypeOK'
    <3>1. QueueTypeOK'
      BY <2>13 DEF LoseLock, Unlock, TypeOK, QueueTypeOK
    <3> QED BY <2>13, <3>1 DEF LoseLock, Fault, TypeOK, SenderTypeOK, RedisTypeOK, WorkerTypeOK, WorldTypeOK
  <2>14. CASE UNCHANGED vars
    BY <2>14 DEF vars, TypeOK, SenderTypeOK, RedisTypeOK, QueueTypeOK, WorkerTypeOK, WorldTypeOK
  <2> QED BY <2>1, <2>2, <2>3, <2>4, <2>5, <2>6, <2>7, <2>8, <2>9, <2>10, <2>11, <2>12,
             <2>13, <2>14
          DEF Next, SenderStep
<1> QED BY <1>1, <1>2, PTL DEF Spec
=============================================================================
