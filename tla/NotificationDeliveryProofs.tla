---------------------- MODULE NotificationDeliveryProofs ----------------------
(***************************************************************************)
(* How often a provider can be called for one job, and how often a message *)
(* can be delivered: two bounds that hold for any number of workers, any   *)
(* retry policy and any interleaving of retries, stalls, crashes and runs  *)
(* that outlive their lock.  And what the deduplication key guarantees,    *)
(* for any number of concurrent sends, keys and expiry times: a message    *)
(* that expires is covered by its key until then, and nobody but a send on *)
(* its way to a job keeps a key.                                           *)
(***************************************************************************)
EXTENDS NotificationProofs

-----------------------------------------------------------------------------
(* Sizes of sets of workers *)

LEMMA WorkerSets ==
    ASSUME NEW S \in SUBSET Worker, NEW T \in SUBSET Worker
    PROVE  /\ Cardinality(S) \in Nat /\ Cardinality(T) \in Nat
           /\ S \subseteq T => Cardinality(S) <= Cardinality(T)
           /\ \A w \in Worker : S \subseteq T \cup {w} => Cardinality(S) <= Cardinality(T) + 1
           /\ \A w \in T : S \subseteq T \ {w} => Cardinality(S) + 1 <= Cardinality(T)
<1>1. IsFiniteSet(S) /\ IsFiniteSet(T)
  BY PipelineAssumption, FS_Subset
<1>2. Cardinality(S) \in Nat /\ Cardinality(T) \in Nat
  BY <1>1, FS_CardinalityType
<1>3. S \subseteq T => Cardinality(S) <= Cardinality(T)
  BY <1>1, FS_Subset
<1>4. ASSUME NEW w \in Worker, S \subseteq T \cup {w}
      PROVE  Cardinality(S) <= Cardinality(T) + 1
  <2>1. /\ IsFiniteSet(T \cup {w})
        /\ Cardinality(T \cup {w}) = IF w \in T THEN Cardinality(T) ELSE Cardinality(T) + 1
    BY <1>1, FS_AddElement
  <2>2. Cardinality(S) <= Cardinality(T \cup {w})
    BY <1>4, <2>1, FS_Subset
  <2> QED BY <1>2, <2>1, <2>2
<1>5. ASSUME NEW w \in T, S \subseteq T \ {w}
      PROVE  Cardinality(S) + 1 <= Cardinality(T)
  <2>1. /\ IsFiniteSet(T \ {w})
        /\ Cardinality(T \ {w}) = Cardinality(T) - 1
    BY <1>1, FS_RemoveElement
  <2>2. Cardinality(S) <= Cardinality(T \ {w})
    BY <1>5, <2>1, FS_Subset
  <2> QED BY <1>2, <2>1, <2>2
<1> QED BY <1>2, <1>3, <1>4, <1>5

\* A step that hands out no run, makes no call and leaves the queue alone keeps the count.
LEMMA QuietStep ==
    ASSUME TypeOK, SendsInv, UNCHANGED <<queueVars, sends>>,
           \A q \in Request : Unsent(q)' \subseteq Unsent(q)
    PROVE  SendsAreRuns'
<1> SUFFICES ASSUME NEW q \in Request
             PROVE (sends[q] + Cardinality(Unsent(q))
                     <= attemptsMade[q] + stalls[q] + (IF job[q] = "active" THEN 1 ELSE 0))'
  BY DEF SendsAreRuns
<1>1. Unsent(q) \in SUBSET Worker /\ Unsent(q)' \in SUBSET Worker
  BY DEF Unsent
<1>2. Unsent(q)' \subseteq Unsent(q)
  OBVIOUS
<1>3. /\ Cardinality(Unsent(q)') \in Nat /\ Cardinality(Unsent(q)) \in Nat
      /\ Cardinality(Unsent(q)') <= Cardinality(Unsent(q))
  BY <1>1, <1>2, WorkerSets
<1>4. /\ sends' = sends /\ attemptsMade' = attemptsMade /\ stalls' = stalls /\ job' = job
      /\ sends[q] \in Nat /\ attemptsMade[q] \in Nat /\ stalls[q] \in Nat
  BY DEF queueVars, TypeOK, QueueTypeOK, WorldTypeOK
<1>5. sends[q] + Cardinality(Unsent(q))
        <= attemptsMade[q] + stalls[q] + (IF job[q] = "active" THEN 1 ELSE 0)
  BY DEF SendsInv, SendsAreRuns
<1> QED BY <1>3, <1>4, <1>5

\* The actions of senders, and the clock, do not touch the runs.
LEMMA SenderKeepsRuns ==
    ASSUME UNCHANGED workerVars
    PROVE  \A q \in Request : Unsent(q)' = Unsent(q)
BY DEF workerVars, Unsent

-----------------------------------------------------------------------------
(* At most attempts + maxStalledCount provider calls for one job *)

LEMMA SendsInit == Init => SendsInv
<1> SUFFICES ASSUME Init PROVE SendsInv
  OBVIOUS
<1>1. NoJobYet /\ LocksAreHeld
  BY PipelineAssumption DEF Init, NoJobYet, LocksAreHeld
<1>2. CountersInRange
  BY PipelineAssumption DEF Init, CountersInRange
<1>3. ASSUME NEW r \in Request PROVE Cardinality(Unsent(r)) = 0
  <2>1. Unsent(r) = {}
    BY <1>3 DEF Init, Unsent
  <2> QED BY <2>1, FS_EmptySet
<1>4. SendsAreRuns
  BY <1>3 DEF Init, SendsAreRuns
<1> QED BY <1>1, <1>2, <1>4 DEF SendsInv

LEMMA SendsStep == TypeOK /\ SendsInv /\ [Next]_vars => SendsInv'
<1> SUFFICES ASSUME TypeOK, SendsInv, [Next]_vars PROVE SendsInv'
  OBVIOUS
<1> USE PipelineAssumption DEF senderVars, redisVars, queueVars, workerVars, worldVars
<1>0. /\ SenderTypeOK /\ RedisTypeOK /\ QueueTypeOK /\ WorkerTypeOK /\ WorldTypeOK
      /\ NoJobYet /\ LocksAreHeld /\ CountersInRange /\ SendsAreRuns
  BY DEF TypeOK, SendsInv
<1>1. CASE Tick
  <2>1. NoJobYet' /\ LocksAreHeld' /\ CountersInRange'
    BY <1>0, <1>1 DEF Tick, NoJobYet, LocksAreHeld, CountersInRange
  <2>2. SendsAreRuns'
    BY <1>1, SenderKeepsRuns, QuietStep DEF Tick
  <2> QED BY <2>1, <2>2 DEF SendsInv
<1>2. ASSUME NEW r \in Request,
             Call(r) \/ CheckPreference(r) \/ CheckRate(r) \/ AcquireIdempotency(r) \/ CreateLog(r)
             \/ Abort(r)
      PROVE  SendsInv'
  <2>1. UNCHANGED <<queueVars, workerVars, sends>>
    BY <1>2 DEF Call, CheckPreference, CheckRate, AcquireIdempotency, CreateLog, Abort
  <2>2. \E label \in SenderLabel :
            /\ pc' = [pc EXCEPT ![r] = label]
            /\ label \in {"idle", "prefs", "rate", "dedup", "enqueue", "skipped"} => job[r] = "none"
    BY <1>0, <1>2 DEF Call, CheckPreference, CheckRate, AcquireIdempotency, CreateLog, Abort,
           Skip, GoTo, NoJobYet, SenderLabel
  <2>3. NoJobYet'
    BY <1>0, <2>1, <2>2 DEF NoJobYet, SenderTypeOK
  <2>4. LocksAreHeld' /\ CountersInRange'
    BY <1>0, <2>1 DEF LocksAreHeld, CountersInRange
  <2>5. SendsAreRuns'
    BY <2>1, SenderKeepsRuns, QuietStep
  <2> QED BY <2>3, <2>4, <2>5 DEF SendsInv
<1>3. ASSUME NEW r \in Request, Enqueue(r) PROVE SendsInv'
  <2>1. job[r] = "none" /\ pc[r] = "enqueue"
    BY <1>0, <1>3 DEF Enqueue, NoJobYet
  <2>2. /\ job' = [job EXCEPT ![r] = "waiting"] /\ pc' = [pc EXCEPT ![r] = "log"]
        /\ UNCHANGED <<attemptsMade, stalls, lockedBy, workerVars, sends>>
    BY <1>3 DEF Enqueue, GoTo
  <2>3. NoJobYet'
    BY <1>0, <2>2 DEF NoJobYet, SenderTypeOK, QueueTypeOK
  <2>4. LocksAreHeld'
    BY <1>0, <2>1, <2>2 DEF LocksAreHeld, QueueTypeOK
  <2>5. CountersInRange'
    BY <1>0, <2>1, <2>2 DEF CountersInRange, QueueTypeOK
  <2>6. \A q \in Request : Unsent(q)' = Unsent(q) /\ (job'[q] = "active" <=> job[q] = "active")
    BY <1>0, <2>1, <2>2, SenderKeepsRuns DEF QueueTypeOK
  <2>7. SendsAreRuns'
    BY <1>0, <2>2, <2>6 DEF SendsAreRuns
  <2> QED BY <2>3, <2>4, <2>5, <2>7 DEF SendsInv
<1>4. ASSUME NEW r \in Request, MoveStalled(r) PROVE SendsInv'
  <2>1. /\ job[r] = "active" /\ lockedBy[r] = NoWorker
        /\ stalls' = [stalls EXCEPT ![r] = stalls[r] + 1]
        /\ job' = [job EXCEPT ![r] = IF stalls[r] + 1 > MaxStalled THEN "failed" ELSE "waiting"]
        /\ UNCHANGED <<pc, attemptsMade, lockedBy, workerVars, sends>>
    BY <1>4 DEF MoveStalled
  <2>2. NoJobYet'
    BY <1>0, <2>1 DEF NoJobYet, QueueTypeOK
  <2>3. LocksAreHeld'
    BY <1>0, <2>1 DEF LocksAreHeld, QueueTypeOK
  <2>4. CountersInRange'
    BY <1>0, <2>1 DEF CountersInRange, QueueTypeOK
  <2>5. SendsAreRuns'
    <3> SUFFICES ASSUME NEW q \in Request
                 PROVE (sends[q] + Cardinality(Unsent(q))
                     <= attemptsMade[q] + stalls[q] + (IF job[q] = "active" THEN 1 ELSE 0))'
      BY DEF SendsAreRuns
    <3>1. sends[q] + Cardinality(Unsent(q))
            <= attemptsMade[q] + stalls[q] + (IF job[q] = "active" THEN 1 ELSE 0)
      BY <1>0 DEF SendsAreRuns
    <3>2. Unsent(q)' = Unsent(q)
      BY <2>1, SenderKeepsRuns
    <3>3. sends[q] \in Nat /\ attemptsMade[q] \in Nat /\ stalls[q] \in Nat
      BY <1>0 DEF QueueTypeOK, WorldTypeOK
    <3>4. CASE q = r
      BY <1>0, <2>1, <3>1, <3>2, <3>3, <3>4 DEF QueueTypeOK
    <3>5. CASE q # r
      BY <1>0, <2>1, <3>1, <3>2, <3>5 DEF QueueTypeOK
    <3> QED BY <3>4, <3>5
  <2> QED BY <2>2, <2>3, <2>4, <2>5 DEF SendsInv
<1>5. ASSUME NEW w \in Worker, NEW r \in Request, Fetch(w, r) PROVE SendsInv'
  <2>1. /\ step[w] = "idle" /\ job[r] = "waiting"
        /\ job' = [job EXCEPT ![r] = "active"]
        /\ lockedBy' = [lockedBy EXCEPT ![r] = w]
        /\ holds' = [holds EXCEPT ![w] = r]
        /\ step' = [step EXCEPT ![w] = IF attemptsMade[r] > 0 THEN "mark" ELSE "begin"]
        /\ UNCHANGED <<pc, attemptsMade, stalls, sends>>
    BY <1>5 DEF Fetch
  <2>2. NoJobYet'
    BY <1>0, <2>1 DEF NoJobYet, QueueTypeOK
  <2>3. LocksAreHeld'
    BY <1>0, <2>1 DEF LocksAreHeld, QueueTypeOK, WorkerTypeOK
  <2>4. CountersInRange'
    BY <1>0, <2>1 DEF CountersInRange, QueueTypeOK
  <2>5. SendsAreRuns'
    <3> SUFFICES ASSUME NEW q \in Request
                 PROVE (sends[q] + Cardinality(Unsent(q))
                     <= attemptsMade[q] + stalls[q] + (IF job[q] = "active" THEN 1 ELSE 0))'
      BY DEF SendsAreRuns
    <3>1. sends[q] + Cardinality(Unsent(q))
            <= attemptsMade[q] + stalls[q] + (IF job[q] = "active" THEN 1 ELSE 0)
      BY <1>0 DEF SendsAreRuns
    <3>2. sends[q] \in Nat /\ attemptsMade[q] \in Nat /\ stalls[q] \in Nat
      BY <1>0 DEF QueueTypeOK, WorldTypeOK
    <3>3. Unsent(q) \in SUBSET Worker /\ Unsent(q)' \in SUBSET Worker
      BY DEF Unsent
    <3>4. CASE q = r
      <4>1. Unsent(q)' \subseteq Unsent(q) \cup {w}
        BY <1>0, <2>1 DEF Unsent, WorkerTypeOK
      <4>2. Cardinality(Unsent(q)') <= Cardinality(Unsent(q)) + 1
        BY <3>3, <4>1, WorkerSets
      <4>3. Cardinality(Unsent(q)') \in Nat /\ Cardinality(Unsent(q)) \in Nat
        BY <3>3, WorkerSets
      <4>4. job[q] # "active" /\ job'[q] = "active"
        BY <1>0, <2>1, <3>4 DEF QueueTypeOK
      <4> QED BY <2>1, <3>1, <3>2, <4>2, <4>3, <4>4
    <3>5. CASE q # r
      <4>1. Unsent(q)' \subseteq Unsent(q)
        BY <1>0, <2>1, <3>5 DEF Unsent, WorkerTypeOK
      <4>2. Cardinality(Unsent(q)') <= Cardinality(Unsent(q))
        BY <3>3, <4>1, WorkerSets
      <4>3. Cardinality(Unsent(q)') \in Nat /\ Cardinality(Unsent(q)) \in Nat
        BY <3>3, WorkerSets
      <4>4. job'[q] = job[q]
        BY <1>0, <2>1, <3>5 DEF QueueTypeOK
      <4> QED BY <2>1, <3>1, <3>2, <4>2, <4>3, <4>4
    <3> QED BY <3>4, <3>5
  <2> QED BY <2>2, <2>3, <2>4, <2>5 DEF SendsInv
<1>6. ASSUME NEW w \in Worker, MarkRetrying(w) \/ PreProcess(w) \/ LogSuccess(w) \/ LogFailure(w)
      PROVE  SendsInv'
  <2>1. UNCHANGED <<pc, queueVars, holds, sends>>
    BY <1>6 DEF MarkRetrying, PreProcess, LogSuccess, LogFailure, Proceed
  <2>2. /\ step[w] # "idle"
        /\ \E label \in RunLabel \ {"idle"} :
              /\ step' = [step EXCEPT ![w] = label]
              /\ label \in {"mark", "begin", "send"} => step[w] \in {"mark", "begin", "send"}
    BY <1>6 DEF MarkRetrying, PreProcess, LogSuccess, LogFailure, Proceed, RunLabel
  <2>3. NoJobYet' /\ LocksAreHeld' /\ CountersInRange'
    BY <1>0, <2>1, <2>2 DEF NoJobYet, LocksAreHeld, CountersInRange, WorkerTypeOK
  <2>4. \A q \in Request : Unsent(q)' \subseteq Unsent(q)
    BY <1>0, <2>1, <2>2 DEF Unsent, WorkerTypeOK
  <2>5. SendsAreRuns'
    BY <2>1, <2>4, QuietStep
  <2> QED BY <2>3, <2>5 DEF SendsInv
<1>7. ASSUME NEW w \in Worker, Send(w) PROVE SendsInv'
  <2> DEFINE r == holds[w]
  <2>1. /\ UNCHANGED <<pc, queueVars, holds>>
        /\ sends' = [sends EXCEPT ![r] = sends[r] + 1]
        /\ step[w] = "send"
        /\ \E label \in {"logSuccess", "logFailure"} : step' = [step EXCEPT ![w] = label]
    BY <1>7 DEF Send, Proceed
  <2>2. NoJobYet' /\ LocksAreHeld' /\ CountersInRange'
    BY <1>0, <2>1 DEF NoJobYet, LocksAreHeld, CountersInRange, WorkerTypeOK
  <2>3. r \in Request
    BY <1>0, <2>1 DEF WorkerTypeOK
  <2>4. SendsAreRuns'
    <3> SUFFICES ASSUME NEW q \in Request
                 PROVE (sends[q] + Cardinality(Unsent(q))
                     <= attemptsMade[q] + stalls[q] + (IF job[q] = "active" THEN 1 ELSE 0))'
      BY DEF SendsAreRuns
    <3>1. sends[q] + Cardinality(Unsent(q))
            <= attemptsMade[q] + stalls[q] + (IF job[q] = "active" THEN 1 ELSE 0)
      BY <1>0 DEF SendsAreRuns
    <3>2. sends[q] \in Nat /\ attemptsMade[q] \in Nat /\ stalls[q] \in Nat
      BY <1>0 DEF QueueTypeOK, WorldTypeOK
    <3>3. Unsent(q) \in SUBSET Worker /\ Unsent(q)' \in SUBSET Worker
      BY DEF Unsent
    <3>4. Cardinality(Unsent(q)') \in Nat /\ Cardinality(Unsent(q)) \in Nat
      BY <3>3, WorkerSets
    <3>5. CASE q = r
      <4>1. w \in Unsent(q) /\ Unsent(q)' \subseteq Unsent(q) \ {w}
        BY <1>0, <2>1, <3>5 DEF Unsent, WorkerTypeOK
      <4>2. Cardinality(Unsent(q)') + 1 <= Cardinality(Unsent(q))
        BY <3>3, <4>1, WorkerSets
      <4>3. sends'[q] = sends[q] + 1
        BY <1>0, <2>1, <3>5 DEF WorldTypeOK
      <4> QED BY <2>1, <3>1, <3>2, <3>4, <4>2, <4>3
    <3>6. CASE q # r
      <4>1. Unsent(q)' \subseteq Unsent(q)
        BY <1>0, <2>1, <3>6 DEF Unsent, WorkerTypeOK
      <4>2. Cardinality(Unsent(q)') <= Cardinality(Unsent(q))
        BY <3>3, <4>1, WorkerSets
      <4>3. sends'[q] = sends[q]
        BY <1>0, <2>1, <3>6 DEF WorldTypeOK
      <4> QED BY <2>1, <3>1, <3>2, <3>4, <4>2, <4>3
    <3> QED BY <3>5, <3>6
  <2> QED BY <2>2, <2>4 DEF SendsInv
<1>8. ASSUME NEW w \in Worker, Finish(w) PROVE SendsInv'
  <2> DEFINE r == holds[w]
  <2>1. /\ step[w] = "finish" /\ step' = [step EXCEPT ![w] = "idle"]
        /\ holds' = [holds EXCEPT ![w] = NoRequest]
        /\ UNCHANGED <<pc, stalls, sends>>
    BY <1>8 DEF Finish
  <2>2. r \in Request
    BY <1>0, <2>1 DEF WorkerTypeOK
  <2>3. \A q \in Request : Unsent(q)' \subseteq Unsent(q)
    BY <1>0, <2>1 DEF Unsent, WorkerTypeOK
  <2>4. CASE lockedBy[r] # w
    <3>1. UNCHANGED <<job, attemptsMade, lockedBy, jobId, lastId>>
      BY <1>8, <2>4 DEF Finish
    <3>2. NoJobYet' /\ LocksAreHeld' /\ CountersInRange'
      BY <1>0, <2>1, <2>4, <3>1 DEF NoJobYet, LocksAreHeld, CountersInRange, WorkerTypeOK
    <3>3. SendsAreRuns'
      BY <2>1, <2>3, <3>1, QuietStep
    <3> QED BY <3>2, <3>3 DEF SendsInv
  <2>5. CASE lockedBy[r] = w
    <3>1. /\ job' = [job EXCEPT ![r] = Outcome(r, err[w])]
          /\ attemptsMade' = [attemptsMade EXCEPT ![r] = attemptsMade[r] + 1]
          /\ lockedBy' = [lockedBy EXCEPT ![r] = NoWorker]
      BY <1>8, <2>5 DEF Finish
    <3>2. job[r] = "active"
      BY <1>0, <2>2, <2>5 DEF LocksAreHeld
    <3>3. /\ Outcome(r, err[w]) \in {"completed", "failed", "waiting"}
          /\ Outcome(r, err[w]) = "waiting" => ~(attemptsMade[r] + 1 >= Attempts)
      BY DEF Outcome
    <3>4. NoJobYet'
      BY <1>0, <2>1, <3>1, <3>2 DEF NoJobYet, QueueTypeOK
    <3>5. LocksAreHeld'
      BY <1>0, <2>1, <2>2, <3>1 DEF LocksAreHeld, QueueTypeOK, WorkerTypeOK
    <3>6. CountersInRange'
      <4> SUFFICES ASSUME NEW q \in Request
                   PROVE  /\ job'[q] \in {"none", "waiting", "active"}
                               => attemptsMade'[q] < Attempts /\ stalls'[q] <= MaxStalled
                          /\ attemptsMade'[q] + stalls'[q] <= Attempts + MaxStalled
        BY DEF CountersInRange
      <4>1. /\ attemptsMade[q] \in Nat /\ stalls[q] \in Nat
            /\ job[q] \in {"none", "waiting", "active"}
                 => attemptsMade[q] < Attempts /\ stalls[q] <= MaxStalled
            /\ attemptsMade[q] + stalls[q] <= Attempts + MaxStalled
        BY <1>0 DEF QueueTypeOK, CountersInRange
      <4>2. CASE q = r
        <5>1. job'[q] = Outcome(r, err[w]) /\ attemptsMade'[q] = attemptsMade[q] + 1
          BY <1>0, <3>1, <4>2 DEF QueueTypeOK
        <5> QED BY <2>1, <3>2, <3>3, <4>1, <4>2, <5>1
      <4>3. CASE q # r
        BY <1>0, <2>1, <3>1, <4>1, <4>3 DEF QueueTypeOK
      <4> QED BY <4>2, <4>3
    <3>7. SendsAreRuns'
      <4> SUFFICES ASSUME NEW q \in Request
                   PROVE (sends[q] + Cardinality(Unsent(q))
                       <= attemptsMade[q] + stalls[q] + (IF job[q] = "active" THEN 1 ELSE 0))'
        BY DEF SendsAreRuns
      <4>1. sends[q] + Cardinality(Unsent(q))
              <= attemptsMade[q] + stalls[q] + (IF job[q] = "active" THEN 1 ELSE 0)
        BY <1>0 DEF SendsAreRuns
      <4>2. sends[q] \in Nat /\ attemptsMade[q] \in Nat /\ stalls[q] \in Nat
        BY <1>0 DEF QueueTypeOK, WorldTypeOK
      <4>3. Unsent(q) \in SUBSET Worker /\ Unsent(q)' \in SUBSET Worker
        BY DEF Unsent
      <4>4. /\ Cardinality(Unsent(q)') \in Nat /\ Cardinality(Unsent(q)) \in Nat
            /\ Cardinality(Unsent(q)') <= Cardinality(Unsent(q))
        BY <2>3, <4>3, WorkerSets
      <4>5. CASE q = r
        <5>1. attemptsMade'[q] = attemptsMade[q] + 1 /\ job'[q] # "active"
          BY <1>0, <3>1, <3>3, <4>5 DEF QueueTypeOK
        <5> QED BY <2>1, <3>2, <4>1, <4>2, <4>4, <4>5, <5>1
      <4>6. CASE q # r
        <5>1. attemptsMade'[q] = attemptsMade[q] /\ job'[q] = job[q]
          BY <1>0, <3>1, <4>6 DEF QueueTypeOK
        <5> QED BY <2>1, <4>1, <4>2, <4>4, <5>1
      <4> QED BY <4>5, <4>6
    <3> QED BY <3>4, <3>5, <3>6, <3>7 DEF SendsInv
  <2> QED BY <2>4, <2>5
<1>9. ASSUME NEW w \in Worker, Crash(w) \/ LoseLock(w) PROVE SendsInv'
  <2>1. /\ UNCHANGED <<pc, job, jobId, attemptsMade, stalls, lastId, sends>>
        /\ lockedBy' = [q \in Request |-> IF lockedBy[q] = w THEN NoWorker ELSE lockedBy[q]]
    BY <1>9 DEF Crash, LoseLock, Unlock
  <2>2. \/ UNCHANGED <<step, holds>>
        \/ step' = [step EXCEPT ![w] = "idle"] /\ holds' = [holds EXCEPT ![w] = NoRequest]
    BY <1>9 DEF Crash, LoseLock
  <2>3. NoJobYet' /\ CountersInRange'
    BY <1>0, <2>1 DEF NoJobYet, CountersInRange
  <2>4. LocksAreHeld'
    BY <1>0, <2>1, <2>2 DEF LocksAreHeld, QueueTypeOK, WorkerTypeOK
  <2>5. SendsAreRuns'
    <3> SUFFICES ASSUME NEW q \in Request
                 PROVE (sends[q] + Cardinality(Unsent(q))
                     <= attemptsMade[q] + stalls[q] + (IF job[q] = "active" THEN 1 ELSE 0))'
      BY DEF SendsAreRuns
    <3>1. sends[q] + Cardinality(Unsent(q))
            <= attemptsMade[q] + stalls[q] + (IF job[q] = "active" THEN 1 ELSE 0)
      BY <1>0 DEF SendsAreRuns
    <3>2. Unsent(q) \in SUBSET Worker /\ Unsent(q)' \in SUBSET Worker
      BY DEF Unsent
    <3>3. Unsent(q)' \subseteq Unsent(q)
      BY <1>0, <2>2 DEF Unsent, WorkerTypeOK
    <3>4. /\ Cardinality(Unsent(q)') \in Nat /\ Cardinality(Unsent(q)) \in Nat
          /\ Cardinality(Unsent(q)') <= Cardinality(Unsent(q))
      BY <3>2, <3>3, WorkerSets
    <3>5. sends[q] \in Nat /\ attemptsMade[q] \in Nat /\ stalls[q] \in Nat
      BY <1>0 DEF QueueTypeOK, WorldTypeOK
    <3> QED BY <2>1, <3>1, <3>4, <3>5
  <2> QED BY <2>3, <2>4, <2>5 DEF SendsInv
<1>10. CASE UNCHANGED vars
  <2>1. NoJobYet' /\ LocksAreHeld' /\ CountersInRange'
    BY <1>0, <1>10 DEF vars, NoJobYet, LocksAreHeld, CountersInRange
  <2>2. SendsAreRuns'
    BY <1>10, SenderKeepsRuns, QuietStep DEF vars
  <2> QED BY <2>1, <2>2 DEF SendsInv
<1> QED BY <1>1, <1>2, <1>3, <1>4, <1>5, <1>6, <1>7, <1>8, <1>9, <1>10
        DEF Next, SenderStep, WorkerStep

\* A provider is called at most attempts + maxStalledCount times for one job.
THEOREM SendsAreBounded == Spec => []SendsBounded
<1>1. TypeOK /\ SendsInv => SendsBounded
  <2> SUFFICES ASSUME TypeOK, SendsInv, NEW r \in Request
               PROVE  sends[r] <= Attempts + MaxStalled
    BY DEF SendsBounded
  <2>1. Unsent(r) \in SUBSET Worker
    BY DEF Unsent
  <2>2. Cardinality(Unsent(r)) \in Nat
    BY <2>1, WorkerSets
  <2>3. sends[r] \in Nat /\ attemptsMade[r] \in Nat /\ stalls[r] \in Nat
    BY DEF TypeOK, QueueTypeOK, WorldTypeOK
  <2> QED BY <2>2, <2>3, PipelineAssumption DEF SendsInv, SendsAreRuns, CountersInRange
<1> QED BY <1>1, Typing, SendsInit, SendsStep, PTL DEF Spec
-----------------------------------------------------------------------------
(***************************************************************************)
(* How often a message can be delivered: once, and once more for every     *)
(* fault.  The proof keeps accounts: a delivery already made, a run that   *)
(* lost its lock but may still call the provider, and the delivery the     *)
(* queue may still make each cost one; one is free and each fault pays for *)
(* one more.                                                               *)
(***************************************************************************)

Settled(r) == job[r] \in {"completed", "failed"}

-----------------------------------------------------------------------------
(* The accounts *)

LEMMA PendingIsOne == \A q : Pending(q) \in {0, 1} /\ Pending(q)' \in {0, 1}
BY DEF Pending

\* The queue's delivery stays made when the step forgets no settled job and no success
\* of the run that holds the lock.
LEMMA PendingKept ==
    ASSUME NEW q \in Request,
           Settled(q) => Settled(q)',
           \A x \in Worker :
               lockedBy[q] = x /\ Succeeded(x) => Settled(q)' \/ (lockedBy[q] = x /\ Succeeded(x))'
    PROVE  Pending(q)' <= Pending(q)
<1>1. Pending(q) \in {0, 1} /\ Pending(q)' \in {0, 1}
  BY PendingIsOne
<1>2. Pending(q) = 0 => Pending(q)' = 0
  BY DEF Pending, Settled
<1> QED BY <1>1, <1>2

LEMMA ZombieSets ==
    ASSUME NEW q
    PROVE  /\ Zombies(q) \in SUBSET Worker /\ Zombies(q)' \in SUBSET Worker
           /\ Cardinality(Zombies(q)) \in Nat /\ Cardinality(Zombies(q)') \in Nat
<1>1. Zombies(q) \in SUBSET Worker /\ Zombies(q)' \in SUBSET Worker
  BY DEF Zombies, Unsent
<1> QED BY <1>1, WorkerSets

\* The accounts of q after a step that makes no zombie of q.
LEMMA PaidStep ==
    ASSUME TypeOK, TypeOK', DeliveriesArePaid, NEW q \in Request,
           Zombies(q)' \subseteq Zombies(q),
           delivered'[q] + Pending(q)' + faults <= delivered[q] + Pending(q) + faults'
    PROVE  Paid(q)'
<1>1. Cardinality(Zombies(q)') <= Cardinality(Zombies(q))
  BY ZombieSets, WorkerSets
<1>2. /\ Cardinality(Zombies(q)) \in Nat /\ Cardinality(Zombies(q)') \in Nat
      /\ Pending(q) \in {0, 1} /\ Pending(q)' \in {0, 1}
  BY ZombieSets, PendingIsOne
<1>3. delivered[q] \in Nat /\ delivered'[q] \in Nat /\ faults \in Nat /\ faults' \in Nat
  BY DEF TypeOK, WorldTypeOK
<1>4. delivered[q] + Cardinality(Zombies(q)) + Pending(q) <= 1 + faults
  BY DEF DeliveriesArePaid, Paid
<1> QED BY <1>1, <1>2, <1>3, <1>4 DEF Paid

\* The same after a step in which a zombie of q calls the provider.
LEMMA PaidByZombie ==
    ASSUME TypeOK, TypeOK', DeliveriesArePaid, NEW q \in Request,
           NEW w \in Zombies(q), Zombies(q)' \subseteq Zombies(q) \ {w},
           delivered'[q] + Pending(q)' + faults <= delivered[q] + Pending(q) + faults' + 1
    PROVE  Paid(q)'
<1>1. Cardinality(Zombies(q)') + 1 <= Cardinality(Zombies(q))
  BY ZombieSets, WorkerSets
<1>2. /\ Cardinality(Zombies(q)) \in Nat /\ Cardinality(Zombies(q)') \in Nat
      /\ Pending(q) \in {0, 1} /\ Pending(q)' \in {0, 1}
  BY ZombieSets, PendingIsOne
<1>3. delivered[q] \in Nat /\ delivered'[q] \in Nat /\ faults \in Nat /\ faults' \in Nat
  BY DEF TypeOK, WorldTypeOK
<1>4. delivered[q] + Cardinality(Zombies(q)) + Pending(q) <= 1 + faults
  BY DEF DeliveriesArePaid, Paid
<1> QED BY <1>1, <1>2, <1>3, <1>4 DEF Paid

\* The same after a step that makes a zombie of q.
LEMMA PaidForZombie ==
    ASSUME TypeOK, TypeOK', DeliveriesArePaid, NEW q \in Request,
           NEW w \in Worker, Zombies(q)' \subseteq Zombies(q) \cup {w},
           delivered'[q] + Pending(q)' + faults + 1 <= delivered[q] + Pending(q) + faults'
    PROVE  Paid(q)'
<1>1. Cardinality(Zombies(q)') <= Cardinality(Zombies(q)) + 1
  BY ZombieSets, WorkerSets
<1>2. /\ Cardinality(Zombies(q)) \in Nat /\ Cardinality(Zombies(q)') \in Nat
      /\ Pending(q) \in {0, 1} /\ Pending(q)' \in {0, 1}
  BY ZombieSets, PendingIsOne
<1>3. delivered[q] \in Nat /\ delivered'[q] \in Nat /\ faults \in Nat /\ faults' \in Nat
  BY DEF TypeOK, WorldTypeOK
<1>4. delivered[q] + Cardinality(Zombies(q)) + Pending(q) <= 1 + faults
  BY DEF DeliveriesArePaid, Paid
<1> QED BY <1>1, <1>2, <1>3, <1>4 DEF Paid

\* The same after a step that delivers nothing and forgets nothing.
LEMMA NothingSpent ==
    ASSUME TypeOK, TypeOK', DeliveriesArePaid, NEW q \in Request,
           Zombies(q)' \subseteq Zombies(q), Pending(q)' <= Pending(q),
           delivered'[q] = delivered[q], faults' = faults \/ faults' = faults + 1
    PROVE  Paid(q)'
<1>1. Pending(q) \in {0, 1} /\ Pending(q)' \in {0, 1}
  BY PendingIsOne
<1>2. delivered[q] \in Nat /\ faults \in Nat
  BY DEF TypeOK, WorldTypeOK
<1>3. delivered'[q] + Pending(q)' + faults <= delivered[q] + Pending(q) + faults'
  BY <1>1, <1>2
<1> QED BY <1>3, PaidStep

-----------------------------------------------------------------------------
(* Each step keeps the accounts *)

LEMMA PaidInit == Init => DeliveriesArePaid
<1> SUFFICES ASSUME Init, NEW q \in Request PROVE Paid(q)
  BY DEF DeliveriesArePaid
<1>1. Zombies(q) = {}
  BY DEF Init, Zombies, Unsent
<1>2. Cardinality(Zombies(q)) = 0
  BY <1>1, FS_EmptySet
<1>3. delivered[q] = 0 /\ faults = 0
  BY DEF Init
<1>4. Pending(q) \in {0, 1}
  BY PendingIsOne
<1> QED BY <1>2, <1>3, <1>4 DEF Paid

LEMMA PaidNext ==
    TypeOK /\ TypeOK' /\ SendsInv /\ DeliveriesArePaid /\ [Next]_vars => DeliveriesArePaid'
<1> SUFFICES ASSUME TypeOK, TypeOK', SendsInv, DeliveriesArePaid, [Next]_vars,
                    NEW q \in Request
             PROVE  Paid(q)'
  BY DEF DeliveriesArePaid
<1> USE PipelineAssumption DEF senderVars, redisVars, queueVars, workerVars, worldVars
<1>0. /\ QueueTypeOK /\ WorkerTypeOK /\ WorldTypeOK
      /\ Pending(q) \in {0, 1} /\ Pending(q)' \in {0, 1}
      /\ delivered[q] \in Nat /\ faults \in Nat /\ NoJobYet /\ LocksAreHeld
  BY PendingIsOne DEF TypeOK, WorldTypeOK, SendsInv
<1>1. ASSUME UNCHANGED <<lockedBy, job, workerVars, delivered>>,
             faults' = faults \/ faults' = faults + 1
      PROVE  Paid(q)'
  <2>1. Zombies(q)' = Zombies(q) /\ Pending(q)' = Pending(q)
    BY <1>1 DEF Zombies, Unsent, Pending, Succeeded
  <2> QED BY <1>0, <1>1, <2>1, NothingSpent
<1>2. CASE Tick \/ UNCHANGED vars
  BY <1>1, <1>2 DEF Tick, vars
<1>3. ASSUME NEW r \in Request,
             Call(r) \/ CheckPreference(r) \/ CheckRate(r) \/ AcquireIdempotency(r) \/ CreateLog(r)
             \/ Abort(r)
      PROVE  Paid(q)'
  <2>1. UNCHANGED <<lockedBy, job, workerVars, delivered>>
    BY <1>3 DEF Call, CheckPreference, CheckRate, AcquireIdempotency, CreateLog, Abort
  <2>2. faults' = faults \/ faults' = faults + 1
    BY <1>3 DEF Call, CheckPreference, CheckRate, AcquireIdempotency, CreateLog, Abort, Fault
  <2> QED BY <1>1, <2>1, <2>2
<1>4. ASSUME NEW r \in Request, Enqueue(r) \/ MoveStalled(r), job[r] \in {"none", "active"},
             lockedBy[r] = NoWorker
      PROVE  Paid(q)'
  <2>1. /\ UNCHANGED <<lockedBy, workerVars, delivered, faults>>
        /\ \A s \in Request : s # r => job'[s] = job[s]
    BY <1>0, <1>4 DEF Enqueue, MoveStalled, QueueTypeOK
  <2>2. Zombies(q)' = Zombies(q)
    BY <2>1 DEF Zombies, Unsent
  <2>3. CASE q = r
    <3>1. Pending(q) = 1
      BY <1>4, <2>3 DEF Pending
    <3> QED BY <1>0, <2>1, <2>2, <3>1, NothingSpent
  <2>4. CASE q # r
    <3>1. Pending(q)' = Pending(q)
      BY <2>1, <2>4 DEF Pending, Succeeded
    <3> QED BY <1>0, <2>1, <2>2, <3>1, NothingSpent
  <2> QED BY <2>3, <2>4
<1>5. ASSUME NEW r \in Request, Enqueue(r) PROVE Paid(q)'
  <2>1. job[r] = "none"
    BY <1>0, <1>5 DEF Enqueue, NoJobYet
  <2>2. lockedBy[r] = NoWorker
    BY <1>0, <2>1 DEF LocksAreHeld, QueueTypeOK
  <2> QED BY <1>4, <1>5, <2>1, <2>2
<1>6. ASSUME NEW r \in Request, MoveStalled(r) PROVE Paid(q)'
  BY <1>4, <1>6 DEF MoveStalled
<1>7. ASSUME NEW w \in Worker, NEW r \in Request, Fetch(w, r) PROVE Paid(q)'
  <2>1. /\ step[w] = "idle" /\ job[r] = "waiting"
        /\ job' = [job EXCEPT ![r] = "active"]
        /\ lockedBy' = [lockedBy EXCEPT ![r] = w]
        /\ holds' = [holds EXCEPT ![w] = r]
        /\ \A x \in Worker : x # w => step'[x] = step[x] /\ err'[x] = err[x]
        /\ delivered' = delivered /\ faults' = faults
    BY <1>0, <1>7 DEF Fetch, WorkerTypeOK
  <2>2. lockedBy[r] = NoWorker
    BY <1>0, <2>1 DEF LocksAreHeld, QueueTypeOK
  <2>3. CASE q = r
    <3>1. Pending(q) = 1
      BY <2>1, <2>2, <2>3 DEF Pending
    <3>2. Zombies(q)' \subseteq Zombies(q)
      BY <1>0, <2>1, <2>2, <2>3 DEF Zombies, Unsent, QueueTypeOK, WorkerTypeOK
    <3> QED BY <1>0, <2>1, <3>1, <3>2, NothingSpent
  <2>4. CASE q # r
    <3>1. job'[q] = job[q] /\ lockedBy'[q] = lockedBy[q]
      BY <1>0, <2>1, <2>4 DEF QueueTypeOK
    <3>2. Zombies(q)' \subseteq Zombies(q)
      BY <1>0, <2>1, <2>4, <3>1 DEF Zombies, Unsent, WorkerTypeOK
    <3>3. lockedBy[q] # w
      BY <1>0, <2>1 DEF LocksAreHeld
    <3>4. Pending(q)' <= Pending(q)
      BY <2>1, <3>1, <3>3, PendingKept DEF Settled, Succeeded
    <3> QED BY <2>1, <3>2, <3>4, NothingSpent
  <2> QED BY <2>3, <2>4
<1>8. ASSUME NEW w \in Worker, MarkRetrying(w) \/ PreProcess(w) \/ LogFailure(w)
      PROVE  Paid(q)'
  <2>1. /\ UNCHANGED <<job, lockedBy, holds, delivered>>
        /\ faults' = faults \/ faults' = faults + 1
    BY <1>8 DEF MarkRetrying, PreProcess, LogFailure, Proceed, Fault
  <2>2. /\ ~Succeeded(w)
        /\ \E label \in RunLabel :
              /\ step' = [step EXCEPT ![w] = label]
              /\ label \in {"mark", "begin", "send"} => step[w] \in {"mark", "begin", "send"}
        /\ \A x \in Worker : x # w => err'[x] = err[x]
    BY <1>0, <1>8 DEF MarkRetrying, PreProcess, LogFailure, Proceed, RunLabel, Succeeded,
           WorkerTypeOK
  <2>3. Zombies(q)' \subseteq Zombies(q)
    BY <1>0, <2>1, <2>2 DEF Zombies, Unsent, WorkerTypeOK
  <2>4. \A x \in Worker : Succeeded(x) => Succeeded(x)'
    BY <1>0, <2>2 DEF Succeeded, WorkerTypeOK
  <2>5. Pending(q)' <= Pending(q)
    BY <2>1, <2>4, PendingKept DEF Settled
  <2> QED BY <2>1, <2>3, <2>5, NothingSpent
<1>9. ASSUME NEW w \in Worker, LogSuccess(w) PROVE Paid(q)'
  <2>1. /\ UNCHANGED <<job, lockedBy, holds, delivered>>
        /\ step[w] = "logSuccess"
        /\ \E label \in {"finish", "logFailure"} : step' = [step EXCEPT ![w] = label]
    BY <1>9 DEF LogSuccess, Proceed
  <2>2. Zombies(q)' \subseteq Zombies(q)
    BY <1>0, <2>1 DEF Zombies, Unsent, WorkerTypeOK
  <2>3. CASE faults' = faults + 1
    <3>1. delivered'[q] + Pending(q)' + faults <= delivered[q] + Pending(q) + faults'
      BY <1>0, <2>1, <2>3
    <3> QED BY <2>2, <3>1, PaidStep
  <2>4. CASE faults' = faults /\ Proceed(w, "finish", "none")
    <3>1. \A x \in Worker : Succeeded(x) => Succeeded(x)'
      BY <1>0, <2>4 DEF Proceed, Succeeded, WorkerTypeOK
    <3>2. Pending(q)' <= Pending(q)
      BY <2>1, <3>1, PendingKept DEF Settled
    <3> QED BY <2>1, <2>2, <2>4, <3>2, NothingSpent
  <2> QED BY <1>9, <2>3, <2>4 DEF LogSuccess, Fault
<1>10. ASSUME NEW w \in Worker, Send(w) PROVE Paid(q)'
  <2>1. /\ UNCHANGED <<job, lockedBy, holds>>
        /\ step[w] = "send" /\ ~Succeeded(w)
        /\ \E label \in {"logSuccess", "logFailure"} : step' = [step EXCEPT ![w] = label]
        /\ \A x \in Worker : x # w => err'[x] = err[x]
    BY <1>0, <1>10 DEF Send, Proceed, Succeeded, WorkerTypeOK
  <2>2. Zombies(q)' \subseteq Zombies(q) \ {w}
    BY <1>0, <2>1 DEF Zombies, Unsent, WorkerTypeOK
  <2>3. \A x \in Worker : Succeeded(x) => Succeeded(x)'
    BY <1>0, <2>1 DEF Succeeded, WorkerTypeOK
  <2>4. Pending(q)' <= Pending(q)
    BY <2>1, <2>3, PendingKept DEF Settled
  <2>5. \/ delivered' = delivered /\ faults' = faults
        \/ /\ delivered' = [delivered EXCEPT ![holds[w]] = delivered[holds[w]] + 1]
           /\ \/ faults' = faults + 1
              \/ faults' = faults /\ Proceed(w, "logSuccess", "none")
    BY <1>10 DEF Send, Fault
  <2>6. CASE q # holds[w]
    <3>1. delivered'[q] = delivered[q]
      BY <1>0, <2>5, <2>6 DEF WorldTypeOK
    <3> QED BY <2>2, <2>4, <2>5, <3>1, NothingSpent
  <2>7. CASE delivered' = delivered /\ faults' = faults
    BY <2>2, <2>4, <2>7, NothingSpent
  <2>8. CASE /\ q = holds[w] /\ delivered'[q] = delivered[q] + 1
             /\ faults' = faults + 1
    <3>1. delivered'[q] + Pending(q)' + faults <= delivered[q] + Pending(q) + faults'
      BY <1>0, <2>4, <2>8
    <3> QED BY <2>2, <3>1, PaidStep
  <2>9. CASE /\ q = holds[w] /\ delivered'[q] = delivered[q] + 1
             /\ faults' = faults /\ Proceed(w, "logSuccess", "none")
    <3>1. CASE lockedBy[q] = w
      <4>1. Pending(q) = 1
        BY <1>0, <2>1, <3>1 DEF Pending, LocksAreHeld
      <4>2. Succeeded(w)' /\ lockedBy'[q] = w
        BY <1>0, <2>1, <2>9, <3>1 DEF Proceed, Succeeded, WorkerTypeOK
      <4>3. Pending(q)' = 0
        BY <4>2 DEF Pending
      <4>4. delivered'[q] + Pending(q)' + faults <= delivered[q] + Pending(q) + faults'
        BY <1>0, <2>9, <4>1, <4>3
      <4> QED BY <2>2, <4>4, PaidStep
    <3>2. CASE lockedBy[q] # w
      <4>1. w \in Zombies(q)
        BY <2>1, <2>9, <3>2 DEF Zombies, Unsent
      <4>2. delivered'[q] + Pending(q)' + faults <= delivered[q] + Pending(q) + faults' + 1
        BY <1>0, <2>4, <2>9
      <4> QED BY <2>2, <4>1, <4>2, PaidByZombie
    <3> QED BY <3>1, <3>2
  <2>10. ASSUME q = holds[w], delivered' = [delivered EXCEPT ![holds[w]] = delivered[holds[w]] + 1]
         PROVE  delivered'[q] = delivered[q] + 1
    BY <1>0, <2>10 DEF WorldTypeOK
  <2> QED BY <2>5, <2>6, <2>7, <2>8, <2>9, <2>10
<1>11. ASSUME NEW w \in Worker, Finish(w) PROVE Paid(q)'
  <2>1. /\ step[w] = "finish" /\ step' = [step EXCEPT ![w] = "idle"]
        /\ holds' = [holds EXCEPT ![w] = NoRequest]
        /\ \A x \in Worker : x # w => err'[x] = err[x]
        /\ delivered' = delivered /\ faults' = faults
    BY <1>0, <1>11 DEF Finish, WorkerTypeOK
  <2>2. CASE lockedBy[holds[w]] = w /\ q = holds[w]
    <3>1. /\ job'[q] = Outcome(q, err[w]) /\ lockedBy'[q] = NoWorker
          /\ job[q] = "active"
      BY <1>0, <1>11, <2>2 DEF Finish, LocksAreHeld, QueueTypeOK
    <3>2. Zombies(q)' \subseteq Zombies(q)
      BY <1>0, <2>1, <2>2, <3>1 DEF Zombies, Unsent, WorkerTypeOK
    <3>3. CASE Succeeded(w)
      <4>1. job'[q] = "completed"
        BY <2>1, <3>1, <3>3 DEF Outcome, Succeeded
      <4>2. Pending(q)' = 0
        BY <4>1 DEF Pending
      <4> QED BY <1>0, <2>1, <3>2, <4>2, NothingSpent
    <3>4. CASE ~Succeeded(w)
      <4>1. Pending(q) = 1
        BY <2>2, <3>1, <3>4 DEF Pending
      <4> QED BY <1>0, <2>1, <3>2, <4>1, NothingSpent
    <3> QED BY <3>3, <3>4
  <2>3. CASE ~(lockedBy[holds[w]] = w /\ q = holds[w])
    <3>1. job'[q] = job[q] /\ lockedBy'[q] = lockedBy[q]
      BY <1>0, <1>11, <2>3 DEF Finish, QueueTypeOK
    <3>2. Zombies(q)' \subseteq Zombies(q)
      BY <1>0, <2>1, <3>1 DEF Zombies, Unsent, WorkerTypeOK
    <3>3. lockedBy[q] # w
      BY <1>0, <2>3 DEF LocksAreHeld
    <3>4. \A x \in Worker : lockedBy[q] = x /\ Succeeded(x) => Succeeded(x)'
      BY <1>0, <2>1, <3>3 DEF Succeeded, WorkerTypeOK
    <3>5. Pending(q)' <= Pending(q)
      BY <3>1, <3>4, PendingKept DEF Settled
    <3> QED BY <2>1, <3>2, <3>5, NothingSpent
  <2> QED BY <2>2, <2>3
<1>12. ASSUME NEW w \in Worker, Crash(w) PROVE Paid(q)'
  <2>1. /\ step' = [step EXCEPT ![w] = "idle"]
        /\ holds' = [holds EXCEPT ![w] = NoRequest]
        /\ lockedBy' = [s \in Request |-> IF lockedBy[s] = w THEN NoWorker ELSE lockedBy[s]]
        /\ delivered' = delivered /\ faults' = faults + 1
    BY <1>12 DEF Crash, Fault, Unlock
  <2>2. Zombies(q)' \subseteq Zombies(q)
    BY <1>0, <2>1 DEF Zombies, Unsent, WorkerTypeOK
  <2>3. delivered'[q] + Pending(q)' + faults <= delivered[q] + Pending(q) + faults'
    BY <1>0, <2>1
  <2> QED BY <2>2, <2>3, PaidStep
<1>13. ASSUME NEW w \in Worker, LoseLock(w) PROVE Paid(q)'
  <2>1. /\ UNCHANGED <<job, workerVars, delivered>>
        /\ lockedBy[holds[w]] = w /\ faults' = faults + 1
        /\ lockedBy' = [s \in Request |-> IF lockedBy[s] = w THEN NoWorker ELSE lockedBy[s]]
    BY <1>13 DEF LoseLock, Fault, Unlock
  <2>2. Zombies(q)' \subseteq Zombies(q) \cup {w}
    BY <1>0, <2>1 DEF Zombies, Unsent
  <2>3. CASE w \in Unsent(q) /\ lockedBy[q] = w
    <3>1. Pending(q) = 1
      BY <1>0, <2>3 DEF Pending, Unsent, Succeeded, LocksAreHeld
    <3>2. delivered'[q] + Pending(q)' + faults + 1 <= delivered[q] + Pending(q) + faults'
      BY <1>0, <2>1, <3>1
    <3> QED BY <2>2, <3>2, PaidForZombie
  <2>4. CASE w \notin Unsent(q) \/ lockedBy[q] # w
    <3>1. Zombies(q)' \subseteq Zombies(q)
      BY <2>1, <2>4 DEF Zombies, Unsent
    <3>2. delivered'[q] + Pending(q)' + faults <= delivered[q] + Pending(q) + faults'
      BY <1>0, <2>1
    <3> QED BY <3>1, <3>2, PaidStep
  <2> QED BY <2>3, <2>4
<1> QED BY <1>2, <1>3, <1>5, <1>6, <1>7, <1>8, <1>9, <1>10, <1>11, <1>12, <1>13
        DEF Next, SenderStep, WorkerStep

\* Every delivery of a message but the first cost a fault: a failing store, a lost
\* reply, a crash or a lost lock.
THEOREM DuplicatesArePaid == Spec => []DuplicatesNeedFaults
<1>1. TypeOK /\ DeliveriesArePaid => DuplicatesNeedFaults
  <2> SUFFICES ASSUME TypeOK, DeliveriesArePaid, NEW r \in Request
               PROVE  delivered[r] <= 1 + faults
    BY DEF DuplicatesNeedFaults
  <2>1. Paid(r) /\ Pending(r) \in {0, 1} /\ Cardinality(Zombies(r)) \in Nat
    BY PendingIsOne, ZombieSets DEF DeliveriesArePaid
  <2>2. delivered[r] \in Nat /\ faults \in Nat
    BY DEF TypeOK, WorldTypeOK
  <2> QED BY <2>1, <2>2 DEF Paid
<1> QED BY <1>1, Typing, SendsInit, SendsStep, PaidInit, PaidNext, PTL DEF Spec
-----------------------------------------------------------------------------
(* One live job for each key *)

LEMMA DedupInit == Init => DedupInv
BY DEF Init, DedupInv, TtlCovers, KeyCovers, Admitted

\* Steps that leave the senders, the keys and the clock alone, and start no job.
LEMMA DedupQuiet ==
    ASSUME DedupInv, UNCHANGED <<now, pc, msg, ttl, keyHolder, keyUntil>>,
           \A r \in Request : job'[r] # "none" => job[r] # "none"
    PROVE  DedupInv'
<1>1. TtlCovers'
  BY DEF DedupInv, TtlCovers
<1>2. \A r \in Request : Admitted(r)' => Admitted(r)
  BY DEF Admitted
<1>3. KeyCovers'
  BY <1>2 DEF DedupInv, KeyCovers, Expired
<1> QED BY <1>1, <1>3 DEF DedupInv

LEMMA DedupStep == TypeOK /\ LocksAreHeld /\ DedupInv /\ [Next]_vars => DedupInv'
<1> SUFFICES ASSUME TypeOK, LocksAreHeld, DedupInv, [Next]_vars PROVE DedupInv'
  OBVIOUS
<1> USE PipelineAssumption DEF senderVars, redisVars, queueVars, workerVars, worldVars
<1>0. /\ SenderTypeOK /\ RedisTypeOK /\ QueueTypeOK /\ WorkerTypeOK /\ now \in Nat
      /\ TtlCovers /\ KeyCovers
      /\ \A r \in Request : msg[r] \in Message /\ msg[r].expiresAt \in Nat \cup {Never}
                            /\ msg[r].key \in Key \cup {NoKey}
  BY DEF TypeOK, SenderTypeOK, DedupInv, Message
<1>1. CASE Tick
  <2>1. now' = now + 1 /\ UNCHANGED <<pc, msg, ttl, keyHolder, keyUntil, job>>
    BY <1>1 DEF Tick
  <2>2. TtlCovers'
    BY <1>0, <2>1 DEF TtlCovers, SenderTypeOK
  <2>3. \A r \in Request : (Admitted(r)' => Admitted(r)) /\ (Expired(msg[r]) => Expired(msg[r])')
    BY <1>0, <2>1 DEF Admitted, Expired
  <2>4. KeyCovers'
    BY <1>0, <2>1, <2>3 DEF KeyCovers
  <2> QED BY <2>2, <2>4 DEF DedupInv
<1>2. ASSUME NEW r \in Request, Call(r) \/ CheckPreference(r) \/ CreateLog(r) \/ Abort(r)
      PROVE  DedupInv'
  <2>1. /\ UNCHANGED <<now, msg, ttl, keyHolder, keyUntil, job>>
        /\ \E label \in SenderLabel \ {"dedup"} :
              /\ pc' = [pc EXCEPT ![r] = label]
              /\ label \in {"enqueue", "log", "queued"} => pc[r] = "log"
    BY <1>2 DEF Call, CheckPreference, CreateLog, Abort, Skip, GoTo, SenderLabel
  <2>2. TtlCovers'
    BY <1>0, <2>1 DEF TtlCovers, SenderTypeOK
  <2>3. \A q \in Request : (Admitted(q)' => Admitted(q)) /\ (Expired(msg[q]) => Expired(msg[q])')
    BY <1>0, <2>1 DEF Admitted, Expired, SenderTypeOK
  <2>4. KeyCovers'
    BY <1>0, <2>1, <2>3 DEF KeyCovers
  <2> QED BY <2>2, <2>4 DEF DedupInv
<1>3. ASSUME NEW r \in Request, CheckRate(r) PROVE DedupInv'
  <2>1. /\ UNCHANGED <<now, msg, keyHolder, keyUntil, job>>
        /\ \/ pc' = [pc EXCEPT ![r] = "skipped"] /\ ttl' = ttl
           \/ /\ pc' = [pc EXCEPT ![r] = IF msg[r].key = NoKey THEN "enqueue" ELSE "dedup"]
              /\ ttl' = [ttl EXCEPT ![r] = TtlFor(msg[r])]
    BY <1>3 DEF CheckRate, Skip, GoTo
  <2>2. msg[r].expiresAt # Never => now + TtlFor(msg[r]) >= msg[r].expiresAt
    BY <1>0 DEF TtlFor
  <2>3. TtlCovers'
    BY <1>0, <2>1, <2>2 DEF TtlCovers, SenderTypeOK
  <2>4. \A q \in Request : /\ Admitted(q)' /\ msg[q].key # NoKey => Admitted(q)
                           /\ Expired(msg[q]) => Expired(msg[q])'
    BY <1>0, <2>1 DEF Admitted, Expired, SenderTypeOK
  <2>5. KeyCovers'
    BY <1>0, <2>1, <2>4 DEF KeyCovers
  <2> QED BY <2>3, <2>5 DEF DedupInv
<1>4. ASSUME NEW r \in Request, AcquireIdempotency(r) PROVE DedupInv'
  <2> DEFINE k == msg[r].key
             seconds == CeilToSeconds(ttl[r])
  <2>1. /\ UNCHANGED <<now, msg, job>> /\ pc[r] = "dedup"
        /\ ttl' = [ttl EXCEPT ![r] = 0]
        /\ \/ /\ \E label \in {"aborted", "skipped"} : pc' = [pc EXCEPT ![r] = label]
              /\ UNCHANGED <<keyHolder, keyUntil>>
           \/ /\ KeyIsFree(k)
              /\ pc' = [pc EXCEPT ![r] = "enqueue"]
              /\ keyHolder' = [keyHolder EXCEPT ![k] = r]
              /\ keyUntil' = [keyUntil EXCEPT ![k] = now + seconds]
    BY <1>4 DEF AcquireIdempotency, Skip, GoTo
  <2>2. TtlCovers'
    BY <1>0, <2>1 DEF TtlCovers, SenderTypeOK
  <2>3. KeyCovers'
    <3> SUFFICES ASSUME NEW q \in Request, Admitted(q)', msg[q].key # NoKey,
                        msg[q].expiresAt # Never, ~Expired(msg[q])
                 PROVE  keyHolder'[msg[q].key] = q /\ keyUntil'[msg[q].key] >= msg[q].expiresAt
      BY <2>1 DEF KeyCovers, Expired
    <3>1. msg[q].key \in Key /\ msg[q].expiresAt \in Nat /\ ~(msg[q].expiresAt <= now)
      BY <1>0 DEF Expired
    <3>2. CASE q = r
      <4>1. CASE pc' = [pc EXCEPT ![r] = "enqueue"]
        <5>1. seconds \in Nat /\ seconds >= ttl[r] /\ ttl[r] \in Nat
          BY <1>0, CeilIsEnough DEF SenderTypeOK
        <5>2. now + ttl[r] >= msg[r].expiresAt
          BY <1>0, <2>1, <3>2 DEF TtlCovers
        <5>3. keyHolder' = [keyHolder EXCEPT ![k] = r] /\ keyUntil' = [keyUntil EXCEPT ![k] = now + seconds]
          BY <1>0, <2>1, <4>1 DEF SenderTypeOK
        <5> HIDE DEF seconds
        <5>4. now + seconds >= msg[r].expiresAt
          BY <1>0, <3>1, <3>2, <5>1, <5>2
        <5> QED BY <1>0, <3>1, <3>2, <5>3, <5>4 DEF RedisTypeOK
      <4>2. CASE pc' # [pc EXCEPT ![r] = "enqueue"]
        <5>1. Admitted(q)
          BY <1>0, <2>1, <3>2, <4>2 DEF Admitted, SenderTypeOK
        <5>2. keyHolder[msg[q].key] = q /\ keyUntil[msg[q].key] >= msg[q].expiresAt
          BY <1>0, <5>1 DEF KeyCovers
        <5> QED BY <2>1, <4>2, <5>2
      <4> QED BY <4>1, <4>2
    <3>3. CASE q # r
      <4>1. Admitted(q)
        BY <1>0, <2>1, <3>3 DEF Admitted, SenderTypeOK
      <4>2. keyHolder[msg[q].key] = q /\ keyUntil[msg[q].key] >= msg[q].expiresAt
        BY <1>0, <4>1 DEF KeyCovers
      <4>3. ~KeyIsFree(msg[q].key)
        BY <1>0, <3>1, <4>2 DEF KeyIsFree, RedisTypeOK
      <4>4. k = msg[q].key => UNCHANGED <<keyHolder, keyUntil>>
        BY <2>1, <4>3
      <4> QED BY <1>0, <2>1, <4>2, <4>4 DEF RedisTypeOK
    <3> QED BY <3>2, <3>3
  <2> QED BY <2>2, <2>3 DEF DedupInv
<1>5. ASSUME NEW r \in Request, Enqueue(r) PROVE DedupInv'
  <2>1. /\ UNCHANGED <<now, msg, ttl, keyHolder, keyUntil>>
        /\ pc[r] = "enqueue" /\ pc' = [pc EXCEPT ![r] = "log"]
        /\ job' = [job EXCEPT ![r] = "waiting"]
    BY <1>5 DEF Enqueue, GoTo
  <2>2. TtlCovers'
    BY <1>0, <2>1 DEF TtlCovers, SenderTypeOK
  <2>3. \A q \in Request : (Admitted(q)' => Admitted(q)) /\ (Expired(msg[q]) => Expired(msg[q])')
    BY <1>0, <2>1 DEF Admitted, Expired, SenderTypeOK, QueueTypeOK
  <2>4. KeyCovers'
    BY <1>0, <2>1, <2>3 DEF KeyCovers
  <2> QED BY <2>2, <2>4 DEF DedupInv
<1>6. ASSUME NEW r \in Request, MoveStalled(r) PROVE DedupInv'
  BY <1>0, <1>6, DedupQuiet DEF MoveStalled, QueueTypeOK
<1>7. ASSUME NEW w \in Worker, NEW r \in Request, Fetch(w, r) PROVE DedupInv'
  BY <1>0, <1>7, DedupQuiet DEF Fetch, QueueTypeOK
<1>8. ASSUME NEW w \in Worker,
             MarkRetrying(w) \/ PreProcess(w) \/ Send(w) \/ LogSuccess(w) \/ LogFailure(w)
             \/ Crash(w) \/ LoseLock(w)
      PROVE  DedupInv'
  <2>1. UNCHANGED <<now, pc, msg, ttl, keyHolder, keyUntil, job>>
    BY <1>8 DEF MarkRetrying, PreProcess, Send, LogSuccess, LogFailure, Crash, LoseLock, Proceed
  <2> QED BY <2>1, DedupQuiet
<1>9. ASSUME NEW w \in Worker, Finish(w) PROVE DedupInv'
  <2>1. /\ UNCHANGED <<now, pc, msg, ttl, keyHolder, keyUntil>>
        /\ \/ job' = job
           \/ lockedBy[holds[w]] = w /\ job' = [job EXCEPT ![holds[w]] = Outcome(holds[w], err[w])]
    BY <1>9 DEF Finish
  <2>2. \A q \in Request : job'[q] # "none" => job[q] # "none"
    BY <1>0, <2>1 DEF LocksAreHeld, QueueTypeOK
  <2> QED BY <2>1, <2>2, DedupQuiet
<1>10. CASE UNCHANGED vars
  BY <1>10, DedupQuiet DEF vars
<1> QED BY <1>1, <1>2, <1>3, <1>4, <1>5, <1>6, <1>7, <1>8, <1>9, <1>10
        DEF Next, SenderStep, WorkerStep

\* However sends of one key interleave, no two of their jobs are alive at a time.
THEOREM OneLiveJobPerKey == Spec => []AtMostOneLiveJobPerKey
<1>1. TypeOK /\ DedupInv => AtMostOneLiveJobPerKey
  <2> SUFFICES ASSUME TypeOK, DedupInv, NEW r \in Request, NEW s \in Request,
                      r # s, msg[r].key = msg[s].key, msg[r].key # NoKey,
                      msg[r].expiresAt # Never, msg[s].expiresAt # Never,
                      job[r] # "none", job[s] # "none"
               PROVE  Expired(msg[r]) \/ Expired(msg[s])
    BY DEF AtMostOneLiveJobPerKey
  <2>1. Expired(msg[r]) \/ keyHolder[msg[r].key] = r
    BY DEF DedupInv, KeyCovers, Admitted
  <2>2. Expired(msg[s]) \/ keyHolder[msg[s].key] = s
    BY DEF DedupInv, KeyCovers, Admitted
  <2> QED BY <2>1, <2>2
<1>2. SendsInv => LocksAreHeld
  BY DEF SendsInv
<1> QED BY <1>1, <1>2, Typing, SendsInit, SendsStep, DedupInit, DedupStep, PTL DEF Spec

-----------------------------------------------------------------------------
(* Who keeps a key *)

\* Steps that leave the keys and the senders alone and end no job's existence.
LEMMA HolderQuiet ==
    ASSUME TypeOK, KeyHolderIsAccountable, UNCHANGED <<pc, msg, keyHolder>>,
           \A r \in Request : job[r] # "none" => job'[r] # "none",
           faults' = faults \/ faults' = faults + 1
    PROVE  KeyHolderIsAccountable'
<1>1. faults \in Nat /\ keyHolder \in [Key -> Request \cup {NoRequest}]
  BY DEF TypeOK, RedisTypeOK
<1> QED BY <1>1 DEF KeyHolderIsAccountable

\* A send that is not holding a key moves on, or one that is moves on towards its job.
LEMMA HolderMoves ==
    ASSUME TypeOK, KeyHolderIsAccountable, UNCHANGED <<msg, keyHolder, job>>,
           NEW r \in Request, NEW label, pc' = [pc EXCEPT ![r] = label],
           pc[r] \in {"idle", "prefs", "rate", "dedup"} \/ label \in {"log", "queued"}
               \/ (label = "aborted" /\ faults' > 0),
           faults' = faults \/ faults' = faults + 1
    PROVE  KeyHolderIsAccountable'
<1> SUFFICES ASSUME NEW k \in Key, keyHolder[k] # NoRequest
             PROVE  /\ msg[keyHolder[k]].key = k
                    /\ pc'[keyHolder[k]] \in {"enqueue", "log", "queued", "aborted"}
                    /\ pc'[keyHolder[k]] = "aborted" /\ job[keyHolder[k]] = "none" => faults' > 0
  BY DEF KeyHolderIsAccountable
<1> DEFINE h == keyHolder[k]
<1>1. /\ h \in Request /\ faults \in Nat /\ pc \in [Request -> SenderLabel]
      /\ msg[h].key = k /\ pc[h] \in {"enqueue", "log", "queued", "aborted"}
      /\ pc[h] = "aborted" /\ job[h] = "none" => faults > 0
  BY DEF TypeOK, SenderTypeOK, RedisTypeOK, KeyHolderIsAccountable
<1> HIDE DEF h
<1>2. CASE h = r
  BY <1>1, <1>2 DEF h
<1>3. CASE h # r
  BY <1>1, <1>3 DEF h
<1> QED BY <1>2, <1>3

LEMMA HolderStep == TypeOK /\ LocksAreHeld /\ KeyHolderIsAccountable /\ [Next]_vars
                        => KeyHolderIsAccountable'
<1> SUFFICES ASSUME TypeOK, LocksAreHeld, KeyHolderIsAccountable, [Next]_vars
             PROVE  KeyHolderIsAccountable'
  OBVIOUS
<1> USE PipelineAssumption DEF senderVars, redisVars, queueVars, workerVars, worldVars
<1>0. SenderTypeOK /\ RedisTypeOK /\ QueueTypeOK /\ faults \in Nat
  BY DEF TypeOK
<1>1. CASE Tick \/ UNCHANGED vars
  BY <1>1, HolderQuiet DEF Tick, vars
<1>2. ASSUME NEW r \in Request,
             Call(r) \/ CheckPreference(r) \/ CheckRate(r) \/ CreateLog(r) \/ Abort(r)
      PROVE  KeyHolderIsAccountable'
  <2>1. /\ UNCHANGED <<msg, keyHolder, job>>
        /\ faults' = faults \/ faults' = faults + 1
        /\ \E label \in SenderLabel :
              /\ pc' = [pc EXCEPT ![r] = label]
              /\ \/ pc[r] \in {"idle", "prefs", "rate", "dedup"}
                 \/ label \in {"log", "queued"}
                 \/ label = "aborted" /\ faults' = faults + 1
    BY <1>2 DEF Call, CheckPreference, CheckRate, CreateLog, Abort, Skip, GoTo, Fault, SenderLabel
  <2>2. PICK label \in SenderLabel :
              /\ pc' = [pc EXCEPT ![r] = label]
              /\ \/ pc[r] \in {"idle", "prefs", "rate", "dedup"}
                 \/ label \in {"log", "queued"}
                 \/ label = "aborted" /\ faults' = faults + 1
    BY <2>1
  <2>3. faults' = faults + 1 => faults' > 0
    BY <1>0
  <2>4. pc[r] \in {"idle", "prefs", "rate", "dedup"} \/ label \in {"log", "queued"}
          \/ (label = "aborted" /\ faults' > 0)
    BY <2>2, <2>3
  <2>5. pc' = [pc EXCEPT ![r] = label] /\ label \in SenderLabel
    BY <2>2
  <2> QED BY <2>1, <2>4, <2>5, HolderMoves
<1>3. ASSUME NEW r \in Request, AcquireIdempotency(r) PROVE KeyHolderIsAccountable'
  <2>1. /\ UNCHANGED <<msg, job, faults>> /\ pc[r] = "dedup"
        /\ \/ /\ \E label \in {"aborted", "skipped"} : pc' = [pc EXCEPT ![r] = label]
              /\ keyHolder' = keyHolder
           \/ /\ pc' = [pc EXCEPT ![r] = "enqueue"]
              /\ keyHolder' = [keyHolder EXCEPT ![msg[r].key] = r]
    BY <1>3 DEF AcquireIdempotency, Skip, GoTo
  <2>2. CASE keyHolder' = keyHolder
    BY <2>1, <2>2, HolderMoves
  <2>3. CASE /\ pc' = [pc EXCEPT ![r] = "enqueue"]
             /\ keyHolder' = [keyHolder EXCEPT ![msg[r].key] = r]
    BY <1>0, <2>1, <2>3 DEF KeyHolderIsAccountable, SenderTypeOK, RedisTypeOK
  <2> QED BY <2>1, <2>2, <2>3
<1>4. ASSUME NEW r \in Request, Enqueue(r) PROVE KeyHolderIsAccountable'
  <2>1. /\ UNCHANGED <<msg, keyHolder, faults>>
        /\ pc' = [pc EXCEPT ![r] = "log"] /\ job' = [job EXCEPT ![r] = "waiting"]
    BY <1>4 DEF Enqueue, GoTo
  <2> QED BY <1>0, <2>1 DEF KeyHolderIsAccountable, SenderTypeOK, RedisTypeOK, QueueTypeOK
<1>5. ASSUME NEW r \in Request, MoveStalled(r) PROVE KeyHolderIsAccountable'
  BY <1>0, <1>5, HolderQuiet DEF MoveStalled, QueueTypeOK
<1>6. ASSUME NEW w \in Worker, NEW r \in Request, Fetch(w, r) PROVE KeyHolderIsAccountable'
  BY <1>0, <1>6, HolderQuiet DEF Fetch, QueueTypeOK
<1>7. ASSUME NEW w \in Worker,
             MarkRetrying(w) \/ PreProcess(w) \/ Send(w) \/ LogSuccess(w) \/ LogFailure(w)
             \/ Crash(w) \/ LoseLock(w)
      PROVE  KeyHolderIsAccountable'
  <2>1. UNCHANGED <<pc, msg, keyHolder, job>>
    BY <1>7 DEF MarkRetrying, PreProcess, Send, LogSuccess, LogFailure, Crash, LoseLock, Proceed
  <2>2. faults' = faults \/ faults' = faults + 1
    BY <1>7 DEF MarkRetrying, PreProcess, Send, LogSuccess, LogFailure, Crash, LoseLock, Fault
  <2> QED BY <2>1, <2>2, HolderQuiet
<1>8. ASSUME NEW w \in Worker, Finish(w) PROVE KeyHolderIsAccountable'
  <2>1. /\ UNCHANGED <<pc, msg, keyHolder, faults>>
        /\ job' = job \/ job' = [job EXCEPT ![holds[w]] = Outcome(holds[w], err[w])]
    BY <1>8 DEF Finish
  <2>2. Outcome(holds[w], err[w]) # "none"
    BY DEF Outcome
  <2>3. \A q \in Request : job[q] # "none" => job'[q] # "none"
    BY <1>0, <2>1, <2>2 DEF QueueTypeOK
  <2> QED BY <2>1, <2>3, HolderQuiet
<1> QED BY <1>1, <1>2, <1>3, <1>4, <1>5, <1>6, <1>7, <1>8 DEF Next, SenderStep, WorkerStep

\* A skipped send never keeps a deduplication key: only one that has a job, is on its
\* way to one, or was cut off by a fault does.
THEOREM HoldersAreAccountable == Spec => []KeyHolderIsAccountable
<1>1. Init => KeyHolderIsAccountable
  BY DEF Init, KeyHolderIsAccountable
<1>2. SendsInv => LocksAreHeld
  BY DEF SendsInv
<1> QED BY <1>1, <1>2, Typing, SendsInit, SendsStep, HolderStep, PTL DEF Spec
==============================================================================
