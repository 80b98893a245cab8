---------------------- MODULE NotificationOutcomeProofs ----------------------
(***************************************************************************)
(* That the engine tells the truth about its jobs and keeps its contract:  *)
(* what is reported as delivered was delivered, no job ends in silence,    *)
(* and every step of the engine is a step of NotificationContract or is    *)
(* invisible there.                                                        *)
(***************************************************************************)
EXTENDS NotificationDeliveryProofs

-----------------------------------------------------------------------------
(* Every step of the engine is a step of the contract *)

\* A step that moves one request, and calls no provider, is a Become of the contract.
LEMMA OneMoves ==
    ASSUME NEW r \in Request, NEW from, NEW to,
           RequestStatus(r) = from, RequestStatus(r)' = to,
           \A q \in Request : q # r => RequestStatus(q)' = RequestStatus(q),
           UNCHANGED sends
    PROVE  Contract!Become(r, from, to)
BY DEF Contract!Become

\* A step that moves no request and calls no provider is invisible.
LEMMA NoneMoves ==
    ASSUME \A q \in Request : RequestStatus(q)' = RequestStatus(q), UNCHANGED sends
    PROVE  UNCHANGED Contract!contractVars
BY DEF Contract!contractVars

\* The status of a request is a function of where its send() and its job are.
LEMMA StatusKept ==
    ASSUME NEW q \in Request, pc'[q] = pc[q], job'[q] = job[q]
    PROVE  RequestStatus(q)' = RequestStatus(q)
BY DEF RequestStatus

\* A step of send() before queue.add leaves the request new or refuses it.
LEMMA SenderRefines ==
    ASSUME TypeOK, NEW r \in Request, NEW label \in SenderLabel,
           pc[r] \notin {"skipped", "aborted"}, pc' = [pc EXCEPT ![r] = label],
           UNCHANGED <<job, sends>>
    PROVE  [Contract!Next]_(Contract!contractVars)
<1>1. pc'[r] = label /\ \A q \in Request : q # r => pc'[q] = pc[q]
  BY DEF TypeOK, SenderTypeOK
<1>2. \A q \in Request : q # r => RequestStatus(q)' = RequestStatus(q)
  BY <1>1, StatusKept
<1>3. CASE job[r] # "none" \/ label \notin {"skipped", "aborted"}
  <2>1. RequestStatus(r)' = RequestStatus(r)
    BY <1>1, <1>3 DEF RequestStatus
  <2> QED BY <1>2, <2>1, NoneMoves
<1>4. CASE job[r] = "none" /\ label \in {"skipped", "aborted"}
  <2>1. RequestStatus(r) = "new" /\ RequestStatus(r)' = "refused"
    BY <1>1, <1>4 DEF RequestStatus
  <2>2. Contract!Refuse(r)
    BY <1>2, <2>1, OneMoves DEF Contract!Refuse
  <2> QED BY <2>2 DEF Contract!Next
<1> QED BY <1>3, <1>4

\* What the queue does to an active or waiting job leaves it accepted or settles it.
LEMMA QueueRefines ==
    ASSUME TypeOK, NEW r \in Request, NEW state \in JobState \ {"none"},
           job[r] \in {"waiting", "active"}, job' = [job EXCEPT ![r] = state],
           UNCHANGED <<pc, sends>>
    PROVE  [Contract!Next]_(Contract!contractVars)
<1>1. job'[r] = state /\ \A q \in Request : q # r => job'[q] = job[q]
  BY DEF TypeOK, QueueTypeOK
<1>2. \A q \in Request : q # r => RequestStatus(q)' = RequestStatus(q)
  BY <1>1, StatusKept
<1>3. RequestStatus(r) = "accepted"
  BY DEF RequestStatus
<1>4. CASE state \in {"waiting", "active"}
  <2>1. RequestStatus(r)' = RequestStatus(r)
    BY <1>1, <1>3, <1>4 DEF RequestStatus
  <2> QED BY <1>2, <2>1, NoneMoves
<1>5. CASE state \in {"completed", "failed"}
  <2>1. RequestStatus(r)' = "settled"
    BY <1>1, <1>5 DEF RequestStatus
  <2>2. Contract!Settle(r)
    BY <1>2, <1>3, <2>1, OneMoves DEF Contract!Settle
  <2> QED BY <2>2 DEF Contract!Next
<1> QED BY <1>4, <1>5 DEF JobState
-----------------------------------------------------------------------------
(* The rows of the log *)

\* A set of numbers that is not empty has a least one.
LEMMA LeastExists ==
    ASSUME NEW S \in SUBSET Nat, S # {}
    PROVE  \E x \in S : \A y \in S : x <= y
<1> DEFINE T == {0 .. x : x \in S}
<1>1. T \subseteq FiniteSubsetsOf(Nat) /\ T # {}
  <2>1. \A x \in S : 0 .. x \subseteq Nat /\ IsFiniteSet(0 .. x)
    BY FS_Interval
  <2> QED BY <2>1 DEF FiniteSubsetsOf
<1>2. PICK t \in T : \A u \in T : <<u, t>> \notin StrictSubsetOrdering(Nat)
  BY <1>1, FS_StrictSubsetOrderingWellFounded, WFMin
<1>3. PICK x \in S : t = 0 .. x
  OBVIOUS
<1>4. ASSUME NEW y \in S, y < x PROVE FALSE
  <2>1. 0 .. y \subseteq t /\ 0 .. y # t
    <3>1. x \in t /\ x \notin 0 .. y
      BY <1>3, <1>4
    <3> QED BY <1>3, <1>4, <3>1
  <2>2. <<0 .. y, t>> \in StrictSubsetOrdering(Nat)
    BY <1>3, <2>1 DEF StrictSubsetOrdering
  <2> QED BY <1>2, <2>2
<1> QED BY <1>4

\* updateByJobId changes at most the status of a row, and of a row with that jobId.
LEMMA UpdateChanges ==
    ASSUME log \in Seq(LogRow), NEW id, NEW status, UpdateByJobId(id, status)
    PROVE  /\ DOMAIN log' = DOMAIN log
           /\ \A i \in DOMAIN log :
                 /\ log'[i].jobId = log[i].jobId /\ log'[i].of = log[i].of
                 /\ \/ log'[i].status = log[i].status
                    \/ log[i].jobId = id /\ log'[i].status = status
<1>1. CASE ~ \E i \in DOMAIN log : log[i].jobId = id
  BY <1>1 DEF UpdateByJobId
<1>2. CASE \E i \in DOMAIN log : log[i].jobId = id
  <2> DEFINE Rows == {i \in DOMAIN log : log[i].jobId = id}
             f == FirstRow(id)
  <2>1. Rows \in SUBSET Nat /\ Rows # {}
    BY <1>2
  <2>2. \E i \in Rows : \A j \in Rows : i <= j
    BY <2>1, LeastExists
  <2>3. f \in DOMAIN log /\ log[f].jobId = id
    BY <2>2 DEF FirstRow
  <2>4. log' = [log EXCEPT ![f].status = status]
    BY <1>2 DEF UpdateByJobId
  <2>5. log[f] \in LogRow
    BY <2>3, ElementOfSeq
  <2> HIDE DEF f
  <2>6. DOMAIN log' = DOMAIN log /\ log'[f] = [log[f] EXCEPT !.status = status]
        /\ \A i \in DOMAIN log : i # f => log'[i] = log[i]
    BY <2>3, <2>4
  <2> QED BY <2>3, <2>5, <2>6 DEF LogRow
<1> QED BY <1>1, <1>2
-----------------------------------------------------------------------------
(* Jobs, their ids and their rows *)

\* A row is about a request.
LEMMA RowTyping ==
    ASSUME log \in Seq(LogRow), NEW i \in DOMAIN log
    PROVE  log[i] \in LogRow /\ log[i].of \in Request
<1>1. i \in 1 .. Len(log)
  OBVIOUS
<1>2. log[i] \in LogRow
  BY <1>1, ElementOfSeq
<1> QED BY <1>2 DEF LogRow

\* Steps that make no job and add no row keep jobs, ids and rows consistent.
LEMMA JobsKept ==
    ASSUME TypeOK, JobsInv, UNCHANGED <<msg, jobId, lastId>>,
           \A q \in Request : job'[q] = "none" <=> job[q] = "none",
           \A q \in Request : pc'[q] \in {"log", "queued"} => pc[q] \in {"log", "queued"},
           \A x \in Worker : step'[x] # "idle" => holds'[x] \in Request /\ job'[holds'[x]] # "none",
           DOMAIN log' = DOMAIN log,
           \A i \in DOMAIN log : log'[i].jobId = log[i].jobId /\ log'[i].of = log[i].of
    PROVE  JobsInv'
<1>1. JobsExist'
  BY DEF JobsInv, JobsExist
<1>2. IdsAreUnique'
  BY DEF JobsInv, IdsAreUnique
<1>3. \A i \in DOMAIN log : log[i].of \in Request
  BY RowTyping DEF TypeOK
<1>4. RowsAreOfJobs'
  BY <1>3 DEF JobsInv, RowsAreOfJobs
<1> QED BY <1>1, <1>2, <1>4 DEF JobsInv

LEMMA JobsInit == Init => JobsInv
BY DEF Init, JobsInv, JobsExist, IdsAreUnique, RowsAreOfJobs

LEMMA JobsStep == TypeOK /\ SendsInv /\ JobsInv /\ [Next]_vars => JobsInv'
<1> SUFFICES ASSUME TypeOK, SendsInv, JobsInv, [Next]_vars PROVE JobsInv'
  OBVIOUS
<1> USE PipelineAssumption DEF senderVars, redisVars, queueVars, workerVars, worldVars
<1>0. /\ SenderTypeOK /\ QueueTypeOK /\ WorkerTypeOK /\ log \in Seq(LogRow)
      /\ NoJobYet /\ LocksAreHeld /\ JobsExist /\ IdsAreUnique /\ RowsAreOfJobs
  BY DEF TypeOK, SendsInv, JobsInv
<1>a. \A x \in Worker : step[x] # "idle" => holds[x] \in Request /\ job[holds[x]] # "none"
  BY <1>0 DEF WorkerTypeOK, JobsExist
<1>1. CASE Tick \/ UNCHANGED vars
  <2>1. UNCHANGED <<msg, pc, queueVars, workerVars, log>>
    BY <1>1 DEF Tick, vars
  <2> QED BY <1>a, <2>1, JobsKept
<1>2. ASSUME NEW r \in Request,
             Call(r) \/ CheckPreference(r) \/ CheckRate(r) \/ AcquireIdempotency(r) \/ Abort(r)
      PROVE  JobsInv'
  <2>1. UNCHANGED <<msg, queueVars, workerVars, log>>
    BY <1>2 DEF Call, CheckPreference, CheckRate, AcquireIdempotency, Abort
  <2>2. \E label \in SenderLabel \ {"log", "queued"} : pc' = [pc EXCEPT ![r] = label]
    BY <1>2 DEF Call, CheckPreference, CheckRate, AcquireIdempotency, Abort, Skip, GoTo, SenderLabel
  <2>3. \A q \in Request : pc'[q] \in {"log", "queued"} => pc[q] \in {"log", "queued"}
    BY <1>0, <2>2 DEF SenderTypeOK
  <2> QED BY <1>a, <2>1, <2>3, JobsKept
<1>3. ASSUME NEW r \in Request, Enqueue(r) PROVE JobsInv'
  <2> DEFINE c == msg[r].channel
             id == lastId[c] + 1
  <2>1. /\ lastId' = [lastId EXCEPT ![c] = id]
        /\ jobId' = [jobId EXCEPT ![r] = id]
        /\ job' = [job EXCEPT ![r] = "waiting"]
        /\ pc' = [pc EXCEPT ![r] = "log"]
        /\ UNCHANGED <<msg, workerVars, log>>
        /\ pc[r] = "enqueue"
    BY <1>3 DEF Enqueue, GoTo
  <2>2. job[r] = "none"
    BY <1>0, <2>1 DEF NoJobYet
  <2>3. /\ c \in Channel /\ id \in Nat /\ lastId[c] \in Nat /\ lastId'[c] = id
        /\ \A d \in Channel : d # c => lastId'[d] = lastId[d]
        /\ jobId'[r] = id /\ job'[r] = "waiting"
        /\ \A q \in Request : q # r => jobId'[q] = jobId[q] /\ job'[q] = job[q]
        /\ \A q \in Request : jobId[q] \in Nat /\ msg[q].channel \in Channel
    BY <1>0, <2>1 DEF SenderTypeOK, QueueTypeOK, Message
  <2>4. JobsExist'
    <3>1. \A x \in Worker : step[x] # "idle" => holds[x] # r
      BY <1>a, <2>2
    <3> QED BY <1>0, <1>a, <2>1, <2>3, <3>1 DEF JobsExist, SenderTypeOK
  <2>5. IdsAreUnique'
    <3> SUFFICES ASSUME NEW q \in Request, job'[q] # "none"
                 PROVE  /\ jobId'[q] <= lastId'[msg[q].channel]
                        /\ \A s \in Request \ {q} :
                              job'[s] # "none" /\ msg[s].channel = msg[q].channel
                                  => jobId'[s] # jobId'[q]
      BY <2>1 DEF IdsAreUnique
    <3>1. \A s \in Request \ {r} :
              job[s] # "none" => jobId[s] <= lastId[msg[s].channel] /\ lastId[msg[s].channel] \in Nat
      BY <1>0, <2>3 DEF IdsAreUnique, QueueTypeOK
    <3> HIDE DEF id, c
    <3>2. CASE q = r
      BY <2>3, <3>1, <3>2 DEF id, c
    <3>3. CASE q # r
      <4>1. jobId[q] <= lastId[msg[q].channel] /\ jobId'[q] = jobId[q] /\ job[q] # "none"
        BY <2>3, <3>1, <3>3
      <4>2. jobId'[q] <= lastId'[msg[q].channel]
        BY <2>3, <3>1, <3>3, <4>1 DEF id
      <4>3. ASSUME NEW s \in Request \ {q}, job'[s] # "none", msg[s].channel = msg[q].channel
            PROVE  jobId'[s] # jobId'[q]
        <5>1. CASE s = r
          BY <2>3, <3>1, <3>3, <4>1, <4>3, <5>1 DEF id, c
        <5>2. CASE s # r
          BY <1>0, <2>3, <4>1, <4>3, <5>2 DEF IdsAreUnique
        <5> QED BY <5>1, <5>2
      <4> QED BY <4>2, <4>3
    <3> QED BY <3>2, <3>3
  <2>6. RowsAreOfJobs'
    <3>1. \A i \in DOMAIN log : log[i].of \in Request /\ log[i].of # r
      BY <1>0, <2>2, RowTyping DEF RowsAreOfJobs
    <3> QED BY <1>0, <2>1, <2>3, <3>1 DEF RowsAreOfJobs
  <2> QED BY <2>4, <2>5, <2>6 DEF JobsInv
<1>4. ASSUME NEW r \in Request, CreateLog(r) PROVE JobsInv'
  <2> DEFINE row == [jobId |-> jobId[r], of |-> r, status |-> "PENDING"]
  <2>1. /\ UNCHANGED <<msg, queueVars, workerVars>>
        /\ log' = Append(log, row)
        /\ pc' = [pc EXCEPT ![r] = "queued"] /\ pc[r] = "log"
    BY <1>4 DEF CreateLog, GoTo
  <2>2. job[r] # "none"
    BY <1>0, <2>1 DEF JobsExist
  <2>3. JobsExist' /\ IdsAreUnique'
    BY <1>0, <2>1, <2>2 DEF JobsExist, IdsAreUnique, SenderTypeOK
  <2>4. row \in LogRow
    BY <1>0 DEF QueueTypeOK, LogRow, Status
  <2>5. \A i \in DOMAIN log' : log'[i] = row \/ (i \in DOMAIN log /\ log'[i] = log[i])
    BY <1>0, <2>1, <2>4, AppendProperties, LenProperties
  <2>6. RowsAreOfJobs'
    BY <1>0, <2>1, <2>2, <2>5 DEF RowsAreOfJobs
  <2> QED BY <2>3, <2>6 DEF JobsInv
<1>5. ASSUME NEW r \in Request, MoveStalled(r) \/ \E w \in Worker : Fetch(w, r) PROVE JobsInv'
  <2>1. /\ UNCHANGED <<msg, pc, jobId, lastId, log>>
        /\ job[r] \in {"waiting", "active"}
        /\ \E state \in JobState \ {"none"} : job' = [job EXCEPT ![r] = state]
        /\ \/ UNCHANGED <<step, holds>>
           \/ \E w \in Worker, label \in RunLabel :
                 step' = [step EXCEPT ![w] = label] /\ holds' = [holds EXCEPT ![w] = r]
    BY <1>5 DEF MoveStalled, Fetch, JobState, RunLabel
  <2>2. \A q \in Request : job'[q] = "none" <=> job[q] = "none"
    BY <1>0, <2>1 DEF QueueTypeOK
  <2>3. \A x \in Worker : step'[x] # "idle" => holds'[x] \in Request /\ job'[holds'[x]] # "none"
    BY <1>0, <1>a, <2>1, <2>2 DEF WorkerTypeOK
  <2> QED BY <2>1, <2>2, <2>3, JobsKept
<1>6. ASSUME NEW w \in Worker,
             MarkRetrying(w) \/ PreProcess(w) \/ Send(w) \/ LogSuccess(w) \/ LogFailure(w)
      PROVE  JobsInv'
  <2>1. /\ UNCHANGED <<msg, pc, queueVars, holds>>
        /\ step[w] # "idle"
        /\ \E label \in RunLabel : step' = [step EXCEPT ![w] = label]
    BY <1>6 DEF MarkRetrying, PreProcess, Send, LogSuccess, LogFailure, Proceed, RunLabel
  <2>2. log' = log \/ \E id, status : UpdateByJobId(id, status)
    BY <1>6 DEF MarkRetrying, PreProcess, Send, LogSuccess, LogFailure
  <2>3. /\ DOMAIN log' = DOMAIN log
        /\ \A i \in DOMAIN log : log'[i].jobId = log[i].jobId /\ log'[i].of = log[i].of
    BY <1>0, <2>2, UpdateChanges
  <2>4. \A x \in Worker : step'[x] # "idle" => holds'[x] \in Request /\ job'[holds'[x]] # "none"
    BY <1>0, <1>a, <2>1 DEF WorkerTypeOK
  <2> QED BY <2>1, <2>3, <2>4, JobsKept
<1>7. ASSUME NEW w \in Worker, Finish(w) \/ Crash(w) \/ LoseLock(w) PROVE JobsInv'
  <2>1. /\ UNCHANGED <<msg, pc, jobId, lastId, log>>
        /\ \/ UNCHANGED <<step, holds>>
           \/ step' = [step EXCEPT ![w] = "idle"] /\ holds' = [holds EXCEPT ![w] = NoRequest]
        /\ job' = job \/ (step[w] # "idle" /\ job' = [job EXCEPT ![holds[w]] = Outcome(holds[w], err[w])])
    BY <1>7 DEF Finish, Crash, LoseLock
  <2>2. Outcome(holds[w], err[w]) # "none"
    BY DEF Outcome
  <2>3. \A q \in Request : job'[q] = "none" <=> job[q] = "none"
    BY <1>0, <1>a, <2>1, <2>2 DEF QueueTypeOK
  <2>4. \A x \in Worker : step'[x] # "idle" => holds'[x] \in Request /\ job'[holds'[x]] # "none"
    BY <1>0, <1>a, <2>1, <2>3 DEF WorkerTypeOK
  <2> QED BY <2>1, <2>3, <2>4, JobsKept
<1> QED BY <1>1, <1>2, <1>3, <1>4, <1>5, <1>6, <1>7 DEF Next, SenderStep, WorkerStep
-----------------------------------------------------------------------------
(* The contract *)

\* A run that is about to call the provider is one of those the bound counts.
LEMMA SendIsWithinBound ==
    ASSUME TypeOK, SendsInv, NEW w \in Worker, step[w] = "send"
    PROVE  sends[holds[w]] < Attempts + MaxStalled
<1> DEFINE r == holds[w]
<1>1. r \in Request
  BY DEF TypeOK, WorkerTypeOK
<1>2. {} \in SUBSET Worker /\ Unsent(r) \in SUBSET Worker /\ w \in Unsent(r)
  BY DEF Unsent
<1>3. Cardinality(Unsent(r)) \in Nat /\ Cardinality({}) + 1 <= Cardinality(Unsent(r))
  BY <1>2, WorkerSets
<1>4. sends[r] \in Nat /\ attemptsMade[r] \in Nat /\ stalls[r] \in Nat
  BY <1>1 DEF TypeOK, QueueTypeOK, WorldTypeOK
<1>5. sends[r] + 1 <= attemptsMade[r] + stalls[r] + (IF job[r] = "active" THEN 1 ELSE 0)
  BY <1>1, <1>3, <1>4, FS_EmptySet DEF SendsInv, SendsAreRuns
<1>6. /\ attemptsMade[r] + stalls[r] <= Attempts + MaxStalled
      /\ job[r] = "active" => attemptsMade[r] < Attempts /\ stalls[r] <= MaxStalled
  BY <1>1 DEF SendsInv, CountersInRange
<1> QED BY <1>4, <1>5, <1>6, PipelineAssumption

LEMMA ContractStep ==
    TypeOK /\ SendsInv /\ JobsInv /\ [Next]_vars => [Contract!Next]_(Contract!contractVars)
<1> SUFFICES ASSUME TypeOK, SendsInv, JobsInv, [Next]_vars
             PROVE  [Contract!Next]_(Contract!contractVars)
  OBVIOUS
<1> USE PipelineAssumption DEF senderVars, redisVars, queueVars, workerVars, worldVars
<1>0. /\ SenderTypeOK /\ QueueTypeOK /\ WorkerTypeOK /\ WorldTypeOK
      /\ NoJobYet /\ LocksAreHeld /\ JobsExist
  BY DEF TypeOK, SendsInv, JobsInv
<1>1. ASSUME UNCHANGED <<pc, job, sends>> PROVE [Contract!Next]_(Contract!contractVars)
  BY <1>1, StatusKept, NoneMoves
<1>2. CASE Tick \/ UNCHANGED vars
  BY <1>1, <1>2 DEF Tick, vars
<1>3. ASSUME NEW r \in Request,
             Call(r) \/ CheckPreference(r) \/ CheckRate(r) \/ AcquireIdempotency(r) \/ CreateLog(r)
             \/ Abort(r)
      PROVE  [Contract!Next]_(Contract!contractVars)
  <2>1. UNCHANGED <<job, sends>> /\ pc[r] \notin {"skipped", "aborted"}
    BY <1>3 DEF Call, CheckPreference, CheckRate, AcquireIdempotency, CreateLog, Abort
  <2>2. \E label \in SenderLabel : pc' = [pc EXCEPT ![r] = label]
    BY <1>3 DEF Call, CheckPreference, CheckRate, AcquireIdempotency, CreateLog, Abort, Skip,
           GoTo, SenderLabel
  <2> QED BY <2>1, <2>2, SenderRefines
<1>4. ASSUME NEW r \in Request, Enqueue(r) PROVE [Contract!Next]_(Contract!contractVars)
  <2>1. /\ pc[r] = "enqueue" /\ pc' = [pc EXCEPT ![r] = "log"]
        /\ job' = [job EXCEPT ![r] = "waiting"]
        /\ UNCHANGED sends
    BY <1>4 DEF Enqueue, GoTo
  <2>2. job[r] = "none"
    BY <1>0, <2>1 DEF NoJobYet
  <2>3. RequestStatus(r) = "new" /\ RequestStatus(r)' = "accepted"
    BY <1>0, <2>1, <2>2 DEF RequestStatus, QueueTypeOK
  <2>4. \A q \in Request : q # r => RequestStatus(q)' = RequestStatus(q)
    BY <1>0, <2>1, StatusKept DEF SenderTypeOK, QueueTypeOK
  <2>5. Contract!Accept(r)
    BY <2>1, <2>3, <2>4, OneMoves DEF Contract!Accept
  <2> QED BY <2>5 DEF Contract!Next
<1>5. ASSUME NEW r \in Request, MoveStalled(r) \/ \E w \in Worker : Fetch(w, r)
      PROVE  [Contract!Next]_(Contract!contractVars)
  <2>1. /\ UNCHANGED <<pc, sends>>
        /\ job[r] \in {"waiting", "active"}
        /\ \E state \in JobState \ {"none"} : job' = [job EXCEPT ![r] = state]
    BY <1>5 DEF MoveStalled, Fetch, JobState
  <2> QED BY <2>1, QueueRefines
<1>6. ASSUME NEW w \in Worker,
             MarkRetrying(w) \/ PreProcess(w) \/ LogSuccess(w) \/ LogFailure(w)
             \/ Crash(w) \/ LoseLock(w)
      PROVE  [Contract!Next]_(Contract!contractVars)
  BY <1>1, <1>6 DEF MarkRetrying, PreProcess, LogSuccess, LogFailure, Proceed, Crash, LoseLock
<1>7. ASSUME NEW w \in Worker, Send(w) PROVE [Contract!Next]_(Contract!contractVars)
  <2> DEFINE r == holds[w]
  <2>1. /\ step[w] = "send" /\ sends' = [sends EXCEPT ![r] = sends[r] + 1]
        /\ UNCHANGED <<pc, job>>
    BY <1>7 DEF Send, Proceed
  <2>2. r \in Request /\ job[r] # "none"
    BY <1>0, <2>1 DEF WorkerTypeOK, JobsExist
  <2>3. RequestStatus(r) \in {"accepted", "settled"}
    BY <2>2 DEF RequestStatus
  <2>4. \A q \in Request : RequestStatus(q)' = RequestStatus(q)
    BY <2>1, StatusKept
  <2>5. sends[r] < Attempts + MaxStalled
    BY <2>1, SendIsWithinBound
  <2>6. Contract!Dispatch(r)
    BY <2>1, <2>2, <2>3, <2>4, <2>5 DEF Contract!Dispatch
  <2> QED BY <2>2, <2>6 DEF Contract!Next
<1>8. ASSUME NEW w \in Worker, Finish(w) PROVE [Contract!Next]_(Contract!contractVars)
  <2> DEFINE r == holds[w]
  <2>1. r \in Request /\ UNCHANGED <<pc, sends>>
    BY <1>0, <1>8 DEF Finish, WorkerTypeOK
  <2>2. CASE lockedBy[r] # w
    BY <1>1, <1>8, <2>1, <2>2 DEF Finish
  <2>3. CASE lockedBy[r] = w
    <3>1. job' = [job EXCEPT ![r] = Outcome(r, err[w])]
      BY <1>8, <2>3 DEF Finish
    <3>2. job[r] = "active"
      BY <1>0, <2>1, <2>3 DEF LocksAreHeld
    <3>3. Outcome(r, err[w]) \in JobState \ {"none"}
      BY DEF Outcome, JobState
    <3> QED BY <2>1, <3>1, <3>2, <3>3, QueueRefines
  <2> QED BY <2>2, <2>3
<1> QED BY <1>2, <1>3, <1>4, <1>5, <1>6, <1>7, <1>8 DEF Next, SenderStep, WorkerStep

\* The engine implements its contract: a refused request never reaches a provider, an
\* accepted one is never forgotten, and it is settled once (the safety half of
\* KeepsContract).
THEOREM EngineKeepsContract == Spec => Contract!Spec
<1>1. Init => Contract!Init
  BY DEF Init, Contract!Init, RequestStatus
<1> QED BY <1>1, Typing, SendsInit, SendsStep, JobsInit, JobsStep, ContractStep, PTL
        DEF Spec, Contract!Spec
-----------------------------------------------------------------------------
(* What is reported *)

LEMMA OutcomeInit == Init => OutcomeInv
BY DEF Init, OutcomeInv, OrphansAreFaults, RunsAreTruthful, SuccessIsReal, SettledIsAnnounced

\* Steps that end no run, close no job and mark no row SENT falsify no report.
LEMMA OutcomeKept ==
    ASSUME TypeOK, OutcomeInv, UNCHANGED <<workerVars, delivered>>, faults' \in {faults, faults + 1},
           \A q \in Request :
               /\ events[q] \subseteq events'[q]
               /\ "delivered" \in events'[q] => "delivered" \in events[q]
               /\ job'[q] \in {job[q], "waiting"}
               /\ lockedBy'[q] = lockedBy[q],
           \A i \in DOMAIN log' : log'[i].status = "SENT" => i \in DOMAIN log /\ log'[i] = log[i]
    PROVE  OutcomeInv'
<1> USE DEF workerVars
<1>1. faults \in Nat /\ WorkerTypeOK
  BY DEF TypeOK
<1>2. OrphansAreFaults'
  BY <1>1 DEF OutcomeInv, OrphansAreFaults
<1>3. RunsAreTruthful'
  BY <1>1 DEF OutcomeInv, RunsAreTruthful, WorkerTypeOK
<1>4. SuccessIsReal'
  BY DEF OutcomeInv, SuccessIsReal
<1>5. SettledIsAnnounced'
  BY <1>1 DEF OutcomeInv, SettledIsAnnounced
<1> QED BY <1>2, <1>3, <1>4, <1>5 DEF OutcomeInv

\* A callback adds its event, for its request.
LEMMA NotifyAdds ==
    ASSUME WorldTypeOK, NEW r \in Request, NEW event, Notify(r, event)
    PROVE  /\ events'[r] = events[r] \cup {event}
           /\ \A q \in Request : q # r => events'[q] = events[q]
BY DEF WorldTypeOK, Notify

\* With one channel, the rows that carry a job's id are its own.
LEMMA RowsAreOwn ==
    ASSUME TypeOK, JobsInv, Cardinality(Channel) = 1, NEW r \in Request, job[r] # "none",
           NEW i \in DOMAIN log, log[i].jobId = jobId[r]
    PROVE  log[i].of = r
<1>1. \E c : Channel = {c}
  BY FS_Singleton, PipelineAssumption
<1>2. log[i].of \in Request
  BY RowTyping DEF TypeOK
<1>3. msg[log[i].of].channel = msg[r].channel
  BY <1>1, <1>2 DEF TypeOK, SenderTypeOK, Message
<1> QED BY <1>2, <1>3 DEF JobsInv, IdsAreUnique, RowsAreOfJobs

LEMMA OutcomeStep == TypeOK /\ SendsInv /\ JobsInv /\ OutcomeInv /\ [Next]_vars => OutcomeInv'
<1> SUFFICES ASSUME TypeOK, SendsInv, JobsInv, OutcomeInv, [Next]_vars PROVE OutcomeInv'
  OBVIOUS
<1> USE PipelineAssumption DEF senderVars, redisVars, queueVars, workerVars, worldVars
<1>0. /\ QueueTypeOK /\ WorkerTypeOK /\ WorldTypeOK /\ log \in Seq(LogRow) /\ faults \in Nat
      /\ LocksAreHeld /\ JobsExist
      /\ OrphansAreFaults /\ RunsAreTruthful /\ SuccessIsReal /\ SettledIsAnnounced
  BY DEF TypeOK, SendsInv, JobsInv, OutcomeInv
<1>1. CASE Tick \/ UNCHANGED vars
  <2>1. UNCHANGED <<job, lockedBy, log, workerVars, delivered, events, faults>>
    BY <1>1 DEF Tick, vars
  <2> QED BY <2>1, OutcomeKept
<1>2. ASSUME NEW r \in Request,
             Call(r) \/ CheckPreference(r) \/ CheckRate(r) \/ AcquireIdempotency(r) \/ Abort(r)
             \/ Enqueue(r) \/ CreateLog(r)
      PROVE  OutcomeInv'
  <2>1. UNCHANGED <<lockedBy, workerVars, delivered>> /\ faults' \in {faults, faults + 1}
    BY <1>2 DEF Call, CheckPreference, CheckRate, AcquireIdempotency, Abort, Enqueue, CreateLog, Fault
  <2>2. job' = job \/ job' = [job EXCEPT ![r] = "waiting"]
    BY <1>2 DEF Call, CheckPreference, CheckRate, AcquireIdempotency, Abort, Enqueue, CreateLog
  <2>3. events' = events \/ \E e \in {"queued"} \cup SkipReason : Notify(r, e)
    BY <1>2 DEF Call, CheckPreference, CheckRate, AcquireIdempotency, Abort, Enqueue, CreateLog, Skip,
           SkipReason
  <2>4. log' = log \/ log' = Append(log, [jobId |-> jobId[r], of |-> r, status |-> "PENDING"])
    BY <1>2 DEF Call, CheckPreference, CheckRate, AcquireIdempotency, Abort, Enqueue, CreateLog
  <2>5. \A q \in Request : job'[q] \in {job[q], "waiting"}
    BY <1>0, <2>2 DEF QueueTypeOK
  <2>6. \A q \in Request : /\ events[q] \subseteq events'[q]
                           /\ "delivered" \in events'[q] => "delivered" \in events[q]
    BY <1>0, <2>3, NotifyAdds DEF SkipReason
  <2>7. \A i \in DOMAIN log' : log'[i].status = "SENT" => i \in DOMAIN log /\ log'[i] = log[i]
    <3>1. [jobId |-> jobId[r], of |-> r, status |-> "PENDING"] \in LogRow
      BY <1>0 DEF QueueTypeOK, LogRow, Status
    <3> QED BY <1>0, <2>4, <3>1, AppendProperties, LenProperties
  <2> QED BY <2>1, <2>5, <2>6, <2>7, OutcomeKept
<1>3. ASSUME NEW r \in Request, MoveStalled(r) PROVE OutcomeInv'
  <2>1. /\ UNCHANGED <<lockedBy, log, workerVars, delivered, events, faults>>
        /\ \E state \in {"failed", "waiting"} : job' = [job EXCEPT ![r] = state]
        /\ job[r] = "active" /\ lockedBy[r] = NoWorker
    BY <1>3 DEF MoveStalled
  <2>2. faults > 0
    BY <1>0, <2>1 DEF OrphansAreFaults
  <2>3. OrphansAreFaults' /\ RunsAreTruthful' /\ SuccessIsReal'
    BY <1>0, <2>1 DEF OrphansAreFaults, RunsAreTruthful, SuccessIsReal, QueueTypeOK
  <2>4. SettledIsAnnounced'
    BY <1>0, <2>1, <2>2 DEF SettledIsAnnounced, QueueTypeOK
  <2> QED BY <2>3, <2>4 DEF OutcomeInv
<1>4. ASSUME NEW w \in Worker, NEW r \in Request, Fetch(w, r) PROVE OutcomeInv'
  <2>1. /\ UNCHANGED <<log, delivered, events, faults>>
        /\ job' = [job EXCEPT ![r] = "active"]
        /\ lockedBy' = [lockedBy EXCEPT ![r] = w]
        /\ holds' = [holds EXCEPT ![w] = r]
        /\ err' = [err EXCEPT ![w] = "none"]
        /\ \E label \in {"mark", "begin"} : step' = [step EXCEPT ![w] = label]
    BY <1>4 DEF Fetch
  <2>2. OrphansAreFaults'
    BY <1>0, <2>1 DEF OrphansAreFaults, QueueTypeOK
  <2>3. RunsAreTruthful'
    BY <1>0, <2>1 DEF RunsAreTruthful, WorkerTypeOK
  <2>4. SuccessIsReal' /\ SettledIsAnnounced'
    BY <1>0, <2>1 DEF SuccessIsReal, SettledIsAnnounced, QueueTypeOK
  <2> QED BY <2>2, <2>3, <2>4 DEF OutcomeInv
<1>5. ASSUME NEW w \in Worker, MarkRetrying(w) \/ PreProcess(w) \/ LogFailure(w) PROVE OutcomeInv'
  <2> DEFINE r == holds[w]
  <2>1. UNCHANGED <<queueVars, holds, delivered>> /\ step[w] \in {"mark", "begin", "logFailure"}
    BY <1>5 DEF MarkRetrying, PreProcess, LogFailure, Proceed
  <2>2. r \in Request
    BY <1>0, <2>1 DEF WorkerTypeOK
  <2>3. faults' \in {faults, faults + 1}
    BY <1>5 DEF MarkRetrying, PreProcess, LogFailure, Fault
  <2>4. events' = events \/ Notify(r, "failed")
    BY <1>5 DEF MarkRetrying, PreProcess, LogFailure
  <2>5. \A q \in Request : /\ events[q] \subseteq events'[q]
                           /\ "delivered" \in events'[q] => "delivered" \in events[q]
    BY <1>0, <2>2, <2>4, NotifyAdds
  <2>6. OrphansAreFaults' /\ SettledIsAnnounced'
    BY <1>0, <2>1, <2>3, <2>5 DEF OrphansAreFaults, SettledIsAnnounced
  <2>7. RunsAreTruthful'
    <3>1. \E label \in {"begin", "logFailure", "send", "finish"}, e \in {"none", "provider", "expired", err[w]} :
             /\ step' = [step EXCEPT ![w] = label] /\ err' = [err EXCEPT ![w] = e]
             /\ label = "logFailure" => e # "none"
             /\ label = "finish" => e # "none" /\ ("failed" \in events'[r] \/ faults' > 0)
      <4>1. step[w] = "logFailure" => err[w] # "none"
        BY <1>0 DEF RunsAreTruthful
      <4>2. Notify(r, "failed") => "failed" \in events'[r]
        BY <1>0, <2>2, NotifyAdds
      <4>3. Fault => faults' > 0
        BY <1>0 DEF Fault
      <4> QED BY <1>5, <4>1, <4>2, <4>3 DEF MarkRetrying, PreProcess, LogFailure, Proceed
    <3>2. \A x \in Worker : x # w => step'[x] = step[x] /\ err'[x] = err[x]
      BY <1>0, <3>1 DEF WorkerTypeOK
    <3>3. \A x \in Worker : step[x] # "idle" => holds[x] \in Request
      BY <1>0 DEF WorkerTypeOK
    <3>4. ASSUME NEW x \in Worker, x # w
          PROVE  /\ step'[x] = "logSuccess" => delivered'[holds'[x]] > 0
                 /\ step'[x] = "logFailure" => err'[x] # "none"
                 /\ step'[x] = "finish" /\ err'[x] = "none" => "delivered" \in events'[holds'[x]]
                 /\ step'[x] = "finish" /\ err'[x] # "none"
                       => "failed" \in events'[holds'[x]] \/ faults' > 0
      BY <1>0, <2>1, <2>3, <2>5, <3>2, <3>3, <3>4 DEF RunsAreTruthful
    <3>5. /\ step'[w] # "logSuccess"
          /\ step'[w] = "logFailure" => err'[w] # "none"
          /\ step'[w] = "finish" => err'[w] # "none" /\ ("failed" \in events'[holds'[w]] \/ faults' > 0)
      BY <1>0, <2>1, <3>1 DEF WorkerTypeOK
    <3> QED BY <3>4, <3>5 DEF RunsAreTruthful
  <2>8. SuccessIsReal'
    <3>1. log' = log \/ \E id, status : status # "SENT" /\ UpdateByJobId(id, status)
      BY <1>5 DEF MarkRetrying, PreProcess, LogFailure
    <3>2. DOMAIN log' = DOMAIN log
      BY <1>0, <3>1, UpdateChanges
    <3>3. \A i \in DOMAIN log : log'[i].of = log[i].of /\ (log'[i].status = "SENT" => log[i].status = "SENT")
      BY <1>0, <3>1, UpdateChanges
    <3> QED BY <1>0, <2>1, <2>5, <3>2, <3>3 DEF SuccessIsReal
  <2> QED BY <2>6, <2>7, <2>8 DEF OutcomeInv
<1>6. ASSUME NEW w \in Worker, Send(w) PROVE OutcomeInv'
  <2> DEFINE r == holds[w]
  <2>1. UNCHANGED <<queueVars, holds, log, events>> /\ step[w] = "send" /\ faults' \in {faults, faults + 1}
    BY <1>6 DEF Send, Proceed, Fault
  <2>2. r \in Request
    BY <1>0, <2>1 DEF WorkerTypeOK
  <2>3. /\ delivered' = delivered \/ delivered' = [delivered EXCEPT ![r] = @ + 1]
        /\ \E label \in {"logSuccess", "logFailure"}, e \in {"none", "client", "provider"} :
              /\ step' = [step EXCEPT ![w] = label] /\ err' = [err EXCEPT ![w] = e]
              /\ label = "logSuccess" => delivered' = [delivered EXCEPT ![r] = @ + 1]
              /\ label = "logFailure" => e # "none"
    BY <1>6 DEF Send, Proceed
  <2>4. \A q \in Request : delivered[q] > 0 => delivered'[q] > 0
    <3>1. delivered' = delivered \/ delivered' = [delivered EXCEPT ![r] = @ + 1]
      BY <2>3
    <3>2. delivered \in [Request -> Nat]
      BY <1>0 DEF WorldTypeOK
    <3> HIDE DEF r
    <3> QED BY <2>2, <3>1, <3>2
  <2>5. RunsAreTruthful'
    <3>1. \A x \in Worker : x # w => step'[x] = step[x] /\ err'[x] = err[x]
      BY <1>0, <2>3 DEF WorkerTypeOK
    <3>2. \A x \in Worker : step[x] # "idle" => holds[x] \in Request
      BY <1>0 DEF WorkerTypeOK
    <3>3. step'[w] = "logSuccess" => delivered'[r] > 0
      BY <1>0, <2>2, <2>3 DEF WorkerTypeOK, WorldTypeOK
    <3>4. step'[w] \in {"logSuccess", "logFailure"} /\ (step'[w] = "logFailure" => err'[w] # "none")
      BY <1>0, <2>3 DEF WorkerTypeOK
    <3> QED BY <1>0, <2>1, <2>4, <3>1, <3>2, <3>3, <3>4 DEF RunsAreTruthful
  <2>6. SuccessIsReal'
    <3>1. \A i \in DOMAIN log : log[i].of \in Request
      BY <1>0, RowTyping
    <3> QED BY <1>0, <2>1, <2>4, <3>1 DEF SuccessIsReal
  <2>7. OrphansAreFaults' /\ SettledIsAnnounced'
    BY <1>0, <2>1 DEF OrphansAreFaults, SettledIsAnnounced
  <2> QED BY <2>5, <2>6, <2>7 DEF OutcomeInv
<1>7. ASSUME NEW w \in Worker, LogSuccess(w) PROVE OutcomeInv'
  <2> DEFINE r == holds[w]
  <2>1. UNCHANGED <<queueVars, holds, delivered>> /\ step[w] = "logSuccess"
        /\ faults' \in {faults, faults + 1}
    BY <1>7 DEF LogSuccess, Proceed, Fault
  <2>2. r \in Request /\ job[r] # "none" /\ delivered[r] > 0
    BY <1>0, <2>1 DEF WorkerTypeOK, JobsExist, RunsAreTruthful
  <2>3. \/ /\ UpdateByJobId(jobId[r], "SENT") /\ Notify(r, "delivered")
           /\ step' = [step EXCEPT ![w] = "finish"] /\ err' = [err EXCEPT ![w] = "none"]
        \/ /\ UNCHANGED <<log, events>>
           /\ step' = [step EXCEPT ![w] = "logFailure"] /\ err' = [err EXCEPT ![w] = "provider"]
    BY <1>7 DEF LogSuccess, Proceed
  <2>4. \A q \in Request : /\ events[q] \subseteq events'[q]
                           /\ q # r => events'[q] = events[q]
    BY <1>0, <2>2, <2>3, NotifyAdds
  <2>5. step'[w] = "finish" => "delivered" \in events'[r]
    BY <1>0, <2>2, <2>3, NotifyAdds DEF WorkerTypeOK
  <2>6. RunsAreTruthful'
    <3>1. \A x \in Worker : x # w => step'[x] = step[x] /\ err'[x] = err[x]
      BY <1>0, <2>3 DEF WorkerTypeOK
    <3>2. \A x \in Worker : step[x] # "idle" => holds[x] \in Request
      BY <1>0 DEF WorkerTypeOK
    <3>3. /\ step'[w] \in {"finish", "logFailure"}
          /\ step'[w] = "logFailure" => err'[w] # "none"
          /\ step'[w] = "finish" => err'[w] = "none"
      BY <1>0, <2>3 DEF WorkerTypeOK
    <3> QED BY <1>0, <2>1, <2>4, <2>5, <3>1, <3>2, <3>3 DEF RunsAreTruthful
  <2>7. SuccessIsReal'
    <3>1. ASSUME Cardinality(Channel) = 1, NEW i \in DOMAIN log', log'[i].status = "SENT"
          PROVE  delivered[log'[i].of] > 0
      <4>1. CASE log' = log
        BY <1>0, <3>1, <4>1 DEF SuccessIsReal
      <4>2. CASE UpdateByJobId(jobId[r], "SENT")
        <5>1. /\ i \in DOMAIN log /\ log'[i].of = log[i].of
              /\ log'[i].status = log[i].status \/ log[i].jobId = jobId[r]
          BY <1>0, <3>1, <4>2, UpdateChanges
        <5>2. CASE log[i].jobId = jobId[r]
          BY <2>2, <3>1, <5>1, <5>2, RowsAreOwn
        <5>3. CASE log'[i].status = log[i].status
          BY <1>0, <3>1, <5>1, <5>3 DEF SuccessIsReal
        <5> QED BY <5>1, <5>2, <5>3
      <4> QED BY <2>3, <4>1, <4>2
    <3>2. \A q \in Request : "delivered" \in events'[q] => delivered[q] > 0
      BY <1>0, <2>2, <2>4 DEF SuccessIsReal
    <3> QED BY <2>1, <3>1, <3>2 DEF SuccessIsReal
  <2>8. OrphansAreFaults' /\ SettledIsAnnounced'
    BY <1>0, <2>1, <2>4 DEF OrphansAreFaults, SettledIsAnnounced
  <2> QED BY <2>6, <2>7, <2>8 DEF OutcomeInv
<1>8. ASSUME NEW w \in Worker, Finish(w) PROVE OutcomeInv'
  <2> DEFINE r == holds[w]
  <2>1. /\ step[w] = "finish" /\ step' = [step EXCEPT ![w] = "idle"]
        /\ holds' = [holds EXCEPT ![w] = NoRequest] /\ err' = [err EXCEPT ![w] = "none"]
        /\ UNCHANGED <<log, delivered, events, faults>>
    BY <1>8 DEF Finish
  <2>2. r \in Request
    BY <1>0, <2>1 DEF WorkerTypeOK
  <2>3. RunsAreTruthful' /\ SuccessIsReal'
    BY <1>0, <2>1 DEF RunsAreTruthful, SuccessIsReal, WorkerTypeOK
  <2>4. CASE UNCHANGED <<job, lockedBy>>
    BY <1>0, <2>1, <2>3, <2>4 DEF OutcomeInv, OrphansAreFaults, SettledIsAnnounced
  <2>5. CASE /\ job' = [job EXCEPT ![r] = Outcome(r, err[w])]
             /\ lockedBy' = [lockedBy EXCEPT ![r] = NoWorker]
    <3>1. /\ Outcome(r, err[w]) \in {"completed", "failed", "waiting"}
          /\ Outcome(r, err[w]) = "completed" => "delivered" \in events[r]
          /\ Outcome(r, err[w]) = "failed" => "failed" \in events[r] \/ faults > 0
      BY <1>0, <2>1 DEF Outcome, RunsAreTruthful
    <3>2. /\ job'[r] = Outcome(r, err[w])
          /\ \A q \in Request : q # r => job'[q] = job[q] /\ lockedBy'[q] = lockedBy[q]
      BY <1>0, <2>2, <2>5 DEF QueueTypeOK
    <3>3. OrphansAreFaults' /\ SettledIsAnnounced'
      BY <1>0, <2>1, <3>1, <3>2 DEF OrphansAreFaults, SettledIsAnnounced
    <3> QED BY <2>3, <3>3 DEF OutcomeInv
  <2> QED BY <1>8, <2>4, <2>5 DEF Finish
<1>9. ASSUME NEW w \in Worker, Crash(w) \/ LoseLock(w) PROVE OutcomeInv'
  <2>1. /\ UNCHANGED <<job, log, delivered, events>> /\ faults' = faults + 1
        /\ \/ UNCHANGED workerVars
           \/ /\ step' = [step EXCEPT ![w] = "idle"] /\ holds' = [holds EXCEPT ![w] = NoRequest]
              /\ err' = [err EXCEPT ![w] = "none"]
    BY <1>9 DEF Crash, LoseLock, Fault
  <2>2. faults' > 0
    BY <1>0, <2>1
  <2>3. OrphansAreFaults' /\ SuccessIsReal' /\ SettledIsAnnounced'
    BY <1>0, <2>1, <2>2 DEF OrphansAreFaults, SuccessIsReal, SettledIsAnnounced
  <2>4. RunsAreTruthful'
    BY <1>0, <2>1, <2>2 DEF RunsAreTruthful, WorkerTypeOK
  <2> QED BY <2>3, <2>4 DEF OutcomeInv
<1> QED BY <1>1, <1>2, <1>3, <1>4, <1>5, <1>6, <1>7, <1>8, <1>9 DEF Next, SenderStep, WorkerStep

LEMMA Outcomes == Spec => []OutcomeInv
BY Typing, SendsInit, SendsStep, JobsInit, JobsStep, OutcomeInit, OutcomeStep, PTL DEF Spec

\* A SENT row (with one channel) and an onDelivered callback are about a delivered message,
\* however runs, crashes and lost locks interleave with send() and its log row.
THEOREM ReportsAreReal == Spec => []SuccessIsReal
BY Outcomes, PTL DEF OutcomeInv

\* A completed job was announced to the observers, and so was a failed one unless a fault
\* came between.
THEOREM JobsEndAnnounced == Spec => []SettledIsAnnounced
BY Outcomes, PTL DEF OutcomeInv
=============================================================================
