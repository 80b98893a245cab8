---------------------------- MODULE Idempotency ----------------------------
(***************************************************************************)
(* IdempotencyInterceptor of the common package: requests of one process   *)
(* that carry the same idempotency key.  The response and the processing   *)
(* lock are kept in Redis, or in memory when there is no Redis or when a   *)
(* command fails.  A response is the request whose handler made it.        *)
(***************************************************************************)
EXTENDS Integers, FiniteSets

CONSTANTS
    Requests,
    NoResponse,
    MaxFaults   \* BOUND on failing Redis commands and on restarts

ASSUME IdempotencyAssumption == NoResponse \notin Requests /\ MaxFaults \in Nat

VARIABLES
    hasRedis,   \* whether a RedisService is injected
    response,   \* per place ("redis", "memory"), the cached response
    lock,       \* per place, the request that took the processing lock
    request,    \* per request, where it is
    answered,   \* per request, whose handler made the answer it got
    overtaken,  \* requests that looked before another one's response was stored
    lapsed,     \* a lock timed out under its holder, or a response timed out
    faults

idemVars == <<hasRedis, response, lock, request, answered, overtaken, lapsed, faults>>

Places == {"redis", "memory"}

InitIdempotency ==
    /\ hasRedis \in BOOLEAN
    /\ response = [p \in Places |-> NoResponse]
    /\ lock = [p \in Places |-> NoResponse]
    /\ request = [r \in Requests |-> "new"]
    /\ answered = [r \in Requests |-> NoResponse]
    /\ overtaken = {}
    /\ lapsed = FALSE
    /\ faults = 0

\* Where a step finds its data: in Redis, or in memory when Redis is absent or fails.
Served(p) ==
    \/ p = "redis" /\ hasRedis /\ UNCHANGED faults
    \/ p = "memory" /\ ~hasRedis /\ UNCHANGED faults
    \/ p = "memory" /\ hasRedis /\ faults < MaxFaults /\ faults' = faults + 1

Goes(r, where) == request' = [request EXCEPT ![r] = where]

\* getCachedResponse
LookUp(r) ==
    /\ request[r] = "new"
    /\ \E p \in Places :
         /\ Served(p)
         /\ IF response[p] # NoResponse
            THEN Goes(r, "done") /\ answered' = [answered EXCEPT ![r] = response[p]]
            ELSE Goes(r, "looked") /\ UNCHANGED answered
    /\ UNCHANGED <<hasRedis, response, lock, overtaken, lapsed>>

TakesLock(r, p) == Goes(r, "handling") /\ lock' = [lock EXCEPT ![p] = r]

\* MUTANT of Lock: it does not look whether the lock is taken.
LockRegardless(r) ==
    /\ request[r] = "looked"
    /\ \E p \in Places : Served(p) /\ TakesLock(r, p)
    /\ UNCHANGED <<hasRedis, response, answered, overtaken, lapsed>>

\* acquireProcessingLock, or a conflict.
Lock(r) ==
    /\ request[r] = "looked"
    /\ \E p \in Places :
         /\ Served(p)
         /\ IF lock[p] = NoResponse THEN TakesLock(r, p)
            ELSE Goes(r, "conflict") /\ UNCHANGED lock
    /\ UNCHANGED <<hasRedis, response, answered, overtaken, lapsed>>

\* MUTANT of Respond: the response is not stored.
RespondUnstored(r) ==
    /\ request[r] = "handling"
    /\ Goes(r, "releasing") /\ answered' = [answered EXCEPT ![r] = r]
    /\ UNCHANGED <<hasRedis, response, lock, overtaken, lapsed, faults>>

\* The handler's response goes out; tap does not wait for what it starts.  An empty one, null
\* or undefined, is never found again.
Respond(r) ==
    /\ request[r] = "handling"
    /\ \/ Goes(r, "storing") /\ answered' = [answered EXCEPT ![r] = r]
       \/ Goes(r, "storing nothing") /\ UNCHANGED answered
    /\ UNCHANGED <<hasRedis, response, lock, overtaken, lapsed, faults>>

\* MUTANT of HandlerThrows: the lock stays.
HandlerThrowsLocked(r) ==
    /\ request[r] = "handling"
    /\ Goes(r, "done")
    /\ UNCHANGED <<hasRedis, response, lock, answered, overtaken, lapsed, faults>>

HandlerThrows(r) ==
    /\ request[r] = "handling"
    /\ Goes(r, "releasing")
    /\ UNCHANGED <<hasRedis, response, lock, answered, overtaken, lapsed, faults>>

\* setCachedResponse
Store(r) ==
    /\ request[r] \in {"storing", "storing nothing"}
    /\ Goes(r, "releasing")
    /\ \E p \in Places :
         /\ Served(p)
         /\ response' \in IF request[r] = "storing" THEN {[response EXCEPT ![p] = r]}
                          ELSE {response, [response EXCEPT ![p] = NoResponse]}
    /\ overtaken' = overtaken \cup {q \in Requests : request[q] = "looked"}
    /\ UNCHANGED <<hasRedis, lock, answered, lapsed>>

\* releaseProcessingLock deletes the lock, whoever holds it.
Release(r) ==
    /\ request[r] = "releasing"
    /\ Goes(r, "done")
    /\ \E p \in Places : Served(p) /\ lock' = [lock EXCEPT ![p] = NoResponse]
    /\ UNCHANGED <<hasRedis, response, answered, overtaken, lapsed>>

\* The ttl, the same for both, runs out.
TimeOut(p) ==
    \/ /\ lock[p] # NoResponse
       /\ lapsed' = TRUE
       /\ lock' = [lock EXCEPT ![p] = NoResponse]
       /\ UNCHANGED <<hasRedis, response, request, answered, overtaken, faults>>
    \/ /\ response[p] # NoResponse
       /\ lapsed' = TRUE
       /\ response' = [response EXCEPT ![p] = NoResponse]
       /\ UNCHANGED <<hasRedis, lock, request, answered, overtaken, faults>>

\* The process restarts: memory is empty, its requests get no answer.
Restart ==
    /\ faults < MaxFaults /\ faults' = faults + 1
    /\ request' = [r \in Requests |-> IF request[r] \in {"new", "conflict"} THEN request[r] ELSE "done"]
    /\ response' = [response EXCEPT !["memory"] = NoResponse]
    /\ lock' = [lock EXCEPT !["memory"] = NoResponse]
    /\ UNCHANGED <<hasRedis, answered, overtaken, lapsed>>

NextIdempotency ==
    \/ \E r \in Requests : LookUp(r) \/ Lock(r) \/ Respond(r) \/ HandlerThrows(r) \/ Store(r) \/ Release(r)
    \/ \E p \in Places : TimeOut(p)
    \/ Restart

IdempotencySpec == InitIdempotency /\ [][NextIdempotency]_idemVars

-----------------------------------------------------------------------------
Undisturbed == ~lapsed /\ faults = 0

\* While no lock times out and no Redis command fails, one handler runs at a time.
OneHandlerAtATime ==
    Undisturbed => Cardinality({r \in Requests : request[r] = "handling"}) <= 1

\* Under the same conditions only one handler makes a response, unless a request had looked for
\* one before it was there.
OneResponseUnlessOvertaken ==
    Undisturbed /\ overtaken = {} => Cardinality({r \in Requests : answered[r] = r}) <= 1

\* Under the same conditions the lock is free when no request is under way.
LockIsReleased ==
    Undisturbed /\ (\A r \in Requests : request[r] \in {"new", "done", "conflict"})
        => \A p \in Places : lock[p] = NoResponse

\* What the package says: a key prevents duplicate processing (within its ttl).  With Redis every
\* step is a command, between which other requests run.
DuplicatesArePrevented ==
    hasRedis /\ Undisturbed => Cardinality({r \in Requests : answered[r] = r}) <= 1
=============================================================================
