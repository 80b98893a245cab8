--------------------------- MODULE DistributedLock ---------------------------
(***************************************************************************)
(* The distributed lock: DistributedLockService.executeWithLock of         *)
(* packages/common, which keeps its lock in Redis or, without a            *)
(* RedisService, in a Map with timers, and LockRedisService of             *)
(* packages/cache, which applications also use directly (waitForLock,      *)
(* extendLock, releaseLock).                                               *)
(*                                                                         *)
(* One lock key is enough: nothing the code does relates two keys.  Time   *)
(* is kept as what is left of each delay, so that the model needs no bound *)
(* on the clock.                                                           *)
(***************************************************************************)
EXTENDS Integers

CONSTANTS
    Service,        \* calls of executeWithLock
    Client,         \* applications that call waitForLock and then releaseLock
    NoOne,          \* the lock is free
    TtlOptions,     \* the ttlMs that callers pass (0: none given)
    TimeoutOptions, \* the timeoutMs that callers pass
    DefaultTtl, DefaultTimeout, \* what executeWithLock takes for 0
    RetryTicks,     \* retryIntervalMs
    MaxFaults       \* BOUND on lost replies and dead processes

Caller == Service \cup Client

ASSUME LockAssumption ==
    /\ TtlOptions \subseteq Nat /\ TimeoutOptions \subseteq Nat
    /\ DefaultTtl \in Nat \ {0} /\ DefaultTimeout \in Nat \ {0}
    /\ RetryTicks \in Nat \ {0} /\ MaxFaults \in Nat
    /\ Service \cap Client = {} /\ NoOne \notin Caller

VARIABLES
    backend,    \* "redis", or "memory" when no RedisService was injected
    pc,         \* where a call is
    ttl,        \* its ttlMs
    budget,     \* ticks in which its loop may still start another try (0: no loop)
    nap,        \* ticks left of its retry interval
    holder,     \* whose lockValue the key, or the Map's entry, contains
    lease,      \* ticks left of the Redis key's PX
    term,       \* ticks left of the ttl a call was last granted: its setTimeout in
                \* memory, and what it may count on in Redis
    armed,      \* memory: calls whose setTimeout has not fired yet
    faults

callVars == <<pc, ttl, budget, nap>>
lockVars == <<holder, lease, term, armed>>
vars == <<backend, callVars, lockVars, faults>>

Label == {"idle", "polling", "asking", "sleeping", "granted", "critical", "releasing",
          "done", "refused", "dead"}

\* Between the grant of the lock and its release.
Inside == {"granted", "critical", "releasing"}
Ended == {"done", "refused", "dead"}

-----------------------------------------------------------------------------
(* Helpers *)

GoTo(c, label) == pc' = [pc EXCEPT ![c] = label]

\* The polling loop ends.
EndLoop(c, label) == GoTo(c, label) /\ budget' = [budget EXCEPT ![c] = 0]

Fault == faults < MaxFaults /\ faults' = faults + 1

\* options.ttlMs || 10000: the service takes its default for 0 too, waitForLock only
\* for undefined.
OrDefault(c, given, default) == IF c \in Service /\ given = 0 THEN default ELSE given

\* The tries of a loop start while elapsed <= timeout in executeWithLock, and while
\* elapsed < timeout in waitForLock.
BudgetFor(c, timeout) == IF c \in Service THEN timeout + 1 ELSE timeout

\* The key is written with c's value and c's ttl.
Grant(c) ==
    /\ holder' = c
    /\ term' = [term EXCEPT ![c] = ttl[c]]

\* Mutant of SetInRedis: SET without NX.
SetWithoutNX(c) ==
    /\ Grant(c)
    /\ lease' = ttl[c]
    /\ UNCHANGED armed

\* Mutant of SetInRedis: the key has no PX.
SetWithoutPX(c) ==
    /\ holder = NoOne
    /\ Grant(c)
    /\ UNCHANGED <<lease, armed>>

\* SET lockKey value NX PX ttl succeeds.
SetInRedis(c) ==
    /\ holder = NoOne
    /\ Grant(c)
    /\ lease' = ttl[c]
    /\ UNCHANGED armed

\* Mutant of Drop: DEL without comparing the value.
DropAnyones(c) ==
    /\ holder' = NoOne
    /\ lease' = 0
    /\ UNCHANGED <<term, armed>>

\* Delete the lock if its value is still c's: the Lua script, or the Map's delete.
Drop(c) ==
    /\ holder' = IF holder = c THEN NoOne ELSE holder
    /\ lease' = IF holder = c THEN 0 ELSE lease
    /\ UNCHANGED <<term, armed>>

\* Mutant of Less: a delay is counted on when it is over.
LessPastZero(n) == n - 1

\* What is left of a delay one tick later.
Less(n) == IF n > 0 THEN n - 1 ELSE 0

Init ==
    /\ backend \in {"redis", "memory"}
    /\ pc = [c \in Caller |-> "idle"]
    /\ ttl = [c \in Caller |-> 0]
    /\ budget = [c \in Caller |-> 0]
    /\ nap = [c \in Caller |-> 0]
    /\ holder = NoOne
    /\ lease = 0
    /\ term = [c \in Caller |-> 0]
    /\ armed = {}
    /\ faults = 0

-----------------------------------------------------------------------------
(* A call *)

\* executeWithLock or waitForLock starts and reads the clock.
Call(c) ==
    /\ pc[c] = "idle"
    /\ c \in Client => backend = "redis"
    /\ \E given \in TtlOptions, timeout \in TimeoutOptions :
          /\ ttl' = [ttl EXCEPT ![c] = OrDefault(c, given, DefaultTtl)]
          /\ budget' = [budget EXCEPT ![c] =
                            BudgetFor(c, OrDefault(c, timeout, DefaultTimeout))]
    /\ GoTo(c, "polling")
    /\ UNCHANGED <<backend, nap, lockVars, faults>>

\* The deadline has passed: executeWithLock throws, waitForLock returns false.
GiveUp(c) ==
    /\ pc[c] = "polling" /\ budget[c] = 0
    /\ GoTo(c, "refused")
    /\ UNCHANGED <<backend, ttl, budget, nap, lockVars, faults>>

\* The loop's condition holds and the SET is sent.
Ask(c) ==
    /\ pc[c] = "polling" /\ budget[c] > 0 /\ backend = "redis"
    /\ GoTo(c, "asking")
    /\ UNCHANGED <<backend, ttl, budget, nap, lockVars, faults>>

Sleep(c) ==
    /\ GoTo(c, "sleeping")
    /\ nap' = [nap EXCEPT ![c] = RetryTicks]
    /\ UNCHANGED budget

\* Without Redis: look and take in one go, and start the timer.
TakeInMemory(c) ==
    /\ pc[c] = "polling" /\ budget[c] > 0 /\ backend = "memory"
    /\ \/ /\ holder = NoOne
          /\ Grant(c)
          /\ armed' = armed \cup {c}
          /\ EndLoop(c, "critical")
          /\ UNCHANGED <<nap, lease>>
       \/ /\ holder # NoOne
          /\ Sleep(c)
          /\ UNCHANGED lockVars
    /\ UNCHANGED <<backend, ttl, faults>>

\* Redis runs the SET.  The caller learns of it later: time may pass in "granted".
Acquire(c) ==
    /\ pc[c] = "asking" /\ ttl[c] > 0
    /\ \/ SetInRedis(c) /\ EndLoop(c, "granted") /\ UNCHANGED nap
       \/ holder # NoOne /\ Sleep(c) /\ UNCHANGED lockVars
    /\ UNCHANGED <<backend, ttl, faults>>

\* What an error of acquireLock does: executeWithLock logs it and polls on,
\* waitForLock rejects.
AcquireFails(c) ==
    IF c \in Service THEN Sleep(c) ELSE EndLoop(c, "refused") /\ UNCHANGED nap

\* Redis refuses PX 0.
AcquireRejected(c) ==
    /\ pc[c] = "asking" /\ ttl[c] = 0
    /\ AcquireFails(c)
    /\ UNCHANGED <<backend, ttl, lockVars, faults>>

\* The connection breaks before the reply: the SET was run or was not.
AcquireLost(c) ==
    /\ pc[c] = "asking" /\ ttl[c] > 0
    /\ Fault
    /\ AcquireFails(c)
    /\ SetInRedis(c) \/ UNCHANGED lockVars
    /\ UNCHANGED <<backend, ttl>>

Wake(c) ==
    /\ pc[c] = "sleeping" /\ nap[c] = 0
    /\ GoTo(c, "polling")
    /\ UNCHANGED <<backend, ttl, budget, nap, lockVars, faults>>

\* The reply arrives: fn() runs.
Enter(c) ==
    /\ pc[c] = "granted"
    /\ GoTo(c, "critical")
    /\ UNCHANGED <<backend, ttl, budget, nap, lockVars, faults>>

\* extendLock while the work goes on: PEXPIRE if the value is still the caller's,
\* and nothing otherwise.  PEXPIRE 0 deletes the key.
Extend(c, ticks) ==
    /\ c \in Client /\ backend = "redis" /\ pc[c] = "critical" /\ holder = c
    /\ lease' = ticks
    /\ term' = [term EXCEPT ![c] = ticks]
    /\ holder' = IF ticks = 0 THEN NoOne ELSE c
    /\ UNCHANGED <<backend, callVars, armed, faults>>

\* Mutant of Leave: the release is not in a finally, and a throwing fn() skips it.
LeaveWithoutFinally(c) ==
    /\ pc[c] = "critical"
    /\ \E label \in {"releasing", "done"} : GoTo(c, label)
    /\ UNCHANGED <<backend, ttl, budget, nap, lockVars, faults>>

\* fn() returns or throws.
Leave(c) ==
    /\ pc[c] = "critical"
    /\ GoTo(c, "releasing")
    /\ UNCHANGED <<backend, ttl, budget, nap, lockVars, faults>>

Release(c) ==
    /\ pc[c] = "releasing"
    /\ Drop(c)
    /\ GoTo(c, "done")
    /\ UNCHANGED <<backend, ttl, budget, nap, faults>>

\* releaseLock fails and the error is swallowed: the script was run or was not.
ReleaseLost(c) ==
    /\ pc[c] = "releasing" /\ backend = "redis"
    /\ Fault
    /\ Drop(c) \/ UNCHANGED lockVars
    /\ GoTo(c, "done")
    /\ UNCHANGED <<backend, ttl, budget, nap>>

\* The caller's process dies.  (In memory that is the end of every caller and of the
\* Map, and shows nothing.)
Crash(c) ==
    /\ pc[c] \notin {"idle"} \cup Ended /\ backend = "redis"
    /\ Fault
    /\ EndLoop(c, "dead")
    /\ UNCHANGED <<backend, ttl, nap, lockVars>>

-----------------------------------------------------------------------------
(* Time *)

\* The setTimeout of the Map's entry; release does not clear it.
TimerFires(c) ==
    /\ c \in armed /\ term[c] = 0
    /\ armed' = armed \ {c}
    /\ holder' = IF holder = c THEN NoOne ELSE holder
    /\ UNCHANGED <<backend, callVars, lease, term, faults>>

\* Some delay is running.
Running == lease > 0 \/ \E c \in Caller : budget[c] > 0 \/ nap[c] > 0 \/ term[c] > 0

\* Mutant of Tick: the deadline is measured anew in every turn of the loop.
TickWithoutDeadline ==
    /\ Running
    /\ nap' = [c \in Caller |-> Less(nap[c])]
    /\ term' = [c \in Caller |-> Less(term[c])]
    /\ lease' = Less(lease)
    /\ holder' = IF lease = 1 THEN NoOne ELSE holder
    /\ UNCHANGED <<backend, pc, ttl, budget, armed, faults>>

\* One tick passes for everybody; Redis removes the key when its PX is over.
Tick ==
    /\ Running
    /\ budget' = [c \in Caller |-> Less(budget[c])]
    /\ nap' = [c \in Caller |-> Less(nap[c])]
    /\ term' = [c \in Caller |-> Less(term[c])]
    /\ lease' = Less(lease)
    /\ holder' = IF lease = 1 THEN NoOne ELSE holder
    /\ UNCHANGED <<backend, pc, ttl, armed, faults>>

-----------------------------------------------------------------------------

\* The steps the event loop and Redis always get to.
Progress(c) ==
    \/ GiveUp(c) \/ Ask(c) \/ TakeInMemory(c) \/ Acquire(c) \/ AcquireRejected(c)
    \/ Wake(c) \/ Enter(c) \/ Release(c)

Step(c) ==
    \/ Call(c) \/ Progress(c) \/ Leave(c)
    \/ AcquireLost(c) \/ ReleaseLost(c) \/ Crash(c) \/ TimerFires(c)
    \/ \E ticks \in TtlOptions : Extend(c, ticks)

Next == Tick \/ \E c \in Caller : Step(c)

Spec == Init /\ [][Next]_vars

\* Time passes, timers fire, and a resolved await continues.  Nothing makes fn() end.
FairSpec ==
    /\ Spec
    /\ WF_vars(Tick)
    /\ \A c \in Caller : WF_vars(Progress(c)) /\ WF_vars(TimerFires(c))
=============================================================================
