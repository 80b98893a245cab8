---------------------- MODULE DistributedLockProperties ----------------------
(* What the distributed lock promises, and what it does not. *)
EXTENDS DistributedLock

TypeOK ==
    /\ backend \in {"redis", "memory"}
    /\ pc \in [Caller -> Label]
    /\ ttl \in [Caller -> Nat] /\ budget \in [Caller -> Nat] /\ nap \in [Caller -> Nat]
    /\ holder \in Caller \cup {NoOne}
    /\ lease \in Nat
    /\ term \in [Caller -> Nat]
    /\ armed \subseteq Caller
    /\ faults \in Nat

\* Two callers are only ever inside together when one of them has used up the ttl it
\* was granted: neither a slow release, nor a lost reply, nor a left-over timer lets a
\* second one in earlier.
MutualExclusion ==
    \A c, d \in Caller :
        c # d /\ pc[c] \in Inside /\ pc[d] \in Inside => term[c] = 0 \/ term[d] = 0

\* A caller that is inside and within its ttl owns the lock: a predecessor that comes
\* back late, or its timer, does not take it away.
LeaseIsHonoured ==
    \A c \in Caller : pc[c] \in Inside /\ term[c] > 0 => holder = c

\* A call that has ended leaves no lock behind, unless Redis did not answer it.
NothingIsLeftBehind ==
    \A c \in Caller : holder = c /\ pc[c] \in Ended => faults > 0

\* Whatever dies, hangs or is lost, the lock becomes free: a call of executeWithLock
\* cannot keep it, and an application only as long as it lives and extends it.
LockIsFreed ==
    \A c \in Caller :
        holder = c /\ (c \in Client => pc[c] \in Ended) ~> holder # c

\* A call that waits for the lock gets it or is refused in the end.
EveryCallEnds == \A c \in Caller : pc[c] = "polling" ~> pc[c] \in Inside \cup Ended

-----------------------------------------------------------------------------
(* Why: the inductive invariant of the proofs. *)

\* The Redis key and what its owner may count on run out together.
LeaseIsTerm == backend = "redis" => lease = (IF holder = NoOne THEN 0 ELSE term[holder])

\* In memory the owner's timer is running, and there is no Redis key.
TimerIsRunning ==
    backend = "memory" => lease = 0 /\ holder \in armed \cup {NoOne}

\* What each backend leaves out of a call.
BackendIsUsed ==
    /\ backend = "redis" => armed = {}
    /\ backend = "memory" => \A c \in Caller : pc[c] \notin {"asking", "granted"}

\* Somebody who owns the lock without a fault is inside.
OwnerIsInside == holder # NoOne /\ faults = 0 => pc[holder] \in Inside

LockInv == LeaseIsHonoured /\ LeaseIsTerm /\ TimerIsRunning /\ BackendIsUsed /\ OwnerIsInside

=============================================================================
