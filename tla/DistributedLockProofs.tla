------------------------ MODULE DistributedLockProofs ------------------------
(***************************************************************************)
(* Mutual exclusion within the ttl, for any number of callers, any ttl and *)
(* timeout options and any number of lost replies and dead processes.      *)
(***************************************************************************)
EXTENDS DistributedLockProperties, TLAPS

LEMMA TypingStep == TypeOK /\ [Next]_vars => TypeOK'
<1> SUFFICES ASSUME TypeOK, [Next]_vars PROVE TypeOK'
  OBVIOUS
<1> USE LockAssumption DEF TypeOK, Label, callVars, lockVars
<1>1. CASE Tick
  BY <1>1 DEF Tick, Less
<1>2. ASSUME NEW c \in Caller, Call(c) PROVE TypeOK'
  BY <1>2 DEF Call, GoTo, OrDefault, BudgetFor
<1>3. ASSUME NEW c \in Caller, GiveUp(c) \/ Ask(c) \/ Wake(c) \/ Enter(c) \/ Leave(c)
      PROVE  TypeOK'
  BY <1>3 DEF GiveUp, Ask, Wake, Enter, Leave, GoTo
<1>4. ASSUME NEW c \in Caller, TakeInMemory(c) PROVE TypeOK'
  BY <1>4 DEF TakeInMemory, Grant, EndLoop, Sleep, GoTo
<1>5. ASSUME NEW c \in Caller, Acquire(c) PROVE TypeOK'
  BY <1>5 DEF Acquire, SetInRedis, Grant, EndLoop, Sleep, GoTo
<1>6. ASSUME NEW c \in Caller, AcquireRejected(c) PROVE TypeOK'
  BY <1>6 DEF AcquireRejected, AcquireFails, EndLoop, Sleep, GoTo
<1>7. ASSUME NEW c \in Caller, AcquireLost(c) PROVE TypeOK'
  BY <1>7 DEF AcquireLost, AcquireFails, SetInRedis, Grant, EndLoop, Sleep, GoTo, Fault
<1>8. ASSUME NEW c \in Caller, Release(c) \/ ReleaseLost(c) PROVE TypeOK'
  BY <1>8 DEF Release, ReleaseLost, Drop, GoTo, Fault
<1>9. ASSUME NEW c \in Caller, Crash(c) PROVE TypeOK'
  BY <1>9 DEF Crash, EndLoop, GoTo, Fault
<1>10. ASSUME NEW c \in Caller, TimerFires(c) PROVE TypeOK'
  BY <1>10 DEF TimerFires
<1>11. ASSUME NEW c \in Caller, NEW ticks \in TtlOptions, Extend(c, ticks) PROVE TypeOK'
  BY <1>11 DEF Extend
<1>12. CASE UNCHANGED vars
  BY <1>12 DEF vars
<1> QED BY <1>1, <1>2, <1>3, <1>4, <1>5, <1>6, <1>7, <1>8, <1>9, <1>10, <1>11, <1>12
        DEF Next, Step, Progress

\* Every variable keeps its type.
THEOREM LockTyping == Spec => []TypeOK
<1>1. Init => TypeOK
  BY LockAssumption DEF Init, TypeOK, Label
<1> QED BY <1>1, TypingStep, PTL DEF Spec

-----------------------------------------------------------------------------
(* The lease of the owner *)

\* Steps that leave the lock and the clock alone: nobody gets inside, and an owner
\* stays inside or a fault has happened.
LEMMA LockQuiet ==
    ASSUME TypeOK, LockInv, UNCHANGED <<backend, lockVars>>,
           faults' = faults \/ faults' = faults + 1,
           NEW c \in Caller, NEW label \in Label, pc' = [pc EXCEPT ![c] = label],
           label \in Inside => pc[c] \in Inside,
           pc[c] \in Inside => label \in Inside \/ faults' = faults + 1,
           backend = "memory" => label \notin {"asking", "granted"}
    PROVE  LockInv'
<1> USE DEF lockVars
<1>1. LeaseIsHonoured'
  BY DEF TypeOK, LockInv, LeaseIsHonoured
<1>2. LeaseIsTerm' /\ TimerIsRunning'
  BY DEF TypeOK, LockInv, LeaseIsTerm, TimerIsRunning
<1>3. BackendIsUsed'
  BY DEF TypeOK, LockInv, BackendIsUsed
<1>4. OwnerIsInside'
  <2>1. faults \in Nat /\ (holder # NoOne /\ faults = 0 => pc[holder] \in Inside)
    BY DEF TypeOK, LockInv, OwnerIsInside
  <2>2. CASE faults' = faults + 1
    BY <2>1, <2>2 DEF OwnerIsInside
  <2>3. CASE faults' = faults
    BY <2>1, <2>3 DEF OwnerIsInside, TypeOK
  <2> QED BY <2>2, <2>3
<1> QED BY <1>1, <1>2, <1>3, <1>4 DEF LockInv

\* The free lock is granted to c.
LEMMA LockGrant ==
    ASSUME TypeOK, LockInv, backend' = backend, holder = NoOne,
           NEW c \in Caller, Grant(c),
           NEW label \in Label, pc' = [pc EXCEPT ![c] = label],
           \/ label \in Inside /\ faults' = faults
           \/ label \notin Inside /\ faults' = faults + 1,
           \/ backend = "redis" /\ lease' = ttl[c] /\ armed' = armed
           \/ /\ backend = "memory" /\ lease' = lease /\ armed' = armed \cup {c}
              /\ label = "critical"
    PROVE  LockInv'
<1>1. LeaseIsHonoured'
  <2> SUFFICES ASSUME NEW d \in Caller, pc'[d] \in Inside, term'[d] > 0
               PROVE  holder' = d
    BY DEF LeaseIsHonoured
  <2>1. CASE d = c
    BY <2>1 DEF Grant
  <2>2. CASE d # c
    BY <2>2, LockAssumption DEF Grant, TypeOK, LockInv, LeaseIsHonoured
  <2> QED BY <2>1, <2>2
<1>2. LeaseIsTerm' /\ TimerIsRunning'
  BY LockAssumption DEF Grant, TypeOK, LockInv, LeaseIsTerm, TimerIsRunning
<1>3. BackendIsUsed'
  BY DEF TypeOK, LockInv, BackendIsUsed
<1>4. OwnerIsInside'
  BY DEF Grant, OwnerIsInside, TypeOK
<1> QED BY <1>1, <1>2, <1>3, <1>4 DEF LockInv

\* Its value still in the lock, c lets go of it and is done.
LEMMA LockDrop ==
    ASSUME TypeOK, LockInv, backend' = backend, NEW c \in Caller,
           pc' = [pc EXCEPT ![c] = "done"], Drop(c),
           faults' = faults \/ faults' = faults + 1
    PROVE  LockInv'
<1> USE LockAssumption DEF Drop
<1>1. LeaseIsHonoured'
  BY DEF TypeOK, LockInv, LeaseIsHonoured, Inside
<1>2. LeaseIsTerm' /\ TimerIsRunning'
  BY DEF TypeOK, LockInv, LeaseIsTerm, TimerIsRunning
<1>3. BackendIsUsed'
  BY DEF TypeOK, LockInv, BackendIsUsed
<1>4. OwnerIsInside'
  BY DEF TypeOK, LockInv, OwnerIsInside
<1> QED BY <1>1, <1>2, <1>3, <1>4 DEF LockInv

LEMMA LockTick == TypeOK /\ LockInv /\ Tick => LockInv'
<1> SUFFICES ASSUME TypeOK, LockInv, Tick PROVE LockInv'
  OBVIOUS
<1> USE LockAssumption
<1>1. /\ UNCHANGED <<backend, pc, armed, faults>> /\ lease \in Nat
      /\ term \in [Caller -> Nat] /\ holder \in Caller \cup {NoOne}
      /\ lease' = IF lease > 0 THEN lease - 1 ELSE 0
      /\ holder' = IF lease = 1 THEN NoOne ELSE holder
      /\ term' = [c \in Caller |-> IF term[c] > 0 THEN term[c] - 1 ELSE 0]
      /\ backend \in {"redis", "memory"}
  BY DEF Tick, Less, TypeOK
<1>2. LeaseIsHonoured'
  <2> SUFFICES ASSUME NEW c \in Caller, pc[c] \in Inside, term'[c] > 0
               PROVE  holder' = c
    BY <1>1 DEF LeaseIsHonoured
  <2>1. term[c] > 1 /\ holder = c
    BY <1>1 DEF LockInv, LeaseIsHonoured
  <2>2. lease # 1
    BY <1>1, <2>1 DEF LockInv, LeaseIsTerm, TimerIsRunning
  <2> QED BY <1>1, <2>1, <2>2
<1>3. LeaseIsTerm'
  BY <1>1 DEF LockInv, LeaseIsTerm
<1>4. TimerIsRunning'
  BY <1>1 DEF LockInv, TimerIsRunning
<1>5. BackendIsUsed' /\ OwnerIsInside'
  BY <1>1 DEF LockInv, BackendIsUsed, OwnerIsInside
<1> QED BY <1>2, <1>3, <1>4, <1>5 DEF LockInv

LEMMA LockStep == TypeOK /\ LockInv /\ [Next]_vars => LockInv'
<1> SUFFICES ASSUME TypeOK, LockInv, [Next]_vars PROVE LockInv'
  OBVIOUS
<1> USE LockAssumption DEF callVars, lockVars
<1>0. /\ pc \in [Caller -> Label] /\ faults \in Nat /\ backend \in {"redis", "memory"}
      /\ term \in [Caller -> Nat] /\ holder \in Caller \cup {NoOne}
      /\ backend = "memory" => \A c \in Caller : pc[c] \notin {"asking", "granted"}
  BY DEF TypeOK, LockInv, BackendIsUsed
<1>1. CASE Tick
  BY <1>1, LockTick
<1>2. ASSUME NEW c \in Caller, Call(c) \/ GiveUp(c) \/ Ask(c) \/ Wake(c) PROVE LockInv'
  <2>1. /\ UNCHANGED <<backend, lockVars>> /\ faults' = faults
        /\ pc[c] \notin Inside
        /\ \E label \in Label \ Inside :
              /\ pc' = [pc EXCEPT ![c] = label]
              /\ label \in {"asking", "granted"} => backend = "redis"
    BY <1>2 DEF Call, GiveUp, Ask, Wake, GoTo, Label, Inside
  <2>2. PICK label \in Label \ Inside :
              /\ pc' = [pc EXCEPT ![c] = label]
              /\ label \in {"asking", "granted"} => backend = "redis"
    BY <2>1
  <2> QED BY <2>1, <2>2, LockQuiet
<1>3. ASSUME NEW c \in Caller, Enter(c) \/ Leave(c) PROVE LockInv'
  <2>1. /\ UNCHANGED <<backend, lockVars>> /\ faults' = faults
        /\ pc[c] \in Inside
        /\ \E label \in {"critical", "releasing"} : pc' = [pc EXCEPT ![c] = label]
    BY <1>3 DEF Enter, Leave, GoTo, Inside
  <2>2. PICK label \in {"critical", "releasing"} : pc' = [pc EXCEPT ![c] = label]
    BY <2>1
  <2>3. label \in Label /\ label \in Inside /\ label \notin {"asking", "granted"}
    BY DEF Label, Inside
  <2> QED BY <2>1, <2>2, <2>3, LockQuiet
<1>4. ASSUME NEW c \in Caller, TakeInMemory(c) PROVE LockInv'
  <2>1. CASE holder = NoOne /\ Grant(c) /\ armed' = armed \cup {c} /\ lease' = lease
             /\ pc' = [pc EXCEPT ![c] = "critical"]
    <3>1. backend' = backend /\ backend = "memory" /\ faults' = faults
          /\ "critical" \in Label /\ "critical" \in Inside
      BY <1>4 DEF TakeInMemory, Label, Inside
    <3> QED BY <2>1, <3>1, LockGrant
  <2>2. CASE UNCHANGED lockVars /\ pc' = [pc EXCEPT ![c] = "sleeping"]
    <3>1. backend' = backend /\ faults' = faults /\ pc[c] \notin Inside
          /\ "sleeping" \in Label /\ "sleeping" \notin Inside
      BY <1>4 DEF TakeInMemory, Label, Inside
    <3> QED BY <2>2, <3>1, LockQuiet
  <2> QED BY <1>4, <2>1, <2>2 DEF TakeInMemory, EndLoop, Sleep, GoTo
<1>5. ASSUME NEW c \in Caller, Acquire(c) \/ AcquireRejected(c) \/ AcquireLost(c)
      PROVE  LockInv'
  <2>1. /\ backend' = backend /\ pc[c] = "asking" /\ pc[c] \notin Inside
        /\ backend = "redis"
    BY <1>0, <1>5 DEF Acquire, AcquireRejected, AcquireLost, Inside
  <2>2. /\ faults' = faults \/ faults' = faults + 1
        /\ \E label \in {"granted", "sleeping", "refused"} :
              /\ pc' = [pc EXCEPT ![c] = label]
              /\ \/ UNCHANGED lockVars /\ label # "granted"
                 \/ SetInRedis(c) /\ label = "granted" /\ faults' = faults
                 \/ SetInRedis(c) /\ label # "granted" /\ faults' = faults + 1
    BY <1>5 DEF Acquire, AcquireRejected, AcquireLost, AcquireFails, EndLoop, Sleep, GoTo, Fault
  <2>3. PICK label \in {"granted", "sleeping", "refused"} :
              /\ pc' = [pc EXCEPT ![c] = label]
              /\ \/ UNCHANGED lockVars /\ label # "granted"
                 \/ SetInRedis(c) /\ label = "granted" /\ faults' = faults
                 \/ SetInRedis(c) /\ label # "granted" /\ faults' = faults + 1
    BY <2>2
  <2>4. label \in Label /\ (label \in Inside <=> label = "granted")
    BY DEF Label, Inside
  <2>5. CASE UNCHANGED lockVars /\ label # "granted"
    BY <2>1, <2>2, <2>3, <2>4, <2>5, LockQuiet
  <2>6. CASE SetInRedis(c) /\ (faults' = faults <=> label = "granted")
    <3>1. holder = NoOne /\ Grant(c) /\ lease' = ttl[c] /\ armed' = armed
      BY <2>6 DEF SetInRedis
    <3> QED BY <2>1, <2>2, <2>3, <2>4, <2>6, <3>1, LockGrant
  <2> QED BY <1>0, <2>3, <2>5, <2>6
<1>6. ASSUME NEW c \in Caller, Release(c) \/ ReleaseLost(c) PROVE LockInv'
  <2>1. /\ backend' = backend /\ pc' = [pc EXCEPT ![c] = "done"] /\ pc[c] = "releasing"
        /\ \/ Drop(c) /\ (faults' = faults \/ faults' = faults + 1)
           \/ UNCHANGED lockVars /\ faults' = faults + 1
    BY <1>6 DEF Release, ReleaseLost, GoTo, Fault
  <2>2. "done" \in Label /\ "done" \notin Inside
    BY DEF Label, Inside
  <2>3. CASE Drop(c) /\ (faults' = faults \/ faults' = faults + 1)
    BY <2>1, <2>3, LockDrop
  <2>4. CASE UNCHANGED lockVars /\ faults' = faults + 1
    BY <2>1, <2>2, <2>4, LockQuiet
  <2> QED BY <2>1, <2>3, <2>4
<1>7. ASSUME NEW c \in Caller, Crash(c) PROVE LockInv'
  <2>1. /\ UNCHANGED <<backend, lockVars>> /\ faults' = faults + 1
        /\ pc' = [pc EXCEPT ![c] = "dead"]
        /\ "dead" \in Label /\ "dead" \notin Inside
    BY <1>7 DEF Crash, EndLoop, GoTo, Fault, Label, Inside
  <2> QED BY <2>1, LockQuiet
<1>8. ASSUME NEW c \in Caller, TimerFires(c) PROVE LockInv'
  <2>1. /\ UNCHANGED <<backend, pc, lease, term, faults>> /\ term[c] = 0 /\ c \in armed
        /\ armed' = armed \ {c} /\ holder' = IF holder = c THEN NoOne ELSE holder
    BY <1>8 DEF TimerFires
  <2>2. backend = "memory"
    BY <1>0, <2>1 DEF LockInv, BackendIsUsed
  <2>3. LeaseIsHonoured'
    BY <1>0, <2>1 DEF LockInv, LeaseIsHonoured
  <2>4. LeaseIsTerm' /\ TimerIsRunning'
    BY <1>0, <2>1, <2>2 DEF LockInv, LeaseIsTerm, TimerIsRunning
  <2>5. BackendIsUsed' /\ OwnerIsInside'
    BY <1>0, <2>1, <2>2 DEF LockInv, BackendIsUsed, OwnerIsInside
  <2> QED BY <2>3, <2>4, <2>5 DEF LockInv
<1>9. ASSUME NEW c \in Caller, NEW ticks \in TtlOptions, Extend(c, ticks) PROVE LockInv'
  <2>1. /\ UNCHANGED <<backend, pc, armed, faults>> /\ holder = c /\ lease' = ticks
        /\ term' = [term EXCEPT ![c] = ticks] /\ ticks \in Nat
        /\ holder' = IF ticks = 0 THEN NoOne ELSE c
    BY <1>9 DEF Extend
  <2>2. LeaseIsHonoured'
    BY <1>0, <2>1 DEF LockInv, LeaseIsHonoured
  <2>3. backend = "redis"
    BY <1>9 DEF Extend
  <2>4. LeaseIsTerm' /\ TimerIsRunning'
    BY <1>0, <2>1, <2>3 DEF LeaseIsTerm, TimerIsRunning
  <2>5. BackendIsUsed' /\ OwnerIsInside'
    BY <1>0, <2>1 DEF LockInv, BackendIsUsed, OwnerIsInside
  <2> QED BY <2>2, <2>4, <2>5 DEF LockInv
<1>10. CASE UNCHANGED vars
  BY <1>10 DEF vars, LockInv, LeaseIsHonoured, LeaseIsTerm, TimerIsRunning, BackendIsUsed,
               OwnerIsInside
<1> QED BY <1>1, <1>2, <1>3, <1>4, <1>5, <1>6, <1>7, <1>8, <1>9, <1>10
        DEF Next, Step, Progress

LEMMA LockInvariant == Spec => []LockInv
<1>1. Init => LockInv
  BY LockAssumption DEF Init, LockInv, LeaseIsHonoured, LeaseIsTerm, TimerIsRunning,
                        BackendIsUsed, OwnerIsInside, Inside
<1> QED BY <1>1, LockTyping, LockStep, PTL DEF Spec

\* Nobody takes the lock away from a caller that is within its ttl.
THEOREM LeasesAreHonoured == Spec => []LeaseIsHonoured
<1>1. LockInv => LeaseIsHonoured
  BY DEF LockInv
<1> QED BY <1>1, LockInvariant, PTL

\* Two callers are inside together only when one of them has overrun its ttl.
THEOREM LockExcludes == Spec => []MutualExclusion
<1>1. TypeOK /\ LockInv => MutualExclusion
  BY DEF TypeOK, LockInv, LeaseIsHonoured, MutualExclusion
<1> QED BY <1>1, LockTyping, LockInvariant, PTL

\* A lock left behind by an ended call is the mark of a fault.
THEOREM NothingStays == Spec => []NothingIsLeftBehind
<1>1. TypeOK /\ LockInv => NothingIsLeftBehind
  BY LockAssumption DEF TypeOK, LockInv, OwnerIsInside, NothingIsLeftBehind, Inside, Ended
<1> QED BY <1>1, LockTyping, LockInvariant, PTL
=============================================================================
