---------------------------- MODULE RateLimiters ----------------------------
(***************************************************************************)
(* The rate limiters of the validation package, five algorithms over a     *)
(* store, and the one of the upload package, for one client key.  Times    *)
(* are kept as ages in ticks; levels of buckets are multiplied by Window,  *)
(* so that a request costs Window and a tick is worth Limit.               *)
(***************************************************************************)
EXTENDS Integers, Sequences, FiniteSets

CONSTANTS
    Call,       \* callers, each with one request at a time
    Limit,      \* maxRequests, or the capacity of a bucket
    Window,     \* windowMs, in ticks
    Second,     \* ticks to a second
    Limiters,   \* BOUND: the pairs <<algorithm, backing>> that are explored
    MaxDelay,   \* BOUND on the ticks that a request takes
    MaxFaults,  \* BOUND on the faults in one behaviour
    None        \* nothing stored

Algorithm == {"token", "leaking", "fixed", "log", "counter", "upload"}

\* A bucket older than Oldest has refilled, or drained.
Oldest == Window + MaxDelay + 1

\* What an algorithm keeps: a level and its date, a count and its window, the dates of a log.
StateOf(a) ==
    CASE a \in {"token", "leaking"} -> [level : Int, age : 0..Oldest]
      [] a = "upload" -> [level : Int, age : (0..Oldest) \cup {None}]
      [] a = "fixed" -> [count : 0..Limit, window : 0..3]
      [] a = "counter" -> [prev : 0..Limit, curr : 0..Limit, window : 0..3]
      [] OTHER -> {log \in Seq(0..Oldest) : Len(log) <= Limit}

ASSUME LimiterAssumption ==
    /\ Limit \in Nat \ {0} /\ Window \in Nat \ {0} /\ Second \in Nat \ {0}
    /\ Limiters \subseteq Algorithm \X {"redis", "memory"}
    /\ MaxDelay \in 0..(Window - 1)
    /\ MaxFaults \in Nat
    /\ None \notin Nat /\ \A a \in Algorithm : None \notin StateOf(a)

VARIABLES
    algorithm,  \* which limiter runs
    backing,    \* and where it keeps its state
    phase,      \* the time, as ticks since the aligned window began
    entry,      \* entry[s]: the state in store s: "main" or "fallback"
    ttl,        \* ttl[s]: the ticks until it expires
    request,    \* request[c]: c's request and what it has read
    admitted,   \* admitted[n]: requests that were alone, admitted, and date from the last n ticks
    promise,    \* ticks until a rejected client may retry (None: no promise)
    faults      \* the number of faults so far

settings == <<algorithm, backing>>
vars == <<algorithm, backing, phase, entry, ttl, request, admitted, promise, faults>>

Store == {"main", "fallback"}
Lower(m, n) == IF m < n THEN m ELSE n
Higher(m, n) == IF m < n THEN n ELSE m
CeilDiv(m, n) == (m + n - 1) \div n

Seconds(ticks) == Second * CeilDiv(ticks, Second)
\* MUTANT of Ttl: one window only.
TtlOfOneWindow == Seconds(Window)
Ttl == 2 * Seconds(Window)
Full == Limit * Window

-----------------------------------------------------------------------------
(* The algorithms: what one makes of what it has read, for a request that  *)
(* dates from late ticks ago.                                              *)

\* How many windows ago the request's window began, and how far it was into it.
WindowOf(late) == IF late > phase THEN 1 ELSE 0
Into(late) == (phase - late) % Window

Result(room, before, after, wait) ==
    [allowed |-> room, state |-> IF room THEN after ELSE before,
     wait |-> IF room THEN 0 ELSE Seconds(wait)]

TokenBucket(seen, late) ==
    LET level == IF seen = None THEN Full ELSE Lower(Full, seen.level + Limit * (seen.age - late))
        With(l) == [level |-> l, age |-> late]
    IN  Result(level >= Window, With(level), With(level - Window), CeilDiv(Window, Limit))

LeakingBucket(seen, late) ==
    LET level == IF seen = None THEN 0 ELSE Higher(0, seen.level - Limit * (seen.age - late))
        With(l) == [level |-> l, age |-> late]
    IN  Result(CeilDiv(level, Window) < Limit, With(level), With(level + Window),
               CeilDiv(level, Limit))

\* MUTANT of FixedWindow: the time to wait is counted from the window's start.
FixedWindowFromItsStart(seen, late) ==
    LET count == IF seen # None /\ seen.window = WindowOf(late) THEN seen.count ELSE 0
        With(n) == [count |-> n, window |-> WindowOf(late)]
    IN  Result(count < Limit, With(count), With(count + 1), Into(late))

FixedWindow(seen, late) ==
    LET count == IF seen # None /\ seen.window = WindowOf(late) THEN seen.count ELSE 0
        With(n) == [count |-> n, window |-> WindowOf(late)]
    IN  Result(count < Limit, With(count), With(count + 1), Window - Into(late))

\* The entries of a log that are younger than the window, in their order.
Active(log, late) ==
    LET kept[i \in 0..Len(log)] ==
            IF i = 0 THEN <<>>
            ELSE IF log[i] - late < Window THEN Append(kept[i - 1], log[i]) ELSE kept[i - 1]
    IN  kept[Len(log)]

\* MUTANT of SlidingLog: <= for <.
SlidingLogOneTooMany(seen, late) ==
    LET active == IF seen = None THEN <<>> ELSE Active(seen, late)
    IN  Result(Len(active) <= Limit, active, Append(active, late), 0)

SlidingLog(seen, late) ==
    LET active == IF seen = None THEN <<>> ELSE Active(seen, late)
    IN  Result(Len(active) < Limit, active, Append(active, late),
               IF active = <<>> THEN 0 ELSE Window - (Head(active) - late))

SlidingCounter(seen, late) ==
    LET window == WindowOf(late)
        s == IF seen = None THEN [prev |-> 0, curr |-> 0, window |-> window]
             ELSE IF seen.window = window THEN seen
             ELSE [prev |-> IF seen.window - window = 1 THEN seen.curr ELSE 0,
                   curr |-> 0, window |-> window]
        estimated == s.prev * (Window - Into(late)) + s.curr * Window
    IN  Result(estimated < Limit * Window, s, [s EXCEPT !.curr = @ + 1], Window - Into(late))

\* The limiter of the upload package refills from a time that may be missing, and says
\* nothing about when to retry.
UploadBucket(seen, late) ==
    TokenBucket(IF seen = None \/ seen.age # None THEN seen ELSE [seen EXCEPT !.age = late], late)

\* createAlgorithm.
Consume(seen, late) ==
    CASE algorithm = "token" -> TokenBucket(seen, late)
      [] algorithm = "leaking" -> LeakingBucket(seen, late)
      [] algorithm = "fixed" -> FixedWindow(seen, late)
      [] algorithm = "log" -> SlidingLog(seen, late)
      [] algorithm = "counter" -> SlidingCounter(seen, late)
      [] OTHER -> UploadBucket(seen, late)

-----------------------------------------------------------------------------
Idle == [at |-> "idle", late |-> 0, seen |-> None, alone |-> FALSE]

NoneAdmitted == [n \in 0..(2 * Window) |-> 0]

Init ==
    /\ \E l \in Limiters : algorithm = l[1] /\ backing = l[2]
    /\ phase = 0
    /\ entry = [s \in Store |-> None]
    /\ ttl = [s \in Store |-> 0]
    /\ request = [c \in Call |-> Idle]
    /\ admitted = NoneAdmitted
    /\ promise = None
    /\ faults = 0

InFlight == {c \in Call : request[c].at # "idle"}

Put(s, state, left) ==
    /\ entry' = [entry EXCEPT ![s] = state]
    /\ ttl' = [ttl EXCEPT ![s] = left]

\* A fault; nothing is expected of what was admitted or promised before it.
Disturbed ==
    /\ faults < MaxFaults
    /\ faults' = faults + 1
    /\ admitted' = NoneAdmitted
    /\ promise' = None

\* A request reaches canActivate, or the upload service: from now on none in flight is
\* alone, and a promise to retry later is void.  In the upload limiter, whose level and time
\* are written one after the other, a request that overlaps may find a new level with an old
\* time and refill the bucket twice: nothing is expected of what was admitted before.
Start(c) ==
    /\ request[c].at = "idle"
    /\ request' = [d \in Call |->
          IF d = c THEN [Idle EXCEPT !.at = "get", !.alone = InFlight = {}]
          ELSE [request[d] EXCEPT !.alone = FALSE]]
    /\ promise' = None
    /\ admitted' = IF InFlight # {} /\ algorithm = "upload" /\ backing = "redis"
                   THEN NoneAdmitted ELSE admitted
    /\ UNCHANGED <<settings, phase, entry, ttl, faults>>

\* Get from store s; the token bucket dates its requests only now.
Get(c, s) ==
    /\ request[c].at = "get"
    /\ request' = [request EXCEPT ![c] =
          [request[c] EXCEPT !.at = "set", !.seen = entry[s],
                             !.late = IF algorithm = "token" THEN 0 ELSE request[c].late]]
    /\ UNCHANGED <<settings, phase, entry, ttl>>

\* In memory get returns the object itself, and three of the algorithms write into it:
\* every request that holds it sees that.
Finished(c, state) ==
    [d \in Call |->
        IF d = c THEN Idle
        ELSE IF /\ backing = "memory" /\ algorithm \in {"leaking", "fixed", "counter"}
                /\ request[c].seen # None /\ request[d].seen # None
             THEN [request[d] EXCEPT !.seen = state]
             ELSE request[d]]

\* c is counted by its own date.
Counted(c) == [n \in DOMAIN admitted |-> admitted[n] + (IF n > request[c].late THEN 1 ELSE 0)]

\* The answer to c: a request that was alone is counted, or promised a better time.
Answer(c, result) ==
    /\ admitted' = IF result.allowed /\ request[c].alone
                   THEN Counted(c) ELSE admitted
    /\ promise' = IF ~result.allowed /\ request[c].alone /\ algorithm # "upload"
                  THEN Higher(0, result.wait - request[c].late) ELSE None

\* Set to store s and the answer; canActivate throws 429 when the request is not allowed.
Set(c, s) ==
    LET result == Consume(request[c].seen, request[c].late)
    IN  /\ request[c].at = "set" /\ algorithm # "upload"
        /\ Put(s, result.state, Ttl)
        /\ request' = Finished(c, result.state)

ReadMain(c) == Get(c, "main") /\ UNCHANGED <<admitted, promise, faults>>

WriteMain(c) ==
    /\ Set(c, "main")
    /\ Answer(c, Consume(request[c].seen, request[c].late))
    /\ UNCHANGED <<settings, phase, faults>>

\* RedisStore: a failing GET or SET goes to the memory of this process.
ReadFallback(c) == backing = "redis" /\ algorithm # "upload" /\ Get(c, "fallback") /\ Disturbed

WriteFallback(c) == backing = "redis" /\ Set(c, "fallback") /\ Disturbed /\ UNCHANGED <<settings, phase>>

\* The upload limiter writes the level, then the time, and only for what it allows; in
\* memory it reads and writes in one go.
UploadLevel(c) ==
    LET result == UploadBucket(request[c].seen, request[c].late)
    IN  /\ algorithm = "upload" /\ request[c].at = "set" /\ backing = "redis"
        /\ IF result.allowed
           THEN /\ Put("main", [level |-> result.state.level,
                                age |-> IF entry["main"] = None THEN None ELSE entry["main"].age], Ttl)
                /\ request' = [request EXCEPT ![c].at = "time"]
                /\ UNCHANGED <<admitted, promise>>
           ELSE /\ request' = [request EXCEPT ![c] = Idle]
                /\ Answer(c, result)
                /\ UNCHANGED <<entry, ttl>>
        /\ UNCHANGED <<settings, phase, faults>>

UploadTime(c) ==
    /\ request[c].at = "time"
    /\ Put("main", [entry["main"] EXCEPT !.age = request[c].late], Ttl)
    /\ request' = [request EXCEPT ![c] = Idle]
    /\ Answer(c, [allowed |-> TRUE, wait |-> 0])
    /\ UNCHANGED <<settings, phase, faults>>

UploadMemory(c, s) ==
    LET result == UploadBucket(entry[s], request[c].late)
    IN  /\ algorithm = "upload" /\ request[c].at # "idle"
        /\ IF result.allowed THEN Put(s, result.state, Ttl) ELSE UNCHANGED <<entry, ttl>>
        /\ request' = [request EXCEPT ![c] = Idle]
        /\ UNCHANGED <<settings, phase>>

UploadInMemory(c) ==
    /\ backing = "memory"
    /\ UploadMemory(c, "main")
    /\ Answer(c, UploadBucket(entry["main"], request[c].late))
    /\ UNCHANGED faults

UploadFallback(c) == backing = "redis" /\ UploadMemory(c, "fallback") /\ Disturbed

-----------------------------------------------------------------------------
\* reset: delete the key, in the fallback store if Redis fails; clear: the memory only.
Reset ==
    /\ algorithm # "upload"
    /\ \E s \in Store : entry[s] # None /\ Put(s, None, 0)
    /\ Disturbed
    /\ UNCHANGED <<settings, phase, request>>

\* The process starts again: what was in its memory is lost.
Restart ==
    /\ Disturbed
    /\ entry' = [s \in Store |-> IF s = "main" /\ backing = "redis" THEN entry[s] ELSE None]
    /\ ttl' = [s \in Store |-> IF s = "main" /\ backing = "redis" THEN ttl[s] ELSE 0]
    /\ request' = [c \in Call |-> Idle]
    /\ UNCHANGED <<settings, phase>>

\* A stored state one tick later.
Aged(state) ==
    LET window == IF phase = Window - 1 THEN 1 ELSE 0
        Older(w) == Lower(3, w + window)
    IN  IF state = None THEN None
        ELSE CASE algorithm \in {"token", "leaking"} -> [state EXCEPT !.age = Lower(Oldest, @ + 1)]
               [] algorithm = "upload" ->
                     [state EXCEPT !.age = IF @ = None THEN None ELSE Lower(Oldest, @ + 1)]
               [] algorithm = "log" -> [i \in DOMAIN state |-> Lower(Oldest, state[i] + 1)]
               [] OTHER -> [state EXCEPT !.window = Older(@)]

\* An hour, the ttl of the upload limiter, does not pass.
Expires(s) == algorithm # "upload" /\ entry[s] # None /\ ttl[s] = 1

\* In memory requests are done before the clock moves.
Tick ==
    /\ \A c \in InFlight : backing = "redis" /\ request[c].late < MaxDelay
    /\ phase' = (phase + 1) % Window
    /\ entry' = [s \in Store |-> IF Expires(s) THEN None ELSE Aged(entry[s])]
    /\ ttl' = [s \in Store |-> IF algorithm = "upload" THEN ttl[s] ELSE Higher(0, ttl[s] - 1)]
    /\ request' = [c \in Call |->
          IF c \in InFlight THEN [request[c] EXCEPT !.late = @ + 1, !.seen = Aged(@)] ELSE request[c]]
    /\ admitted' = [n \in DOMAIN admitted |->
          IF n = 0 THEN 0 ELSE admitted[(IF algorithm = "counter" THEN n ELSE Lower(n, Window)) - 1]]
    /\ promise' = IF promise = None THEN None ELSE Higher(0, promise - 1)
    /\ UNCHANGED <<settings, faults>>

Consumes(c) ==
    \/ Start(c)
    \/ ReadMain(c) /\ ~(algorithm = "upload" /\ backing = "memory")
    \/ WriteMain(c)
    \/ ReadFallback(c)
    \/ WriteFallback(c)
    \/ UploadLevel(c)
    \/ UploadTime(c)
    \/ UploadInMemory(c)
    \/ UploadFallback(c)

Next == (\E c \in Call : Consumes(c)) \/ Reset \/ Restart \/ Tick

Spec == Init /\ [][Next]_vars
=============================================================================
