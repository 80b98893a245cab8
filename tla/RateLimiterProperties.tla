----------------------- MODULE RateLimiterProperties -----------------------
(* What the rate limiters promise. *)
EXTENDS RateLimiters

\* Every store holds a state of the algorithm's form within its limit (every algorithm's consume).
TypeOK ==
    /\ <<algorithm, backing>> \in Limiters
    /\ phase \in 0..(Window - 1)
    /\ entry \in [Store -> StateOf(algorithm) \cup {None}] /\ ttl \in [Store -> 0..Ttl]
    /\ request \in [Call -> [at : {"idle", "get", "set", "time"}, late : 0..MaxDelay,
                            seen : StateOf(algorithm) \cup {None}, alone : BOOLEAN]]
    /\ admitted \in [0..(2 * Window) -> Nat]
    /\ promise \in Nat \cup {None}
    /\ faults \in 0..MaxFaults

\* Requests that were alone and date from the aligned window, and from the one before.
ThisWindow == admitted[phase + 1]
LastWindow == admitted[phase + 1 + Window] - ThisWindow

\* Of the requests that overlapped no other, and since the last fault, no more are admitted
\* than the algorithm says: in any rolling window (log), per aligned window (fixed and counter),
\* by the weighted estimate (counter; in Redis a request of the previous window may come last
\* and forget it), and as a burst plus what has been refilled since (buckets; the one of the
\* upload package in Redis, since requests last overlapped).
LoneWithinLimit ==
    CASE algorithm = "log" -> admitted[Window] <= Limit
      [] algorithm = "fixed" -> ThisWindow <= Limit
      [] algorithm = "counter" ->
            /\ ThisWindow <= Limit
            /\ backing = "memory" =>
                  LastWindow * (Window - phase) + ThisWindow * Window < (Limit + 1) * Window
      [] OTHER -> \A n \in 0..(Window - 1) : admitted[n + 1] * Window <= Full + n * Limit

\* Whoever was rejected and waits as long as Retry-After says is admitted, if nobody else
\* asked meanwhile (retryAfterSeconds of every algorithm but the sliding window counter).
RetryAfterIsEnough ==
    (promise = 0 /\ InFlight = {} /\ algorithm # "counter") => Consume(entry["main"], 0).allowed

-----------------------------------------------------------------------------
(* Why they hold: the inductive invariant *)

\* A request that is alone is the only one.  While one is in flight no later one is counted,
\* and no promise is made; the upload limiter in Redis forgets what it counted when they overlap.
FlightsAreCounted ==
    /\ \A c \in InFlight :
          /\ request[c].alone => InFlight = {c}
          /\ admitted[request[c].late] = 0
          /\ promise = None
          /\ algorithm = "upload" /\ backing = "redis" /\ ~request[c].alone => admitted = NoneAdmitted
          /\ request[c].at = "time" =>
                algorithm = "upload" /\ backing = "redis" /\ entry["main"] # None
    /\ \A c \in Call : backing = "memory" => request[c].late = 0

\* What dates from the last n ticks dates from the last n + 1; an entry outlives what it
\* has counted.
CountsAreKept ==
    /\ admitted[0] = 0
    /\ \A m, n \in DOMAIN admitted : m <= n => admitted[m] <= admitted[n]
    /\ \A n \in DOMAIN admitted : n <= Ttl - ttl["main"] => admitted[n] = 0
    /\ entry["main"] = None => ttl["main"] = 0

\* Levels: a bucket holds no less than nothing; a leaking one no more than its capacity and
\* what has leaked since its date.  The token bucket dates a request when it reads, so that
\* it has read nothing newer.
LevelIsSound(a, st) ==
    st # None =>
        /\ a \in {"token", "leaking", "upload"} => st.level >= 0
        /\ a = "leaking" => st.level <= Full + Limit * Lower(st.age, MaxDelay)

LevelsAreSound ==
    /\ \A s \in Store : LevelIsSound(algorithm, entry[s])
    /\ \A c \in Call : LevelIsSound(algorithm, request[c].seen)
    /\ \A c \in Call : algorithm = "token" /\ request[c].at = "set" /\ request[c].seen # None
                        => request[c].late <= request[c].seen.age

\* What a bucket had room for t ticks ago.
Room(a, st, t) ==
    IF st = None THEN Full
    ELSE IF a = "leaking" THEN Full - Higher(0, st.level - Limit * (st.age - t))
    ELSE IF a = "upload" /\ st.age = None THEN Lower(Full, st.level)
    ELSE Lower(Full, st.level + Limit * (st.age - t))

\* What a state has room for at a time, and what was counted since, are within burst and refill.
BucketCovers(a, st, counts) ==
    \A t, n \in 0..(Window - 1) :
        t <= n => Room(a, st, t) + Window * (counts[n + 1] - counts[t]) <= Full + (n - t) * Limit

Younger(st, n) == {i \in DOMAIN st : st[i] < n}
LogCovers(st, counts) ==
    \A n \in 0..Window : counts[n] <= IF st = None THEN 0 ELSE Cardinality(Younger(st, n))

FixedCovers(st, counts, at) ==
    counts[at + 1] <= IF st # None /\ st.window = 0 THEN st.count ELSE 0

CounterCovers(b, st, counts, at) ==
    /\ counts[at + 1] <= IF st # None /\ st.window = 0 THEN st.curr ELSE 0
    /\ b = "memory" =>
          /\ counts[at + 1 + Window] - counts[at + 1] <=
                IF st = None THEN 0
                ELSE IF st.window = 0 THEN st.prev
                ELSE IF st.window = 1 THEN st.curr ELSE 0
          /\ st # None /\ st.window = 0 =>
                st.prev * (Window - at) + st.curr * Window < (Limit + 1) * Window

\* A state knows of all that was counted.
Covers(a, b, st, counts, at) ==
    CASE a = "log" -> LogCovers(st, counts)
      [] a = "fixed" -> FixedCovers(st, counts, at)
      [] a = "counter" -> CounterCovers(b, st, counts, at)
      [] OTHER -> BucketCovers(a, st, counts)

\* Every state that a request has read covers what was counted, and so does what is stored,
\* but for the upload limiter between its two writes.
StatesCover ==
    /\ \A c \in Call :
          request[c].at = "set" => Covers(algorithm, backing, request[c].seen, admitted, phase)
    /\ (\A c \in Call : request[c].at # "time") =>
          Covers(algorithm, backing, entry["main"], admitted, phase)
    /\ \A c \in Call : request[c].at = "time" /\ request[c].alone =>
          BucketCovers("upload", [level |-> entry["main"].level, age |-> request[c].late], Counted(c))

\* After so many ticks a request will find room.
Grants(a, st, wait, at) ==
    st # None =>
        CASE a = "token" -> st.level + Limit * (st.age + wait) >= Window
          [] a = "leaking" -> st.level <= Limit * (st.age + wait)
          [] a = "fixed" -> st.window > 0 \/ at + wait >= Window
          [] a = "log" -> st # <<>> => st[1] + wait >= Window
          [] OTHER -> TRUE

PromisesAreKept ==
    promise # None => algorithm # "upload" /\ Grants(algorithm, entry["main"], promise, phase)

LimiterInv ==
    /\ TypeOK /\ FlightsAreCounted /\ CountsAreKept /\ LevelsAreSound
    /\ StatesCover /\ PromisesAreKept
=============================================================================
