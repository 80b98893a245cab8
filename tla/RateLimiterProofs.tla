------------------------- MODULE RateLimiterProofs -------------------------
(***************************************************************************)
(* That the rate limiters keep their limits and their word, for any limit, *)
(* any window, any number of callers and any delay of their requests.  The *)
(* six algorithms are treated one by one, as functions on states; then the *)
(* steps of the store are treated for all of them together.                *)
(***************************************************************************)
EXTENDS RateLimiterProperties, FiniteSetTheorems, SequenceTheorems, WellFoundedInduction, TLAPS

-----------------------------------------------------------------------------
(* Numbers *)

LEMMA Products ==
    ASSUME NEW a \in Nat, NEW b \in Nat
    PROVE  a * b \in Nat
OBVIOUS

LEMMA ProductsGrow ==
    ASSUME NEW a \in Int, NEW b \in Int, NEW c \in Nat, a <= b
    PROVE  a * c \in Int /\ b * c \in Int /\ a * c <= b * c
<1>1. b - a \in Nat
  OBVIOUS
<1>2. (b - a) * c \in Nat
  BY <1>1, Products
<1>3. (b - a) * c = b * c - a * c
  OBVIOUS
<1> QED BY <1>2, <1>3

LEMMA DivFacts ==
    ASSUME NEW m \in Int, NEW n \in Nat \ {0}
    PROVE  /\ m \div n \in Int
           /\ n * (m \div n) <= m
           /\ m < n * (m \div n) + n
OBVIOUS

LEMMA CeilDivFacts ==
    ASSUME NEW m \in Int, NEW n \in Nat \ {0}
    PROVE  /\ CeilDiv(m, n) \in Int
           /\ m <= n * CeilDiv(m, n)
           /\ n * CeilDiv(m, n) < m + n
<1>1. m + n - 1 \in Int
  OBVIOUS
<1>2. /\ CeilDiv(m, n) \in Int
      /\ n * CeilDiv(m, n) <= m + n - 1
      /\ m + n - 1 < n * CeilDiv(m, n) + n
  BY <1>1, DivFacts DEF CeilDiv
<1> QED BY <1>2

\* The sizes that the constants give.
LEMMA Sizes ==
    /\ Limit \in Nat /\ Limit >= 1 /\ Window \in Nat /\ Window >= 1
    /\ MaxDelay \in Nat /\ MaxDelay < Window
    /\ Oldest \in Nat /\ Oldest = Window + MaxDelay + 1
    /\ Full \in Nat /\ Full >= Window /\ Full >= Limit
    /\ Full = Limit * Window
<1>1. Limit \in Nat /\ Limit >= 1 /\ Window \in Nat /\ Window >= 1
      /\ MaxDelay \in Nat /\ MaxDelay < Window
  BY LimiterAssumption
<1>2. 1 * Window <= Limit * Window /\ 1 * Limit <= Window * Limit
  BY <1>1, ProductsGrow
<1> QED BY <1>1, <1>2 DEF Oldest, Full

LEMMA SecondsFacts ==
    ASSUME NEW n \in Int
    PROVE  Seconds(n) \in Int /\ n <= Seconds(n)
BY CeilDivFacts, LimiterAssumption DEF Seconds

LEMMA TtlFacts == Ttl \in Nat /\ Ttl >= 2 * Window
BY SecondsFacts, Sizes DEF Ttl

\* The delays of requests.
LEMMA Delays == 0..MaxDelay \subseteq 0..(Window - 1) /\ 0..MaxDelay \subseteq 0..Oldest
BY Sizes

-----------------------------------------------------------------------------
(* Buckets *)

\* A bucket that is filled from l at the rate of Limit, read at one date and written at another.
LEMMA Refills ==
    ASSUME NEW l \in Int, NEW age \in Int, NEW late \in Int, NEW left \in Int,
           left <= Lower(Full, l + Limit * (age - late)), NEW t \in Int
    PROVE  /\ Lower(Full, l + Limit * (age - t)) \in Int
           /\ Lower(Full, l + Limit * (age - t)) <= Full
           /\ t >= late => Lower(Full, left + Limit * (late - t)) <= Lower(Full, l + Limit * (age - t))
           /\ t <= late => Lower(Full, left + Limit * (late - t)) <= Lower(Full, left) + Limit * (late - t)
<1>1. Limit \in Nat /\ Full \in Nat
  BY Sizes
<1>2. /\ Limit * (age - t) \in Int /\ Limit * (late - t) \in Int /\ Limit * (age - late) \in Int
      /\ Limit * (age - t) = Limit * (age - late) + Limit * (late - t)
  BY <1>1
<1>3. t >= late => Limit * (late - t) <= 0
  <2>1. t >= late => (late - t) * Limit <= 0 * Limit
    BY <1>1, ProductsGrow
  <2> QED BY <1>1, <2>1
<1>4. t <= late => Limit * (late - t) >= 0
  <2>1. t <= late => 0 * Limit <= (late - t) * Limit
    BY <1>1, ProductsGrow
  <2> QED BY <1>1, <2>1
<1> DEFINE p == Limit * (age - t)  q == Limit * (late - t)  r == Limit * (age - late)
<1>5. p \in Int /\ q \in Int /\ r \in Int /\ p = r + q /\ (t >= late => q <= 0) /\ (t <= late => q >= 0)
  BY <1>2, <1>3, <1>4
<1> HIDE DEF p, q, r
<1>6. /\ Lower(Full, l + p) \in Int
      /\ Lower(Full, l + p) <= Full
      /\ left <= Lower(Full, l + r) /\ t >= late => Lower(Full, left + q) <= Lower(Full, l + p)
      /\ t <= late => Lower(Full, left + q) <= Lower(Full, left) + q
  BY <1>1, <1>5 DEF Lower
<1> QED BY <1>6 DEF p, q, r

\* The same of a bucket that leaks.
LEMMA Leaks ==
    ASSUME NEW l \in Int, NEW age \in Int, NEW late \in Int, NEW level \in Int,
           level >= Higher(0, l - Limit * (age - late)), NEW t \in Int
    PROVE  /\ Full - Higher(0, l - Limit * (age - t)) \in Int
           /\ Full - Higher(0, l - Limit * (age - t)) <= Full
           /\ t >= late => Full - Higher(0, level - Limit * (late - t))
                              <= Full - Higher(0, l - Limit * (age - t))
           /\ t <= late => Full - Higher(0, level - Limit * (late - t))
                              <= Full - Higher(0, level) + Limit * (late - t)
<1>1. Limit \in Nat /\ Full \in Nat
  BY Sizes
<1>2. /\ Limit * (age - t) \in Int /\ Limit * (late - t) \in Int /\ Limit * (age - late) \in Int
      /\ Limit * (age - t) = Limit * (age - late) + Limit * (late - t)
  BY <1>1
<1>3. t >= late => Limit * (late - t) <= 0
  <2>1. t >= late => (late - t) * Limit <= 0 * Limit
    BY <1>1, ProductsGrow
  <2> QED BY <1>1, <2>1
<1>4. t <= late => Limit * (late - t) >= 0
  <2>1. t <= late => 0 * Limit <= (late - t) * Limit
    BY <1>1, ProductsGrow
  <2> QED BY <1>1, <2>1
<1> DEFINE p == Limit * (age - t)  q == Limit * (late - t)  r == Limit * (age - late)
<1>5. p \in Int /\ q \in Int /\ r \in Int /\ p = r + q /\ (t >= late => q <= 0) /\ (t <= late => q >= 0)
  BY <1>2, <1>3, <1>4
<1> HIDE DEF p, q, r
<1>6. /\ Full - Higher(0, l - p) \in Int
      /\ Full - Higher(0, l - p) <= Full
      /\ level >= Higher(0, l - r) /\ t >= late
            => Full - Higher(0, level - q) <= Full - Higher(0, l - p)
      /\ t <= late => Full - Higher(0, level - q) <= Full - Higher(0, level) + q
  BY <1>1, <1>5 DEF Higher
<1> QED BY <1>6 DEF p, q, r

\* A token bucket, also the one of the upload package, takes Window for a request.
LEMMA TokenBucketFacts ==
    ASSUME NEW seen, NEW late \in 0..MaxDelay,
           seen # None => seen.level \in Int /\ seen.age \in Int,
           NEW before,
           before = IF seen = None THEN Full
                    ELSE Lower(Full, seen.level + Limit * (seen.age - late)),
           NEW r, r = TokenBucket(seen, late)
    PROVE  /\ before \in Int /\ before <= Full
           /\ r.allowed \in BOOLEAN /\ (r.allowed <=> before >= Window)
           /\ r.state = [level |-> IF r.allowed THEN before - Window ELSE before, age |-> late]
           /\ r.wait \in Int
           /\ ~r.allowed => r.wait = Seconds(CeilDiv(Window, Limit))
<1>1. before \in Int /\ before <= Full
  BY Sizes DEF Lower
<1>2. Seconds(CeilDiv(Window, Limit)) \in Int
  BY SecondsFacts, CeilDivFacts, Sizes
<1>3. r = [allowed |-> before >= Window,
           state |-> [level |-> IF before >= Window THEN before - Window ELSE before, age |-> late],
           wait |-> IF before >= Window THEN 0 ELSE Seconds(CeilDiv(Window, Limit))]
  BY DEF TokenBucket, Result
<1>4. r.allowed = (before >= Window)
  BY <1>3
<1>5. /\ r.state = [level |-> IF before >= Window THEN before - Window ELSE before, age |-> late]
      /\ r.wait = IF before >= Window THEN 0 ELSE Seconds(CeilDiv(Window, Limit))
  BY <1>3
<1>6. r.allowed \in BOOLEAN /\ (r.allowed <=> before >= Window)
  <2>1. r.allowed \in BOOLEAN
    BY <1>1, <1>4
  <2>2. ASSUME before >= Window PROVE r.allowed
    BY <1>1, <1>4, <2>2, Sizes
  <2>3. ASSUME ~(before >= Window) PROVE ~r.allowed
    BY <1>1, <1>4, <2>3, Sizes
  <2> QED BY <2>1, <2>2, <2>3
<1> QED BY <1>1, <1>2, <1>4, <1>5, <1>6

LEMMA LeakingBucketFacts ==
    ASSUME NEW seen, NEW late \in 0..MaxDelay,
           seen # None => seen.level \in Int /\ seen.age \in Int,
           NEW before,
           before = IF seen = None THEN 0
                    ELSE Higher(0, seen.level - Limit * (seen.age - late)),
           NEW r, r = LeakingBucket(seen, late)
    PROVE  /\ before \in Nat
           /\ r.allowed \in BOOLEAN
           /\ r.allowed => before + Window <= Full
           /\ before = 0 => r.allowed
           /\ r.state = [level |-> IF r.allowed THEN before + Window ELSE before, age |-> late]
           /\ r.wait \in Int
           /\ ~r.allowed => r.wait = Seconds(CeilDiv(before, Limit))
<1> DEFINE c == CeilDiv(before, Window)
<1>1. before \in Nat
  BY Sizes DEF Higher
<1>2. Seconds(CeilDiv(before, Limit)) \in Int
  <2>1. before \in Int /\ Limit \in Nat \ {0}
    BY <1>1, LimiterAssumption
  <2>2. CeilDiv(before, Limit) \in Int
    BY <2>1, CeilDivFacts
  <2> QED BY <2>2, SecondsFacts
<1>3. r = [allowed |-> c < Limit,
           state |-> [level |-> IF c < Limit THEN before + Window ELSE before, age |-> late],
           wait |-> IF c < Limit THEN 0 ELSE Seconds(CeilDiv(before, Limit))]
  BY DEF LeakingBucket, Result
<1>7. r.allowed = (c < Limit)
  BY <1>3
<1>8. /\ r.state = [level |-> IF c < Limit THEN before + Window ELSE before, age |-> late]
      /\ r.wait = IF c < Limit THEN 0 ELSE Seconds(CeilDiv(before, Limit))
  BY <1>3
<1>4. c \in Int /\ before <= Window * c /\ Window * c < before + Window
  BY <1>1, CeilDivFacts, Sizes
<1> HIDE DEF c
<1>5. ASSUME c < Limit PROVE before + Window <= Full
  <2>1. (c + 1) * Window <= Limit * Window
    BY <1>4, <1>5, Sizes, ProductsGrow
  <2>2. (c + 1) * Window = Window * c + Window
    BY <1>4, Sizes
  <2> QED BY <1>1, <1>4, <2>1, <2>2, Sizes
<1>6. ASSUME before = 0 PROVE c < Limit
  <2>1. CASE c >= 1
    <3>1. 1 * Window <= c * Window
      BY <1>4, <2>1, Sizes, ProductsGrow
    <3>2. c * Window = Window * c
      BY <1>4, Sizes
    <3> QED BY <1>4, <1>6, <3>1, <3>2, Sizes
  <2> QED BY <1>4, <2>1, Sizes
<1>9. r.allowed \in BOOLEAN /\ (r.allowed <=> c < Limit)
  <2>1. r.allowed \in BOOLEAN
    BY <1>4, <1>7
  <2>2. ASSUME c < Limit PROVE r.allowed
    BY <1>4, <1>7, <2>2, Sizes
  <2>3. ASSUME ~(c < Limit) PROVE ~r.allowed
    BY <1>4, <1>7, <2>3, Sizes
  <2> QED BY <2>1, <2>2, <2>3
<1> QED BY <1>1, <1>2, <1>5, <1>6, <1>8, <1>9

Buckets == {"token", "leaking", "upload"}

LEMMA NotNone ==
    ASSUME NEW a \in Algorithm, NEW st \in StateOf(a)
    PROVE  st # None
BY LimiterAssumption

LEMMA RoomOf ==
    ASSUME NEW a \in Buckets, NEW st \in StateOf(a)
    PROVE  /\ st # None /\ st.level \in Int
           /\ a # "upload" => st.age # None
           /\ st.age # None => st.age \in 0..Oldest
           /\ a = "leaking" =>
                 \A t : Room(a, st, t) = Full - Higher(0, st.level - Limit * (st.age - t))
           /\ a # "leaking" /\ st.age # None =>
                 \A t : Room(a, st, t) = Lower(Full, st.level + Limit * (st.age - t))
           /\ a # "leaking" /\ st.age = None => \A t : Room(a, st, t) = Lower(Full, st.level)
<1>1. st # None
  BY NotNone DEF Buckets, Algorithm
<1>2. CASE a \in {"token", "leaking"}
  <2>1. st \in [level : Int, age : 0..Oldest]
    BY <1>2 DEF StateOf
  <2>2. st.level \in Int /\ st.age \in 0..Oldest /\ st.age # None
    BY <2>1, LimiterAssumption, Sizes
  <2> QED BY <1>1, <1>2, <2>2 DEF Room
<1>3. CASE a = "upload"
  <2>1. st \in [level : Int, age : (0..Oldest) \cup {None}]
    BY <1>3 DEF StateOf
  <2>2. st.level \in Int /\ (st.age # None => st.age \in 0..Oldest)
    BY <2>1
  <2> QED BY <1>1, <1>3, <2>2 DEF Room
<1> QED BY <1>2, <1>3 DEF Buckets

LEMMA UploadBucketFacts ==
    ASSUME NEW seen \in StateOf("upload") \cup {None}, NEW late \in 0..MaxDelay,
           NEW before,
           before = IF seen = None THEN Full
                    ELSE IF seen.age = None THEN Lower(Full, seen.level)
                    ELSE Lower(Full, seen.level + Limit * (seen.age - late)),
           NEW r, r = UploadBucket(seen, late)
    PROVE  /\ before \in Int /\ before <= Full
           /\ r.allowed \in BOOLEAN /\ (r.allowed <=> before >= Window)
           /\ r.state = [level |-> IF r.allowed THEN before - Window ELSE before, age |-> late]
           /\ r.wait \in Int
<1>1. CASE seen = None
  BY <1>1, TokenBucketFacts DEF UploadBucket
<1>2. CASE seen # None /\ seen.age # None
  <2>1. seen.level \in Int /\ seen.age \in Int
    BY <1>2, RoomOf, Sizes DEF Buckets
  <2> QED BY <1>2, <2>1, TokenBucketFacts DEF UploadBucket
<1>3. CASE seen # None /\ seen.age = None
  <2> DEFINE dated == [seen EXCEPT !.age = late]
  <2>1. seen \in [level : Int, age : (0..Oldest) \cup {None}]
    BY <1>3 DEF StateOf
  <2>2. dated.level = seen.level /\ dated.age = late /\ seen.level \in Int /\ late \in Int
    BY <2>1, Sizes
  <2>3. dated \in StateOf("upload")
    BY <2>1, Delays DEF StateOf
  <2>4. dated # None
    BY <2>3, NotNone DEF Algorithm
  <2>5. UploadBucket(seen, late) = TokenBucket(dated, late)
    BY <1>3 DEF UploadBucket
  <2> HIDE DEF dated
  <2>6. dated.level + Limit * (dated.age - late) = seen.level
    BY <2>2, Sizes
  <2> QED BY <1>3, <2>2, <2>4, <2>5, <2>6, TokenBucketFacts
<1> QED BY <1>1, <1>2, <1>3

\* Room after a request, compared with the room before it.
LEMMA RoomTaken ==
    ASSUME algorithm \in Buckets, NEW seen \in StateOf(algorithm) \cup {None},
           NEW late \in 0..MaxDelay, NEW r, r = Consume(seen, late), NEW t \in Int
    PROVE  /\ r.allowed \in BOOLEAN /\ r.wait \in Int /\ r.state \in StateOf(algorithm)
           /\ Room(algorithm, seen, t) \in Int /\ Room(algorithm, seen, t) <= Full
           /\ Room(algorithm, r.state, t) \in Int /\ Room(algorithm, r.state, t) <= Full
           /\ t >= late => Room(algorithm, r.state, t) <= Room(algorithm, seen, t)
           /\ t <= late => Room(algorithm, r.state, t) <=
                              Room(algorithm, r.state, late) + Limit * (late - t)
           /\ r.allowed => Room(algorithm, r.state, late) + Window <= Room(algorithm, seen, late)
<1>1. late \in Int /\ Limit * (late - t) \in Int /\ Limit * (late - late) = 0 /\ Full \in Int
  BY Sizes
<1>2. CASE algorithm \in {"token", "upload"}
  <2> DEFINE before == IF seen = None THEN Full
                       ELSE IF seen.age = None THEN Lower(Full, seen.level)
                       ELSE Lower(Full, seen.level + Limit * (seen.age - late))
  <2>1. /\ before \in Int /\ before <= Full
        /\ r.allowed \in BOOLEAN
        /\ r.state = [level |-> IF r.allowed THEN before - Window ELSE before, age |-> late]
        /\ r.wait \in Int
    <3>1. CASE algorithm = "token"
      <4>1. seen # None => seen.age # None /\ seen.level \in Int /\ seen.age \in Int
        BY <3>1, RoomOf, Sizes DEF Buckets
      <4>2. r = TokenBucket(seen, late)
        BY <3>1 DEF Consume
      <4> QED BY <4>1, <4>2, TokenBucketFacts
    <3>2. CASE algorithm = "upload"
      <4>1. r = UploadBucket(seen, late)
        BY <3>2 DEF Consume
      <4>2. seen \in StateOf("upload") \cup {None}
        BY <3>2
      <4> HIDE DEF before
      <4>3. before \in Int /\ before <= Full
        <5>1. seen # None => seen.level \in Int /\ (seen.age # None => seen.age \in Int)
          BY <4>2, RoomOf, Sizes DEF Buckets
        <5> QED BY <1>1, <5>1, Sizes DEF before, Lower
      <4>4. r.allowed \in BOOLEAN /\ r.wait \in Int
            /\ r.state = [level |-> IF r.allowed THEN before - Window ELSE before, age |-> late]
        BY <4>1, <4>2, UploadBucketFacts DEF before
      <4> QED BY <4>3, <4>4
    <3> QED BY <1>2, <3>1, <3>2
  <2> DEFINE left == r.state.level
  <2>2. r.state.age = late /\ left \in Int /\ left <= before /\ r.state \in [level : Int, age : 0..MaxDelay]
        /\ (r.allowed => left = before - Window)
    BY <2>1, Sizes
  <2>3. r.state \in StateOf(algorithm)
    BY <1>2, <2>2, Delays DEF StateOf
  <2>4. late # None
    BY Sizes, LimiterAssumption
  <2>5. \A u : Room(algorithm, r.state, u) = Lower(Full, left + Limit * (late - u))
    BY <1>2, <2>2, <2>3, <2>4, RoomOf
  <2>6. Room(algorithm, r.state, late) = Lower(Full, left)
    BY <1>1, <2>2, <2>5
  <2> HIDE DEF left, before
  <2>7. CASE seen = None
    <3>1. \A u : Room(algorithm, seen, u) = Full
      BY <2>7 DEF Room
    <3>2. before = Full
      BY <2>7 DEF before
    <3>3. Lower(Full, left + Limit * (late - t)) \in Int
          /\ Lower(Full, left + Limit * (late - t)) <= Full
          /\ (t <= late => Lower(Full, left + Limit * (late - t)) <= Lower(Full, left) + Limit * (late - t))
      <4>1. left <= Lower(Full, left + Limit * (late - late))
        BY <1>1, <2>1, <2>2 DEF Lower
      <4> QED BY <1>1, <2>2, <4>1, Refills
    <3>4. r.allowed => Lower(Full, left) + Window <= Full
      BY <2>2, <3>2, Sizes DEF Lower
    <3> QED BY <1>1, <2>1, <2>3, <2>5, <2>6, <3>1, <3>3, <3>4
  <2>8. CASE seen # None /\ seen.age # None
    <3>1. seen.level \in Int /\ seen.age \in Int
          /\ \A u : Room(algorithm, seen, u) = Lower(Full, seen.level + Limit * (seen.age - u))
      BY <1>2, <2>8, RoomOf, Sizes
    <3>2. before = Lower(Full, seen.level + Limit * (seen.age - late))
      BY <2>8 DEF before
    <3>3. /\ Lower(Full, seen.level + Limit * (seen.age - t)) \in Int
          /\ Lower(Full, seen.level + Limit * (seen.age - t)) <= Full
          /\ t >= late => Lower(Full, left + Limit * (late - t))
                             <= Lower(Full, seen.level + Limit * (seen.age - t))
          /\ t <= late => Lower(Full, left + Limit * (late - t)) <= Lower(Full, left) + Limit * (late - t)
      BY <1>1, <2>2, <3>1, <3>2, Refills
    <3>4. Lower(Full, left + Limit * (late - t)) \in Int
          /\ Lower(Full, left + Limit * (late - t)) <= Full
      BY <1>1, <2>2 DEF Lower
    <3>5. r.allowed => Lower(Full, left) + Window <= before
      BY <1>1, <2>1, <2>2, Sizes DEF Lower
    <3> QED BY <2>1, <2>3, <2>5, <2>6, <3>1, <3>2, <3>3, <3>4, <3>5
  <2>9. CASE seen # None /\ seen.age = None
    <3>1. seen.level \in Int /\ \A u : Room(algorithm, seen, u) = Lower(Full, seen.level)
      BY <1>2, <2>9, RoomOf
    <3>2. before = Lower(Full, seen.level)
      BY <2>9 DEF before
    <3>3. left <= Lower(Full, left + Limit * (late - late))
      BY <1>1, <2>1, <2>2 DEF Lower
    <3>4. /\ Lower(Full, left + Limit * (late - t)) \in Int
          /\ Lower(Full, left + Limit * (late - t)) <= Full
          /\ t >= late => Lower(Full, left + Limit * (late - t))
                             <= Lower(Full, left + Limit * (late - late))
          /\ t <= late => Lower(Full, left + Limit * (late - t)) <= Lower(Full, left) + Limit * (late - t)
      <4>1. t >= late => Limit * (late - t) <= 0
        <5>1. t >= late => (late - t) * Limit <= 0 * Limit
          BY <1>1, Sizes, ProductsGrow
        <5> QED BY <1>1, <5>1, Sizes
      <4> DEFINE q == Limit * (late - t)  z == Limit * (late - late)
      <4>2. q \in Int /\ z = 0 /\ (t >= late => q <= 0)
        BY <1>1, <4>1
      <4> HIDE DEF q, z
      <4>3. t >= late => Lower(Full, left + q) <= Lower(Full, left + z)
        BY <1>1, <2>2, <4>2 DEF Lower
      <4>4. t >= late => Lower(Full, left + Limit * (late - t))
                             <= Lower(Full, left + Limit * (late - late))
        BY <4>3 DEF q, z
      <4> QED BY <1>1, <2>2, <3>3, <4>4, Refills
    <3>5. Lower(Full, left + Limit * (late - late)) <= before
      BY <1>1, <2>1, <2>2 DEF Lower
    <3>6. r.allowed => Lower(Full, left) + Window <= before
      BY <1>1, <2>1, <2>2, Sizes DEF Lower
    <3>7. before \in Int /\ before <= Full /\ Lower(Full, left + Limit * (late - late)) \in Int
      BY <1>1, <2>1, <2>2 DEF Lower
    <3>8. t >= late => Lower(Full, left + Limit * (late - t)) <= before
      BY <3>4, <3>5, <3>7
    <3> QED BY <2>1, <2>3, <2>5, <2>6, <3>1, <3>2, <3>4, <3>6, <3>7, <3>8
  <2> QED BY <2>7, <2>8, <2>9
<1>3. CASE algorithm = "leaking"
  <2> DEFINE before == IF seen = None THEN 0
                       ELSE Higher(0, seen.level - Limit * (seen.age - late))
  <2>1. seen # None => seen.level \in Int /\ seen.age \in Int
    BY <1>3, RoomOf, Sizes DEF Buckets
  <2>2. /\ before \in Nat
        /\ r.allowed \in BOOLEAN
        /\ r.state = [level |-> IF r.allowed THEN before + Window ELSE before, age |-> late]
        /\ r.wait \in Int
    <3>1. r = LeakingBucket(seen, late)
      BY <1>3 DEF Consume
    <3> QED BY <2>1, <3>1, LeakingBucketFacts
  <2> DEFINE level == r.state.level
  <2>3. r.state.age = late /\ level \in Int /\ level >= before /\ r.state \in [level : Int, age : 0..MaxDelay]
        /\ (r.allowed => level = before + Window)
    BY <2>2, Sizes
  <2>4. r.state \in StateOf(algorithm)
    BY <1>3, <2>3, Delays DEF StateOf
  <2>5. \A u : Room(algorithm, r.state, u) = Full - Higher(0, level - Limit * (late - u))
    BY <1>3, <2>3, <2>4, RoomOf DEF Buckets
  <2>6. Room(algorithm, r.state, late) = Full - level
    BY <1>1, <2>2, <2>3, <2>5 DEF Higher
  <2> HIDE DEF level, before
  <2>7. CASE seen = None
    <3>1. \A u : Room(algorithm, seen, u) = Full
      BY <2>7 DEF Room
    <3>2. before = 0
      BY <2>7 DEF before
    <3>3. level >= Higher(0, 0 - Limit * (late - late)) /\ 0 \in Int
      BY <1>1, <2>3, <3>2 DEF Higher
    <3>4. Full - Higher(0, level - Limit * (late - t)) \in Int
          /\ Full - Higher(0, level - Limit * (late - t)) <= Full
      BY <1>1, <2>3 DEF Higher
    <3>5. t <= late => Full - Higher(0, level - Limit * (late - t))
                          <= Full - Higher(0, level) + Limit * (late - t)
      BY <1>1, <2>3, <3>3, Leaks
    <3>6. Higher(0, level) = level
      BY <2>3, <3>2 DEF Higher
    <3>7. r.allowed => Full - level + Window <= Full
      BY <1>1, <2>3, <3>2, Sizes
    <3> QED BY <1>1, <2>2, <2>4, <2>5, <2>6, <3>1, <3>4, <3>5, <3>6, <3>7
  <2>8. CASE seen # None
    <3>1. seen.level \in Int /\ seen.age \in Int
          /\ \A u : Room(algorithm, seen, u) = Full - Higher(0, seen.level - Limit * (seen.age - u))
      BY <1>3, <2>8, RoomOf, Sizes DEF Buckets
    <3>2. before = Higher(0, seen.level - Limit * (seen.age - late))
      BY <2>8 DEF before
    <3>3. /\ Full - Higher(0, seen.level - Limit * (seen.age - t)) \in Int
          /\ Full - Higher(0, seen.level - Limit * (seen.age - t)) <= Full
          /\ t >= late => Full - Higher(0, level - Limit * (late - t))
                             <= Full - Higher(0, seen.level - Limit * (seen.age - t))
          /\ t <= late => Full - Higher(0, level - Limit * (late - t))
                             <= Full - Higher(0, level) + Limit * (late - t)
      BY <1>1, <2>3, <3>1, <3>2, Leaks
    <3>4. Full - Higher(0, level - Limit * (late - t)) \in Int
          /\ Full - Higher(0, level - Limit * (late - t)) <= Full
      BY <1>1, <2>3 DEF Higher
    <3>5. Higher(0, level) = level
      BY <2>2, <2>3 DEF Higher
    <3>6. r.allowed => Full - level + Window <= Full - before
      BY <1>1, <2>2, <2>3, Sizes
    <3> QED BY <2>2, <2>4, <2>5, <2>6, <3>1, <3>2, <3>3, <3>4, <3>5, <3>6
  <2> QED BY <2>7, <2>8
<1> QED BY <1>2, <1>3 DEF Buckets

\* Counts of what dates from the last n ticks, for every n; the counts after one more request,
\* and the counts one tick later.
Cumulative(counts) ==
    /\ counts \in [0..(2 * Window) -> Nat]
    /\ counts[0] = 0
    /\ \A m, n \in 0..(2 * Window) : m <= n => counts[m] <= counts[n]

OneMore(counts, more, late) ==
    /\ more \in [0..(2 * Window) -> Nat]
    /\ \A n \in 0..(2 * Window) : more[n] = counts[n] + (IF n > late THEN 1 ELSE 0)

Later(counts, later) ==
    /\ later \in [0..(2 * Window) -> Nat]
    /\ later[0] = 0
    /\ \A n \in 1..Window : later[n] = counts[n - 1]

LEMMA CumulativeFacts ==
    ASSUME NEW counts, Cumulative(counts), NEW n \in Int, 0 <= n, n <= 2 * Window
    PROVE  /\ counts[n] \in Int /\ counts[n] >= 0
           /\ \A m \in Int : 0 <= m /\ m <= n => counts[m] \in Int /\ 0 <= counts[m] /\ counts[m] <= counts[n]
BY Sizes DEF Cumulative

\* What was counted since a request's date is at most what was counted since later.
LEMMA Before ==
    ASSUME NEW counts, Cumulative(counts), NEW late \in 0..MaxDelay, counts[late] = 0,
           NEW m \in Int, 0 <= m, m <= late
    PROVE  counts[m] = 0
BY Sizes, CumulativeFacts

\* A bucket that covers what was counted still does after a request, and covers that one too.
LEMMA BucketConsumed ==
    ASSUME algorithm \in Buckets, NEW seen \in StateOf(algorithm) \cup {None},
           NEW late \in 0..MaxDelay, NEW r, r = Consume(seen, late),
           NEW counts, Cumulative(counts), counts[late] = 0,
           BucketCovers(algorithm, seen, counts)
    PROVE  /\ BucketCovers(algorithm, r.state, counts)
           /\ \A more : r.allowed /\ OneMore(counts, more, late)
                           => BucketCovers(algorithm, r.state, more)
<1>1. late \in 0..(Window - 1) /\ late \in Int /\ 0 <= late /\ late < Window
  BY Sizes
<1>2. ASSUME NEW t \in 0..(Window - 1), NEW n \in 0..(Window - 1), t <= n
      PROVE  /\ Room(algorithm, r.state, t) + Window * (counts[n + 1] - counts[t]) <= Full + (n - t) * Limit
             /\ \A more : r.allowed /\ OneMore(counts, more, late) =>
                   Room(algorithm, r.state, t) + Window * (more[n + 1] - more[t]) <= Full + (n - t) * Limit
  <2> DEFINE after == Room(algorithm, r.state, t)
             atLate == Room(algorithm, r.state, late)
             room == Room(algorithm, seen, t)
             roomLate == Room(algorithm, seen, late)
             x == counts[n + 1]
             y == counts[t]
  <2>1. t \in Int /\ n \in Int /\ 0 <= t /\ n < Window /\ n + 1 \in 0..(2 * Window) /\ t \in 0..(2 * Window)
    BY <1>1, Sizes
  <2>2. after \in Int /\ after <= Full /\ room \in Int /\ room <= Full
        /\ atLate \in Int /\ atLate <= Full /\ roomLate \in Int
        /\ (t >= late => after <= room)
        /\ (t <= late => after <= atLate + Limit * (late - t))
        /\ atLate <= roomLate
        /\ (r.allowed => atLate + Window <= roomLate)
    BY <1>1, <2>1, RoomTaken
  <2>3. x \in Nat /\ y \in Nat
    BY <2>1 DEF Cumulative
  <2>4. room + Window * (x - y) <= Full + (n - t) * Limit
    BY <1>2 DEF BucketCovers
  <2>5. late <= n => roomLate + Window * (x - 0) <= Full + (n - late) * Limit
    BY <1>1, <1>2 DEF BucketCovers
  <2>6. (t <= late => y = 0) /\ (n < late => x = 0)
    BY <1>1, <2>1, Before
  <2> HIDE DEF after, atLate, room, roomLate, x, y
  <2>7. /\ Limit * (late - t) \in Int /\ (n - t) * Limit \in Nat /\ (n - late) * Limit \in Int
        /\ Window * (x - y) \in Int /\ Window * x \in Int /\ Window * (x - 0) = Window * x
        /\ Limit * (late - t) + (n - late) * Limit = (n - t) * Limit
    <3>1. n - t \in Nat
      BY <1>2, <2>1
    <3> QED BY <1>1, <2>1, <2>3, <3>1, Sizes, Products
  <2>8. after + Window * (x - y) <= Full + (n - t) * Limit
    <3>1. CASE t >= late
      BY <2>2, <2>4, <2>7, <3>1, Sizes
    <3>2. CASE t < late /\ n < late
      <4>1. Window * (x - y) = 0
        BY <1>1, <2>1, <2>6, <3>2, Sizes
      <4> QED BY <2>2, <2>7, <4>1, Sizes
    <3>3. CASE t < late /\ late <= n
      <4>1. Window * (x - y) = Window * x
        BY <1>1, <2>1, <2>3, <2>6, <3>3, Sizes
      <4> QED BY <1>1, <2>1, <2>2, <2>5, <2>7, <3>3, <4>1, Sizes
    <3> QED BY <1>1, <2>1, <3>1, <3>2, <3>3
  <2>9. ASSUME NEW more, r.allowed, OneMore(counts, more, late)
        PROVE  after + Window * (more[n + 1] - more[t]) <= Full + (n - t) * Limit
    <3>1. more[n + 1] = x + (IF n + 1 > late THEN 1 ELSE 0) /\ more[t] = y + (IF t > late THEN 1 ELSE 0)
      BY <2>1, <2>9 DEF OneMore, x, y
    <3>2. CASE t > late
      <4>1. more[n + 1] - more[t] = x - y
        BY <1>1, <1>2, <2>1, <2>3, <3>1, <3>2
      <4> QED BY <2>8, <4>1
    <3>3. CASE t <= late /\ n < late
      <4>1. more[n + 1] - more[t] = 0
        BY <1>1, <2>1, <2>6, <3>1, <3>3
      <4>2. Window * (more[n + 1] - more[t]) = 0
        BY <4>1, Sizes
      <4> QED BY <2>2, <2>7, <4>2, Sizes
    <3>4. CASE t <= late /\ late <= n
      <4>1. more[n + 1] - more[t] = x + 1
        BY <1>1, <2>1, <2>3, <2>6, <3>1, <3>4
      <4>2. Window * (more[n + 1] - more[t]) = Window * x + Window
        BY <2>3, <4>1, Sizes
      <4> QED BY <1>1, <2>1, <2>2, <2>5, <2>7, <2>9, <3>4, <4>2, Sizes
    <3> QED BY <1>1, <2>1, <3>2, <3>3, <3>4
  <2> QED BY <2>8, <2>9 DEF after, x, y
<1>3. BucketCovers(algorithm, r.state, counts)
  BY <1>2 DEF BucketCovers
<1>4. ASSUME NEW more, r.allowed, OneMore(counts, more, late)
      PROVE  BucketCovers(algorithm, r.state, more)
  BY <1>2, <1>4 DEF BucketCovers
<1> QED BY <1>3, <1>4

\* An age one tick later.
LEMMA AgeAged ==
    ASSUME NEW age \in 0..Oldest
    PROVE  /\ Lower(Oldest, age + 1) \in 0..Oldest
           /\ Lower(Oldest, age + 1) \in Int /\ age \in Int
           /\ age <= Lower(Oldest, age + 1) /\ Lower(Oldest, age + 1) <= age + 1
           /\ Lower(Oldest, age + 1) # age + 1 => age = Oldest
BY Sizes DEF Lower

\* Room a tick later.
LEMMA RoomAged ==
    ASSUME algorithm \in Buckets, NEW st \in StateOf(algorithm) \cup {None}, NEW t \in Int
    PROVE  /\ Aged(st) \in StateOf(algorithm) \cup {None}
           /\ (Aged(st) = None) <=> (st = None)
           /\ Room(algorithm, Aged(st), t) \in Int /\ Room(algorithm, Aged(st), t) <= Full
           /\ Room(algorithm, st, t) \in Int
           /\ Room(algorithm, Aged(st), t) <= Room(algorithm, st, t - 1)
           /\ Room(algorithm, Aged(st), t) <= Room(algorithm, st, t) + Limit
           /\ st # None => Aged(st).level = st.level
           /\ st # None /\ st.age # None => Aged(st).age = Lower(Oldest, st.age + 1)
<1>0. Full \in Int /\ Limit \in Int /\ Limit >= 0
  BY Sizes
<1>1. CASE st = None
  <2>1. Aged(st) = None /\ \A u : Room(algorithm, st, u) = Full
    BY <1>1 DEF Aged, Room
  <2> QED BY <1>0, <1>1, <2>1
<1>2. CASE st # None
  <2> DEFINE next == Aged(st)
  <2>1. CASE st.age = None
    <3>1. algorithm = "upload" /\ st.level \in Int /\ \A u : Room(algorithm, st, u) = Lower(Full, st.level)
      BY <1>2, <2>1, RoomOf DEF Buckets
    <3>2. st \in [level : Int, age : (0..Oldest) \cup {None}]
      BY <1>2, <3>1 DEF StateOf
    <3>3. next = st
      BY <1>2, <2>1, <3>1, <3>2 DEF Aged
    <3>4. Lower(Full, st.level) \in Int /\ Lower(Full, st.level) <= Full
      BY <1>0, <3>1 DEF Lower
    <3> HIDE DEF next
    <3> QED BY <1>0, <1>2, <2>1, <3>1, <3>3, <3>4 DEF next
  <2>2. CASE st.age # None
    <3> DEFINE age == st.age
               grown == Lower(Oldest, st.age + 1)
               l == st.level
    <3>1. age \in 0..Oldest /\ l \in Int
      BY <1>2, <2>2, RoomOf
    <3>2. next \in StateOf(algorithm) /\ next.level = l /\ next.age = grown /\ grown # None
      <4>1. grown \in 0..Oldest /\ grown # None
        BY <3>1, AgeAged, Sizes, LimiterAssumption
      <4>2. CASE algorithm \in {"token", "leaking"}
        <5>1. st \in [level : Int, age : 0..Oldest]
          BY <1>2, <4>2 DEF StateOf
        <5>2. next = [st EXCEPT !.age = grown]
          BY <1>2, <4>2 DEF Aged
        <5> HIDE DEF grown, next
        <5> QED BY <4>1, <4>2, <5>1, <5>2 DEF StateOf
      <4>3. CASE algorithm = "upload"
        <5>1. st \in [level : Int, age : (0..Oldest) \cup {None}]
          BY <1>2, <4>3 DEF StateOf
        <5>2. next = [st EXCEPT !.age = grown]
          BY <1>2, <2>2, <4>3 DEF Aged
        <5> HIDE DEF grown, next
        <5> QED BY <4>1, <4>3, <5>1, <5>2 DEF StateOf
      <4> QED BY <4>2, <4>3 DEF Buckets
    <3>3. grown \in Int /\ age \in Int /\ age <= grown /\ grown <= age + 1
      BY <3>1, AgeAged
    <3> HIDE DEF next, grown, age, l
    <3>4. /\ Limit * (grown - t) \in Int /\ Limit * (age - t) \in Int /\ Limit * (age - (t - 1)) \in Int
          /\ Limit * (grown - t) <= Limit * (age - (t - 1))
          /\ Limit * (grown - t) <= Limit * (age - t) + Limit
          /\ Limit * (age - t) <= Limit * (grown - t)
      <4>1. (grown - t) * Limit <= (age - (t - 1)) * Limit /\ (age - t) * Limit <= (grown - t) * Limit
        BY <1>0, <3>3, Sizes, ProductsGrow
      <4>2. (age - (t - 1)) * Limit = (age - t) * Limit + Limit
        BY <1>0, <3>3
      <4> QED BY <1>0, <3>3, <4>1, <4>2
    <3>5. CASE algorithm = "leaking"
      <4>1. \A u : Room(algorithm, st, u) = Full - Higher(0, l - Limit * (age - u))
                   /\ Room(algorithm, next, u) = Full - Higher(0, l - Limit * (grown - u))
        BY <1>2, <2>2, <3>2, <3>5, RoomOf DEF l, age, Buckets
      <4> DEFINE p == Limit * (grown - t)  q == Limit * (age - t)  s == Limit * (age - (t - 1))
      <4>2. p \in Int /\ q \in Int /\ s \in Int /\ p <= s /\ p <= q + Limit
        BY <3>4
      <4> HIDE DEF p, q, s
      <4>3. /\ Full - Higher(0, l - p) \in Int /\ Full - Higher(0, l - p) <= Full
            /\ Full - Higher(0, l - q) \in Int
            /\ Full - Higher(0, l - p) <= Full - Higher(0, l - s)
            /\ Full - Higher(0, l - p) <= Full - Higher(0, l - q) + Limit
        BY <1>0, <3>1, <4>2 DEF Higher
      <4>4. /\ Room(algorithm, next, t) = Full - Higher(0, l - p)
            /\ Room(algorithm, st, t) = Full - Higher(0, l - q)
            /\ Room(algorithm, st, t - 1) = Full - Higher(0, l - s)
        BY <4>1 DEF p, q, s
      <4>5. next # None
        BY <3>2, NotNone DEF Buckets, Algorithm
      <4> QED BY <1>2, <3>2, <4>3, <4>4, <4>5 DEF next, l, grown
    <3>6. CASE algorithm # "leaking"
      <4>1. \A u : Room(algorithm, st, u) = Lower(Full, l + Limit * (age - u))
                   /\ Room(algorithm, next, u) = Lower(Full, l + Limit * (grown - u))
        BY <1>2, <2>2, <3>2, <3>6, RoomOf DEF l, age, Buckets
      <4> DEFINE p == Limit * (grown - t)  q == Limit * (age - t)  s == Limit * (age - (t - 1))
      <4>2. p \in Int /\ q \in Int /\ s \in Int /\ p <= s /\ p <= q + Limit
        BY <3>4
      <4> HIDE DEF p, q, s
      <4>3. /\ Lower(Full, l + p) \in Int /\ Lower(Full, l + p) <= Full
            /\ Lower(Full, l + q) \in Int
            /\ Lower(Full, l + p) <= Lower(Full, l + s)
            /\ Lower(Full, l + p) <= Lower(Full, l + q) + Limit
        BY <1>0, <3>1, <4>2 DEF Lower
      <4>4. /\ Room(algorithm, next, t) = Lower(Full, l + p)
            /\ Room(algorithm, st, t) = Lower(Full, l + q)
            /\ Room(algorithm, st, t - 1) = Lower(Full, l + s)
        BY <4>1 DEF p, q, s
      <4>5. next # None
        BY <3>2, NotNone DEF Buckets, Algorithm
      <4> QED BY <1>2, <3>2, <4>3, <4>4, <4>5 DEF next, l, grown
    <3> QED BY <3>5, <3>6
  <2> QED BY <2>1, <2>2
<1> QED BY <1>1, <1>2

LEMMA BucketAged ==
    ASSUME algorithm \in Buckets, NEW st \in StateOf(algorithm) \cup {None},
           NEW counts, Cumulative(counts), NEW later, Later(counts, later),
           BucketCovers(algorithm, st, counts)
    PROVE  BucketCovers(algorithm, Aged(st), later)
<1> SUFFICES ASSUME NEW t \in 0..(Window - 1), NEW n \in 0..(Window - 1), t <= n
             PROVE  Room(algorithm, Aged(st), t) + Window * (later[n + 1] - later[t])
                       <= Full + (n - t) * Limit
  BY DEF BucketCovers
<1> DEFINE next == Room(algorithm, Aged(st), t)
<1>1. t \in Int /\ n \in Int /\ 0 <= t /\ t <= n /\ n < Window /\ Limit \in Nat /\ Full \in Nat
      /\ Window \in Nat /\ (n - t) * Limit \in Nat
  <2>1. n - t \in Nat
    BY Sizes
  <2> QED BY <2>1, Sizes, Products
<1>2. next \in Int /\ next <= Full /\ next <= Room(algorithm, st, t - 1)
      /\ next <= Room(algorithm, st, t) + Limit /\ Room(algorithm, st, t) \in Int
      /\ Room(algorithm, st, t - 1) \in Int
  <2>1. t - 1 \in Int
    BY <1>1
  <2> QED BY <1>1, <2>1, RoomAged
<1>3. later[n + 1] = counts[n] /\ counts[n] \in Int /\ counts[0] = 0
  <2>1. n + 1 \in 1..Window /\ n + 1 - 1 = n /\ n \in 0..(2 * Window)
    BY <1>1
  <2> QED BY <2>1 DEF Later, Cumulative
<1>4. CASE t = 0
  <2>1. later[t] = 0
    BY <1>4 DEF Later
  <2>2. CASE n = 0
    <3>1. Window * (later[n + 1] - later[t]) = 0
      BY <1>1, <1>3, <2>1, <2>2
    <3> QED BY <1>1, <1>2, <3>1
  <2>3. CASE n > 0
    <3>1. Room(algorithm, st, 0) + Window * (counts[n - 1 + 1] - counts[0]) <= Full + (n - 1 - 0) * Limit
      <4>1. 0 \in 0..(Window - 1) /\ n - 1 \in 0..(Window - 1) /\ 0 <= n - 1
        BY <1>1, <2>3
      <4> QED BY <4>1 DEF BucketCovers
    <3>2. Window * (later[n + 1] - later[t]) = Window * (counts[n - 1 + 1] - counts[0])
      BY <1>1, <1>3, <2>1
    <3>3. (n - t) * Limit = (n - 1 - 0) * Limit + Limit
      BY <1>1, <1>4
    <3>4. Window * (counts[n - 1 + 1] - counts[0]) \in Int /\ (n - 1 - 0) * Limit \in Int
      BY <1>1, <1>3
    <3> DEFINE p == Window * (counts[n - 1 + 1] - counts[0])
               q == (n - 1 - 0) * Limit
               room == Room(algorithm, st, 0)
    <3>5. p \in Int /\ q \in Int /\ room \in Int /\ room + p <= Full + q /\ next <= room + Limit
          /\ Window * (later[n + 1] - later[t]) = p /\ (n - t) * Limit = q + Limit
      BY <1>2, <1>4, <3>1, <3>2, <3>3, <3>4
    <3> HIDE DEF next, p, q, room
    <3>6. next + p <= Full + (q + Limit)
      BY <1>1, <1>2, <3>5
    <3> QED BY <3>5, <3>6 DEF next
  <2> QED BY <1>1, <2>2, <2>3
<1>5. CASE t > 0
  <2>1. later[t] = counts[t - 1] /\ counts[t - 1] \in Int
    <3>1. t \in 1..Window /\ t - 1 \in 0..(2 * Window)
      BY <1>1, <1>5
    <3> QED BY <3>1 DEF Later, Cumulative
  <2>2. Room(algorithm, st, t - 1) + Window * (counts[n - 1 + 1] - counts[t - 1])
            <= Full + (n - 1 - (t - 1)) * Limit
    <3>1. t - 1 \in 0..(Window - 1) /\ n - 1 \in 0..(Window - 1) /\ t - 1 <= n - 1
      BY <1>1, <1>5
    <3> QED BY <3>1 DEF BucketCovers
  <2>3. Window * (later[n + 1] - later[t]) = Window * (counts[n - 1 + 1] - counts[t - 1])
        /\ (n - 1 - (t - 1)) * Limit = (n - t) * Limit
    BY <1>1, <1>3, <2>1
  <2>4. Window * (later[n + 1] - later[t]) \in Int
    BY <1>1, <1>3, <2>1
  <2> DEFINE p == Window * (later[n + 1] - later[t])
             q == (n - t) * Limit
             room == Room(algorithm, st, t - 1)
  <2>5. p \in Int /\ q \in Int /\ room \in Int /\ room + p <= Full + q /\ next <= room
    BY <1>1, <1>2, <2>2, <2>3, <2>4
  <2> HIDE DEF next, p, q, room
  <2>6. next + p <= Full + q
    BY <1>1, <1>2, <2>5
  <2> QED BY <2>6 DEF next, p, q
<1> QED BY <1>1, <1>4, <1>5

\* A bucket whose level is sound has room for nothing less than nothing.
LEMMA RoomIsSound ==
    ASSUME NEW a \in Buckets, NEW st \in StateOf(a) \cup {None}, LevelIsSound(a, st),
           NEW late \in 0..MaxDelay, a = "token" /\ st # None => late <= st.age
    PROVE  /\ a = "token" => Room(a, st, late) >= 0
           /\ Room(a, st, 0) >= 0
<1>1. Full \in Nat /\ Limit \in Nat /\ late \in Int /\ 0 <= late /\ late <= MaxDelay /\ MaxDelay \in Nat
  BY Sizes
<1>2. CASE st = None
  BY <1>1, <1>2 DEF Room
<1>3. CASE st # None
  <2>1. st \in StateOf(a) /\ st.level \in Int /\ st.level >= 0
    BY <1>3, RoomOf DEF LevelIsSound, Buckets
  <2>2. CASE st.age = None
    <3>1. a # "token" /\ a # "leaking" /\ Room(a, st, 0) = Lower(Full, st.level)
      BY <2>1, <2>2, RoomOf DEF Buckets
    <3> QED BY <1>1, <2>1, <3>1 DEF Lower
  <2>3. CASE a = "leaking"
    <3>1. st.age \in 0..Oldest /\ \A u : Room(a, st, u) = Full - Higher(0, st.level - Limit * (st.age - u))
      BY <2>1, <2>3, RoomOf DEF Buckets
    <3> DEFINE m == Lower(st.age, MaxDelay)
    <3>2. m \in Int /\ m <= st.age /\ st.age \in Int /\ (m = MaxDelay \/ m = st.age) /\ m >= 0
      BY <1>1, <3>1, Sizes DEF Lower
    <3>3. st.level <= Full + Limit * m
      BY <1>3, <2>3 DEF LevelIsSound
    <3> HIDE DEF m
    <3>4. Limit * m <= Limit * (st.age - 0) /\ Limit * m \in Int /\ Limit * (st.age - 0) \in Int
      <4>1. m * Limit <= (st.age - 0) * Limit
        BY <1>1, <3>2, ProductsGrow
      <4> QED BY <1>1, <3>2, <4>1
    <3>5. Room(a, st, 0) >= 0
      <4> DEFINE p == Limit * m  q == Limit * (st.age - 0)
      <4>1. p <= q /\ p \in Int /\ q \in Int /\ st.level <= Full + p
        BY <3>3, <3>4
      <4> HIDE DEF p, q
      <4>2. Full - Higher(0, st.level - q) >= 0
        BY <1>1, <2>1, <4>1 DEF Higher
      <4> QED BY <3>1, <4>2 DEF q
    <3> QED BY <2>3, <3>5
  <2>4. CASE st.age # None /\ a # "leaking"
    <3>1. st.age \in 0..Oldest /\ \A u : Room(a, st, u) = Lower(Full, st.level + Limit * (st.age - u))
      BY <2>1, <2>4, RoomOf
    <3>2. st.age \in Nat
      BY <3>1, Sizes
    <3>3. Limit * (st.age - 0) \in Nat
      BY <1>1, <3>2
    <3>4. a = "token" => Limit * (st.age - late) \in Nat
      <4>1. a = "token" => st.age - late \in Nat
        BY <1>1, <1>3, <3>2
      <4> QED BY <1>1, <4>1, Products
    <3> DEFINE p == Limit * (st.age - 0)  q == Limit * (st.age - late)
    <3>5. p \in Nat /\ (a = "token" => q \in Nat)
      BY <3>3, <3>4
    <3> HIDE DEF p, q
    <3>6. Lower(Full, st.level + p) >= 0 /\ (a = "token" => Lower(Full, st.level + q) >= 0)
      BY <1>1, <2>1, <3>5 DEF Lower
    <3> QED BY <2>4, <3>1, <3>6 DEF p, q, Buckets
  <2> QED BY <2>2, <2>3, <2>4
<1> QED BY <1>2, <1>3

\* What a bucket writes: it is dated by the request, and its level is sound.
LEMMA LevelConsumed ==
    ASSUME algorithm \in Buckets, NEW seen \in StateOf(algorithm) \cup {None},
           NEW late \in 0..MaxDelay, NEW r, r = Consume(seen, late),
           LevelIsSound(algorithm, seen), algorithm = "token" /\ seen # None => late <= seen.age,
           algorithm = "upload" => r.allowed
    PROVE  /\ LevelIsSound(algorithm, r.state)
           /\ r.state \in [level : Int, age : {late}]
<1>1. Full \in Nat /\ Limit \in Nat /\ late \in Int /\ 0 <= late /\ late <= MaxDelay /\ MaxDelay \in Nat
      /\ Window \in Nat
  BY Sizes
<1>2. CASE algorithm = "token"
  <2>1. seen # None => seen.age # None /\ seen.level \in Int /\ seen.age \in Int
    BY <1>2, RoomOf, Sizes DEF Buckets
  <2> DEFINE before == IF seen = None THEN Full ELSE Lower(Full, seen.level + Limit * (seen.age - late))
  <2>2. before = Room(algorithm, seen, late)
    BY <1>2, <2>1 DEF Room
  <2>3. before >= 0
    BY <1>2, <2>2, RoomIsSound
  <2>4. r = TokenBucket(seen, late)
    BY <1>2 DEF Consume
  <2>5. /\ before \in Int /\ r.allowed \in BOOLEAN /\ (r.allowed <=> before >= Window)
        /\ r.state = [level |-> IF r.allowed THEN before - Window ELSE before, age |-> late]
    BY <2>1, <2>4, TokenBucketFacts
  <2> HIDE DEF before
  <2>6. r.state.level \in Int /\ r.state.level >= 0 /\ r.state \in [level : Int, age : {late}]
    BY <1>1, <2>3, <2>5
  <2> QED BY <1>2, <2>6 DEF LevelIsSound
<1>3. CASE algorithm = "upload"
  <2> DEFINE before == IF seen = None THEN Full
                       ELSE IF seen.age = None THEN Lower(Full, seen.level)
                       ELSE Lower(Full, seen.level + Limit * (seen.age - late))
  <2>1. r = UploadBucket(seen, late) /\ seen \in StateOf("upload") \cup {None}
    BY <1>3 DEF Consume
  <2> HIDE DEF before
  <2>2. /\ before \in Int /\ r.allowed \in BOOLEAN /\ (r.allowed <=> before >= Window)
        /\ r.state = [level |-> IF r.allowed THEN before - Window ELSE before, age |-> late]
    BY <2>1, UploadBucketFacts DEF before
  <2>3. r.state.level \in Int /\ r.state.level >= 0 /\ r.state \in [level : Int, age : {late}]
    BY <1>1, <1>3, <2>2
  <2> QED BY <1>3, <2>3 DEF LevelIsSound
<1>4. CASE algorithm = "leaking"
  <2>1. seen # None => seen \in StateOf("leaking") /\ seen.age \in 0..Oldest /\ seen.level \in Int /\ seen.age \in Int
    BY <1>4, RoomOf, Sizes DEF Buckets
  <2> DEFINE before == IF seen = None THEN 0 ELSE Higher(0, seen.level - Limit * (seen.age - late))
  <2>2. r = LeakingBucket(seen, late)
    BY <1>4 DEF Consume
  <2>3. /\ before \in Nat /\ r.allowed \in BOOLEAN /\ (r.allowed => before + Window <= Full)
        /\ r.state = [level |-> IF r.allowed THEN before + Window ELSE before, age |-> late]
    BY <2>1, <2>2, LeakingBucketFacts
  <2>4. before <= Full + Limit * late /\ Limit * late \in Nat
    <3>1. CASE seen = None
      BY <1>1, <3>1
    <3>2. CASE seen # None
      <4> DEFINE m == Lower(seen.age, MaxDelay)
      <4>1. m \in Int /\ m <= seen.age /\ m <= MaxDelay /\ seen.level <= Full + Limit * m
        BY <1>1, <1>4, <2>1, <3>2, Sizes DEF LevelIsSound, Lower
      <4> HIDE DEF m
      <4>2. /\ Limit * m \in Int /\ Limit * late \in Nat /\ Limit * (seen.age - late) \in Int
            /\ Limit * m <= Limit * (seen.age - late) + Limit * late
        <5>1. m * Limit <= seen.age * Limit
          BY <1>1, <2>1, <3>2, <4>1, ProductsGrow
        <5>2. Limit * (seen.age - late) = seen.age * Limit - Limit * late
          BY <1>1, <2>1, <3>2
        <5> QED BY <1>1, <2>1, <3>2, <4>1, <5>1, <5>2, Products
      <4> DEFINE p == Limit * m  q == Limit * (seen.age - late)  s == Limit * late
      <4>3. p \in Int /\ q \in Int /\ s \in Nat /\ p <= q + s /\ seen.level <= Full + p
        BY <4>1, <4>2
      <4> HIDE DEF p, q, s
      <4>4. Higher(0, seen.level - q) <= Full + s
        BY <1>1, <2>1, <3>2, <4>3 DEF Higher
      <4> QED BY <3>2, <4>2, <4>4 DEF q, s
    <3> QED BY <3>1, <3>2
  <2> HIDE DEF before
  <2> DEFINE s == Limit * late
  <2>5. s \in Nat /\ before <= Full + s /\ Lower(late, MaxDelay) = late
    BY <1>1, <2>4 DEF Lower
  <2> HIDE DEF s
  <2>6. r.state.level \in Int /\ r.state.level >= 0 /\ r.state.level <= Full + s
        /\ r.state \in [level : Int, age : {late}]
    BY <1>1, <2>3, <2>5
  <2>7. r.state.age = late
    BY <2>6
  <2> QED BY <1>4, <2>5, <2>6, <2>7 DEF LevelIsSound, s
<1> QED BY <1>2, <1>3, <1>4 DEF Buckets

LEMMA LevelAged ==
    ASSUME algorithm \in Buckets, NEW st \in StateOf(algorithm) \cup {None},
           LevelIsSound(algorithm, st)
    PROVE  LevelIsSound(algorithm, Aged(st))
<1> SUFFICES ASSUME st # None PROVE LevelIsSound(algorithm, Aged(st))
  BY DEF Aged
<1>1. Aged(st).level = st.level /\ st.level \in Int /\ st.level >= 0
      /\ (st.age # None => Aged(st).age = Lower(Oldest, st.age + 1) /\ st.age \in 0..Oldest)
  <2>1. 0 \in Int
    OBVIOUS
  <2> QED BY <2>1, RoomOf, RoomAged DEF LevelIsSound, Buckets
<1>2. CASE algorithm = "leaking"
  <2>1. st.age # None /\ st.level <= Full + Limit * Lower(st.age, MaxDelay)
    BY <1>2, RoomOf DEF LevelIsSound, Buckets
  <2> DEFINE m == Lower(st.age, MaxDelay)  n == Lower(Aged(st).age, MaxDelay)
  <2>2. m \in Int /\ n \in Int /\ m <= n
    <3>1. st.age \in Int /\ Aged(st).age \in Int /\ st.age <= Aged(st).age
      BY <1>1, <2>1, AgeAged
    <3> QED BY <3>1, Sizes DEF Lower
  <2>3. st.level <= Full + Limit * m
    BY <2>1
  <2> HIDE DEF m, n
  <2>4. Limit * m \in Int /\ Limit * n \in Int /\ Limit * m <= Limit * n
    <3>1. m * Limit <= n * Limit
      BY <2>2, Sizes, ProductsGrow
    <3> QED BY <2>2, <3>1, Sizes
  <2>5. st.level <= Full + Limit * n
    BY <1>1, <2>3, <2>4, Sizes
  <2> QED BY <1>1, <1>2, <2>5 DEF LevelIsSound, n
<1> QED BY <1>1, <1>2 DEF LevelIsSound

LEMMA RoomIsAtMostFull ==
    ASSUME NEW a \in Buckets, NEW st \in StateOf(a) \cup {None}, NEW t \in Int
    PROVE  Room(a, st, t) \in Int /\ Room(a, st, t) <= Full
<1>1. Full \in Int /\ Limit \in Int
  BY Sizes
<1>2. CASE st = None
  BY <1>1, <1>2 DEF Room
<1>3. CASE st # None
  <2>1. st.level \in Int /\ (st.age # None => st.age \in Int)
    BY <1>3, RoomOf, Sizes
  <2>2. CASE a = "leaking"
    <3>1. Room(a, st, t) = Full - Higher(0, st.level - Limit * (st.age - t)) /\ st.age \in Int
      BY <1>3, <2>1, <2>2, RoomOf DEF Buckets
    <3>2. Limit * (st.age - t) \in Int
      BY <1>1, <3>1
    <3> DEFINE p == Limit * (st.age - t)
    <3> HIDE DEF p
    <3>3. p \in Int => Full - Higher(0, st.level - p) \in Int /\ Full - Higher(0, st.level - p) <= Full
      BY <1>1, <2>1 DEF Higher
    <3> QED BY <3>1, <3>2, <3>3 DEF p
  <2>3. CASE a # "leaking" /\ st.age # None
    <3>1. Room(a, st, t) = Lower(Full, st.level + Limit * (st.age - t)) /\ st.age \in Int
      BY <1>3, <2>1, <2>3, RoomOf
    <3>2. Limit * (st.age - t) \in Int
      BY <1>1, <3>1
    <3> DEFINE p == Limit * (st.age - t)
    <3> HIDE DEF p
    <3>3. p \in Int => Lower(Full, st.level + p) \in Int /\ Lower(Full, st.level + p) <= Full
      BY <1>1, <2>1 DEF Lower
    <3> QED BY <3>1, <3>2, <3>3 DEF p
  <2>4. CASE a # "leaking" /\ st.age = None
    <3>1. Room(a, st, t) = Lower(Full, st.level)
      BY <1>3, <2>4, RoomOf
    <3> QED BY <1>1, <2>1, <3>1 DEF Lower
  <2> QED BY <2>2, <2>3, <2>4
<1> QED BY <1>2, <1>3

\* A bucket covers nothing, whatever it holds.
LEMMA BucketCoversNothing ==
    ASSUME NEW a \in Buckets, NEW st \in StateOf(a) \cup {None},
           NEW counts, \A n \in 0..(2 * Window) : counts[n] = 0
    PROVE  BucketCovers(a, st, counts)
<1> SUFFICES ASSUME NEW t \in 0..(Window - 1), NEW n \in 0..(Window - 1), t <= n
             PROVE  Room(a, st, t) + Window * (counts[n + 1] - counts[t]) <= Full + (n - t) * Limit
  BY DEF BucketCovers
<1>1. t \in Int /\ n \in Int /\ n + 1 \in 0..(2 * Window) /\ t \in 0..(2 * Window) /\ n - t \in Nat
  BY Sizes
<1>2. Window * (counts[n + 1] - counts[t]) = 0 /\ (n - t) * Limit \in Nat
  BY <1>1, Sizes, Products
<1> QED BY <1>1, <1>2, RoomIsAtMostFull, Sizes

\* What a bucket that covers the counts says of them.
LEMMA BucketLimits ==
    ASSUME NEW a \in Buckets, NEW st \in StateOf(a) \cup {None}, LevelIsSound(a, st),
           NEW counts, Cumulative(counts), BucketCovers(a, st, counts), NEW n \in 0..(Window - 1)
    PROVE  counts[n + 1] * Window <= Full + n * Limit
<1>1. Room(a, st, 0) + Window * (counts[n + 1] - counts[0]) <= Full + (n - 0) * Limit
  <2>1. 0 \in 0..(Window - 1) /\ 0 <= n
    BY Sizes
  <2> QED BY <2>1 DEF BucketCovers
<1>2. Room(a, st, 0) >= 0 /\ Room(a, st, 0) \in Int
  <2>1. 0 \in 0..MaxDelay /\ 0 \in Int
    BY Sizes
  <2>2. a = "token" /\ st # None => 0 <= st.age
    BY RoomOf, Sizes DEF Buckets
  <2> QED BY <2>1, <2>2, RoomIsSound, RoomIsAtMostFull
<1>3. counts[n + 1] \in Int /\ counts[0] = 0
  <2>1. n + 1 \in 0..(2 * Window)
    BY Sizes
  <2> QED BY <2>1 DEF Cumulative
<1>4. Window * (counts[n + 1] - counts[0]) = counts[n + 1] * Window /\ counts[n + 1] * Window \in Int
      /\ (n - 0) * Limit = n * Limit /\ n * Limit \in Int
  BY <1>3, Sizes
<1> QED BY <1>1, <1>2, <1>4, Sizes

\* Who is told to wait finds room then.
LEMMA BucketGrants ==
    ASSUME algorithm \in {"token", "leaking"}, NEW seen \in StateOf(algorithm) \cup {None},
           NEW late \in 0..MaxDelay, NEW r, r = Consume(seen, late), ~r.allowed,
           LevelIsSound(algorithm, seen), algorithm = "token" /\ seen # None => late <= seen.age,
           NEW at
    PROVE  Grants(algorithm, r.state, Higher(0, r.wait - late), at)
<1> DEFINE wait == Higher(0, r.wait - late)
<1>1. Limit \in Nat /\ Window \in Int /\ late \in Int /\ 0 <= late /\ 0 \in Int
  BY Sizes
<1>2. r.wait \in Int /\ r.state # None
  BY <1>1, RoomTaken, NotNone DEF Buckets, Algorithm
<1>3. wait \in Nat /\ r.wait <= late + wait
  BY <1>1, <1>2 DEF Higher
<1>4. CASE algorithm = "token"
  <2>1. seen # None => seen.age # None /\ seen.level \in Int /\ seen.age \in Int
    BY <1>4, RoomOf, Sizes DEF Buckets
  <2> DEFINE before == IF seen = None THEN Full ELSE Lower(Full, seen.level + Limit * (seen.age - late))
             c == CeilDiv(Window, Limit)
  <2>2. before = Room(algorithm, seen, late)
    BY <1>4, <2>1 DEF Room
  <2>3. before >= 0
    BY <1>4, <2>2, RoomIsSound DEF Buckets
  <2>4. r = TokenBucket(seen, late)
    BY <1>4 DEF Consume
  <2>5. /\ before \in Int
        /\ r.state = [level |-> before, age |-> late]
        /\ r.wait = Seconds(c)
    BY <2>1, <2>4, TokenBucketFacts
  <2> HIDE DEF before, wait
  <2>6. c \in Int /\ Window <= Limit * c /\ c <= Seconds(c)
    BY CeilDivFacts, SecondsFacts, LimiterAssumption, Sizes
  <2> HIDE DEF c
  <2>7. Limit * c <= Limit * (late + wait) /\ Limit * c \in Int /\ Limit * (late + wait) \in Int
    <3>1. c <= late + wait
      BY <1>1, <1>2, <1>3, <2>5, <2>6
    <3>2. c * Limit <= (late + wait) * Limit
      BY <1>1, <1>3, <2>6, <3>1, ProductsGrow
    <3> QED BY <1>1, <1>3, <2>6, <3>2
  <2>8. r.state.level = before /\ r.state.age = late
    BY <2>5
  <2>9. r.state.level + Limit * (r.state.age + wait) >= Window
    <3> DEFINE p == Limit * c  q == Limit * (late + wait)
    <3>1. p \in Int /\ q \in Int /\ p <= q /\ Window <= p
      BY <2>6, <2>7
    <3> HIDE DEF p, q
    <3>2. before + q >= Window
      BY <1>1, <2>3, <2>5, <3>1
    <3> QED BY <2>8, <3>2 DEF q
  <2> QED BY <1>2, <1>4, <2>9 DEF Grants, wait
<1>5. CASE algorithm = "leaking"
  <2>1. seen # None => seen.level \in Int /\ seen.age \in Int
    BY <1>5, RoomOf, Sizes DEF Buckets
  <2> DEFINE before == IF seen = None THEN 0 ELSE Higher(0, seen.level - Limit * (seen.age - late))
             c == CeilDiv(before, Limit)
  <2>2. r = LeakingBucket(seen, late)
    BY <1>5 DEF Consume
  <2>3. /\ before \in Nat
        /\ r.state = [level |-> before, age |-> late]
        /\ r.wait = Seconds(c)
    BY <2>1, <2>2, LeakingBucketFacts
  <2> HIDE DEF before, wait
  <2>4. c \in Int /\ before <= Limit * c /\ c <= Seconds(c)
    <3>1. before \in Int /\ Limit \in Nat \ {0}
      BY <2>3, LimiterAssumption
    <3>2. c \in Int /\ before <= Limit * c
      BY <3>1, CeilDivFacts
    <3> HIDE DEF c
    <3> QED BY <3>2, SecondsFacts
  <2> HIDE DEF c
  <2>5. Limit * c <= Limit * (late + wait) /\ Limit * c \in Int /\ Limit * (late + wait) \in Int
    <3>1. c <= late + wait
      BY <1>1, <1>2, <1>3, <2>3, <2>4
    <3>2. c * Limit <= (late + wait) * Limit
      BY <1>1, <1>3, <2>4, <3>1, ProductsGrow
    <3> QED BY <1>1, <1>3, <2>4, <3>2
  <2>6. r.state.level = before /\ r.state.age = late
    BY <2>3
  <2>7. r.state.level <= Limit * (r.state.age + wait)
    <3> DEFINE p == Limit * c  q == Limit * (late + wait)
    <3>1. p \in Int /\ q \in Int /\ p <= q /\ before <= p
      BY <2>4, <2>5
    <3> HIDE DEF p, q
    <3>2. before <= q
      BY <2>3, <3>1
    <3> QED BY <2>6, <3>2 DEF q
  <2> QED BY <1>2, <1>5, <2>7 DEF Grants, wait
<1> QED BY <1>4, <1>5

LEMMA BucketGrantsLater ==
    ASSUME algorithm \in {"token", "leaking"}, NEW st \in StateOf(algorithm) \cup {None},
           LevelIsSound(algorithm, st), NEW wait \in Nat, NEW at, NEW next,
           Grants(algorithm, st, wait, at)
    PROVE  Grants(algorithm, Aged(st), Higher(0, wait - 1), next)
<1> SUFFICES ASSUME st # None PROVE Grants(algorithm, Aged(st), Higher(0, wait - 1), next)
  BY DEF Aged, Grants
<1> DEFINE grown == Lower(Oldest, st.age + 1)  left == Higher(0, wait - 1)
<1>1. st.level \in Int /\ st.level >= 0 /\ st.age \in 0..Oldest /\ st.age \in Nat
      /\ Aged(st).level = st.level /\ Aged(st).age = grown /\ Aged(st) # None
  <2>1. 0 \in Int /\ st.age # None /\ st.age \in 0..Oldest
    BY RoomOf DEF Buckets
  <2> QED BY <2>1, RoomOf, RoomAged, Sizes DEF LevelIsSound, Buckets
<1>2. grown \in Nat /\ left \in Nat /\ (st.age + wait <= grown + left \/ grown = Oldest)
  BY <1>1, Sizes DEF Lower, Higher
<1>3. Limit \in Nat /\ Window \in Nat /\ MaxDelay \in Nat
  BY Sizes
<1> HIDE DEF grown, left
<1> DEFINE p == Limit * (st.age + wait)  q == Limit * (grown + left)
<1>4. p \in Int /\ q \in Int /\ (p <= q \/ q >= Full + Limit * MaxDelay + Limit)
  <2>1. CASE st.age + wait <= grown + left
    <3>1. (st.age + wait) * Limit <= (grown + left) * Limit
      BY <1>1, <1>2, <1>3, <2>1, ProductsGrow
    <3> QED BY <1>1, <1>2, <1>3, <3>1
  <2>2. CASE grown = Oldest
    <3>1. (Window + MaxDelay + 1) * Limit <= (grown + left) * Limit
      BY <1>2, <1>3, <2>2, Sizes, ProductsGrow
    <3>2. (Window + MaxDelay + 1) * Limit = Full + Limit * MaxDelay + Limit
      BY <1>3, Sizes
    <3> QED BY <1>1, <1>2, <1>3, <3>1, <3>2
  <2> QED BY <1>2, <2>1, <2>2
<1>5. Limit * MaxDelay \in Nat
  BY <1>3, Products
<1>6. CASE algorithm = "token"
  <2>1. st.level + p >= Window
    BY <1>6 DEF Grants
  <2> HIDE DEF p, q
  <2>2. st.level + q >= Window
    BY <1>1, <1>3, <1>4, <1>5, <2>1, Sizes
  <2> QED BY <1>1, <1>6, <2>2 DEF Grants, q, left
<1>7. CASE algorithm = "leaking"
  <2>1. st.level <= p
    BY <1>7 DEF Grants
  <2>2. st.level <= Full + Limit * MaxDelay
    <3>1. st.level <= Full + Limit * Lower(st.age, MaxDelay)
      BY <1>7 DEF LevelIsSound
    <3> DEFINE m == Lower(st.age, MaxDelay)
    <3>2. m \in Int /\ m <= MaxDelay
      BY <1>1, <1>3 DEF Lower
    <3>3. st.level <= Full + Limit * m
      BY <3>1
    <3> HIDE DEF m
    <3>4. m * Limit <= MaxDelay * Limit /\ m * Limit \in Int
      BY <1>3, <3>2, ProductsGrow
    <3>5. m * Limit = Limit * m /\ MaxDelay * Limit = Limit * MaxDelay
      BY <1>3, <3>2
    <3> QED BY <1>1, <1>5, <3>3, <3>4, <3>5, Sizes
  <2> HIDE DEF p, q
  <2>3. st.level <= q
    BY <1>1, <1>3, <1>4, <1>5, <2>1, <2>2, Sizes
  <2> QED BY <1>1, <1>7, <2>3 DEF Grants, q, left
<1> QED BY <1>6, <1>7

LEMMA RoomIsGiven ==
    ASSUME algorithm \in {"token", "leaking"}, NEW st \in StateOf(algorithm) \cup {None},
           NEW late \in 0..MaxDelay, NEW r, r = Consume(st, late)
    PROVE  /\ algorithm = "token" /\ Room(algorithm, st, late) >= Window => r.allowed
           /\ algorithm = "leaking" /\ Room(algorithm, st, late) = Full => r.allowed
<1>1. st # None => st.level \in Int /\ st.age \in Int /\ st.age # None
  BY RoomOf, Sizes DEF Buckets
<1>2. ASSUME algorithm = "token", Room(algorithm, st, late) >= Window PROVE r.allowed
  <2> DEFINE before == IF st = None THEN Full ELSE Lower(Full, st.level + Limit * (st.age - late))
  <2>1. r = TokenBucket(st, late)
    BY <1>2 DEF Consume
  <2>2. /\ before \in Int /\ r.allowed \in BOOLEAN /\ (r.allowed <=> before >= Window)
        /\ r.state = [level |-> IF r.allowed THEN before - Window ELSE before, age |-> late]
    BY <1>1, <2>1, TokenBucketFacts
  <2>3. before = Room(algorithm, st, late)
    BY <1>1, <1>2 DEF Room
  <2> HIDE DEF before
  <2> QED BY <1>2, <2>2, <2>3
<1>3. ASSUME algorithm = "leaking", Room(algorithm, st, late) = Full PROVE r.allowed
  <2> DEFINE before == IF st = None THEN 0 ELSE Higher(0, st.level - Limit * (st.age - late))
  <2>1. r = LeakingBucket(st, late)
    BY <1>3 DEF Consume
  <2>2. /\ before \in Nat /\ r.allowed \in BOOLEAN /\ (before = 0 => r.allowed)
        /\ r.state = [level |-> IF r.allowed THEN before + Window ELSE before, age |-> late]
    BY <1>1, <2>1, LeakingBucketFacts
  <2>3. Room(algorithm, st, late) = Full - before
    BY <1>1, <1>3, Sizes DEF Room
  <2> HIDE DEF before
  <2> QED BY <1>3, <2>2, <2>3, Sizes
<1> QED BY <1>2, <1>3

LEMMA BucketGranted ==
    ASSUME algorithm \in {"token", "leaking"}, NEW st \in StateOf(algorithm) \cup {None},
           NEW at, Grants(algorithm, st, 0, at)
    PROVE  Consume(st, 0).allowed
<1>1. 0 \in 0..MaxDelay /\ Limit \in Nat /\ Window \in Nat
  BY Sizes
<1>2. st # None => /\ st.level \in Int /\ st.age \in Int /\ st.age # None
                   /\ Limit * (st.age - 0) \in Int /\ st.age + 0 = st.age - 0
  BY <1>1, RoomOf, Sizes DEF Buckets
<1> DEFINE p == Limit * (st.age - 0)
<1>3. CASE algorithm = "token"
  <2>1. st # None => st.level + p >= Window /\ Room(algorithm, st, 0) = Lower(Full, st.level + p)
    BY <1>2, <1>3 DEF Grants, Room
  <2> HIDE DEF p
  <2>2. Room(algorithm, st, 0) >= Window
    <3>1. CASE st = None
      BY <3>1, Sizes DEF Room
    <3>2. CASE st # None
      BY <1>2, <2>1, <3>2, Sizes DEF Lower, p
    <3> QED BY <3>1, <3>2
  <2> QED BY <1>1, <1>3, <2>2, RoomIsGiven
<1>4. CASE algorithm = "leaking"
  <2>1. st # None => st.level <= p /\ Room(algorithm, st, 0) = Full - Higher(0, st.level - p)
    BY <1>2, <1>4 DEF Grants, Room
  <2>2. st # None => p \in Int
    BY <1>2
  <2> HIDE DEF p
  <2>3. Room(algorithm, st, 0) = Full
    <3>1. CASE st = None
      BY <3>1, Sizes DEF Room
    <3>2. CASE st # None
      BY <1>2, <2>1, <2>2, <3>2, Sizes DEF Higher
    <3> QED BY <3>1, <3>2
  <2> QED BY <1>1, <1>4, <2>3, RoomIsGiven
<1> QED BY <1>3, <1>4

-----------------------------------------------------------------------------
(* Windows *)

LEMMA ModFacts ==
    ASSUME NEW m \in Int, NEW n \in Nat \ {0}
    PROVE  /\ m % n \in 0..(n - 1)
           /\ 0 <= m /\ m < n => m % n = m
           /\ m = n => m % n = 0
OBVIOUS

LEMMA WindowFacts ==
    ASSUME phase \in 0..(Window - 1), NEW late \in 0..MaxDelay
    PROVE  /\ WindowOf(late) \in {0, 1} /\ WindowOf(late) \in 0..3
           /\ (WindowOf(late) = 0) <=> (late <= phase)
           /\ Into(late) \in 0..(Window - 1)
           /\ late <= phase => Into(late) = phase - late
           /\ phase \in Int /\ late \in Int /\ 0 <= late /\ 0 <= phase /\ phase < Window
           /\ phase + 1 \in 0..(2 * Window) /\ phase + 1 + Window \in 0..(2 * Window)
<1>1. phase \in Int /\ late \in Int /\ 0 <= late /\ 0 <= phase /\ phase < Window /\ late < Window
      /\ Window \in Nat \ {0}
  BY Sizes
<1>2. WindowOf(late) \in {0, 1} /\ (WindowOf(late) = 0 <=> late <= phase)
  BY <1>1 DEF WindowOf
<1>3. Into(late) \in 0..(Window - 1) /\ (late <= phase => Into(late) = phase - late)
  <2> DEFINE m == phase - late
  <2>1. m \in Int /\ (late <= phase => 0 <= m /\ m < Window)
    BY <1>1
  <2> HIDE DEF m
  <2>2. m % Window \in 0..(Window - 1) /\ (late <= phase => m % Window = m)
    BY <1>1, <2>1, ModFacts
  <2> QED BY <2>2 DEF Into, m
<1> QED BY <1>1, <1>2, <1>3

\* The next phase.
LEMMA NextPhase ==
    ASSUME phase \in 0..(Window - 1)
    PROVE  /\ (phase + 1) % Window \in 0..(Window - 1)
           /\ phase < Window - 1 => (phase + 1) % Window = phase + 1
           /\ phase = Window - 1 => (phase + 1) % Window = 0
<1> DEFINE m == phase + 1
<1>1. m \in Int /\ Window \in Nat \ {0} /\ 0 <= m /\ phase \in Int
      /\ (phase < Window - 1 => m < Window) /\ (phase = Window - 1 => m = Window)
  BY Sizes
<1> HIDE DEF m
<1>2. /\ m % Window \in 0..(Window - 1)
      /\ phase < Window - 1 => m % Window = m
      /\ phase = Window - 1 => m % Window = 0
  BY <1>1, ModFacts
<1> QED BY <1>2 DEF m

LEMMA FixedFacts ==
    ASSUME algorithm = "fixed", phase \in 0..(Window - 1), NEW seen \in StateOf("fixed") \cup {None},
           NEW late \in 0..MaxDelay, NEW r, r = Consume(seen, late)
    PROVE  /\ r.allowed \in BOOLEAN /\ r.wait \in Int /\ r.state \in StateOf("fixed")
           /\ r.state.window = WindowOf(late)
           /\ r.state.count >= IF seen # None /\ seen.window = WindowOf(late) THEN seen.count ELSE 0
           /\ r.allowed => r.state.count > IF seen # None /\ seen.window = WindowOf(late) THEN seen.count ELSE 0
           /\ ~r.allowed => r.wait >= Window - Into(late)
           /\ ~r.allowed => seen # None /\ seen.window = WindowOf(late) /\ seen.count >= Limit
<1> DEFINE count == IF seen # None /\ seen.window = WindowOf(late) THEN seen.count ELSE 0
           wait == Seconds(Window - Into(late))
<1>1. count \in 0..Limit /\ count \in Int /\ Limit \in Int /\ 0 < Limit
  <2>1. seen # None => seen \in [count : 0..Limit, window : 0..3]
    BY DEF StateOf
  <2> QED BY <2>1, Sizes
<1>2. wait \in Int /\ wait >= Window - Into(late)
  <2>1. Window - Into(late) \in Int
    BY WindowFacts, Sizes
  <2> QED BY <2>1, SecondsFacts
<1>3. r = [allowed |-> count < Limit,
           state |-> IF count < Limit THEN [count |-> count + 1, window |-> WindowOf(late)]
                     ELSE [count |-> count, window |-> WindowOf(late)],
           wait |-> IF count < Limit THEN 0 ELSE wait]
  BY DEF Consume, FixedWindow, Result
<1>4. count >= Limit => seen # None /\ seen.window = WindowOf(late) /\ seen.count >= Limit
  BY <1>1
<1> HIDE DEF count, wait
<1>7. r.allowed = (count < Limit)
  BY <1>3
<1>5. CASE count < Limit
  <2>1. r.allowed /\ r.allowed \in BOOLEAN /\ r.wait = 0 /\ r.state = [count |-> count + 1, window |-> WindowOf(late)]
    <3>1. r.allowed
      BY <1>1, <1>5, <1>7
    <3>2. r.allowed \in BOOLEAN
      BY <1>1, <1>7
    <3> QED BY <1>3, <1>5, <3>1, <3>2
  <2>2. r.state \in StateOf("fixed")
    BY <1>1, <1>5, <2>1, WindowFacts DEF StateOf
  <2> QED BY <1>1, <1>5, <2>1, <2>2 DEF count
<1>6. CASE count >= Limit
  <2>1. ~r.allowed /\ r.allowed \in BOOLEAN /\ r.wait = wait /\ r.state = [count |-> count, window |-> WindowOf(late)]
    <3>2. r.allowed \in BOOLEAN
      BY <1>1, <1>7
    <3>3. ~(count < Limit)
      BY <1>1, <1>6
    <3>1. ~r.allowed
      BY <1>1, <1>7, <3>3
    <3> QED BY <1>3, <3>1, <3>2, <3>3
  <2>2. r.state \in StateOf("fixed")
    BY <1>1, <1>6, <2>1, WindowFacts DEF StateOf
  <2> QED BY <1>1, <1>2, <1>4, <1>6, <2>1, <2>2 DEF count
<1> QED BY <1>1, <1>5, <1>6

LEMMA FixedConsumed ==
    ASSUME algorithm = "fixed", phase \in 0..(Window - 1), NEW seen \in StateOf("fixed") \cup {None},
           NEW late \in 0..MaxDelay, NEW r, r = Consume(seen, late),
           NEW counts, Cumulative(counts), counts[late] = 0,
           FixedCovers(seen, counts, phase)
    PROVE  /\ FixedCovers(r.state, counts, phase)
           /\ \A more : r.allowed /\ OneMore(counts, more, late) => FixedCovers(r.state, more, phase)
<1>1. /\ WindowOf(late) \in {0, 1} /\ ((WindowOf(late) = 0) <=> (late <= phase))
      /\ phase \in Int /\ late \in Int /\ 0 <= phase /\ phase + 1 \in 0..(2 * Window)
      /\ counts[phase + 1] \in Int
  BY WindowFacts, CumulativeFacts DEF Cumulative
<1>2. /\ r.state \in StateOf("fixed") /\ r.state # None
      /\ r.state.window = WindowOf(late)
      /\ r.state.count >= IF seen # None /\ seen.window = WindowOf(late) THEN seen.count ELSE 0
      /\ r.allowed => r.state.count > IF seen # None /\ seen.window = WindowOf(late) THEN seen.count ELSE 0
  BY FixedFacts, NotNone DEF Algorithm
<1>3. r.state.count \in Int /\ (seen # None => seen.count \in Int)
  BY <1>2, Sizes DEF StateOf
<1>4. late > phase => counts[phase + 1] = 0
  BY <1>1, Before
<1>5. FixedCovers(r.state, counts, phase)
  BY <1>1, <1>2, <1>3, <1>4 DEF FixedCovers
<1>6. ASSUME NEW more, r.allowed, OneMore(counts, more, late)
      PROVE  FixedCovers(r.state, more, phase)
  <2>1. more[phase + 1] = counts[phase + 1] + (IF phase + 1 > late THEN 1 ELSE 0)
    BY <1>1, <1>6 DEF OneMore
  <2> QED BY <1>1, <1>2, <1>3, <1>4, <1>6, <2>1 DEF FixedCovers
<1> QED BY <1>5, <1>6

LEMMA FixedAged ==
    ASSUME algorithm = "fixed", phase \in 0..(Window - 1), NEW st \in StateOf("fixed") \cup {None},
           NEW counts, Cumulative(counts), NEW later, Later(counts, later),
           FixedCovers(st, counts, phase)
    PROVE  FixedCovers(Aged(st), later, (phase + 1) % Window)
<1> DEFINE at == (phase + 1) % Window
<1>1. /\ phase \in Int /\ 0 <= phase /\ phase <= Window - 1 /\ Window \in Nat
      /\ at \in 0..(Window - 1)
      /\ (phase < Window - 1 => at = phase + 1)
      /\ (phase = Window - 1 => at = 0)
  BY NextPhase, Sizes
<1> HIDE DEF at
<1>2. later[at + 1] = counts[at] /\ counts[0] = 0
  BY <1>1 DEF Later, Cumulative
<1>3. st # None =>
         /\ st \in [count : 0..Limit, window : 0..3]
         /\ Aged(st) = [st EXCEPT !.window = Lower(3, st.window + (IF phase = Window - 1 THEN 1 ELSE 0))]
  BY DEF StateOf, Aged
<1>4. st # None => st.count \in Nat /\ st.window \in Nat /\ Aged(st).count = st.count
                   /\ Aged(st) # None
                   /\ (phase < Window - 1 => (Aged(st).window = 0 <=> st.window = 0))
  <2>1. ASSUME st # None PROVE Aged(st) \in StateOf("fixed")
    BY <1>1, <1>3, <2>1 DEF StateOf, Lower
  <2>2. ASSUME st # None PROVE Aged(st) # None
    BY <2>1, <2>2, NotNone DEF Algorithm
  <2> QED BY <1>1, <1>3, <2>2, Sizes DEF Lower
<1>5. st = None => Aged(st) = None
  BY DEF Aged
<1>6. CASE phase < Window - 1
  BY <1>1, <1>2, <1>4, <1>5, <1>6 DEF FixedCovers, at
<1>7. CASE phase = Window - 1
  BY <1>1, <1>2, <1>4, <1>5, <1>7 DEF FixedCovers, at
<1> QED BY <1>1, <1>6, <1>7

LEMMA FixedGrants ==
    ASSUME algorithm = "fixed", phase \in 0..(Window - 1), NEW seen \in StateOf("fixed") \cup {None},
           NEW late \in 0..MaxDelay, NEW r, r = Consume(seen, late), ~r.allowed
    PROVE  Grants("fixed", r.state, Higher(0, r.wait - late), phase)
<1>1. /\ r.wait \in Int /\ r.state.window = WindowOf(late) /\ r.wait >= Window - Into(late)
  BY FixedFacts
<1>2. /\ WindowOf(late) \in {0, 1} /\ ((WindowOf(late) = 0) <=> (late <= phase))
      /\ (late <= phase => Into(late) = phase - late)
      /\ phase \in Int /\ late \in Int /\ Window \in Int
  BY WindowFacts, Sizes
<1>3. WindowOf(late) > 0 \/ phase + Higher(0, r.wait - late) >= Window
  BY <1>1, <1>2 DEF Higher
<1> QED BY <1>1, <1>3 DEF Grants

LEMMA FixedGrantsLater ==
    ASSUME algorithm = "fixed", phase \in 0..(Window - 1), NEW st \in StateOf("fixed") \cup {None},
           NEW wait \in Nat, Grants("fixed", st, wait, phase)
    PROVE  Grants("fixed", Aged(st), Higher(0, wait - 1), (phase + 1) % Window)
<1> SUFFICES ASSUME st # None
             PROVE  Aged(st).window > 0 \/ ((phase + 1) % Window) + Higher(0, wait - 1) >= Window
  BY DEF Aged, Grants
<1>1. /\ phase \in Int /\ 0 <= phase /\ phase <= Window - 1 /\ Window \in Nat
      /\ (phase < Window - 1 => (phase + 1) % Window = phase + 1)
  BY NextPhase, Sizes
<1>2. /\ st.window \in Nat
      /\ Aged(st).window = Lower(3, st.window + (IF phase = Window - 1 THEN 1 ELSE 0))
  <2>1. st \in [count : 0..Limit, window : 0..3]
    BY DEF StateOf
  <2> QED BY <2>1 DEF Aged
<1>3. st.window > 0 \/ phase + wait >= Window
  BY DEF Grants
<1>4. CASE phase < Window - 1
  BY <1>1, <1>2, <1>3, <1>4 DEF Lower, Higher
<1>5. CASE phase = Window - 1
  BY <1>1, <1>2, <1>5 DEF Lower
<1> QED BY <1>1, <1>4, <1>5

LEMMA FixedGranted ==
    ASSUME algorithm = "fixed", phase \in 0..(Window - 1), NEW st \in StateOf("fixed") \cup {None},
           Grants("fixed", st, 0, phase)
    PROVE  Consume(st, 0).allowed
<1>1. 0 \in 0..MaxDelay /\ phase \in Int /\ phase < Window /\ 0 <= phase /\ Window \in Int
  BY Sizes
<1>2. WindowOf(0) = 0
  BY <1>1, WindowFacts
<1>3. ASSUME ~Consume(st, 0).allowed PROVE FALSE
  <2>1. st # None /\ st.window = 0
    BY <1>1, <1>2, <1>3, FixedFacts
  <2>2. st.window > 0 \/ phase + 0 >= Window
    BY <2>1 DEF Grants
  <2> QED BY <1>1, <2>1, <2>2
<1> QED BY <1>3

\* The counter after it has moved to the window of a request.
Moved(seen, window) ==
    IF seen = None THEN [prev |-> 0, curr |-> 0, window |-> window]
    ELSE IF seen.window = window THEN seen
    ELSE [prev |-> IF seen.window - window = 1 THEN seen.curr ELSE 0, curr |-> 0, window |-> window]

LEMMA CounterFacts ==
    ASSUME algorithm = "counter", phase \in 0..(Window - 1), NEW seen \in StateOf("counter") \cup {None},
           NEW late \in 0..MaxDelay, NEW r, r = Consume(seen, late),
           NEW s, s = Moved(seen, WindowOf(late))
    PROVE  /\ s \in [prev : 0..Limit, curr : 0..Limit, window : 0..3] /\ s.window = WindowOf(late)
           /\ r.allowed \in BOOLEAN /\ r.wait \in Int /\ r.state \in StateOf("counter")
           /\ r.allowed =>
                 /\ s.prev * (Window - Into(late)) + s.curr * Window < Limit * Window
                 /\ r.state = [s EXCEPT !.curr = s.curr + 1]
           /\ ~r.allowed => r.state = s
<1> DEFINE estimated == s.prev * (Window - Into(late)) + s.curr * Window
           wait == Seconds(Window - Into(late))
<1>1. /\ s \in [prev : 0..Limit, curr : 0..Limit, window : 0..3] /\ s.window = WindowOf(late)
  <2>1. seen # None => seen \in [prev : 0..Limit, curr : 0..Limit, window : 0..3]
    BY DEF StateOf
  <2>2. WindowOf(late) \in 0..3 /\ 0 \in 0..Limit
    BY WindowFacts, Sizes
  <2> QED BY <2>1, <2>2 DEF Moved
<1>2. wait \in Int /\ Into(late) \in Int /\ Into(late) < Window
  <2>1. Into(late) \in Int /\ Into(late) < Window /\ Window - Into(late) \in Int
    BY WindowFacts, Sizes
  <2> QED BY <2>1, SecondsFacts
<1>3. r = [allowed |-> estimated < Limit * Window,
           state |-> IF estimated < Limit * Window THEN [s EXCEPT !.curr = s.curr + 1] ELSE s,
           wait |-> IF estimated < Limit * Window THEN 0 ELSE wait]
  BY DEF Consume, SlidingCounter, Result, Moved
<1>4. estimated \in Int /\ Limit * Window \in Int /\ s.curr \in 0..Limit
  BY <1>1, <1>2, Sizes
<1>5. estimated < Limit * Window => s.curr < Limit
  <2> SUFFICES ASSUME s.curr = Limit PROVE estimated >= Limit * Window
    BY <1>4, Sizes
  <2>1. s.prev \in Nat /\ Window - Into(late) \in Nat
    BY <1>1, <1>2, Sizes
  <2>2. s.prev * (Window - Into(late)) \in Nat
    BY <2>1, Products
  <2> QED BY <1>4, <2>2, Sizes
<1>6. r.allowed = (estimated < Limit * Window)
  BY <1>3
<1>7. r.allowed \in BOOLEAN
  BY <1>6
<1>8. estimated < Limit * Window =>
         [s EXCEPT !.curr = s.curr + 1] \in [prev : 0..Limit, curr : 0..Limit, window : 0..3]
  BY <1>1, <1>4, <1>5, Sizes
<1> DEFINE full == Limit * Window
<1> HIDE DEF estimated, full, wait
<1>9. CASE estimated < full
  <2>1. r.allowed
    BY <1>6, <1>9 DEF full
  <2>2. r.state = [s EXCEPT !.curr = s.curr + 1] /\ r.wait = 0
    BY <1>3, <1>9 DEF full
  <2> QED BY <1>1, <1>7, <1>8, <1>9, <2>1, <2>2 DEF full, estimated, StateOf
<1>10. CASE ~(estimated < full)
  <2>1. ~r.allowed
    BY <1>4, <1>6, <1>10 DEF full
  <2>2. r.state = s /\ r.wait = wait
    BY <1>3, <1>10 DEF full
  <2> QED BY <1>1, <1>2, <1>7, <2>1, <2>2 DEF StateOf
<1> QED BY <1>9, <1>10

LEMMA CounterConsumed ==
    ASSUME algorithm = "counter", phase \in 0..(Window - 1), NEW seen \in StateOf("counter") \cup {None},
           NEW late \in 0..MaxDelay, NEW r, r = Consume(seen, late),
           NEW b, b = "memory" => late = 0,
           NEW counts, Cumulative(counts), counts[late] = 0,
           CounterCovers(b, seen, counts, phase)
    PROVE  /\ CounterCovers(b, r.state, counts, phase)
           /\ \A more : r.allowed /\ OneMore(counts, more, late) => CounterCovers(b, r.state, more, phase)
<1> DEFINE s == Moved(seen, WindowOf(late))
           x == counts[phase + 1]
           y == counts[phase + 1 + Window]
           w == WindowOf(late)
           st == r.state
<1>1. /\ w \in {0, 1} /\ ((w = 0) <=> (late <= phase))
      /\ phase \in Int /\ late \in Int /\ 0 <= phase /\ phase < Window /\ 0 <= late
      /\ phase + 1 \in 0..(2 * Window) /\ phase + 1 + Window \in 0..(2 * Window)
      /\ x \in Nat /\ y \in Nat
      /\ (late <= phase => Into(late) = phase - late)
      /\ Limit \in Nat /\ Window \in Nat
  BY WindowFacts, Sizes DEF Cumulative
<1>2. /\ s \in [prev : 0..Limit, curr : 0..Limit, window : 0..3] /\ s.window = w
      /\ r.allowed \in BOOLEAN /\ st \in StateOf("counter") /\ st # None
      /\ r.allowed => /\ s.prev * (Window - Into(late)) + s.curr * Window < Limit * Window
                      /\ st = [s EXCEPT !.curr = s.curr + 1]
      /\ ~r.allowed => st = s
  BY CounterFacts, NotNone DEF Algorithm
<1>3. seen # None => seen \in [prev : 0..Limit, curr : 0..Limit, window : 0..3]
  BY DEF StateOf
<1>4. /\ st.window = w /\ st.prev = s.prev /\ s.prev \in Nat /\ s.curr \in Nat /\ s.prev <= Limit
      /\ st.curr = IF r.allowed THEN s.curr + 1 ELSE s.curr
  BY <1>2, Sizes
<1>5. late > phase => x = 0
  BY <1>1, Before
<1>6. x <= IF w = 0 THEN s.curr ELSE 0
  <2>1. CASE w = 0 /\ seen # None /\ seen.window = 0
    BY <1>1, <2>1 DEF CounterCovers, Moved
  <2>2. CASE w = 0 /\ (seen = None \/ seen.window # 0)
    BY <1>1, <1>4, <2>2 DEF CounterCovers
  <2>3. CASE w = 1
    BY <1>1, <1>5, <2>3
  <2> QED BY <1>1, <2>1, <2>2, <2>3
<1>7. b = "memory" => late = 0 /\ w = 0 /\ Into(late) = phase
  BY <1>1
<1>8. b = "memory" => y - x <= s.prev
  <2> SUFFICES ASSUME b = "memory" PROVE y - x <= s.prev
    OBVIOUS
  <2>1. y - x <= IF seen = None THEN 0
                 ELSE IF seen.window = 0 THEN seen.prev
                 ELSE IF seen.window = 1 THEN seen.curr ELSE 0
    BY DEF CounterCovers
  <2> QED BY <1>3, <1>7, <2>1 DEF Moved
<1>9. b = "memory" => st.prev * (Window - phase) + st.curr * Window < (Limit + 1) * Window
  <2> SUFFICES ASSUME b = "memory" PROVE st.prev * (Window - phase) + st.curr * Window < (Limit + 1) * Window
    OBVIOUS
  <2>1. (Limit + 1) * Window = Limit * Window + Window /\ Limit * Window \in Int
        /\ s.prev * (Window - phase) \in Int /\ s.curr * Window \in Int
        /\ (s.curr + 1) * Window = s.curr * Window + Window /\ Window > 0
    BY <1>1, <1>4, Sizes
  <2> DEFINE p == s.prev * (Window - phase)  q == s.curr * Window  full == Limit * Window
             goal == (Limit + 1) * Window
  <2>5. p \in Int /\ q \in Int /\ full \in Int /\ goal = full + Window /\ Window > 0 /\ Window \in Int
    BY <1>1, <2>1
  <2>2. CASE r.allowed
    <3>1. p + q < full
      BY <1>2, <1>7, <2>2
    <3>2. st.prev * (Window - phase) = p /\ st.curr * Window = q + Window
      BY <1>4, <2>1, <2>2
    <3> HIDE DEF p, q, full, goal
    <3>3. p + (q + Window) < goal
      BY <2>5, <3>1
    <3> QED BY <3>2, <3>3 DEF goal
  <2>3. CASE ~r.allowed /\ seen # None /\ seen.window = 0
    <3>1. st = seen
      BY <1>2, <1>7, <2>3 DEF Moved
    <3> QED BY <2>3, <3>1 DEF CounterCovers
  <2>4. CASE ~r.allowed /\ (seen = None \/ seen.window # 0)
    <3>1. s.curr = 0
      BY <1>3, <1>7, <2>4 DEF Moved
    <3>2. s.prev * (Window - phase) <= Limit * Window
      <4>1. s.prev * (Window - phase) <= Limit * (Window - phase) /\ Limit * (Window - phase) \in Int
        BY <1>1, <1>4, ProductsGrow
      <4>2. (Window - phase) * Limit <= Window * Limit
        BY <1>1, ProductsGrow
      <4>3. Limit * (Window - phase) = (Window - phase) * Limit /\ Window * Limit = Limit * Window
        BY <1>1
      <4> QED BY <2>1, <4>1, <4>2, <4>3
    <3>3. st.curr * Window = 0
      BY <1>1, <1>4, <2>4, <3>1
    <3>4. st.prev * (Window - phase) = p /\ p <= full
      BY <1>4, <3>2
    <3> HIDE DEF p, full, goal
    <3>5. p + 0 < goal
      BY <2>5, <3>4
    <3> QED BY <3>3, <3>4, <3>5 DEF goal
  <2> QED BY <1>2, <2>2, <2>3, <2>4
<1>10. st.curr \in Nat /\ st.curr >= s.curr /\ (r.allowed => st.curr = s.curr + 1)
  BY <1>2, <1>4
<1> HIDE DEF s, w
<1>11. CounterCovers(b, st, counts, phase)
  <2>1. x <= IF st # None /\ st.window = 0 THEN st.curr ELSE 0
    BY <1>1, <1>2, <1>4, <1>6, <1>10
  <2>2. b = "memory" => y - x <= st.prev /\ st.window = 0
    BY <1>4, <1>7, <1>8
  <2> HIDE DEF st, x, y
  <2> QED BY <1>2, <1>9, <2>1, <2>2 DEF CounterCovers, x, y
<1>12. ASSUME NEW more, r.allowed, OneMore(counts, more, late)
       PROVE  CounterCovers(b, st, more, phase)
  <2>1. /\ more[phase + 1] = x + (IF phase + 1 > late THEN 1 ELSE 0)
        /\ more[phase + 1 + Window] = y + (IF phase + 1 + Window > late THEN 1 ELSE 0)
    BY <1>1, <1>12 DEF OneMore
  <2>2. more[phase + 1] <= IF st # None /\ st.window = 0 THEN st.curr ELSE 0
    BY <1>1, <1>2, <1>4, <1>5, <1>6, <1>10, <1>12, <2>1
  <2>3. b = "memory" => more[phase + 1 + Window] - more[phase + 1] <= st.prev /\ st.window = 0
    BY <1>1, <1>4, <1>7, <1>8, <2>1
  <2> HIDE DEF st, x, y
  <2> QED BY <1>2, <1>9, <2>2, <2>3 DEF CounterCovers
<1> QED BY <1>11, <1>12

LEMMA CounterAged ==
    ASSUME algorithm = "counter", phase \in 0..(Window - 1), NEW st \in StateOf("counter") \cup {None},
           NEW b, NEW counts, Cumulative(counts), NEW later,
           later \in [0..(2 * Window) -> Nat], later[0] = 0,
           \A n \in 1..(2 * Window) : later[n] = counts[n - 1],
           CounterCovers(b, st, counts, phase)
    PROVE  CounterCovers(b, Aged(st), later, (phase + 1) % Window)
<1> DEFINE at == (phase + 1) % Window
           next == Aged(st)
<1>1. /\ phase \in Int /\ 0 <= phase /\ phase <= Window - 1 /\ Window \in Nat /\ Limit \in Nat
      /\ at \in 0..(Window - 1) /\ at \in Int
      /\ (phase < Window - 1 => at = phase + 1)
      /\ (phase = Window - 1 => at = 0)
  BY NextPhase, Sizes
<1> HIDE DEF at
<1>2. /\ later[at + 1] = counts[at] /\ counts[0] = 0 /\ counts[at] \in Nat
      /\ later[at + 1 + Window] = counts[at + Window] /\ counts[at + Window] \in Nat
  <2>1. /\ at + 1 \in 1..(2 * Window) /\ at + 1 - 1 = at /\ at \in 0..(2 * Window)
        /\ at + 1 + Window \in 1..(2 * Window) /\ at + 1 + Window - 1 = at + Window
        /\ at + Window \in 0..(2 * Window)
    BY <1>1
  <2>2. \A n \in 1..(2 * Window) : \A m : n - 1 = m => later[n] = counts[m]
    OBVIOUS
  <2>3. counts[0] = 0 /\ counts[at] \in Nat /\ counts[at + Window] \in Nat
    BY <2>1 DEF Cumulative
  <2>4. later[at + 1] = counts[at]
    BY <2>1, <2>2
  <2>5. later[at + 1 + Window] = counts[at + Window]
    <3> DEFINE n == at + 1 + Window  m == at + Window
    <3>1. n \in 1..(2 * Window) /\ n - 1 = m
      BY <1>1
    <3> HIDE DEF n, m
    <3>2. later[n] = counts[m]
      BY <2>2, <3>1
    <3> QED BY <3>2 DEF n, m
  <2> QED BY <2>3, <2>4, <2>5
<1>3. st # None =>
         /\ st \in [prev : 0..Limit, curr : 0..Limit, window : 0..3]
         /\ next = [st EXCEPT !.window = Lower(3, st.window + (IF phase = Window - 1 THEN 1 ELSE 0))]
  BY DEF StateOf, Aged
<1>4. st # None => /\ st.prev \in Nat /\ st.curr \in Nat /\ st.window \in Nat
                   /\ next.prev = st.prev /\ next.curr = st.curr /\ next # None
                   /\ (phase < Window - 1 => next.window = st.window)
                   /\ (phase = Window - 1 => next.window # 0 /\ (next.window = 1 <=> st.window = 0))
  <2>1. ASSUME st # None PROVE next \in StateOf("counter")
    BY <1>1, <1>3, <2>1 DEF StateOf, Lower
  <2>2. ASSUME st # None PROVE next # None
    BY <2>1, <2>2, NotNone DEF Algorithm
  <2>3. ASSUME st # None
        PROVE  /\ next.window = Lower(3, st.window + (IF phase = Window - 1 THEN 1 ELSE 0))
               /\ next.prev = st.prev /\ next.curr = st.curr /\ st.window \in 0..3
               /\ st.prev \in 0..Limit /\ st.curr \in 0..Limit
    BY <1>3, <2>3
  <2> HIDE DEF next
  <2>4. ASSUME st # None
        PROVE  /\ st.window \in Nat /\ (phase < Window - 1 => next.window = st.window)
               /\ (phase = Window - 1 => next.window # 0 /\ (next.window = 1 <=> st.window = 0))
    <3>1. st.window \in 0..3 /\ st.window \in Int
      BY <2>3, <2>4
    <3> DEFINE w == st.window
    <3> HIDE DEF w
    <3>2. w \in 0..3 => /\ Lower(3, w + 0) = w /\ Lower(3, w + 1) # 0
                        /\ (Lower(3, w + 1) = 1 <=> w = 0) /\ w \in Nat
      BY DEF Lower
    <3>3. CASE phase = Window - 1
      <4>1. next.window = Lower(3, w + 1)
        BY <2>3, <2>4, <3>3 DEF w
      <4> QED BY <1>1, <3>1, <3>2, <3>3, <4>1 DEF w
    <3>4. CASE phase # Window - 1
      <4>1. next.window = Lower(3, w + 0)
        BY <2>3, <2>4, <3>4 DEF w
      <4> QED BY <3>1, <3>2, <3>4, <4>1 DEF w
    <3> QED BY <3>3, <3>4
  <2>5. ASSUME st # None
        PROVE  st.prev \in Nat /\ st.curr \in Nat
    BY <1>1, <2>3, <2>5
  <2> QED BY <2>2, <2>3, <2>4, <2>5
<1>5. st = None => next = None
  BY DEF Aged
<1>6. counts[phase + 1] <= IF st # None /\ st.window = 0 THEN st.curr ELSE 0
  BY DEF CounterCovers
<1>7. b = "memory" =>
          /\ counts[phase + 1 + Window] - counts[phase + 1] <=
                IF st = None THEN 0
                ELSE IF st.window = 0 THEN st.prev
                ELSE IF st.window = 1 THEN st.curr ELSE 0
          /\ st # None /\ st.window = 0 =>
                st.prev * (Window - phase) + st.curr * Window < (Limit + 1) * Window
  BY DEF CounterCovers
<1> HIDE DEF next
<1>8. CASE phase < Window - 1
  <2>1. counts[at] <= IF next # None /\ next.window = 0 THEN next.curr ELSE 0
    BY <1>1, <1>2, <1>4, <1>5, <1>6, <1>8
  <2>2. ASSUME b = "memory"
        PROVE  counts[at + Window] - counts[at] <=
                  IF next = None THEN 0
                  ELSE IF next.window = 0 THEN next.prev
                  ELSE IF next.window = 1 THEN next.curr ELSE 0
    <3>1. at + Window = phase + 1 + Window /\ at = phase + 1
      BY <1>1, <1>8
    <3> QED BY <1>1, <1>4, <1>5, <1>7, <1>8, <2>2, <3>1
  <2>3. ASSUME b = "memory", next # None, next.window = 0
        PROVE  next.prev * (Window - at) + next.curr * Window < (Limit + 1) * Window
    <3>1. st # None /\ next.prev = st.prev /\ next.curr = st.curr /\ st.prev \in Nat /\ st.curr \in Nat
          /\ st.window = 0
      BY <1>4, <1>5, <1>8, <2>3
    <3>2. (Window - at) * st.prev <= (Window - phase) * st.prev
      <4>1. Window - at \in Int /\ Window - phase \in Int /\ Window - at <= Window - phase
        BY <1>1, <1>8
      <4> QED BY <3>1, <4>1, ProductsGrow
    <3> DEFINE p == st.prev * (Window - at)  q == st.prev * (Window - phase)
               m == st.curr * Window  top == (Limit + 1) * Window
    <3>3. p \in Int /\ q \in Int /\ m \in Int /\ top \in Int /\ p <= q
      <4>1. p = (Window - at) * st.prev /\ q = (Window - phase) * st.prev
        BY <1>1, <3>1
      <4>2. p \in Int /\ q \in Int
        <5>1. Window - at \in Int /\ Window - phase \in Int
          BY <1>1
        <5> QED BY <3>1, <5>1
      <4>3. m \in Int /\ top \in Int
        BY <1>1, <3>1
      <4> QED BY <3>2, <4>1, <4>2, <4>3
    <3>4. q + m < top
      BY <1>7, <2>3, <3>1
    <3> HIDE DEF p, q, m, top
    <3>5. p + m < top
      BY <3>3, <3>4
    <3> QED BY <3>1, <3>5 DEF p, m, top
  <2> QED BY <1>2, <2>1, <2>2, <2>3 DEF CounterCovers, at, next
<1>9. CASE phase = Window - 1
  <2>1. at = 0 /\ counts[at] = 0 /\ counts[at + Window] = counts[phase + 1]
    <3>1. at + Window = phase + 1 /\ at = 0
      BY <1>1, <1>9
    <3> QED BY <1>2, <3>1
  <2>2. counts[at] <= IF next # None /\ next.window = 0 THEN next.curr ELSE 0
    BY <1>4, <1>5, <1>9, <2>1
  <2>3. counts[at + Window] - counts[at] <=
            IF next = None THEN 0
            ELSE IF next.window = 0 THEN next.prev
            ELSE IF next.window = 1 THEN next.curr ELSE 0
    BY <1>2, <1>4, <1>5, <1>6, <1>9, <2>1
  <2>4. ~(next # None /\ next.window = 0)
    BY <1>4, <1>5, <1>9
  <2> QED BY <1>2, <2>2, <2>3, <2>4 DEF CounterCovers, at, next
<1> QED BY <1>1, <1>8, <1>9

\* What the counter in memory says of this window and the one before.
LEMMA CounterLimits ==
    ASSUME NEW st \in StateOf("counter") \cup {None}, NEW at \in 0..(Window - 1),
           NEW counts, Cumulative(counts), CounterCovers("memory", st, counts, at)
    PROVE  (counts[at + 1 + Window] - counts[at + 1]) * (Window - at) + counts[at + 1] * Window
              < (Limit + 1) * Window
<1> DEFINE x == counts[at + 1]  z == counts[at + 1 + Window] - counts[at + 1]
<1>1. at \in Int /\ 0 <= at /\ at < Window /\ Window \in Nat /\ Limit \in Nat /\ Window - at \in Nat
  BY Sizes
<1>2. x \in Nat /\ z \in Nat
  <2>1. at + 1 \in 0..(2 * Window) /\ at + 1 + Window \in 0..(2 * Window) /\ at + 1 <= at + 1 + Window
    BY <1>1
  <2>2. counts[at + 1] \in Nat /\ counts[at + 1 + Window] \in Nat
        /\ counts[at + 1] <= counts[at + 1 + Window]
    BY <2>1 DEF Cumulative
  <2> QED BY <2>2
<1>3. x <= IF st # None /\ st.window = 0 THEN st.curr ELSE 0
  BY DEF CounterCovers
<1>4. /\ z <= IF st = None THEN 0
              ELSE IF st.window = 0 THEN st.prev
              ELSE IF st.window = 1 THEN st.curr ELSE 0
      /\ st # None /\ st.window = 0 => st.prev * (Window - at) + st.curr * Window < (Limit + 1) * Window
  BY DEF CounterCovers
<1>5. st # None => st.prev \in 0..Limit /\ st.curr \in 0..Limit
  BY DEF StateOf
<1> HIDE DEF x, z
<1> DEFINE p == z * (Window - at)  q == x * Window  top == (Limit + 1) * Window
<1>6. p \in Int /\ q \in Int /\ top \in Int
  BY <1>1, <1>2
<1>7. CASE st # None /\ st.window = 0
  <2>1. z <= st.prev /\ x <= st.curr /\ st.prev \in Nat /\ st.curr \in Nat
    BY <1>1, <1>3, <1>4, <1>5, <1>7
  <2> DEFINE a == st.prev * (Window - at)  c == st.curr * Window
  <2>2. p <= a /\ q <= c /\ a \in Int /\ c \in Int
    BY <1>1, <1>2, <2>1, ProductsGrow
  <2>3. a + c < top
    BY <1>4, <1>7
  <2> HIDE DEF p, q, top, a, c
  <2>4. p + q < top
    BY <1>6, <2>2, <2>3
  <2> QED BY <2>4 DEF p, q, top, x, z
<1>8. CASE st = None \/ st.window # 0
  <2>1. x = 0 /\ z <= Limit
    BY <1>1, <1>2, <1>3, <1>4, <1>5, <1>8
  <2>2. q = 0
    BY <1>1, <2>1
  <2>3. p < top
    <3>1. z * (Window - at) <= Limit * (Window - at) /\ (Window - at) * Limit <= Window * Limit
      BY <1>1, <1>2, <2>1, ProductsGrow
    <3>2. /\ Limit * (Window - at) = (Window - at) * Limit /\ top = Window * Limit + Window
          /\ Limit * (Window - at) \in Int /\ Window * Limit \in Int
      BY <1>1
    <3> DEFINE a == Limit * (Window - at)  c == Window * Limit
    <3>3. p <= a /\ a <= c /\ top = c + Window /\ a \in Int /\ c \in Int /\ Window > 0
      BY <1>1, <3>1, <3>2
    <3> HIDE DEF p, top, a, c
    <3> QED BY <1>1, <1>6, <3>3
  <2> HIDE DEF p, q, top
  <2>4. p + q < top
    BY <1>6, <2>2, <2>3
  <2> QED BY <2>4 DEF p, q, top, x, z
<1> QED BY <1>7, <1>8

-----------------------------------------------------------------------------
(* Logs *)

\* A set of numbers that is not empty has a least one.
LEMMA LeastOne ==
    ASSUME NEW S \in SUBSET Nat, S # {}
    PROVE  \E x \in S : \A y \in S : x <= y
<1> DEFINE T == {0 .. x : x \in S}
<1>1. T \subseteq FiniteSubsetsOf(Nat) /\ T # {}
  <2>1. \A x \in S : 0 .. x \subseteq Nat /\ IsFiniteSet(0 .. x)
    BY FS_Interval
  <2> QED BY <2>1 DEF FiniteSubsetsOf
<1>2. PICK t \in T : \A u \in T : <<u, t>> \notin StrictSubsetOrdering(Nat)
  BY <1>1, FS_StrictSubsetOrderingWellFounded, WFMin
<1>3. PICK x \in S : t = 0 .. x
  OBVIOUS
<1>4. ASSUME NEW y \in S, y < x PROVE FALSE
  <2>1. 0 .. y \subseteq t /\ 0 .. y # t
    <3>1. x \in t /\ x \notin 0 .. y
      BY <1>3, <1>4
    <3> QED BY <1>3, <1>4, <3>1
  <2>2. <<0 .. y, t>> \in StrictSubsetOrdering(Nat)
    BY <1>3, <2>1 DEF StrictSubsetOrdering
  <2> QED BY <1>2, <2>2
<1> QED BY <1>4

\* The entries of a log that Active keeps, up to the i-th, for i up to m.
IsKept(kept, log, late, m) ==
    kept = [i \in 0..m |->
              IF i = 0 THEN <<>>
              ELSE IF log[i] - late < Window THEN Append(kept[i - 1], log[i]) ELSE kept[i - 1]]

LEMMA KeptGrows ==
    ASSUME NEW log, NEW late, NEW m \in Nat, NEW k, IsKept(k, log, late, m)
    PROVE  \E kept : IsKept(kept, log, late, m + 1)
<1> DEFINE kept == [i \in 0..(m + 1) |->
              IF i = 0 THEN <<>>
              ELSE IF log[i] - late < Window THEN Append(k[i - 1], log[i]) ELSE k[i - 1]]
<1>1. \A i \in 0..m : kept[i] = k[i]
  <2> TAKE i \in 0..m
  <2>1. k[i] = IF i = 0 THEN <<>>
               ELSE IF log[i] - late < Window THEN Append(k[i - 1], log[i]) ELSE k[i - 1]
    BY Zenon DEF IsKept
  <2>2. i \in 0..(m + 1)
    OBVIOUS
  <2> QED BY <2>1, <2>2, Zenon
<1>2. \A i \in 0..(m + 1) : i # 0 => i - 1 \in 0..m
  OBVIOUS
<1>3. IsKept(kept, log, late, m + 1)
  <2> DEFINE again == [i \in 0..(m + 1) |->
              IF i = 0 THEN <<>>
              ELSE IF log[i] - late < Window THEN Append(kept[i - 1], log[i]) ELSE kept[i - 1]]
  <2>1. \A i \in 0..(m + 1) : kept[i] = again[i]
    BY <1>1, <1>2
  <2>2. DOMAIN kept = 0..(m + 1) /\ DOMAIN again = 0..(m + 1)
    OBVIOUS
  <2>3. kept = again
    BY <2>1
  <2> HIDE DEF kept
  <2> QED BY <2>3 DEF IsKept
<1> QED BY <1>3

LEMMA KeptExists ==
    ASSUME NEW log, NEW late, NEW m \in Nat
    PROVE  \E kept : IsKept(kept, log, late, m)
<1> DEFINE S == {i \in Nat : ~ \E kept : IsKept(kept, log, late, i)}
<1> SUFFICES ASSUME S # {} PROVE FALSE
  OBVIOUS
<1>1. PICK x \in S : \A y \in S : x <= y
  BY LeastOne
<1>2. x # 0
  <2> DEFINE k == [i \in 0..0 |-> <<>>]
  <2>1. k = [i \in 0..0 |->
              IF i = 0 THEN <<>>
              ELSE IF log[i] - late < Window THEN Append(k[i - 1], log[i]) ELSE k[i - 1]]
    OBVIOUS
  <2> HIDE DEF k
  <2>2. IsKept(k, log, late, 0)
    BY <2>1 DEF IsKept
  <2> QED BY <2>2
<1>3. x - 1 \in Nat /\ x - 1 \notin S
  BY <1>1, <1>2
<1>4. PICK k : IsKept(k, log, late, x - 1)
  BY <1>3
<1>5. \E kept : IsKept(kept, log, late, x - 1 + 1)
  BY <1>3, <1>4, KeptGrows
<1>6. x - 1 + 1 = x
  OBVIOUS
<1> QED BY <1>5, <1>6

LEMMA ActiveIsKept ==
    ASSUME NEW log, Len(log) \in Nat, NEW late
    PROVE  \E kept : IsKept(kept, log, late, Len(log)) /\ Active(log, late) = kept[Len(log)]
<1> DEFINE kept == CHOOSE k : IsKept(k, log, late, Len(log))
<1>1. IsKept(kept, log, late, Len(log))
  BY KeptExists
<1>2. Active(log, late) = kept[Len(log)]
  BY DEF Active, IsKept
<1> HIDE DEF kept
<1> QED BY <1>1, <1>2

\* The younger entries of a log with one more.
LEMMA YoungerIsFinite ==
    ASSUME NEW log \in Seq(0..Oldest), NEW n \in Int
    PROVE  /\ Younger(log, n) \subseteq 1..Len(log) /\ IsFiniteSet(Younger(log, n))
           /\ Cardinality(Younger(log, n)) \in Nat /\ Cardinality(Younger(log, n)) <= Len(log)
<1>1. Younger(log, n) \subseteq 1..Len(log) /\ Len(log) \in Nat
  BY DEF Younger
<1>2. IsFiniteSet(1..Len(log)) /\ Cardinality(1..Len(log)) = Len(log)
  <2> DEFINE length == Len(log)
  <2>1. length \in Nat
    BY <1>1
  <2> HIDE DEF length
  <2>2. IsFiniteSet(1..length)
    BY <2>1, FS_Interval
  <2>3. Cardinality(1..length) = length
    BY <2>1, FS_Interval
  <2> QED BY <2>2, <2>3 DEF length
<1> QED BY <1>1, <1>2, FS_Subset, FS_CardinalityType

LEMMA YoungerOfAppend ==
    ASSUME NEW log \in Seq(0..Oldest), NEW e \in 0..Oldest, NEW n \in Int
    PROVE  Cardinality(Younger(Append(log, e), n)) =
              Cardinality(Younger(log, n)) + (IF e < n THEN 1 ELSE 0)
<1> DEFINE longer == Append(log, e)
<1>1. /\ Len(log) \in Nat /\ DOMAIN log = 1..Len(log)
      /\ DOMAIN longer = 1..(Len(log) + 1) /\ longer[Len(log) + 1] = e
      /\ \A i \in 1..Len(log) : longer[i] = log[i]
  BY AppendProperties, LenProperties
<1> HIDE DEF longer
<1>2. CASE e < n
  <2>1. Younger(longer, n) = Younger(log, n) \cup {Len(log) + 1}
    BY <1>1, <1>2 DEF Younger
  <2>2. Len(log) + 1 \notin Younger(log, n)
    BY <1>1 DEF Younger
  <2> QED BY <1>2, <2>1, <2>2, YoungerIsFinite, FS_AddElement DEF longer
<1>3. CASE ~(e < n)
  <2>1. Younger(longer, n) = Younger(log, n)
    BY <1>1, <1>3 DEF Younger
  <2>2. Cardinality(Younger(log, n)) \in Nat
    BY YoungerIsFinite
  <2> QED BY <1>3, <2>1, <2>2 DEF longer
<1> QED BY <1>2, <1>3

\* What is kept of the first i entries.
Keeps(part, log, i, late) ==
    /\ part \in Seq(0..Oldest) /\ Len(part) <= i
    /\ \A j \in 1..Len(part) : part[j] - late < Window
    /\ i > 0 /\ log[1] - late >= Window => Len(part) < i
    /\ \A n \in 0..Window : Cardinality({j \in 1..i : log[j] < n}) <= Cardinality(Younger(part, n))

LEMMA KeepsMore ==
    ASSUME NEW log \in Seq(0..Oldest), NEW late \in 0..MaxDelay, NEW i \in 1..Len(log),
           NEW part, Keeps(part, log, i - 1, late),
           NEW next, next = IF log[i] - late < Window THEN Append(part, log[i]) ELSE part
    PROVE  Keeps(next, log, i, late)
<1> DEFINE e == log[i]
<1>1. e \in 0..Oldest /\ e \in Int /\ late \in Int /\ late >= 0 /\ i \in Int /\ i >= 1 /\ i - 1 \in Nat
  BY Sizes, LenProperties, ElementOfSeq
<1>2. part \in Seq(0..Oldest) /\ Len(part) \in Nat /\ Len(part) <= i - 1
  BY LenProperties DEF Keeps
<1>3. e - late < Window => /\ next \in Seq(0..Oldest) /\ Len(next) = Len(part) + 1
                          /\ next[Len(part) + 1] = e
                          /\ \A j \in 1..Len(part) : next[j] = part[j]
  BY <1>1, <1>2, AppendProperties
<1>4. next \in Seq(0..Oldest) /\ Len(next) <= i
  BY <1>1, <1>2, <1>3
<1>5. ASSUME NEW j \in 1..Len(next) PROVE next[j] - late < Window
  <2>1. \A k \in 1..Len(part) : part[k] - late < Window
    BY DEF Keeps
  <2>2. CASE e - late < Window
    <3>1. j = Len(part) + 1 \/ j \in 1..Len(part)
      BY <1>2, <1>3, <2>2
    <3> QED BY <1>3, <2>1, <2>2, <3>1
  <2>3. CASE ~(e - late < Window)
    BY <2>1, <2>3
  <2> QED BY <2>2, <2>3
<1>6. ASSUME log[1] - late >= Window PROVE Len(next) < i
  <2>1. CASE i = 1
    <3>1. ~(e - late < Window)
      BY <1>1, <1>6, <2>1, Sizes
    <3> QED BY <1>2, <2>1, <3>1
  <2>2. CASE i # 1
    <3>1. Len(part) < i - 1
      BY <1>1, <1>6, <2>2 DEF Keeps
    <3> QED BY <1>1, <1>2, <1>3, <3>1
  <2> QED BY <2>1, <2>2
<1>7. ASSUME NEW n \in 0..Window
      PROVE  Cardinality({j \in 1..i : log[j] < n}) <= Cardinality(Younger(next, n))
  <2> DEFINE old == {j \in 1..(i - 1) : log[j] < n}  new == {j \in 1..i : log[j] < n}
  <2>1. IsFiniteSet(old) /\ Cardinality(old) \in Nat /\ i \notin old
    <3> DEFINE length == i - 1
    <3>1. length \in Int
      BY <1>1
    <3>2. old \subseteq 1..length /\ i \notin 1..length
      BY <1>1
    <3> HIDE DEF old
    <3>3. i \notin old
      BY <3>2
    <3> HIDE DEF length
    <3>4. IsFiniteSet(1..length)
      BY <3>1, FS_Interval
    <3>5. IsFiniteSet(old)
      BY <3>2, <3>4, FS_Subset
    <3>6. Cardinality(old) \in Nat
      BY <3>5, FS_CardinalityType
    <3> QED BY <3>3, <3>5, <3>6
  <2>2. Cardinality(old) <= Cardinality(Younger(part, n))
    BY DEF Keeps
  <2>3. n \in Int /\ n <= Window
    BY Sizes
  <2>4. Cardinality(Younger(part, n)) \in Nat
    BY <1>2, <2>3, YoungerIsFinite
  <2>5. CASE e < n
    <3>1. new = old \cup {i}
      BY <1>1, <2>5
    <3>2. Cardinality(new) = Cardinality(old) + 1
      <4> HIDE DEF old, new
      <4> QED BY <2>1, <3>1, FS_AddElement
    <3>3. next = Append(part, e)
      BY <1>1, <2>3, <2>5, Sizes
    <3>4. Cardinality(Younger(next, n)) = Cardinality(Younger(part, n)) + 1
      BY <1>1, <1>2, <2>3, <2>5, <3>3, YoungerOfAppend
    <3> HIDE DEF old, new
    <3>5. Cardinality(new) <= Cardinality(Younger(next, n))
      BY <2>1, <2>2, <2>4, <3>2, <3>4
    <3> QED BY <3>5 DEF new
  <2>6. CASE ~(e < n)
    <3>1. new = old
      BY <1>1, <2>6
    <3>2. Cardinality(Younger(next, n)) >= Cardinality(Younger(part, n))
      <4>1. CASE e - late < Window
        <5>1. Cardinality(Younger(Append(part, e), n)) = Cardinality(Younger(part, n)) + 0
          BY <1>1, <1>2, <2>3, <2>6, YoungerOfAppend
        <5> QED BY <2>4, <4>1, <5>1
      <4>2. CASE ~(e - late < Window)
        BY <2>4, <4>2
      <4> QED BY <4>1, <4>2
    <3>3. Cardinality(Younger(next, n)) \in Nat
      BY <1>4, <2>3, YoungerIsFinite
    <3> HIDE DEF old, new
    <3>4. Cardinality(new) <= Cardinality(Younger(next, n))
      BY <2>1, <2>2, <2>4, <3>1, <3>2, <3>3
    <3> QED BY <3>4 DEF new
  <2> QED BY <2>5, <2>6
<1> HIDE DEF e
<1> QED BY <1>4, <1>5, <1>6, <1>7 DEF Keeps

LEMMA KeptIsSound ==
    ASSUME NEW log \in Seq(0..Oldest), NEW late \in 0..MaxDelay,
           NEW kept, IsKept(kept, log, late, Len(log))
    PROVE  Keeps(kept[Len(log)], log, Len(log), late)
<1> DEFINE m == Len(log)
<1>1. m \in Nat
  BY LenProperties
<1>2. ASSUME NEW i \in 0..m
      PROVE  kept[i] = IF i = 0 THEN <<>>
                       ELSE IF log[i] - late < Window THEN Append(kept[i - 1], log[i]) ELSE kept[i - 1]
  BY Zenon DEF IsKept
<1>3. Keeps(kept[0], log, 0, late)
  <2>1. kept[0] = <<>>
    BY <1>1, <1>2
  <2>2. ASSUME NEW n PROVE Younger(<<>>, n) = {} /\ {j \in 1..0 : log[j] < n} = {}
    BY DEF Younger
  <2>3. Cardinality({}) = 0
    BY FS_EmptySet
  <2>4. <<>> \in Seq(0..Oldest) /\ Len(<<>>) = 0
    OBVIOUS
  <2>5. ASSUME NEW n \in 0..Window
        PROVE  Cardinality({j \in 1..0 : log[j] < n}) <= Cardinality(Younger(<<>>, n))
    <3>1. {j \in 1..0 : log[j] < n} = {} /\ Younger(<<>>, n) = {}
      BY <2>2
    <3>2. 0 <= 0
      OBVIOUS
    <3> QED BY <2>3, <3>1, <3>2, Zenon
  <2>6. \A j \in 1..Len(<<>>) : <<>>[j] - late < Window
    BY <2>4
  <2>7. Keeps(<<>>, log, 0, late)
    BY <2>4, <2>5, <2>6 DEF Keeps
  <2> QED BY <2>1, <2>7
<1> DEFINE S == {i \in 0..m : ~Keeps(kept[i], log, i, late)}
<1>4. S = {}
  <2> SUFFICES ASSUME S # {} PROVE FALSE
    OBVIOUS
  <2>1. S \in SUBSET Nat
    BY <1>1
  <2>2. PICK x \in S : \A y \in S : x <= y
    <3> HIDE DEF S
    <3> QED BY <2>1, LeastOne
  <2>3. x \in 1..m /\ x - 1 \in 0..m
    BY <1>1, <1>3
  <2>4. x - 1 \notin S
    <3> HIDE DEF S
    <3>1. ~(x <= x - 1)
      BY <2>3, <1>1
    <3> QED BY <2>2, <3>1
  <2>5. Keeps(kept[x - 1], log, x - 1, late)
    BY <2>3, <2>4
  <2>6. kept[x] = IF log[x] - late < Window THEN Append(kept[x - 1], log[x]) ELSE kept[x - 1]
    BY <1>1, <1>2, <2>3
  <2>7. Keeps(kept[x], log, x, late)
    BY <2>3, <2>5, <2>6, KeepsMore
  <2> QED BY <2>7
<1> QED BY <1>1, <1>4

\* What is active is short, young, and all that is young.
LEMMA ActiveFacts ==
    ASSUME NEW log \in Seq(0..Oldest), NEW late \in 0..MaxDelay,
           NEW active, active = Active(log, late)
    PROVE  /\ active \in Seq(0..Oldest) /\ Len(active) \in Nat /\ Len(log) \in Nat
           /\ Len(active) <= Len(log)
           /\ \A j \in 1..Len(active) : active[j] - late < Window
           /\ log # <<>> /\ log[1] - late >= Window => Len(active) < Len(log)
           /\ \A n \in 0..Window : Cardinality(Younger(log, n)) <= Cardinality(Younger(active, n))
<1>1. Len(log) \in Nat /\ DOMAIN log = 1..Len(log)
  BY LenProperties
<1>2. PICK kept : IsKept(kept, log, late, Len(log)) /\ active = kept[Len(log)]
  BY <1>1, ActiveIsKept
<1>3. Keeps(active, log, Len(log), late)
  BY <1>2, KeptIsSound
<1>4. \A n : Younger(log, n) = {j \in 1..Len(log) : log[j] < n}
  BY <1>1 DEF Younger
<1>5. log # <<>> => Len(log) > 0
  BY EmptySeq, <1>1
<1>6. Len(active) \in Nat
  BY <1>3, LenProperties DEF Keeps
<1> QED BY <1>1, <1>3, <1>4, <1>5, <1>6 DEF Keeps

LEMMA LogState == StateOf("log") = {log \in Seq(0..Oldest) : Len(log) <= Limit}
BY DEF StateOf

LEMMA LogFacts ==
    ASSUME algorithm = "log", NEW seen \in StateOf("log") \cup {None}, NEW late \in 0..MaxDelay,
           NEW r, r = Consume(seen, late),
           NEW active, active = IF seen = None THEN <<>> ELSE Active(seen, late)
    PROVE  /\ active \in Seq(0..Oldest) /\ Len(active) \in Nat /\ Len(active) <= Limit
           /\ r.allowed \in BOOLEAN /\ (r.allowed <=> Len(active) < Limit)
           /\ r.state = (IF r.allowed THEN Append(active, late) ELSE active)
           /\ r.state \in StateOf("log")
           /\ r.wait \in Int
           /\ ~r.allowed => active # <<>> /\ active[1] \in Int /\ r.wait >= Window - (active[1] - late)
<1>1. /\ Limit \in Nat /\ Limit >= 1 /\ Window \in Int /\ Oldest \in Nat
      /\ late \in Int /\ late \in 0..Oldest
  BY Sizes, Delays
<1>2. active \in Seq(0..Oldest) /\ Len(active) \in Nat /\ Len(active) <= Limit
  <2>1. CASE seen = None
    BY <1>1, <2>1, EmptySeq
  <2>2. CASE seen # None
    <3>1. seen \in Seq(0..Oldest) /\ Len(seen) <= Limit
      BY <2>2, LogState
    <3>2. Len(active) \in Nat /\ Len(seen) \in Nat /\ Len(active) <= Len(seen) /\ active \in Seq(0..Oldest)
      BY <2>2, <3>1, ActiveFacts
    <3> QED BY <1>1, <3>1, <3>2
  <2> QED BY <2>1, <2>2
<1> DEFINE wait == IF active = <<>> THEN 0 ELSE Window - (Head(active) - late)
           room == Len(active) < Limit
<1>3. Consume(seen, late) = SlidingLog(seen, late)
  BY DEF Consume
<1>4. r = Result(room, active, Append(active, late), wait)
  BY <1>3 DEF SlidingLog
<1>5. active # <<>> => Head(active) = active[1] /\ active[1] \in Int /\ active[1] \in 0..Oldest
  <2>1. active # <<>> => 1 \in 1..Len(active)
    BY <1>2, EmptySeq
  <2>2. active # <<>> => active[1] \in 0..Oldest
    BY <1>2, <2>1, ElementOfSeq
  <2> QED BY <1>1, <1>2, <2>2
<1>6. wait \in Int
  BY <1>1, <1>5
<1> HIDE DEF wait
<1>7. Seconds(wait) \in Int /\ wait <= Seconds(wait)
  BY <1>6, SecondsFacts
<1>8. room \in BOOLEAN
  OBVIOUS
<1> HIDE DEF room
<1>9. /\ r.allowed = room /\ r.state = (IF room THEN Append(active, late) ELSE active)
      /\ r.wait = (IF room THEN 0 ELSE Seconds(wait))
  BY <1>4 DEF Result
<1>10. r.allowed \in BOOLEAN /\ (r.allowed <=> Len(active) < Limit)
  BY <1>8, <1>9 DEF room
<1>11. r.state \in StateOf("log")
  <2>1. CASE room
    <3>1. Append(active, late) \in Seq(0..Oldest) /\ Len(Append(active, late)) = Len(active) + 1
      BY <1>1, <1>2, AppendProperties
    <3>2. Len(active) + 1 <= Limit
      BY <1>1, <1>2, <2>1 DEF room
    <3> QED BY <1>9, <2>1, <3>1, <3>2, LogState
  <2>2. CASE ~room
    BY <1>2, <1>9, <2>2, LogState
  <2> QED BY <2>1, <2>2
<1>12. r.wait \in Int
  BY <1>7, <1>9
<1>13. ASSUME ~r.allowed PROVE active # <<>> /\ active[1] \in Int /\ r.wait >= Window - (active[1] - late)
  <2>1. active # <<>>
    <3>1. ~(Len(active) < Limit)
      BY <1>10, <1>13
    <3>2. Len(active) >= 1
      BY <1>1, <1>2, <3>1
    <3>3. Len(<<>>) = 0
      OBVIOUS
    <3> QED BY <3>2, <3>3
  <2>2. wait = Window - (active[1] - late)
    BY <1>5, <2>1 DEF wait
  <2> QED BY <1>1, <1>5, <1>6, <1>7, <1>9, <1>13, <2>1, <2>2
<1> QED BY <1>2, <1>9, <1>10, <1>11, <1>12, <1>13

\* A log that covers what was counted still does after a request, and covers that one too.
LEMMA LogConsumed ==
    ASSUME algorithm = "log", NEW seen \in StateOf("log") \cup {None}, NEW late \in 0..MaxDelay,
           NEW r, r = Consume(seen, late),
           NEW counts, Cumulative(counts), LogCovers(seen, counts)
    PROVE  /\ LogCovers(r.state, counts)
           /\ \A more : r.allowed /\ OneMore(counts, more, late) => LogCovers(r.state, more)
<1> DEFINE active == IF seen = None THEN <<>> ELSE Active(seen, late)
<1>1. /\ active \in Seq(0..Oldest) /\ Len(active) \in Nat
      /\ r.allowed \in BOOLEAN
      /\ r.state = (IF r.allowed THEN Append(active, late) ELSE active)
      /\ r.state \in StateOf("log")
  BY LogFacts
<1>2. r.state # None
  BY <1>1, NotNone DEF Algorithm
<1>3. late \in Int /\ late >= 0 /\ late \in 0..Oldest /\ Window \in Int /\ Window >= 1
  BY Sizes, Delays
<1>4. ASSUME NEW n \in 0..Window
      PROVE  /\ n \in Int /\ n \in 0..(2 * Window) /\ counts[n] \in Int
             /\ Cardinality(Younger(active, n)) \in Nat
             /\ counts[n] <= Cardinality(Younger(active, n))
  <2>1. n \in Int /\ 0 <= n /\ n <= 2 * Window /\ n \in 0..(2 * Window)
    BY <1>3
  <2>2. counts[n] \in Int
    BY <2>1, CumulativeFacts
  <2>3. Cardinality(Younger(active, n)) \in Nat
    BY <1>1, <2>1, YoungerIsFinite
  <2>4. counts[n] <= IF seen = None THEN 0 ELSE Cardinality(Younger(seen, n))
    BY DEF LogCovers
  <2>5. CASE seen = None
    <3> HIDE DEF active
    <3> QED BY <2>1, <2>2, <2>3, <2>4, <2>5
  <2>6. CASE seen # None
    <3>1. seen \in Seq(0..Oldest)
      BY <2>6, LogState
    <3>2. Cardinality(Younger(seen, n)) <= Cardinality(Younger(active, n))
      BY <2>6, <3>1, ActiveFacts
    <3>3. Cardinality(Younger(seen, n)) \in Nat
      BY <2>1, <3>1, YoungerIsFinite
    <3> HIDE DEF active
    <3> QED BY <2>1, <2>2, <2>3, <2>4, <2>6, <3>2, <3>3
  <2> QED BY <2>5, <2>6
<1> HIDE DEF active
<1>5. ASSUME NEW n \in 0..Window
      PROVE  Cardinality(Younger(Append(active, late), n)) =
                Cardinality(Younger(active, n)) + (IF late < n THEN 1 ELSE 0)
  BY <1>1, <1>3, <1>4, YoungerOfAppend
<1>6. ASSUME NEW n \in 0..Window
      PROVE  counts[n] <= Cardinality(Younger(r.state, n))
  <2>1. CASE r.allowed
    BY <1>1, <1>3, <1>4, <1>5, <2>1
  <2>2. CASE ~r.allowed
    BY <1>1, <1>4, <2>2
  <2> QED BY <1>1, <2>1, <2>2
<1>7. LogCovers(r.state, counts)
  BY <1>2, <1>6 DEF LogCovers
<1>8. ASSUME NEW more, r.allowed, OneMore(counts, more, late) PROVE LogCovers(r.state, more)
  <2>1. ASSUME NEW n \in 0..Window PROVE more[n] <= Cardinality(Younger(r.state, n))
    <3>1. more[n] = counts[n] + (IF n > late THEN 1 ELSE 0)
      BY <1>4, <1>8 DEF OneMore
    <3> QED BY <1>1, <1>3, <1>4, <1>5, <1>8, <3>1
  <2> QED BY <1>2, <2>1 DEF LogCovers
<1> QED BY <1>7, <1>8

\* A tick later a log knows of the same requests.
LEMMA LogAged ==
    ASSUME algorithm = "log", NEW st \in StateOf("log") \cup {None}
    PROVE  /\ Aged(st) \in StateOf("log") \cup {None}
           /\ (Aged(st) = None) <=> (st = None)
           /\ \A counts, later : Cumulative(counts) /\ Later(counts, later) /\ LogCovers(st, counts)
                                    => LogCovers(Aged(st), later)
           /\ st # None /\ st # <<>> => Aged(st)[1] = Lower(Oldest, st[1] + 1) /\ st[1] \in 0..Oldest
           /\ st # None => (Aged(st) = <<>> <=> st = <<>>)
<1>1. Oldest \in Nat /\ Window \in Nat /\ Window < Oldest
  BY Sizes
<1>2. CASE st = None
  <2>1. Aged(st) = None
    BY <1>2 DEF Aged
  <2>2. ASSUME NEW counts, NEW later, Later(counts, later), LogCovers(st, counts)
        PROVE  LogCovers(None, later)
    <3>1. later[0] = 0 /\ \A n \in 1..Window : later[n] = counts[n - 1]
      BY <2>2 DEF Later
    <3>2. \A n \in 0..Window : counts[n] <= 0
      BY <1>2, <2>2 DEF LogCovers
    <3>3. ASSUME NEW n \in 0..Window PROVE later[n] <= 0
      <4>1. CASE n = 0
        BY <3>1, <4>1
      <4>2. CASE n # 0
        <5>1. n \in 1..Window /\ n - 1 \in 0..Window
          BY <1>1, <4>2
        <5> QED BY <3>1, <3>2, <5>1
      <4> QED BY <4>1, <4>2
    <3> QED BY <3>3 DEF LogCovers
  <2> QED BY <1>2, <2>1, <2>2
<1>3. CASE st # None
  <2> DEFINE aged == [i \in DOMAIN st |-> Lower(Oldest, st[i] + 1)]
  <2>1. Aged(st) = aged
    BY <1>3 DEF Aged
  <2>2. st \in Seq(0..Oldest) /\ Len(st) <= Limit /\ Len(st) \in Nat /\ DOMAIN st = 1..Len(st)
    BY <1>3, LogState, LenProperties
  <2>3. \A i \in 1..Len(st) : st[i] \in 0..Oldest /\ aged[i] = Lower(Oldest, st[i] + 1)
    BY <2>2, ElementOfSeq
  <2>4. \A i \in 1..Len(st) : Lower(Oldest, st[i] + 1) \in 0..Oldest
    BY <2>3, AgeAged
  <2>5. aged \in Seq(0..Oldest) /\ Len(aged) = Len(st)
    <3>1. aged \in [1..Len(st) -> 0..Oldest]
      BY <2>2, <2>4
    <3> DEFINE length == Len(st)
    <3> HIDE DEF aged
    <3>2. length \in Nat
      BY <2>2
    <3>3. aged \in [1..length -> 0..Oldest]
      BY <3>1
    <3> HIDE DEF length
    <3>4. aged \in Seq(0..Oldest)
      BY <3>2, <3>3, SeqDef
    <3>5. Len(aged) = length
      BY <3>2, <3>3, <3>4, LenProperties
    <3> QED BY <3>4, <3>5 DEF length
  <2> HIDE DEF aged
  <2>6. aged \in StateOf("log")
    BY <2>2, <2>5, LogState
  <2>7. aged # None
    BY <2>6, NotNone DEF Algorithm
  <2>8. ASSUME NEW n \in 1..Window PROVE Younger(aged, n) = Younger(st, n - 1)
    <3>1. DOMAIN aged = 1..Len(st)
      BY <2>5, LenProperties
    <3>2. ASSUME NEW i \in 1..Len(st) PROVE aged[i] < n <=> st[i] < n - 1
      <4>1. st[i] \in Int /\ st[i] <= Oldest /\ aged[i] = Lower(Oldest, st[i] + 1) /\ n \in Int /\ n <= Window
        BY <1>1, <2>3
      <4> QED BY <1>1, <4>1 DEF Lower
    <3> QED BY <2>2, <3>1, <3>2 DEF Younger
  <2>9. ASSUME NEW counts, NEW later, Later(counts, later), LogCovers(st, counts)
        PROVE  LogCovers(aged, later)
    <3>1. later[0] = 0 /\ \A n \in 1..Window : later[n] = counts[n - 1]
      BY <2>9 DEF Later
    <3>2. \A n \in 0..Window : counts[n] <= Cardinality(Younger(st, n))
      BY <1>3, <2>9 DEF LogCovers
    <3>3. ASSUME NEW n \in 0..Window PROVE later[n] <= Cardinality(Younger(aged, n))
      <4>1. CASE n = 0
        <5>1. Cardinality(Younger(aged, n)) \in Nat
          BY <2>5, <1>1, YoungerIsFinite
        <5> QED BY <3>1, <4>1, <5>1
      <4>2. CASE n # 0
        <5>1. n \in 1..Window /\ n - 1 \in 0..Window
          BY <1>1, <4>2
        <5>2. counts[n - 1] <= Cardinality(Younger(st, n - 1))
          BY <3>2, <5>1
        <5> QED BY <2>8, <3>1, <5>1, <5>2
      <4> QED BY <4>1, <4>2
    <3> QED BY <2>7, <3>3 DEF LogCovers
  <2>10. st # <<>> => aged[1] = Lower(Oldest, st[1] + 1) /\ st[1] \in 0..Oldest
    <3>1. st # <<>> => 1 \in 1..Len(st)
      BY <2>2, EmptySeq
    <3> QED BY <2>3, <3>1
  <2>11. aged = <<>> <=> st = <<>>
    <3>1. Len(<<>>) = 0
      OBVIOUS
    <3>2. st # <<>> => Len(st) # 0
      BY <2>2, EmptySeq
    <3>3. aged # <<>> => Len(aged) # 0
      BY <2>5, EmptySeq
    <3> QED BY <2>5, <3>1, <3>2, <3>3
  <2> QED BY <1>3, <2>1, <2>6, <2>7, <2>9, <2>10, <2>11
<1> QED BY <1>2, <1>3

\* Whoever a log rejects finds room after the time it was told; the time runs with the entries.
LEMMA LogGrants ==
    ASSUME algorithm = "log", NEW seen \in StateOf("log") \cup {None}, NEW late \in 0..MaxDelay,
           NEW r, r = Consume(seen, late), ~r.allowed, NEW at
    PROVE  Grants("log", r.state, Higher(0, r.wait - late), at)
<1> DEFINE active == IF seen = None THEN <<>> ELSE Active(seen, late)
           wait == Higher(0, r.wait - late)
<1>1. r.state = active /\ active[1] \in Int /\ r.wait \in Int /\ r.wait >= Window - (active[1] - late)
  BY LogFacts
<1> HIDE DEF active
<1>2. Window \in Int /\ late \in Int
  BY Sizes
<1>3. active[1] + wait >= Window
  BY <1>1, <1>2 DEF Higher
<1> QED BY <1>1, <1>3 DEF Grants

LEMMA LogGrantsLater ==
    ASSUME algorithm = "log", NEW st \in StateOf("log") \cup {None},
           NEW wait \in Nat, NEW at, NEW next, Grants("log", st, wait, at)
    PROVE  Grants("log", Aged(st), Higher(0, wait - 1), next)
<1> DEFINE after == Higher(0, wait - 1)
<1> SUFFICES ASSUME Aged(st) # None, Aged(st) # <<>> PROVE Aged(st)[1] + after >= Window
  BY DEF Grants
<1>1. st # None /\ st # <<>>
  BY LogAged
<1>2. Aged(st)[1] = Lower(Oldest, st[1] + 1) /\ st[1] \in 0..Oldest
  BY <1>1, LogAged
<1>3. st[1] + wait >= Window
  BY <1>1 DEF Grants
<1>4. Oldest \in Nat /\ Window \in Int /\ Oldest > Window /\ st[1] \in Int
  BY <1>2, Sizes
<1>5. Lower(Oldest, st[1] + 1) + after >= Window
  BY <1>3, <1>4 DEF Lower, Higher
<1> QED BY <1>2, <1>5

LEMMA LogGranted ==
    ASSUME algorithm = "log", NEW st \in StateOf("log") \cup {None}, NEW at, Grants("log", st, 0, at)
    PROVE  Consume(st, 0).allowed
<1> DEFINE zero == 0
<1>1. zero \in 0..MaxDelay /\ zero \in Int /\ Limit \in Nat /\ Limit >= 1 /\ Window \in Int
  BY Sizes
<1>2. zero = 0
  OBVIOUS
<1> HIDE DEF zero
<1> DEFINE active == IF st = None THEN <<>> ELSE Active(st, zero)
           r == Consume(st, zero)
<1>3. (r.allowed <=> Len(active) < Limit) /\ Len(active) \in Nat
  BY <1>1, LogFacts
<1>4. CASE st = None
  <2>1. Len(active) = 0
    BY <1>4, EmptySeq
  <2> HIDE DEF active, r
  <2>2. r.allowed
    BY <1>1, <1>3, <2>1
  <2> QED BY <1>2, <2>2 DEF r
<1>5. CASE st # None
  <2>1. st \in Seq(0..Oldest) /\ Len(st) <= Limit
    BY <1>5, LogState
  <2>2. /\ Len(active) <= Len(st) /\ Len(st) \in Nat
        /\ st # <<>> /\ st[1] - zero >= Window => Len(active) < Len(st)
    BY <1>1, <1>5, <2>1, ActiveFacts
  <2>3. st = <<>> => Len(st) = 0
    OBVIOUS
  <2>4. st # <<>> => st[1] + 0 >= Window /\ st[1] \in Int
    <3>1. st # <<>> => st[1] + 0 >= Window
      BY <1>5 DEF Grants
    <3>2. st # <<>> => st[1] \in 0..Oldest
      BY <1>5, LogAged
    <3> QED BY <3>1, <3>2, Sizes
  <2> HIDE DEF active, r
  <2>5. st # <<>> => st[1] - zero >= Window
    BY <1>1, <1>2, <2>4
  <2>6. Len(active) < Limit
    BY <1>1, <1>3, <2>1, <2>2, <2>3, <2>5
  <2>7. r.allowed
    BY <1>3, <2>6
  <2> QED BY <1>2, <2>7 DEF r
<1> QED BY <1>4, <1>5

\* A log that covers what was counted keeps the limit in a rolling window.
LEMMA LogLimits ==
    ASSUME NEW st \in StateOf("log") \cup {None}, NEW counts, Cumulative(counts), LogCovers(st, counts)
    PROVE  counts[Window] <= Limit
<1>1. Window \in 0..Window /\ Window \in Int /\ Limit \in Nat /\ 0 <= Window /\ Window <= 2 * Window
  BY Sizes
<1>2. counts[Window] \in Int
  BY <1>1, CumulativeFacts
<1>3. counts[Window] <= IF st = None THEN 0 ELSE Cardinality(Younger(st, Window))
  BY <1>1 DEF LogCovers
<1>4. CASE st = None
  BY <1>1, <1>2, <1>3, <1>4
<1>5. CASE st # None
  <2>1. st \in Seq(0..Oldest) /\ Len(st) <= Limit /\ Len(st) \in Nat
    BY <1>5, LogState, LenProperties
  <2>2. Cardinality(Younger(st, Window)) \in Nat /\ Cardinality(Younger(st, Window)) <= Len(st)
    BY <1>1, <2>1, YoungerIsFinite
  <2> QED BY <1>1, <1>2, <1>3, <1>5, <2>1, <2>2
<1> QED BY <1>4, <1>5

-----------------------------------------------------------------------------
(* All algorithms together *)

Other == {"fixed", "log", "counter"}

LEMMA Algorithms == Algorithm = Buckets \cup Other
BY DEF Algorithm, Buckets, Other

\* What is counted one tick later; only the sliding window counter looks two windows back.
Shifted(a, counts) ==
    [n \in DOMAIN counts |->
        IF n = 0 THEN 0 ELSE counts[(IF a = "counter" THEN n ELSE Lower(n, Window)) - 1]]

LEMMA ShiftFacts ==
    ASSUME NEW a, NEW counts, Cumulative(counts), NEW later, later = Shifted(a, counts)
    PROVE  /\ Cumulative(later) /\ Later(counts, later)
           /\ a = "counter" => \A n \in 1..(2 * Window) : later[n] = counts[n - 1]
           /\ \A n \in 1..(2 * Window) : later[n] <= counts[n - 1] /\ n - 1 \in 0..(2 * Window)
<1>1. Window \in Nat /\ Window >= 1
  BY Sizes
<1>2. counts \in [0..(2 * Window) -> Nat] /\ DOMAIN counts = 0..(2 * Window)
  BY DEF Cumulative
<1> DEFINE from(n) == (IF a = "counter" THEN n ELSE Lower(n, Window)) - 1
<1>3. ASSUME NEW n \in 1..(2 * Window)
      PROVE  /\ from(n) \in 0..(2 * Window) /\ from(n) <= n - 1 /\ n - 1 \in 0..(2 * Window)
             /\ n <= Window \/ a = "counter" => from(n) = n - 1
             /\ \A m \in 1..n : from(m) <= from(n)
  BY <1>1 DEF Lower
<1>4. later[0] = 0 /\ \A n \in 1..(2 * Window) : later[n] = counts[from(n)]
  BY <1>1, <1>2 DEF Shifted
<1>5. later \in [0..(2 * Window) -> Nat]
  <2>1. later = [n \in 0..(2 * Window) |-> IF n = 0 THEN 0 ELSE counts[from(n)]]
    BY <1>2 DEF Shifted
  <2>2. ASSUME NEW n \in 0..(2 * Window) PROVE (IF n = 0 THEN 0 ELSE counts[from(n)]) \in Nat
    <3>1. n # 0 => n \in 1..(2 * Window)
      BY <1>1
    <3>2. n # 0 => from(n) \in 0..(2 * Window)
      BY <1>3, <3>1
    <3> HIDE DEF from
    <3> QED BY <1>2, <3>2
  <2> HIDE DEF from
  <2> QED BY <2>1, <2>2
<1> HIDE DEF from
<1>6. \A m, n \in 0..(2 * Window) : m <= n => counts[m] <= counts[n]
  BY DEF Cumulative
<1>7. ASSUME NEW n \in 1..(2 * Window)
      PROVE  later[n] <= counts[n - 1] /\ n - 1 \in 0..(2 * Window)
  BY <1>3, <1>4, <1>6
<1>8. ASSUME NEW m \in 0..(2 * Window), NEW n \in 0..(2 * Window), m <= n
      PROVE  later[m] <= later[n]
  <2>1. later[m] \in Nat /\ later[n] \in Nat
    BY <1>5
  <2>2. CASE m = 0
    BY <1>4, <2>1, <2>2
  <2>3. CASE m # 0
    <3>1. m \in 1..n /\ m \in 1..(2 * Window) /\ n \in 1..(2 * Window)
      BY <1>1, <1>8, <2>3
    <3> QED BY <1>3, <1>4, <1>6, <3>1
  <2> QED BY <2>2, <2>3
<1>9. \A n \in 1..Window : n \in 1..(2 * Window) /\ later[n] = counts[n - 1]
  BY <1>1, <1>3, <1>4
<1>10. a = "counter" => \A n \in 1..(2 * Window) : later[n] = counts[n - 1]
  BY <1>3, <1>4
<1>11. Cumulative(later)
  BY <1>4, <1>5, <1>8 DEF Cumulative
<1>12. Later(counts, later)
  BY <1>4, <1>5, <1>9 DEF Later
<1> QED BY <1>7, <1>10, <1>11, <1>12

LEMMA ConsumeTyped ==
    ASSUME algorithm \in Algorithm, phase \in 0..(Window - 1),
           NEW seen \in StateOf(algorithm) \cup {None}, NEW late \in 0..MaxDelay,
           NEW r, r = Consume(seen, late)
    PROVE  /\ r.allowed \in BOOLEAN /\ r.wait \in Int
           /\ r.state \in StateOf(algorithm) /\ r.state # None
<1>1. CASE algorithm \in Buckets
  <2>1. 0 \in Int
    OBVIOUS
  <2> QED BY <1>1, <2>1, RoomTaken, NotNone
<1>2. CASE algorithm = "fixed"
  BY <1>2, FixedFacts, NotNone
<1>3. CASE algorithm = "log"
  BY <1>3, LogFacts, NotNone
<1>4. CASE algorithm = "counter"
  BY <1>4, CounterFacts, NotNone
<1> QED BY <1>1, <1>2, <1>3, <1>4, Algorithms DEF Other

LEMMA ConsumeSound ==
    ASSUME algorithm \in Algorithm,
           NEW seen \in StateOf(algorithm) \cup {None}, NEW late \in 0..MaxDelay,
           NEW r, r = Consume(seen, late),
           LevelIsSound(algorithm, seen), algorithm = "token" /\ seen # None => late <= seen.age,
           algorithm = "upload" => r.allowed
    PROVE  /\ LevelIsSound(algorithm, r.state)
           /\ algorithm \in Buckets => r.state \in [level : Int, age : {late}]
<1>1. CASE algorithm \in Buckets
  BY <1>1, LevelConsumed
<1>2. CASE algorithm \notin Buckets
  BY <1>2 DEF LevelIsSound, Buckets
<1> QED BY <1>1, <1>2

\* What covers what was counted still does after a request that is counted or not.
LEMMA ConsumeCovers ==
    ASSUME algorithm \in Algorithm, phase \in 0..(Window - 1),
           NEW seen \in StateOf(algorithm) \cup {None}, NEW late \in 0..MaxDelay,
           NEW r, r = Consume(seen, late), NEW b, b = "memory" => late = 0,
           NEW counts, Cumulative(counts), counts[late] = 0,
           Covers(algorithm, b, seen, counts, phase)
    PROVE  /\ Covers(algorithm, b, r.state, counts, phase)
           /\ \A more : r.allowed /\ OneMore(counts, more, late)
                           => Covers(algorithm, b, r.state, more, phase)
<1>1. CASE algorithm \in Buckets
  <2>1. \A st, c : Covers(algorithm, b, st, c, phase) <=> BucketCovers(algorithm, st, c)
    BY <1>1 DEF Covers, Buckets
  <2>2. BucketCovers(algorithm, seen, counts)
    BY <2>1
  <2>3. /\ BucketCovers(algorithm, r.state, counts)
        /\ \A more : r.allowed /\ OneMore(counts, more, late) => BucketCovers(algorithm, r.state, more)
    BY <1>1, <2>2, BucketConsumed
  <2> QED BY <2>1, <2>3
<1>2. CASE algorithm = "fixed"
  <2>1. \A st, c : Covers(algorithm, b, st, c, phase) <=> FixedCovers(st, c, phase)
    BY <1>2 DEF Covers
  <2>2. FixedCovers(seen, counts, phase) /\ seen \in StateOf("fixed") \cup {None}
    BY <1>2, <2>1
  <2>3. /\ FixedCovers(r.state, counts, phase)
        /\ \A more : r.allowed /\ OneMore(counts, more, late) => FixedCovers(r.state, more, phase)
    BY <1>2, <2>2, FixedConsumed
  <2> QED BY <2>1, <2>3
<1>3. CASE algorithm = "log"
  <2>1. \A st, c : Covers(algorithm, b, st, c, phase) <=> LogCovers(st, c)
    BY <1>3 DEF Covers
  <2>2. LogCovers(seen, counts) /\ seen \in StateOf("log") \cup {None}
    BY <1>3, <2>1
  <2>3. /\ LogCovers(r.state, counts)
        /\ \A more : r.allowed /\ OneMore(counts, more, late) => LogCovers(r.state, more)
    BY <1>3, <2>2, LogConsumed
  <2> QED BY <2>1, <2>3
<1>4. CASE algorithm = "counter"
  <2>1. \A st, c : Covers(algorithm, b, st, c, phase) <=> CounterCovers(b, st, c, phase)
    BY <1>4 DEF Covers
  <2>2. CounterCovers(b, seen, counts, phase) /\ seen \in StateOf("counter") \cup {None}
    BY <1>4, <2>1
  <2>3. /\ CounterCovers(b, r.state, counts, phase)
        /\ \A more : r.allowed /\ OneMore(counts, more, late) => CounterCovers(b, r.state, more, phase)
    BY <1>4, <2>2, CounterConsumed
  <2> QED BY <2>1, <2>3
<1> QED BY <1>1, <1>2, <1>3, <1>4, Algorithms DEF Other

\* Whoever is rejected will find room when it was told to come back.
LEMMA ConsumeGrants ==
    ASSUME algorithm \in Algorithm \ {"upload"}, phase \in 0..(Window - 1),
           NEW seen \in StateOf(algorithm) \cup {None}, NEW late \in 0..MaxDelay,
           NEW r, r = Consume(seen, late), ~r.allowed,
           LevelIsSound(algorithm, seen), algorithm = "token" /\ seen # None => late <= seen.age
    PROVE  Grants(algorithm, r.state, Higher(0, r.wait - late), phase)
<1>1. CASE algorithm \in {"token", "leaking"}
  BY <1>1, BucketGrants
<1>2. CASE algorithm = "fixed"
  BY <1>2, FixedGrants
<1>3. CASE algorithm = "log"
  BY <1>3, LogGrants
<1>4. CASE algorithm = "counter"
  BY <1>4 DEF Grants
<1> QED BY <1>1, <1>2, <1>3, <1>4 DEF Algorithm

LEMMA Granted ==
    ASSUME algorithm \in Algorithm \ {"upload", "counter"}, phase \in 0..(Window - 1),
           NEW st \in StateOf(algorithm) \cup {None}, Grants(algorithm, st, 0, phase)
    PROVE  Consume(st, 0).allowed
<1>1. CASE algorithm \in {"token", "leaking"}
  BY <1>1, BucketGranted
<1>2. CASE algorithm = "fixed"
  BY <1>2, FixedGranted
<1>3. CASE algorithm = "log"
  BY <1>3, LogGranted
<1> QED BY <1>1, <1>2, <1>3 DEF Algorithm

-----------------------------------------------------------------------------
(* A tick *)

LEMMA WindowAged ==
    ASSUME algorithm \in {"fixed", "counter"}, NEW st \in StateOf(algorithm) \cup {None}
    PROVE  Aged(st) \in StateOf(algorithm) \cup {None} /\ (Aged(st) = None <=> st = None)
<1>1. CASE st = None
  BY <1>1 DEF Aged
<1>2. CASE st # None
  <2> DEFINE older == Lower(3, st.window + (IF phase = Window - 1 THEN 1 ELSE 0))
  <2>1. Aged(st) = [st EXCEPT !.window = older]
    BY <1>2 DEF Aged
  <2>2. st.window \in 0..3
    BY <1>2 DEF StateOf
  <2>3. older \in 0..3
    BY <2>2 DEF Lower
  <2> HIDE DEF older
  <2>4. Aged(st) \in StateOf(algorithm)
    BY <1>2, <2>1, <2>3 DEF StateOf
  <2> QED BY <1>2, <2>4, NotNone DEF Algorithm
<1> QED BY <1>1, <1>2

LEMMA AgedTyped ==
    ASSUME algorithm \in Algorithm, NEW st \in StateOf(algorithm) \cup {None}
    PROVE  Aged(st) \in StateOf(algorithm) \cup {None} /\ (Aged(st) = None <=> st = None)
<1>1. CASE algorithm \in Buckets
  <2>1. 0 \in Int
    OBVIOUS
  <2> QED BY <1>1, <2>1, RoomAged
<1>2. CASE algorithm \in {"fixed", "counter"}
  BY <1>2, WindowAged
<1>3. CASE algorithm = "log"
  BY <1>3, LogAged
<1> QED BY <1>1, <1>2, <1>3, Algorithms DEF Other

LEMMA AgedSound ==
    ASSUME algorithm \in Algorithm, NEW st \in StateOf(algorithm) \cup {None},
           LevelIsSound(algorithm, st)
    PROVE  LevelIsSound(algorithm, Aged(st))
<1>1. CASE algorithm \in Buckets
  BY <1>1, LevelAged
<1>2. CASE algorithm \notin Buckets
  BY <1>2 DEF LevelIsSound, Buckets
<1> QED BY <1>1, <1>2

LEMMA AgedCovers ==
    ASSUME algorithm \in Algorithm, phase \in 0..(Window - 1),
           NEW st \in StateOf(algorithm) \cup {None}, NEW b,
           NEW counts, Cumulative(counts), NEW later, later = Shifted(algorithm, counts),
           Covers(algorithm, b, st, counts, phase)
    PROVE  Covers(algorithm, b, Aged(st), later, (phase + 1) % Window)
<1> DEFINE next == (phase + 1) % Window
<1>1. /\ Cumulative(later) /\ Later(counts, later)
      /\ algorithm = "counter" => \A n \in 1..(2 * Window) : later[n] = counts[n - 1]
  BY ShiftFacts
<1>2. CASE algorithm \in Buckets
  <2>1. \A s, c, at : Covers(algorithm, b, s, c, at) <=> BucketCovers(algorithm, s, c)
    BY <1>2 DEF Covers, Buckets
  <2>2. BucketCovers(algorithm, Aged(st), later)
    BY <1>1, <1>2, <2>1, BucketAged
  <2> QED BY <2>1, <2>2
<1>3. CASE algorithm = "fixed"
  <2>1. \A s, c, at : Covers(algorithm, b, s, c, at) <=> FixedCovers(s, c, at)
    BY <1>3 DEF Covers
  <2>2. FixedCovers(Aged(st), later, next)
    BY <1>1, <1>3, <2>1, FixedAged
  <2> QED BY <2>1, <2>2
<1>4. CASE algorithm = "log"
  <2>1. \A s, c, at : Covers(algorithm, b, s, c, at) <=> LogCovers(s, c)
    BY <1>4 DEF Covers
  <2>2. LogCovers(Aged(st), later)
    BY <1>1, <1>4, <2>1, LogAged
  <2> QED BY <2>1, <2>2
<1>5. CASE algorithm = "counter"
  <2>1. \A s, c, at : Covers(algorithm, b, s, c, at) <=> CounterCovers(b, s, c, at)
    BY <1>5 DEF Covers
  <2>2. later \in [0..(2 * Window) -> Nat] /\ later[0] = 0
    BY <1>1 DEF Cumulative
  <2>3. CounterCovers(b, Aged(st), later, next)
    BY <1>1, <1>5, <2>1, <2>2, CounterAged
  <2> QED BY <2>1, <2>3
<1> QED BY <1>2, <1>3, <1>4, <1>5, Algorithms DEF Other

LEMMA AgedGrants ==
    ASSUME algorithm \in Algorithm \ {"upload"}, phase \in 0..(Window - 1),
           NEW st \in StateOf(algorithm) \cup {None}, LevelIsSound(algorithm, st),
           NEW wait \in Nat, Grants(algorithm, st, wait, phase)
    PROVE  Grants(algorithm, Aged(st), Higher(0, wait - 1), (phase + 1) % Window)
<1>1. CASE algorithm \in {"token", "leaking"}
  BY <1>1, BucketGrantsLater
<1>2. CASE algorithm = "fixed"
  BY <1>2, FixedGrantsLater
<1>3. CASE algorithm = "log"
  BY <1>3, LogGrantsLater
<1>4. CASE algorithm = "counter"
  BY <1>4 DEF Grants
<1> QED BY <1>1, <1>2, <1>3, <1>4 DEF Algorithm

-----------------------------------------------------------------------------
(* Nothing counted *)

LEMMA NothingIsCumulative ==
    /\ Cumulative(NoneAdmitted) /\ DOMAIN NoneAdmitted = 0..(2 * Window)
    /\ \A n \in 0..(2 * Window) : NoneAdmitted[n] = 0
BY Sizes DEF NoneAdmitted, Cumulative

\* Nothing is covered by every state, if what a counter in memory holds is within its estimate.
LEMMA NothingCovered ==
    ASSUME NEW a \in Algorithm, NEW st \in StateOf(a) \cup {None}, NEW at \in 0..(Window - 1), NEW b,
           NEW counts, Cumulative(counts), \A n \in 0..(2 * Window) : counts[n] = 0,
           a = "counter" /\ b = "memory" /\ st # None
               => \E old : Covers(a, b, st, old, at)
    PROVE  Covers(a, b, st, counts, at)
<1>1. /\ Window \in Nat /\ Window >= 1 /\ at + 1 \in 0..(2 * Window)
      /\ at + 1 + Window \in 0..(2 * Window) /\ 0..Window \subseteq 0..(2 * Window)
  BY Sizes
<1>2. counts[at + 1] = 0 /\ counts[at + 1 + Window] = 0
  BY <1>1
<1>3. CASE a \in Buckets
  BY <1>3, BucketCoversNothing DEF Covers, Buckets
<1>4. CASE a = "fixed"
  <2>1. st # None => st.count \in Nat
    BY <1>4 DEF StateOf
  <2>2. FixedCovers(st, counts, at)
    BY <1>2, <2>1 DEF FixedCovers
  <2> QED BY <1>4, <2>2 DEF Covers
<1>5. CASE a = "log"
  <2>1. ASSUME NEW n \in 0..Window PROVE counts[n] <= IF st = None THEN 0 ELSE Cardinality(Younger(st, n))
    <3>1. counts[n] = 0 /\ n \in Int
      BY <1>1
    <3>2. CASE st = None
      BY <3>1, <3>2
    <3>3. CASE st # None
      <4>1. st \in Seq(0..Oldest)
        BY <1>5, <3>3, LogState
      <4>2. Cardinality(Younger(st, n)) \in Nat
        BY <3>1, <4>1, YoungerIsFinite
      <4> QED BY <3>1, <3>3, <4>2
    <3> QED BY <3>2, <3>3
  <2>2. LogCovers(st, counts)
    BY <2>1 DEF LogCovers
  <2> QED BY <1>5, <2>2 DEF Covers
<1>6. CASE a = "counter"
  <2>1. st # None => st.prev \in Nat /\ st.curr \in Nat
    BY <1>6 DEF StateOf
  <2>2. \A s, c : Covers(a, b, s, c, at) <=> CounterCovers(b, s, c, at)
    BY <1>6 DEF Covers
  <2>3. b = "memory" /\ st # None => \E old : CounterCovers(b, st, old, at)
    BY <1>6, <2>2
  <2>4. b = "memory" /\ st # None /\ st.window = 0 =>
            st.prev * (Window - at) + st.curr * Window < (Limit + 1) * Window
    BY <2>3 DEF CounterCovers
  <2>5. counts[at + 1 + Window] - counts[at + 1] = 0
    BY <1>2
  <2>6. CounterCovers(b, st, counts, at)
    BY <1>2, <2>1, <2>4, <2>5 DEF CounterCovers
  <2> QED BY <2>2, <2>6
<1> QED BY <1>3, <1>4, <1>5, <1>6, Algorithms DEF Other

-----------------------------------------------------------------------------
(* The steps *)

LEMMA InvFacts ==
    ASSUME LimiterInv
    PROVE  /\ algorithm \in Algorithm /\ backing \in {"redis", "memory"} /\ phase \in 0..(Window - 1)
           /\ \A s \in Store : entry[s] \in StateOf(algorithm) \cup {None} /\ ttl[s] \in 0..Ttl
           /\ \A c \in Call :
                 /\ request[c].at \in {"idle", "get", "set", "time"} /\ request[c].late \in 0..MaxDelay
                 /\ request[c].seen \in StateOf(algorithm) \cup {None} /\ request[c].alone \in BOOLEAN
           /\ Cumulative(admitted) /\ DOMAIN admitted = 0..(2 * Window)
<1>1. algorithm \in Algorithm /\ backing \in {"redis", "memory"}
  BY LimiterAssumption DEF LimiterInv, TypeOK
<1>2. Cumulative(admitted) /\ DOMAIN admitted = 0..(2 * Window)
  BY DEF LimiterInv, TypeOK, CountsAreKept, Cumulative
<1> QED BY <1>1, <1>2 DEF LimiterInv, TypeOK

LEMMA CountedFacts ==
    ASSUME LimiterInv, NEW c \in Call
    PROVE  Cumulative(Counted(c)) /\ OneMore(admitted, Counted(c), request[c].late)
<1>1. /\ request[c].late \in Int /\ request[c].late >= 0
      /\ admitted \in [0..(2 * Window) -> Nat] /\ DOMAIN admitted = 0..(2 * Window)
      /\ admitted[0] = 0 /\ \A m, n \in 0..(2 * Window) : m <= n => admitted[m] <= admitted[n]
  BY InvFacts, Sizes DEF Cumulative
<1> DEFINE late == request[c].late  more == Counted(c)
<1>2. more = [n \in 0..(2 * Window) |-> admitted[n] + (IF n > late THEN 1 ELSE 0)]
  BY <1>1 DEF Counted
<1> HIDE DEF late, more
<1>3. \A n \in 0..(2 * Window) : more[n] = admitted[n] + (IF n > late THEN 1 ELSE 0) /\ more[n] \in Nat
  BY <1>1, <1>2 DEF late
<1>4. more \in [0..(2 * Window) -> Nat]
  BY <1>2, <1>3
<1>5. 0 \in 0..(2 * Window) /\ late \in Int /\ late >= 0
  BY <1>1, Sizes DEF late
<1>6. more[0] = 0
  BY <1>1, <1>3, <1>5
<1>7. ASSUME NEW m \in 0..(2 * Window), NEW n \in 0..(2 * Window), m <= n PROVE more[m] <= more[n]
  <2>1. admitted[m] <= admitted[n] /\ admitted[m] \in Nat /\ admitted[n] \in Nat
    BY <1>1, <1>7
  <2> QED BY <1>3, <1>5, <1>7, <2>1
<1>8. Cumulative(more)
  BY <1>4, <1>6, <1>7 DEF Cumulative
<1>9. OneMore(admitted, more, late)
  BY <1>3, <1>4 DEF OneMore
<1> QED BY <1>8, <1>9 DEF more, late

\* A request that is alone is the only one; while one is in flight no promise stands.
LEMMA FlightFacts ==
    ASSUME LimiterInv, NEW c \in Call, request[c].at # "idle"
    PROVE  /\ c \in InFlight
           /\ \A d \in InFlight \ {c} : ~request[c].alone /\ ~request[d].alone
           /\ admitted[request[c].late] = 0 /\ promise = None
           /\ backing = "memory" => request[c].late = 0
BY InvFacts DEF LimiterInv, FlightsAreCounted, InFlight

\* Nothing has been counted while a request is not alone in the upload limiter in Redis, or
\* after a fault: then whatever is stored covers it.
LEMMA NothingInRedis ==
    ASSUME NEW a \in Algorithm, NEW st \in StateOf(a) \cup {None}, NEW at \in 0..(Window - 1)
    PROVE  Covers(a, "redis", st, NoneAdmitted, at)
BY NothingCovered, NothingIsCumulative

\* What is stored covers what was counted for whoever reads it, even between two writes.
LEMMA MainCovers ==
    ASSUME LimiterInv, NEW c \in Call, request[c].at \in {"get", "set"}
    PROVE  Covers(algorithm, backing, entry["main"], admitted, phase)
<1>1. CASE \A d \in Call : request[d].at # "time"
  BY <1>1 DEF LimiterInv, StatesCover
<1>2. CASE ~ \A d \in Call : request[d].at # "time"
  <2>1. PICK d \in Call : request[d].at = "time"
    BY <1>2
  <2>2. d # c /\ d \in InFlight /\ c \in InFlight
    BY <2>1 DEF InFlight
  <2>3. ~request[d].alone
    BY <2>1, <2>2, FlightFacts
  <2>4. algorithm = "upload" /\ backing = "redis" /\ admitted = NoneAdmitted
    BY <2>1, <2>2, <2>3 DEF LimiterInv, FlightsAreCounted
  <2>5. "main" \in Store
    BY DEF Store
  <2> QED BY <2>4, <2>5, InvFacts, NothingInRedis
<1> QED BY <1>1, <1>2

\* Nothing else happens when a request starts: those in flight are no longer alone.
LEMMA StartKeeps ==
    ASSUME LimiterInv, NEW c \in Call, Start(c)
    PROVE  LimiterInv'
<1>1. /\ algorithm' = algorithm /\ backing' = backing /\ phase' = phase
      /\ entry' = entry /\ ttl' = ttl /\ faults' = faults /\ promise' = None
  BY DEF Start, settings
<1>2. /\ request[c].at = "idle"
      /\ request'[c] = [at |-> "get", late |-> 0, seen |-> None, alone |-> (InFlight = {})]
      /\ \A d \in Call \ {c} : request'[d] = [request[d] EXCEPT !.alone = FALSE]
      /\ request' = [d \in Call |-> request'[d]]
  BY DEF Start, Idle
<1>3. \/ admitted' = admitted /\ ~(InFlight # {} /\ algorithm = "upload" /\ backing = "redis")
      \/ admitted' = NoneAdmitted /\ algorithm = "upload" /\ backing = "redis"
  BY DEF Start
<1>4. \A d \in Call \ {c} : /\ request'[d].at = request[d].at /\ request'[d].late = request[d].late
                            /\ request'[d].seen = request[d].seen /\ request'[d].alone = FALSE
  BY <1>2 DEF LimiterInv, TypeOK
<1>5. InFlight' = InFlight \cup {c} /\ c \notin InFlight /\ InFlight \subseteq Call
  BY <1>2, <1>4 DEF InFlight
<1>6. Cumulative(admitted')
  BY <1>3, InvFacts, NothingIsCumulative
<1>7. TypeOK'
  <2>1. request'[c] \in [at : {"idle", "get", "set", "time"}, late : 0..MaxDelay,
                         seen : StateOf(algorithm) \cup {None}, alone : BOOLEAN]
    BY <1>2, Sizes
  <2>2. \A d \in Call \ {c} :
            request'[d] \in [at : {"idle", "get", "set", "time"}, late : 0..MaxDelay,
                             seen : StateOf(algorithm) \cup {None}, alone : BOOLEAN]
    BY <1>2 DEF LimiterInv, TypeOK
  <2>3. request' \in [Call -> [at : {"idle", "get", "set", "time"}, late : 0..MaxDelay,
                               seen : StateOf(algorithm) \cup {None}, alone : BOOLEAN]]
    BY <1>2, <2>1, <2>2
  <2> QED BY <1>1, <1>6, <2>3 DEF LimiterInv, TypeOK, Cumulative
<1>8. FlightsAreCounted'
  <2>1. ASSUME NEW d \in InFlight'
        PROVE  /\ request'[d].alone => InFlight' = {d}
               /\ admitted'[request'[d].late] = 0
               /\ algorithm = "upload" /\ backing = "redis" /\ ~request'[d].alone => admitted' = NoneAdmitted
               /\ request'[d].at = "time" =>
                     algorithm = "upload" /\ backing = "redis" /\ entry["main"] # None
    <3>1. CASE d = c
      <4>1. admitted'[0] = 0
        BY <1>6 DEF Cumulative
      <4>2. request'[c].late = 0 /\ request'[c].at = "get" /\ request'[c].alone = (InFlight = {})
        BY <1>2
      <4>3. InFlight = {} => InFlight' = {c}
        BY <1>5
      <4>4. ASSUME request'[c].alone PROVE InFlight' = {c}
        BY <4>2, <4>3, <4>4
      <4>5. ASSUME algorithm = "upload", backing = "redis", ~request'[c].alone PROVE admitted' = NoneAdmitted
        BY <1>3, <4>2, <4>5
      <4> QED BY <3>1, <4>1, <4>2, <4>4, <4>5
    <3>2. CASE d # c
      <4>1. d \in InFlight /\ d \in Call /\ InFlight # {}
        BY <1>5, <3>2
      <4>2. admitted[request[d].late] = 0 /\ request[d].late \in 0..(2 * Window)
        BY <4>1, InvFacts, Sizes DEF LimiterInv, FlightsAreCounted
      <4>3. admitted'[request[d].late] = 0
        <5>1. CASE admitted' = admitted
          BY <4>2, <5>1
        <5>2. CASE admitted' = NoneAdmitted
          BY <4>2, <5>2, NothingIsCumulative
        <5> QED BY <1>3, <5>1, <5>2
      <4>4. request[d].at = "time" => algorithm = "upload" /\ backing = "redis" /\ entry["main"] # None
        BY <4>1 DEF LimiterInv, FlightsAreCounted
      <4> QED BY <1>3, <1>4, <3>2, <4>1, <4>3, <4>4
    <3> QED BY <3>1, <3>2
  <2>2. ASSUME NEW d \in Call, backing = "memory" PROVE request'[d].late = 0
    BY <1>2, <1>4, <2>2 DEF LimiterInv, FlightsAreCounted
  <2> QED BY <1>1, <2>1, <2>2 DEF FlightsAreCounted
<1>9. CountsAreKept'
  <2>1. ASSUME NEW n \in 0..(2 * Window), n <= Ttl - ttl["main"] PROVE admitted'[n] = 0
    BY <1>3, <2>1, InvFacts, NothingIsCumulative DEF LimiterInv, CountsAreKept
  <2>2. DOMAIN admitted' = 0..(2 * Window)
    BY <1>6 DEF Cumulative
  <2> QED BY <1>1, <1>6, <2>1, <2>2 DEF LimiterInv, CountsAreKept, Cumulative
<1>10. LevelsAreSound'
  <2>1. ASSUME NEW d \in Call
        PROVE  /\ LevelIsSound(algorithm, request'[d].seen)
               /\ algorithm = "token" /\ request'[d].at = "set" /\ request'[d].seen # None
                     => request'[d].late <= request'[d].seen.age
    <3>1. CASE d = c
      BY <1>2, <3>1 DEF LevelIsSound
    <3>2. CASE d # c
      BY <1>4, <3>2 DEF LimiterInv, LevelsAreSound
    <3> QED BY <3>1, <3>2
  <2> QED BY <1>1, <2>1 DEF LimiterInv, LevelsAreSound
<1>11. StatesCover'
  <2>1. ASSUME NEW st \in StateOf(algorithm) \cup {None}, Covers(algorithm, backing, st, admitted, phase)
        PROVE  Covers(algorithm, backing, st, admitted', phase)
    BY <1>3, <2>1, InvFacts, NothingInRedis
  <2>2. ASSUME NEW d \in Call, request'[d].at = "set"
        PROVE  Covers(algorithm, backing, request'[d].seen, admitted', phase)
    <3>1. d # c
      BY <1>2, <2>2
    <3> QED BY <1>4, <2>1, <2>2, <3>1, InvFacts DEF LimiterInv, StatesCover
  <2>3. ASSUME \A d \in Call : request'[d].at # "time"
        PROVE  Covers(algorithm, backing, entry["main"], admitted', phase)
    <3>1. \A d \in Call : request[d].at # "time"
      BY <1>2, <1>4, <2>3
    <3> QED BY <2>1, <3>1, InvFacts DEF LimiterInv, StatesCover, Store
  <2>4. ASSUME NEW d \in Call, request'[d].at = "time", request'[d].alone PROVE FALSE
    BY <1>2, <1>4, <2>4
  <2> QED BY <1>1, <2>2, <2>3, <2>4 DEF StatesCover
<1>12. PromisesAreKept'
  BY <1>1 DEF PromisesAreKept
<1> QED BY <1>7, <1>8, <1>9, <1>10, <1>11, <1>12 DEF LimiterInv

\* What a request reads covers what was counted; after a fault there is nothing to cover.
LEMMA GetKeeps ==
    ASSUME LimiterInv, NEW c \in Call, NEW s \in Store, Get(c, s),
           \/ s = "main" /\ UNCHANGED <<admitted, promise, faults>>
           \/ backing = "redis" /\ algorithm # "upload" /\ Disturbed
    PROVE  LimiterInv'
<1> DEFINE late == IF algorithm = "token" THEN 0 ELSE request[c].late
<1>1. /\ algorithm' = algorithm /\ backing' = backing /\ phase' = phase
      /\ entry' = entry /\ ttl' = ttl
  BY DEF Get, settings
<1>2. /\ request[c].at = "get"
      /\ request'[c].at = "set" /\ request'[c].late = late
      /\ request'[c].seen = entry[s] /\ request'[c].alone = request[c].alone
      /\ request'[c] \in [at : {"idle", "get", "set", "time"}, late : 0..MaxDelay,
                          seen : StateOf(algorithm) \cup {None}, alone : BOOLEAN]
      /\ \A d \in Call \ {c} : request'[d] = request[d]
      /\ request' = [d \in Call |-> request'[d]]
  <2>1. request \in [Call -> [at : {"idle", "get", "set", "time"}, late : 0..MaxDelay,
                              seen : StateOf(algorithm) \cup {None}, alone : BOOLEAN]]
    BY DEF LimiterInv, TypeOK
  <2> DEFINE read == [request[c] EXCEPT !.at = "set", !.seen = entry[s], !.late = late]
  <2>2. request' = [request EXCEPT ![c] = read] /\ request[c].at = "get"
    BY DEF Get
  <2> HIDE DEF late
  <2>3. /\ read.at = "set" /\ read.late = late /\ read.seen = entry[s]
        /\ read.alone = request[c].alone
        /\ read \in [at : {"idle", "get", "set", "time"}, late : 0..MaxDelay,
                     seen : StateOf(algorithm) \cup {None}, alone : BOOLEAN]
    <3> DEFINE q == request[c]  seen == entry[s]
    <3>1. q \in [at : {"idle", "get", "set", "time"}, late : 0..MaxDelay,
                 seen : StateOf(algorithm) \cup {None}, alone : BOOLEAN]
      BY <2>1
    <3>2. late \in 0..MaxDelay /\ seen \in StateOf(algorithm) \cup {None}
      BY InvFacts, Sizes DEF late
    <3> HIDE DEF q, seen
    <3>3. read = [q EXCEPT !.at = "set", !.seen = seen, !.late = late]
      BY DEF q, seen
    <3> HIDE DEF read
    <3>4. read.at = "set"
      BY <3>1, <3>3
    <3>5. read.late = late
      BY <3>1, <3>3
    <3>6. read.seen = seen
      BY <3>1, <3>3
    <3>7. read.alone = q.alone
      BY <3>1, <3>3
    <3>8. read \in [at : {"idle", "get", "set", "time"}, late : 0..MaxDelay,
                    seen : StateOf(algorithm) \cup {None}, alone : BOOLEAN]
      BY <3>1, <3>2, <3>3
    <3> QED BY <3>4, <3>5, <3>6, <3>7, <3>8 DEF q, seen
  <2> HIDE DEF read
  <2>4. request'[c] = read /\ request' = [d \in Call |-> request'[d]]
    BY <2>1, <2>2
  <2>5. \A d \in Call \ {c} : request'[d] = request[d]
    BY <2>1, <2>2
  <2> QED BY <2>2, <2>3, <2>4, <2>5
<1>3. \/ s = "main" /\ admitted' = admitted /\ promise' = promise /\ faults' = faults
      \/ /\ backing = "redis" /\ algorithm # "upload" /\ admitted' = NoneAdmitted /\ promise' = None
         /\ faults < MaxFaults /\ faults' = faults + 1
  BY DEF Disturbed
<1>4. c \in InFlight /\ promise = None /\ admitted[request[c].late] = 0
  BY <1>2, FlightFacts
<1>5. InFlight' = InFlight /\ InFlight \subseteq Call
  <2>1. \A d \in Call : request'[d].at # "idle" <=> request[d].at # "idle"
    BY <1>2
  <2> QED BY <2>1 DEF InFlight
<1>6. Cumulative(admitted')
  BY <1>3, InvFacts, NothingIsCumulative
<1>7. late \in 0..MaxDelay /\ 0 \in 0..MaxDelay /\ late \in 0..(2 * Window)
  BY InvFacts, Sizes
<1>8. entry[s] \in StateOf(algorithm) \cup {None}
  BY InvFacts
<1>9. promise' = None
  BY <1>3, <1>4
<1>10. \A n \in 0..(2 * Window) : admitted[n] = 0 => admitted'[n] = 0
  <2>1. CASE admitted' = admitted
    BY <2>1
  <2>2. CASE admitted' = NoneAdmitted
    BY <2>2, NothingIsCumulative
  <2> QED BY <1>3, <2>1, <2>2
<1>11. admitted[late] = 0
  BY <1>4, InvFacts DEF Cumulative
<1> HIDE DEF late
<1>12. TypeOK'
  <2>1. \A d \in Call :
            request'[d] \in [at : {"idle", "get", "set", "time"}, late : 0..MaxDelay,
                             seen : StateOf(algorithm) \cup {None}, alone : BOOLEAN]
    <3>1. request'[c] \in [at : {"idle", "get", "set", "time"}, late : 0..MaxDelay,
                           seen : StateOf(algorithm) \cup {None}, alone : BOOLEAN]
      BY <1>2
    <3>2. \A d \in Call \ {c} :
            request'[d] \in [at : {"idle", "get", "set", "time"}, late : 0..MaxDelay,
                             seen : StateOf(algorithm) \cup {None}, alone : BOOLEAN]
      BY <1>2 DEF LimiterInv, TypeOK
    <3> QED BY <3>1, <3>2
  <2>2. request' \in [Call -> [at : {"idle", "get", "set", "time"}, late : 0..MaxDelay,
                               seen : StateOf(algorithm) \cup {None}, alone : BOOLEAN]]
    BY <1>2, <2>1
  <2>3. faults' \in 0..MaxFaults
    BY <1>3, LimiterAssumption DEF LimiterInv, TypeOK
  <2> QED BY <1>1, <1>6, <1>9, <2>2, <2>3 DEF LimiterInv, TypeOK, Cumulative
<1>13. FlightsAreCounted'
  <2>1. ASSUME NEW d \in InFlight
        PROVE  /\ request'[d].alone => InFlight = {d}
               /\ admitted'[request'[d].late] = 0
               /\ algorithm = "upload" /\ backing = "redis" /\ ~request'[d].alone => admitted' = NoneAdmitted
               /\ request'[d].at = "time" =>
                     algorithm = "upload" /\ backing = "redis" /\ entry["main"] # None
    <3>1. /\ request[d].alone => InFlight = {d}
          /\ admitted[request[d].late] = 0
          /\ algorithm = "upload" /\ backing = "redis" /\ ~request[d].alone => admitted = NoneAdmitted
          /\ request[d].at = "time" =>
                algorithm = "upload" /\ backing = "redis" /\ entry["main"] # None
      BY DEF LimiterInv, FlightsAreCounted
    <3>2. request'[d].alone = request[d].alone
      BY <1>2, <1>5
    <3>3. request'[d].late \in 0..(2 * Window) /\ admitted[request'[d].late] = 0
      <4>1. CASE d = c
        BY <1>2, <1>7, <1>11, <4>1
      <4>2. CASE d # c
        <5>1. request'[d] = request[d] /\ request[d].late \in 0..MaxDelay
          BY <1>2, <1>5, <4>2, InvFacts
        <5> QED BY <3>1, <5>1, Sizes
      <4> QED BY <4>1, <4>2
    <3>4. admitted'[request'[d].late] = 0
      BY <1>10, <3>3
    <3>5. request'[d].at = "time" => request[d].at = "time"
      BY <1>2, <1>5
    <3> QED BY <1>3, <3>1, <3>2, <3>4, <3>5
  <2>2. ASSUME NEW d \in Call, backing = "memory" PROVE request'[d].late = 0
    <3>1. request[d].late = 0 /\ request[c].late = 0
      BY <2>2 DEF LimiterInv, FlightsAreCounted
    <3> QED BY <1>2, <3>1 DEF late
  <2> QED BY <1>1, <1>5, <1>9, <2>1, <2>2 DEF FlightsAreCounted
<1>14. CountsAreKept'
  <2>1. ASSUME NEW n \in 0..(2 * Window), n <= Ttl - ttl["main"] PROVE admitted'[n] = 0
    BY <1>10, <2>1, InvFacts DEF LimiterInv, CountsAreKept
  <2>2. DOMAIN admitted' = 0..(2 * Window)
    BY <1>6 DEF Cumulative
  <2> QED BY <1>1, <1>6, <2>1, <2>2 DEF LimiterInv, CountsAreKept, Cumulative
<1>15. LevelsAreSound'
  <2>1. ASSUME NEW d \in Call
        PROVE  /\ LevelIsSound(algorithm, request'[d].seen)
               /\ algorithm = "token" /\ request'[d].at = "set" /\ request'[d].seen # None
                     => request'[d].late <= request'[d].seen.age
    <3>1. CASE d = c
      <4>1. LevelIsSound(algorithm, entry[s])
        BY DEF LimiterInv, LevelsAreSound
      <4>2. ASSUME algorithm = "token", entry[s] # None PROVE late <= entry[s].age
        <5>1. entry[s].age \in 0..Oldest
          BY <1>8, <4>2 DEF StateOf
        <5> QED BY <4>2, <5>1, Sizes DEF late
      <4> QED BY <1>2, <3>1, <4>1, <4>2
    <3>2. CASE d # c
      BY <1>2, <3>2 DEF LimiterInv, LevelsAreSound
    <3> QED BY <3>1, <3>2
  <2> QED BY <1>1, <2>1 DEF LimiterInv, LevelsAreSound
<1>16. StatesCover'
  <2>1. ASSUME NEW st \in StateOf(algorithm) \cup {None},
               s = "main" => Covers(algorithm, backing, st, admitted, phase)
        PROVE  Covers(algorithm, backing, st, admitted', phase)
    BY <1>3, <2>1, InvFacts, NothingInRedis
  <2>2. ASSUME NEW d \in Call, request'[d].at = "set"
        PROVE  Covers(algorithm, backing, request'[d].seen, admitted', phase)
    <3>1. CASE d = c
      <4>1. s = "main" => Covers(algorithm, backing, entry[s], admitted, phase)
        BY <1>2, MainCovers
      <4>2. Covers(algorithm, backing, entry[s], admitted', phase)
        BY <1>8, <2>1, <4>1
      <4> QED BY <1>2, <3>1, <4>2
    <3>2. CASE d # c
      BY <1>2, <2>1, <2>2, <3>2, InvFacts DEF LimiterInv, StatesCover
    <3> QED BY <3>1, <3>2
  <2>3. ASSUME \A d \in Call : request'[d].at # "time"
        PROVE  Covers(algorithm, backing, entry["main"], admitted', phase)
    <3>1. Covers(algorithm, backing, entry["main"], admitted, phase)
      BY <1>2, MainCovers
    <3> QED BY <2>1, <3>1, InvFacts DEF Store
  <2>4. ASSUME NEW d \in Call, request'[d].at = "time", request'[d].alone
        PROVE  FALSE
    <3>1. d # c /\ request[d].at = "time" /\ request[d].alone
      BY <1>2, <2>4
    <3>2. d \in InFlight
      BY <3>1 DEF InFlight
    <3> QED BY <1>4, <3>1, <3>2, FlightFacts
  <2> QED BY <1>1, <2>2, <2>3, <2>4 DEF StatesCover
<1>17. PromisesAreKept'
  BY <1>9 DEF PromisesAreKept
<1> QED BY <1>12, <1>13, <1>14, <1>15, <1>16, <1>17 DEF LimiterInv

\* The answer to a request counts it or not, and promises something only to the one that is alone.
LEMMA AnswerFacts ==
    ASSUME LimiterInv, NEW c \in Call, request[c].at # "idle",
           NEW r, r.allowed \in BOOLEAN, r.wait \in Int, Answer(c, r)
    PROVE  /\ Cumulative(admitted') /\ promise' \in Nat \cup {None}
           /\ InFlight # {c} => admitted' = admitted /\ promise' = None
           /\ \/ admitted' = admitted
              \/ r.allowed /\ admitted' = Counted(c) /\ OneMore(admitted, admitted', request[c].late)
           /\ r.allowed /\ request[c].alone => admitted' = Counted(c)
           /\ promise' # None => /\ ~r.allowed /\ algorithm # "upload" /\ algorithm \in Algorithm
                                 /\ promise' = Higher(0, r.wait - request[c].late)
           /\ \A n \in 0..request[c].late : admitted'[n] = 0
<1>1. request[c].alone \in BOOLEAN /\ request[c].late \in Int /\ request[c].late \in 0..MaxDelay
  BY InvFacts, Sizes
<1>2. InFlight # {c} => ~request[c].alone
  <2>1. c \in InFlight
    BY FlightFacts
  <2> QED BY <2>1 DEF LimiterInv, FlightsAreCounted
<1>3. \/ r.allowed /\ request[c].alone /\ admitted' = Counted(c)
      \/ ~(r.allowed /\ request[c].alone) /\ admitted' = admitted
  BY <1>1 DEF Answer
<1>4. \/ /\ ~r.allowed /\ request[c].alone /\ algorithm # "upload"
         /\ promise' = Higher(0, r.wait - request[c].late)
      \/ promise' = None
  BY <1>1 DEF Answer
<1>5. Higher(0, r.wait - request[c].late) \in Nat
  BY <1>1 DEF Higher
<1>6. Cumulative(Counted(c)) /\ OneMore(admitted, Counted(c), request[c].late) /\ Cumulative(admitted)
  BY CountedFacts, InvFacts
<1>7. ASSUME NEW n \in 0..request[c].late PROVE admitted'[n] = 0
  <2>1. admitted[n] = 0 /\ n \in 0..(2 * Window) /\ ~(n > request[c].late) /\ n \in Int
    <3>1. admitted[request[c].late] = 0 /\ n \in Int /\ 0 <= n /\ n <= request[c].late
      BY <1>1, FlightFacts
    <3> QED BY <1>1, <1>6, <3>1, Before, Sizes
  <2>2. Counted(c)[n] = 0
    BY <1>6, <2>1 DEF OneMore
  <2> QED BY <1>3, <2>1, <2>2
<1> QED BY <1>2, <1>3, <1>4, <1>5, <1>6, <1>7, InvFacts

\* When a request is done, the others are no more alone than they were.
LEMMA DoneKeeps ==
    ASSUME LimiterInv, NEW c \in Call, request[c].at # "idle", request'[c] = Idle,
           \A d \in Call \ {c} : /\ request'[d].at = request[d].at /\ request'[d].late = request[d].late
                                 /\ request'[d].alone = request[d].alone,
           algorithm' = algorithm, backing' = backing,
           InFlight # {c} => admitted' \in {admitted, NoneAdmitted} /\ promise' = None,
           entry["main"] # None => entry'["main"] # None
    PROVE  FlightsAreCounted'
<1>1. c \in InFlight /\ InFlight' = InFlight \ {c} /\ InFlight \subseteq Call
  BY DEF InFlight, Idle
<1>2. ASSUME NEW d \in InFlight'
      PROVE  /\ request'[d].alone => InFlight' = {d}
             /\ admitted'[request'[d].late] = 0 /\ promise' = None
             /\ algorithm = "upload" /\ backing = "redis" /\ ~request'[d].alone => admitted' = NoneAdmitted
             /\ request'[d].at = "time" =>
                   algorithm = "upload" /\ backing = "redis" /\ entry'["main"] # None
  <2>1. d \in InFlight /\ d # c /\ d \in Call /\ InFlight # {c}
    BY <1>1
  <2>2. /\ request[d].alone => InFlight = {d}
        /\ admitted[request[d].late] = 0
        /\ algorithm = "upload" /\ backing = "redis" /\ ~request[d].alone => admitted = NoneAdmitted
        /\ request[d].at = "time" =>
              algorithm = "upload" /\ backing = "redis" /\ entry["main"] # None
    BY <2>1 DEF LimiterInv, FlightsAreCounted
  <2>3. ~request[d].alone
    BY <1>1, <2>1, <2>2
  <2>4. admitted' \in {admitted, NoneAdmitted} /\ promise' = None
    BY <2>1
  <2>5. request[d].late \in 0..(2 * Window)
    BY <2>1, InvFacts, Sizes
  <2>6. admitted'[request[d].late] = 0
    <3>1. CASE admitted' = admitted
      BY <2>2, <3>1
    <3>2. CASE admitted' = NoneAdmitted
      BY <2>5, <3>2, NothingIsCumulative
    <3> QED BY <2>4, <3>1, <3>2
  <2> QED BY <2>1, <2>2, <2>3, <2>4, <2>6
<1>3. ASSUME NEW d \in Call, backing = "memory" PROVE request'[d].late = 0
  <2>1. CASE d = c
    BY <2>1 DEF Idle
  <2>2. CASE d # c
    BY <1>3, <2>2 DEF LimiterInv, FlightsAreCounted
  <2> QED BY <2>1, <2>2
<1> QED BY <1>2, <1>3 DEF FlightsAreCounted

LEMMA IdleTyped ==
    Idle \in [at : {"idle", "get", "set", "time"}, late : 0..MaxDelay,
              seen : StateOf(algorithm) \cup {None}, alone : BOOLEAN]
<1>1. 0 \in 0..MaxDelay
  BY Sizes
<1> QED BY <1>1 DEF Idle

\* What is written covers what was counted and the request that wrote it.
LEMMA WriteKeeps ==
    ASSUME LimiterInv, NEW c \in Call, NEW s \in Store, Set(c, s),
           NEW r, r = Consume(request[c].seen, request[c].late),
           \/ s = "main" /\ Answer(c, r) /\ UNCHANGED <<settings, phase, faults>>
           \/ backing = "redis" /\ s = "fallback" /\ Disturbed /\ UNCHANGED <<settings, phase>>
    PROVE  LimiterInv'
<1>1. algorithm' = algorithm /\ backing' = backing /\ phase' = phase
  BY DEF settings
<1>2. request[c].at = "set" /\ request[c].at # "idle" /\ algorithm # "upload"
  BY DEF Set
<1>3. /\ entry' = [entry EXCEPT ![s] = r.state] /\ ttl' = [ttl EXCEPT ![s] = Ttl]
      /\ request' = Finished(c, r.state)
  BY DEF Set, Put
<1> DEFINE R == [at : {"idle", "get", "set", "time"}, late : 0..MaxDelay,
                 seen : StateOf(algorithm) \cup {None}, alone : BOOLEAN]
<1>4. /\ algorithm \in Algorithm /\ phase \in 0..(Window - 1)
      /\ request[c].seen \in StateOf(algorithm) \cup {None} /\ request[c].late \in 0..MaxDelay
      /\ request \in [Call -> R] /\ Cumulative(admitted)
  BY InvFacts DEF LimiterInv, TypeOK
<1>5. /\ r.allowed \in BOOLEAN /\ r.wait \in Int
      /\ r.state \in StateOf(algorithm) /\ r.state # None
  BY <1>4, ConsumeTyped
<1>6. /\ request'[c] = Idle
      /\ request' = [d \in Call |-> request'[d]]
      /\ \A d \in Call \ {c} :
            \/ request'[d] = request[d]
            \/ /\ request'[d] = [request[d] EXCEPT !.seen = r.state]
               /\ algorithm \in {"leaking", "fixed", "counter"}
  BY <1>3 DEF Finished
<1>7. ASSUME NEW d \in Call \ {c}
      PROVE  /\ request'[d].at = request[d].at /\ request'[d].late = request[d].late
             /\ request'[d].alone = request[d].alone /\ request'[d] \in R
             /\ \/ request'[d].seen = request[d].seen
                \/ request'[d].seen = r.state /\ algorithm \in {"leaking", "fixed", "counter"}
  <2> DEFINE q == request[d]  state == r.state
  <2>1. q \in R /\ state \in StateOf(algorithm) \cup {None}
    BY <1>4, <1>5
  <2>2. \/ request'[d] = q
        \/ request'[d] = [q EXCEPT !.seen = state] /\ algorithm \in {"leaking", "fixed", "counter"}
    BY <1>6
  <2> HIDE DEF q, state
  <2>3. CASE request'[d] = q
    BY <2>1, <2>3 DEF q
  <2>4. CASE request'[d] = [q EXCEPT !.seen = state] /\ algorithm \in {"leaking", "fixed", "counter"}
    <3>1. request'[d].at = q.at /\ request'[d].late = q.late /\ request'[d].alone = q.alone
      BY <2>1, <2>4
    <3>2. request'[d].seen = state
      BY <2>1, <2>4
    <3>3. request'[d] \in R
      BY <2>1, <2>4
    <3> QED BY <2>4, <3>1, <3>2, <3>3 DEF q, state
  <2> QED BY <2>2, <2>3, <2>4
<1> HIDE DEF R
<1>8. \/ s = "main" /\ Answer(c, r) /\ faults' = faults
      \/ /\ s = "fallback" /\ backing = "redis" /\ admitted' = NoneAdmitted /\ promise' = None
         /\ faults < MaxFaults /\ faults' = faults + 1
  BY DEF Disturbed
<1>9. /\ Cumulative(admitted') /\ promise' \in Nat \cup {None}
      /\ InFlight # {c} => admitted' \in {admitted, NoneAdmitted} /\ promise' = None
      /\ s = "main" => \/ admitted' = admitted
                       \/ r.allowed /\ OneMore(admitted, admitted', request[c].late)
      /\ s = "main" /\ promise' # None => ~r.allowed /\ promise' = Higher(0, r.wait - request[c].late)
      /\ s = "main" /\ InFlight # {c} => admitted' = admitted
  <2>1. CASE s = "main" /\ Answer(c, r)
    BY <1>2, <1>5, <2>1, AnswerFacts
  <2>2. CASE s = "fallback" /\ admitted' = NoneAdmitted /\ promise' = None
    BY <2>2, NothingIsCumulative
  <2> QED BY <1>8, <2>1, <2>2
<1>10. entry \in [Store -> StateOf(algorithm) \cup {None}] /\ ttl \in [Store -> 0..Ttl]
  BY DEF LimiterInv, TypeOK
<1>11. /\ entry'[s] = r.state /\ ttl'[s] = Ttl
       /\ \A t \in Store : t # s => entry'[t] = entry[t] /\ ttl'[t] = ttl[t]
       /\ "main" \in Store
  BY <1>3, <1>10 DEF Store
<1>12. LevelIsSound(algorithm, r.state)
  <2>1. /\ LevelIsSound(algorithm, request[c].seen)
        /\ algorithm = "token" /\ request[c].seen # None => request[c].late <= request[c].seen.age
    BY <1>2 DEF LimiterInv, LevelsAreSound
  <2> QED BY <1>2, <1>4, <2>1, ConsumeSound
<1>13. TypeOK'
  <2>1. request'[c] \in R
    BY <1>6, IdleTyped DEF R
  <2>2. request' \in [Call -> R]
    BY <1>6, <1>7, <2>1
  <2>3. faults' \in 0..MaxFaults
    BY <1>8, LimiterAssumption DEF LimiterInv, TypeOK
  <2>4. entry' \in [Store -> StateOf(algorithm) \cup {None}]
    BY <1>3, <1>5, <1>10
  <2>5. ttl' \in [Store -> 0..Ttl]
    <3>1. Ttl \in 0..Ttl
      BY TtlFacts
    <3> QED BY <1>3, <1>10, <3>1
  <2> QED BY <1>1, <1>9, <2>2, <2>3, <2>4, <2>5 DEF LimiterInv, TypeOK, R, Cumulative
<1>14. FlightsAreCounted'
  <2>1. entry["main"] # None => entry'["main"] # None
    BY <1>5, <1>11
  <2> QED BY <1>1, <1>2, <1>6, <1>7, <1>9, <2>1, DoneKeeps
<1>15. CountsAreKept'
  <2>1. DOMAIN admitted' = 0..(2 * Window) /\ admitted'[0] = 0
    BY <1>9 DEF Cumulative
  <2>2. ASSUME NEW n \in 0..(2 * Window), n <= Ttl - ttl'["main"] PROVE admitted'[n] = 0
    <3>1. CASE s = "main"
      <4>1. n = 0
        BY <1>11, <2>2, <3>1, TtlFacts
      <4> QED BY <2>1, <4>1
    <3>2. CASE s # "main"
      BY <1>8, <3>2, NothingIsCumulative
    <3> QED BY <3>1, <3>2
  <2>3. entry'["main"] = None => ttl'["main"] = 0
    <3>1. CASE s = "main"
      BY <1>5, <1>11, <3>1
    <3>2. CASE s # "main"
      BY <1>11, <3>2 DEF LimiterInv, CountsAreKept
    <3> QED BY <3>1, <3>2
  <2> QED BY <1>9, <2>1, <2>2, <2>3 DEF CountsAreKept, Cumulative
<1>16. LevelsAreSound'
  <2>1. ASSUME NEW t \in Store PROVE LevelIsSound(algorithm, entry'[t])
    BY <1>11, <1>12 DEF LimiterInv, LevelsAreSound
  <2>2. ASSUME NEW d \in Call
        PROVE  /\ LevelIsSound(algorithm, request'[d].seen)
               /\ algorithm = "token" /\ request'[d].at = "set" /\ request'[d].seen # None
                     => request'[d].late <= request'[d].seen.age
    <3>1. CASE d = c
      BY <1>6, <3>1 DEF LevelIsSound, Idle
    <3>2. CASE d # c
      <4>1. /\ LevelIsSound(algorithm, request[d].seen)
            /\ algorithm = "token" /\ request[d].at = "set" /\ request[d].seen # None
                     => request[d].late <= request[d].seen.age
        BY DEF LimiterInv, LevelsAreSound
      <4> QED BY <1>7, <1>12, <3>2, <4>1
    <3> QED BY <3>1, <3>2
  <2> QED BY <1>1, <2>1, <2>2 DEF LevelsAreSound
<1>17. StatesCover'
  <2>1. s = "main" => /\ Covers(algorithm, backing, r.state, admitted, phase)
                      /\ Covers(algorithm, backing, r.state, admitted', phase)
    <3>1. Covers(algorithm, backing, request[c].seen, admitted, phase)
      BY <1>2 DEF LimiterInv, StatesCover
    <3>2. admitted[request[c].late] = 0 /\ (backing = "memory" => request[c].late = 0)
      BY <1>2, FlightFacts
    <3>3. /\ Covers(algorithm, backing, r.state, admitted, phase)
          /\ \A more : r.allowed /\ OneMore(admitted, more, request[c].late)
                          => Covers(algorithm, backing, r.state, more, phase)
      BY <1>4, <3>1, <3>2, ConsumeCovers
    <3> QED BY <1>9, <3>3
  <2>2. s # "main" => \A st \in StateOf(algorithm) \cup {None} : Covers(algorithm, backing, st, admitted', phase)
    BY <1>4, <1>8, NothingInRedis
  <2>3. ASSUME NEW d \in Call, request'[d].at = "set"
        PROVE  Covers(algorithm, backing, request'[d].seen, admitted', phase)
    <3>1. d # c
      BY <1>6, <2>3 DEF Idle
    <3>2. request[d].at = "set" /\ d \in InFlight /\ InFlight # {c}
      BY <1>7, <2>3, <3>1 DEF InFlight
    <3>3. CASE s = "main"
      <4>1. admitted' = admitted
        BY <1>9, <3>2, <3>3
      <4>2. Covers(algorithm, backing, request[d].seen, admitted, phase)
        BY <3>2 DEF LimiterInv, StatesCover
      <4> QED BY <1>7, <2>1, <3>1, <3>3, <4>1, <4>2
    <3>4. CASE s # "main"
      <4>1. request'[d].seen \in StateOf(algorithm) \cup {None}
        BY <1>7, <3>1 DEF R
      <4> QED BY <2>2, <3>4, <4>1
    <3> QED BY <3>3, <3>4
  <2>4. Covers(algorithm, backing, entry'["main"], admitted', phase)
    <3>1. CASE s = "main"
      BY <1>11, <2>1, <3>1
    <3>2. CASE s # "main"
      BY <1>10, <1>11, <2>2, <3>2
    <3> QED BY <3>1, <3>2
  <2>5. ASSUME NEW d \in Call, request'[d].at = "time" PROVE FALSE
    <3>1. d # c
      BY <1>6, <2>5 DEF Idle
    <3>2. request[d].at = "time" /\ d \in InFlight
      BY <1>7, <2>5, <3>1 DEF InFlight
    <3> QED BY <1>2, <3>2 DEF LimiterInv, FlightsAreCounted
  <2> QED BY <1>1, <2>3, <2>4, <2>5 DEF StatesCover
<1>18. PromisesAreKept'
  <2>1. ASSUME promise' # None PROVE Grants(algorithm, entry'["main"], promise', phase)
    <3>1. s = "main"
      BY <1>8, <2>1
    <3>2. ~r.allowed /\ promise' = Higher(0, r.wait - request[c].late)
      BY <1>9, <2>1, <3>1
    <3>3. /\ LevelIsSound(algorithm, request[c].seen)
          /\ algorithm = "token" /\ request[c].seen # None => request[c].late <= request[c].seen.age
      BY <1>2 DEF LimiterInv, LevelsAreSound
    <3>4. algorithm \in Algorithm \ {"upload"}
      BY <1>2, <1>4
    <3>5. Grants(algorithm, r.state, Higher(0, r.wait - request[c].late), phase)
      BY <1>4, <3>2, <3>3, <3>4, ConsumeGrants
    <3> QED BY <1>11, <3>1, <3>2, <3>5
  <2> QED BY <1>1, <1>2, <2>1 DEF PromisesAreKept
<1> QED BY <1>13, <1>14, <1>15, <1>16, <1>17, <1>18 DEF LimiterInv

\* The upload limiter that rejects writes nothing.
LEMMA UploadRejected ==
    ASSUME LimiterInv, NEW c \in Call, UploadLevel(c),
           ~UploadBucket(request[c].seen, request[c].late).allowed
    PROVE  LimiterInv'
<1> DEFINE r == UploadBucket(request[c].seen, request[c].late)
           R == [at : {"idle", "get", "set", "time"}, late : 0..MaxDelay,
                 seen : StateOf(algorithm) \cup {None}, alone : BOOLEAN]
<1>1. /\ algorithm' = algorithm /\ backing' = backing /\ phase' = phase /\ faults' = faults
      /\ entry' = entry /\ ttl' = ttl
      /\ algorithm = "upload" /\ backing = "redis" /\ request[c].at = "set"
      /\ request' = [request EXCEPT ![c] = Idle] /\ Answer(c, r)
  BY DEF UploadLevel, settings
<1>2. /\ request \in [Call -> R] /\ request[c].late \in 0..MaxDelay
      /\ request[c].seen \in StateOf("upload") \cup {None}
  BY <1>1, InvFacts DEF LimiterInv, TypeOK
<1>3. r.allowed \in BOOLEAN /\ r.wait \in Int
  <2>1. r = Consume(request[c].seen, request[c].late)
    BY <1>1 DEF Consume
  <2> HIDE DEF r, R
  <2> QED BY <1>1, <1>2, <2>1, InvFacts, ConsumeTyped
<1>4. ~r.allowed
  OBVIOUS
<1> HIDE DEF r, R
<1>5. /\ request'[c] = Idle /\ \A d \in Call \ {c} : request'[d] = request[d]
  BY <1>1, <1>2
<1>6. admitted' = admitted /\ promise' = None
  BY <1>1, <1>3, <1>4, AnswerFacts
<1>7. TypeOK'
  <2>1. request' \in [Call -> R]
    BY <1>1, <1>2, IdleTyped DEF R
  <2> QED BY <1>1, <1>6, <2>1 DEF LimiterInv, TypeOK, R
<1>8. FlightsAreCounted'
  BY <1>1, <1>5, <1>6, DoneKeeps
<1>9. CountsAreKept'
  BY <1>1, <1>6 DEF LimiterInv, CountsAreKept
<1>10. LevelsAreSound'
  <2>1. LevelIsSound(algorithm, request'[c].seen)
    BY <1>5 DEF Idle, LevelIsSound
  <2> QED BY <1>1, <1>5, <2>1 DEF LimiterInv, LevelsAreSound
<1>11. StatesCover'
  <2>1. \A d \in Call : request'[d].at # "idle" => d # c /\ request'[d] = request[d]
    BY <1>5 DEF Idle
  <2>2. (\A d \in Call : request'[d].at # "time") => \A d \in Call : request[d].at # "time"
    BY <1>1, <1>5
  <2>3. ASSUME NEW d \in Call, request'[d].at = "time", request'[d].alone PROVE FALSE
    <3>1. request[d].at = "time" /\ request[d].alone /\ d # c
      BY <2>1, <2>3
    <3>2. d \in InFlight
      BY <3>1 DEF InFlight
    <3> QED BY <1>1, <3>1, <3>2, FlightFacts
  <2>4. ASSUME NEW d \in Call, request'[d].at = "set"
        PROVE  Covers(algorithm, backing, request'[d].seen, admitted, phase)
    BY <2>1, <2>4 DEF LimiterInv, StatesCover
  <2>5. ASSUME \A d \in Call : request'[d].at # "time"
        PROVE  Covers(algorithm, backing, entry["main"], admitted, phase)
    BY <2>2, <2>5 DEF LimiterInv, StatesCover
  <2> QED BY <1>1, <1>6, <2>3, <2>4, <2>5 DEF StatesCover
<1>12. PromisesAreKept'
  BY <1>6 DEF PromisesAreKept
<1> QED BY <1>7, <1>8, <1>9, <1>10, <1>11, <1>12 DEF LimiterInv

\* Between its two writes a request that is alone is already counted for.
LEMMA UploadLevelKeeps ==
    ASSUME LimiterInv, NEW c \in Call, UploadLevel(c),
           UploadBucket(request[c].seen, request[c].late).allowed
    PROVE  LimiterInv'
<1> DEFINE r == UploadBucket(request[c].seen, request[c].late)
           R == [at : {"idle", "get", "set", "time"}, late : 0..MaxDelay,
                 seen : StateOf(algorithm) \cup {None}, alone : BOOLEAN]
           age == IF entry["main"] = None THEN None ELSE entry["main"].age
           written == [level |-> r.state.level, age |-> age]
<1>1. /\ algorithm' = algorithm /\ backing' = backing /\ phase' = phase /\ faults' = faults
      /\ algorithm = "upload" /\ backing = "redis" /\ request[c].at = "set"
      /\ entry' = [entry EXCEPT !["main"] = written] /\ ttl' = [ttl EXCEPT !["main"] = Ttl]
      /\ request' = [request EXCEPT ![c].at = "time"]
      /\ admitted' = admitted /\ promise' = promise
  BY DEF UploadLevel, settings, Put
<1>2. /\ request \in [Call -> R] /\ request[c] \in R /\ request[c].late \in 0..MaxDelay
      /\ request[c].seen \in StateOf(algorithm) \cup {None}
      /\ entry \in [Store -> StateOf(algorithm) \cup {None}] /\ ttl \in [Store -> 0..Ttl]
      /\ Cumulative(admitted) /\ "main" \in Store /\ algorithm \in Algorithm /\ algorithm \in Buckets
  BY <1>1, InvFacts DEF LimiterInv, TypeOK, Store, Buckets
<1>3. r = Consume(request[c].seen, request[c].late)
  BY <1>1 DEF Consume
<1>4. r.allowed /\ r.wait \in Int /\ r.state # None
  BY <1>2, <1>3, InvFacts, ConsumeTyped
<1>5. LevelIsSound(algorithm, r.state) /\ r.state \in [level : Int, age : {request[c].late}]
  <2>1. LevelIsSound(algorithm, request[c].seen)
    BY DEF LimiterInv, LevelsAreSound
  <2>2. algorithm # "token"
    BY <1>1
  <2> HIDE DEF r, R
  <2> QED BY <1>2, <1>3, <1>4, <2>1, <2>2, ConsumeSound
<1>6. StateOf(algorithm) = [level : Int, age : (0..Oldest) \cup {None}]
  BY <1>1 DEF StateOf
<1> HIDE DEF r
<1>7. written \in StateOf(algorithm) /\ written # None /\ written.level = r.state.level
  <2>1. age \in (0..Oldest) \cup {None}
    <3> DEFINE main == entry["main"]
    <3>1. main = None \/ main \in [level : Int, age : (0..Oldest) \cup {None}]
      BY <1>2, <1>6
    <3>2. age = IF main = None THEN None ELSE main.age
      OBVIOUS
    <3> HIDE DEF main, age
    <3> QED BY <3>1, <3>2
  <2>2. r.state.level \in Int
    BY <1>5
  <2> HIDE DEF age
  <2>3. written \in StateOf(algorithm)
    BY <1>6, <2>1, <2>2
  <2> QED BY <1>2, <2>3, NotNone
<1> HIDE DEF written
<1>8. /\ request'[c].at = "time" /\ request'[c].late = request[c].late
      /\ request'[c].seen = request[c].seen /\ request'[c].alone = request[c].alone
      /\ request' \in [Call -> R]
      /\ \A d \in Call \ {c} : request'[d] = request[d]
  <2> DEFINE q == request[c]  after == [q EXCEPT !.at = "time"]
  <2>1. request' = [request EXCEPT ![c] = after]
    BY <1>1
  <2>2. q \in R
    BY <1>2
  <2> HIDE DEF q
  <2>3. after.at = "time" /\ after.late = q.late /\ after.seen = q.seen /\ after.alone = q.alone
    BY <2>2
  <2>4. after \in R
    BY <2>2
  <2> HIDE DEF after, R
  <2> QED BY <1>2, <2>1, <2>3, <2>4 DEF q
<1>9. /\ entry'["main"] = written /\ entry' \in [Store -> StateOf(algorithm) \cup {None}]
      /\ ttl'["main"] = Ttl /\ ttl' \in [Store -> 0..Ttl]
      /\ \A s \in Store : s = "main" \/ entry'[s] = entry[s]
  <2>1. Ttl \in 0..Ttl
    BY TtlFacts
  <2> QED BY <1>1, <1>2, <1>7, <2>1
<1>10. InFlight' = InFlight /\ InFlight \subseteq Call /\ c \in InFlight
  <2>1. \A d \in Call : request'[d].at # "idle" <=> request[d].at # "idle"
    BY <1>1, <1>8
  <2> QED BY <1>1, <2>1 DEF InFlight
<1>11. TypeOK'
  BY <1>1, <1>8, <1>9 DEF LimiterInv, TypeOK, R
<1>12. FlightsAreCounted'
  <2>1. ASSUME NEW d \in InFlight
        PROVE  /\ request'[d].alone => InFlight = {d}
               /\ admitted[request'[d].late] = 0 /\ promise = None
               /\ algorithm = "upload" /\ backing = "redis" /\ ~request'[d].alone => admitted = NoneAdmitted
               /\ entry'["main"] # None
    <3>1. request'[d].alone = request[d].alone /\ request'[d].late = request[d].late
      BY <1>8, <1>10
    <3> QED BY <1>7, <1>9, <3>1 DEF LimiterInv, FlightsAreCounted
  <2> QED BY <1>1, <1>10, <2>1 DEF FlightsAreCounted
<1>13. CountsAreKept'
  <2>1. admitted[0] = 0 /\ DOMAIN admitted = 0..(2 * Window)
    BY <1>2 DEF Cumulative
  <2>2. ASSUME NEW n \in DOMAIN admitted, n <= Ttl - ttl'["main"] PROVE admitted[n] = 0
    <3>1. n = 0
      BY <1>9, <2>1, <2>2, TtlFacts
    <3> QED BY <2>1, <3>1
  <2> QED BY <1>1, <1>7, <1>9, <2>1, <2>2 DEF LimiterInv, CountsAreKept
<1>14. LevelsAreSound'
  <2>1. LevelIsSound(algorithm, written)
    BY <1>1, <1>4, <1>5, <1>7 DEF LevelIsSound
  <2>2. ASSUME NEW d \in Call PROVE request'[d].seen = request[d].seen
    BY <1>8
  <2> QED BY <1>1, <1>9, <2>1, <2>2 DEF LimiterInv, LevelsAreSound
<1>15. StatesCover'
  <2>1. ASSUME NEW d \in Call, request'[d].at = "set"
        PROVE  Covers(algorithm, backing, request'[d].seen, admitted, phase)
    <3>1. d # c
      BY <1>8, <2>1
    <3> QED BY <1>8, <2>1, <3>1 DEF LimiterInv, StatesCover
  <2>2. ~ \A d \in Call : request'[d].at # "time"
    BY <1>8
  <2>3. ASSUME NEW d \in Call, request'[d].at = "time", request'[d].alone
        PROVE  BucketCovers("upload", [level |-> entry'["main"].level, age |-> request'[d].late], Counted(d)')
    <3>1. d = c
      <4> SUFFICES ASSUME d # c PROVE FALSE
        OBVIOUS
      <4>1. request[d].alone /\ d \in InFlight
        BY <1>8, <2>3 DEF InFlight
      <4> QED BY <1>1, <4>1, FlightFacts
    <3>2. [level |-> entry'["main"].level, age |-> request'[d].late] = r.state
      BY <1>5, <1>7, <1>8, <1>9, <3>1
    <3>3. Counted(d)' = Counted(c)
      BY <1>1, <1>8, <3>1 DEF Counted
    <3>4. Covers(algorithm, backing, request[c].seen, admitted, phase)
      BY <1>1 DEF LimiterInv, StatesCover
    <3>5. BucketCovers(algorithm, request[c].seen, admitted)
      BY <1>1, <3>4 DEF Covers
    <3>6. admitted[request[c].late] = 0
      BY <1>1, FlightFacts
    <3>7. BucketCovers(algorithm, r.state, Counted(c))
      <4> DEFINE late == request[c].late  more == Counted(c)  seen == request[c].seen
      <4>1. OneMore(admitted, more, late)
        BY CountedFacts
      <4>2. /\ algorithm \in Buckets /\ seen \in StateOf(algorithm) \cup {None} /\ late \in 0..MaxDelay
            /\ r = Consume(seen, late) /\ Cumulative(admitted) /\ admitted[late] = 0
            /\ BucketCovers(algorithm, seen, admitted)
        BY <1>2, <1>3, <3>5, <3>6
      <4> HIDE DEF late, more, seen
      <4>3. \A m : r.allowed /\ OneMore(admitted, m, late) => BucketCovers(algorithm, r.state, m)
        BY <4>2, BucketConsumed
      <4>4. BucketCovers(algorithm, r.state, more)
        BY <1>4, <4>1, <4>3
      <4> QED BY <4>4 DEF more
    <3> QED BY <1>1, <3>2, <3>3, <3>7
  <2> QED BY <1>1, <2>1, <2>2, <2>3 DEF StatesCover
<1>16. PromisesAreKept'
  <2>1. promise = None
    BY <1>1, FlightFacts
  <2> QED BY <1>1, <2>1 DEF PromisesAreKept
<1> QED BY <1>11, <1>12, <1>13, <1>14, <1>15, <1>16 DEF LimiterInv

\* The second write makes what is stored cover the request too.
LEMMA UploadTimeKeeps ==
    ASSUME LimiterInv, NEW c \in Call, UploadTime(c)
    PROVE  LimiterInv'
<1> DEFINE R == [at : {"idle", "get", "set", "time"}, late : 0..MaxDelay,
                 seen : StateOf(algorithm) \cup {None}, alone : BOOLEAN]
           late == request[c].late
           written == [level |-> entry["main"].level, age |-> late]
<1>0. PICK answer : answer = [allowed |-> TRUE, wait |-> 0]
  OBVIOUS
<1>1. /\ algorithm' = algorithm /\ backing' = backing /\ phase' = phase /\ faults' = faults
      /\ request[c].at = "time"
      /\ entry' = [entry EXCEPT !["main"] = [entry["main"] EXCEPT !.age = late]]
      /\ ttl' = [ttl EXCEPT !["main"] = Ttl]
      /\ request' = [request EXCEPT ![c] = Idle] /\ Answer(c, answer)
  BY <1>0 DEF UploadTime, settings, Put
<1>2. c \in InFlight /\ algorithm = "upload" /\ backing = "redis" /\ entry["main"] # None
  <2>1. c \in InFlight
    BY <1>1 DEF InFlight
  <2> QED BY <1>1, <2>1 DEF LimiterInv, FlightsAreCounted
<1>3. /\ request \in [Call -> R] /\ late \in 0..MaxDelay /\ late \in 0..Oldest
      /\ entry \in [Store -> StateOf(algorithm) \cup {None}] /\ ttl \in [Store -> 0..Ttl]
      /\ Cumulative(admitted) /\ "main" \in Store /\ algorithm \in Algorithm
      /\ entry["main"] \in [level : Int, age : (0..Oldest) \cup {None}]
      /\ StateOf(algorithm) = [level : Int, age : (0..Oldest) \cup {None}]
  <2>1. StateOf(algorithm) = [level : Int, age : (0..Oldest) \cup {None}]
    BY <1>2 DEF StateOf
  <2>2. /\ request \in [Call -> R] /\ late \in 0..MaxDelay
        /\ entry \in [Store -> StateOf(algorithm) \cup {None}] /\ ttl \in [Store -> 0..Ttl]
        /\ Cumulative(admitted) /\ "main" \in Store /\ algorithm \in Algorithm
    BY InvFacts DEF LimiterInv, TypeOK, Store
  <2>3. late \in 0..Oldest
    BY <2>2, Delays
  <2>4. entry["main"] \in StateOf(algorithm)
    BY <1>2, <2>2
  <2> HIDE DEF late, R
  <2> QED BY <2>1, <2>2, <2>3, <2>4
<1>4. /\ Cumulative(admitted') /\ promise' = None
      /\ InFlight # {c} => admitted' = admitted
      /\ request[c].alone => admitted' = Counted(c)
      /\ admitted' = admitted \/ admitted' = Counted(c)
  <2>1. answer.allowed \in BOOLEAN /\ answer.wait \in Int
    BY <1>0
  <2>2. Answer(c, answer) /\ request[c].at # "idle"
    BY <1>1
  <2> HIDE DEF R
  <2>3. /\ Cumulative(admitted') /\ promise' \in Nat \cup {None}
        /\ InFlight # {c} => admitted' = admitted /\ promise' = None
        /\ \/ admitted' = admitted
           \/ answer.allowed /\ admitted' = Counted(c) /\ OneMore(admitted, admitted', request[c].late)
        /\ answer.allowed /\ request[c].alone => admitted' = Counted(c)
        /\ promise' # None => /\ ~answer.allowed /\ algorithm # "upload" /\ algorithm \in Algorithm
                              /\ promise' = Higher(0, answer.wait - request[c].late)
        /\ \A n \in 0..request[c].late : admitted'[n] = 0
    BY <2>1, <2>2, AnswerFacts
  <2>4. answer.allowed
    BY <1>0
  <2> QED BY <2>3, <2>4
<1> HIDE DEF R
<1>5. [entry["main"] EXCEPT !.age = late] = written
  <2> DEFINE main == entry["main"]
  <2>1. main \in [level : Int, age : (0..Oldest) \cup {None}]
    BY <1>3
  <2>2. written = [level |-> main.level, age |-> late]
    OBVIOUS
  <2> HIDE DEF main, written, late
  <2>3. [main EXCEPT !.age = late] = [level |-> main.level, age |-> late]
    BY <2>1
  <2> QED BY <2>2, <2>3 DEF main
<1>6. written \in StateOf(algorithm) /\ written # None /\ written.level = entry["main"].level
  <2>1. entry["main"].level \in Int
    BY <1>3
  <2> HIDE DEF late
  <2>2. written \in StateOf(algorithm)
    BY <1>3, <2>1
  <2> QED BY <1>3, <2>2, NotNone
<1> HIDE DEF late
<1>7. /\ request'[c] = Idle /\ request' \in [Call -> R] /\ \A d \in Call \ {c} : request'[d] = request[d]
  BY <1>1, <1>3, IdleTyped DEF R
<1>8. /\ entry'["main"] = written /\ entry' \in [Store -> StateOf(algorithm) \cup {None}]
      /\ ttl'["main"] = Ttl /\ ttl' \in [Store -> 0..Ttl]
      /\ \A s \in Store : s = "main" \/ entry'[s] = entry[s]
  <2>1. Ttl \in 0..Ttl
    BY TtlFacts
  <2> HIDE DEF written
  <2> QED BY <1>1, <1>3, <1>5, <1>6, <2>1
<1>9. TypeOK'
  BY <1>1, <1>4, <1>7, <1>8 DEF LimiterInv, TypeOK, R, Cumulative
<1>10. FlightsAreCounted'
  <2>1. InFlight # {c} => admitted' \in {admitted, NoneAdmitted} /\ promise' = None
    BY <1>4
  <2> QED BY <1>1, <1>6, <1>7, <1>8, <2>1, DoneKeeps
<1>11. CountsAreKept'
  <2>1. admitted'[0] = 0 /\ DOMAIN admitted' = 0..(2 * Window)
    BY <1>4 DEF Cumulative
  <2>2. ASSUME NEW n \in DOMAIN admitted', n <= Ttl - ttl'["main"] PROVE admitted'[n] = 0
    <3>1. n = 0
      BY <1>8, <2>1, <2>2, TtlFacts
    <3> QED BY <2>1, <3>1
  <2> QED BY <1>4, <1>6, <1>8, <2>1, <2>2 DEF CountsAreKept, Cumulative
<1>12. LevelsAreSound'
  <2>1. LevelIsSound(algorithm, written)
    BY <1>2, <1>6 DEF LimiterInv, LevelsAreSound, LevelIsSound, Store
  <2>2. LevelIsSound(algorithm, request'[c].seen)
    BY <1>7 DEF Idle, LevelIsSound
  <2>3. algorithm # "token"
    BY <1>2
  <2> HIDE DEF written
  <2> QED BY <1>1, <1>7, <1>8, <2>1, <2>2, <2>3 DEF LimiterInv, LevelsAreSound
<1>13. StatesCover'
  <2>1. \A d \in Call : request'[d].at # "idle" => d # c /\ request'[d] = request[d]
    BY <1>7 DEF Idle
  <2>2. ASSUME NEW d \in Call, request'[d].at = "time", request'[d].alone PROVE FALSE
    <3>1. request[d].at = "time" /\ request[d].alone /\ d # c
      BY <2>1, <2>2
    <3>2. d \in InFlight
      BY <3>1 DEF InFlight
    <3> QED BY <1>1, <3>1, <3>2, FlightFacts
  <2>3. ASSUME NEW d \in Call, request'[d].at = "set"
        PROVE  Covers(algorithm, backing, request'[d].seen, admitted', phase)
    <3>1. d # c /\ request[d].at = "set" /\ request'[d] = request[d]
      BY <2>1, <2>3
    <3>2. d \in InFlight
      BY <3>1 DEF InFlight
    <3>3. admitted' = admitted
      BY <1>4, <3>1, <3>2
    <3> QED BY <3>1, <3>3 DEF LimiterInv, StatesCover
  <2>4. Covers(algorithm, backing, written, admitted', phase)
    <3>1. CASE request[c].alone
      <4>1. BucketCovers("upload", written, Counted(c))
        BY <1>1, <3>1 DEF LimiterInv, StatesCover, late
      <4>2. admitted' = Counted(c)
        BY <1>4, <3>1
      <4> HIDE DEF written
      <4> QED BY <1>2, <4>1, <4>2 DEF Covers
    <3>2. CASE ~request[c].alone
      <4>1. admitted' = admitted
        BY <1>1, <3>2 DEF Answer
      <4>2. admitted = NoneAdmitted
        BY <1>2, <3>2 DEF LimiterInv, FlightsAreCounted
      <4> HIDE DEF written
      <4> QED BY <1>2, <1>6, <4>1, <4>2, NothingInRedis, InvFacts
    <3> QED BY <3>1, <3>2
  <2> HIDE DEF written
  <2> QED BY <1>1, <1>8, <2>2, <2>3, <2>4 DEF StatesCover
<1>14. PromisesAreKept'
  BY <1>4 DEF PromisesAreKept
<1> QED BY <1>9, <1>10, <1>11, <1>12, <1>13, <1>14 DEF LimiterInv

\* In memory the upload limiter reads and writes in one step.
LEMMA UploadMemoryKeeps ==
    ASSUME LimiterInv, NEW c \in Call, NEW s \in Store, UploadMemory(c, s),
           NEW r, r = UploadBucket(entry[s], request[c].late),
           \/ s = "main" /\ backing = "memory" /\ Answer(c, r) /\ UNCHANGED faults
           \/ s = "fallback" /\ backing = "redis" /\ Disturbed
    PROVE  LimiterInv'
<1> DEFINE R == [at : {"idle", "get", "set", "time"}, late : 0..MaxDelay,
                 seen : StateOf(algorithm) \cup {None}, alone : BOOLEAN]
<1>1. /\ algorithm' = algorithm /\ backing' = backing /\ phase' = phase
      /\ algorithm = "upload" /\ request[c].at # "idle"
      /\ request' = [request EXCEPT ![c] = Idle]
  BY DEF UploadMemory, settings
<1>2. /\ request \in [Call -> R] /\ request[c].late \in 0..MaxDelay
      /\ entry \in [Store -> StateOf(algorithm) \cup {None}] /\ ttl \in [Store -> 0..Ttl]
      /\ Cumulative(admitted) /\ "main" \in Store /\ algorithm \in Algorithm /\ algorithm \in Buckets
      /\ entry[s] \in StateOf(algorithm) \cup {None} /\ phase \in 0..(Window - 1)
  BY <1>1, InvFacts DEF LimiterInv, TypeOK, Store, Buckets
<1>3. r = Consume(entry[s], request[c].late)
  BY <1>1 DEF Consume
<1>4. r.allowed \in BOOLEAN /\ r.wait \in Int /\ r.state \in StateOf(algorithm) /\ r.state # None
  <2> HIDE DEF R
  <2> QED BY <1>2, <1>3, ConsumeTyped
<1> HIDE DEF R
<1>5. \/ r.allowed /\ entry' = [entry EXCEPT ![s] = r.state] /\ ttl' = [ttl EXCEPT ![s] = Ttl]
      \/ ~r.allowed /\ entry' = entry /\ ttl' = ttl
  BY <1>4 DEF UploadMemory, Put
<1>6. \/ s = "main" /\ backing = "memory" /\ Answer(c, r) /\ faults' = faults
      \/ /\ s = "fallback" /\ backing = "redis" /\ admitted' = NoneAdmitted /\ promise' = None
         /\ faults < MaxFaults /\ faults' = faults + 1
  BY DEF Disturbed
<1>7. /\ Cumulative(admitted') /\ promise' = None
      /\ InFlight # {c} => admitted' \in {admitted, NoneAdmitted}
      /\ s = "main" => \/ admitted' = admitted
                       \/ r.allowed /\ OneMore(admitted, admitted', request[c].late)
      /\ s = "main" /\ InFlight # {c} => admitted' = admitted
  <2>1. CASE s = "main" /\ Answer(c, r)
    BY <1>1, <1>4, <2>1, AnswerFacts
  <2>2. CASE s = "fallback" /\ admitted' = NoneAdmitted /\ promise' = None
    BY <2>2, NothingIsCumulative
  <2> QED BY <1>6, <2>1, <2>2
<1>8. /\ request'[c] = Idle /\ request' \in [Call -> R] /\ \A d \in Call \ {c} : request'[d] = request[d]
  BY <1>1, <1>2, IdleTyped DEF R
<1>9. /\ entry' \in [Store -> StateOf(algorithm) \cup {None}] /\ ttl' \in [Store -> 0..Ttl]
      /\ \A t \in Store : t = s \/ (entry'[t] = entry[t] /\ ttl'[t] = ttl[t])
      /\ \/ r.allowed /\ entry'[s] = r.state /\ ttl'[s] = Ttl
         \/ ~r.allowed /\ entry'[s] = entry[s] /\ ttl'[s] = ttl[s]
  <2>1. Ttl \in 0..Ttl
    BY TtlFacts
  <2> QED BY <1>2, <1>4, <1>5, <2>1
<1>10. TypeOK'
  <2>1. faults' \in 0..MaxFaults
    BY <1>6, LimiterAssumption DEF LimiterInv, TypeOK
  <2> QED BY <1>1, <1>7, <1>8, <1>9, <2>1 DEF LimiterInv, TypeOK, R, Cumulative
<1>11. FlightsAreCounted'
  <2>1. entry["main"] # None => entry'["main"] # None
    BY <1>2, <1>4, <1>9
  <2>2. InFlight # {c} => admitted' \in {admitted, NoneAdmitted} /\ promise' = None
    BY <1>7
  <2> QED BY <1>1, <1>8, <2>1, <2>2, DoneKeeps
<1>12. CountsAreKept'
  <2>1. admitted'[0] = 0 /\ DOMAIN admitted' = 0..(2 * Window) /\ DOMAIN admitted = 0..(2 * Window)
    BY <1>2, <1>7 DEF Cumulative
  <2>2. ASSUME NEW n \in DOMAIN admitted', n <= Ttl - ttl'["main"] PROVE admitted'[n] = 0
    <3>1. CASE s = "main" /\ r.allowed
      <4>1. n = 0
        BY <1>9, <2>1, <2>2, <3>1, TtlFacts
      <4> QED BY <2>1, <4>1
    <3>2. CASE s = "main" /\ ~r.allowed
      <4>1. admitted' = admitted /\ ttl'["main"] = ttl["main"]
        BY <1>7, <1>9, <3>2
      <4> QED BY <2>1, <2>2, <4>1 DEF LimiterInv, CountsAreKept
    <3>3. CASE s # "main"
      BY <1>6, <2>1, <3>3, NothingIsCumulative
    <3> QED BY <1>4, <3>1, <3>2, <3>3
  <2>3. entry'["main"] = None => ttl'["main"] = 0
    BY <1>2, <1>4, <1>9 DEF LimiterInv, CountsAreKept
  <2> QED BY <1>7, <2>1, <2>2, <2>3 DEF CountsAreKept, Cumulative
<1>13. LevelsAreSound'
  <2>1. r.allowed => LevelIsSound(algorithm, r.state)
    <3>1. LevelIsSound(algorithm, entry[s])
      BY DEF LimiterInv, LevelsAreSound
    <3>2. algorithm # "token"
      BY <1>1
    <3> QED BY <1>2, <1>3, <3>1, <3>2, ConsumeSound
  <2>2. ASSUME NEW t \in Store PROVE LevelIsSound(algorithm, entry'[t])
    BY <1>9, <2>1 DEF LimiterInv, LevelsAreSound
  <2>3. ASSUME NEW d \in Call PROVE LevelIsSound(algorithm, request'[d].seen)
    <3>1. CASE d = c
      BY <1>8, <3>1 DEF Idle, LevelIsSound
    <3>2. CASE d # c
      BY <1>8, <3>2 DEF LimiterInv, LevelsAreSound
    <3> QED BY <3>1, <3>2
  <2> QED BY <1>1, <2>2, <2>3 DEF LevelsAreSound
<1>14. StatesCover'
  <2>1. \A d \in Call : request'[d].at # "idle" => d # c /\ request'[d] = request[d]
    BY <1>8 DEF Idle
  <2>2. ASSUME NEW d \in Call, request'[d].at = "time", request'[d].alone PROVE FALSE
    <3>1. request[d].at = "time" /\ request[d].alone /\ d # c
      BY <2>1, <2>2
    <3>2. d \in InFlight
      BY <3>1 DEF InFlight
    <3> QED BY <1>1, <3>1, <3>2, FlightFacts
  <2>3. s # "main" => \A st \in StateOf(algorithm) \cup {None} : Covers(algorithm, backing, st, admitted', phase)
    BY <1>2, <1>6, NothingInRedis
  <2>4. ASSUME NEW d \in Call, request'[d].at = "set"
        PROVE  Covers(algorithm, backing, request'[d].seen, admitted', phase)
    <3>1. d # c /\ request[d].at = "set" /\ request'[d] = request[d]
      BY <2>1, <2>4
    <3>2. d \in InFlight
      BY <3>1 DEF InFlight
    <3>3. CASE s = "main"
      <4>1. admitted' = admitted
        BY <1>7, <3>1, <3>2, <3>3
      <4> QED BY <3>1, <4>1 DEF LimiterInv, StatesCover
    <3>4. CASE s # "main"
      BY <2>3, <3>1, <3>4, InvFacts
    <3> QED BY <3>3, <3>4
  <2>5. Covers(algorithm, backing, entry'["main"], admitted', phase)
    <3>1. CASE s = "main"
      <4>1. \A d \in Call : request[d].at # "time"
        <5> SUFFICES ASSUME NEW d \in Call, request[d].at = "time" PROVE FALSE
          OBVIOUS
        <5>1. d \in InFlight
          BY DEF InFlight
        <5> QED BY <1>6, <3>1, <5>1 DEF LimiterInv, FlightsAreCounted
      <4>2. Covers(algorithm, backing, entry[s], admitted, phase)
        BY <3>1, <4>1 DEF LimiterInv, StatesCover
      <4>3. admitted[request[c].late] = 0 /\ (backing = "memory" => request[c].late = 0)
        BY <1>1, FlightFacts
      <4>4. /\ Covers(algorithm, backing, r.state, admitted, phase)
            /\ \A more : r.allowed /\ OneMore(admitted, more, request[c].late)
                            => Covers(algorithm, backing, r.state, more, phase)
        BY <1>2, <1>3, <4>2, <4>3, ConsumeCovers
      <4>5. CASE r.allowed
        BY <1>7, <1>9, <3>1, <4>4, <4>5
      <4>6. CASE ~r.allowed
        BY <1>7, <1>9, <3>1, <4>2, <4>6
      <4> QED BY <4>5, <4>6
    <3>2. CASE s # "main"
      BY <1>2, <1>9, <2>3, <3>2
    <3> QED BY <3>1, <3>2
  <2> QED BY <1>1, <2>2, <2>4, <2>5 DEF StatesCover
<1>15. PromisesAreKept'
  BY <1>7 DEF PromisesAreKept
<1> QED BY <1>10, <1>11, <1>12, <1>13, <1>14, <1>15 DEF LimiterInv

\* A fault forgets what was admitted and promised; what a counter in memory holds stays within
\* its estimate.
LEMMA ResetKeeps ==
    ASSUME LimiterInv, Reset
    PROVE  LimiterInv'
<1>1. PICK s \in Store : /\ entry' = [entry EXCEPT ![s] = None] /\ ttl' = [ttl EXCEPT ![s] = 0]
                         /\ entry[s] # None
  BY DEF Reset, Put
<1>2. /\ algorithm' = algorithm /\ backing' = backing /\ phase' = phase /\ request' = request
      /\ algorithm # "upload" /\ admitted' = NoneAdmitted /\ promise' = None
      /\ faults < MaxFaults /\ faults' = faults + 1
  BY DEF Reset, Disturbed, settings
<1>3. /\ algorithm \in Algorithm /\ phase \in 0..(Window - 1) /\ "main" \in Store
      /\ entry \in [Store -> StateOf(algorithm) \cup {None}] /\ ttl \in [Store -> 0..Ttl]
      /\ Cumulative(NoneAdmitted) /\ DOMAIN NoneAdmitted = 0..(2 * Window)
      /\ \A n \in 0..(2 * Window) : NoneAdmitted[n] = 0
  BY InvFacts, NothingIsCumulative DEF LimiterInv, TypeOK, Store
<1>4. /\ entry' \in [Store -> StateOf(algorithm) \cup {None}] /\ ttl' \in [Store -> 0..Ttl]
      /\ entry'[s] = None /\ ttl'[s] = 0
      /\ \A t \in Store : t = s \/ (entry'[t] = entry[t] /\ ttl'[t] = ttl[t])
  <2>1. 0 \in 0..Ttl
    BY TtlFacts
  <2> QED BY <1>1, <1>3, <2>1
<1>5. InFlight' = InFlight /\ InFlight \subseteq Call
  BY <1>2 DEF InFlight
<1>6. \A d \in Call : request[d].at # "time"
  <2> SUFFICES ASSUME NEW d \in Call, request[d].at = "time" PROVE FALSE
    OBVIOUS
  <2>1. d \in InFlight
    BY DEF InFlight
  <2> QED BY <1>2, <2>1 DEF LimiterInv, FlightsAreCounted
<1>7. TypeOK'
  <2>1. faults' \in 0..MaxFaults
    BY <1>2, LimiterAssumption DEF LimiterInv, TypeOK
  <2> QED BY <1>2, <1>3, <1>4, <2>1 DEF LimiterInv, TypeOK, Cumulative
<1>8. FlightsAreCounted'
  <2>1. ASSUME NEW d \in InFlight
        PROVE  /\ request[d].alone => InFlight = {d}
               /\ NoneAdmitted[request[d].late] = 0
               /\ request[d].at # "time"
    <3>1. request[d].late \in 0..(2 * Window)
      BY <1>5, InvFacts, Sizes
    <3> QED BY <1>3, <1>5, <1>6, <3>1 DEF LimiterInv, FlightsAreCounted
  <2> QED BY <1>2, <1>5, <2>1 DEF LimiterInv, FlightsAreCounted
<1>9. CountsAreKept'
  <2>1. entry'["main"] = None => ttl'["main"] = 0
    BY <1>3, <1>4 DEF LimiterInv, CountsAreKept
  <2> QED BY <1>2, <1>3, <2>1 DEF CountsAreKept, Cumulative
<1>10. LevelsAreSound'
  <2>1. ASSUME NEW t \in Store PROVE LevelIsSound(algorithm, entry'[t])
    BY <1>4 DEF LimiterInv, LevelsAreSound, LevelIsSound
  <2> QED BY <1>2, <2>1 DEF LimiterInv, LevelsAreSound
<1>11. StatesCover'
  <2>1. ASSUME NEW st \in StateOf(algorithm) \cup {None},
               st = None \/ Covers(algorithm, backing, st, admitted, phase)
        PROVE  Covers(algorithm, backing, st, NoneAdmitted, phase)
    BY <1>3, <2>1, NothingCovered
  <2>2. ASSUME NEW d \in Call, request[d].at = "set"
        PROVE  Covers(algorithm, backing, request[d].seen, NoneAdmitted, phase)
    BY <2>1, <2>2, InvFacts DEF LimiterInv, StatesCover
  <2>3. Covers(algorithm, backing, entry["main"], admitted, phase)
    BY <1>6 DEF LimiterInv, StatesCover
  <2>4. Covers(algorithm, backing, entry'["main"], NoneAdmitted, phase)
    BY <1>3, <1>4, <2>1, <2>3
  <2> QED BY <1>2, <1>6, <2>2, <2>4 DEF StatesCover
<1>12. PromisesAreKept'
  BY <1>2 DEF PromisesAreKept
<1> QED BY <1>7, <1>8, <1>9, <1>10, <1>11, <1>12 DEF LimiterInv

LEMMA RestartKeeps ==
    ASSUME LimiterInv, Restart
    PROVE  LimiterInv'
<1>1. /\ algorithm' = algorithm /\ backing' = backing /\ phase' = phase
      /\ request' = [c \in Call |-> Idle] /\ admitted' = NoneAdmitted /\ promise' = None
      /\ faults < MaxFaults /\ faults' = faults + 1
      /\ entry' = [s \in Store |-> IF s = "main" /\ backing = "redis" THEN entry[s] ELSE None]
      /\ ttl' = [s \in Store |-> IF s = "main" /\ backing = "redis" THEN ttl[s] ELSE 0]
  BY DEF Restart, Disturbed, settings
<1>2. /\ algorithm \in Algorithm /\ phase \in 0..(Window - 1) /\ "main" \in Store
      /\ backing \in {"redis", "memory"}
      /\ entry \in [Store -> StateOf(algorithm) \cup {None}] /\ ttl \in [Store -> 0..Ttl]
      /\ Cumulative(NoneAdmitted) /\ DOMAIN NoneAdmitted = 0..(2 * Window)
      /\ \A n \in 0..(2 * Window) : NoneAdmitted[n] = 0
  BY InvFacts, NothingIsCumulative DEF LimiterInv, TypeOK, Store
<1>3. /\ entry' \in [Store -> StateOf(algorithm) \cup {None}] /\ ttl' \in [Store -> 0..Ttl]
      /\ \A s \in Store : \/ entry'[s] = None /\ ttl'[s] = 0
                          \/ backing = "redis" /\ entry'[s] = entry[s] /\ ttl'[s] = ttl[s]
  <2>1. 0 \in 0..Ttl
    BY TtlFacts
  <2> QED BY <1>1, <1>2, <2>1
<1>4. InFlight' = {} /\ \A c \in Call : request'[c] = Idle
  BY <1>1 DEF InFlight, Idle
<1>5. TypeOK'
  <2>1. faults' \in 0..MaxFaults
    BY <1>1, LimiterAssumption DEF LimiterInv, TypeOK
  <2>2. request' \in [Call -> [at : {"idle", "get", "set", "time"}, late : 0..MaxDelay,
                               seen : StateOf(algorithm) \cup {None}, alone : BOOLEAN]]
    BY <1>1, IdleTyped
  <2> QED BY <1>1, <1>2, <1>3, <2>1, <2>2 DEF LimiterInv, TypeOK, Cumulative
<1>6. FlightsAreCounted'
  BY <1>4 DEF FlightsAreCounted, Idle
<1>7. CountsAreKept'
  <2>1. entry'["main"] = None => ttl'["main"] = 0
    BY <1>2, <1>3 DEF LimiterInv, CountsAreKept
  <2> QED BY <1>1, <1>2, <2>1 DEF CountsAreKept, Cumulative
<1>8. LevelsAreSound'
  <2>1. ASSUME NEW s \in Store PROVE LevelIsSound(algorithm, entry'[s])
    BY <1>3 DEF LimiterInv, LevelsAreSound, LevelIsSound
  <2> QED BY <1>1, <1>4, <2>1 DEF LevelsAreSound, Idle, LevelIsSound
<1>9. StatesCover'
  <2>1. Covers(algorithm, backing, entry'["main"], NoneAdmitted, phase)
    <3>1. CASE entry'["main"] = None
      BY <1>2, <3>1, NothingCovered
    <3>2. CASE entry'["main"] # None
      <4>1. backing = "redis" /\ entry'["main"] \in StateOf(algorithm) \cup {None}
        BY <1>2, <1>3, <3>2
      <4> QED BY <1>2, <4>1, NothingInRedis
    <3> QED BY <3>1, <3>2
  <2> QED BY <1>1, <1>4, <2>1 DEF StatesCover, Idle
<1>10. PromisesAreKept'
  BY <1>1 DEF PromisesAreKept
<1> QED BY <1>5, <1>6, <1>7, <1>8, <1>9, <1>10 DEF LimiterInv

\* A tick ages what is stored, what is read and what is counted alike, and a state expires
\* only when nothing that it counted matters any more.
LEMMA TickKeeps ==
    ASSUME LimiterInv, Tick
    PROVE  LimiterInv'
<1> DEFINE R == [at : {"idle", "get", "set", "time"}, late : 0..MaxDelay,
                 seen : StateOf(algorithm) \cup {None}, alone : BOOLEAN]
           next == (phase + 1) % Window
<1>1. /\ algorithm' = algorithm /\ backing' = backing /\ faults' = faults
      /\ \A c \in InFlight : backing = "redis" /\ request[c].late < MaxDelay
      /\ phase' = next
      /\ entry' = [s \in Store |-> IF Expires(s) THEN None ELSE Aged(entry[s])]
      /\ ttl' = [s \in Store |-> IF algorithm = "upload" THEN ttl[s] ELSE Higher(0, ttl[s] - 1)]
      /\ request' = [c \in Call |->
            IF c \in InFlight
            THEN [request[c] EXCEPT !.late = request[c].late + 1, !.seen = Aged(request[c].seen)]
            ELSE request[c]]
      /\ promise' = IF promise = None THEN None ELSE Higher(0, promise - 1)
  BY DEF Tick, settings
<1>2. admitted' = Shifted(algorithm, admitted)
  BY DEF Tick, Shifted
<1>3. /\ algorithm \in Algorithm /\ phase \in 0..(Window - 1) /\ "main" \in Store
      /\ backing \in {"redis", "memory"} /\ request \in [Call -> R]
      /\ entry \in [Store -> StateOf(algorithm) \cup {None}] /\ ttl \in [Store -> 0..Ttl]
      /\ Cumulative(admitted) /\ promise \in Nat \cup {None}
  BY InvFacts DEF LimiterInv, TypeOK, Store
<1>4. next \in 0..(Window - 1)
  BY <1>3, NextPhase
<1>5. /\ Cumulative(admitted') /\ Later(admitted, admitted')
      /\ DOMAIN admitted' = 0..(2 * Window) /\ admitted'[0] = 0
      /\ \A n \in 1..(2 * Window) : admitted'[n] <= admitted[n - 1] /\ n - 1 \in 0..(2 * Window)
      /\ \A n \in 0..(2 * Window) : admitted'[n] \in Nat /\ admitted[n] \in Nat
  <2>1. /\ Cumulative(admitted') /\ Later(admitted, admitted')
        /\ \A n \in 1..(2 * Window) : admitted'[n] <= admitted[n - 1] /\ n - 1 \in 0..(2 * Window)
    BY <1>2, <1>3, ShiftFacts
  <2> QED BY <1>3, <2>1 DEF Cumulative
<1>6. \A st \in StateOf(algorithm) \cup {None} :
          Aged(st) \in StateOf(algorithm) \cup {None} /\ (Aged(st) = None <=> st = None)
  BY <1>3, AgedTyped
<1>7. ASSUME NEW c \in InFlight
      PROVE  /\ c \in Call /\ backing = "redis"
             /\ request'[c].at = request[c].at /\ request'[c].alone = request[c].alone
             /\ request'[c].late = request[c].late + 1 /\ request'[c].late \in 0..MaxDelay
             /\ request[c].late \in 0..MaxDelay
             /\ request'[c].seen = Aged(request[c].seen) /\ request'[c] \in R
             /\ request[c].seen \in StateOf(algorithm) \cup {None}
  <2>1. c \in Call /\ backing = "redis" /\ request[c].late < MaxDelay
    BY <1>1 DEF InFlight
  <2> DEFINE q == request[c]  late == request[c].late + 1  seen == Aged(request[c].seen)
  <2>2. request'[c] = [q EXCEPT !.late = late, !.seen = seen]
    BY <1>1, <2>1
  <2>3. q \in R /\ q.late \in 0..MaxDelay /\ q.seen \in StateOf(algorithm) \cup {None}
    BY <1>3, <2>1
  <2>4. late \in 0..MaxDelay /\ late = q.late + 1
    BY <2>1, <2>3, Sizes
  <2>5. seen \in StateOf(algorithm) \cup {None}
    BY <1>6, <2>3
  <2>6. seen = Aged(q.seen)
    OBVIOUS
  <2> HIDE DEF q, late, seen
  <2>7. request'[c].at = q.at
    BY <2>2, <2>3
  <2>8. request'[c].alone = q.alone
    BY <2>2, <2>3
  <2>9. request'[c].late = late
    BY <2>2, <2>3
  <2>10. request'[c].seen = seen
    BY <2>2, <2>3
  <2>11. request'[c] \in R
    BY <2>2, <2>3, <2>4, <2>5
  <2> HIDE DEF R
  <2> QED BY <2>1, <2>3, <2>4, <2>6, <2>7, <2>8, <2>9, <2>10, <2>11 DEF q
<1>8. \A c \in Call \ InFlight : request'[c] = request[c] /\ request[c].at = "idle"
  BY <1>1 DEF InFlight
<1>9. request' \in [Call -> R]
  <2> HIDE DEF R
  <2>1. \A c \in Call : request'[c] \in R
    BY <1>3, <1>7, <1>8
  <2>2. request' = [c \in Call |-> request'[c]]
    BY <1>1
  <2> QED BY <2>1, <2>2
<1> HIDE DEF R, next
<1>10. InFlight' = InFlight /\ InFlight \subseteq Call
  <2>1. \A c \in Call : request'[c].at # "idle" <=> request[c].at # "idle"
    BY <1>7, <1>8
  <2> QED BY <2>1 DEF InFlight
<1>11. \A s \in Store : /\ entry'[s] = IF Expires(s) THEN None ELSE Aged(entry[s])
                        /\ ttl'[s] = IF algorithm = "upload" THEN ttl[s] ELSE Higher(0, ttl[s] - 1)
                        /\ entry'[s] \in StateOf(algorithm) \cup {None}
                        /\ ttl[s] \in 0..Ttl /\ ttl'[s] \in 0..Ttl
  <2>1. ASSUME NEW s \in Store
        PROVE  /\ entry'[s] = IF Expires(s) THEN None ELSE Aged(entry[s])
               /\ ttl'[s] = IF algorithm = "upload" THEN ttl[s] ELSE Higher(0, ttl[s] - 1)
               /\ ttl[s] \in 0..Ttl
    BY <1>1, <1>3
  <2>2. ASSUME NEW s \in Store PROVE ttl'[s] \in 0..Ttl
    BY <2>1, TtlFacts DEF Higher
  <2>3. ASSUME NEW s \in Store PROVE entry'[s] \in StateOf(algorithm) \cup {None}
    BY <1>3, <1>6, <2>1
  <2> QED BY <2>1, <2>2, <2>3
<1>12. promise' \in Nat \cup {None} /\ (promise' # None => promise \in Nat /\ promise' = Higher(0, promise - 1))
  <2>1. CASE promise = None
    BY <1>1, <2>1
  <2>2. CASE promise # None
    <3>1. promise \in Nat /\ promise' = Higher(0, promise - 1)
      BY <1>1, <1>3, <2>2
    <3>2. Higher(0, promise - 1) \in Nat
      BY <3>1 DEF Higher
    <3> QED BY <3>1, <3>2
  <2> QED BY <2>1, <2>2
<1>13. TypeOK'
  <2>1. entry' \in [Store -> StateOf(algorithm) \cup {None}] /\ ttl' \in [Store -> 0..Ttl]
    <3>1. entry' = [s \in Store |-> entry'[s]] /\ ttl' = [s \in Store |-> ttl'[s]]
      BY <1>1
    <3> QED BY <1>11, <3>1
  <2> QED BY <1>1, <1>4, <1>5, <1>9, <1>12, <2>1 DEF LimiterInv, TypeOK, R, Cumulative
<1>14. FlightsAreCounted'
  <2>1. ASSUME NEW c \in InFlight
        PROVE  /\ request'[c].alone => InFlight = {c}
               /\ admitted'[request'[c].late] = 0 /\ promise' = None
               /\ algorithm = "upload" /\ backing = "redis" /\ ~request'[c].alone => admitted' = NoneAdmitted
               /\ request'[c].at = "time" =>
                     algorithm = "upload" /\ backing = "redis" /\ entry'["main"] # None
    <3>1. /\ request[c].alone => InFlight = {c}
          /\ admitted[request[c].late] = 0 /\ promise = None
          /\ algorithm = "upload" /\ backing = "redis" /\ ~request[c].alone => admitted = NoneAdmitted
          /\ request[c].at = "time" =>
                algorithm = "upload" /\ backing = "redis" /\ entry["main"] # None
      BY DEF LimiterInv, FlightsAreCounted
    <3>2. admitted'[request'[c].late] = 0
      <4> DEFINE late == request[c].late  after == request'[c].late
      <4>1. late \in Int /\ after = late + 1 /\ after \in 1..(2 * Window) /\ after - 1 = late
        BY <1>7, Sizes
      <4>2. admitted[late] = 0
        BY <3>1
      <4> HIDE DEF late, after
      <4>3. admitted'[after] <= admitted[after - 1] /\ admitted'[after] \in Nat
        BY <1>5, <4>1
      <4>4. admitted'[after] = 0
        BY <4>1, <4>2, <4>3
      <4> QED BY <4>4 DEF after
    <3>3. ASSUME admitted = NoneAdmitted PROVE admitted' = NoneAdmitted
      <4>1. \A n \in 0..(2 * Window) : admitted'[n] = 0
        <5>1. ASSUME NEW n \in 1..(2 * Window) PROVE admitted'[n] = 0
          <6>1. admitted[n - 1] = 0 /\ admitted'[n] <= admitted[n - 1] /\ n \in 0..(2 * Window)
            BY <1>5, <3>3, NothingIsCumulative
          <6>2. admitted'[n] \in Nat
            BY <1>5, <6>1
          <6> QED BY <6>1, <6>2
        <5> QED BY <1>5, <5>1
      <4>2. admitted' = [n \in 0..(2 * Window) |-> admitted'[n]]
        BY <1>5 DEF Cumulative
      <4> QED BY <4>1, <4>2 DEF NoneAdmitted
    <3>4. ASSUME algorithm = "upload", entry["main"] # None PROVE entry'["main"] # None
      <4>1. ~Expires("main")
        BY <3>4 DEF Expires
      <4> QED BY <1>3, <1>6, <1>11, <3>4, <4>1
    <3> QED BY <1>1, <1>7, <3>1, <3>2, <3>3, <3>4
  <2>2. ASSUME NEW c \in Call, backing = "memory" PROVE request'[c].late = 0
    <3>1. c \notin InFlight
      BY <1>1, <2>2
    <3> QED BY <1>8, <2>2, <3>1 DEF LimiterInv, FlightsAreCounted
  <2> QED BY <1>1, <1>10, <2>1, <2>2 DEF FlightsAreCounted
<1>15. CountsAreKept'
  <2>1. ASSUME NEW n \in 0..(2 * Window), n <= Ttl - ttl'["main"] PROVE admitted'[n] = 0
    <3>1. CASE n = 0
      BY <1>5, <3>1
    <3>2. CASE n # 0
      <4>1. n \in 1..(2 * Window) /\ n - 1 \in 0..(2 * Window)
        BY <3>2, Sizes
      <4>2. n - 1 <= Ttl - ttl["main"]
        <5> DEFINE t == ttl["main"]  u == ttl'["main"]
        <5>1. t \in 0..Ttl /\ u \in 0..Ttl /\ (u = t \/ u = Higher(0, t - 1)) /\ n <= Ttl - u
          BY <1>3, <1>11, <2>1
        <5>2. Ttl \in Nat /\ Ttl >= 2 * Window /\ n \in Int /\ n <= 2 * Window /\ Window \in Nat
          BY TtlFacts, Sizes
        <5> HIDE DEF t, u
        <5>3. n - 1 <= Ttl - t
          BY <5>1, <5>2 DEF Higher
        <5> QED BY <5>3 DEF t
      <4>3. admitted[n - 1] = 0
        <5>1. DOMAIN admitted = 0..(2 * Window)
          BY <1>3 DEF Cumulative
        <5> QED BY <4>1, <4>2, <5>1 DEF LimiterInv, CountsAreKept
      <4>4. admitted'[n] <= 0 /\ admitted'[n] \in Nat
        BY <1>5, <4>1, <4>3
      <4> QED BY <4>4
    <3> QED BY <3>1, <3>2
  <2>2. ASSUME entry'["main"] = None PROVE ttl'["main"] = 0
    <3>1. CASE Expires("main")
      BY <1>3, <1>11, <3>1 DEF Expires, Higher
    <3>2. CASE ~Expires("main")
      <4>1. entry["main"] = None
        BY <1>3, <1>6, <1>11, <2>2, <3>2
      <4>2. ttl["main"] = 0
        BY <4>1 DEF LimiterInv, CountsAreKept
      <4> QED BY <1>3, <1>11, <4>2 DEF Higher
    <3> QED BY <3>1, <3>2
  <2> QED BY <1>5, <2>1, <2>2 DEF CountsAreKept, Cumulative
<1>16. LevelsAreSound'
  <2>1. ASSUME NEW s \in Store PROVE LevelIsSound(algorithm, entry'[s])
    <3>1. CASE Expires(s)
      BY <1>11, <3>1 DEF LevelIsSound
    <3>2. CASE ~Expires(s)
      <4>1. LevelIsSound(algorithm, entry[s]) /\ entry[s] \in StateOf(algorithm) \cup {None}
        BY <1>3 DEF LimiterInv, LevelsAreSound
      <4> QED BY <1>3, <1>11, <3>2, <4>1, AgedSound
    <3> QED BY <3>1, <3>2
  <2>2. ASSUME NEW c \in Call
        PROVE  /\ LevelIsSound(algorithm, request'[c].seen)
               /\ algorithm = "token" /\ request'[c].at = "set" /\ request'[c].seen # None
                     => request'[c].late <= request'[c].seen.age
    <3>1. /\ LevelIsSound(algorithm, request[c].seen)
          /\ algorithm = "token" /\ request[c].at = "set" /\ request[c].seen # None
                => request[c].late <= request[c].seen.age
      BY DEF LimiterInv, LevelsAreSound
    <3>2. CASE c \in InFlight
      <4>1. LevelIsSound(algorithm, request'[c].seen)
        BY <1>3, <1>7, <3>1, <3>2, AgedSound
      <4>2. ASSUME algorithm = "token", request'[c].at = "set", request'[c].seen # None
            PROVE  request'[c].late <= request'[c].seen.age
        <5> DEFINE st == request[c].seen
        <5>1. /\ st \in StateOf("token") /\ st # None /\ Aged(st) = request'[c].seen
              /\ request[c].late <= st.age /\ request'[c].late = request[c].late + 1
              /\ request'[c].late \in 0..MaxDelay /\ request[c].late \in 0..MaxDelay
          BY <1>6, <1>7, <3>1, <3>2, <4>2
        <5> HIDE DEF st
        <5>2. st.age \in 0..Oldest
          BY <5>1 DEF StateOf
        <5>3. Aged(st) = [st EXCEPT !.age = Lower(Oldest, st.age + 1)]
          BY <4>2, <5>1 DEF Aged
        <5>4. st \in [level : Int, age : 0..Oldest]
          BY <5>1 DEF StateOf
        <5>5. Aged(st).age = Lower(Oldest, st.age + 1)
          BY <5>3, <5>4
        <5> QED BY <5>1, <5>2, <5>5, Sizes DEF Lower
      <4> QED BY <4>1, <4>2
    <3>3. CASE c \notin InFlight
      BY <1>8, <3>1, <3>3
    <3> QED BY <3>2, <3>3
  <2> QED BY <1>1, <2>1, <2>2 DEF LevelsAreSound
<1>17. StatesCover'
  <2>1. ASSUME NEW st \in StateOf(algorithm) \cup {None}, Covers(algorithm, backing, st, admitted, phase)
        PROVE  Covers(algorithm, backing, Aged(st), admitted', next)
    BY <1>2, <1>3, <2>1, AgedCovers DEF next
  <2>2. ASSUME NEW c \in Call, request'[c].at = "set"
        PROVE  Covers(algorithm, backing, request'[c].seen, admitted', next)
    <3>1. c \in InFlight
      BY <1>8, <2>2
    <3>2. Covers(algorithm, backing, request[c].seen, admitted, phase)
      BY <1>7, <2>2, <3>1 DEF LimiterInv, StatesCover
    <3> QED BY <1>7, <2>1, <3>1, <3>2
  <2>3. ASSUME \A c \in Call : request'[c].at # "time"
        PROVE  Covers(algorithm, backing, entry'["main"], admitted', next)
    <3>1. CASE Expires("main")
      <4>1. entry'["main"] = None /\ ttl'["main"] = 0
        BY <1>3, <1>11, <3>1 DEF Expires, Higher
      <4>2. \A n \in 0..(2 * Window) : admitted'[n] = 0
        <5>1. \A n \in 0..(2 * Window) : n <= Ttl - ttl'["main"]
          BY <4>1, TtlFacts, Sizes
        <5> QED BY <1>5, <1>15, <5>1 DEF CountsAreKept
      <4> QED BY <1>3, <1>4, <1>5, <4>1, <4>2, NothingCovered
    <3>2. CASE ~Expires("main")
      <4>1. \A c \in Call : request[c].at # "time"
        BY <1>7, <1>8, <2>3
      <4>2. Covers(algorithm, backing, entry["main"], admitted, phase)
        BY <4>1 DEF LimiterInv, StatesCover
      <4> QED BY <1>3, <1>11, <2>1, <3>2, <4>2
    <3> QED BY <3>1, <3>2
  <2>4. ASSUME NEW c \in Call, request'[c].at = "time", request'[c].alone
        PROVE  BucketCovers("upload", [level |-> entry'["main"].level, age |-> request'[c].late], Counted(c)')
    <3>1. c \in InFlight /\ request[c].at = "time" /\ request[c].alone
      BY <1>7, <1>8, <2>4
    <3>2. algorithm = "upload" /\ entry["main"] # None /\ algorithm \in Buckets
      BY <3>1 DEF LimiterInv, FlightsAreCounted, Buckets
    <3> DEFINE late == request[c].late  level == entry["main"].level
               st == [level |-> level, age |-> late]
               counts == Counted(c)  later == Counted(c)'
    <3>3. late \in 0..MaxDelay /\ late \in 0..Oldest /\ late \in Int /\ request'[c].late = late + 1 /\ late + 1 \in 0..MaxDelay
      <4>1. late \in 0..MaxDelay /\ request'[c].late = late + 1 /\ late + 1 \in 0..MaxDelay
        BY <1>7, <3>1
      <4> HIDE DEF late
      <4> QED BY <4>1, Delays
    <3>4. StateOf(algorithm) = [level : Int, age : (0..Oldest) \cup {None}]
      BY <3>2 DEF StateOf
    <3>5. entry["main"] \in [level : Int, age : (0..Oldest) \cup {None}] /\ level \in Int
      <4> DEFINE main == entry["main"]
      <4>1. main \in StateOf(algorithm)
        BY <1>3, <3>2
      <4> HIDE DEF main
      <4>2. main \in [level : Int, age : (0..Oldest) \cup {None}]
        BY <3>4, <4>1
      <4>3. main.level \in Int
        BY <4>2
      <4> QED BY <4>2, <4>3 DEF main
    <3>6. st \in StateOf(algorithm) /\ st # None /\ st.level = level /\ st.age = late
      <4> HIDE DEF late, level
      <4>1. st \in StateOf(algorithm)
        BY <3>3, <3>4, <3>5
      <4> QED BY <1>3, <4>1, NotNone
    <3>7. BucketCovers(algorithm, st, counts)
      BY <3>1, <3>2 DEF LimiterInv, StatesCover
    <3>8. entry'["main"].level = level
      <4>1. ~Expires("main")
        BY <3>2 DEF Expires
      <4>2. entry'["main"] = Aged(entry["main"])
        BY <1>3, <1>11, <4>1
      <4>3. Aged(entry["main"]).level = entry["main"].level
        <5>1. 0 \in Int /\ entry["main"] \in StateOf(algorithm) \cup {None}
          BY <1>3
        <5> QED BY <3>2, <5>1, RoomAged
      <4> QED BY <4>2, <4>3
    <3>9. Aged(st) = [level |-> level, age |-> late + 1]
      <4>1. late # None /\ Lower(Oldest, late + 1) = late + 1
        <5>1. late # None
          BY <3>3, LimiterAssumption
        <5> QED BY <3>3, <5>1, Sizes DEF Lower
      <4> DEFINE aged == Lower(Oldest, late + 1)
      <4>2. Aged(st) = [st EXCEPT !.age = IF st.age = None THEN None ELSE Lower(Oldest, st.age + 1)]
        <5> HIDE DEF st
        <5> QED BY <3>2, <3>6 DEF Aged
      <4>3. Aged(st) = [st EXCEPT !.age = late + 1]
        BY <3>6, <4>1, <4>2
      <4> HIDE DEF late, level
      <4> QED BY <4>3
    <3>10. Cumulative(counts) /\ OneMore(admitted, counts, late)
      BY <1>10, <3>1, CountedFacts
    <3>11. later = [n \in 0..(2 * Window) |-> admitted'[n] + (IF n > late + 1 THEN 1 ELSE 0)]
      BY <1>5, <3>3 DEF Counted
    <3> HIDE DEF later, counts, late, st, level
    <3>12. Later(counts, later)
      <4>1. \A n \in 0..(2 * Window) : counts[n] = admitted[n] + (IF n > late THEN 1 ELSE 0)
        BY <3>10 DEF OneMore
      <4>2. later[0] = 0
        BY <1>5, <3>3, <3>11, Sizes
      <4>3. ASSUME NEW n \in 1..Window PROVE later[n] = counts[n - 1]
        <5>1. n \in 0..(2 * Window) /\ n - 1 \in 0..(2 * Window) /\ n \in Int
          BY Sizes
        <5>2. admitted'[n] = admitted[n - 1]
          BY <1>5 DEF Later
        <5>3. (n > late + 1) <=> (n - 1 > late)
          BY <3>3, <5>1
        <5> QED BY <3>11, <4>1, <5>1, <5>2, <5>3
      <4>4. later \in [0..(2 * Window) -> Nat]
        <5>1. \A n \in 0..(2 * Window) : admitted'[n] + (IF n > late + 1 THEN 1 ELSE 0) \in Nat
          BY <1>5
        <5> QED BY <3>11, <5>1
      <4> QED BY <4>2, <4>3, <4>4 DEF Later
    <3>13. BucketCovers(algorithm, Aged(st), later)
      BY <3>2, <3>6, <3>7, <3>10, <3>12, BucketAged
    <3> QED BY <3>2, <3>3, <3>8, <3>9, <3>13 DEF later
  <2> QED BY <1>1, <2>2, <2>3, <2>4 DEF StatesCover
<1>18. PromisesAreKept'
  <2>1. ASSUME promise' # None PROVE algorithm # "upload" /\ Grants(algorithm, entry'["main"], promise', next)
    <3>1. promise \in Nat /\ promise # None /\ promise' = Higher(0, promise - 1)
      BY <1>12, <2>1, LimiterAssumption
    <3>2. algorithm # "upload" /\ Grants(algorithm, entry["main"], promise, phase)
      BY <3>1 DEF LimiterInv, PromisesAreKept
    <3>3. CASE Expires("main")
      <4>1. entry'["main"] = None
        BY <1>3, <1>11, <3>3
      <4> QED BY <3>2, <4>1 DEF Grants
    <3>4. CASE ~Expires("main")
      <4>1. LevelIsSound(algorithm, entry["main"]) /\ entry["main"] \in StateOf(algorithm) \cup {None}
        BY <1>3 DEF LimiterInv, LevelsAreSound
      <4>2. algorithm \in Algorithm \ {"upload"}
        BY <1>3, <3>2
      <4>3. Grants(algorithm, Aged(entry["main"]), Higher(0, promise - 1), next)
        BY <1>3, <3>1, <3>2, <4>1, <4>2, AgedGrants DEF next
      <4> QED BY <1>3, <1>11, <3>1, <3>2, <3>4, <4>3
    <3> QED BY <3>3, <3>4
  <2> QED BY <1>1, <2>1 DEF PromisesAreKept
<1> QED BY <1>13, <1>14, <1>15, <1>16, <1>17, <1>18 DEF LimiterInv

-----------------------------------------------------------------------------
(* The invariant, and what follows from it *)

LEMMA InitKeeps == Init => LimiterInv
<1> SUFFICES ASSUME Init PROVE LimiterInv
  OBVIOUS
<1>1. /\ phase = 0 /\ entry = [s \in Store |-> None] /\ ttl = [s \in Store |-> 0]
      /\ request = [c \in Call |-> Idle] /\ admitted = NoneAdmitted /\ promise = None /\ faults = 0
  BY DEF Init
<1>2. <<algorithm, backing>> \in Limiters /\ algorithm \in Algorithm
  BY LimiterAssumption DEF Init
<1>3. phase \in 0..(Window - 1) /\ 0 \in 0..Ttl /\ 0 \in 0..MaxFaults /\ "main" \in Store
  BY <1>1, Sizes, TtlFacts, LimiterAssumption DEF Store
<1>4. InFlight = {} /\ \A c \in Call : request[c] = Idle
  BY <1>1 DEF InFlight, Idle
<1>5. TypeOK
  <2>1. request \in [Call -> [at : {"idle", "get", "set", "time"}, late : 0..MaxDelay,
                              seen : StateOf(algorithm) \cup {None}, alone : BOOLEAN]]
    BY <1>1, IdleTyped
  <2>2. admitted \in [0..(2 * Window) -> Nat]
    BY <1>1, NothingIsCumulative DEF Cumulative
  <2> QED BY <1>1, <1>2, <1>3, <2>1, <2>2 DEF TypeOK
<1>6. FlightsAreCounted
  BY <1>4 DEF FlightsAreCounted, Idle
<1>7. CountsAreKept
  BY <1>1, <1>3, NothingIsCumulative DEF CountsAreKept, Cumulative
<1>8. LevelsAreSound
  BY <1>1, <1>4 DEF LevelsAreSound, LevelIsSound, Idle
<1>9. StatesCover
  <2>1. entry["main"] = None
    BY <1>1, <1>3
  <2>2. Covers(algorithm, backing, None, NoneAdmitted, phase)
    BY <1>2, <1>3, NothingCovered, NothingIsCumulative
  <2> QED BY <1>1, <1>4, <2>1, <2>2 DEF StatesCover, Idle
<1>10. PromisesAreKept
  BY <1>1 DEF PromisesAreKept
<1> QED BY <1>5, <1>6, <1>7, <1>8, <1>9, <1>10 DEF LimiterInv

LEMMA StepKeeps == LimiterInv /\ [Next]_vars => LimiterInv'
<1> SUFFICES ASSUME LimiterInv, [Next]_vars PROVE LimiterInv'
  OBVIOUS
<1>1. "main" \in Store /\ "fallback" \in Store
  BY DEF Store
<1>2. ASSUME NEW c \in Call, Consumes(c) PROVE LimiterInv'
  <2>1. CASE Start(c)
    BY <2>1, StartKeeps
  <2>2. CASE ReadMain(c)
    <3>1. Get(c, "main") /\ UNCHANGED <<admitted, promise, faults>>
      BY <2>2 DEF ReadMain
    <3> QED BY <1>1, <3>1, GetKeeps
  <2>3. CASE ReadFallback(c)
    <3>1. Get(c, "fallback") /\ backing = "redis" /\ algorithm # "upload" /\ Disturbed
      BY <2>3 DEF ReadFallback
    <3> QED BY <1>1, <3>1, GetKeeps
  <2>4. CASE WriteMain(c)
    <3>1. PICK r : r = Consume(request[c].seen, request[c].late)
      OBVIOUS
    <3>2. Set(c, "main") /\ Answer(c, r) /\ UNCHANGED <<settings, phase, faults>>
      BY <2>4, <3>1 DEF WriteMain
    <3> QED BY <1>1, <3>1, <3>2, WriteKeeps
  <2>5. CASE WriteFallback(c)
    <3>1. PICK r : r = Consume(request[c].seen, request[c].late)
      OBVIOUS
    <3>2. Set(c, "fallback") /\ backing = "redis" /\ Disturbed /\ UNCHANGED <<settings, phase>>
      BY <2>5 DEF WriteFallback
    <3> QED BY <1>1, <3>1, <3>2, WriteKeeps
  <2>6. CASE UploadLevel(c)
    BY <2>6, UploadLevelKeeps, UploadRejected
  <2>7. CASE UploadTime(c)
    BY <2>7, UploadTimeKeeps
  <2>8. CASE UploadInMemory(c)
    <3>1. PICK r : r = UploadBucket(entry["main"], request[c].late)
      OBVIOUS
    <3>2. UploadMemory(c, "main") /\ backing = "memory" /\ Answer(c, r) /\ UNCHANGED faults
      BY <2>8, <3>1 DEF UploadInMemory
    <3> QED BY <1>1, <3>1, <3>2, UploadMemoryKeeps
  <2>9. CASE UploadFallback(c)
    <3>1. PICK r : r = UploadBucket(entry["fallback"], request[c].late)
      OBVIOUS
    <3>2. UploadMemory(c, "fallback") /\ backing = "redis" /\ Disturbed
      BY <2>9 DEF UploadFallback
    <3> QED BY <1>1, <3>1, <3>2, UploadMemoryKeeps
  <2> QED BY <1>2, <2>1, <2>2, <2>3, <2>4, <2>5, <2>6, <2>7, <2>8, <2>9 DEF Consumes
<1>3. CASE UNCHANGED vars
  <2>1. InFlight' = InFlight
    BY <1>3 DEF vars, InFlight
  <2>2. \A c \in Call : Counted(c)' = Counted(c)
    BY <1>3 DEF vars, Counted
  <2>3. UNCHANGED <<algorithm, backing, phase, entry, ttl, request, admitted, promise, faults>>
    BY <1>3 DEF vars
  <2>4. TypeOK'
    BY <2>3 DEF LimiterInv, TypeOK
  <2>5. FlightsAreCounted'
    BY <2>1, <2>3 DEF LimiterInv, FlightsAreCounted
  <2>6. CountsAreKept' /\ LevelsAreSound' /\ PromisesAreKept'
    BY <2>3 DEF LimiterInv, CountsAreKept, LevelsAreSound, PromisesAreKept
  <2>7. StatesCover'
    BY <2>2, <2>3 DEF LimiterInv, StatesCover
  <2> QED BY <2>4, <2>5, <2>6, <2>7 DEF LimiterInv
<1> QED BY <1>2, <1>3, ResetKeeps, RestartKeeps, TickKeeps DEF Next

LEMMA WithinLimit == LimiterInv => LoneWithinLimit
<1> SUFFICES ASSUME LimiterInv PROVE LoneWithinLimit
  OBVIOUS
<1>1. /\ algorithm \in Algorithm /\ backing \in {"redis", "memory"} /\ phase \in 0..(Window - 1)
      /\ "main" \in Store /\ entry["main"] \in StateOf(algorithm) \cup {None} /\ Cumulative(admitted)
      /\ LevelIsSound(algorithm, entry["main"])
  BY InvFacts DEF LimiterInv, LevelsAreSound, Store
<1>2. (\A c \in Call : request[c].at # "time") => Covers(algorithm, backing, entry["main"], admitted, phase)
  BY DEF LimiterInv, StatesCover
<1>3. ASSUME NEW c \in Call, request[c].at = "time"
      PROVE  /\ algorithm = "upload" /\ backing = "redis" /\ entry["main"] # None
             /\ ~request[c].alone => admitted = NoneAdmitted
  <2>1. c \in InFlight
    BY <1>3 DEF InFlight
  <2> QED BY <1>3, <2>1 DEF LimiterInv, FlightsAreCounted
<1>4. algorithm # "upload" => Covers(algorithm, backing, entry["main"], admitted, phase)
  BY <1>2, <1>3
<1>5. CASE algorithm = "log"
  <2>1. LogCovers(entry["main"], admitted)
    BY <1>4, <1>5 DEF Covers
  <2> QED BY <1>1, <1>5, <2>1, LogLimits DEF LoneWithinLimit
<1>6. /\ phase + 1 \in 0..(2 * Window) /\ phase + 1 + Window \in 0..(2 * Window)
      /\ Window \in Nat /\ Window >= 1 /\ Limit \in Nat
  BY <1>1, Sizes
<1>7. CASE algorithm = "fixed"
  <2>1. FixedCovers(entry["main"], admitted, phase)
    BY <1>4, <1>7 DEF Covers
  <2>2. entry["main"] # None => entry["main"].count \in 0..Limit
    BY <1>1, <1>7 DEF StateOf
  <2>3. admitted[phase + 1] \in Nat
    BY <1>1, <1>6 DEF Cumulative
  <2>4. ThisWindow <= Limit
    BY <1>6, <2>1, <2>2, <2>3 DEF FixedCovers, ThisWindow
  <2> QED BY <1>7, <2>4 DEF LoneWithinLimit
<1>8. CASE algorithm = "counter"
  <2>1. CounterCovers(backing, entry["main"], admitted, phase)
    BY <1>4, <1>8 DEF Covers
  <2>2. entry["main"] # None => entry["main"].curr \in 0..Limit
    BY <1>1, <1>8 DEF StateOf
  <2>3. admitted[phase + 1] \in Nat
    BY <1>1, <1>6 DEF Cumulative
  <2>4. ThisWindow <= Limit
    BY <1>6, <2>1, <2>2, <2>3 DEF CounterCovers, ThisWindow
  <2>5. backing = "memory" => LastWindow * (Window - phase) + ThisWindow * Window < (Limit + 1) * Window
    BY <1>1, <1>8, <2>1, CounterLimits DEF LastWindow, ThisWindow
  <2> QED BY <1>8, <2>4, <2>5 DEF LoneWithinLimit
<1>9. CASE algorithm \in Buckets
  <2>1. ASSUME NEW n \in 0..(Window - 1) PROVE admitted[n + 1] * Window <= Full + n * Limit
    <3>1. CASE \A c \in Call : request[c].at # "time"
      <4>1. BucketCovers(algorithm, entry["main"], admitted)
        BY <1>2, <1>9, <3>1 DEF Covers, Buckets
      <4> QED BY <1>1, <1>9, <4>1, BucketLimits
    <3>2. CASE ~ \A c \in Call : request[c].at # "time"
      <4>1. PICK c \in Call : request[c].at = "time"
        BY <3>2
      <4>2. algorithm = "upload" /\ entry["main"] # None
        BY <1>3, <4>1
      <4>3. n + 1 \in 0..(2 * Window) /\ n \in Nat
        BY <1>6
      <4>4. CASE request[c].alone
        <5> DEFINE st == [level |-> entry["main"].level, age |-> request[c].late]
                   counts == Counted(c)
        <5>1. BucketCovers("upload", st, counts)
          BY <4>1, <4>4 DEF LimiterInv, StatesCover
        <5>2. entry["main"] \in [level : Int, age : (0..Oldest) \cup {None}] /\ entry["main"].level >= 0
          BY <1>1, <4>2 DEF StateOf, LevelIsSound
        <5>3. request[c].late \in 0..Oldest
          BY InvFacts, Delays
        <5>4. st \in StateOf("upload") /\ LevelIsSound("upload", st)
          <6>1. entry["main"].level \in Int
            BY <5>2
          <6>2. st \in [level : Int, age : (0..Oldest) \cup {None}]
            BY <5>3, <6>1
          <6>3. StateOf("upload") = [level : Int, age : (0..Oldest) \cup {None}]
            BY DEF StateOf
          <6> QED BY <5>2, <6>2, <6>3 DEF LevelIsSound
        <5>5. Cumulative(counts) /\ OneMore(admitted, counts, request[c].late)
          BY CountedFacts
        <5>6. request[c].late \in Int
          BY <5>3, Sizes
        <5> HIDE DEF st, counts
        <5>7. "upload" \in Buckets
          BY DEF Buckets
        <5>8. counts[n + 1] * Window <= Full + n * Limit
          BY <5>1, <5>4, <5>5, <5>7, BucketLimits
        <5> DEFINE a == admitted[n + 1]  b == counts[n + 1]  top == Full + n * Limit
        <5>9. a \in Int /\ b \in Int /\ a <= b
          <6>1. a \in Nat
            BY <1>1, <4>3 DEF Cumulative
          <6>2. b = a + (IF n + 1 > request[c].late THEN 1 ELSE 0)
            BY <4>3, <5>5 DEF OneMore
          <6> QED BY <6>1, <6>2
        <5>10. top \in Int /\ b * Window <= top
          BY <1>6, <4>3, <5>8, Sizes, Products
        <5> HIDE DEF a, b, top
        <5>11. a * Window <= b * Window /\ a * Window \in Int /\ b * Window \in Int
          BY <1>6, <5>9, ProductsGrow
        <5>12. a * Window <= top
          BY <5>10, <5>11
        <5> QED BY <5>12 DEF a, top
      <4>5. CASE ~request[c].alone
        <5>1. admitted[n + 1] = 0
          BY <1>3, <4>1, <4>3, <4>5, NothingIsCumulative
        <5>2. n * Limit \in Nat /\ Full \in Nat
          BY <1>6, <4>3, Sizes, Products
        <5>3. 0 * Window = 0
          BY <1>6
        <5> QED BY <5>1, <5>2, <5>3
      <4> QED BY <4>4, <4>5
    <3> QED BY <3>1, <3>2
  <2> QED BY <1>9, <2>1 DEF LoneWithinLimit, Buckets
<1> QED BY <1>1, <1>5, <1>7, <1>8, <1>9, Algorithms DEF Other

LEMMA PromiseIsEnough == LimiterInv => RetryAfterIsEnough
<1> SUFFICES ASSUME LimiterInv, promise = 0, algorithm # "counter"
             PROVE  Consume(entry["main"], 0).allowed
  BY DEF RetryAfterIsEnough
<1>1. promise # None
  BY LimiterAssumption
<1>2. algorithm # "upload" /\ Grants(algorithm, entry["main"], 0, phase)
  BY <1>1 DEF LimiterInv, PromisesAreKept
<1>3. algorithm \in Algorithm \ {"upload", "counter"} /\ phase \in 0..(Window - 1)
  BY <1>2, InvFacts
<1>4. entry["main"] \in StateOf(algorithm) \cup {None}
  BY InvFacts DEF Store
<1> QED BY <1>2, <1>3, <1>4, Granted

\* The inductive invariant: what is stored, and what every request has read, covers what was
\* counted (the rate limiter guard over any algorithm and store, and the upload limiter).
THEOREM LimitersKeepTheirInvariant == Spec => []LimiterInv
<1> QED BY InitKeeps, StepKeeps, PTL DEF Spec

\* Every store holds a state of its algorithm within the limit (every algorithm's consume).
THEOREM LimitersStayTyped == Spec => []TypeOK
<1>1. LimiterInv => TypeOK
  BY DEF LimiterInv
<1> QED BY <1>1, LimitersKeepTheirInvariant, PTL

\* Requests that overlap no other are admitted no more often than the algorithm says
\* (RateLimiterGuard.canActivate, RateLimiterService.checkLimit).
THEOREM LoneRequestsStayWithinLimit == Spec => []LoneWithinLimit
<1> QED BY WithinLimit, LimitersKeepTheirInvariant, PTL

\* Whoever waits as long as Retry-After says is admitted (retryAfterSeconds).
THEOREM RetryAfterHolds == Spec => []RetryAfterIsEnough
<1> QED BY PromiseIsEnough, LimitersKeepTheirInvariant, PTL
=============================================================================
