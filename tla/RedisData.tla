----------------------------- MODULE RedisData -----------------------------
(***************************************************************************)
(* The data-structure services behind RedisService: one caller, whose      *)
(* calls each run to completion, and a keyspace of texts.  The services    *)
(* differ in how a JavaScript value becomes a text and back, and share the *)
(* keyspace: a bitmap, a HyperLogLog and a JSON value are all strings, a   *)
(* geo set is a sorted set.  What a Redis command does is external.        *)
(***************************************************************************)
EXTENDS JsValues, SequencesExt

CONSTANTS
    Keys,
    Fields,     \* of a hash
    Members,    \* of sets, sorted sets and HyperLogLogs, 1 .. n; also bit offsets
    MaxLen,     \* BOUND on lists
    MaxEntries, \* BOUND on streams
    MaxNumber   \* BOUND on counters and scores

ASSUME DataAssumption == MaxLen \in Nat /\ MaxEntries \in Nat /\ MaxNumber \in Nat

VARIABLES
    db,         \* per key <<type, content>>
    volatile,   \* the keys with a time to live
    answer      \* what the last call answered

dataVars == <<db, volatile, answer>>

\* Texts: the JSON of a value, a text that is not JSON, a bitmap, a HyperLogLog.
Bare == <<"bare", Word>>
Stringify(v) == <<"json", v>>
Raw(v) == CASE v = Word -> Bare
            [] v[1] = "digits" -> Stringify(Num(v[2]))
            [] OTHER -> Stringify(v)
StringifyUnlessString(v) == IF IsString(v) THEN Raw(v) ELSE Stringify(v)

Parses(t) == t[1] = "json"
Parse(t) == t[2]
ParseOrRaw(t) == IF Parses(t) THEN Parse(t) ELSE Word

Absent == <<"none">>

NoGroup == -1
EmptyStream == [entries |-> <<>>, next |-> NoGroup, pending |-> {}]

\* What a key of the type holds; a key that is not there holds nothing.
Content(k, type) ==
    IF db[k][1] = type THEN db[k][2]
    ELSE CASE type = "list" -> <<>>
           [] type \in {"hash", "zset"} -> [x \in {} |-> 0]
           [] type = "string" -> Stringify(Num(0))
           [] type = "stream" -> EmptyStream
           [] OTHER -> {}

IsOf(k, type) == db[k][1] \in {"none", type}

-----------------------------------------------------------------------------
(* What a command does.  A list, hash or set that becomes empty is gone.   *)

Answers(a) == answer' = a /\ UNCHANGED <<db, volatile>>

Emptied(type, content) ==
    \/ type = "set" /\ content = {}
    \/ type \in {"list", "hash", "zset"} /\ DOMAIN content = {}

Writes(k, type, content, a) ==
    /\ db' = [db EXCEPT ![k] = IF Emptied(type, content) THEN Absent ELSE <<type, content>>]
    /\ volatile' = IF db'[k] = Absent THEN volatile \ {k} ELSE volatile
    /\ answer' = a

\* SET and the ...STORE commands replace whatever is there, with its time to live.
Replaces(k, value, lives, a) ==
    /\ db' = [db EXCEPT ![k] = value]
    /\ volatile' = IF lives THEN volatile \cup {k} ELSE volatile \ {k}
    /\ answer' = a

\* A command on a key of another type is refused.
Refused == Answers(Thrown)

-----------------------------------------------------------------------------
(* Keys and values: CoreRedisService, StringRedisService, the counters.    *)

Set(k, v) == Replaces(k, <<"string", Stringify(v)>>, TRUE, Wrote(v))
SetForever(k, v) == Replaces(k, <<"string", Stringify(v)>>, FALSE, Wrote(v))
MSet(k, v) == Replaces(k, <<"string", Stringify(v)>>, FALSE, Wrote(v))

Js(t) == IF Parses(t) THEN <<"js", Parse(t)>> ELSE Thrown

Get(k) == Answers(CASE db[k] = Absent -> Null
                    [] db[k][1] = "string" -> Js(db[k][2])
                    [] OTHER -> Thrown)

Del(k) == Replaces(k, Absent, FALSE, Done)

SetNX(k, v) == IF db[k] = Absent
               THEN Replaces(k, <<"string", StringifyUnlessString(v)>>, TRUE, WroteText(v))
               ELSE Answers(Done)

KeyValue(k) ==
    \/ Get(k) \/ Del(k)
    \/ \E v \in Inputs : Set(k, v) \/ SetForever(k, v) \/ MSet(k, v) \/ SetNX(k, v)

GetSet(k, v) == Replaces(k, <<"string", StringifyUnlessString(v)>>, FALSE, WroteText(v))

\* append and setRange of a word: the text is not JSON afterwards.
AppendTo(k) == Writes(k, "string", Bare, Done)
SetRange(k) == Writes(k, "string", Bare, Done)
StringReads(k) == Answers(Done)
MGet(k) == Answers(Done)

Strings(k) ==
    \/ MGet(k)
    \/ IF IsOf(k, "string")
       THEN (\E v \in Inputs : GetSet(k, v)) \/ AppendTo(k) \/ SetRange(k) \/ StringReads(k)
       ELSE Refused

\* The number that a text is, as the counting commands read it.
IsNumber(t) == Parses(t) /\ Parse(t)[1] = "num"
Counted(t, by) == Stringify(Num(Parse(t)[2] + by))
InRange(t, by) == Parse(t)[2] + by \in 0..MaxNumber

\* incr, incrBy, incrByFloat, decr and decrBy.
Count(k, by) ==
    LET t == Content(k, "string")
    IN  IF IsNumber(t) THEN InRange(t, by) /\ Writes(k, "string", Counted(t, by), Done)
        ELSE Answers(Thrown)

Counters(k) == IF IsOf(k, "string") THEN \E by \in {1, -1} : Count(k, by) ELSE Refused

\* The keyspace: expire, persist, exists, ttl and pttl.  A key's time runs out.
Expire(k) == /\ volatile' = IF db[k] = Absent THEN volatile ELSE volatile \cup {k}
             /\ answer' = Done /\ UNCHANGED db
Persist(k) == volatile' = volatile \ {k} /\ answer' = Done /\ UNCHANGED db
KeyReads == Answers(Done)
TimesOut(k) == k \in volatile /\ Replaces(k, Absent, FALSE, Done)

Utilities(k) == Expire(k) \/ Persist(k) \/ KeyReads

-----------------------------------------------------------------------------
(* Lists and hashes: every element is JSON, and is parsed when read.       *)

List(k) == Content(k, "list")
\* MUTANT of Texts: strings go in as they are.
RawTexts(vs) == [i \in DOMAIN vs |-> StringifyUnlessString(vs[i])]
Texts(vs) == [i \in DOMAIN vs |-> Stringify(vs[i])]
RemoveEach(s, gone) == Picked(s, DOMAIN s \ gone)
JsList(ts) == <<"list", [i \in DOMAIN ts |-> ParseOrRaw(ts[i])]>>
Pushed == {<<v>> : v \in Inputs} \cup {<<v, w>> : v, w \in Inputs}

LPush(k, vs) == /\ Len(List(k)) + Len(vs) <= MaxLen
                /\ Writes(k, "list", Reverse(Texts(vs)) \o List(k), PushedLeft(vs))
RPush(k, vs) == /\ Len(List(k)) + Len(vs) <= MaxLen
                /\ Writes(k, "list", List(k) \o Texts(vs), PushedRight(vs))

LPop(k) == IF db[k] # Absent THEN Writes(k, "list", Tail(List(k)), Js(Head(List(k))))
           ELSE Answers(Null)
RPop(k) == IF db[k] # Absent THEN Writes(k, "list", Front(List(k)), Js(Last(List(k))))
           ELSE Answers(Null)

\* lRange keeps an element that does not parse; lIndex throws on it.
LRange(k) == Answers(JsList(List(k)))
LIndex(k, i) == Answers(IF i \in DOMAIN List(k) THEN Js(List(k)[i]) ELSE Null)
ListReads(k) == Answers(Done)

LInsert(k, pivot, v, before) ==
    LET at == {i \in DOMAIN List(k) : List(k)[i] = Stringify(pivot)}
    IN  IF at # {}
        THEN LET p == CHOOSE i \in at : \A j \in at : i <= j
             IN  /\ Len(List(k)) < MaxLen
                 /\ Writes(k, "list", InsertAt(List(k), IF before THEN p ELSE p + 1, Stringify(v)), Wrote(v))
        ELSE Answers(Done)

LRem(k, count, v) ==
    LET at == {i \in DOMAIN List(k) : List(k)[i] = Stringify(v)}
        gone == CASE count > 0 -> {i \in at : \A j \in at : i <= j}
                  [] count < 0 -> {i \in at : \A j \in at : j <= i}
                  [] OTHER -> at
    IN  Writes(k, "list", RemoveEach(List(k), gone), Done)
LTrim(k, from, to) == Writes(k, "list", RemoveEach(List(k), DOMAIN List(k) \ (from..to)), Done)
LSet(k, i, v) == IF i \in DOMAIN List(k)
                 THEN Writes(k, "list", [List(k) EXCEPT ![i] = Stringify(v)], Wrote(v))
                 ELSE Answers(Thrown)

\* Between two keys, or a rotation of one.
RPopLPush(k, d) ==
    IF db[k] # Absent /\ IsOf(d, "list")
    THEN LET t == Last(List(k))
             left == IF k = d THEN <<>> ELSE Front(List(k))
             new == IF k = d THEN <<t>> \o Front(List(k)) ELSE <<t>> \o List(d)
         IN  /\ Len(new) <= MaxLen
             /\ db' = [db EXCEPT ![k] = IF left = <<>> THEN Absent ELSE <<"list", left>>,
                                 ![d] = <<"list", new>>]
             /\ volatile' = volatile \ {x \in {k} : db'[x] = Absent}
             /\ answer' = Js(t)
    ELSE Answers(IF db[k] = Absent THEN Null ELSE Thrown)

Lists(k) == IF ~IsOf(k, "list") THEN Refused ELSE
    \/ \E vs \in Pushed : LPush(k, vs) \/ RPush(k, vs)
    \/ LPop(k) \/ RPop(k) \/ LRange(k) \/ ListReads(k)
    \/ \E i \in 1..MaxLen : LIndex(k, i) \/ \E v \in Inputs : LSet(k, i, v)
    \/ \E pivot, v \in Inputs, before \in BOOLEAN : LInsert(k, pivot, v, before)
    \/ \E v \in Inputs, count \in {-1, 0, 1} : LRem(k, count, v)
    \/ \E from, to \in 1..MaxLen : LTrim(k, from, to)
    \/ \E d \in Keys : RPopLPush(k, d)

Hash(k) == Content(k, "hash")
With(f, x, y) == [z \in (DOMAIN f) \cup {x} |-> IF z = x THEN y ELSE f[z]]

HSet(k, f, v) == Writes(k, "hash", With(Hash(k), f, Stringify(v)), Wrote(v))
HSetNX(k, f, v) == IF f \in DOMAIN Hash(k) THEN Answers(Done)
                   ELSE HSet(k, f, v)
HGet(k, f) == Answers(IF f \in DOMAIN Hash(k) THEN Js(Hash(k)[f]) ELSE Null)
\* hGetAll and hVals parse every field, and throw if one does not parse.
HGetAll(k) == Answers(
    IF \A f \in DOMAIN Hash(k) : Parses(Hash(k)[f])
    THEN <<"hash", [f \in DOMAIN Hash(k) |-> Parse(Hash(k)[f])]>> ELSE Thrown)
HDel(k, f) == Writes(k, "hash", Restrict(Hash(k), DOMAIN Hash(k) \ {f}), Done)
HashReads(k) == Answers(Done)
\* hIncrBy and hIncrByFloat.
HIncrBy(k, f, by) ==
    LET t == IF f \in DOMAIN Hash(k) THEN Hash(k)[f] ELSE Stringify(Num(0))
    IN  IF IsNumber(t)
        THEN InRange(t, by) /\ Writes(k, "hash", With(Hash(k), f, Counted(t, by)), Done)
        ELSE Answers(Thrown)

Hashes(k) == IF ~IsOf(k, "hash") THEN Refused ELSE
    \/ HGetAll(k) \/ HashReads(k)
    \/ \E f \in Fields :
         \/ HGet(k, f) \/ HDel(k, f)
         \/ \E v \in Inputs : HSet(k, f, v) \/ HSetNX(k, f, v)
         \/ \E by \in {1, -1} : HIncrBy(k, f, by)

-----------------------------------------------------------------------------
(* Sets, sorted sets, geo sets, HyperLogLogs, bitmaps: the caller's        *)
(* strings and numbers go to Redis as they are.                            *)

SetOf(k) == Content(k, "set")
StoresAt(d, type, content) ==
    Replaces(d, IF Emptied(type, content) THEN Absent ELSE <<type, content>>, FALSE, Done)

SAdd(k, ms) == Writes(k, "set", SetOf(k) \cup ms, Done)
SRem(k, ms) == Writes(k, "set", SetOf(k) \ ms, Done)
SPop(k) == \E ms \in SUBSET SetOf(k) : SRem(k, ms)
SetReads(k) == Answers(Done)
SMove(k, d, m) ==
    IF IsOf(d, "set")
    THEN IF m \in SetOf(k) /\ k # d
         THEN LET left == SetOf(k) \ {m}
              IN  /\ db' = [db EXCEPT ![k] = IF left = {} THEN Absent ELSE <<"set", left>>,
                                      ![d] = <<"set", SetOf(d) \cup {m}>>]
                  /\ volatile' = IF left = {} THEN volatile \ {k} ELSE volatile
                  /\ answer' = Done
         ELSE Answers(Done)
    ELSE Answers(IF db[k] = Absent THEN Done ELSE Thrown)

\* sDiffStore, sInterStore and sUnionStore.
SStore(d, k1, k2) ==
    IF IsOf(k1, "set") /\ IsOf(k2, "set")
    THEN \E ms \in {SetOf(k1) \ SetOf(k2), SetOf(k1) \cap SetOf(k2),
                    SetOf(k1) \cup SetOf(k2)} : StoresAt(d, "set", ms)
    ELSE Answers(Thrown)

Sets(k) == IF ~IsOf(k, "set") THEN Refused ELSE
    \/ \E ms \in (SUBSET Members) \ {{}} : SAdd(k, ms) \/ SRem(k, ms)
    \/ SPop(k) \/ SetReads(k)
    \/ \E d \in Keys : (\E m \in Members : SMove(k, d, m)) \/ SStore(d, k, d) \/ SStore(k, d, k)

Scored(k) == Content(k, "zset")
Rank(z, m) == Cardinality({n \in DOMAIN z : z[n] < z[m] \/ (z[n] = z[m] /\ n < m)})
Without(k, gone) == Writes(k, "zset", Restrict(Scored(k), DOMAIN Scored(k) \ gone), Done)

ZAdd(k, score, m) == Writes(k, "zset", With(Scored(k), m, score), Done)
ZIncrBy(k, by, m) ==
    LET score == by + (IF m \in DOMAIN Scored(k) THEN Scored(k)[m] ELSE 0)
    IN  score \in 0..MaxNumber /\ Writes(k, "zset", With(Scored(k), m, score), Done)
ZRem(k, m) == Without(k, {m})
ZRemRangeByRank(k, from, to) == Without(k, {m \in DOMAIN Scored(k) : Rank(Scored(k), m) \in from..to})
ZRemRangeByScore(k, min, max) == Without(k, {m \in DOMAIN Scored(k) : Scored(k)[m] \in min..max})
SortedReads(k) == Answers(Done)

\* zUnionStore and zInterStore add the scores up.
ZStore(d, k1, k2) ==
    LET Score(k, m) == IF m \in DOMAIN Scored(k) THEN Scored(k)[m] ELSE 0
    IN  IF ~(IsOf(k1, "zset") /\ IsOf(k2, "zset")) THEN Answers(Thrown) ELSE
        \E ms \in {DOMAIN Scored(k1) \cup DOMAIN Scored(k2), DOMAIN Scored(k1) \cap DOMAIN Scored(k2)} :
            LET sum == [m \in ms |-> Score(k1, m) + Score(k2, m)]
            IN  (\A m \in ms : sum[m] <= MaxNumber) /\ StoresAt(d, "zset", sum)

SortedSets(k) == IF ~IsOf(k, "zset") THEN Refused ELSE
    \/ SortedReads(k)
    \/ \E m \in Members : ZRem(k, m) \/ \E n \in 0..MaxNumber : ZAdd(k, n, m)
                                     \/ \E by \in {1, -1} : ZIncrBy(k, by, m)
    \/ \E from, to \in 0..MaxNumber : ZRemRangeByRank(k, from, to) \/ ZRemRangeByScore(k, from, to)
    \/ \E d \in Keys : ZStore(d, k, d)

\* A position is kept as the member's score; geoRemove is zRem.
GeoAdd(k, place, m) == ZAdd(k, place, m)
GeoReads(k) == SortedReads(k)
Geo(k) == IF ~IsOf(k, "zset") THEN Refused ELSE
    GeoReads(k) \/ \E m \in Members : ZRem(k, m) \/ \E p \in 0..MaxNumber : GeoAdd(k, p, m)

\* A HyperLogLog is a string of its own format; pfClear deletes the key, whatever it is.
Sketch(k) == IF db[k] = Absent THEN {} ELSE db[k][2][2]
IsSketch(k) == db[k] = Absent \/ (db[k][1] = "string" /\ db[k][2][1] = "hll")
PfAdd(k, ms) == Writes(k, "string", <<"hll", Sketch(k) \cup ms>>, Done)
PfMerge(d, k) == IF IsSketch(d) THEN PfAdd(d, Sketch(k)) ELSE Answers(Thrown)
PfReads(k) == Answers(Done)
PfClear(k) == Del(k)
HyperLogLogs(k) ==
    \/ PfClear(k)
    \/ IF ~IsSketch(k) THEN Refused ELSE
       \/ \E ms \in (SUBSET Members) \ {{}} : PfAdd(k, ms)
       \/ PfReads(k)
       \/ \E d \in Keys : PfMerge(d, k)

\* A bit of a bitmap; one of any other string makes another text of it.
IsBitmap(k) == db[k] = Absent \/ (db[k][1] = "string" /\ db[k][2][1] = "bits")
Bits(k) == IF db[k] = Absent THEN {} ELSE db[k][2][2]
SetBit(k, offset, bit) ==
    IF IsBitmap(k)
    THEN Writes(k, "string", <<"bits", IF bit THEN Bits(k) \cup {offset} ELSE Bits(k) \ {offset}>>, Done)
    ELSE \E t \in {Bare, Stringify(Num(0)), Stringify(Word)} : Writes(k, "string", t, Done)
BitReads(k) == Answers(Done)
\* bitOp of bitmaps: AND, OR, XOR, and NOT of the first.
BitOp(d, k1, k2) ==
    /\ IsBitmap(k1) /\ IsBitmap(k2)
    /\ \E S \in {Bits(k1) \cap Bits(k2), Bits(k1) \cup Bits(k2),
                 (Bits(k1) \cup Bits(k2)) \ (Bits(k1) \cap Bits(k2)), Members \ Bits(k1)} :
         Replaces(d, IF db[k1] = Absent /\ db[k2] = Absent THEN Absent ELSE <<"string", <<"bits", S>>>>,
                  FALSE, Done)
Bitmaps(k) == IF ~IsOf(k, "string") THEN Refused ELSE
    \/ \E offset \in Members, bit \in BOOLEAN : SetBit(k, offset, bit)
    \/ BitReads(k)
    \/ \E d \in Keys : BitOp(d, k, d) \/ BitOp(k, d, k)

-----------------------------------------------------------------------------
(* Streams: a string goes in as it is, and everything is parsed on the way *)
(* out when it can be.                                                     *)

Stream(k) == Content(k, "stream")
Entries(k) == Stream(k).entries
Messages(k, S) ==
    IF S = {} THEN Null
    ELSE <<"messages", Picked([i \in DOMAIN Entries(k) |-> ParseOrRaw(Entries(k)[i])], S)>>

XAdd(k, v) ==
    /\ Len(Entries(k)) < MaxEntries
    /\ Writes(k, "stream", [Stream(k) EXCEPT !.entries = Append(@, StringifyUnlessString(v))],
              WroteText(v))

\* The entries after an identifier.
XRead(k, after) == Answers(Messages(k, (after + 1)..Len(Entries(k))))

\* One group, which starts before the first entry or after the last one; with makeStream
\* there need be no stream.
XGroupCreate(k, makeStream, fromStart) ==
    IF Stream(k).next = NoGroup /\ (makeStream \/ db[k] # Absent)
    THEN Writes(k, "stream",
                 [Stream(k) EXCEPT !.next = IF fromStart THEN 0 ELSE Len(Entries(k))], Done)
    ELSE Answers(Thrown)

\* New entries are delivered, at most count of them, and are pending until they are
\* acknowledged; a consumer can also ask for its pending ones again.
XReadGroup(k, count) ==
    LET next == Stream(k).next
        last == IF next + count < Len(Entries(k)) THEN next + count ELSE Len(Entries(k))
    IN  IF next = NoGroup THEN Answers(Thrown)
        ELSE \/ /\ last > next
                /\ Writes(k, "stream", [Stream(k) EXCEPT !.next = last, !.pending = @ \cup ((next + 1)..last)],
                          Messages(k, (next + 1)..last))
             \/ last = next /\ Answers(Null)
             \/ Answers(Messages(k, Stream(k).pending))

XAck(k, ids) == IF db[k] = Absent THEN Answers(Done)
                ELSE Writes(k, "stream", [Stream(k) EXCEPT !.pending = @ \ ids], Done)

XLen(k) == Answers(Done)

Streams(k) == IF ~IsOf(k, "stream") THEN Refused ELSE
    \/ \E v \in Inputs : XAdd(k, v)
    \/ \E after \in 0..MaxEntries : XRead(k, after)
    \/ \E makeStream, fromStart \in BOOLEAN : XGroupCreate(k, makeStream, fromStart)
    \/ \E count \in 1..MaxEntries : XReadGroup(k, count)
    \/ \E ids \in SUBSET (1..MaxEntries) : XAck(k, ids)
    \/ XLen(k)

-----------------------------------------------------------------------------
InitData ==
    /\ db = [k \in Keys |-> Absent]
    /\ volatile = {}
    /\ answer = Done

NextData == \E k \in Keys :
    \/ KeyValue(k) \/ Strings(k) \/ Counters(k) \/ Utilities(k) \/ TimesOut(k)
    \/ Hashes(k) \/ Sets(k) \/ SortedSets(k) \/ Lists(k)
    \/ HyperLogLogs(k) \/ Geo(k) \/ Streams(k) \/ Bitmaps(k)

DataSpec == InitData /\ [][NextData]_dataVars
=============================================================================
