-------------------------- MODULE CacheProperties --------------------------
(***************************************************************************)
(* What is asked of the cache package as a whole.  The properties of the   *)
(* parts that need no more than the part stand in its module.              *)
(***************************************************************************)
EXTENDS CacheSystem

JsonTexts == {Stringify(v) : v \in Inputs \cup {Num(i) : i \in 0..MaxNumber}}
KnownTexts == {Bare} \cup JsonTexts
Encoded == {<<kind, S>> : kind \in {"bits", "hll"}, S \in SUBSET Members}

\* What a key of each type may hold: of what lists and hashes hold everything parses.
ContentOf(type) ==
    CASE type = "string" -> KnownTexts \cup Encoded
      [] type = "list" -> {s \in Seq(JsonTexts) : Len(s) \in 1..MaxLen}
      [] type = "hash" -> UNION {[F -> JsonTexts] : F \in (SUBSET Fields) \ {{}}}
      [] type = "set" -> (SUBSET Members) \ {{}}
      [] type = "zset" -> UNION {[M -> 0..MaxNumber] : M \in (SUBSET Members) \ {{}}}
      [] type = "stream" ->
           \* what is pending has been delivered
           {s \in [entries : Seq(KnownTexts), next : {NoGroup} \cup Nat, pending : SUBSET Nat] :
               /\ Len(s.entries) <= MaxEntries /\ s.next <= Len(s.entries)
               /\ s.pending \subseteq 1..s.next}

KeyType(v) ==
    \/ v = Absent
    \/ \E type \in {"string", "list", "hash", "set", "zset", "stream"} :
          v[1] = type /\ v[2] \in ContentOf(type) /\ v = <<type, v[2]>>

\* Redis keeps no empty list, hash or set, only keys that are there have a time to live, what
\* is pending in a stream's group has been delivered, and what the other parts keep has its type.
TypeOK ==
    /\ part \in Parts
    /\ \A k \in Keys : KeyType(db[k])
    /\ volatile \subseteq {k \in Keys : db[k] # Absent}
    /\ cache \in [AsideKeys -> {Nothing} \cup 0..MaxVersion]
    /\ \A k \in AsideKeys : cache[k] <= source[k]
    /\ watched \subseteq WatchKeys
    /\ \A c \in TxCallers : tx[c].attempts \in 0..MaxRetries
    /\ client = "none" => \A s \in Subs : sub[s] = "new"
    /\ \A s \in Subs : sub[s] \in {"on", "off"} => client # "connecting"
    /\ \A s \in Subs : sub[s] = "refused" => client = "closed"
    /\ \A p \in Places : lock[p] \in Requests \cup {NoResponse}
    /\ sequence \in 0..(Sequences + MaxCuids) /\ lastTimestamp \in -1..MaxClock

\* The keyspace of texts as a store of JavaScript values.  The elements of lists and hashes
\* must parse, or lPop, rPop and rPopLPush remove one that they cannot return.
Element(t) == IF Parses(t) THEN Parse(t) ELSE <<"broken">>
AsJs(v) ==
    CASE v = Absent -> <<"nothing">>
      [] v[1] = "string" /\ Parses(v[2]) -> <<"value", Parse(v[2])>>
      [] v[1] \in {"list", "hash"} -> <<v[1], [i \in DOMAIN v[2] |-> Element(v[2][i])]>>
      [] v[1] = "stream" -> <<"stream", [i \in DOMAIN v[2].entries |-> ParseOrRaw(v[2].entries[i])]>>
      [] OTHER -> <<"opaque">>

Promised == INSTANCE JsStore WITH store <- [k \in Keys |-> AsJs(db[k])], mortal <- volatile

\* The data-structure services implement the store of values: what is read is what was
\* written, in its place and in its order, whatever was called in between, and no command
\* leaves an element behind that does not parse.
KeepsJsStore == Promised!StoreSpec
=============================================================================
