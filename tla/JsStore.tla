------------------------------ MODULE JsStore ------------------------------
(***************************************************************************)
(* What the data-structure services promise to a caller who thinks in      *)
(* JavaScript values: a value, list, hash or stream reads back as it was   *)
(* written, whatever calls come between.  Two exceptions are part of the   *)
(* promise: a string that is written as it is (setNX, getSet, xAdd) is     *)
(* read as what it parses to, and what is not written as a value is opaque.*)
(***************************************************************************)
EXTENDS JsValues, SequencesExt

CONSTANTS Keys, Fields

VARIABLES
    store,      \* per key a value, a list, a hash, a stream, or something opaque
    mortal,     \* the keys that will time out
    answer

Nothing == <<"nothing">>
Opaque == <<"opaque">>
Value(v) == <<"value", v>>
Is(k, kind) == store[k][1] = kind
Held(k, kind) == IF Is(k, kind) THEN store[k][2] ELSE <<>>
Free(k, kind) == Is(k, kind) \/ store[k] = Nothing

Answer(a) == answer' = a /\ UNCHANGED <<store, mortal>>

Only(k) == \A j \in Keys \ {k} : store'[j] = store[j]

\* A change to what a key holds, to one of Hs: its time to live is as before.
Change(k, Hs, a) ==
    /\ answer' = a
    /\ Only(k) /\ store'[k] \in Hs
    /\ mortal' = IF store'[k] = Nothing THEN mortal \ {k} ELSE mortal

\* Something new, one of Hs, in the place of whatever was there.
Replace(k, Hs, a) ==
    /\ answer' = a
    /\ Only(k) /\ store'[k] \in Hs
    /\ mortal' \in {mortal \ {k}} \cup (IF store'[k] = Nothing THEN {} ELSE {mortal \cup {k}})

Seen(v) == IF v[1] = "digits" THEN Num(v[2]) ELSE v
Reread(v) == IF v = Word THEN Opaque ELSE Value(Seen(v))

Values(k) ==
    \/ Replace(k, {Nothing, Opaque, Value(Num(0))}, Done)
    \/ \E v \in Inputs : Replace(k, {Value(v)}, Wrote(v)) \/ Replace(k, {Reread(v)}, WroteText(v))
    \/ Is(k, "value") /\ Answer(<<"js", store[k][2]>>)
    \/ /\ Is(k, "value") /\ IsNum(store[k][2])
       /\ Change(k, {Value(Num(store[k][2][2] + by)) : by \in {1, -1}}, Done)
    \/ store[k] = Nothing /\ (Answer(Null) \/ Change(k, {Value(Num(1))}, Done))
    \* A string can be overwritten in the middle, and other data is the caller's own.
    \/ /\ store[k][1] \in {"nothing", "opaque", "value"}
       /\ Change(k, {Nothing, Opaque, Value(Num(0)), Value(Word)}, Done)
    \/ Answer(Done) \/ Answer(Thrown)
    \/ mortal' \in {mortal \ {k}, mortal \cup {k}} /\ (store[k] = Nothing => k \notin mortal')
       /\ answer' = Done /\ UNCHANGED store

ListOf(vs) == IF vs = <<>> THEN Nothing ELSE <<"list", vs>>
Cut(vs, from, to) == IF from > to THEN <<>> ELSE SubSeq(vs, from, to)

Pushes == {<<v>> : v \in Inputs} \cup {<<v, w>> : v, w \in Inputs}

Push(k, vs) == LET l == Held(k, "list") IN
    \/ Change(k, {ListOf(Reverse(vs) \o l)}, PushedLeft(vs))
    \/ Change(k, {ListOf(l \o vs)}, PushedRight(vs))

\* An insertion somewhere, a replacement.
Place(k, v) == LET l == Held(k, "list") n == Len(l) IN
    \/ Change(k, {ListOf(Cut(l, 1, i) \o <<v>> \o Cut(l, i + 1, n)) : i \in 0..n}, Wrote(v))
    \/ Change(k, {ListOf([l EXCEPT ![i] = v]) : i \in 1..n}, Wrote(v))

\* What is answered is what is taken.
Pop(k) == LET l == Held(k, "list") n == Len(l) IN n > 0 /\
    \/ Change(k, {ListOf(Tail(l))}, <<"js", l[1]>>)
    \/ Change(k, {ListOf(Cut(l, 1, n - 1))}, <<"js", l[n]>>)

\* All of a value, one element, or all but a range.
TakeOut(k) == LET l == Held(k, "list") n == Len(l) IN
    \/ Change(k, {ListOf(Picked(l, {i \in 1..n : l[i] # v})) : v \in Inputs}, Done)
    \/ Change(k, {ListOf(Picked(l, (1..n) \ {i})) : i \in 1..n}, Done)
    \/ Change(k, {ListOf(Picked(l, i..j)) : i \in 1..n + 1, j \in 0..n}, Done)

ReadList(k) == LET l == Held(k, "list") IN
    Answer(<<"list", l>>) \/ Answer(Null) \/ \E i \in 1..Len(l) : Answer(<<"js", l[i]>>)

Lists(k) == Free(k, "list") /\
    \/ \E vs \in Pushes : Push(k, vs)
    \/ \E v \in Inputs : Place(k, v)
    \/ Pop(k) \/ TakeOut(k) \/ ReadList(k)

\* The last element of one list becomes the first of another, or of its own.
Move(k, d) == LET l == Held(k, "list") n == Len(l) IN
    /\ n > 0 /\ Free(d, "list") /\ answer' = <<"js", l[n]>>
    /\ LET rest == Cut(l, 1, n - 1)
       IN  store' = IF d = k THEN [store EXCEPT ![k] = ListOf(<<l[n]>> \o rest)]
                    ELSE [store EXCEPT ![k] = ListOf(rest), ![d] = ListOf(<<l[n]>> \o Held(d, "list"))]
    /\ mortal' = IF store'[k] = Nothing THEN mortal \ {k} ELSE mortal

\* Opaque data can move as well.
MoveOpaque(k, d) ==
    /\ Is(k, "opaque") /\ Free(d, "opaque") /\ answer' = Done
    /\ \E x \in {Nothing, Opaque} : /\ store' = [store EXCEPT ![k] = x, ![d] = Opaque]
                                    /\ mortal' = IF x = Nothing THEN mortal \ {k} ELSE mortal

HashOf(h) == IF DOMAIN h = {} THEN Nothing ELSE <<"hash", h>>
Put(h, f, v) == [g \in (DOMAIN h) \cup {f} |-> IF g = f THEN v ELSE h[g]]

PutField(k, v) == LET h == Held(k, "hash") IN
    Change(k, {HashOf(Put(h, f, v)) : f \in Fields}, Wrote(v))
DropField(k) == LET h == Held(k, "hash") IN
    Change(k, {HashOf([g \in (DOMAIN h) \ {f} |-> h[g]]) : f \in Fields}, Done)
\* What is not there counts as zero.
CountField(k, f) == LET h == Held(k, "hash") IN
    \/ f \in DOMAIN h /\ IsNum(h[f])
       /\ Change(k, {HashOf(Put(h, f, Num(h[f][2] + by))) : by \in {1, -1}}, Done)
    \/ f \notin DOMAIN h /\ Change(k, {HashOf(Put(h, f, Num(by))) : by \in {1, -1}}, Done)
ReadHash(k) == LET h == Held(k, "hash") IN
    Answer(<<"hash", h>>) \/ Answer(Null) \/ \E f \in DOMAIN h : Answer(<<"js", h[f]>>)

Hashes(k) == Free(k, "hash") /\
    \/ \E v \in Inputs : PutField(k, v)
    \/ DropField(k) \/ ReadHash(k) \/ \E f \in Fields : CountField(k, f)

\* Messages are only added, and are read in the order in which they were.
AddMessage(k, v) == Change(k, {<<"stream", Append(Held(k, "stream"), Seen(v))>>}, WroteText(v))
ReadMessages(k) == \E S \in SUBSET DOMAIN Held(k, "stream") :
    Answer(<<"messages", Picked(Held(k, "stream"), S)>>)

Streams(k) == Free(k, "stream") /\
    \/ Change(k, {<<"stream", Held(k, "stream")>>}, Done)
    \/ \E v \in Inputs : AddMessage(k, v)
    \/ Answer(Null) \/ ReadMessages(k)

Init == store = [k \in Keys |-> Nothing] /\ mortal = {} /\ answer = Done

Next ==
    \* That nothing happens comes first because it is the cheapest to rule out.
    \/ UNCHANGED <<store, mortal, answer>>
    \/ \E k \in Keys : \/ Values(k) \/ Lists(k) \/ Hashes(k) \/ Streams(k)
                      \/ \E d \in Keys : Move(k, d) \/ MoveOpaque(k, d)

StoreSpec == Init /\ [][Next]_<<store, mortal, answer>>
=============================================================================
