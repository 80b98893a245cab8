----------------------------- MODULE CacheAside -----------------------------
(***************************************************************************)
(* CoreRedisService and delByPattern under several callers: a source of    *)
(* truth, cached copies of it, and calls made of several commands.  A      *)
(* cached copy is the version of the source it was made from.              *)
(***************************************************************************)
EXTENDS Integers, FiniteSets

CONSTANTS
    AsideKeys,
    AsideCallers,
    MaxVersion,     \* BOUND on the changes of the source
    MaxFailures     \* BOUND on commands that Redis refuses

Nothing == -1

ASSUME AsideAssumption == MaxVersion \in Nat /\ MaxFailures \in Nat /\ Nothing \notin AsideKeys

VARIABLES
    source,     \* per key, the version of the truth
    cache,      \* per key, a version or Nothing
    asideCall,  \* per caller, what it is at
    doubtful,   \* keys whose copy may be stale: calls overlapped or a command failed
    failures

asideVars == <<source, cache, asideCall, doubtful, failures>>

Resting == [at |-> "rest", key |-> Nothing, val |-> Nothing, batch |-> {}, seen |-> {}, due |-> {},
            more |-> FALSE]

InitAside ==
    /\ source = [k \in AsideKeys |-> 0]
    /\ cache = [k \in AsideKeys |-> Nothing]
    /\ asideCall = [c \in AsideCallers |-> Resting]
    /\ doubtful = {}
    /\ failures = 0

At(c, where) == asideCall[c].at = where
Key(c) == asideCall[c].key
On(k) == {c \in AsideCallers : ~At(c, "rest") /\ Key(c) = k}
Changing(k) == {c \in On(k) : At(c, "drop") \/ At(c, "drop again") \/ At(c, "replace")
                              \/ At(c, "evict") \/ At(c, "evict again")}
Cached == {k \in AsideKeys : cache[k] # Nothing}

Proceeds(c, where) == asideCall' = [asideCall EXCEPT ![c].at = where]
Ends(c) == asideCall' = [asideCall EXCEPT ![c] = Resting]

\* A key that is written is no longer due to a sweep that was under way.
Written(k, v, c) ==
    /\ cache' = [cache EXCEPT ![k] = v]
    /\ asideCall' = [d \in AsideCallers |->
                       IF d = c THEN Resting ELSE [asideCall[d] EXCEPT !.due = @ \ {k}]]

-----------------------------------------------------------------------------
(* getOrSet: a look, the factory, a set.                                   *)

GetOrSet(c, k) ==
    /\ At(c, "rest")
    /\ asideCall' = [asideCall EXCEPT ![c] = [Resting EXCEPT !.at = "look", !.key = k]]
    /\ doubtful' = IF Changing(k) = {} THEN doubtful ELSE doubtful \cup {k}
    /\ UNCHANGED <<source, cache, failures>>

Look(c) ==
    /\ At(c, "look")
    /\ IF cache[Key(c)] = Nothing THEN Proceeds(c, "make") ELSE Ends(c)
    /\ UNCHANGED <<source, cache, doubtful, failures>>

\* The factory reads the source, or throws.
Make(c) ==
    /\ At(c, "make")
    /\ \/ asideCall' = [asideCall EXCEPT ![c].at = "fill", ![c].val = source[Key(c)]]
       \/ Ends(c)
    /\ UNCHANGED <<source, cache, doubtful, failures>>

Fill(c) ==
    /\ At(c, "fill")
    /\ Written(Key(c), asideCall[c].val, c)
    /\ UNCHANGED <<source, doubtful, failures>>

-----------------------------------------------------------------------------
(* The application changes the source, then updates or deletes the copy.   *)

Change(c, k, first) ==
    /\ At(c, "rest") /\ source[k] < MaxVersion
    /\ source' = [source EXCEPT ![k] = @ + 1]
    /\ asideCall' = [asideCall EXCEPT ![c] = [Resting EXCEPT !.at = first, !.key = k, !.val = source'[k]]]
    /\ doubtful' = IF On(k) = {} THEN doubtful \ {k} ELSE doubtful \cup {k}
    /\ UNCHANGED <<cache, failures>>

\* del: through the cache manager's connection, then through the client's.
Drop(c, first, next) ==
    /\ At(c, first)
    /\ cache' = [cache EXCEPT ![Key(c)] = Nothing]
    /\ IF next = "rest" THEN Ends(c) ELSE Proceeds(c, next)
    /\ UNCHANGED <<source, doubtful, failures>>

\* MUTANT of Replace: it sets the value that was to go.
ReplaceByTheOld(c) ==
    /\ At(c, "replace")
    /\ Written(Key(c), asideCall[c].val - 1, c)
    /\ UNCHANGED <<source, doubtful, failures>>

\* update ends with a set.
Replace(c) ==
    /\ At(c, "replace")
    /\ Written(Key(c), asideCall[c].val, c)
    /\ UNCHANGED <<source, doubtful, failures>>

Update(c) ==
    \/ \E k \in AsideKeys : Change(c, k, "drop")
    \/ Drop(c, "drop", "drop again") \/ Drop(c, "drop again", "replace")
    \/ Replace(c)

Delete(c) ==
    \/ \E k \in AsideKeys : Change(c, k, "evict")
    \/ Drop(c, "evict", "evict again") \/ Drop(c, "evict again", "rest")

-----------------------------------------------------------------------------
(* delByPattern: a scan by a cursor, with a deletion of what each step     *)
(* returns.  A scan may miss or repeat keys that come and go meanwhile, but*)
(* returns every key that is there from its first step to its last.        *)

Sweep(c) ==
    /\ At(c, "rest")
    /\ asideCall' = [asideCall EXCEPT ![c] = [Resting EXCEPT !.at = "scan", !.due = Cached]]
    /\ UNCHANGED <<source, cache, doubtful, failures>>

Scan(c) ==
    /\ At(c, "scan")
    /\ \E B \in SUBSET Cached, more \in BOOLEAN :
         LET seen == asideCall[c].seen \cup B
         IN  /\ ~more => asideCall[c].due \cap Cached \subseteq seen
             /\ more => seen # asideCall[c].seen     \* the cursor gets on
             /\ asideCall' = [asideCall EXCEPT ![c].at = "sweep", ![c].batch = B, ![c].seen = seen,
                                               ![c].more = more]
    /\ UNCHANGED <<source, cache, doubtful, failures>>

Swept(c, again) ==
    /\ At(c, "sweep")
    /\ cache' = [k \in AsideKeys |-> IF k \in asideCall[c].batch THEN Nothing ELSE cache[k]]
    /\ asideCall' = [asideCall EXCEPT ![c].at = IF again THEN "scan" ELSE "swept", ![c].batch = {},
                                      ![c].more = FALSE]
    /\ UNCHANGED <<source, doubtful, failures>>

\* MUTANT of SweepBatch: it does not look at the cursor.
SweepOnce(c) == Swept(c, FALSE)
SweepBatch(c) == Swept(c, asideCall[c].more)

SweepEnds(c) == At(c, "swept") /\ Ends(c) /\ UNCHANGED <<source, cache, doubtful, failures>>

-----------------------------------------------------------------------------
\* Redis refuses a command: the call rejects, what it did so far stays.
Fails(c) ==
    /\ ~At(c, "rest") /\ ~At(c, "swept") /\ ~At(c, "make") /\ failures < MaxFailures
    /\ failures' = failures + 1
    /\ doubtful' = IF Key(c) \in AsideKeys THEN doubtful \cup {Key(c)} ELSE doubtful
    /\ Ends(c)
    /\ UNCHANGED <<source, cache>>

RunsOut(k) ==
    /\ cache[k] # Nothing
    /\ cache' = [cache EXCEPT ![k] = Nothing]
    /\ doubtful' = IF On(k) = {} THEN doubtful \ {k} ELSE doubtful
    /\ UNCHANGED <<source, asideCall, failures>>

NextAside ==
    \/ \E c \in AsideCallers :
         \/ \E k \in AsideKeys : GetOrSet(c, k)
         \/ Look(c) \/ Make(c) \/ Fill(c)
         \/ Update(c) \/ Delete(c)
         \/ Sweep(c) \/ Scan(c) \/ SweepBatch(c) \/ SweepEnds(c)
         \/ Fails(c)
    \/ \E k \in AsideKeys : RunsOut(k)

AsideSpec == InitAside /\ [][NextAside]_asideVars

-----------------------------------------------------------------------------
\* When no call on a key is under way, its copy is that of the source, unless a getOrSet or an
\* update overlapped with a change of the key, or a command failed, since the last change
\* that ran alone or the last time out.
FreshUnlessOverlapped ==
    \A k \in AsideKeys \ doubtful : On(k) = {} => cache[k] \in {Nothing, source[k]}

\* delByPattern has deleted every key that was there when it began and was not written since.
PatternIsGone == \A c \in AsideCallers : At(c, "swept") => asideCall[c].due \cap Cached = {}
=============================================================================
