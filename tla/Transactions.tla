---------------------------- MODULE Transactions ----------------------------
(***************************************************************************)
(* TransactionRedisService: WATCH, MULTI and EXEC of many callers over the *)
(* one connection that they share.  A MULTI goes out with its EXEC, so     *)
(* what can come between is what comes between WATCH and EXEC.             *)
(***************************************************************************)
EXTENDS Integers, FiniteSets

CONSTANTS
    WatchKeys,
    TxCallers,
    MaxRetries,
    MaxWrites   \* BOUND on writes by others, explicit watches and reconnections


VARIABLES
    watched,    \* the keys that the connection watches
    dirty,      \* whether one of them has changed since, or the client knows that they are lost
    tx,         \* per caller, its call
    leaked,     \* whether a caller has left a WATCH behind
    others      \* counts what the bound is about

txVars == <<watched, dirty, tx, leaked, others>>

None == "none"

ASSUME TxAssumption == MaxRetries \in Nat \ {0} /\ MaxWrites \in Nat /\ None \notin TxCallers

\* applied counts how often commands of the call were applied; refused says that one of its
\* requests was rejected, by the server or with the connection; inherited, that a conflict stood
\* before the call began.
Free == [at |-> "rest", key |-> None, attempts |-> 0, applied |-> 0, changed |-> FALSE,
         cleared |-> FALSE, threw |-> FALSE, refused |-> FALSE, disturbed |-> FALSE,
         inherited |-> FALSE]

InitTx ==
    /\ watched = {}
    /\ dirty = FALSE
    /\ tx = [c \in TxCallers |-> Free]
    /\ leaked = FALSE
    /\ others = 0

In(c, where) == tx[c].at = where
Busy(c) == In(c, "watch") \/ In(c, "exec")

\* What a write of the keys W, or a cleared WATCH, means to the callers other than c; then
\* what becomes of c.  A write disturbs a call only through a key that the connection watches.
Told(f, W, clears, c, new) ==
    [d \in TxCallers |->
       IF d = c THEN new
       ELSE [f[d] EXCEPT !.changed = @ \/ (In(d, "exec") /\ f[d].key \in W),
                         !.cleared = @ \/ (In(d, "exec") /\ clears),
                         !.disturbed = @ \/ (Busy(d) /\ ~clears /\ W \cap watched # {})]]

-----------------------------------------------------------------------------
(* withTransaction and transactionGetSet.                                  *)

WithTransaction(c, k) ==
    /\ In(c, "rest")
    /\ tx' = [tx EXCEPT ![c] = [Free EXCEPT !.at = "watch", !.key = k, !.inherited = dirty]]
    /\ UNCHANGED <<watched, dirty, leaked, others>>

Watch(c) ==
    /\ In(c, "watch")
    /\ watched' = watched \cup {tx[c].key}
    /\ tx' = [tx EXCEPT ![c].at = "exec", ![c].changed = FALSE, ![c].cleared = FALSE]
    /\ UNCHANGED <<dirty, leaked, others>>

\* An attempt has failed: the next one, or none.
Retried(c, next) ==
    LET n == tx[c].attempts + 1
    IN  [tx[c] EXCEPT !.attempts = n, !.at = IF n >= MaxRetries THEN "gave up" ELSE next]

\* MUTANTS of Failed: the first conflict is final; the next attempt does not WATCH again.
FailedForGood(c) == [tx[c] EXCEPT !.at = "gave up"]
FailedWithoutWatch(c) == Retried(c, "exec")

Failed(c) == Retried(c, "watch")

\* transactionFn throws before EXEC: the WATCH stays, also when the call has given up.
FnThrows(c) ==
    /\ In(c, "exec")
    /\ tx' = [tx EXCEPT ![c] = [Failed(c) EXCEPT !.threw = TRUE]]
    /\ leaked' = TRUE
    /\ UNCHANGED <<watched, dirty, others>>

\* The commands of r's call have written the keys W.
Applied(r, W) == [r EXCEPT !.applied = IF W = {} THEN @ ELSE @ + 1]

\* MUTANT of Exec: a conflict is answered with a WATCH at once, also by the last attempt.
ExecThenWatch(c) ==
    /\ In(c, "exec")
    /\ watched' = IF dirty THEN {tx[c].key} ELSE {}
    /\ dirty' = FALSE /\ leaked' = FALSE
    /\ tx' = IF dirty THEN Told(tx, {}, TRUE, c, Failed(c))
             ELSE Told(tx, {tx[c].key}, TRUE, c, Applied([tx[c] EXCEPT !.at = "committed"], {tx[c].key}))
    /\ UNCHANGED others

\* EXEC ends every WATCH of the connection, whoever asked for it.  It reports a conflict when a
\* watched key has changed, or writes; or it rejects for a command that the server refused: when
\* it was queued, and then none is applied, or when it ran, and then the others are.
Exec(c) ==
    /\ In(c, "exec")
    /\ watched' = {} /\ dirty' = FALSE /\ leaked' = FALSE
    /\ \/ /\ dirty
          /\ tx' = Told(tx, {}, TRUE, c, Failed(c))
       \/ /\ ~dirty
          /\ tx' = Told(tx, {tx[c].key}, TRUE, c, Applied([tx[c] EXCEPT !.at = "committed"], {tx[c].key}))
       \/ \E W \in SUBSET {tx[c].key} :
            /\ W # {} => ~dirty
            /\ tx' = Told(tx, W, TRUE, c, Applied([Failed(c) EXCEPT !.refused = TRUE], W))
    /\ UNCHANGED others

-----------------------------------------------------------------------------
(* The other users of the connection.                                      *)

\* mSet, and multiExecute with the commands that the client has in lower case; the others
\* (hset, lpush, incrby) are left out of the transaction without an error.  Of the keys W it writes
\* those in V when the server refuses a command.
MultiExecute(c, W) ==
    /\ In(c, "rest")
    /\ watched' = {} /\ dirty' = FALSE /\ leaked' = FALSE
    /\ \/ /\ ~dirty
          /\ tx' = Told(tx, W, TRUE, c, Free)
       \/ \E V \in SUBSET W :
            /\ V # {} => ~dirty
            /\ tx' = Told(tx, V, TRUE, c, Applied([Free EXCEPT !.at = "rejected"], V))
    /\ UNCHANGED others

\* watch and unwatch for themselves; discard is refused, as no MULTI is open.
WatchAlone(k) ==
    /\ others < MaxWrites /\ others' = others + 1
    /\ watched' = watched \cup {k} /\ leaked' = TRUE
    /\ UNCHANGED <<dirty, tx>>

Unwatch ==
    /\ watched # {} \/ dirty
    /\ watched' = {} /\ dirty' = FALSE /\ leaked' = FALSE
    /\ tx' = Told(tx, {}, TRUE, None, Free)
    /\ UNCHANGED others

Discard == UNCHANGED txVars

\* A write of one command, from here or elsewhere.
Write(k) ==
    /\ others < MaxWrites /\ others' = others + 1
    /\ dirty' = (dirty \/ k \in watched)
    /\ tx' = Told(tx, {k}, FALSE, None, Free)
    /\ UNCHANGED <<watched, leaked>>

\* The connection is lost and made again: the server has forgotten what it watched, and the
\* client rejects the next EXEC for it, or, in an older version, does not.  The call c whose
\* command was under way is rejected, its EXEC applied or not; None says that none was.
Reconnect(c) ==
    /\ others < MaxWrites /\ others' = others + 1
    /\ watched' = {} /\ dirty' \in {FALSE, watched # {}} /\ leaked' = FALSE
    /\ c # None => Busy(c)
    /\ \E W \in SUBSET WatchKeys :
         /\ W # {} => c # None /\ In(c, "exec") /\ ~dirty /\ W = {tx[c].key}
         /\ LET told == Told(tx, W, TRUE, c, Applied([Failed(c) EXCEPT !.refused = TRUE], W))
            IN  tx' = [d \in TxCallers |-> [told[d] EXCEPT !.disturbed = @ \/ Busy(d)]]

Return(c) ==
    /\ In(c, "committed") \/ In(c, "gave up") \/ In(c, "rejected")
    /\ tx' = [tx EXCEPT ![c] = Free]
    /\ UNCHANGED <<watched, dirty, leaked, others>>

NextTx ==
    \/ \E c \in TxCallers :
         \/ \E k \in WatchKeys : WithTransaction(c, k)
         \/ Watch(c) \/ FnThrows(c) \/ Exec(c) \/ Return(c)
         \/ \E W \in SUBSET WatchKeys : MultiExecute(c, W)
    \/ \E k \in WatchKeys : WatchAlone(k) \/ Write(k)
    \/ \E c \in TxCallers \cup {None} : Reconnect(c)
    \/ Unwatch \/ Discard

TxSpec == InitTx /\ [][NextTx]_txVars

-----------------------------------------------------------------------------
\* A transaction commits over a change of its key since its WATCH only when another caller's
\* EXEC or UNWATCH, or a new connection, has ended the WATCH.
CommitSeesNoChange ==
    \A c \in TxCallers : In(c, "committed") /\ tx[c].changed => tx[c].cleared

\* How often the commands of a call that ends so are applied: once, if it commits or if it is a
\* multiExecute that is rejected, which does not try again.
Due(c) == IF In(c, "committed") \/ In(c, "rejected") THEN 1 ELSE 0

\* withTransaction gives up only when its function threw, the server refused one of its
\* commands, or, while it ran, a key that the connection watches was written or the connection
\* was lost.  A conflict that stood before it began ends only a call of one attempt.  And a call
\* has applied its commands twice, or without committing, only if a request of it was refused or
\* lost: a conflict has applied none.
GivesUpForAReason ==
    \A c \in TxCallers :
        /\ In(c, "gave up") => \/ tx[c].threw \/ tx[c].refused \/ tx[c].disturbed
                               \/ MaxRetries = 1 /\ tx[c].inherited
        /\ tx[c].applied > Due(c) => tx[c].refused

\* When no transaction is under way, none has thrown and nobody called watch, the connection
\* watches nothing: an mSet cannot be rejected for somebody else's WATCH.
WatchesAreAccountedFor ==
    watched # {} => leaked \/ \E c \in TxCallers : Busy(c)
=============================================================================
