---------------------------- MODULE CacheSystem ----------------------------
(***************************************************************************)
(* The cache package, the idempotency interceptor over it and the          *)
(* identifier generator.  The parts share a server but neither keys nor    *)
(* callers: one behaviour runs one of them, so that their state spaces     *)
(* add up instead of multiplying.                                          *)
(***************************************************************************)
EXTENDS RedisData, CacheAside, Transactions, PubSub, Idempotency, IdGenerator

VARIABLE part

vars == <<part, dataVars, asideVars, txVars, psVars, idemVars, idVars>>

Parts == {"data", "aside", "transactions", "pubsub", "idempotency", "identifiers"}

Init ==
    /\ part \in Parts
    /\ InitData /\ InitAside /\ InitTx /\ InitPubSub /\ InitIds
    /\ InitIdempotency
    /\ part # "idempotency" => hasRedis

\* RedisService hands every call on to the service of the part.
Data == part = "data" /\ NextData /\ UNCHANGED <<asideVars, txVars, psVars, idemVars, idVars>>
Aside == part = "aside" /\ NextAside /\ UNCHANGED <<dataVars, txVars, psVars, idemVars, idVars>>
Tx == part = "transactions" /\ NextTx /\ UNCHANGED <<dataVars, asideVars, psVars, idemVars, idVars>>
Channel == part = "pubsub" /\ NextPubSub /\ UNCHANGED <<dataVars, asideVars, txVars, idemVars, idVars>>
Requesting == part = "idempotency" /\ NextIdempotency
              /\ UNCHANGED <<dataVars, asideVars, txVars, psVars, idVars>>
Identifying == part = "identifiers" /\ NextIds
               /\ UNCHANGED <<dataVars, asideVars, txVars, psVars, idemVars>>

Next == (Data \/ Aside \/ Tx \/ Channel \/ Requesting \/ Identifying) /\ UNCHANGED part

Spec == Init /\ [][Next]_vars

\* What an answer was does not matter to what comes next, nor how often a call's commands were
\* applied beyond twice.
Calls == [c \in TxCallers |-> [tx[c] EXCEPT !.applied = IF @ > 2 THEN 2 ELSE @]]
View == <<part, db, volatile, asideVars, watched, dirty, Calls, leaked, others, psVars, idemVars, idVars>>
=============================================================================
