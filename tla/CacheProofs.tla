----------------------------- MODULE CacheProofs -----------------------------
(***************************************************************************)
(* What holds of the cache package, the idempotency interceptor over it    *)
(* and the identifier generator, for any number of callers, keys, requests *)
(* and subscriptions.  Each part is proved of its own specification, which *)
(* is what CacheSystem runs of it.                                         *)
(***************************************************************************)
EXTENDS CacheProperties, FiniteSetTheorems, SequenceTheorems, WellFoundedInduction, TLAPS

-----------------------------------------------------------------------------
(* Transactions: what WATCH protects, and what is left watched             *)

TxStages == {"rest", "watch", "exec", "committed", "gave up", "rejected"}

TxCall == [at : TxStages, key : WatchKeys \cup {None}, attempts : Nat, applied : Nat,
           changed : BOOLEAN, cleared : BOOLEAN, threw : BOOLEAN, refused : BOOLEAN,
           disturbed : BOOLEAN, inherited : BOOLEAN]

TxType == watched \subseteq WatchKeys /\ dirty \in BOOLEAN /\ tx \in [TxCallers -> TxCall]

\* From its WATCH to its EXEC a caller's key is watched, and a change of it is known, unless the
\* WATCH has been ended by somebody else.
WatchHolds(c) ==
    In(c, "exec") /\ ~tx[c].cleared => tx[c].key \in watched /\ (tx[c].changed => dirty)

\* What makes an attempt fail was done during the call, or stood there when it began.
ConflictIsRecent(c) ==
    Busy(c) /\ dirty =>
        tx[c].threw \/ tx[c].disturbed \/ (tx[c].attempts = 0 /\ tx[c].inherited)

CommitIsSafe(c) == In(c, "committed") /\ tx[c].changed => tx[c].cleared

HasReason(c) ==
    In(c, "gave up") => \/ tx[c].threw \/ tx[c].refused \/ tx[c].disturbed
                        \/ MaxRetries = 1 /\ tx[c].inherited

\* A conflict applies nothing.
AppliedIsDue(c) == tx[c].applied > Due(c) => tx[c].refused

CallInv(c) ==
    /\ Busy(c) => tx[c].key \in WatchKeys
    /\ AppliedIsDue(c)
    /\ WatchHolds(c) /\ ConflictIsRecent(c) /\ CommitIsSafe(c) /\ HasReason(c)

TxInv == TxType /\ (\A c \in TxCallers : CallInv(c)) /\ WatchesAreAccountedFor

-----------------------------------------------------------------------------
\* t is what becomes of d when it is told of a write of W, and of the end of all watches if clears.
HasMarks(t, d, W, clears) ==
    /\ t \in TxCall
    /\ t.at = tx[d].at /\ t.key = tx[d].key /\ t.attempts = tx[d].attempts
    /\ t.threw = tx[d].threw /\ t.refused = tx[d].refused /\ t.inherited = tx[d].inherited
    /\ t.applied = tx[d].applied
    /\ t.changed = (tx[d].changed \/ (In(d, "exec") /\ tx[d].key \in W))
    /\ t.cleared = (tx[d].cleared \/ (In(d, "exec") /\ clears))
    /\ t.disturbed = (tx[d].disturbed \/ (Busy(d) /\ ~clears /\ W \cap watched # {}))

IsTold(d, W, clears) == HasMarks(tx'[d], d, W, clears)

\* What a caller is told changes its marks, not its place.
LEMMA ToldAre ==
    ASSUME tx \in [TxCallers -> TxCall], NEW W, NEW clears \in BOOLEAN, NEW c, NEW new,
           NEW d \in TxCallers, d # c
    PROVE  HasMarks(Told(tx, W, clears, c, new)[d], d, W, clears)
<1> DEFINE t == Told(tx, W, clears, c, new)[d]
           ch == tx[d].changed \/ (In(d, "exec") /\ tx[d].key \in W)
           cl == tx[d].cleared \/ (In(d, "exec") /\ clears)
           di == tx[d].disturbed \/ (Busy(d) /\ ~clears /\ W \cap watched # {})
<1>1. t = [tx[d] EXCEPT !.changed = ch, !.cleared = cl, !.disturbed = di]
  BY DEF Told
<1>2. ch \in BOOLEAN /\ cl \in BOOLEAN /\ di \in BOOLEAN
  OBVIOUS
<1>3. tx[d] \in TxCall
  OBVIOUS
<1> HIDE DEF t, ch, cl, di
<1>4. /\ t \in TxCall
      /\ t.at = tx[d].at /\ t.key = tx[d].key /\ t.attempts = tx[d].attempts
      /\ t.threw = tx[d].threw /\ t.refused = tx[d].refused /\ t.inherited = tx[d].inherited
      /\ t.applied = tx[d].applied
      /\ t.changed = ch /\ t.cleared = cl /\ t.disturbed = di
  BY <1>1, <1>2, <1>3 DEF TxCall
<1> QED
  BY <1>4 DEF HasMarks, t, ch, cl, di

LEMMA ToldOthers ==
    ASSUME tx \in [TxCallers -> TxCall], NEW W, NEW clears \in BOOLEAN, NEW c, NEW new,
           tx' = Told(tx, W, clears, c, new), NEW d \in TxCallers, d # c
    PROVE  IsTold(d, W, clears)
  BY ToldAre DEF IsTold

\* A caller that is told keeps its invariant, if either the watches are ended or they and what
\* is known of them stay, and if a write of a watched key becomes known.
LEMMA BystanderKeepsInv ==
    ASSUME TxType, NEW d \in TxCallers, NEW W, NEW clears \in BOOLEAN, IsTold(d, W, clears),
           CallInv(d),
           ~clears => watched \subseteq watched' /\ (dirty \/ W \cap watched # {} => dirty'),
           dirty' => dirty \/ (~clears /\ W \cap watched # {})
    PROVE  CallInv(d)'
<1>1. Busy(d)' = Busy(d) /\ \A s : In(d, s)' = In(d, s)
  BY DEF IsTold, HasMarks, In, Busy
<1>2. (Busy(d) => tx[d].key \in WatchKeys)'
  BY <1>1 DEF IsTold, HasMarks, CallInv
<1>3. WatchHolds(d)'
  BY <1>1 DEF IsTold, HasMarks, CallInv, WatchHolds
<1>4. ConflictIsRecent(d)'
  BY <1>1 DEF IsTold, HasMarks, CallInv, ConflictIsRecent
<1>5. CommitIsSafe(d)'
  BY <1>1 DEF IsTold, HasMarks, CallInv, CommitIsSafe, In
<1>6. HasReason(d)'
  BY <1>1 DEF IsTold, HasMarks, CallInv, HasReason
<1>7. AppliedIsDue(d)'
  BY <1>1 DEF IsTold, HasMarks, CallInv, AppliedIsDue, Due
<1> QED
  BY <1>2, <1>3, <1>4, <1>5, <1>6, <1>7 DEF CallInv

\* So does a caller that nobody tells anything.
LEMMA UnmovedKeepsInv ==
    ASSUME NEW d \in TxCallers, tx'[d] = tx[d], CallInv(d), watched \subseteq watched', dirty' = dirty
    PROVE  CallInv(d)'
  BY DEF CallInv, Busy, In, WatchHolds, ConflictIsRecent, CommitIsSafe, HasReason, AppliedIsDue, Due

\* An attempt that has failed counts, and changes no mark.
LEMMA FailedCall ==
    ASSUME tx \in [TxCallers -> TxCall], NEW c \in TxCallers
    PROVE  /\ Failed(c) \in TxCall
           /\ Failed(c).at = IF tx[c].attempts + 1 >= MaxRetries THEN "gave up" ELSE "watch"
           /\ Failed(c).key = tx[c].key /\ Failed(c).attempts = tx[c].attempts + 1
           /\ Failed(c).threw = tx[c].threw /\ Failed(c).disturbed = tx[c].disturbed
           /\ Failed(c).inherited = tx[c].inherited
           /\ Failed(c).applied = tx[c].applied /\ Failed(c).refused = tx[c].refused
<1>1. tx[c] \in TxCall
  OBVIOUS
<1>2. DEFINE n == tx[c].attempts + 1
             s == IF n >= MaxRetries THEN "gave up" ELSE "watch"
<1>3. n \in Nat /\ s \in TxStages
  <2>1. n \in Nat
    BY <1>1 DEF TxCall
  <2>2. s \in TxStages
    BY DEF TxStages
  <2> QED
    BY <2>1, <2>2
<1>4. Failed(c) = [tx[c] EXCEPT !.attempts = n, !.at = s]
  BY DEF Failed, Retried
<1> HIDE DEF n, s
<1>5. /\ Failed(c) \in TxCall
      /\ Failed(c).at = s /\ Failed(c).key = tx[c].key /\ Failed(c).attempts = n
      /\ Failed(c).threw = tx[c].threw /\ Failed(c).disturbed = tx[c].disturbed
      /\ Failed(c).inherited = tx[c].inherited
      /\ Failed(c).applied = tx[c].applied /\ Failed(c).refused = tx[c].refused
  BY <1>1, <1>3, <1>4 DEF TxCall
<1> QED
  BY <1>5 DEF n, s

LEMMA FreeCall ==
    /\ Free \in TxCall
    /\ Free.at = "rest" /\ Free.attempts = 0 /\ Free.applied = 0
  BY DEF Free, TxCall, TxStages

\* An attempt whose request was refused or lost.
Lost(c) == [Failed(c) EXCEPT !.refused = TRUE]

LEMMA LostCall ==
    ASSUME tx \in [TxCallers -> TxCall], NEW c \in TxCallers
    PROVE  /\ Lost(c) \in TxCall /\ Lost(c).at = Failed(c).at /\ Lost(c).key = tx[c].key
           /\ Lost(c).attempts = tx[c].attempts + 1 /\ Lost(c).refused
  BY FailedCall DEF Lost, TxCall

\* What a write counts changes no mark.
LEMMA AppliedCall ==
    ASSUME NEW r \in TxCall, NEW W
    PROVE  /\ Applied(r, W) \in TxCall
           /\ Applied(r, W).at = r.at /\ Applied(r, W).key = r.key
           /\ Applied(r, W).attempts = r.attempts
           /\ Applied(r, W).changed = r.changed /\ Applied(r, W).cleared = r.cleared
           /\ Applied(r, W).threw = r.threw /\ Applied(r, W).refused = r.refused
           /\ Applied(r, W).disturbed = r.disturbed /\ Applied(r, W).inherited = r.inherited
           /\ Applied(r, W).applied \in {r.applied, r.applied + 1}
<1> DEFINE n == IF W = {} THEN r.applied ELSE r.applied + 1
<1>1. n \in Nat
  BY DEF TxCall
<1>2. Applied(r, W) = [r EXCEPT !.applied = n]
  BY DEF Applied
<1>3. n \in {r.applied, r.applied + 1}
  OBVIOUS
<1> HIDE DEF n
<1> QED
  BY <1>1, <1>2, <1>3 DEF TxCall

\* A call that has applied nothing.
LEMMA NothingApplied ==
    ASSUME NEW c \in TxCallers, tx[c].applied = 0
    PROVE  AppliedIsDue(c)
  BY DEF AppliedIsDue, Due

\* The only attempt is the first.
LEMMA FirstIsOnly ==
    ASSUME NEW n, n = 0, n + 1 >= MaxRetries
    PROVE  MaxRetries = 1
  BY TxAssumption

\* With its next attempt ahead, or none, a caller keeps its invariant when its function threw, when
\* nothing is dirty after a refused command, or when it is to be seen why its EXEC failed.
LEMMA FailureKeepsInv ==
    ASSUME TxType, NEW c \in TxCallers, CallInv(c), Busy(c),
           tx'[c].at = (IF tx[c].attempts + 1 >= MaxRetries THEN "gave up" ELSE "watch"),
           tx'[c].key = tx[c].key,
           \/ tx'[c].threw \/ tx'[c].disturbed
           \/ tx'[c].refused /\ ~dirty'
           \/ /\ dirty /\ ~dirty'
              /\ tx'[c].threw = tx[c].threw /\ tx'[c].disturbed = tx[c].disturbed
              /\ tx'[c].inherited = tx[c].inherited,
           tx'[c].refused \/ (tx'[c].applied = tx[c].applied /\ tx'[c].refused = tx[c].refused)
    PROVE  CallInv(c)'
<1>1. tx[c].attempts \in Nat
  BY DEF TxType, TxCall
<1>2. ASSUME tx[c].attempts = 0, tx[c].attempts + 1 >= MaxRetries PROVE MaxRetries = 1
  BY <1>2, FirstIsOnly
<1>3. tx'[c].at \in {"gave up", "watch"}
  OBVIOUS
<1>4. (Busy(c) => tx[c].key \in WatchKeys)'
  BY DEF CallInv
<1>5. WatchHolds(c)' /\ CommitIsSafe(c)'
  BY <1>3 DEF WatchHolds, CommitIsSafe, In
<1>6. ConflictIsRecent(c)'
  BY DEF ConflictIsRecent
<1>8. AppliedIsDue(c)'
  <2>1. Due(c) = 0 /\ Due(c)' = 0
    BY <1>3 DEF Due, Busy, In
  <2> QED
    BY <2>1 DEF CallInv, AppliedIsDue
<1>7. HasReason(c)'
  <2>1. CASE tx'[c].threw \/ tx'[c].disturbed \/ tx'[c].refused
    BY <2>1 DEF HasReason
  <2>2. CASE /\ dirty
             /\ tx'[c].threw = tx[c].threw /\ tx'[c].disturbed = tx[c].disturbed
             /\ tx'[c].inherited = tx[c].inherited
    <3>1. tx[c].threw \/ tx[c].disturbed \/ (tx[c].attempts = 0 /\ tx[c].inherited)
      BY <2>2 DEF CallInv, ConflictIsRecent
    <3>2. tx'[c].at = "gave up" => tx[c].attempts + 1 >= MaxRetries
      OBVIOUS
    <3> QED
      BY <1>2, <2>2, <3>1, <3>2 DEF HasReason, In
  <2> QED
    BY <2>1, <2>2
<1> QED
  BY <1>4, <1>5, <1>6, <1>7, <1>8 DEF CallInv

LEMMA TxInvInit == InitTx => TxInv
<1> SUFFICES ASSUME InitTx PROVE TxInv
  OBVIOUS
<1>1. TxType
  BY FreeCall DEF InitTx, TxType
<1>2. ASSUME NEW c \in TxCallers PROVE CallInv(c)
  <2>1. tx[c] = Free
    BY DEF InitTx
  <2>2. AppliedIsDue(c)
    BY <2>1, FreeCall, NothingApplied
  <2> QED
    BY <2>1, <2>2, FreeCall DEF InitTx, CallInv, Busy, In, WatchHolds, ConflictIsRecent, CommitIsSafe, HasReason
<1>3. WatchesAreAccountedFor
  BY DEF InitTx, WatchesAreAccountedFor
<1> QED
  BY <1>1, <1>2, <1>3 DEF TxInv

LEMMA TxInvNext == TxInv /\ [NextTx]_txVars => TxInv'
<1> SUFFICES ASSUME TxInv, [NextTx]_txVars PROVE TxInv'
  OBVIOUS
<1>0. TxType /\ (\A d \in TxCallers : CallInv(d)) /\ tx \in [TxCallers -> TxCall]
  BY DEF TxInv, TxType
<1>1. ASSUME NEW c \in TxCallers, NEW k \in WatchKeys, WithTransaction(c, k) PROVE TxInv'
  <2> DEFINE r == [Free EXCEPT !.at = "watch", !.key = k, !.inherited = dirty]
  <2>1. /\ r \in TxCall /\ r.at = "watch" /\ r.key = k /\ r.attempts = 0 /\ r.inherited = dirty
        /\ r.applied = 0
    BY <1>0, FreeCall DEF TxType, TxCall, TxStages
  <2>2. tx' = [tx EXCEPT ![c] = r] /\ UNCHANGED <<watched, dirty, leaked>>
    BY <1>1 DEF WithTransaction
  <2> HIDE DEF r
  <2>3. TxType'
    BY <1>0, <2>1, <2>2 DEF TxType
  <2>4. CallInv(c)'
    <3>1. /\ tx'[c].at = "watch" /\ tx'[c].key = k /\ tx'[c].attempts = 0
          /\ tx'[c].inherited = dirty' /\ tx'[c].applied = 0
      BY <1>0, <2>1, <2>2
    <3>2. AppliedIsDue(c)'
      BY <3>1 DEF AppliedIsDue, Due
    <3> QED
      BY <3>1, <3>2 DEF CallInv, In, WatchHolds, ConflictIsRecent, CommitIsSafe, HasReason
  <2>5. ASSUME NEW d \in TxCallers, d # c PROVE CallInv(d)'
    BY <1>0, <2>2, <2>5, UnmovedKeepsInv
  <2>6. WatchesAreAccountedFor'
    <3>1. Busy(c)'
      BY <1>0, <2>1, <2>2 DEF Busy, In
    <3> QED
      BY <3>1 DEF WatchesAreAccountedFor
  <2> QED
    BY <2>3, <2>4, <2>5, <2>6 DEF TxInv
<1>2. ASSUME NEW c \in TxCallers, Watch(c) PROVE TxInv'
  <2> DEFINE r == [tx[c] EXCEPT !.at = "exec", !.changed = FALSE, !.cleared = FALSE]
  <2>1. /\ r \in TxCall /\ r.at = "exec" /\ r.key = tx[c].key /\ r.attempts = tx[c].attempts
        /\ ~r.changed /\ r.threw = tx[c].threw /\ r.disturbed = tx[c].disturbed
        /\ r.inherited = tx[c].inherited /\ r.applied = tx[c].applied /\ r.refused = tx[c].refused
    BY <1>0 DEF TxCall, TxStages
  <2>2. tx' = [tx EXCEPT ![c] = r] /\ watched' = watched \cup {tx[c].key} /\ UNCHANGED <<dirty, leaked>>
    BY <1>2 DEF Watch
  <2>3. Busy(c) /\ tx[c].key \in WatchKeys
    BY <1>0, <1>2 DEF CallInv, Watch, Busy, In
  <2> HIDE DEF r
  <2>4. TxType'
    BY <1>0, <2>1, <2>2, <2>3 DEF TxType
  <2>5. Busy(c)'
    BY <1>0, <2>1, <2>2 DEF Busy, In
  <2>6. CallInv(c)'
    <3>1. tx'[c] = r
      BY <1>0, <2>2
    <3>2. AppliedIsDue(c)'
      <4>1. Due(c) = 0 /\ Due(c)' = 0
        BY <1>2, <2>1, <3>1 DEF Watch, Due, In
      <4> QED
        BY <1>0, <2>1, <3>1, <4>1 DEF CallInv, AppliedIsDue
    <3> QED
      BY <1>0, <2>1, <2>2, <2>3, <3>1, <3>2 DEF CallInv, In, WatchHolds, ConflictIsRecent, CommitIsSafe, HasReason
  <2>7. ASSUME NEW d \in TxCallers, d # c PROVE CallInv(d)'
    BY <1>0, <2>2, <2>7, UnmovedKeepsInv
  <2>8. WatchesAreAccountedFor'
    BY <2>5 DEF WatchesAreAccountedFor
  <2> QED
    BY <2>4, <2>6, <2>7, <2>8 DEF TxInv
<1>3. ASSUME NEW c \in TxCallers, FnThrows(c) PROVE TxInv'
  <2> DEFINE r == [Failed(c) EXCEPT !.threw = TRUE]
  <2>1. /\ r \in TxCall /\ r.at = Failed(c).at /\ r.key = tx[c].key /\ r.threw
        /\ r.applied = tx[c].applied /\ r.refused = tx[c].refused
    BY <1>0, FailedCall DEF TxCall
  <2>2. tx' = [tx EXCEPT ![c] = r] /\ leaked' /\ UNCHANGED <<watched, dirty>>
    BY <1>3 DEF FnThrows
  <2>3. Busy(c)
    BY <1>3 DEF FnThrows, Busy
  <2> HIDE DEF r
  <2>4. TxType'
    BY <1>0, <2>1, <2>2 DEF TxType
  <2>5. CallInv(c)'
    BY <1>0, <2>1, <2>2, <2>3, FailedCall, FailureKeepsInv
  <2>6. ASSUME NEW d \in TxCallers, d # c PROVE CallInv(d)'
    BY <1>0, <2>2, <2>6, UnmovedKeepsInv
  <2>7. WatchesAreAccountedFor'
    BY <2>2 DEF WatchesAreAccountedFor
  <2> QED
    BY <2>4, <2>5, <2>6, <2>7 DEF TxInv
<1>4. ASSUME NEW c \in TxCallers, Exec(c) PROVE TxInv'
  <2>1. watched' = {} /\ ~dirty' /\ dirty' \in BOOLEAN
    BY <1>4 DEF Exec
  <2>2. In(c, "exec") /\ Busy(c) /\ CallInv(c)
    BY <1>0, <1>4 DEF Exec, Busy
  <2>3. WatchesAreAccountedFor'
    BY <2>1 DEF WatchesAreAccountedFor
  <2> DEFINE Mine(r) ==
               \/ /\ r.at = Failed(c).at /\ r.key = tx[c].key
                  /\ \/ r.refused
                     \/ /\ dirty /\ r.threw = tx[c].threw /\ r.disturbed = tx[c].disturbed
                        /\ r.inherited = tx[c].inherited
                        /\ r.applied = tx[c].applied /\ r.refused = tx[c].refused
               \/ /\ ~dirty /\ r.at = "committed"
                  /\ r.changed = tx[c].changed /\ r.cleared = tx[c].cleared
                  /\ r.applied <= tx[c].applied + 1 /\ r.refused = tx[c].refused
  <2>4. PICK r \in TxCall, W \in SUBSET {tx[c].key} : tx' = Told(tx, W, TRUE, c, r) /\ Mine(r)
    <3>1. CASE dirty /\ tx' = Told(tx, {}, TRUE, c, Failed(c))
      <4>1. Failed(c) \in TxCall /\ Mine(Failed(c))
        BY <1>0, <3>1, FailedCall
      <4> QED
        BY <3>1, <4>1
    <3>2. CASE /\ ~dirty
               /\ tx' = Told(tx, {tx[c].key}, TRUE, c,
                             Applied([tx[c] EXCEPT !.at = "committed"], {tx[c].key}))
      <4> DEFINE q == [tx[c] EXCEPT !.at = "committed"]
      <4>1. /\ q \in TxCall /\ q.at = "committed"
            /\ q.changed = tx[c].changed /\ q.cleared = tx[c].cleared
            /\ q.applied = tx[c].applied /\ q.refused = tx[c].refused /\ q.applied \in Nat
        BY <1>0 DEF TxCall, TxStages
      <4> HIDE DEF q
      <4>2. Applied(q, {tx[c].key}) \in TxCall /\ Mine(Applied(q, {tx[c].key}))
        BY <3>2, <4>1, AppliedCall
      <4> QED
        BY <3>2, <4>2 DEF q
    <3>3. ASSUME NEW W \in SUBSET {tx[c].key},
                 tx' = Told(tx, W, TRUE, c, Applied([Failed(c) EXCEPT !.refused = TRUE], W))
          PROVE  \E r \in TxCall : tx' = Told(tx, W, TRUE, c, r) /\ Mine(r)
      <4> DEFINE q == [Failed(c) EXCEPT !.refused = TRUE]
      <4>1. q \in TxCall /\ q.at = Failed(c).at /\ q.key = tx[c].key /\ q.refused
        BY <1>0, FailedCall DEF TxCall
      <4> HIDE DEF q
      <4>2. Applied(q, W) \in TxCall /\ Mine(Applied(q, W))
        BY <4>1, AppliedCall
      <4> QED
        BY <3>3, <4>2 DEF q
    <3> QED
      BY <1>4, <3>1, <3>2, <3>3 DEF Exec
  <2>5. tx'[c] = r
    BY <2>4 DEF Told
  <2>6. ASSUME NEW d \in TxCallers, d # c PROVE IsTold(d, W, TRUE)
    <3>1. HasMarks(Told(tx, W, TRUE, c, r)[d], d, W, TRUE)
      BY <1>0, <2>6, ToldAre
    <3> QED
      BY <2>4, <3>1 DEF IsTold
  <2>7. tx' \in [TxCallers -> TxCall]
    <3>1. \A d \in TxCallers : tx'[d] \in TxCall
      BY <2>5, <2>6 DEF IsTold, HasMarks
    <3> QED
      BY <2>4, <3>1 DEF Told
  <2>8. CallInv(c)'
    <3>1. CASE /\ r.at = Failed(c).at /\ r.key = tx[c].key
               /\ \/ r.refused
                  \/ /\ dirty /\ r.threw = tx[c].threw /\ r.disturbed = tx[c].disturbed
                     /\ r.inherited = tx[c].inherited
                     /\ r.applied = tx[c].applied /\ r.refused = tx[c].refused
      <4>1. Failed(c).at = IF tx[c].attempts + 1 >= MaxRetries THEN "gave up" ELSE "watch"
        BY <1>0, FailedCall
      <4> QED
        BY <1>0, <2>1, <2>2, <2>5, <3>1, <4>1, FailureKeepsInv
    <3>2. CASE /\ ~dirty /\ r.at = "committed"
               /\ r.changed = tx[c].changed /\ r.cleared = tx[c].cleared
               /\ r.applied <= tx[c].applied + 1 /\ r.refused = tx[c].refused
      <4>1. tx[c].changed => tx[c].cleared
        BY <2>2, <3>2 DEF CallInv, WatchHolds
      <4>2. AppliedIsDue(c)'
        <5>1. Due(c) = 0 /\ Due(c)' = 1
          BY <2>2, <2>5, <3>2 DEF Due, In
        <5>2. tx[c].applied \in Nat /\ r.applied \in Nat
          BY <1>0 DEF TxCall
        <5> QED
          BY <2>2, <2>5, <3>2, <5>1, <5>2 DEF CallInv, AppliedIsDue
      <4> QED
        BY <2>5, <3>2, <4>1, <4>2
           DEF CallInv, Busy, In, WatchHolds, ConflictIsRecent, CommitIsSafe, HasReason
    <3> QED
      BY <2>4, <3>1, <3>2
  <2>9. ASSUME NEW d \in TxCallers, d # c PROVE CallInv(d)'
    BY <1>0, <2>1, <2>6, <2>9, BystanderKeepsInv
  <2> QED
    BY <2>1, <2>3, <2>7, <2>8, <2>9 DEF TxInv, TxType
<1>5. ASSUME NEW c \in TxCallers, NEW W \in SUBSET WatchKeys, MultiExecute(c, W) PROVE TxInv'
  <2>1. watched' = {} /\ ~dirty' /\ dirty' \in BOOLEAN
    BY <1>5 DEF MultiExecute
  <2>2. WatchesAreAccountedFor'
    BY <2>1 DEF WatchesAreAccountedFor
  <2>3. PICK r, V : /\ tx' = Told(tx, V, TRUE, c, r)
                    /\ r \in TxCall
                    /\ (r.at = "rest" /\ r.applied = 0) \/ (r.at = "rejected" /\ r.applied <= 1)
    <3> DEFINE q == [Free EXCEPT !.at = "rejected"]
    <3>1. q \in TxCall /\ q.at = "rejected" /\ q.applied = 0
      BY FreeCall DEF TxCall, TxStages
    <3> HIDE DEF q
    <3>2. ASSUME NEW V
          PROVE  Applied(q, V) \in TxCall /\ Applied(q, V).at = "rejected" /\ Applied(q, V).applied <= 1
      BY <3>1, AppliedCall
    <3>3. \/ tx' = Told(tx, W, TRUE, c, Free)
          \/ \E V \in SUBSET W : tx' = Told(tx, V, TRUE, c, Applied(q, V))
      BY <1>5 DEF MultiExecute, q
    <3> QED
      BY <3>2, <3>3, FreeCall
  <2>4. tx'[c] = r
    BY <2>3 DEF Told
  <2>5. ASSUME NEW d \in TxCallers, d # c PROVE IsTold(d, V, TRUE)
    <3>1. HasMarks(Told(tx, V, TRUE, c, r)[d], d, V, TRUE)
      BY <1>0, <2>5, ToldAre
    <3> QED
      BY <2>3, <3>1 DEF IsTold
  <2>6. tx' \in [TxCallers -> TxCall]
    <3>1. \A d \in TxCallers : tx'[d] \in TxCall
      BY <2>3, <2>4, <2>5 DEF IsTold, HasMarks
    <3> QED
      BY <2>3, <3>1 DEF Told
  <2>7. CallInv(c)'
    <3>1. AppliedIsDue(c)'
      <4>1. r.applied \in Nat
        BY <2>3 DEF TxCall
      <4>2. CASE r.at = "rest" /\ r.applied = 0
        <5>1. tx'[c].applied = 0 /\ Due(c)' = 0
          BY <2>4, <4>2 DEF Due, In
        <5> QED
          BY <5>1 DEF AppliedIsDue
      <4>3. CASE r.at = "rejected" /\ r.applied <= 1
        <5>1. tx'[c].applied <= 1 /\ tx'[c].applied \in Nat /\ Due(c)' = 1
          BY <2>4, <4>1, <4>3 DEF Due, In
        <5> QED
          BY <5>1 DEF AppliedIsDue
      <4> QED
        BY <2>3, <4>2, <4>3
    <3> QED
      BY <2>3, <2>4, <3>1 DEF CallInv, Busy, In, WatchHolds, ConflictIsRecent, CommitIsSafe, HasReason
  <2>8. ASSUME NEW d \in TxCallers, d # c PROVE CallInv(d)'
    BY <1>0, <2>1, <2>5, <2>8, BystanderKeepsInv
  <2> QED
    BY <2>1, <2>2, <2>6, <2>7, <2>8 DEF TxInv, TxType
<1>6. ASSUME NEW k \in WatchKeys, WatchAlone(k) PROVE TxInv'
  <2>1. watched' = watched \cup {k} /\ leaked' /\ UNCHANGED <<dirty, tx>>
    BY <1>6 DEF WatchAlone
  <2>2. ASSUME NEW d \in TxCallers PROVE CallInv(d)'
    BY <1>0, <2>1, UnmovedKeepsInv
  <2> QED
    BY <1>0, <2>1, <2>2 DEF TxInv, TxType, WatchesAreAccountedFor
<1>7. ASSUME NEW k \in WatchKeys, Write(k) PROVE TxInv'
  <2>1. dirty' = (dirty \/ k \in watched) /\ UNCHANGED <<watched, leaked>>
        /\ tx' = Told(tx, {k}, FALSE, None, Free)
    BY <1>7 DEF Write
  <2>2. ASSUME NEW d \in TxCallers PROVE IsTold(d, {k}, FALSE)
    BY <1>0, <2>1, ToldOthers, TxAssumption
  <2>3. ASSUME NEW d \in TxCallers PROVE CallInv(d)'
    BY <1>0, <2>1, <2>2, BystanderKeepsInv
  <2>4. tx' \in [TxCallers -> TxCall]
    <3>1. \A d \in TxCallers : tx'[d] \in TxCall
      BY <2>2 DEF IsTold, HasMarks
    <3> QED
      BY <2>1, <3>1 DEF Told
  <2>5. WatchesAreAccountedFor'
    <3>1. \A d \in TxCallers : Busy(d) => Busy(d)'
      BY <2>2 DEF IsTold, HasMarks, Busy, In
    <3> QED
      BY <2>1, <3>1 DEF TxInv, WatchesAreAccountedFor
  <2>6. watched' \subseteq WatchKeys /\ dirty' \in BOOLEAN
    BY <1>0, <2>1 DEF TxType
  <2> QED
    BY <2>3, <2>4, <2>5, <2>6 DEF TxInv, TxType
<1>8. CASE Unwatch
  <2>1. watched' = {} /\ ~dirty' /\ dirty' \in BOOLEAN /\ tx' = Told(tx, {}, TRUE, None, Free)
    BY <1>8 DEF Unwatch
  <2>2. ASSUME NEW d \in TxCallers PROVE IsTold(d, {}, TRUE)
    BY <1>0, <2>1, ToldOthers, TxAssumption
  <2>3. ASSUME NEW d \in TxCallers PROVE CallInv(d)'
    BY <1>0, <2>1, <2>2, BystanderKeepsInv
  <2>4. tx' \in [TxCallers -> TxCall]
    <3>1. \A d \in TxCallers : tx'[d] \in TxCall
      BY <2>2 DEF IsTold, HasMarks
    <3> QED
      BY <2>1, <3>1 DEF Told
  <2> QED
    BY <2>1, <2>3, <2>4 DEF TxInv, TxType, WatchesAreAccountedFor
<1>9. ASSUME NEW c \in TxCallers \cup {None}, Reconnect(c) PROVE TxInv'
  <2>1. PICK W : tx' = [d \in TxCallers |->
                          [Told(tx, W, TRUE, c, Applied(Lost(c), W))[d] EXCEPT !.disturbed = @ \/ Busy(d)]]
    BY <1>9 DEF Reconnect, Lost
  <2>2. watched' = {} /\ dirty' \in BOOLEAN
    BY <1>9 DEF Reconnect
  <2> DEFINE told == Told(tx, W, TRUE, c, Applied(Lost(c), W))
  <2>3. ASSUME NEW d \in TxCallers, d # c
        PROVE  HasMarks(told[d], d, W, TRUE)
    BY <1>0, <2>3, ToldAre
  <2>4. ASSUME c \in TxCallers
        PROVE  /\ Busy(c)
               /\ told[c] \in TxCall /\ told[c].at = Failed(c).at /\ told[c].key = tx[c].key
               /\ told[c].refused
    <3>1. told[c] = Applied(Lost(c), W)
      BY <2>4 DEF Told
    <3>2. Lost(c) \in TxCall /\ Lost(c).at = Failed(c).at /\ Lost(c).key = tx[c].key /\ Lost(c).refused
      BY <1>0, <2>4, LostCall
    <3>3. /\ Applied(Lost(c), W) \in TxCall /\ Applied(Lost(c), W).at = Failed(c).at
          /\ Applied(Lost(c), W).key = tx[c].key /\ Applied(Lost(c), W).refused
      BY <3>2, AppliedCall
    <3> QED
      BY <1>9, <2>4, <3>1, <3>3, TxAssumption DEF Reconnect
  <2>5. ASSUME NEW d \in TxCallers
        PROVE  tx'[d] = [told[d] EXCEPT !.disturbed = told[d].disturbed \/ Busy(d)]
    BY <2>1
  <2> HIDE DEF told
  <2>6. ASSUME NEW d \in TxCallers, d # c
        PROVE  /\ tx'[d] \in TxCall
               /\ tx'[d].at = tx[d].at /\ tx'[d].key = tx[d].key
               /\ tx'[d].threw = tx[d].threw /\ tx'[d].refused = tx[d].refused
               /\ tx'[d].inherited = tx[d].inherited /\ tx'[d].applied = tx[d].applied
               /\ (tx'[d].cleared <=> tx[d].cleared \/ In(d, "exec"))
               /\ (In(d, "committed") => tx'[d].changed = tx[d].changed)
               /\ (tx'[d].disturbed <=> tx[d].disturbed \/ Busy(d))
    <3>1. HasMarks(told[d], d, W, TRUE)
      BY <2>3, <2>6
    <3>2. tx[d] \in TxCall
      BY <1>0
    <3>3. In(d, "committed") => ~In(d, "exec")
      BY DEF In
    <3> QED
      BY <2>5, <3>1, <3>2, <3>3 DEF TxCall, HasMarks
  <2>7. ASSUME c \in TxCallers
        PROVE  /\ tx'[c] \in TxCall
               /\ tx'[c].at = Failed(c).at /\ tx'[c].key = tx[c].key /\ tx'[c].disturbed
               /\ tx'[c].refused
    BY <2>4, <2>5, <2>7 DEF TxCall
  <2>8. ASSUME NEW d \in TxCallers PROVE CallInv(d)'
    <3>1. CASE d # c
      <4>1. (Busy(d) => tx[d].key \in WatchKeys)'
        BY <1>0, <2>6, <3>1 DEF CallInv, Busy, In
      <4>2. WatchHolds(d)'
        BY <2>6, <3>1 DEF WatchHolds, In
      <4>3. ConflictIsRecent(d)'
        BY <2>6, <3>1 DEF ConflictIsRecent, Busy, In
      <4>4. CommitIsSafe(d)'
        BY <1>0, <2>6, <3>1 DEF CallInv, CommitIsSafe, In
      <4>5. HasReason(d)'
        BY <1>0, <2>6, <3>1 DEF CallInv, HasReason, In
      <4>6. AppliedIsDue(d)'
        BY <1>0, <2>6, <3>1 DEF CallInv, AppliedIsDue, Due, In
      <4> QED
        BY <4>1, <4>2, <4>3, <4>4, <4>5, <4>6 DEF CallInv
    <3>2. CASE d = c
      <4>1. Failed(d).at = IF tx[d].attempts + 1 >= MaxRetries THEN "gave up" ELSE "watch"
        BY <1>0, FailedCall
      <4> QED
        BY <1>0, <2>4, <2>7, <3>2, <4>1, FailureKeepsInv
    <3> QED
      BY <3>1, <3>2
  <2>9. tx' \in [TxCallers -> TxCall]
    <3>1. \A d \in TxCallers : tx'[d] \in TxCall
      BY <2>6, <2>7
    <3> QED
      BY <2>1, <3>1
  <2> QED
    BY <2>2, <2>8, <2>9 DEF TxInv, TxType, WatchesAreAccountedFor
<1>10. ASSUME NEW c \in TxCallers, Return(c) PROVE TxInv'
  <2>1. tx' = [tx EXCEPT ![c] = Free] /\ UNCHANGED <<watched, dirty, leaked>>
    BY <1>10 DEF Return
  <2>2. CallInv(c)'
    <3>1. tx'[c] = Free
      BY <1>0, <2>1
    <3>2. AppliedIsDue(c)'
      BY <3>1, FreeCall DEF AppliedIsDue, Due
    <3> QED
      BY <3>1, <3>2, FreeCall DEF CallInv, Busy, In, WatchHolds, ConflictIsRecent, CommitIsSafe, HasReason
  <2>3. ASSUME NEW d \in TxCallers, d # c PROVE CallInv(d)'
    BY <1>0, <2>1, <2>3, UnmovedKeepsInv
  <2>4. WatchesAreAccountedFor'
    <3>1. ~Busy(c)
      BY <1>10 DEF Return, Busy, In
    <3>2. \A d \in TxCallers : Busy(d) => Busy(d)'
      BY <1>0, <2>1, <3>1 DEF Busy, In
    <3> QED
      BY <2>1, <3>2 DEF TxInv, WatchesAreAccountedFor
  <2>5. TxType'
    BY <1>0, <2>1, FreeCall DEF TxType
  <2> QED
    BY <2>2, <2>3, <2>4, <2>5 DEF TxInv
<1>11. CASE UNCHANGED txVars
  <2>1. ASSUME NEW d \in TxCallers PROVE CallInv(d)'
    BY <1>0, <1>11, UnmovedKeepsInv DEF txVars
  <2> QED
    BY <1>0, <1>11, <2>1 DEF TxInv, TxType, WatchesAreAccountedFor, txVars, Busy, In
<1> QED
  BY <1>1, <1>2, <1>3, <1>4, <1>5, <1>6, <1>7, <1>8, <1>9, <1>10, <1>11 DEF NextTx, Discard

LEMMA TxAlways == TxSpec => []TxInv
  BY TxInvInit, TxInvNext, PTL DEF TxSpec

\* A commit over a changed key takes somebody else's EXEC, UNWATCH or a new connection.
THEOREM CommitsAreSafe == TxSpec => []CommitSeesNoChange
<1>1. TxInv => CommitSeesNoChange
  BY DEF TxInv, CallInv, CommitIsSafe, CommitSeesNoChange
<1> QED
  BY <1>1, TxAlways, PTL

\* For any number of attempts, a call that gives up has met a function that throws, a refused
\* command, or a write of a watched key or a lost connection of its own time; a conflict that it
\* found there ends it only when its first attempt is its last.  Its commands are applied once by
\* its commit, and otherwise not at all, unless a request of it was refused or lost.
THEOREM FailuresHaveReasons == TxSpec => []GivesUpForAReason
<1>1. TxInv => GivesUpForAReason
  BY DEF TxInv, CallInv, HasReason, AppliedIsDue, GivesUpForAReason
<1> QED
  BY <1>1, TxAlways, PTL

\* Nothing stays watched by itself.
THEOREM WatchesEnd == TxSpec => []WatchesAreAccountedFor
<1>1. TxInv => WatchesAreAccountedFor
  BY DEF TxInv
<1> QED
  BY <1>1, TxAlways, PTL

-----------------------------------------------------------------------------
(* The idempotency interceptor: one handler at a time, one response and a  *)
(* released lock, while no lock times out and no Redis command fails       *)

IdemStages == {"new", "looked", "handling", "storing", "storing nothing", "releasing", "done", "conflict"}

IdemType ==
    /\ hasRedis \in BOOLEAN /\ lapsed \in BOOLEAN /\ faults \in Nat
    /\ response \in [Places -> Requests \cup {NoResponse}]
    /\ lock \in [Places -> Requests \cup {NoResponse}]
    /\ request \in [Requests -> IdemStages]
    /\ answered \in [Requests -> Requests \cup {NoResponse}]
    /\ overtaken \subseteq Requests

\* Where every step finds its data as long as nothing fails.
Home == IF hasRedis THEN "redis" ELSE "memory"

\* From its lock to its release.
Working(r) == request[r] \in {"handling", "storing", "storing nothing", "releasing"}

\* The lock is the working request's, and there is no other.
LockIsWorkers ==
    Undisturbed =>
        /\ \A r \in Requests : Working(r) <=> lock[Home] = r
        /\ \A p \in Places \ {Home} : lock[p] = NoResponse

\* A response is there because its request has stored it; a request that has no response of
\* its own yet is not answered by itself.
ResponsesAreStored ==
    /\ \A p \in Places : response[p] # NoResponse => request[response[p]] \in {"releasing", "done"}
    /\ \A r \in Requests : answered[r] = r => request[r] \in {"storing", "releasing", "done"}

\* After its handler's response has been stored, everybody else finds it: nobody is on the way
\* to a handler.
ResponseIsFound ==
    Undisturbed /\ overtaken = {} =>
        \A r \in Requests :
            answered[r] = r /\ request[r] # "storing" =>
                /\ response[Home] = r
                /\ \A q \in Requests \ {r} :
                      request[q] \notin {"looked", "handling", "storing", "storing nothing", "releasing"}

IdemInv == IdemType /\ LockIsWorkers /\ ResponsesAreStored /\ ResponseIsFound

LEMMA IdemInvInit == InitIdempotency => IdemInv
<1> SUFFICES ASSUME InitIdempotency PROVE IdemInv
  OBVIOUS
<1>1. IdemType
  BY DEF InitIdempotency, IdemType, IdemStages
<1>2. LockIsWorkers
  BY IdempotencyAssumption DEF InitIdempotency, LockIsWorkers, Working, Home, Places
<1>3. ResponsesAreStored /\ ResponseIsFound
  BY IdempotencyAssumption DEF InitIdempotency, ResponsesAreStored, ResponseIsFound
<1> QED
  BY <1>1, <1>2, <1>3 DEF IdemInv

LEMMA IdemTypeNext == IdemType /\ [NextIdempotency]_idemVars => IdemType'
<1> SUFFICES ASSUME IdemType, [NextIdempotency]_idemVars PROVE IdemType'
  OBVIOUS
<1>0. UNCHANGED hasRedis
  BY DEF NextIdempotency, LookUp, Lock, Respond, HandlerThrows, Store, Release, TimeOut, Restart, idemVars
<1>1. lapsed' \in BOOLEAN
  BY DEF NextIdempotency, LookUp, Lock, Respond, HandlerThrows, Store, Release, TimeOut, Restart, idemVars, IdemType
<1>2. faults' \in Nat
  <2>1. ASSUME NEW p, Served(p) PROVE faults' \in Nat
    BY <2>1 DEF Served, IdemType
  <2>2. CASE Restart
    BY <2>2 DEF Restart, IdemType
  <2>3. CASE UNCHANGED faults
    BY <2>3 DEF IdemType
  <2> QED
    BY <2>1, <2>2, <2>3
       DEF NextIdempotency, LookUp, Lock, Respond, HandlerThrows, Store, Release, TimeOut, idemVars
<1>3. request' \in [Requests -> IdemStages]
  <2> USE DEF IdemType, IdemStages, Goes
  <2>1. ASSUME NEW r \in Requests, LookUp(r) PROVE request' \in [Requests -> IdemStages]
    BY <2>1 DEF LookUp
  <2>2. ASSUME NEW r \in Requests, Lock(r) PROVE request' \in [Requests -> IdemStages]
    BY <2>2 DEF Lock, TakesLock
  <2>3. ASSUME NEW r \in Requests, Respond(r) PROVE request' \in [Requests -> IdemStages]
    BY <2>3 DEF Respond
  <2>4. ASSUME NEW r \in Requests, HandlerThrows(r) PROVE request' \in [Requests -> IdemStages]
    BY <2>4 DEF HandlerThrows
  <2>5. ASSUME NEW r \in Requests, Store(r) PROVE request' \in [Requests -> IdemStages]
    BY <2>5 DEF Store
  <2>6. ASSUME NEW r \in Requests, Release(r) PROVE request' \in [Requests -> IdemStages]
    BY <2>6 DEF Release
  <2>7. ASSUME NEW p \in Places, TimeOut(p) PROVE request' \in [Requests -> IdemStages]
    BY <2>7 DEF TimeOut
  <2>8. CASE Restart
    BY <2>8 DEF Restart
  <2>9. CASE UNCHANGED idemVars
    BY <2>9 DEF idemVars
  <2> QED
    BY <2>1, <2>2, <2>3, <2>4, <2>5, <2>6, <2>7, <2>8, <2>9 DEF NextIdempotency
<1>4. response' \in [Places -> Requests \cup {NoResponse}]
  <2> USE DEF IdemType, Places
  <2>1. ASSUME NEW r \in Requests, Store(r) PROVE response' \in [Places -> Requests \cup {NoResponse}]
    BY <2>1 DEF Store
  <2>2. ASSUME NEW p \in Places, TimeOut(p) PROVE response' \in [Places -> Requests \cup {NoResponse}]
    BY <2>2 DEF TimeOut
  <2>3. CASE Restart
    BY <2>3 DEF Restart
  <2> QED
    BY <2>1, <2>2, <2>3 DEF NextIdempotency, LookUp, Lock, Respond, HandlerThrows, Release, idemVars
<1>5. lock' \in [Places -> Requests \cup {NoResponse}]
  <2> USE DEF IdemType, Places
  <2>1. ASSUME NEW r \in Requests, Lock(r) PROVE lock' \in [Places -> Requests \cup {NoResponse}]
    BY <2>1 DEF Lock, TakesLock
  <2>2. ASSUME NEW r \in Requests, Release(r) PROVE lock' \in [Places -> Requests \cup {NoResponse}]
    BY <2>2 DEF Release
  <2>3. ASSUME NEW p \in Places, TimeOut(p) PROVE lock' \in [Places -> Requests \cup {NoResponse}]
    BY <2>3 DEF TimeOut
  <2>4. CASE Restart
    BY <2>4 DEF Restart
  <2> QED
    BY <2>1, <2>2, <2>3, <2>4 DEF NextIdempotency, LookUp, Respond, HandlerThrows, Store, idemVars
<1>6. answered' \in [Requests -> Requests \cup {NoResponse}]
  <2> USE DEF IdemType, Places
  <2>1. ASSUME NEW r \in Requests, LookUp(r) PROVE answered' \in [Requests -> Requests \cup {NoResponse}]
    BY <2>1 DEF LookUp
  <2>2. ASSUME NEW r \in Requests, Respond(r) PROVE answered' \in [Requests -> Requests \cup {NoResponse}]
    BY <2>2 DEF Respond
  <2> QED
    BY <2>1, <2>2 DEF NextIdempotency, Lock, HandlerThrows, Store, Release, TimeOut, Restart, idemVars
<1>7. overtaken' \subseteq Requests
  BY DEF NextIdempotency, LookUp, Lock, Respond, HandlerThrows, Store, Release, TimeOut, Restart, idemVars, IdemType
<1> QED
  BY <1>0, <1>1, <1>2, <1>3, <1>4, <1>5, <1>6, <1>7 DEF IdemType

\* Without a fault a step is served at home.
LEMMA HomeServes ==
    ASSUME IdemType, NEW p, Served(p), UNCHANGED lapsed, Undisturbed'
    PROVE  p = Home /\ Undisturbed
<1>1. faults' = 0
  BY DEF Undisturbed
<1>2. faults' # faults + 1
  BY <1>1 DEF IdemType
<1>3. UNCHANGED faults /\ p = Home
  BY <1>2 DEF Served, Home
<1>4. ~lapsed
  BY DEF Undisturbed
<1>5. faults = 0
  BY <1>1, <1>3
<1> QED
  BY <1>3, <1>4, <1>5 DEF Undisturbed

LEMMA IdemInvNext == IdemInv /\ [NextIdempotency]_idemVars => IdemInv'
<1> SUFFICES ASSUME IdemInv, [NextIdempotency]_idemVars PROVE IdemInv'
  OBVIOUS
<1> USE IdempotencyAssumption
<1>1. IdemType /\ IdemType'
  BY IdemTypeNext DEF IdemInv
<1>0. Restart => ~Undisturbed'
  BY <1>1 DEF Restart, Undisturbed, IdemType
<1>2. UNCHANGED Home /\ Home \in Places
  <2>1. UNCHANGED hasRedis
    BY DEF NextIdempotency, LookUp, Lock, Respond, HandlerThrows, Store, Release, TimeOut, Restart, idemVars
  <2> QED
    BY <2>1 DEF Home, Places
<1>3. LockIsWorkers'
  <2> SUFFICES ASSUME Undisturbed'
               PROVE  /\ \A r \in Requests : Working(r)' <=> lock'[Home] = r
                      /\ \A p \in Places \ {Home} : lock'[p] = NoResponse
    BY <1>2 DEF LockIsWorkers
  <2> USE DEF IdemType
  <2>1. ASSUME Undisturbed
        PROVE  /\ \A r \in Requests : Working(r) <=> lock[Home] = r
               /\ \A p \in Places \ {Home} : lock[p] = NoResponse
    BY <2>1 DEF IdemInv, LockIsWorkers
  <2>2. ASSUME NEW r \in Requests, LookUp(r)
        PROVE  /\ \A q \in Requests : Working(q)' <=> lock'[Home] = q
               /\ \A p \in Places \ {Home} : lock'[p] = NoResponse
    <3>1. \E p \in Places : Served(p)
      BY <2>2 DEF LookUp
    <3>2. UNCHANGED lapsed
      BY <2>2 DEF LookUp
    <3>3. Undisturbed
      BY <1>1, <3>1, <3>2, HomeServes
    <3>4. UNCHANGED lock
      BY <2>2 DEF LookUp
    <3>5. \E s \in {"done", "looked"} : request' = [request EXCEPT ![r] = s]
      BY <2>2 DEF LookUp, Goes
    <3>6. request[r] = "new"
      BY <2>2 DEF LookUp
    <3>7. \A q \in Requests : Working(q)' <=> Working(q)
      BY <1>1, <3>5, <3>6 DEF Working
    <3> QED
      BY <2>1, <3>3, <3>4, <3>7
  <2>3. ASSUME NEW r \in Requests, Lock(r)
        PROVE  /\ \A q \in Requests : Working(q)' <=> lock'[Home] = q
               /\ \A p \in Places \ {Home} : lock'[p] = NoResponse
    <3>1. PICK p \in Places : /\ Served(p)
                              /\ IF lock[p] = NoResponse THEN TakesLock(r, p)
                                 ELSE Goes(r, "conflict") /\ UNCHANGED lock
      BY <2>3 DEF Lock
    <3>0. UNCHANGED lapsed
      BY <2>3 DEF Lock
    <3>2. p = Home /\ Undisturbed
      BY <1>1, <3>0, <3>1, HomeServes
    <3>3. CASE lock[Home] = NoResponse
      <4>1. \A q \in Requests : ~Working(q)
        BY <2>1, <3>2, <3>3
      <4>2. request' = [request EXCEPT ![r] = "handling"] /\ lock' = [lock EXCEPT ![Home] = r]
        BY <3>1, <3>2, <3>3 DEF TakesLock, Goes
      <4>3. \A q \in Requests : Working(q)' <=> q = r
        BY <1>1, <4>1, <4>2 DEF Working
      <4>4. lock'[Home] = r /\ \A x \in Places \ {Home} : lock'[x] = lock[x]
        BY <1>1, <1>2, <4>2
      <4> QED
        BY <2>1, <3>2, <4>3, <4>4
    <3>4. CASE lock[Home] # NoResponse
      BY <1>1, <2>1, <2>3, <3>1, <3>2, <3>4 DEF Lock, Goes, Working
    <3> QED
      BY <3>3, <3>4
  <2>4. ASSUME NEW r \in Requests, Respond(r)
        PROVE  /\ \A q \in Requests : Working(q)' <=> lock'[Home] = q
               /\ \A p \in Places \ {Home} : lock'[p] = NoResponse
    BY <1>1, <2>1, <2>4 DEF Respond, Goes, Working, Undisturbed
  <2>5. ASSUME NEW r \in Requests, HandlerThrows(r)
        PROVE  /\ \A q \in Requests : Working(q)' <=> lock'[Home] = q
               /\ \A p \in Places \ {Home} : lock'[p] = NoResponse
    BY <1>1, <2>1, <2>5 DEF HandlerThrows, Goes, Working, Undisturbed
  <2>6. ASSUME NEW r \in Requests, Store(r)
        PROVE  /\ \A q \in Requests : Working(q)' <=> lock'[Home] = q
               /\ \A p \in Places \ {Home} : lock'[p] = NoResponse
    <3>1. Undisturbed
      BY <1>1, <2>6, HomeServes DEF Store
    <3> QED
      BY <1>1, <2>1, <2>6, <3>1 DEF Store, Goes, Working
  <2>7. ASSUME NEW r \in Requests, Release(r)
        PROVE  /\ \A q \in Requests : Working(q)' <=> lock'[Home] = q
               /\ \A p \in Places \ {Home} : lock'[p] = NoResponse
    <3>1. PICK p \in Places : Served(p) /\ lock' = [lock EXCEPT ![p] = NoResponse]
      BY <2>7 DEF Release
    <3>2. p = Home /\ Undisturbed
      BY <1>1, <2>7, <3>1, HomeServes DEF Release
    <3>3. lock[Home] = r
      BY <2>1, <2>7, <3>2 DEF Release, Working
    <3> QED
      BY <1>1, <1>2, <2>1, <2>7, <3>1, <3>2, <3>3 DEF Release, Goes, Working
  <2>8. ASSUME NEW x \in Places, TimeOut(x)
        PROVE  /\ \A q \in Requests : Working(q)' <=> lock'[Home] = q
               /\ \A p \in Places \ {Home} : lock'[p] = NoResponse
    BY <2>8 DEF TimeOut, Undisturbed
  <2>9. CASE Restart
    BY <1>0, <2>9
  <2>10. CASE UNCHANGED idemVars
    BY <2>1, <2>10 DEF idemVars, Undisturbed, Working
  <2> QED
    BY <2>2, <2>3, <2>4, <2>5, <2>6, <2>7, <2>8, <2>9, <2>10 DEF NextIdempotency
<1>4. ResponsesAreStored'
  <2> USE <1>1 DEF IdemType, ResponsesAreStored, IdemInv
  <2>1. ASSUME NEW r \in Requests, LookUp(r) PROVE ResponsesAreStored'
    <3>1. \A p \in Places : response'[p] # NoResponse => request'[response'[p]] \in {"releasing", "done"}
      BY <2>1 DEF LookUp, Goes
    <3>2. ASSUME NEW q \in Requests, answered'[q] = q
          PROVE  request'[q] \in {"storing", "releasing", "done"}
      BY <2>1, <3>2 DEF LookUp, Goes
    <3> QED
      BY <3>1, <3>2
  <2>2. ASSUME NEW r \in Requests, Lock(r) PROVE ResponsesAreStored'
    BY <2>2 DEF Lock, TakesLock, Goes
  <2>3. ASSUME NEW r \in Requests, Respond(r) PROVE ResponsesAreStored'
    BY <2>3 DEF Respond, Goes
  <2>4. ASSUME NEW r \in Requests, HandlerThrows(r) PROVE ResponsesAreStored'
    BY <2>4 DEF HandlerThrows, Goes
  <2>5. ASSUME NEW r \in Requests, Store(r) PROVE ResponsesAreStored'
    <3>1. PICK p \in Places : \/ response' = response
                              \/ response' = [response EXCEPT ![p] = r]
                              \/ response' = [response EXCEPT ![p] = NoResponse]
      BY <2>5 DEF Store
    <3>2. \A q \in Places : response'[q] \in {response[q], r, NoResponse}
      BY <3>1
    <3>3. request' = [request EXCEPT ![r] = "releasing"] /\ UNCHANGED answered
      BY <2>5 DEF Store, Goes
    <3>4. \A q \in Requests : request[q] \in {"releasing", "done"} => request'[q] \in {"releasing", "done"}
      BY <3>3
    <3>5. ASSUME NEW q \in Places, response'[q] # NoResponse
          PROVE  request'[response'[q]] \in {"releasing", "done"}
      BY <3>2, <3>3, <3>4, <3>5
    <3>6. ASSUME NEW q \in Requests, answered'[q] = q
          PROVE  request'[q] \in {"storing", "releasing", "done"}
      BY <3>3, <3>6
    <3> QED
      BY <3>5, <3>6
  <2>6. ASSUME NEW r \in Requests, Release(r) PROVE ResponsesAreStored'
    BY <2>6 DEF Release, Goes
  <2>7. ASSUME NEW p \in Places, TimeOut(p) PROVE ResponsesAreStored'
    BY <2>7 DEF TimeOut
  <2>8. CASE Restart
    BY <2>8 DEF Restart, Places
  <2>9. CASE UNCHANGED idemVars
    BY <2>9 DEF idemVars
  <2> QED
    BY <2>1, <2>2, <2>3, <2>4, <2>5, <2>6, <2>7, <2>8, <2>9 DEF NextIdempotency
<1>5. ResponseIsFound'
  <2> DEFINE Away(q) == request[q] \notin {"looked", "handling", "storing", "storing nothing", "releasing"}
  <2> SUFFICES ASSUME Undisturbed', overtaken' = {},
                      NEW r \in Requests, answered'[r] = r, request'[r] # "storing"
               PROVE  /\ response'[Home] = r
                      /\ \A q \in Requests \ {r} : Away(q)'
    BY <1>2 DEF ResponseIsFound
  <2> USE <1>1 DEF IdemType
  <2>1. overtaken = {}
    BY DEF NextIdempotency, LookUp, Lock, Respond, HandlerThrows, Store, Release, TimeOut, Restart, idemVars
  <2>2. ASSUME Undisturbed, answered[r] = r, request[r] # "storing"
        PROVE  response[Home] = r /\ \A q \in Requests \ {r} : Away(q)
    BY <2>1, <2>2 DEF IdemInv, ResponseIsFound
  <2>3. \A q \in Requests : answered[q] = q => request[q] \in {"storing", "releasing", "done"}
    BY DEF IdemInv, ResponsesAreStored
  <2>4. ASSUME NEW s \in Requests, LookUp(s)
        PROVE  response'[Home] = r /\ \A q \in Requests \ {r} : Away(q)'
    <3>1. PICK p \in Places :
            /\ Served(p)
            /\ IF response[p] # NoResponse
               THEN Goes(s, "done") /\ answered' = [answered EXCEPT ![s] = response[p]]
               ELSE Goes(s, "looked") /\ UNCHANGED answered
      BY <2>4 DEF LookUp
    <3>2. p = Home /\ Undisturbed
      BY <2>4, <3>1, HomeServes DEF LookUp
    <3>3. r # s
      BY <2>3, <2>4, <3>1 DEF LookUp, IdemInv, ResponsesAreStored
    <3>4. answered[r] = r /\ request[r] # "storing"
      BY <3>1, <3>3 DEF Goes
    <3>5. response[Home] = r /\ \A q \in Requests \ {r} : Away(q)
      BY <2>2, <3>2, <3>4
    <3>6. Goes(s, "done")
      BY <3>1, <3>2, <3>5
    <3> QED
      BY <2>4, <3>5, <3>6 DEF LookUp, Goes
  <2>5. ASSUME NEW s \in Requests, Lock(s) PROVE FALSE
    <3>1. Undisturbed
      BY <2>5, HomeServes DEF Lock
    <3>2. r # s
      BY <2>3, <2>5 DEF Lock
    <3>3. request[r] # "storing" /\ answered[r] = r
      BY <2>5, <3>2 DEF Lock, TakesLock, Goes
    <3> QED
      BY <2>2, <2>5, <3>1, <3>2, <3>3 DEF Lock
  <2>6. ASSUME NEW s \in Requests, Respond(s) PROVE FALSE
    <3>1. Undisturbed
      BY <2>6 DEF Respond, Undisturbed
    <3>2. r # s
      BY <2>3, <2>6 DEF Respond, Goes
    <3>3. request[r] # "storing" /\ answered[r] = r
      BY <2>6, <3>2 DEF Respond, Goes
    <3> QED
      BY <2>2, <2>6, <3>1, <3>2, <3>3 DEF Respond
  <2>7. ASSUME NEW s \in Requests, HandlerThrows(s) PROVE FALSE
    <3>1. Undisturbed
      BY <2>7 DEF HandlerThrows, Undisturbed
    <3>2. r # s
      BY <2>3, <2>7 DEF HandlerThrows
    <3>3. request[r] # "storing" /\ answered[r] = r
      BY <2>7, <3>2 DEF HandlerThrows, Goes
    <3> QED
      BY <2>2, <2>7, <3>1, <3>2, <3>3 DEF HandlerThrows
  <2>8. ASSUME NEW s \in Requests, Store(s)
        PROVE  response'[Home] = r /\ \A q \in Requests \ {r} : Away(q)'
    <3>1. PICK p \in Places :
            /\ Served(p)
            /\ response' \in IF request[s] = "storing" THEN {[response EXCEPT ![p] = s]}
                             ELSE {response, [response EXCEPT ![p] = NoResponse]}
      BY <2>8 DEF Store
    <3>2. p = Home /\ Undisturbed
      BY <2>8, <3>1, HomeServes DEF Store
    <3>3. r = s
      <4> SUFFICES ASSUME r # s PROVE FALSE
        OBVIOUS
      <4>1. request[r] # "storing" /\ answered[r] = r
        BY <2>8 DEF Store, Goes
      <4> QED
        BY <2>2, <2>8, <3>2, <4>1 DEF Store
    <3>4. request[s] = "storing"
      BY <2>3, <2>8, <3>3 DEF Store
    <3>5. response'[Home] = r
      BY <1>2, <3>1, <3>2, <3>3, <3>4
    <3>6. \A q \in Requests : request[q] # "looked"
      BY <2>8 DEF Store
    <3>7. \A q \in Requests \ {s} : ~Working(q)
      BY <2>8, <3>2 DEF Store, IdemInv, LockIsWorkers, Working
    <3> QED
      BY <2>8, <3>3, <3>5, <3>6, <3>7 DEF Store, Goes, Working
  <2>9. ASSUME NEW s \in Requests, Release(s)
        PROVE  response'[Home] = r /\ \A q \in Requests \ {r} : Away(q)'
    <3>1. Undisturbed
      BY <2>9, HomeServes DEF Release
    <3>2. request[r] # "storing" /\ answered[r] = r
      BY <2>9 DEF Release, Goes
    <3> QED
      BY <2>2, <2>9, <3>1, <3>2 DEF Release, Goes
  <2>10. ASSUME NEW p \in Places, TimeOut(p) PROVE FALSE
    BY <2>10 DEF TimeOut, Undisturbed
  <2>11. CASE Restart
    BY <1>0, <2>11
  <2>12. CASE UNCHANGED idemVars
    BY <2>2, <2>12 DEF idemVars, Undisturbed
  <2> QED
    BY <2>4, <2>5, <2>6, <2>7, <2>8, <2>9, <2>10, <2>11, <2>12 DEF NextIdempotency
<1> QED
  BY <1>1, <1>3, <1>4, <1>5 DEF IdemInv

LEMMA IdemAlways == IdempotencySpec => []IdemInv
  BY IdemInvInit, IdemInvNext, PTL DEF IdempotencySpec

\* Two requests never run their handlers together: both would own the one lock.
THEOREM HandlersExclude == IdempotencySpec => []OneHandlerAtATime
<1>1. IdemInv => OneHandlerAtATime
  <2> SUFFICES ASSUME IdemInv, Undisturbed
               PROVE  Cardinality({r \in Requests : request[r] = "handling"}) <= 1
    BY DEF OneHandlerAtATime
  <2> DEFINE S == {r \in Requests : request[r] = "handling"}
  <2>1. \A r \in S : r = lock[Home]
    BY DEF IdemInv, LockIsWorkers, Working
  <2>2. S = {} \/ S = {lock[Home]}
    BY <2>1
  <2> HIDE DEF S
  <2>3. Cardinality(S) = 0 \/ Cardinality(S) = 1
    BY <2>2, FS_EmptySet, FS_Singleton
  <2> QED
    BY <2>3 DEF S
<1> QED
  BY <1>1, IdemAlways, PTL

\* Two responses are never made for one key, unless a request had looked before the first one
\* was stored: whoever comes later finds the response and does not get to the handler.
THEOREM ResponsesAreSingle == IdempotencySpec => []OneResponseUnlessOvertaken
<1>1. IdemInv => OneResponseUnlessOvertaken
  <2> SUFFICES ASSUME IdemInv, Undisturbed, overtaken = {}
               PROVE  Cardinality({r \in Requests : answered[r] = r}) <= 1
    BY DEF OneResponseUnlessOvertaken
  <2> DEFINE S == {r \in Requests : answered[r] = r}
  <2>1. ASSUME NEW r \in S, NEW q \in S PROVE r = q
    <3>1. CASE request[r] = "storing" /\ request[q] = "storing"
      BY <3>1 DEF IdemInv, LockIsWorkers, Working
    <3>2. CASE request[r] # "storing"
      BY <3>2 DEF IdemInv, ResponseIsFound
    <3>3. CASE request[q] # "storing"
      BY <3>3 DEF IdemInv, ResponseIsFound
    <3> QED
      BY <3>1, <3>2, <3>3
  <2>2. S = {} \/ \E x : S = {x}
    BY <2>1
  <2> HIDE DEF S
  <2>3. Cardinality(S) = 0 \/ Cardinality(S) = 1
    BY <2>2, FS_EmptySet, FS_Singleton
  <2> QED
    BY <2>3 DEF S
<1> QED
  BY <1>1, IdemAlways, PTL

\* A lock is left with nobody only when it times out or a command fails: its owner's release
\* deletes its own lock.
THEOREM LocksAreReleased == IdempotencySpec => []LockIsReleased
<1>1. IdemInv => LockIsReleased
  <2> SUFFICES ASSUME IdemInv, Undisturbed,
                      \A r \in Requests : request[r] \in {"new", "done", "conflict"},
                      NEW p \in Places
               PROVE  lock[p] = NoResponse
    BY DEF LockIsReleased
  <2>1. CASE p # Home
    BY <2>1 DEF IdemInv, LockIsWorkers
  <2>2. CASE p = Home
    <3>1. \A r \in Requests : ~Working(r)
      BY DEF Working
    <3> QED
      BY <2>2, <3>1 DEF IdemInv, LockIsWorkers, IdemType
  <2> QED
    BY <2>1, <2>2
<1> QED
  BY <1>1, IdemAlways, PTL

-----------------------------------------------------------------------------
(* Snowflake identifiers are unique and sorted, for any size of the sequence *)

IdType ==
    /\ clock \in Int /\ lastTimestamp \in Int /\ sequence \in Nat
    /\ issued \subseteq Int \X Int
    /\ repeated \in BOOLEAN /\ steppedBack \in BOOLEAN /\ overflowed \in BOOLEAN
    /\ cuids \in Nat

\* While nothing has gone wrong the counter is within its mask, the clock has not passed
\* the last identifier, and that one is the greatest.
Orderly == steppedBack \/ overflowed \/ (lastTimestamp <= clock /\ sequence < Sequences)

IdInv == IdType /\ Orderly /\ SortedIds /\ UniqueIds

\* The mask only takes effect at the last number of a millisecond.
LEMMA MaskedSequence ==
    ASSUME NEW s \in Nat, NEW n \in Nat \ {0}, s < n, (s + 1) % n # 0
    PROVE  (s + 1) % n = s + 1 /\ s + 1 < n
<1>1. CASE s + 1 < n
  BY <1>1
<1>2. CASE s + 1 = n
  <2>1. n % n = 0
    OBVIOUS
  <2> QED
    BY <1>2, <2>1
<1> QED
  BY <1>1, <1>2

\* An identifier greater than all before it is new, and keeps the invariant.
LEMMA IssueKeepsInv ==
    ASSUME IdInv, NEW t \in Int, NEW s \in Nat, Issue(t, s),
           clock' \in Int, t <= clock', s < Sequences,
           UNCHANGED <<steppedBack, overflowed, cuids>>,
           \/ steppedBack \/ overflowed
           \/ lastTimestamp < t \/ (lastTimestamp = t /\ sequence < s)
    PROVE  IdInv'
<1>1. IdType'
  BY DEF IdInv, IdType, Issue
<1>2. Orderly'
  BY DEF IdInv, Orderly, Issue
<1>3. CASE steppedBack \/ overflowed
  BY <1>1, <1>2, <1>3 DEF IdInv, SortedIds, UniqueIds
<1>4. CASE ~steppedBack /\ ~overflowed
  <2>1. \A i \in issued : i[1] < t \/ (i[1] = t /\ i[2] < s)
    BY <1>4 DEF IdInv, IdType, SortedIds
  <2>2. SortedIds'
    BY <2>1 DEF SortedIds, Issue, IdInv, IdType
  <2>3. <<t, s>> \notin issued
    BY <2>1
  <2>4. UniqueIds'
    BY <1>4, <2>3 DEF IdInv, UniqueIds, Issue
  <2> QED
    BY <1>1, <1>2, <2>2, <2>4 DEF IdInv
<1> QED
  BY <1>3, <1>4

\* The inductive invariant holds at first, and every step keeps it.
LEMMA IdInvInit == InitIds => IdInv
<1> SUFFICES ASSUME InitIds PROVE IdInv
  OBVIOUS
<1>1. IdType
  <2>1. clock \in Int /\ lastTimestamp \in Int /\ sequence \in Nat /\ cuids \in Nat
    BY DEF InitIds
  <2>2. repeated \in BOOLEAN /\ steppedBack \in BOOLEAN /\ overflowed \in BOOLEAN
    BY DEF InitIds
  <2>3. issued \subseteq Int \X Int
    BY DEF InitIds
  <2> QED
    BY <2>1, <2>2, <2>3 DEF IdType
<1>2. Orderly
  BY IdAssumption DEF InitIds, Orderly
<1>3. SortedIds /\ UniqueIds
  BY DEF InitIds, SortedIds, UniqueIds
<1> QED
  BY <1>1, <1>2, <1>3 DEF IdInv

LEMMA IdInvNext == IdInv /\ [NextIds]_idVars => IdInv'
<1> SUFFICES ASSUME IdInv, [NextIds]_idVars PROVE IdInv'
  OBVIOUS
<1> USE IdAssumption
<1>1. CASE FirstOfMillisecond /\ UNCHANGED <<steppedBack, overflowed, cuids>>
  <2>1. steppedBack \/ overflowed \/ lastTimestamp < clock
    BY <1>1 DEF IdInv, IdType, Orderly, FirstOfMillisecond
  <2> QED
    BY <1>1, <2>1, IssueKeepsInv DEF FirstOfMillisecond, IdInv, IdType
<1>2. CASE NextOfMillisecond /\ UNCHANGED <<steppedBack, overflowed, cuids>>
  <2>1. NextSequence \in Nat /\ NextSequence < Sequences
    BY DEF IdInv, IdType, NextSequence
  <2>2. steppedBack \/ overflowed \/ NextSequence = sequence + 1
    BY <1>2, MaskedSequence DEF IdInv, IdType, Orderly, NextOfMillisecond, NextSequence
  <2>3. steppedBack \/ overflowed \/ (lastTimestamp = clock /\ sequence < NextSequence)
    BY <1>2, <2>2 DEF IdInv, IdType, NextOfMillisecond
  <2> QED
    BY <1>2, <2>1, <2>3, IssueKeepsInv DEF NextOfMillisecond, IdInv, IdType
<1>3. CASE Spin /\ UNCHANGED <<steppedBack, overflowed, cuids>>
  <2>1. PICK t \in (clock + 1)..MaxClock : clock' = t /\ Issue(t, 0)
    BY <1>3 DEF Spin
  <2>2. t \in Int /\ lastTimestamp < t
    BY <1>3, <2>1 DEF Spin, IdInv, IdType
  <2> QED
    BY <1>3, <2>1, <2>2, IssueKeepsInv
<1>4. CASE GenerateCuid
  <2>1. IdType'
    BY <1>4 DEF GenerateCuid, IdInv, IdType
  <2>2. overflowed' <=> (overflowed \/ sequence' >= Sequences)
    BY <1>4 DEF GenerateCuid
  <2>3. Orderly'
    BY <1>4, <2>2 DEF GenerateCuid, IdInv, IdType, Orderly
  <2>4. SortedIds'
    BY <1>4, <2>2 DEF GenerateCuid, IdInv, IdType, SortedIds
  <2>5. UniqueIds'
    BY <1>4, <2>2 DEF GenerateCuid, IdInv, UniqueIds
  <2> QED
    BY <2>1, <2>3, <2>4, <2>5 DEF IdInv
<1>5. CASE ClockMoves
  <2>1. clock' \in Int
    BY <1>5 DEF ClockMoves, IdInv, IdType
  <2>2. steppedBack' \in BOOLEAN /\ (steppedBack' <=> (steppedBack \/ clock' < clock))
    BY <1>5 DEF ClockMoves
  <2>3. IdType'
    BY <1>5, <2>1, <2>2 DEF ClockMoves, IdInv, IdType
  <2>4. Orderly'
    BY <1>5, <2>1, <2>2 DEF ClockMoves, IdInv, IdType, Orderly
  <2>5. SortedIds'
    BY <1>5, <2>2 DEF ClockMoves, IdInv, SortedIds
  <2>6. UniqueIds'
    BY <1>5, <2>2 DEF ClockMoves, IdInv, UniqueIds
  <2> QED
    BY <2>3, <2>4, <2>5, <2>6 DEF IdInv
<1>6. CASE UNCHANGED idVars
  BY <1>6 DEF idVars, IdInv, IdType, Orderly, SortedIds, UniqueIds
<1> QED
  BY <1>1, <1>2, <1>3, <1>4, <1>5, <1>6 DEF NextIds, GenerateSnowflake

\* generateSnowflake repeats no identifier while the clock is not set back and CUIDs do not
\* push the sequence over, for any number of sequence numbers to a millisecond.
THEOREM SnowflakesAreUnique == IdSpec => []UniqueIds
<1>1. IdInv => UniqueIds
  BY DEF IdInv
<1> QED
  BY <1>1, IdInvInit, IdInvNext, PTL DEF IdSpec

\* Under the same conditions generateSnowflake only ever issues a greater identifier.
THEOREM SnowflakesAreSorted == IdSpec => []SortedIds
<1>1. IdInv => SortedIds
  BY DEF IdInv
<1> QED
  BY <1>1, IdInvInit, IdInvNext, PTL DEF IdSpec

-----------------------------------------------------------------------------
(* The cached copies                                                       *)

AsideStages == {"rest", "look", "make", "fill", "drop", "drop again", "replace", "evict",
                "evict again", "scan", "sweep", "swept"}
ChangeStages == {"drop", "drop again", "replace", "evict", "evict again"}
SweepStages == {"scan", "sweep", "swept"}
AsideCallType ==
    [at : AsideStages, key : AsideKeys \cup {Nothing}, val : Int, batch : SUBSET AsideKeys,
     seen : SUBSET AsideKeys, due : SUBSET AsideKeys, more : BOOLEAN]

AsideType ==
    /\ source \in [AsideKeys -> Nat] /\ cache \in [AsideKeys -> Int]
    /\ asideCall \in [AsideCallers -> AsideCallType] /\ failures \in Nat
    /\ \A c \in AsideCallers : asideCall[c].at \notin SweepStages \cup {"rest"} => asideCall[c].key \in AsideKeys

OnKey(c, k) == asideCall[c].at # "rest" /\ asideCall[c].key = k

\* Of a key that is not doubtful: a caller that changes it is alone, a caller that is to write
\* has the value of the source, and a copy that is old is about to be deleted.
KeyInv(k) ==
    /\ \A c, d \in AsideCallers : c # d /\ OnKey(c, k) /\ OnKey(d, k) => asideCall[c].at \notin ChangeStages
    /\ \A c \in AsideCallers :
          OnKey(c, k) /\ asideCall[c].at \in {"fill", "drop", "drop again", "replace"}
              => asideCall[c].val = source[k]
    /\ \/ cache[k] \in {Nothing, source[k]}
       \/ \E c \in AsideCallers : OnKey(c, k) /\ asideCall[c].at \in {"drop", "evict"}

\* The keys that a sweep owes and its scan has returned are gone, or in the batch it is about
\* to delete; after the last step of the scan it has returned all it owes.
SweepInv(c) ==
    LET s == asideCall[c]
    IN  /\ s.at = "scan" => s.due \cap s.seen \cap Cached = {}
        /\ s.at = "sweep" => /\ s.due \cap s.seen \cap Cached \subseteq s.batch
                             /\ ~s.more => s.due \cap Cached \subseteq s.seen
        /\ s.at = "swept" => s.due \cap Cached = {}

AsideInv ==
    /\ AsideType
    /\ \A k \in AsideKeys \ doubtful : KeyInv(k)
    /\ \A c \in AsideCallers : SweepInv(c)

LEMMA NothingIsInt == Nothing \in Int
BY DEF Nothing

LEMMA RestingIsCall == Resting \in AsideCallType /\ Resting.at = "rest"
BY DEF Resting, AsideCallType, AsideStages, Nothing

LEMMA AsideInit == InitAside => AsideInv
<1> SUFFICES ASSUME InitAside PROVE AsideInv
  OBVIOUS
<1>1. \A c \in AsideCallers : asideCall[c].at = "rest"
  BY RestingIsCall DEF InitAside
<1>2. AsideType
  BY <1>1, RestingIsCall DEF InitAside, AsideType, Nothing
<1>3. \A k \in AsideKeys : KeyInv(k)
  BY <1>1 DEF InitAside, KeyInv, OnKey
<1>4. \A c \in AsideCallers : SweepInv(c)
  BY <1>1 DEF SweepInv
<1> QED BY <1>2, <1>3, <1>4 DEF AsideInv

\* What one caller does leaves a key in order that it does not touch, deletes or writes rightly.
LEMMA KeyKept ==
    ASSUME NEW k \in AsideKeys, KeyInv(k), NEW c \in AsideCallers, source'[k] = source[k],
           \A d \in AsideCallers \ {c} :
               /\ asideCall'[d].at = asideCall[d].at
               /\ asideCall'[d].key = asideCall[d].key
               /\ asideCall'[d].val = asideCall[d].val,
           OnKey(c, k)' =>
               /\ OnKey(c, k)
               /\ asideCall'[c].at \in ChangeStages => asideCall[c].at \in ChangeStages
               /\ asideCall'[c].at \in {"fill", "drop", "drop again", "replace"}
                     => asideCall'[c].val = source[k],
           \/ cache'[k] \in {Nothing, source[k]}
           \/ /\ cache'[k] = cache[k]
              /\ OnKey(c, k) /\ asideCall[c].at \in {"drop", "evict"}
                    => OnKey(c, k)' /\ asideCall'[c].at \in {"drop", "evict"}
    PROVE  KeyInv(k)'
<1>1. \A d \in AsideCallers \ {c} : OnKey(d, k)' <=> OnKey(d, k)
  BY DEF OnKey
<1>2. (\A d, e \in AsideCallers : d # e /\ OnKey(d, k) /\ OnKey(e, k) => asideCall[d].at \notin ChangeStages)'
  BY <1>1 DEF KeyInv
<1>3. (\A d \in AsideCallers :
          OnKey(d, k) /\ asideCall[d].at \in {"fill", "drop", "drop again", "replace"}
              => asideCall[d].val = source[k])'
  BY <1>1 DEF KeyInv
<1>4. (\/ cache[k] \in {Nothing, source[k]}
       \/ \E d \in AsideCallers : OnKey(d, k) /\ asideCall[d].at \in {"drop", "evict"})'
  <2>1. CASE cache'[k] \in {Nothing, source[k]}
    BY <2>1
  <2>2. CASE cache'[k] \notin {Nothing, source[k]}
    <3>1. PICK d \in AsideCallers : OnKey(d, k) /\ asideCall[d].at \in {"drop", "evict"}
      BY <2>2 DEF KeyInv
    <3>2. OnKey(d, k)' /\ asideCall'[d].at \in {"drop", "evict"}
      BY <1>1, <2>2, <3>1
    <3> QED BY <3>2
  <2> QED BY <2>1, <2>2
<1> QED BY <1>2, <1>3, <1>4 DEF KeyInv

\* No sweep minds what deletes a copy, or writes one and strikes it off what the sweep owes.
LEMMA SweepKept ==
    ASSUME NEW d \in AsideCallers, SweepInv(d),
           asideCall'[d].at = asideCall[d].at \/ asideCall'[d].at \notin SweepStages,
           asideCall'[d].at = asideCall[d].at => /\ asideCall'[d].seen = asideCall[d].seen
                                                 /\ asideCall'[d].batch = asideCall[d].batch
                                                 /\ asideCall'[d].more = asideCall[d].more,
           asideCall'[d].at = asideCall[d].at
               => asideCall'[d].due \cap Cached' \subseteq asideCall[d].due \cap Cached
    PROVE  SweepInv(d)'
<1>1. CASE asideCall'[d].at \notin SweepStages
  BY <1>1 DEF SweepInv, SweepStages
<1>2. CASE asideCall'[d].at = asideCall[d].at
  <2> DEFINE owed == asideCall[d].due \cap Cached
             owing == asideCall'[d].due \cap Cached'
  <2>1. owing \subseteq owed
    BY <1>2
  <2>2. SweepInv(d) <=> /\ asideCall[d].at = "scan" => owed \cap asideCall[d].seen = {}
                        /\ asideCall[d].at = "sweep" =>
                              /\ owed \cap asideCall[d].seen \subseteq asideCall[d].batch
                              /\ ~asideCall[d].more => owed \subseteq asideCall[d].seen
                        /\ asideCall[d].at = "swept" => owed = {}
    BY DEF SweepInv
  <2>3. SweepInv(d)' <=> /\ asideCall'[d].at = "scan" => owing \cap asideCall'[d].seen = {}
                         /\ asideCall'[d].at = "sweep" =>
                              /\ owing \cap asideCall'[d].seen \subseteq asideCall'[d].batch
                              /\ ~asideCall'[d].more => owing \subseteq asideCall'[d].seen
                         /\ asideCall'[d].at = "swept" => owing = {}
    BY DEF SweepInv
  <2> HIDE DEF owed, owing
  <2> QED BY <1>2, <2>1, <2>2, <2>3
<1> QED BY <1>1, <1>2

\* A step of caller c that leaves the source alone: the other callers mind it at most in that
\* a sweep owes less, c has what it is to write, and what c deletes or writes is right.
OthersStay(c) ==
    \A d \in AsideCallers \ {c} :
        /\ asideCall'[d].at = asideCall[d].at /\ asideCall'[d].key = asideCall[d].key
        /\ asideCall'[d].val = asideCall[d].val /\ asideCall'[d].seen = asideCall[d].seen
        /\ asideCall'[d].batch = asideCall[d].batch /\ asideCall'[d].more = asideCall[d].more
        /\ asideCall'[d].due \cap Cached' \subseteq asideCall[d].due \cap Cached
KeyStep(c, k) ==
    /\ OnKey(c, k)' =>
          /\ OnKey(c, k)
          /\ asideCall'[c].at \in ChangeStages => asideCall[c].at \in ChangeStages
          /\ asideCall'[c].at \in {"fill", "drop", "drop again", "replace"} => asideCall'[c].val = source[k]
    /\ \/ cache'[k] \in {Nothing, source[k]}
       \/ /\ cache'[k] = cache[k]
          /\ OnKey(c, k) /\ asideCall[c].at \in {"drop", "evict"}
                => OnKey(c, k)' /\ asideCall'[c].at \in {"drop", "evict"}
StepsRightly(c) ==
    /\ AsideType' /\ source' = source /\ doubtful \subseteq doubtful'
    /\ OthersStay(c) /\ SweepInv(c)'
    /\ \A k \in AsideKeys \ doubtful' : KeyStep(c, k)

LEMMA CallerKeepsInv ==
    ASSUME AsideInv, NEW c \in AsideCallers, StepsRightly(c)
    PROVE  AsideInv'
<1>1. ASSUME NEW k \in AsideKeys \ doubtful' PROVE KeyInv(k)'
  <2>1. KeyInv(k) /\ KeyStep(c, k) /\ source'[k] = source[k] /\ OthersStay(c)
    BY <1>1 DEF AsideInv, StepsRightly
  <2> QED BY <2>1, KeyKept DEF KeyStep, OthersStay
<1>2. ASSUME NEW d \in AsideCallers PROVE SweepInv(d)'
  <2>1. CASE d = c
    BY <2>1 DEF StepsRightly
  <2>2. CASE d # c
    BY <2>2, SweepKept DEF AsideInv, StepsRightly, OthersStay
  <2> QED BY <2>1, <2>2
<1> QED BY <1>1, <1>2 DEF AsideInv, StepsRightly

\* In particular a step to a record r of its own.
LEMMA CallerGoesOn ==
    ASSUME AsideInv, NEW c \in AsideCallers, NEW r \in AsideCallType,
           asideCall' = [asideCall EXCEPT ![c] = r],
           r.at \notin SweepStages \cup {"rest"} => r.key = asideCall[c].key /\ r.key \in AsideKeys,
           source' = source, doubtful \subseteq doubtful', cache' \in [AsideKeys -> Int], failures' \in Nat
    PROVE  /\ asideCall'[c] = r /\ AsideType'
           /\ \A d \in AsideCallers \ {c} : asideCall'[d] = asideCall[d]
           /\ Cached' \subseteq Cached => OthersStay(c)
<1>1. /\ asideCall'[c] = r /\ asideCall' \in [AsideCallers -> AsideCallType]
      /\ \A d \in AsideCallers \ {c} : asideCall'[d] = asideCall[d]
  BY DEF AsideInv, AsideType
<1>2. \A d \in AsideCallers : asideCall'[d].at \notin SweepStages \cup {"rest"} => asideCall'[d].key \in AsideKeys
  BY <1>1 DEF AsideInv, AsideType
<1>3. AsideType'
  BY <1>1, <1>2 DEF AsideInv, AsideType
<1>4. Cached' \subseteq Cached => OthersStay(c)
  <2> HIDE DEF Cached
  <2> QED BY <1>1 DEF OthersStay
<1> QED BY <1>1, <1>3, <1>4

\* A caller writes what it has and rests.
LEMMA WrittenKeepsInv ==
    ASSUME AsideInv, NEW c \in AsideCallers, asideCall[c].at \in {"fill", "replace"},
           Written(asideCall[c].key, asideCall[c].val, c), UNCHANGED <<source, doubtful, failures>>
    PROVE  AsideInv'
<1> DEFINE k == asideCall[c].key
           v == asideCall[c].val
<1>1. /\ k \in AsideKeys /\ v \in Int /\ asideCall[c] \in AsideCallType
      /\ asideCall \in [AsideCallers -> AsideCallType] /\ cache \in [AsideKeys -> Int]
  BY DEF AsideInv, AsideType, AsideCallType, SweepStages
<1>2. cache' = [cache EXCEPT ![k] = v]
  BY DEF Written
<1>3. /\ asideCall'[c] = Resting
      /\ \A d \in AsideCallers \ {c} : asideCall'[d] = [asideCall[d] EXCEPT !.due = asideCall[d].due \ {k}]
      /\ asideCall' \in [AsideCallers -> AsideCallType]
  <2>1. asideCall' = [d \in AsideCallers |-> IF d = c THEN Resting
                                            ELSE [asideCall[d] EXCEPT !.due = asideCall[d].due \ {k}]]
    BY DEF Written
  <2>2. \A d \in AsideCallers : [asideCall[d] EXCEPT !.due = asideCall[d].due \ {k}] \in AsideCallType
    BY <1>1 DEF AsideCallType
  <2> QED BY <2>1, <2>2, RestingIsCall
<1>4. \A d \in AsideCallers \ {c} :
         /\ asideCall'[d].at = asideCall[d].at /\ asideCall'[d].key = asideCall[d].key
         /\ asideCall'[d].val = asideCall[d].val /\ asideCall'[d].seen = asideCall[d].seen
         /\ asideCall'[d].batch = asideCall[d].batch /\ asideCall'[d].more = asideCall[d].more
         /\ asideCall'[d].due = asideCall[d].due \ {k}
  BY <1>1, <1>3 DEF AsideCallType
<1>5. Cached' \subseteq Cached \cup {k}
  BY <1>1, <1>2 DEF Cached
<1>6. OthersStay(c)
  <2> HIDE DEF k
  <2> QED BY <1>4, <1>5 DEF OthersStay
<1>7. AsideType'
  <2>1. \A d \in AsideCallers : asideCall'[d].at \notin SweepStages \cup {"rest"} => asideCall'[d].key \in AsideKeys
    BY <1>3, <1>4, RestingIsCall DEF AsideInv, AsideType
  <2> QED BY <1>1, <1>2, <1>3, <2>1 DEF AsideInv, AsideType
<1>8. SweepInv(c)'
  BY <1>3, RestingIsCall DEF SweepInv
<1>9. ASSUME NEW l \in AsideKeys \ doubtful' PROVE KeyStep(c, l)
  <2>1. KeyInv(l) /\ ~OnKey(c, l)'
    BY <1>3, <1>9, RestingIsCall DEF AsideInv, OnKey
  <2>2. CASE l = k
    BY <1>1, <1>2, <2>1, <2>2 DEF KeyInv, KeyStep, OnKey
  <2>3. CASE l # k
    BY <1>1, <1>2, <2>1, <2>3 DEF KeyStep, OnKey
  <2> QED BY <2>2, <2>3
<1> QED BY <1>6, <1>7, <1>8, <1>9, CallerKeepsInv DEF StepsRightly

\* A caller deletes a copy and goes on, to write it if it was to.
LEMMA DropKeepsInv ==
    ASSUME AsideInv, NEW c \in AsideCallers, NEW first, NEW next,
           \/ first = "drop" /\ next = "drop again"
           \/ first = "drop again" /\ next = "replace"
           \/ first = "evict" /\ next = "evict again"
           \/ first = "evict again" /\ next = "rest",
           Drop(c, first, next)
    PROVE  AsideInv'
<1> DEFINE r == IF next = "rest" THEN Resting ELSE [asideCall[c] EXCEPT !.at = next]
           k == asideCall[c].key
<1>1. /\ asideCall[c].at = first /\ first \in ChangeStages
      /\ next \in {"drop again", "replace", "evict again", "rest"}
      /\ next \in {"drop again", "replace"} => first \in {"drop", "drop again"}
  BY DEF Drop, At, ChangeStages
<1>2. /\ k \in AsideKeys /\ asideCall[c] \in AsideCallType
      /\ asideCall \in [AsideCallers -> AsideCallType] /\ cache \in [AsideKeys -> Int] /\ failures \in Nat
  BY <1>1 DEF AsideInv, AsideType, SweepStages, ChangeStages
<1>3. /\ cache' = [cache EXCEPT ![k] = Nothing] /\ asideCall' = [asideCall EXCEPT ![c] = r]
      /\ UNCHANGED <<source, doubtful, failures>>
  BY DEF Drop, Key, Proceeds, Ends
<1>4. /\ r \in AsideCallType /\ r.at = next
      /\ next # "rest" => r.key = k /\ r.val = asideCall[c].val
  BY <1>1, <1>2, RestingIsCall DEF AsideCallType, AsideStages
<1> HIDE DEF r
<1>5. cache' \in [AsideKeys -> Int] /\ Cached' \subseteq Cached
  <2>1. Nothing \in Int
    BY NothingIsInt
  <2>2. cache' \in [AsideKeys -> Int] /\ \A l \in AsideKeys : cache'[l] \in {Nothing, cache[l]}
    BY <1>2, <1>3, <2>1
  <2> QED BY <2>2 DEF Cached
<1>6. asideCall'[c] = r /\ AsideType' /\ OthersStay(c)
  <2> HIDE DEF Cached
  <2> QED BY <1>1, <1>2, <1>3, <1>4, <1>5, CallerGoesOn
<1>7. SweepInv(c)'
  BY <1>1, <1>4, <1>6 DEF SweepInv
<1>8. ASSUME NEW l \in AsideKeys \ doubtful' PROVE KeyStep(c, l)
  <2>1. KeyInv(l)
    BY <1>3, <1>8 DEF AsideInv
  <2>2. CASE l = k
    <3>1. cache'[l] = Nothing
      BY <1>2, <1>3, <2>2
    <3>2. first \in {"drop", "drop again"} => asideCall[c].val = source[l]
      BY <1>1, <2>1, <2>2 DEF KeyInv, OnKey
    <3> QED BY <1>1, <1>4, <1>6, <2>2, <3>1, <3>2 DEF KeyStep, OnKey, ChangeStages
  <2>3. CASE l # k
    BY <1>1, <1>2, <1>3, <1>4, <1>6, <2>3 DEF KeyStep, OnKey
  <2> QED BY <2>2, <2>3
<1> QED BY <1>3, <1>6, <1>7, <1>8, CallerKeepsInv DEF StepsRightly

\* A caller changes the source of a key: whoever is on it meanwhile makes it doubtful.
LEMMA ChangeKeepsInv ==
    ASSUME AsideInv, NEW c \in AsideCallers, NEW k \in AsideKeys, NEW first \in {"drop", "evict"},
           Change(c, k, first)
    PROVE  AsideInv'
<1> DEFINE r == [Resting EXCEPT !.at = first, !.key = k, !.val = source'[k]]
<1>1. /\ source \in [AsideKeys -> Nat] /\ asideCall \in [AsideCallers -> AsideCallType]
      /\ asideCall[c].at = "rest" /\ source' = [source EXCEPT ![k] = source[k] + 1]
      /\ asideCall' = [asideCall EXCEPT ![c] = r]
      /\ doubtful' = IF On(k) = {} THEN doubtful \ {k} ELSE doubtful \cup {k}
      /\ UNCHANGED <<cache, failures>>
  BY DEF Change, At, AsideInv, AsideType
<1>2. source' \in [AsideKeys -> Nat] /\ \A l \in AsideKeys \ {k} : source'[l] = source[l]
  BY <1>1
<1>3. r \in AsideCallType /\ r.at = first /\ r.key = k /\ r.val = source'[k]
  <2>1. ASSUME NEW v \in Int
        PROVE  LET x == [Resting EXCEPT !.at = first, !.key = k, !.val = v]
               IN  x \in AsideCallType /\ x.at = first /\ x.key = k /\ x.val = v
    BY RestingIsCall DEF AsideCallType, AsideStages
  <2>2. source'[k] \in Int
    BY <1>2
  <2> QED BY <2>1, <2>2
<1> HIDE DEF r
<1>4. /\ asideCall'[c] = r /\ asideCall' \in [AsideCallers -> AsideCallType]
      /\ \A d \in AsideCallers \ {c} : asideCall'[d] = asideCall[d]
  BY <1>1, <1>3
<1>5. AsideType'
  <2>1. \A d \in AsideCallers : asideCall'[d].at \notin SweepStages \cup {"rest"} => asideCall'[d].key \in AsideKeys
    BY <1>3, <1>4 DEF AsideInv, AsideType
  <2> QED BY <1>1, <1>2, <1>4, <2>1 DEF AsideInv, AsideType
<1>6. ASSUME NEW l \in AsideKeys \ doubtful' PROVE KeyInv(l)'
  <2>1. CASE l # k
    <3>1. KeyInv(l)
      BY <1>1, <1>6, <2>1 DEF AsideInv
    <3> QED BY <1>1, <1>2, <1>3, <1>4, <2>1, <3>1, KeyKept DEF OnKey
  <2>2. CASE l = k
    <3>1. \A d \in AsideCallers : ~OnKey(d, k)
      BY <1>1, <1>6, <2>2 DEF On, OnKey, At, Key
    <3>2. \A d \in AsideCallers : OnKey(d, k)' => d = c
      BY <1>4, <3>1 DEF OnKey
    <3>3. OnKey(c, k)' /\ asideCall'[c].val = source'[k] /\ asideCall'[c].at = first
      BY <1>3, <1>4 DEF OnKey
    <3> QED BY <2>2, <3>2, <3>3 DEF KeyInv
  <2> QED BY <2>1, <2>2
<1>7. ASSUME NEW d \in AsideCallers PROVE SweepInv(d)'
  <2>1. CASE d = c
    BY <1>3, <1>4, <2>1 DEF SweepInv
  <2>2. CASE d # c
    BY <1>1, <1>4, <2>2 DEF AsideInv, SweepInv, Cached
  <2> QED BY <2>1, <2>2
<1> QED BY <1>5, <1>6, <1>7 DEF AsideInv

LEMMA AsideNext == AsideInv /\ [NextAside]_asideVars => AsideInv'
<1> SUFFICES ASSUME AsideInv, [NextAside]_asideVars PROVE AsideInv'
  OBVIOUS
<1> USE DEF asideVars
<1>0. /\ AsideType
      /\ \A k \in AsideKeys \ doubtful : KeyInv(k)
      /\ \A c \in AsideCallers : SweepInv(c)
  BY DEF AsideInv
\* One caller's record changes.
<1>a. ASSUME NEW c \in AsideCallers, NEW r \in AsideCallType, asideCall' = [asideCall EXCEPT ![c] = r]
      PROVE  /\ asideCall'[c] = r /\ asideCall' \in [AsideCallers -> AsideCallType]
             /\ \A d \in AsideCallers \ {c} : asideCall'[d] = asideCall[d]
  BY <1>0, <1>a DEF AsideType
<1>1. CASE UNCHANGED asideVars
  <2>1. AsideType' /\ (\A k \in AsideKeys : KeyInv(k) => KeyInv(k)')
    BY <1>0, <1>1 DEF AsideType, KeyInv, OnKey
  <2>2. \A c \in AsideCallers : SweepInv(c)'
    BY <1>0, <1>1 DEF SweepInv, Cached
  <2> QED BY <1>0, <1>1, <2>1, <2>2 DEF AsideInv
<1>2. ASSUME NEW c \in AsideCallers, NEW k \in AsideKeys, GetOrSet(c, k) PROVE AsideInv'
  <2> DEFINE r == [Resting EXCEPT !.at = "look", !.key = k]
  <2>1. r \in AsideCallType /\ r.at = "look" /\ r.key = k
    BY RestingIsCall DEF AsideCallType, AsideStages
  <2> HIDE DEF r
  <2>2. /\ asideCall[c].at = "rest" /\ asideCall' = [asideCall EXCEPT ![c] = r]
        /\ doubtful' = IF Changing(k) = {} THEN doubtful ELSE doubtful \cup {k}
        /\ UNCHANGED <<source, cache, failures>>
    BY <1>2 DEF GetOrSet, At, r
  <2>3. /\ asideCall'[c] = r /\ asideCall' \in [AsideCallers -> AsideCallType]
        /\ \A d \in AsideCallers \ {c} : asideCall'[d] = asideCall[d]
    BY <1>a, <2>1, <2>2
  <2>4. AsideType'
    BY <1>0, <2>1, <2>2, <2>3 DEF AsideType, SweepStages
  <2>5. ASSUME NEW l \in AsideKeys \ doubtful' PROVE KeyInv(l)'
    <3>1. KeyInv(l)
      BY <1>0, <2>2, <2>5
    <3>2. CASE l # k
      BY <2>1, <2>2, <2>3, <3>1, <3>2, KeyKept DEF OnKey
    <3>3. CASE l = k
      <4>1. \A d \in AsideCallers : OnKey(d, k) => asideCall[d].at \notin ChangeStages
        BY <2>2, <2>5, <3>3 DEF Changing, On, At, Key, OnKey, ChangeStages
      <4>2. \A d \in AsideCallers : OnKey(d, k)' => d = c \/ (OnKey(d, k) /\ asideCall'[d] = asideCall[d])
        BY <2>3 DEF OnKey
      <4>3. cache[k] \in {Nothing, source[k]}
        BY <3>1, <3>3, <4>1 DEF KeyInv, ChangeStages
      <4> QED BY <2>1, <2>2, <2>3, <3>1, <3>3, <4>1, <4>2, <4>3 DEF KeyInv, ChangeStages
    <3> QED BY <3>2, <3>3
  <2>6. ASSUME NEW d \in AsideCallers PROVE SweepInv(d)'
    BY <1>0, <2>1, <2>2, <2>3, SweepKept DEF Cached, SweepStages
  <2> QED BY <2>4, <2>5, <2>6 DEF AsideInv
<1>3. ASSUME NEW c \in AsideCallers, Look(c) PROVE AsideInv'
  <2> DEFINE r == IF cache[asideCall[c].key] = Nothing THEN [asideCall[c] EXCEPT !.at = "make"] ELSE Resting
  <2>1. /\ asideCall[c].at = "look" /\ asideCall' = [asideCall EXCEPT ![c] = r]
        /\ UNCHANGED <<source, cache, doubtful, failures>>
    BY <1>3 DEF Look, At, Key, Proceeds, Ends
  <2>2. /\ r \in AsideCallType /\ r.at \in {"make", "rest"}
        /\ r.at = "make" => r.key = asideCall[c].key /\ asideCall[c].key \in AsideKeys
    BY <1>0, <2>1, RestingIsCall DEF AsideType, AsideCallType, AsideStages, SweepStages
  <2> HIDE DEF r
  <2>3. /\ asideCall'[c] = r /\ AsideType' /\ OthersStay(c)
    BY <1>0, <2>1, <2>2, CallerGoesOn DEF AsideType, Cached, SweepStages
  <2>4. SweepInv(c)'
    BY <2>2, <2>3 DEF SweepInv
  <2>5. \A k \in AsideKeys : KeyStep(c, k)
    BY <2>1, <2>2, <2>3 DEF KeyStep, OnKey, ChangeStages
  <2> QED BY <2>1, <2>3, <2>4, <2>5, CallerKeepsInv DEF StepsRightly
<1>4. ASSUME NEW c \in AsideCallers, Make(c) PROVE AsideInv'
  <2> DEFINE made == [asideCall[c] EXCEPT !.at = "fill", !.val = source[asideCall[c].key]]
  <2>1. /\ asideCall[c].at = "make" /\ UNCHANGED <<source, cache, doubtful, failures>>
        /\ \E r \in {made, Resting} : asideCall' = [asideCall EXCEPT ![c] = r]
    BY <1>4 DEF Make, At, Key, Ends
  <2>2. /\ asideCall[c] \in AsideCallType /\ asideCall[c].key \in AsideKeys
        /\ source[asideCall[c].key] \in Int
    BY <1>0, <2>1 DEF AsideType, SweepStages
  <2>3. /\ made \in AsideCallType /\ made.at = "fill" /\ made.key = asideCall[c].key
        /\ made.val = source[asideCall[c].key]
    BY <2>2 DEF AsideCallType, AsideStages
  <2> HIDE DEF made
  <2>4. PICK r \in {made, Resting} : asideCall' = [asideCall EXCEPT ![c] = r]
    BY <2>1
  <2>5. r \in AsideCallType /\ (r = made \/ r.at = "rest")
    BY <2>3, <2>4, RestingIsCall
  <2>6. /\ asideCall'[c] = r /\ AsideType' /\ OthersStay(c)
    BY <1>0, <2>1, <2>2, <2>3, <2>4, <2>5, CallerGoesOn DEF AsideType, Cached, SweepStages
  <2>7. SweepInv(c)'
    BY <2>3, <2>5, <2>6 DEF SweepInv
  <2>8. \A k \in AsideKeys : KeyStep(c, k)
    BY <2>1, <2>3, <2>5, <2>6 DEF KeyStep, OnKey, ChangeStages
  <2> QED BY <2>1, <2>6, <2>7, <2>8, CallerKeepsInv DEF StepsRightly
<1>5. ASSUME NEW c \in AsideCallers, Fill(c) \/ Replace(c) PROVE AsideInv'
  BY <1>5, WrittenKeepsInv DEF Fill, Replace, At, Key
<1>6. ASSUME NEW c \in AsideCallers, Update(c) \/ Delete(c) PROVE AsideInv'
  <2>1. ASSUME NEW k \in AsideKeys, NEW first \in {"drop", "evict"}, Change(c, k, first) PROVE AsideInv'
    BY <2>1, ChangeKeepsInv
  <2>2. Drop(c, "drop", "drop again") => AsideInv'
    BY DropKeepsInv
  <2>3. Drop(c, "drop again", "replace") => AsideInv'
    BY DropKeepsInv
  <2>4. Drop(c, "evict", "evict again") => AsideInv'
    BY DropKeepsInv
  <2>5. Drop(c, "evict again", "rest") => AsideInv'
    BY DropKeepsInv
  <2> QED BY <1>5, <1>6, <2>1, <2>2, <2>3, <2>4, <2>5 DEF Update, Delete
<1>7. ASSUME NEW c \in AsideCallers, Sweep(c) PROVE AsideInv'
  <2> DEFINE r == [Resting EXCEPT !.at = "scan", !.due = Cached]
  <2>1. /\ asideCall[c].at = "rest" /\ asideCall' = [asideCall EXCEPT ![c] = r]
        /\ UNCHANGED <<source, cache, doubtful, failures>>
    BY <1>7 DEF Sweep, At
  <2>2. r \in AsideCallType /\ r.at = "scan" /\ r.seen = {} /\ r.key \notin AsideKeys
    BY RestingIsCall, AsideAssumption DEF Resting, AsideCallType, AsideStages, Cached
  <2> HIDE DEF r
  <2>3. /\ asideCall'[c] = r /\ AsideType' /\ OthersStay(c)
    BY <1>0, <2>1, <2>2, CallerGoesOn DEF AsideType, Cached, SweepStages
  <2>4. SweepInv(c)'
    BY <2>2, <2>3 DEF SweepInv
  <2>5. \A k \in AsideKeys : KeyStep(c, k)
    BY <2>1, <2>2, <2>3 DEF KeyStep, OnKey, ChangeStages
  <2> QED BY <2>1, <2>3, <2>4, <2>5, CallerKeepsInv DEF StepsRightly
<1>8. ASSUME NEW c \in AsideCallers, Scan(c) PROVE AsideInv'
  <2>1. PICK B \in SUBSET Cached, more \in BOOLEAN :
           LET seen == asideCall[c].seen \cup B
           IN  /\ asideCall[c].at = "scan" /\ UNCHANGED <<source, cache, doubtful, failures>>
               /\ ~more => asideCall[c].due \cap Cached \subseteq seen
               /\ asideCall' = [asideCall EXCEPT ![c].at = "sweep", ![c].batch = B, ![c].seen = seen,
                                               ![c].more = more]
    BY <1>8 DEF Scan, At
  <2> DEFINE r == [asideCall[c] EXCEPT !.at = "sweep", !.batch = B, !.seen = asideCall[c].seen \cup B,
                                       !.more = more]
  <2>2. asideCall[c] \in AsideCallType /\ asideCall' = [asideCall EXCEPT ![c] = r] /\ B \subseteq AsideKeys
    BY <1>0, <2>1 DEF AsideType, Cached
  <2>3. /\ r \in AsideCallType /\ r.at = "sweep" /\ r.batch = B /\ r.seen = asideCall[c].seen \cup B
        /\ r.more = more /\ r.due = asideCall[c].due /\ r.key = asideCall[c].key
    BY <2>2 DEF AsideCallType, AsideStages
  <2> HIDE DEF r
  <2>4. Cached' = Cached /\ cache' \in [AsideKeys -> Int] /\ failures' \in Nat
    BY <1>0, <2>1 DEF AsideType, Cached
  <2>5. /\ asideCall'[c] = r /\ AsideType' /\ OthersStay(c)
    <3>1. UNCHANGED <<source, doubtful>>
      BY <2>1
    <3> HIDE DEF Cached
    <3> QED BY <2>2, <2>3, <2>4, <3>1, CallerGoesOn DEF SweepStages
  <2>6. SweepInv(c)'
    <3> HIDE DEF Cached
    <3>1. asideCall[c].due \cap asideCall[c].seen \cap Cached = {}
      BY <1>0, <2>1 DEF SweepInv
    <3> QED BY <2>1, <2>3, <2>4, <2>5, <3>1 DEF SweepInv
  <2>7. \A k \in AsideKeys : KeyStep(c, k)
    BY <2>1, <2>3, <2>5 DEF KeyStep, OnKey, ChangeStages
  <2> QED BY <2>1, <2>5, <2>6, <2>7, CallerKeepsInv DEF StepsRightly
<1>9. ASSUME NEW c \in AsideCallers, SweepBatch(c) PROVE AsideInv'
  <2> DEFINE next == IF asideCall[c].more THEN "scan" ELSE "swept"
             r == [asideCall[c] EXCEPT !.at = next, !.batch = {}, !.more = FALSE]
             B == asideCall[c].batch
  <2>1. /\ asideCall[c].at = "sweep" /\ UNCHANGED <<source, doubtful, failures>>
        /\ cache' = [k \in AsideKeys |-> IF k \in B THEN Nothing ELSE cache[k]]
        /\ asideCall' = [asideCall EXCEPT ![c].at = next, ![c].batch = {}, ![c].more = FALSE]
    BY <1>9 DEF SweepBatch, Swept, At
  <2>2. asideCall[c] \in AsideCallType /\ asideCall' = [asideCall EXCEPT ![c] = r] /\ B \subseteq AsideKeys
    BY <1>0, <2>1 DEF AsideType, AsideCallType
  <2>3. /\ r \in AsideCallType /\ r.at = next /\ r.batch = {} /\ r.seen = asideCall[c].seen
        /\ r.due = asideCall[c].due /\ r.key = asideCall[c].key
    BY <2>2 DEF AsideCallType, AsideStages
  <2> HIDE DEF r
  <2>4. cache' \in [AsideKeys -> Int] /\ \A k \in AsideKeys : cache'[k] \in {Nothing, cache[k]}
    BY <1>0, <2>1 DEF AsideType, Nothing
  <2>5. Cached' = Cached \ B
    BY <2>1 DEF Cached
  <2>6. /\ asideCall'[c] = r /\ AsideType' /\ OthersStay(c)
    <3> HIDE DEF Cached
    <3>1. failures' \in Nat /\ UNCHANGED <<source, doubtful>> /\ Cached' \subseteq Cached
      BY <1>0, <2>1, <2>5 DEF AsideType
    <3>2. r.at \in SweepStages
      BY <2>3 DEF SweepStages
    <3> QED BY <2>2, <2>3, <2>4, <3>1, <3>2, CallerGoesOn
  <2>7. SweepInv(c)'
    <3> HIDE DEF Cached
    <3>1. /\ asideCall[c].due \cap asideCall[c].seen \cap Cached \subseteq B
          /\ ~asideCall[c].more => asideCall[c].due \cap Cached \subseteq asideCall[c].seen
      BY <1>0, <2>1 DEF SweepInv
    <3> QED BY <2>3, <2>5, <2>6, <3>1 DEF SweepInv
  <2>8. \A k \in AsideKeys : KeyStep(c, k)
    <3> SUFFICES ASSUME NEW k \in AsideKeys PROVE KeyStep(c, k)
      OBVIOUS
    <3>1. OnKey(c, k)' => OnKey(c, k) /\ asideCall'[c].at \in {"scan", "swept"}
      BY <2>1, <2>3, <2>6 DEF OnKey
    <3>2. cache'[k] = Nothing \/ (cache'[k] = cache[k] /\ asideCall[c].at \notin {"drop", "evict"})
      BY <2>1, <2>4
    <3> QED BY <3>1, <3>2 DEF KeyStep, ChangeStages
  <2> QED BY <2>1, <2>6, <2>7, <2>8, CallerKeepsInv DEF StepsRightly
<1>10. ASSUME NEW c \in AsideCallers, SweepEnds(c) \/ Fails(c) PROVE AsideInv'
  <2>1. /\ asideCall' = [asideCall EXCEPT ![c] = Resting] /\ UNCHANGED <<source, cache>>
        /\ failures' \in {failures, failures + 1} /\ doubtful \subseteq doubtful'
        /\ \A k \in AsideKeys \ doubtful' : OnKey(c, k) => asideCall[c].at = "swept"
    BY <1>10 DEF SweepEnds, Fails, Ends, At, Key, OnKey
  <2>2. /\ asideCall'[c] = Resting /\ AsideType' /\ OthersStay(c)
    <3>1. cache' \in [AsideKeys -> Int] /\ failures' \in Nat /\ Cached' = Cached
      BY <1>0, <2>1 DEF AsideType, Cached
    <3> HIDE DEF Cached
    <3> QED BY <2>1, <3>1, RestingIsCall, CallerGoesOn
  <2>3. SweepInv(c)'
    BY <2>2, RestingIsCall DEF SweepInv
  <2>4. \A k \in AsideKeys \ doubtful' : KeyStep(c, k)
    BY <2>1, <2>2, RestingIsCall DEF KeyStep, OnKey
  <2> QED BY <2>1, <2>2, <2>3, <2>4, CallerKeepsInv DEF StepsRightly
<1>11. ASSUME NEW k \in AsideKeys, RunsOut(k) PROVE AsideInv'
  <2>1. /\ cache' = [cache EXCEPT ![k] = Nothing] /\ UNCHANGED <<source, asideCall, failures>>
        /\ doubtful' = IF On(k) = {} THEN doubtful \ {k} ELSE doubtful
    BY <1>11 DEF RunsOut
  <2>2. AsideType' /\ \A l \in AsideKeys : cache'[l] = IF l = k THEN Nothing ELSE cache[l]
    BY <1>0, <2>1 DEF AsideType, Nothing
  <2>3. ASSUME NEW l \in AsideKeys \ doubtful' PROVE KeyInv(l)'
    <3>1. CASE l \in doubtful
      <4>1. l = k /\ \A d \in AsideCallers : ~OnKey(d, l)
        BY <2>1, <2>3, <3>1 DEF On, OnKey, At, Key
      <4> QED BY <2>1, <2>2, <4>1 DEF KeyInv, OnKey
    <3>2. CASE l \notin doubtful
      <4>1. KeyInv(l)
        BY <1>0, <3>2
      <4>2. cache'[l] \in {Nothing, cache[l]} /\ UNCHANGED <<source, asideCall>>
        BY <2>1, <2>2
      <4> QED BY <4>1, <4>2 DEF KeyInv, OnKey
    <3> QED BY <3>1, <3>2
  <2>4. Cached' \subseteq Cached
    BY <2>2 DEF Cached
  <2>5. ASSUME NEW d \in AsideCallers PROVE SweepInv(d)'
    <3> HIDE DEF Cached
    <3> QED BY <1>0, <2>1, <2>4, SweepKept
  <2> QED BY <2>2, <2>3, <2>5 DEF AsideInv
<1> QED BY <1>1, <1>2, <1>3, <1>4, <1>5, <1>6, <1>7, <1>8, <1>9, <1>10, <1>11 DEF NextAside

LEMMA AsideAlways == AsideSpec => []AsideInv
BY AsideInit, AsideNext, PTL DEF AsideSpec

\* When no call on a key is under way, its copy is that of the source or missing, unless calls
\* overlapped or a command failed since a change or a time out that had the key for itself.
THEOREM CopiesAreFresh == AsideSpec => []FreshUnlessOverlapped
<1>1. AsideInv => FreshUnlessOverlapped
  <2> SUFFICES ASSUME AsideInv, NEW k \in AsideKeys \ doubtful, On(k) = {}
               PROVE  cache[k] \in {Nothing, source[k]}
    BY DEF FreshUnlessOverlapped
  <2> QED BY DEF AsideInv, KeyInv, On, OnKey, At, Key
<1> QED BY <1>1, AsideAlways, PTL

\* delByPattern has deleted every key that was there when it began and was not written since,
\* whatever the scan returns and whoever writes meanwhile.
THEOREM SweepsAreThorough == AsideSpec => []PatternIsGone
<1>1. AsideInv => PatternIsGone
  BY DEF AsideInv, SweepInv, PatternIsGone, At
<1> QED BY <1>1, AsideAlways, PTL

-----------------------------------------------------------------------------
(* Publish and subscribe                                                   *)

\* Messages are numbered as they come; what is in an inbox has been published and was not
\* handled, and what was handled has been published.
PubSubInv ==
    /\ sent \subseteq AllMessages /\ IsFiniteSet(sent)
    /\ \A m \in sent : m[1] <= Cardinality(sent)
    /\ wanted \in [Subs -> SUBSET sent] /\ inbox \in [Subs -> SUBSET sent]
    /\ missed \in [Subs -> SUBSET sent] /\ handled \in [Subs -> [AllMessages -> Nat]]
    /\ \A s \in Subs : \A m \in AllMessages : m \in inbox[s] \/ m \notin sent => handled[s][m] = 0
    /\ AcceptedIsHeardOnce

LEMMA PubSubInit == InitPubSub => PubSubInv
<1> SUFFICES ASSUME InitPubSub PROVE PubSubInv
  OBVIOUS
<1>1. IsFiniteSet(sent)
  BY FS_EmptySet DEF InitPubSub
<1>2. AcceptedIsHeardOnce
  BY DEF InitPubSub, AcceptedIsHeardOnce
<1> QED BY <1>1, <1>2 DEF InitPubSub, PubSubInv

\* What the connection and the subscriptions do to messages: nothing, or they are missed.
LEMMA ConnectionKeepsInv ==
    ASSUME PubSubInv, UNCHANGED <<sent, wanted, handled, threw>>,
           \/ UNCHANGED <<inbox, missed>>
           \/ /\ missed' = [s \in Subs |-> missed[s] \cup inbox[s]]
              /\ inbox' = [s \in Subs |-> {}]
    PROVE  PubSubInv'
<1>1. /\ inbox' \in [Subs -> SUBSET sent] /\ missed' \in [Subs -> SUBSET sent]
      /\ \A s \in Subs : inbox'[s] \subseteq inbox[s] /\ inbox[s] \cup missed[s] \subseteq inbox'[s] \cup missed'[s]
  BY DEF PubSubInv
<1>2. AcceptedIsHeardOnce'
  BY <1>1 DEF PubSubInv, AcceptedIsHeardOnce
<1> QED BY <1>1, <1>2 DEF PubSubInv

LEMMA PublishKeepsInv ==
    ASSUME PubSubInv, NEW ch \in Channels, Publish(ch)
    PROVE  PubSubInv'
<1> DEFINE m == <<Cardinality(sent) + 1, ch>>
<1>1. /\ Cardinality(sent) \in Nat /\ Cardinality(sent) < MaxMessages /\ sent' = sent \cup {m}
      /\ UNCHANGED <<handled, threw>>
  BY FS_CardinalityType DEF PubSubInv, Publish
<1>2. m \in AllMessages /\ m \notin sent /\ m[1] = Cardinality(sent) + 1
  BY <1>1, PubSubAssumption DEF PubSubInv, AllMessages
<1>3. /\ IsFiniteSet(sent') /\ Cardinality(sent') = Cardinality(sent) + 1
  BY <1>1, <1>2, FS_AddElement DEF PubSubInv
<1>4. sent' \subseteq AllMessages /\ \A n \in sent' : n[1] <= Cardinality(sent')
  <2>1. \A n \in sent : n[1] \in Nat
    BY PubSubAssumption DEF PubSubInv, AllMessages
  <2> QED BY <1>1, <1>2, <1>3, <2>1 DEF PubSubInv
<1>5. \A s \in Subs :
         \/ /\ wanted'[s] = wanted[s] /\ inbox'[s] = inbox[s] /\ missed'[s] = missed[s]
         \/ /\ wanted'[s] = wanted[s] \cup {m}
            /\ \/ inbox'[s] = inbox[s] \cup {m} /\ missed'[s] = missed[s]
               \/ inbox'[s] = inbox[s] /\ missed'[s] = missed[s] \cup {m}
  BY DEF Publish
<1>6. /\ wanted' \in [Subs -> SUBSET sent'] /\ inbox' \in [Subs -> SUBSET sent']
      /\ missed' \in [Subs -> SUBSET sent']
  BY <1>1 DEF Publish, PubSubInv
<1> HIDE DEF m
<1>7. \A s \in Subs : \A n \in AllMessages : n \in inbox'[s] \/ n \notin sent' => handled'[s][n] = 0
  BY <1>1, <1>2, <1>5 DEF PubSubInv
<1>8. AcceptedIsHeardOnce'
  BY <1>1, <1>5 DEF PubSubInv, AcceptedIsHeardOnce
<1> QED BY <1>1, <1>3, <1>4, <1>6, <1>7, <1>8 DEF PubSubInv

LEMMA DeliverKeepsInv ==
    ASSUME PubSubInv, NEW s \in Subs, Deliver(s)
    PROVE  PubSubInv'
<1>1. PICK m \in inbox[s], parses \in BOOLEAN, throws \in BOOLEAN :
         /\ inbox' = [inbox EXCEPT ![s] = inbox[s] \ {m}]
         /\ Handles(s, m, parses, throws)
         /\ threw' = IF throws THEN threw \cup {<<s, m>>} ELSE threw
         /\ UNCHANGED <<sent, wanted, missed>>
  BY DEF Deliver
<1> DEFINE times == IF parses /\ throws THEN 2 ELSE 1
<1>2. m \in sent /\ m \in AllMessages /\ handled[s][m] = 0
  BY <1>1 DEF PubSubInv
<1>3. /\ handled' = [handled EXCEPT ![s] = [handled[s] EXCEPT ![m] = handled[s][m] + times]]
      /\ times \in {1, 2} /\ (times = 2 => <<s, m>> \in threw')
  BY <1>1 DEF Handles, Called
<1> HIDE DEF times
<1>4. /\ handled' \in [Subs -> [AllMessages -> Nat]] /\ handled'[s][m] = times
      /\ \A q \in Subs : \A n \in AllMessages : q # s \/ n # m => handled'[q][n] = handled[q][n]
  BY <1>2, <1>3 DEF PubSubInv
<1>5. /\ inbox' \in [Subs -> SUBSET sent] /\ inbox'[s] = inbox[s] \ {m}
      /\ \A q \in Subs : q # s => inbox'[q] = inbox[q]
  BY <1>1 DEF PubSubInv
<1>6. ASSUME NEW q \in Subs, NEW n \in AllMessages, n \in inbox'[q] \/ n \notin sent' PROVE handled'[q][n] = 0
  BY <1>1, <1>2, <1>4, <1>5, <1>6 DEF PubSubInv
<1>7. AcceptedIsHeardOnce'
  <2>1. ASSUME NEW q \in Subs, NEW n \in wanted'[q]
        PROVE  handled'[q][n] > 0 \/ n \in inbox'[q] \/ n \in missed'[q]
    <3>1. n \in AllMessages /\ n \in wanted[q]
      BY <1>1, <2>1 DEF PubSubInv
    <3> QED BY <1>1, <1>3, <1>4, <1>5, <3>1 DEF PubSubInv, AcceptedIsHeardOnce
  <2>2. threw \subseteq threw'
    BY <1>1
  <2>3. ASSUME NEW q \in Subs, NEW n \in AllMessages, handled'[q][n] > 1
        PROVE  handled'[q][n] = 2 /\ <<q, n>> \in threw'
    <3>1. CASE q = s /\ n = m
      BY <1>3, <1>4, <2>3, <3>1
    <3>2. CASE q # s \/ n # m
      BY <1>4, <2>2, <2>3, <3>2 DEF PubSubInv, AcceptedIsHeardOnce
    <3> QED BY <3>1, <3>2
  <2> QED BY <2>1, <2>3 DEF AcceptedIsHeardOnce
<1> QED BY <1>1, <1>4, <1>5, <1>6, <1>7 DEF PubSubInv

LEMMA PubSubNext == PubSubInv /\ [NextPubSub]_psVars => PubSubInv'
<1> SUFFICES ASSUME PubSubInv, [NextPubSub]_psVars PROVE PubSubInv'
  OBVIOUS
<1> USE DEF psVars, subVars
<1>1. ASSUME NEW s \in Subs, Subscribe(s) \/ Accept(s) PROVE PubSubInv'
  BY <1>1, ConnectionKeepsInv DEF Subscribe, Accept
<1>2. ASSUME NEW ch \in Channels, Unsubscribe(ch) PROVE PubSubInv'
  BY <1>2, ConnectionKeepsInv DEF Unsubscribe
<1>3. CASE Connected \/ ConnectFails \/ OnModuleDestroy \/ Reconnected \/ StopsTrying \/ UNCHANGED psVars
  BY <1>3, ConnectionKeepsInv DEF Connected, ConnectFails, OnModuleDestroy, Reconnected, StopsTrying
<1>4. CASE Break
  BY <1>4, ConnectionKeepsInv DEF Break
<1> QED BY <1>1, <1>2, <1>3, <1>4, PublishKeepsInv, DeliverKeepsInv DEF NextPubSub

\* A message published while a subscription is on reaches its callback once, or is lost with
\* the connection, or is on its way; it is handed over again only when the callback threw.
THEOREM MessagesAreHeardOnce == PubSubSpec => []AcceptedIsHeardOnce
<1>1. PubSubInv => AcceptedIsHeardOnce
  BY DEF PubSubInv
<1> QED BY <1>1, PubSubInit, PubSubNext, PTL DEF PubSubSpec

-----------------------------------------------------------------------------
(* The elements of a sequence at some positions                            *)

\* A set of numbers that is not empty has a least one.
LEMMA LeastOne ==
    ASSUME NEW S \in SUBSET Nat, S # {}
    PROVE  \E x \in S : \A y \in S : x <= y
<1> DEFINE T == {0 .. x : x \in S}
<1>1. T \subseteq FiniteSubsetsOf(Nat) /\ T # {}
  <2>1. \A x \in S : 0 .. x \subseteq Nat /\ IsFiniteSet(0 .. x)
    BY FS_Interval
  <2> QED BY <2>1 DEF FiniteSubsetsOf
<1>2. PICK t \in T : \A u \in T : <<u, t>> \notin StrictSubsetOrdering(Nat)
  BY <1>1, FS_StrictSubsetOrderingWellFounded, WFMin
<1>3. PICK x \in S : t = 0 .. x
  OBVIOUS
<1>4. ASSUME NEW y \in S, y < x PROVE FALSE
  <2>1. 0 .. y \subseteq t /\ 0 .. y # t
    <3>1. x \in t /\ x \notin 0 .. y
      BY <1>3, <1>4
    <3> QED BY <1>3, <1>4, <3>1
  <2>2. <<0 .. y, t>> \in StrictSubsetOrdering(Nat)
    BY <1>3, <2>1 DEF StrictSubsetOrdering
  <2> QED BY <1>2, <2>2
<1> QED BY <1>4

\* What Picked has taken up to the i-th position, for i up to m.
IsPicked(picked, s, S, m) ==
    picked = [i \in 0..m |->
                IF i = 0 THEN <<>>
                ELSE IF i \in S THEN Append(picked[i - 1], s[i]) ELSE picked[i - 1]]

LEMMA PickedGrows ==
    ASSUME NEW s, NEW S, NEW m \in Nat, NEW p, IsPicked(p, s, S, m)
    PROVE  \E picked : IsPicked(picked, s, S, m + 1)
<1> DEFINE picked == [i \in 0..(m + 1) |->
              IF i = 0 THEN <<>>
              ELSE IF i \in S THEN Append(p[i - 1], s[i]) ELSE p[i - 1]]
<1>1. \A i \in 0..m : picked[i] = p[i]
  <2> TAKE i \in 0..m
  <2>1. p[i] = IF i = 0 THEN <<>>
               ELSE IF i \in S THEN Append(p[i - 1], s[i]) ELSE p[i - 1]
    BY Zenon DEF IsPicked
  <2>2. i \in 0..(m + 1)
    OBVIOUS
  <2> QED BY <2>1, <2>2, Zenon
<1>2. \A i \in 0..(m + 1) : i # 0 => i - 1 \in 0..m
  OBVIOUS
<1>3. IsPicked(picked, s, S, m + 1)
  <2> DEFINE again == [i \in 0..(m + 1) |->
              IF i = 0 THEN <<>>
              ELSE IF i \in S THEN Append(picked[i - 1], s[i]) ELSE picked[i - 1]]
  <2>1. \A i \in 0..(m + 1) : picked[i] = again[i]
    BY <1>1, <1>2
  <2>2. picked = again
    BY <2>1
  <2> HIDE DEF picked
  <2> QED BY <2>2 DEF IsPicked
<1> QED BY <1>3

LEMMA PickedExists ==
    ASSUME NEW s, NEW S, NEW m \in Nat
    PROVE  \E picked : IsPicked(picked, s, S, m)
<1> DEFINE T == {i \in Nat : ~ \E picked : IsPicked(picked, s, S, i)}
<1> SUFFICES ASSUME T # {} PROVE FALSE
  OBVIOUS
<1>1. PICK x \in T : \A y \in T : x <= y
  BY LeastOne
<1>2. x # 0
  <2> DEFINE p == [i \in 0..0 |-> <<>>]
  <2>1. p = [i \in 0..0 |->
              IF i = 0 THEN <<>>
              ELSE IF i \in S THEN Append(p[i - 1], s[i]) ELSE p[i - 1]]
    OBVIOUS
  <2> HIDE DEF p
  <2>2. IsPicked(p, s, S, 0)
    BY <2>1 DEF IsPicked
  <2> QED BY <2>2
<1>3. x - 1 \in Nat /\ x - 1 \notin T
  BY <1>1, <1>2
<1>4. PICK p : IsPicked(p, s, S, x - 1)
  BY <1>3
<1>5. \E picked : IsPicked(picked, s, S, x - 1 + 1)
  BY <1>3, <1>4, PickedGrows
<1>6. x - 1 + 1 = x
  OBVIOUS
<1> QED BY <1>5, <1>6

LEMMA PickedIs ==
    ASSUME NEW s, Len(s) \in Nat, NEW S
    PROVE  \E picked : IsPicked(picked, s, S, Len(s)) /\ Picked(s, S) = picked[Len(s)]
<1> DEFINE picked == CHOOSE p : IsPicked(p, s, S, Len(s))
<1>1. IsPicked(picked, s, S, Len(s))
  BY PickedExists
<1>2. Picked(s, S) = picked[Len(s)]
  BY DEF Picked, IsPicked
<1> HIDE DEF picked
<1> QED BY <1>1, <1>2

\* What is picked is no longer than the sequence, and made of its elements.
LEMMA PickedTyped ==
    ASSUME NEW T, NEW s \in Seq(T), NEW S
    PROVE  Picked(s, S) \in Seq(T) /\ Len(Picked(s, S)) <= Len(s)
<1>1. Len(s) \in Nat /\ \A i \in 1..Len(s) : s[i] \in T
  OBVIOUS
<1>2. PICK p : IsPicked(p, s, S, Len(s)) /\ Picked(s, S) = p[Len(s)]
  BY <1>1, PickedIs
<1>3. \A i \in 0..Len(s) :
         p[i] = IF i = 0 THEN <<>> ELSE IF i \in S THEN Append(p[i - 1], s[i]) ELSE p[i - 1]
  BY <1>2, Zenon DEF IsPicked
<1> DEFINE Bad == {i \in 0..Len(s) : ~(p[i] \in Seq(T) /\ Len(p[i]) <= i)}
<1>4. Bad = {}
  <2> SUFFICES ASSUME Bad # {} PROVE FALSE
    OBVIOUS
  <2>0. Bad \in SUBSET Nat
    BY <1>1
  <2> HIDE DEF Bad
  <2>1. PICK x \in Bad : \A y \in Bad : x <= y
    BY <2>0, LeastOne
  <2> USE DEF Bad
  <2>2. CASE x = 0
    <3>1. p[x] = <<>>
      BY <1>3, <2>1, <2>2
    <3>2. <<>> \in Seq(T) /\ Len(<<>>) = 0
      OBVIOUS
    <3> QED BY <2>1, <2>2, <3>1, <3>2
  <2>3. CASE x # 0
    <3>1. x - 1 \in 0..Len(s) /\ x \in 1..Len(s) /\ x - 1 \notin Bad
      BY <1>1, <2>1, <2>3
    <3>2. p[x - 1] \in Seq(T) /\ Len(p[x - 1]) <= x - 1
      BY <3>1
    <3>3. p[x] = IF x \in S THEN Append(p[x - 1], s[x]) ELSE p[x - 1]
      BY <1>3, <2>3
    <3>4. Len(Append(p[x - 1], s[x])) = Len(p[x - 1]) + 1 /\ Append(p[x - 1], s[x]) \in Seq(T)
      BY <1>1, <3>1, <3>2
    <3>5. Len(p[x - 1]) \in Nat
      BY <3>2
    <3>6. p[x] \in Seq(T) /\ Len(p[x]) <= x
      <4>1. CASE x \in S
        BY <3>1, <3>2, <3>3, <3>4, <3>5, <4>1
      <4>2. CASE x \notin S
        BY <3>1, <3>2, <3>3, <3>5, <4>2
      <4> QED BY <4>1, <4>2
    <3> QED BY <2>1, <3>6
  <2> QED BY <2>2, <2>3
<1>5. Len(s) \in 0..Len(s) /\ Len(s) \notin Bad
  BY <1>1, <1>4
<1> QED BY <1>2, <1>5

-----------------------------------------------------------------------------
(* The keyspace of texts                                                   *)

DataInv ==
    /\ db = [k \in Keys |-> db[k]]
    /\ \A k \in Keys : KeyType(db[k])
    /\ volatile \subseteq {k \in Keys : db[k] # Absent}

\* What a command on a key of the type sees.
LEMMA SeenContent ==
    ASSUME NEW k, KeyType(db[k]),
           NEW type \in {"string", "list", "hash", "set", "zset", "stream"}, IsOf(k, type)
    PROVE  \/ db[k] = Absent
           \/ /\ db[k] # Absent /\ db[k] = <<type, Content(k, type)>>
              /\ Content(k, type) \in ContentOf(type)
<1>1. CASE db[k] = Absent
  BY <1>1
<1>2. CASE db[k] # Absent
  <2>1. PICK t \in {"string", "list", "hash", "set", "zset", "stream"} :
           db[k][1] = t /\ db[k][2] \in ContentOf(t) /\ db[k] = <<t, db[k][2]>>
    BY <1>2 DEF KeyType
  <2>2. t = type
    BY <2>1 DEF IsOf
  <2>3. Content(k, type) = db[k][2]
    BY <2>1, <2>2 DEF Content
  <2> QED BY <1>2, <2>1, <2>2, <2>3
<1> QED BY <1>1, <1>2

\* Of a key that is not there.
LEMMA NoContent ==
    ASSUME NEW k, db[k] = Absent
    PROVE  /\ Content(k, "list") = <<>>
           /\ Content(k, "hash") = [x \in {} |-> 0] /\ Content(k, "zset") = [x \in {} |-> 0]
           /\ Content(k, "set") = {} /\ Content(k, "string") = Stringify(Num(0))
           /\ Content(k, "stream") = EmptyStream
BY DEF Content, Absent

\* A command that changes one key.
LEMMA KeyWritten ==
    ASSUME DataInv, NEW k \in Keys, NEW v, KeyType(v),
           db' = [db EXCEPT ![k] = v],
           volatile' \subseteq volatile \cup {k}, v = Absent => k \notin volatile'
    PROVE  DataInv'
<1>1. /\ db' = [j \in Keys |-> IF j = k THEN v ELSE db[j]]
      /\ db'[k] = v
      /\ \A j \in Keys \ {k} : db'[j] = db[j]
  BY DEF DataInv
<1>2. db' = [j \in Keys |-> db'[j]]
  BY <1>1
<1>3. \A j \in Keys : KeyType(db'[j])
  <2>1. ASSUME NEW j \in Keys PROVE KeyType(db'[j])
    <3>1. CASE j = k
      BY <1>1, <3>1 DEF KeyType
    <3>2. CASE j # k
      BY <1>1, <3>2 DEF KeyType, DataInv
    <3> QED BY <3>1, <3>2
  <2> QED BY <2>1
<1>4. volatile' \subseteq {j \in Keys : db'[j] # Absent}
  BY <1>1 DEF DataInv
<1> QED BY <1>2, <1>3, <1>4 DEF DataInv, KeyType

\* A command that changes two, of which the second is there afterwards.
LEMMA KeysWritten ==
    ASSUME DataInv, NEW k \in Keys, NEW d \in Keys, NEW v, KeyType(v), NEW w, KeyType(w), w # Absent,
           db' = [db EXCEPT ![k] = v, ![d] = w],
           volatile' = volatile \ {x \in {k} : db'[x] = Absent}
    PROVE  DataInv'
<1>1. /\ db' = [j \in Keys |-> db'[j]]
      /\ db'[d] = w /\ (k # d => db'[k] = v)
      /\ \A j \in Keys \ {k, d} : db'[j] = db[j]
  BY DEF DataInv
<1>2. \A j \in Keys : KeyType(db'[j])
  <2>1. ASSUME NEW j \in Keys PROVE KeyType(db'[j])
    <3>1. CASE j = d
      BY <1>1, <3>1 DEF KeyType
    <3>2. CASE j # d /\ j = k
      BY <1>1, <3>2 DEF KeyType
    <3>3. CASE j # d /\ j # k
      BY <1>1, <3>3 DEF KeyType, DataInv
    <3> QED BY <3>1, <3>2, <3>3
  <2> QED BY <2>1
<1>3. volatile' \subseteq {j \in Keys : db'[j] # Absent}
  BY <1>1 DEF DataInv
<1> QED BY <1>1, <1>2, <1>3 DEF DataInv, KeyType

LEMMA AnswersKeep ==
    ASSUME DataInv, UNCHANGED <<db, volatile>>
    PROVE  DataInv'
BY DEF DataInv, KeyType

LEMMA WritesKeep ==
    ASSUME DataInv, NEW k \in Keys, NEW type, NEW content, NEW a, Writes(k, type, content, a),
           Emptied(type, content) \/ KeyType(<<type, content>>)
    PROVE  DataInv'
<1> DEFINE v == IF Emptied(type, content) THEN Absent ELSE <<type, content>>
<1>1. KeyType(v)
  BY DEF KeyType
<1>2. db' = [db EXCEPT ![k] = v] /\ db'[k] = v
  BY DEF Writes, DataInv
<1>3. volatile' \subseteq volatile \cup {k} /\ (v = Absent => k \notin volatile')
  BY <1>2 DEF Writes
<1> HIDE DEF v
<1> QED BY <1>1, <1>2, <1>3, KeyWritten

LEMMA ReplacesKeep ==
    ASSUME DataInv, NEW k \in Keys, NEW v, KeyType(v), NEW lives, NEW a, Replaces(k, v, lives, a),
           v = Absent => lives = FALSE
    PROVE  DataInv'
BY KeyWritten DEF Replaces

\* Texts.
LEMMA Texting ==
    /\ Bare \in KnownTexts
    /\ \A v \in Inputs : Stringify(v) \in JsonTexts /\ StringifyUnlessString(v) \in KnownTexts
    /\ \A i \in 0..MaxNumber : Stringify(Num(i)) \in JsonTexts
    /\ Stringify(Num(0)) \in JsonTexts
    /\ JsonTexts \subseteq KnownTexts
<1>1. Bare \in KnownTexts /\ JsonTexts \subseteq KnownTexts
  BY DEF KnownTexts
<1>2. \A v \in Inputs : Stringify(v) \in JsonTexts
  BY DEF JsonTexts
<1>3. \A i \in 0..MaxNumber : Stringify(Num(i)) \in JsonTexts
  BY DEF JsonTexts
<1>4. Stringify(Num(0)) \in JsonTexts
  BY <1>3, DataAssumption
<1>5. StringifyUnlessString(Num(1)) = Stringify(Num(1))
  BY DEF StringifyUnlessString, IsString, Num
<1>6. StringifyUnlessString(Digits(1)) = Stringify(Num(1))
  BY DEF StringifyUnlessString, IsString, Digits, Raw, Word
<1>7. StringifyUnlessString(Word) = Bare
  BY DEF StringifyUnlessString, IsString, Raw, Word
<1>8. \A v \in Inputs : StringifyUnlessString(v) \in KnownTexts
  BY <1>1, <1>2, <1>5, <1>6, <1>7 DEF Inputs
<1> QED BY <1>1, <1>2, <1>3, <1>4, <1>8

\* What a key may hold.
LEMMA StringTyped ==
    ASSUME NEW t \in KnownTexts \cup Encoded
    PROVE  KeyType(<<"string", t>>)
<1>1. t \in ContentOf("string")
  BY DEF ContentOf
<1> QED BY <1>1 DEF KeyType

LEMMA ListTyped ==
    ASSUME NEW s \in Seq(JsonTexts), Len(s) <= MaxLen
    PROVE  Emptied("list", s) \/ KeyType(<<"list", s>>)
<1>1. CASE s = <<>>
  BY <1>1 DEF Emptied
<1>2. CASE s # <<>>
  <2>1. Len(s) \in 1..MaxLen
    BY <1>2, DataAssumption
  <2>2. s \in ContentOf("list")
    BY <2>1 DEF ContentOf
  <2> QED BY <2>2 DEF KeyType
<1> QED BY <1>1, <1>2

LEMMA HashTyped ==
    ASSUME NEW F \in SUBSET Fields, NEW h \in [F -> JsonTexts]
    PROVE  Emptied("hash", h) \/ KeyType(<<"hash", h>>)
<1>1. CASE F = {}
  BY <1>1 DEF Emptied
<1>2. CASE F # {}
  <2>1. h \in ContentOf("hash")
    BY <1>2 DEF ContentOf
  <2> QED BY <2>1 DEF KeyType
<1> QED BY <1>1, <1>2

LEMMA SetTyped ==
    ASSUME NEW ms \in SUBSET Members
    PROVE  Emptied("set", ms) \/ KeyType(<<"set", ms>>)
<1>1. CASE ms # {}
  <2>1. ms \in ContentOf("set")
    BY <1>1 DEF ContentOf
  <2> QED BY <2>1 DEF KeyType
<1> QED BY <1>1 DEF Emptied

LEMMA ScoresTyped ==
    ASSUME NEW M \in SUBSET Members, NEW z \in [M -> 0..MaxNumber]
    PROVE  Emptied("zset", z) \/ KeyType(<<"zset", z>>)
<1>1. CASE M = {}
  BY <1>1 DEF Emptied
<1>2. CASE M # {}
  <2>1. z \in ContentOf("zset")
    BY <1>2 DEF ContentOf
  <2> QED BY <2>1 DEF KeyType
<1> QED BY <1>1, <1>2

LEMMA StreamTyped ==
    ASSUME NEW s \in ContentOf("stream")
    PROVE  KeyType(<<"stream", s>>)
BY DEF KeyType

-----------------------------------------------------------------------------
(* What the commands see                                                   *)

LEMMA ListSeen ==
    ASSUME NEW k, KeyType(db[k]), IsOf(k, "list")
    PROVE  /\ List(k) \in Seq(JsonTexts) /\ Len(List(k)) <= MaxLen
           /\ db[k] = Absent <=> List(k) = <<>>
           /\ db[k] # Absent => db[k] = <<"list", List(k)>>
<1>1. CASE db[k] = Absent
  <2>1. List(k) = <<>>
    BY <1>1, NoContent DEF List
  <2>2. <<>> \in Seq(JsonTexts) /\ Len(<<>>) <= MaxLen
    BY DataAssumption
  <2> QED BY <1>1, <2>1, <2>2
<1>2. CASE db[k] # Absent
  BY <1>2, SeenContent DEF List, ContentOf
<1> QED BY <1>1, <1>2

LEMMA HashSeen ==
    ASSUME NEW k, KeyType(db[k]), IsOf(k, "hash")
    PROVE  /\ DOMAIN Hash(k) \in SUBSET Fields /\ Hash(k) \in [DOMAIN Hash(k) -> JsonTexts]
           /\ db[k] = Absent <=> DOMAIN Hash(k) = {}
           /\ db[k] # Absent => db[k] = <<"hash", Hash(k)>>
<1>1. CASE db[k] = Absent
  BY <1>1, NoContent DEF Hash
<1>2. CASE db[k] # Absent
  <2>1. db[k] = <<"hash", Hash(k)>> /\ Hash(k) \in ContentOf("hash")
    BY <1>2, SeenContent DEF Hash
  <2>2. PICK F \in (SUBSET Fields) \ {{}} : Hash(k) \in [F -> JsonTexts]
    BY <2>1 DEF ContentOf
  <2> QED BY <1>2, <2>1, <2>2
<1> QED BY <1>1, <1>2

LEMMA SetSeen ==
    ASSUME NEW k, KeyType(db[k]), IsOf(k, "set")
    PROVE  SetOf(k) \in SUBSET Members
<1>1. CASE db[k] = Absent
  BY <1>1, NoContent DEF SetOf
<1>2. CASE db[k] # Absent
  BY <1>2, SeenContent DEF SetOf, ContentOf
<1> QED BY <1>1, <1>2

LEMMA ScoresSeen ==
    ASSUME NEW k, KeyType(db[k]), IsOf(k, "zset")
    PROVE  DOMAIN Scored(k) \in SUBSET Members /\ Scored(k) \in [DOMAIN Scored(k) -> 0..MaxNumber]
<1>1. CASE db[k] = Absent
  BY <1>1, NoContent DEF Scored
<1>2. CASE db[k] # Absent
  <2>1. Scored(k) \in ContentOf("zset")
    BY <1>2, SeenContent DEF Scored
  <2>2. PICK M \in (SUBSET Members) \ {{}} : Scored(k) \in [M -> 0..MaxNumber]
    BY <2>1 DEF ContentOf
  <2> QED BY <2>2
<1> QED BY <1>1, <1>2

LEMMA StreamSeen ==
    ASSUME NEW k, KeyType(db[k]), IsOf(k, "stream")
    PROVE  /\ Stream(k) \in ContentOf("stream")
           /\ db[k] = Absent => Stream(k) = EmptyStream
           /\ db[k] # Absent => db[k] = <<"stream", Stream(k)>>
<1>1. CASE db[k] = Absent
  <2>1. Stream(k) = EmptyStream
    BY <1>1, NoContent DEF Stream
  <2>2. EmptyStream \in [entries : Seq(KnownTexts), next : {NoGroup} \cup Nat, pending : SUBSET Nat]
    BY DEF EmptyStream
  <2>3. Len(EmptyStream.entries) = 0 /\ EmptyStream.next = NoGroup /\ EmptyStream.pending = {}
    BY DEF EmptyStream
  <2>4. EmptyStream \in ContentOf("stream")
    BY <2>2, <2>3, DataAssumption DEF ContentOf, NoGroup
  <2> QED BY <1>1, <2>1, <2>4
<1>2. CASE db[k] # Absent
  BY <1>2, SeenContent DEF Stream
<1> QED BY <1>1, <1>2

LEMMA StringSeen ==
    ASSUME NEW k, KeyType(db[k]), IsOf(k, "string"), db[k] # Absent
    PROVE  /\ db[k][2] \in KnownTexts \cup Encoded /\ db[k] = <<"string", db[k][2]>>
           /\ Content(k, "string") = db[k][2]
<1>1. db[k] = <<"string", Content(k, "string")>> /\ Content(k, "string") \in ContentOf("string")
  BY SeenContent
<1> QED BY <1>1 DEF ContentOf

-----------------------------------------------------------------------------
(* The commands keep the types                                             *)

LEMMA DataInit == InitData => DataInv
BY DEF InitData, DataInv, KeyType

LEMMA KeyValueKeeps ==
    ASSUME DataInv, NEW k \in Keys, KeyValue(k)
    PROVE  DataInv'
<1>1. CASE Get(k)
  BY <1>1, AnswersKeep DEF Get, Answers
<1>2. CASE Del(k)
  BY <1>2, ReplacesKeep DEF Del, KeyType
<1>3. ASSUME NEW v \in Inputs, Set(k, v) \/ SetForever(k, v) \/ MSet(k, v) PROVE DataInv'
  <2>1. KeyType(<<"string", Stringify(v)>>) /\ <<"string", Stringify(v)>> # Absent
    BY Texting, StringTyped DEF Absent
  <2> QED BY <1>3, <2>1, ReplacesKeep DEF Set, SetForever, MSet
<1>4. ASSUME NEW v \in Inputs, SetNX(k, v) PROVE DataInv'
  <2>1. KeyType(<<"string", StringifyUnlessString(v)>>) /\ <<"string", StringifyUnlessString(v)>> # Absent
    BY Texting, StringTyped DEF Absent
  <2> QED BY <1>4, <2>1, ReplacesKeep, AnswersKeep DEF SetNX, Answers
<1> QED BY <1>1, <1>2, <1>3, <1>4 DEF KeyValue

LEMMA StringsKeep ==
    ASSUME DataInv, NEW k \in Keys, Strings(k) \/ Counters(k)
    PROVE  DataInv'
<1>1. CASE MGet(k) \/ StringReads(k) \/ Refused
  BY <1>1, AnswersKeep DEF MGet, StringReads, Refused, Answers
<1>2. ASSUME NEW v \in Inputs, GetSet(k, v) PROVE DataInv'
  <2>1. KeyType(<<"string", StringifyUnlessString(v)>>) /\ <<"string", StringifyUnlessString(v)>> # Absent
    BY Texting, StringTyped DEF Absent
  <2> QED BY <1>2, <2>1, ReplacesKeep DEF GetSet
<1>3. CASE AppendTo(k) \/ SetRange(k)
  <2>1. KeyType(<<"string", Bare>>)
    BY Texting, StringTyped
  <2> QED BY <1>3, <2>1, WritesKeep DEF AppendTo, SetRange
<1>4. ASSUME NEW by \in {1, -1}, Count(k, by) PROVE DataInv'
  <2> DEFINE t == Content(k, "string")
  <2>1. CASE ~IsNumber(t)
    BY <1>4, <2>1, AnswersKeep DEF Count, Answers
  <2>2. CASE IsNumber(t)
    <3>1. InRange(t, by) /\ Writes(k, "string", Counted(t, by), Done)
      BY <1>4, <2>2 DEF Count
    <3>2. KeyType(<<"string", Counted(t, by)>>)
      BY <3>1, Texting, StringTyped DEF InRange, Counted
    <3> QED BY <3>1, <3>2, WritesKeep
  <2> QED BY <2>1, <2>2
<1> QED BY <1>1, <1>2, <1>3, <1>4 DEF Strings, Counters

LEMMA UtilitiesKeep ==
    ASSUME DataInv, NEW k \in Keys, Utilities(k) \/ TimesOut(k)
    PROVE  DataInv'
<1>1. CASE Expire(k)
  BY <1>1 DEF Expire, DataInv, KeyType
<1>2. CASE Persist(k)
  BY <1>2 DEF Persist, DataInv, KeyType
<1>3. CASE KeyReads
  BY <1>3, AnswersKeep DEF KeyReads, Answers
<1>4. CASE TimesOut(k)
  BY <1>4, ReplacesKeep DEF TimesOut, KeyType
<1> QED BY <1>1, <1>2, <1>3, <1>4 DEF Utilities

LEMMA ListWritten ==
    ASSUME DataInv, NEW k \in Keys, NEW s \in Seq(JsonTexts), Len(s) <= MaxLen,
           NEW a, Writes(k, "list", s, a)
    PROVE  DataInv'
BY ListTyped, WritesKeep

LEMMA TextsTyped ==
    ASSUME NEW vs \in Pushed
    PROVE  /\ Texts(vs) \in Seq(JsonTexts) /\ Len(Texts(vs)) = Len(vs)
           /\ Reverse(Texts(vs)) \in Seq(JsonTexts) /\ Len(Reverse(Texts(vs))) = Len(vs)
<1>1. vs \in Seq(Inputs)
  <2>1. CASE \E v \in Inputs : vs = <<v>>
    BY <2>1
  <2>2. CASE \E v, w \in Inputs : vs = <<v, w>>
    BY <2>2
  <2> QED BY <2>1, <2>2 DEF Pushed
<1>2. Texts(vs) \in Seq(JsonTexts) /\ Len(Texts(vs)) = Len(vs)
  BY <1>1, Texting DEF Texts
<1>3. \A s \in Seq(JsonTexts) : Reverse(s) \in Seq(JsonTexts) /\ Len(Reverse(s)) = Len(s)
  BY DEF Reverse
<1> QED BY <1>2, <1>3

LEMMA ListsKeep ==
    ASSUME DataInv, NEW k \in Keys, IsOf(k, "list"), Lists(k)
    PROVE  DataInv'
<1> DEFINE l == List(k)
<1>0. l \in Seq(JsonTexts) /\ Len(l) <= MaxLen /\ Len(l) \in Nat
  <2>1. l \in Seq(JsonTexts) /\ Len(l) <= MaxLen
    BY ListSeen DEF DataInv
  <2> HIDE DEF l
  <2> QED BY <2>1
<1>l. db[k] # Absent => l # <<>>
  BY ListSeen DEF DataInv
<1> HIDE DEF l
<1>1. ASSUME NEW vs \in Pushed, LPush(k, vs) \/ RPush(k, vs) PROVE DataInv'
  <2>1. /\ Reverse(Texts(vs)) \o l \in Seq(JsonTexts) /\ Len(Reverse(Texts(vs)) \o l) = Len(vs) + Len(l)
        /\ l \o Texts(vs) \in Seq(JsonTexts) /\ Len(l \o Texts(vs)) = Len(l) + Len(vs)
    BY <1>0, TextsTyped
  <2>2. Len(l) + Len(vs) <= MaxLen /\ Len(vs) + Len(l) = Len(l) + Len(vs)
    BY <1>0, <1>1 DEF LPush, RPush, l, Pushed
  <2>3. CASE LPush(k, vs)
    BY <2>1, <2>2, <2>3, ListWritten DEF LPush, l
  <2>4. CASE RPush(k, vs)
    BY <2>1, <2>2, <2>4, ListWritten DEF RPush, l
  <2> QED BY <1>1, <2>3, <2>4
<1>2. CASE LPop(k) \/ RPop(k)
  <2>1. CASE db[k] = Absent
    BY <1>2, <2>1, AnswersKeep DEF LPop, RPop, Answers
  <2>2. CASE db[k] # Absent
    <3>1. /\ Tail(l) \in Seq(JsonTexts) /\ Len(Tail(l)) <= MaxLen
          /\ Front(l) \in Seq(JsonTexts) /\ Len(Front(l)) <= MaxLen
      BY <1>0, <1>l, <2>2, DataAssumption DEF Front
    <3> QED BY <1>2, <2>2, <3>1, ListWritten DEF LPop, RPop, l
  <2> QED BY <2>1, <2>2
<1>3. ASSUME LRange(k) \/ ListReads(k) \/ \E i \in 1..MaxLen : LIndex(k, i) PROVE DataInv'
  BY <1>3, AnswersKeep DEF LRange, ListReads, LIndex, Answers
<1>4. ASSUME NEW i \in 1..MaxLen, NEW v \in Inputs, LSet(k, i, v) PROVE DataInv'
  <2>1. CASE i \notin DOMAIN l
    BY <1>4, <2>1, AnswersKeep DEF LSet, Answers, l
  <2>2. CASE i \in DOMAIN l
    <3>1. /\ [l EXCEPT ![i] = Stringify(v)] \in Seq(JsonTexts)
          /\ Len([l EXCEPT ![i] = Stringify(v)]) = Len(l)
      BY <1>0, <2>2, Texting
    <3> QED BY <1>0, <1>4, <2>2, <3>1, ListWritten DEF LSet, l
  <2> QED BY <2>1, <2>2
<1>5. ASSUME NEW pivot \in Inputs, NEW v \in Inputs, NEW before \in BOOLEAN, LInsert(k, pivot, v, before)
      PROVE  DataInv'
  <2> DEFINE at == {i \in DOMAIN l : l[i] = Stringify(pivot)}
  <2>1. CASE at = {}
    BY <1>5, <2>1, AnswersKeep DEF LInsert, Answers, l
  <2>2. CASE at # {}
    <3> DEFINE p == CHOOSE i \in at : \A j \in at : i <= j
    <3>1. p \in at
      <4>1. at \in SUBSET Nat
        BY <1>0
      <4>2. \E i \in at : \A j \in at : i <= j
        BY <2>2, <4>1, LeastOne
      <4> QED BY <4>2
    <3> DEFINE q == IF before THEN p ELSE p + 1
    <3>2. /\ Len(l) < MaxLen
          /\ Writes(k, "list", InsertAt(l, q, Stringify(v)), Wrote(v))
      BY <1>5, <2>2 DEF LInsert, l
    <3>3. q \in 1..(Len(l) + 1)
      BY <1>0, <3>1
    <3> HIDE DEF q
    <3>4. /\ SubSeq(l, 1, q - 1) \in Seq(JsonTexts) /\ Len(SubSeq(l, 1, q - 1)) = q - 1
          /\ SubSeq(l, q, Len(l)) \in Seq(JsonTexts) /\ Len(SubSeq(l, q, Len(l))) = Len(l) + 1 - q
      BY <1>0, <3>3
    <3>5. /\ InsertAt(l, q, Stringify(v)) \in Seq(JsonTexts)
          /\ Len(InsertAt(l, q, Stringify(v))) = Len(l) + 1
      <4> DEFINE a == SubSeq(l, 1, q - 1)
                 z == SubSeq(l, q, Len(l))
      <4>1. /\ a \in Seq(JsonTexts) /\ Len(a) = q - 1
            /\ z \in Seq(JsonTexts) /\ Len(z) = Len(l) + 1 - q
        BY <3>4
      <4>2. InsertAt(l, q, Stringify(v)) = a \o <<Stringify(v)>> \o z
        BY DEF InsertAt
      <4> HIDE DEF a, z
      <4>3. Stringify(v) \in JsonTexts
        BY Texting
      <4>4. a \o <<Stringify(v)>> \in Seq(JsonTexts) /\ Len(a \o <<Stringify(v)>>) = q
        BY <3>3, <4>1, <4>3
      <4> DEFINE b == a \o <<Stringify(v)>>
      <4>5. b \in Seq(JsonTexts) /\ Len(b) = q
        BY <4>4
      <4> HIDE DEF b
      <4>6. b \o z \in Seq(JsonTexts) /\ Len(b \o z) = q + (Len(l) + 1 - q)
        BY <4>1, <4>5
      <4> QED BY <1>0, <3>3, <4>2, <4>6 DEF b
    <3> QED BY <1>0, <3>2, <3>5, ListWritten, DataAssumption
  <2> QED BY <2>1, <2>2
<1>6. ASSUME NEW v \in Inputs, NEW count \in {-1, 0, 1}, LRem(k, count, v) PROVE DataInv'
  <2>1. PICK gone : Writes(k, "list", RemoveEach(l, gone), Done)
    BY <1>6 DEF LRem, l
  <2>2. RemoveEach(l, gone) \in Seq(JsonTexts) /\ Len(RemoveEach(l, gone)) <= Len(l)
    BY <1>0, PickedTyped DEF RemoveEach
  <2> QED BY <1>0, <2>1, <2>2, ListWritten, DataAssumption
<1>7. ASSUME NEW from \in 1..MaxLen, NEW to \in 1..MaxLen, LTrim(k, from, to) PROVE DataInv'
  <2>1. PICK gone : Writes(k, "list", RemoveEach(l, gone), Done)
    BY <1>7 DEF LTrim, l
  <2>2. RemoveEach(l, gone) \in Seq(JsonTexts) /\ Len(RemoveEach(l, gone)) <= Len(l)
    BY <1>0, PickedTyped DEF RemoveEach
  <2> QED BY <1>0, <2>1, <2>2, ListWritten, DataAssumption
<1>8. ASSUME NEW d \in Keys, RPopLPush(k, d) PROVE DataInv'
  <2>1. CASE db[k] = Absent \/ ~IsOf(d, "list")
    BY <1>8, <2>1, AnswersKeep DEF RPopLPush, Answers
  <2>2. CASE db[k] # Absent /\ IsOf(d, "list")
    <3> DEFINE t == Last(l)
               left == IF k = d THEN <<>> ELSE Front(l)
               new == IF k = d THEN <<t>> \o Front(l) ELSE <<t>> \o List(d)
               v == IF left = <<>> THEN Absent ELSE <<"list", left>>
    <3>1. /\ Len(new) <= MaxLen
          /\ db' = [db EXCEPT ![k] = v, ![d] = <<"list", new>>]
          /\ volatile' = volatile \ {x \in {k} : db'[x] = Absent}
      BY <1>8, <2>2 DEF RPopLPush, l
    <3>2. Front(l) \in Seq(JsonTexts) /\ Len(Front(l)) <= MaxLen /\ t \in JsonTexts
      BY <1>0, <1>l, <2>2, DataAssumption DEF Front, Last
    <3>3. left \in Seq(JsonTexts) /\ Len(left) <= MaxLen
      BY <3>2, DataAssumption
    <3>4. KeyType(v)
      <4> HIDE DEF left
      <4>1. CASE left = <<>>
        BY <4>1 DEF KeyType
      <4>2. CASE left # <<>>
        BY <3>3, <4>2, ListTyped DEF Emptied
      <4> QED BY <4>1, <4>2
    <3>5. new \in Seq(JsonTexts) /\ new # <<>>
      <4>1. List(d) \in Seq(JsonTexts)
        BY <2>2, ListSeen DEF DataInv
      <4> HIDE DEF t
      <4>2. \A s \in Seq(JsonTexts) : <<t>> \o s \in Seq(JsonTexts) /\ <<t>> \o s # <<>>
        BY <3>2
      <4> QED BY <3>2, <4>1, <4>2
    <3> HIDE DEF new, v, left, t
    <3>6. KeyType(<<"list", new>>) /\ <<"list", new>> # Absent
      BY <3>1, <3>5, ListTyped DEF Emptied, Absent
    <3> QED BY <3>1, <3>4, <3>6, KeysWritten
  <2> QED BY <2>1, <2>2
<1> QED BY <1>1, <1>2, <1>3, <1>4, <1>5, <1>6, <1>7, <1>8 DEF Lists

LEMMA HashWritten ==
    ASSUME DataInv, NEW k \in Keys, NEW F \in SUBSET Fields, NEW h \in [F -> JsonTexts],
           NEW a, Writes(k, "hash", h, a)
    PROVE  DataInv'
BY HashTyped, WritesKeep

LEMMA HashesKeep ==
    ASSUME DataInv, NEW k \in Keys, IsOf(k, "hash"), Hashes(k)
    PROVE  DataInv'
<1> DEFINE h == Hash(k)
<1>0. DOMAIN h \in SUBSET Fields /\ h \in [DOMAIN h -> JsonTexts]
  BY HashSeen DEF DataInv
<1> HIDE DEF h
<1>w. ASSUME NEW f \in Fields, NEW t \in JsonTexts, NEW a, Writes(k, "hash", With(h, f, t), a)
      PROVE  DataInv'
  <2>1. With(h, f, t) \in [DOMAIN h \cup {f} -> JsonTexts] /\ DOMAIN h \cup {f} \in SUBSET Fields
    BY <1>0 DEF With
  <2> QED BY <1>w, <2>1, HashWritten
<1>1. CASE HGetAll(k) \/ HashReads(k) \/ \E f \in Fields : HGet(k, f)
  BY <1>1, AnswersKeep DEF HGetAll, HashReads, HGet, Answers
<1>2. ASSUME NEW f \in Fields, HDel(k, f) PROVE DataInv'
  <2>1. /\ Restrict(h, DOMAIN h \ {f}) \in [DOMAIN h \ {f} -> JsonTexts]
        /\ DOMAIN h \ {f} \in SUBSET Fields
    BY <1>0 DEF Restrict
  <2> QED BY <1>2, <2>1, HashWritten DEF HDel, h
<1>3. ASSUME NEW f \in Fields, NEW v \in Inputs, HSet(k, f, v) \/ HSetNX(k, f, v) PROVE DataInv'
  <2>1. CASE HSet(k, f, v)
    BY <1>w, <2>1, Texting DEF HSet, h
  <2>2. CASE HSetNX(k, f, v)
    BY <1>w, <2>1, <2>2, Texting, AnswersKeep DEF HSetNX, HSet, Answers, h
  <2> QED BY <1>3, <2>1, <2>2
<1>4. ASSUME NEW f \in Fields, NEW by \in {1, -1}, HIncrBy(k, f, by) PROVE DataInv'
  <2> DEFINE t == IF f \in DOMAIN h THEN h[f] ELSE Stringify(Num(0))
  <2>1. CASE ~IsNumber(t)
    BY <1>4, <2>1, AnswersKeep DEF HIncrBy, Answers, h
  <2>2. CASE IsNumber(t)
    <3>1. InRange(t, by) /\ Writes(k, "hash", With(h, f, Counted(t, by)), Done)
      BY <1>4, <2>2 DEF HIncrBy, h
    <3>2. Counted(t, by) \in JsonTexts
      BY <3>1, Texting DEF InRange, Counted
    <3> QED BY <1>w, <3>1, <3>2
  <2> QED BY <2>1, <2>2
<1> QED BY <1>1, <1>2, <1>3, <1>4 DEF Hashes

-----------------------------------------------------------------------------
(* Sets, sorted sets, HyperLogLogs, bitmaps                                *)

LEMMA SetWritten ==
    ASSUME DataInv, NEW k \in Keys, NEW ms \in SUBSET Members, NEW a, Writes(k, "set", ms, a)
    PROVE  DataInv'
BY SetTyped, WritesKeep

LEMMA StoredAt ==
    ASSUME DataInv, NEW d \in Keys, NEW type, NEW content, StoresAt(d, type, content),
           Emptied(type, content) \/ KeyType(<<type, content>>)
    PROVE  DataInv'
<1> DEFINE v == IF Emptied(type, content) THEN Absent ELSE <<type, content>>
<1>1. KeyType(v)
  BY DEF KeyType
<1>2. Replaces(d, v, FALSE, Done)
  BY DEF StoresAt
<1> HIDE DEF v
<1> QED BY <1>1, <1>2, ReplacesKeep

LEMMA SetsKeep ==
    ASSUME DataInv, NEW k \in Keys, IsOf(k, "set"), Sets(k)
    PROVE  DataInv'
<1>0. \A j \in Keys : IsOf(j, "set") => SetOf(j) \in SUBSET Members
  BY SetSeen DEF DataInv
<1>1. CASE SetReads(k)
  BY <1>1, AnswersKeep DEF SetReads, Answers
<1>2. ASSUME NEW ms \in SUBSET Members, SAdd(k, ms) PROVE DataInv'
  <2>1. SetOf(k) \cup ms \in SUBSET Members
    BY <1>0
  <2> QED BY <1>2, <2>1, SetWritten DEF SAdd
<1>3. ASSUME NEW ms, SRem(k, ms) PROVE DataInv'
  <2>1. SetOf(k) \ ms \in SUBSET Members
    BY <1>0
  <2> QED BY <1>3, <2>1, SetWritten DEF SRem
<1>4. ASSUME NEW d \in Keys, NEW m \in Members, SMove(k, d, m) PROVE DataInv'
  <2>1. CASE ~IsOf(d, "set") \/ ~(m \in SetOf(k) /\ k # d)
    BY <1>4, <2>1, AnswersKeep DEF SMove, Answers
  <2>2. CASE IsOf(d, "set") /\ m \in SetOf(k) /\ k # d
    <3> DEFINE left == SetOf(k) \ {m}
               new == SetOf(d) \cup {m}
               v == IF left = {} THEN Absent ELSE <<"set", left>>
    <3>1. /\ db' = [db EXCEPT ![k] = v, ![d] = <<"set", new>>]
          /\ volatile' = IF left = {} THEN volatile \ {k} ELSE volatile
      BY <1>4, <2>2 DEF SMove
    <3>2. left \in SUBSET Members /\ new \in SUBSET Members /\ new # {}
      BY <1>0, <2>2
    <3> HIDE DEF left, new
    <3>3. KeyType(v)
      BY <3>2, SetTyped DEF Emptied, KeyType
    <3>4. KeyType(<<"set", new>>) /\ <<"set", new>> # Absent
      BY <3>2, SetTyped DEF Emptied, Absent
    <3>5. db'[k] = v /\ (v = Absent <=> left = {})
      BY <2>2, <3>1 DEF DataInv, Absent
    <3>6. volatile' = volatile \ {x \in {k} : db'[x] = Absent}
      BY <3>1, <3>5
    <3> HIDE DEF v
    <3> QED BY <3>1, <3>3, <3>4, <3>6, KeysWritten
  <2> QED BY <2>1, <2>2
<1>5. ASSUME NEW d \in Keys, NEW k1 \in Keys, NEW k2 \in Keys, SStore(d, k1, k2) PROVE DataInv'
  <2>1. CASE ~(IsOf(k1, "set") /\ IsOf(k2, "set"))
    BY <1>5, <2>1, AnswersKeep DEF SStore, Answers
  <2>2. CASE IsOf(k1, "set") /\ IsOf(k2, "set")
    <3>1. PICK ms \in SUBSET Members : StoresAt(d, "set", ms)
      BY <1>0, <1>5, <2>2 DEF SStore
    <3> QED BY <3>1, SetTyped, StoredAt
  <2> QED BY <2>1, <2>2
<1> QED BY <1>1, <1>2, <1>3, <1>4, <1>5 DEF Sets, SPop

LEMMA ScoresWritten ==
    ASSUME DataInv, NEW k \in Keys, NEW M \in SUBSET Members, NEW z \in [M -> 0..MaxNumber],
           NEW a, Writes(k, "zset", z, a)
    PROVE  DataInv'
BY ScoresTyped, WritesKeep

LEMMA SortedSetsKeep ==
    ASSUME DataInv, NEW k \in Keys, IsOf(k, "zset"), SortedSets(k) \/ Geo(k)
    PROVE  DataInv'
<1> DEFINE z == Scored(k)
<1>0. DOMAIN z \in SUBSET Members /\ z \in [DOMAIN z -> 0..MaxNumber]
  BY ScoresSeen DEF DataInv
<1>w. ASSUME NEW m \in Members, NEW n \in 0..MaxNumber, Writes(k, "zset", With(Scored(k), m, n), Done)
      PROVE  DataInv'
  <2> HIDE DEF z
  <2>1. With(z, m, n) \in [DOMAIN z \cup {m} -> 0..MaxNumber] /\ DOMAIN z \cup {m} \in SUBSET Members
    BY <1>0 DEF With
  <2>2. Writes(k, "zset", With(z, m, n), Done)
    BY <1>w DEF z
  <2> QED BY <2>1, <2>2, ScoresWritten
<1>g. ASSUME NEW gone, Without(k, gone) PROVE DataInv'
  <2>1. Writes(k, "zset", Restrict(z, DOMAIN z \ gone), Done)
    BY <1>g DEF Without
  <2> HIDE DEF z
  <2>2. /\ Restrict(z, DOMAIN z \ gone) \in [DOMAIN z \ gone -> 0..MaxNumber]
        /\ DOMAIN z \ gone \in SUBSET Members
    BY <1>0 DEF Restrict
  <2> QED BY <2>1, <2>2, ScoresWritten
<1>1. CASE SortedReads(k)
  BY <1>1, AnswersKeep DEF SortedReads, Answers
<1>2. ASSUME NEW m \in Members, ZRem(k, m) PROVE DataInv'
  BY <1>2, <1>g DEF ZRem
<1>3. ASSUME NEW m \in Members, NEW n \in 0..MaxNumber, ZAdd(k, n, m) PROVE DataInv'
  BY <1>3, <1>w DEF ZAdd
<1>4. ASSUME NEW m \in Members, NEW by \in {1, -1}, ZIncrBy(k, by, m) PROVE DataInv'
  BY <1>4, <1>w DEF ZIncrBy
<1>5. ASSUME NEW from \in 0..MaxNumber, NEW to \in 0..MaxNumber,
             ZRemRangeByRank(k, from, to) \/ ZRemRangeByScore(k, from, to)
      PROVE  DataInv'
  <2>1. CASE ZRemRangeByRank(k, from, to)
    BY <1>g, <2>1 DEF ZRemRangeByRank
  <2>2. CASE ZRemRangeByScore(k, from, to)
    BY <1>g, <2>2 DEF ZRemRangeByScore
  <2> QED BY <1>5, <2>1, <2>2
<1>6. ASSUME NEW d \in Keys, ZStore(d, k, d) PROVE DataInv'
  <2>1. CASE ~IsOf(d, "zset")
    BY <1>6, <2>1, AnswersKeep DEF ZStore, Answers
  <2>2. CASE IsOf(d, "zset")
    <3> DEFINE y == Scored(d)
               Score(x, m) == IF m \in DOMAIN x THEN x[m] ELSE 0
    <3>1. DOMAIN y \in SUBSET Members /\ y \in [DOMAIN y -> 0..MaxNumber]
      BY <2>2, ScoresSeen DEF DataInv
    <3>2. PICK ms \in {DOMAIN z \cup DOMAIN y, DOMAIN z \cap DOMAIN y} :
             /\ \A m \in ms : [n \in ms |-> Score(z, n) + Score(y, n)][m] <= MaxNumber
             /\ StoresAt(d, "zset", [m \in ms |-> Score(z, m) + Score(y, m)])
      BY <1>6, <2>2 DEF ZStore
    <3> HIDE DEF z, y
    <3>3. ms \in SUBSET Members /\ \A m \in ms : Score(z, m) \in Nat /\ Score(y, m) \in Nat
      BY <1>0, <3>1
    <3>4. \A m \in ms : Score(z, m) + Score(y, m) \in 0..MaxNumber
      BY <3>2, <3>3, DataAssumption
    <3>5. [m \in ms |-> Score(z, m) + Score(y, m)] \in [ms -> 0..MaxNumber]
      BY <3>4
    <3> QED BY <3>2, <3>3, <3>5, ScoresTyped, StoredAt
  <2> QED BY <2>1, <2>2
<1> QED BY <1>1, <1>2, <1>3, <1>4, <1>5, <1>6 DEF SortedSets, Geo, GeoReads, GeoAdd

\* The content of a HyperLogLog or a bitmap.
LEMMA EncodedSeen ==
    ASSUME NEW k, KeyType(db[k]), db[k] # Absent, db[k][1] = "string", db[k][2][1] \in {"hll", "bits"}
    PROVE  db[k][2][2] \in SUBSET Members
<1>1. db[k][2] \in KnownTexts \cup Encoded
  BY StringSeen DEF IsOf
<1>2. \A t \in KnownTexts : t[1] \notin {"hll", "bits"}
  BY DEF KnownTexts, JsonTexts, Bare, Stringify
<1>3. db[k][2] \in Encoded
  BY <1>1, <1>2
<1> QED BY <1>3 DEF Encoded

LEMMA EncodedTyped ==
    ASSUME NEW S \in SUBSET Members, NEW kind \in {"bits", "hll"}
    PROVE  KeyType(<<"string", <<kind, S>>>>)
BY StringTyped DEF Encoded

LEMMA SketchesKeep ==
    ASSUME DataInv, NEW k \in Keys, HyperLogLogs(k)
    PROVE  DataInv'
<1>0. \A j \in Keys : IsSketch(j) => Sketch(j) \in SUBSET Members
  <2>1. ASSUME NEW j \in Keys, IsSketch(j), db[j] # Absent PROVE Sketch(j) \in SUBSET Members
    BY <2>1, EncodedSeen DEF IsSketch, Sketch, DataInv
  <2> QED BY <2>1 DEF Sketch
<1>a. ASSUME NEW d \in Keys, NEW ms \in SUBSET Members, IsSketch(d), PfAdd(d, ms) PROVE DataInv'
  <2>1. Sketch(d) \cup ms \in SUBSET Members
    BY <1>0, <1>a
  <2>2. KeyType(<<"string", <<"hll", Sketch(d) \cup ms>>>>)
    BY <2>1, EncodedTyped
  <2> QED BY <1>a, <2>2, WritesKeep DEF PfAdd
<1>1. CASE PfClear(k)
  BY <1>1, ReplacesKeep DEF PfClear, Del, KeyType
<1>2. CASE Refused \/ PfReads(k)
  BY <1>2, AnswersKeep DEF Refused, PfReads, Answers
<1>3. ASSUME NEW d \in Keys, IsSketch(k), PfMerge(d, k) PROVE DataInv'
  BY <1>0, <1>3, <1>a, AnswersKeep DEF PfMerge, Answers
<1> QED BY <1>1, <1>2, <1>3, <1>a DEF HyperLogLogs

LEMMA BitmapsKeep ==
    ASSUME DataInv, NEW k \in Keys, Bitmaps(k)
    PROVE  DataInv'
<1>0. \A j \in Keys : IsBitmap(j) => Bits(j) \in SUBSET Members
  <2>1. ASSUME NEW j \in Keys, IsBitmap(j), db[j] # Absent PROVE Bits(j) \in SUBSET Members
    BY <2>1, EncodedSeen DEF IsBitmap, Bits, DataInv
  <2> QED BY <2>1 DEF Bits
<1>1. CASE Refused \/ BitReads(k)
  BY <1>1, AnswersKeep DEF Refused, BitReads, Answers
<1>2. ASSUME NEW offset \in Members, NEW bit \in BOOLEAN, SetBit(k, offset, bit) PROVE DataInv'
  <2>1. CASE IsBitmap(k)
    <3> DEFINE S == IF bit THEN Bits(k) \cup {offset} ELSE Bits(k) \ {offset}
    <3>1. S \in SUBSET Members
      BY <1>0, <2>1
    <3>2. Writes(k, "string", <<"bits", S>>, Done)
      BY <1>2, <2>1 DEF SetBit
    <3> HIDE DEF S
    <3> QED BY <3>1, <3>2, EncodedTyped, WritesKeep
  <2>2. CASE ~IsBitmap(k)
    <3>1. PICK t \in {Bare, Stringify(Num(0)), Stringify(Word)} : Writes(k, "string", t, Done)
      BY <1>2, <2>2 DEF SetBit
    <3>2. t \in KnownTexts
      BY Texting DEF Inputs
    <3> QED BY <3>1, <3>2, StringTyped, WritesKeep
  <2> QED BY <2>1, <2>2
<1>3. ASSUME NEW d \in Keys, NEW k1 \in Keys, NEW k2 \in Keys, BitOp(d, k1, k2) PROVE DataInv'
  <2>1. Bits(k1) \in SUBSET Members /\ Bits(k2) \in SUBSET Members
    BY <1>0, <1>3 DEF BitOp
  <2>2. PICK S \in SUBSET Members :
           Replaces(d, IF db[k1] = Absent /\ db[k2] = Absent THEN Absent ELSE <<"string", <<"bits", S>>>>,
                    FALSE, Done)
    BY <1>3, <2>1 DEF BitOp
  <2> DEFINE v == IF db[k1] = Absent /\ db[k2] = Absent THEN Absent ELSE <<"string", <<"bits", S>>>>
  <2>3. KeyType(v)
    BY EncodedTyped DEF KeyType
  <2> HIDE DEF v
  <2> QED BY <2>2, <2>3, ReplacesKeep DEF v
<1> QED BY <1>1, <1>2, <1>3 DEF Bitmaps

-----------------------------------------------------------------------------
(* Streams                                                                 *)

LEMMA StreamWritten ==
    ASSUME DataInv, NEW k \in Keys, NEW s \in ContentOf("stream"), NEW a, Writes(k, "stream", s, a)
    PROVE  DataInv'
BY StreamTyped, WritesKeep

LEMMA StreamFacts ==
    ASSUME NEW s
    PROVE  s \in ContentOf("stream") <=>
              /\ s = [entries |-> s.entries, next |-> s.next, pending |-> s.pending]
              /\ s.entries \in Seq(KnownTexts) /\ Len(s.entries) <= MaxEntries
              /\ s.next \in {NoGroup} \cup Nat /\ s.next <= Len(s.entries)
              /\ s.pending \subseteq Nat /\ s.pending \subseteq 1..s.next
BY DEF ContentOf

LEMMA StreamsKeep ==
    ASSUME DataInv, NEW k \in Keys, IsOf(k, "stream"), Streams(k)
    PROVE  DataInv'
<1> DEFINE s == Stream(k)
<1>0. s \in ContentOf("stream")
  BY StreamSeen DEF DataInv
<1> HIDE DEF s
<1>f. /\ s = [entries |-> s.entries, next |-> s.next, pending |-> s.pending]
      /\ s.entries \in Seq(KnownTexts) /\ Len(s.entries) <= MaxEntries
      /\ s.next \in {NoGroup} \cup Nat /\ s.next <= Len(s.entries)
      /\ s.pending \subseteq Nat /\ s.pending \subseteq 1..s.next
  BY <1>0, StreamFacts
<1>n. Len(s.entries) \in Nat /\ s.next \in Int
  BY <1>f DEF NoGroup
<1>w. ASSUME NEW e \in Seq(KnownTexts), Len(e) <= MaxEntries,
             NEW n \in {NoGroup} \cup Nat, n <= Len(e),
             NEW p \in SUBSET Nat, p \subseteq 1..n,
             NEW a, Writes(k, "stream", [entries |-> e, next |-> n, pending |-> p], a)
      PROVE  DataInv'
  <2> DEFINE u == [entries |-> e, next |-> n, pending |-> p]
  <2>1. u.entries = e /\ u.next = n /\ u.pending = p
    OBVIOUS
  <2>2. u \in ContentOf("stream")
    BY <1>w, <2>1, StreamFacts
  <2> QED BY <1>w, <2>2, StreamWritten
<1>1. CASE XLen(k) \/ \E after \in 0..MaxEntries : XRead(k, after)
  BY <1>1, AnswersKeep DEF XLen, XRead, Answers
<1>2. ASSUME NEW v \in Inputs, XAdd(k, v) PROVE DataInv'
  <2> DEFINE e == Append(s.entries, StringifyUnlessString(v))
  <2>1. e \in Seq(KnownTexts) /\ Len(e) = Len(s.entries) + 1
    <3>1. StringifyUnlessString(v) \in KnownTexts
      BY Texting
    <3> QED BY <1>f, <3>1
  <2>2. Len(s.entries) < MaxEntries /\ Writes(k, "stream", [s EXCEPT !.entries = e], WroteText(v))
    BY <1>2 DEF XAdd, Entries, s
  <2>3. [s EXCEPT !.entries = e] = [entries |-> e, next |-> s.next, pending |-> s.pending]
    <3> HIDE DEF e
    <3>1. s = [entries |-> s.entries, next |-> s.next, pending |-> s.pending]
      BY <1>f
    <3> QED BY <3>1
  <2>4. Len(e) <= MaxEntries /\ s.next <= Len(e)
    BY <1>f, <1>n, <2>1, <2>2, DataAssumption
  <2> HIDE DEF e
  <2> QED BY <1>f, <1>w, <2>1, <2>2, <2>3, <2>4
<1>3. ASSUME NEW makeStream \in BOOLEAN, NEW fromStart \in BOOLEAN, XGroupCreate(k, makeStream, fromStart)
      PROVE  DataInv'
  <2>1. CASE ~(s.next = NoGroup /\ (makeStream \/ db[k] # Absent))
    BY <1>3, <2>1, AnswersKeep DEF XGroupCreate, Answers, s
  <2>2. CASE s.next = NoGroup /\ (makeStream \/ db[k] # Absent)
    <3> DEFINE n == IF fromStart THEN 0 ELSE Len(s.entries)
    <3>1. Writes(k, "stream", [s EXCEPT !.next = n], Done)
      BY <1>3, <2>2 DEF XGroupCreate, Entries, s
    <3>2. n \in Nat /\ n <= Len(s.entries)
      BY <1>n
    <3>3. s.pending \subseteq 1..n
      BY <1>f, <2>2 DEF NoGroup
    <3>4. [s EXCEPT !.next = n] = [entries |-> s.entries, next |-> n, pending |-> s.pending]
      BY <1>f
    <3> HIDE DEF n
    <3> QED BY <1>f, <1>w, <3>1, <3>2, <3>3, <3>4
  <2> QED BY <2>1, <2>2
<1>4. ASSUME NEW count \in 1..MaxEntries, XReadGroup(k, count) PROVE DataInv'
  <2> DEFINE last == IF s.next + count < Len(s.entries) THEN s.next + count ELSE Len(s.entries)
             p == s.pending \cup ((s.next + 1)..last)
  <2>1. \/ UNCHANGED <<db, volatile>>
        \/ /\ s.next # NoGroup /\ last > s.next
           /\ \E a : Writes(k, "stream", [s EXCEPT !.next = last, !.pending = p], a)
    BY <1>4 DEF XReadGroup, Entries, Answers, s
  <2>2. CASE UNCHANGED <<db, volatile>>
    BY <2>2, AnswersKeep
  <2>3. CASE s.next # NoGroup /\ last > s.next
             /\ \E a : Writes(k, "stream", [s EXCEPT !.next = last, !.pending = p], a)
    <3>1. s.next \in Nat /\ last \in Nat /\ last <= Len(s.entries)
      BY <1>f, <1>n, <2>3
    <3> HIDE DEF last
    <3>2. p \in SUBSET Nat /\ p \subseteq 1..last
      BY <1>f, <2>3, <3>1
    <3> HIDE DEF p
    <3>3. [s EXCEPT !.next = last, !.pending = p]
             = [entries |-> s.entries, next |-> last, pending |-> p]
      <4> DEFINE r == [s EXCEPT !.next = last]
      <4>1. r = [entries |-> s.entries, next |-> last, pending |-> s.pending]
        BY <1>f
      <4> HIDE DEF r
      <4>2. [r EXCEPT !.pending = p] = [entries |-> s.entries, next |-> last, pending |-> p]
        BY <4>1
      <4> QED BY <4>2 DEF r
    <3> QED BY <1>f, <1>w, <2>3, <3>1, <3>2, <3>3
  <2> QED BY <2>1, <2>2, <2>3
<1>5. ASSUME NEW ids \in SUBSET (1..MaxEntries), XAck(k, ids) PROVE DataInv'
  <2>1. CASE db[k] = Absent
    BY <1>5, <2>1, AnswersKeep DEF XAck, Answers
  <2>2. CASE db[k] # Absent
    <3> DEFINE p == s.pending \ ids
    <3>1. Writes(k, "stream", [s EXCEPT !.pending = p], Done)
      BY <1>5, <2>2 DEF XAck, s
    <3>3. p \in SUBSET Nat /\ p \subseteq 1..s.next
      BY <1>f
    <3> HIDE DEF p
    <3>2. [s EXCEPT !.pending = p]
             = [entries |-> s.entries, next |-> s.next, pending |-> p]
      BY <1>f
    <3> QED BY <1>f, <1>w, <3>1, <3>2, <3>3
  <2> QED BY <2>1, <2>2
<1> QED BY <1>1, <1>2, <1>3, <1>4, <1>5 DEF Streams

LEMMA DataNext == DataInv /\ [NextData]_dataVars => DataInv'
<1> SUFFICES ASSUME DataInv, [NextData]_dataVars PROVE DataInv'
  OBVIOUS
<1>1. CASE UNCHANGED dataVars \/ Refused
  BY <1>1, AnswersKeep DEF dataVars, Refused, Answers
<1>2. ASSUME NEW k \in Keys,
             \/ KeyValue(k) \/ Strings(k) \/ Counters(k) \/ Utilities(k) \/ TimesOut(k)
             \/ HyperLogLogs(k) \/ Bitmaps(k)
      PROVE  DataInv'
  BY <1>2, KeyValueKeeps, StringsKeep, UtilitiesKeep, SketchesKeep, BitmapsKeep
<1>3. ASSUME NEW k \in Keys, Hashes(k) \/ Sets(k) \/ SortedSets(k) \/ Lists(k) \/ Geo(k) \/ Streams(k)
      PROVE  DataInv'
  <2>1. CASE Hashes(k)
    BY <1>1, <2>1, HashesKeep DEF Hashes
  <2>2. CASE Sets(k)
    BY <1>1, <2>2, SetsKeep DEF Sets
  <2>3. CASE SortedSets(k)
    BY <1>1, <2>3, SortedSetsKeep DEF SortedSets
  <2>4. CASE Lists(k)
    BY <1>1, <2>4, ListsKeep DEF Lists
  <2>5. CASE Geo(k)
    BY <1>1, <2>5, SortedSetsKeep DEF Geo
  <2>6. CASE Streams(k)
    BY <1>1, <2>6, StreamsKeep DEF Streams
  <2> QED BY <1>3, <2>1, <2>2, <2>3, <2>4, <2>5, <2>6
<1> QED BY <1>1, <1>2, <1>3 DEF NextData

-----------------------------------------------------------------------------
(* What the other parts keep has its type                                  *)

UpTo(v, n) == v \in Nat /\ v <= n

\* A copy, and a value on its way to become one, is a version that the source has had.
VersionInv ==
    /\ \A k \in AsideKeys : source[k] <= MaxVersion /\ (cache[k] = Nothing \/ UpTo(cache[k], source[k]))
    /\ \A c \in AsideCallers : asideCall[c].at \in {"fill", "drop", "drop again", "replace"}
                                  => UpTo(asideCall[c].val, source[asideCall[c].key])

LEMMA VersionInit == InitAside => VersionInv
<1> SUFFICES ASSUME InitAside PROVE VersionInv
  OBVIOUS
<1>1. \A k \in AsideKeys : source[k] = 0 /\ cache[k] = Nothing
  BY DEF InitAside
<1>2. \A c \in AsideCallers : asideCall[c].at = "rest"
  BY DEF InitAside, Resting
<1>3. \A k \in AsideKeys : source[k] <= MaxVersion
  BY <1>1, AsideAssumption
<1> QED BY <1>1, <1>2, <1>3 DEF VersionInv

\* A step of a caller that leaves the source alone.
LEMMA CallerKeepsVersions ==
    ASSUME AsideType, VersionInv, NEW c \in AsideCallers, source' = source,
           \A k \in AsideKeys : cache'[k] \in {Nothing, cache[k]} \/ UpTo(cache'[k], source[k]),
           \A d \in AsideCallers \ {c} : /\ asideCall'[d].at = asideCall[d].at
                                         /\ asideCall'[d].key = asideCall[d].key
                                         /\ asideCall'[d].val = asideCall[d].val,
           asideCall'[c].at \in {"fill", "drop", "drop again", "replace"}
              => UpTo(asideCall'[c].val, source[asideCall'[c].key])
    PROVE  VersionInv'
<1>1. \A k \in AsideKeys : source'[k] <= MaxVersion /\ (cache'[k] = Nothing \/ UpTo(cache'[k], source'[k]))
  BY DEF VersionInv
<1>2. ASSUME NEW d \in AsideCallers, asideCall'[d].at \in {"fill", "drop", "drop again", "replace"}
      PROVE  UpTo(asideCall'[d].val, source'[asideCall'[d].key])
  <2>1. CASE d = c
    BY <1>2, <2>1
  <2>2. CASE d # c
    BY <1>2, <2>2 DEF VersionInv
  <2> QED BY <2>1, <2>2
<1> QED BY <1>1, <1>2 DEF VersionInv

LEMMA VersionNext == AsideInv /\ VersionInv /\ [NextAside]_asideVars => VersionInv'
<1> SUFFICES ASSUME AsideInv, VersionInv, [NextAside]_asideVars PROVE VersionInv'
  OBVIOUS
<1> USE DEF asideVars
<1>0. AsideType /\ \A c \in AsideCallers : asideCall[c] \in AsideCallType
  BY DEF AsideInv, AsideType
<1>1. CASE UNCHANGED asideVars
  BY <1>1 DEF VersionInv
\* One caller's record changes.
<1>a. ASSUME NEW c \in AsideCallers, NEW r, asideCall' = [asideCall EXCEPT ![c] = r]
      PROVE  asideCall'[c] = r /\ \A d \in AsideCallers \ {c} : asideCall'[d] = asideCall[d]
  BY <1>0, <1>a DEF AsideType
<1>2. ASSUME NEW c \in AsideCallers, NEW r, asideCall' = [asideCall EXCEPT ![c] = r],
             r.at \in {"fill", "drop", "drop again", "replace"} => UpTo(r.val, source[r.key]),
             source' = source, \A k \in AsideKeys : cache'[k] \in {Nothing, cache[k]}
      PROVE  VersionInv'
  <2>1. asideCall'[c] = r /\ \A d \in AsideCallers \ {c} : asideCall'[d] = asideCall[d]
    BY <1>0, <1>2 DEF AsideType
  <2>2. /\ asideCall'[c].at \in {"fill", "drop", "drop again", "replace"}
           => UpTo(asideCall'[c].val, source[asideCall'[c].key])
        /\ \A k \in AsideKeys : cache'[k] \in {Nothing, cache[k]} \/ UpTo(cache'[k], source[k])
        /\ \A d \in AsideCallers \ {c} : /\ asideCall'[d].at = asideCall[d].at
                                         /\ asideCall'[d].key = asideCall[d].key
                                         /\ asideCall'[d].val = asideCall[d].val
    BY <1>2, <2>1
  <2> QED BY <1>0, <1>2, <2>2, CallerKeepsVersions
<1>3. ASSUME NEW c \in AsideCallers, NEW k \in AsideKeys, GetOrSet(c, k) PROVE VersionInv'
  <2> DEFINE r == [Resting EXCEPT !.at = "look", !.key = k]
  <2>1. r.at = "look"
    BY DEF Resting
  <2>2. asideCall' = [asideCall EXCEPT ![c] = r] /\ UNCHANGED <<source, cache>>
    BY <1>3 DEF GetOrSet
  <2> HIDE DEF r
  <2> QED BY <1>2, <2>1, <2>2
<1>4. ASSUME NEW c \in AsideCallers, Look(c) PROVE VersionInv'
  <2> DEFINE r == IF cache[asideCall[c].key] = Nothing THEN [asideCall[c] EXCEPT !.at = "make"] ELSE Resting
  <2>1. r.at \in {"make", "rest"}
    BY <1>0 DEF AsideCallType, Resting
  <2>2. asideCall' = [asideCall EXCEPT ![c] = r] /\ UNCHANGED <<source, cache>>
    BY <1>4 DEF Look, Key, Proceeds, Ends
  <2> HIDE DEF r
  <2> QED BY <1>2, <2>1, <2>2
<1>5. ASSUME NEW c \in AsideCallers, Make(c) PROVE VersionInv'
  <2> DEFINE made == [asideCall[c] EXCEPT !.at = "fill", !.val = source[asideCall[c].key]]
  <2>1. /\ asideCall[c].at = "make" /\ UNCHANGED <<source, cache>>
        /\ \E r \in {made, Resting} : asideCall' = [asideCall EXCEPT ![c] = r]
    BY <1>5 DEF Make, At, Key, Ends
  <2>2. asideCall[c].key \in AsideKeys /\ source[asideCall[c].key] \in Nat
    BY <1>0, <2>1 DEF AsideType, SweepStages
  <2>3. made.key = asideCall[c].key /\ made.val = source[asideCall[c].key]
    BY <1>0 DEF AsideCallType
  <2>4. Resting.at = "rest"
    BY DEF Resting
  <2> HIDE DEF made
  <2>5. PICK r \in {made, Resting} : asideCall' = [asideCall EXCEPT ![c] = r]
    BY <2>1
  <2>6. r.at \in {"fill", "drop", "drop again", "replace"} => UpTo(r.val, source[r.key])
    <3>1. CASE r = made
      <4>1. UpTo(source[asideCall[c].key], source[asideCall[c].key])
        BY <2>2 DEF UpTo
      <4> QED BY <2>3, <3>1, <4>1
    <3>2. CASE r = Resting
      BY <2>4, <3>2
    <3> QED BY <2>5, <3>1, <3>2
  <2> QED BY <1>2, <2>1, <2>5, <2>6
<1>6. ASSUME NEW c \in AsideCallers, Fill(c) \/ Replace(c) PROVE VersionInv'
  <2> DEFINE k == asideCall[c].key
             v == asideCall[c].val
  <2>1. /\ asideCall[c].at \in {"fill", "replace"} /\ source' = source
        /\ cache' = [cache EXCEPT ![k] = v]
        /\ asideCall' = [d \in AsideCallers |->
                           IF d = c THEN Resting ELSE [asideCall[d] EXCEPT !.due = asideCall[d].due \ {k}]]
    BY <1>6 DEF Fill, Replace, Written, At, Key
  <2>2. UpTo(v, source[k])
    BY <2>1 DEF VersionInv
  <2>3. asideCall'[c].at = "rest"
    BY <2>1 DEF Resting
  <2>4. \A d \in AsideCallers \ {c} : /\ asideCall'[d].at = asideCall[d].at
                                      /\ asideCall'[d].key = asideCall[d].key
                                      /\ asideCall'[d].val = asideCall[d].val
    BY <1>0, <2>1 DEF AsideCallType
  <2>5. \A l \in AsideKeys : cache'[l] \in {Nothing, cache[l]} \/ UpTo(cache'[l], source[l])
    BY <1>0, <2>1, <2>2 DEF AsideType
  <2> QED BY <1>0, <2>1, <2>3, <2>4, <2>5, CallerKeepsVersions
<1>7. ASSUME NEW c \in AsideCallers, NEW k \in AsideKeys, NEW first, Change(c, k, first) PROVE VersionInv'
  <2> DEFINE r == [Resting EXCEPT !.at = first, !.key = k, !.val = source[k] + 1]
  <2>1. /\ source[k] < MaxVersion /\ source' = [source EXCEPT ![k] = source[k] + 1] /\ cache' = cache
        /\ asideCall' = [asideCall EXCEPT ![c] = [Resting EXCEPT !.at = first, !.key = k, !.val = source'[k]]]
    BY <1>7 DEF Change
  <2>2. /\ source'[k] = source[k] + 1 /\ source[k] \in Nat
        /\ \A l \in AsideKeys : source'[l] \in Nat /\ source[l] \in Nat /\ source[l] <= source'[l]
    BY <1>0, <2>1 DEF AsideType
  <2>8. \A l \in AsideKeys : source'[l] <= MaxVersion
    <3> SUFFICES ASSUME NEW l \in AsideKeys PROVE source'[l] <= MaxVersion
      OBVIOUS
    <3>1. source[l] <= MaxVersion /\ source'[l] \in {source[l], source[k] + 1}
      BY <1>0, <2>1 DEF AsideType, VersionInv
    <3> QED BY <2>1, <2>2, <3>1, AsideAssumption
  <2>3. r.key = k /\ r.val = source'[k]
    BY <2>2 DEF Resting
  <2>4. asideCall' = [asideCall EXCEPT ![c] = r]
    BY <2>1, <2>2
  <2> HIDE DEF r
  <2>5. asideCall'[c] = r /\ \A d \in AsideCallers \ {c} : asideCall'[d] = asideCall[d]
    BY <1>a, <2>4
  <2>6. \A l \in AsideKeys : (cache'[l] = Nothing \/ UpTo(cache'[l], source'[l]))
    <3> SUFFICES ASSUME NEW l \in AsideKeys PROVE (cache'[l] = Nothing \/ UpTo(cache'[l], source'[l]))
      OBVIOUS
    <3>1. (cache'[l] = Nothing \/ UpTo(cache'[l], source[l]))
      BY <2>1 DEF VersionInv
    <3> QED BY <2>2, <3>1 DEF UpTo
  <2>7. ASSUME NEW d \in AsideCallers, asideCall'[d].at \in {"fill", "drop", "drop again", "replace"}
        PROVE  UpTo(asideCall'[d].val, source'[asideCall'[d].key])
    <3>1. CASE d = c
      BY <2>2, <2>3, <2>5, <3>1 DEF UpTo
    <3>2. CASE d # c
      <4>1. asideCall'[d] = asideCall[d] /\ asideCall[d].key \in AsideKeys
        BY <1>0, <2>5, <2>7, <3>2 DEF AsideType, SweepStages
      <4>2. UpTo(asideCall[d].val, source[asideCall[d].key])
        BY <2>7, <4>1 DEF VersionInv
      <4> QED BY <2>2, <4>1, <4>2 DEF UpTo
    <3> QED BY <3>1, <3>2
  <2> QED BY <2>6, <2>7, <2>8 DEF VersionInv
<1>8. ASSUME NEW c \in AsideCallers, NEW first \in {"drop", "drop again", "evict", "evict again"}, NEW next,
             next \in {"replace", "drop again"} => first \in {"drop", "drop again"},
             next # "fill" /\ next # "drop",
             Drop(c, first, next) PROVE VersionInv'
  <2> DEFINE r == IF next = "rest" THEN Resting ELSE [asideCall[c] EXCEPT !.at = next]
  <2>1. /\ asideCall[c].at = first /\ source' = source
        /\ cache' = [cache EXCEPT ![asideCall[c].key] = Nothing]
        /\ asideCall' = [asideCall EXCEPT ![c] = r]
    BY <1>8 DEF Drop, At, Key, Ends, Proceeds
  <2>2. r.at \in {"fill", "drop", "drop again", "replace"} => UpTo(r.val, source[r.key])
    <3>1. CASE next = "rest"
      BY <3>1 DEF Resting
    <3>2. CASE next # "rest"
      <4>1. r.at = next /\ r.val = asideCall[c].val /\ r.key = asideCall[c].key
        BY <1>0, <3>2 DEF AsideCallType
      <4> HIDE DEF r
      <4> QED BY <1>8, <2>1, <4>1 DEF VersionInv
    <3> QED BY <3>1, <3>2
  <2> HIDE DEF r
  <2>3. \A k \in AsideKeys : cache'[k] \in {Nothing, cache[k]}
    BY <1>0, <2>1 DEF AsideType
  <2> QED BY <1>2, <2>1, <2>2, <2>3
<1>9. ASSUME NEW c \in AsideCallers, Update(c) \/ Delete(c) PROVE VersionInv'
  BY <1>6, <1>7, <1>8, <1>9 DEF Update, Delete
<1>10. ASSUME NEW c \in AsideCallers, Sweep(c) PROVE VersionInv'
  <2> DEFINE r == [Resting EXCEPT !.at = "scan", !.due = Cached]
  <2>1. r.at = "scan"
    BY DEF Resting
  <2>2. asideCall' = [asideCall EXCEPT ![c] = r] /\ UNCHANGED <<source, cache>>
    BY <1>10 DEF Sweep
  <2> HIDE DEF r
  <2> QED BY <1>2, <2>1, <2>2
<1>11. ASSUME NEW c \in AsideCallers, Scan(c) PROVE VersionInv'
  <2>1. PICK B \in SUBSET Cached, more \in BOOLEAN :
           /\ UNCHANGED <<source, cache>>
           /\ asideCall' = [asideCall EXCEPT ![c].at = "sweep", ![c].batch = B,
                                             ![c].seen = asideCall[c].seen \cup B, ![c].more = more]
    BY <1>11 DEF Scan
  <2> DEFINE r == [asideCall[c] EXCEPT !.at = "sweep", !.batch = B, !.seen = asideCall[c].seen \cup B,
                                       !.more = more]
  <2>2. asideCall' = [asideCall EXCEPT ![c] = r]
    BY <1>0, <2>1 DEF AsideType
  <2>3. r.at = "sweep"
    BY <1>0 DEF AsideCallType
  <2> HIDE DEF r
  <2> QED BY <1>2, <2>1, <2>2, <2>3
<1>12. ASSUME NEW c \in AsideCallers, SweepBatch(c) PROVE VersionInv'
  <2> DEFINE next == IF asideCall[c].more THEN "scan" ELSE "swept"
             r == [asideCall[c] EXCEPT !.at = next, !.batch = {}, !.more = FALSE]
  <2>1. /\ source' = source
        /\ cache' = [k \in AsideKeys |-> IF k \in asideCall[c].batch THEN Nothing ELSE cache[k]]
        /\ asideCall' = [asideCall EXCEPT ![c].at = next, ![c].batch = {}, ![c].more = FALSE]
    BY <1>12 DEF SweepBatch, Swept
  <2>2. asideCall' = [asideCall EXCEPT ![c] = r]
    BY <1>0, <2>1 DEF AsideType
  <2>3. r.at = next
    BY <1>0 DEF AsideCallType
  <2>4. \A k \in AsideKeys : cache'[k] \in {Nothing, cache[k]}
    BY <2>1
  <2> HIDE DEF r
  <2> QED BY <1>2, <2>1, <2>2, <2>3, <2>4
<1>13. ASSUME NEW c \in AsideCallers, SweepEnds(c) \/ Fails(c) PROVE VersionInv'
  <2>1. asideCall' = [asideCall EXCEPT ![c] = Resting] /\ UNCHANGED <<source, cache>>
    BY <1>13 DEF SweepEnds, Fails, Ends
  <2>2. Resting.at = "rest"
    BY DEF Resting
  <2> QED BY <1>2, <2>1, <2>2
<1>14. ASSUME NEW k \in AsideKeys, RunsOut(k) PROVE VersionInv'
  <2>1. UNCHANGED <<source, asideCall>> /\ \A l \in AsideKeys : cache'[l] \in {Nothing, cache[l]}
    BY <1>0, <1>14 DEF RunsOut, AsideType
  <2> QED BY <2>1 DEF VersionInv
<1> QED BY <1>1, <1>3, <1>4, <1>5, <1>6, <1>9, <1>10, <1>11, <1>12, <1>13, <1>14 DEF NextAside

\* A call that goes on has an attempt left.
RetriesInv == \A c \in TxCallers : tx[c].attempts <= MaxRetries /\ (Busy(c) => tx[c].attempts < MaxRetries)

\* What a step may do to the attempts of a call.
Tries(d) ==
    \/ tx'[d].attempts = tx[d].attempts /\ (Busy(d)' => Busy(d))
    \/ tx'[d].attempts = 0
    \/ Busy(d) /\ tx'[d].attempts = tx[d].attempts + 1 /\ (Busy(d)' => tx'[d].attempts < MaxRetries)

LEMMA FailedTries ==
    ASSUME TxType, NEW c \in TxCallers, Busy(c), NEW r, tx'[c] = r,
           r.at = Failed(c).at, r.attempts = Failed(c).attempts
    PROVE  Tries(c)
<1>1. /\ r.at = IF tx[c].attempts + 1 >= MaxRetries THEN "gave up" ELSE "watch"
      /\ r.attempts = tx[c].attempts + 1
  BY FailedCall DEF TxType
<1>2. tx[c].attempts \in Nat
  BY DEF TxType, TxCall
<1>3. CASE tx[c].attempts + 1 >= MaxRetries
  BY <1>1, <1>2, <1>3 DEF Tries, Busy, In
<1>4. CASE ~(tx[c].attempts + 1 >= MaxRetries)
  <2>1. tx[c].attempts + 1 < MaxRetries
    BY <1>2, <1>4, TxAssumption
  <2> QED BY <1>1, <2>1 DEF Tries
<1> QED BY <1>3, <1>4

LEMMA RetriesInit == InitTx => RetriesInv
<1> SUFFICES ASSUME InitTx, NEW c \in TxCallers PROVE tx[c].attempts = 0
  BY TxAssumption DEF RetriesInv
<1> QED BY DEF InitTx, Free

LEMMA RetriesNext == TxInv /\ RetriesInv /\ [NextTx]_txVars => RetriesInv'
<1> SUFFICES ASSUME TxInv, RetriesInv, [NextTx]_txVars PROVE RetriesInv'
  OBVIOUS
<1>0. TxType /\ tx \in [TxCallers -> TxCall] /\ \A d \in TxCallers : tx[d].attempts \in Nat
  BY DEF TxInv, TxType, TxCall
<1>a. SUFFICES ASSUME NEW d \in TxCallers PROVE Tries(d)
  <2>1. ASSUME NEW d \in TxCallers
        PROVE  tx'[d].attempts <= MaxRetries /\ (Busy(d)' => tx'[d].attempts < MaxRetries)
    <3>1. Tries(d) /\ tx[d].attempts \in Nat /\ tx[d].attempts <= MaxRetries /\ (Busy(d) => tx[d].attempts < MaxRetries)
      BY <1>0, <1>a, <2>1 DEF RetriesInv
    <3> QED BY <3>1, TxAssumption DEF Tries
  <2> QED BY <2>1 DEF RetriesInv
\* The others are told at most.
<1>b. ASSUME NEW W, NEW clears \in BOOLEAN, NEW c, NEW new, tx' = Told(tx, W, clears, c, new), d # c
      PROVE  Tries(d)
  <2>1. IsTold(d, W, clears)
    BY <1>0, <1>b, ToldOthers
  <2> QED BY <2>1 DEF IsTold, HasMarks, Tries, Busy, In
<1>c. ASSUME tx'[d] = tx[d] PROVE Tries(d)
  BY <1>c DEF Tries, Busy, In
<1>1. ASSUME NEW c \in TxCallers, NEW k \in WatchKeys, WithTransaction(c, k) PROVE Tries(d)
  <2> DEFINE r == [Free EXCEPT !.at = "watch", !.key = k, !.inherited = dirty]
  <2>1. r.attempts = 0
    BY DEF Free
  <2>2. tx' = [tx EXCEPT ![c] = r]
    BY <1>1 DEF WithTransaction
  <2> HIDE DEF r
  <2> QED BY <1>0, <1>c, <2>1, <2>2 DEF Tries
<1>2. ASSUME NEW c \in TxCallers, Watch(c) PROVE Tries(d)
  <2> DEFINE r == [tx[c] EXCEPT !.at = "exec", !.changed = FALSE, !.cleared = FALSE]
  <2>1. r.attempts = tx[c].attempts
    BY <1>0 DEF TxCall
  <2>2. tx' = [tx EXCEPT ![c] = r] /\ Busy(c)
    BY <1>2 DEF Watch, Busy
  <2> HIDE DEF r
  <2> QED BY <1>0, <1>c, <2>1, <2>2 DEF Tries
<1>3. ASSUME NEW c \in TxCallers, FnThrows(c) PROVE Tries(d)
  <2> DEFINE r == [Failed(c) EXCEPT !.threw = TRUE]
  <2>1. r.at = Failed(c).at /\ r.attempts = Failed(c).attempts
    BY <1>0, FailedCall DEF TxCall
  <2>2. tx' = [tx EXCEPT ![c] = r] /\ Busy(c)
    BY <1>3 DEF FnThrows, Busy
  <2> HIDE DEF r
  <2>3. tx'[c] = r
    BY <1>0, <2>2
  <2>4. Tries(c)
    BY <1>0, <2>1, <2>2, <2>3, FailedTries
  <2> QED BY <1>0, <1>c, <2>2, <2>4
<1>4. ASSUME NEW c \in TxCallers, Exec(c) PROVE Tries(d)
  <2>1. CASE d # c
    BY <1>b, <1>4, <2>1 DEF Exec
  <2>2. CASE d = c
    <3>0. tx[c] \in TxCall /\ Failed(c) \in TxCall /\ Busy(c)
      BY <1>0, <1>4, FailedCall DEF Exec, Busy
    <3>1. \/ tx'[c] = Failed(c)
          \/ tx'[c] = Applied([tx[c] EXCEPT !.at = "committed"], {tx[c].key})
          \/ \E W : tx'[c] = Applied([Failed(c) EXCEPT !.refused = TRUE], W)
      BY <1>4 DEF Exec, Told
    <3>2. CASE tx'[c] = Failed(c)
      BY <1>0, <2>2, <3>0, <3>2, FailedTries
    <3>3. CASE tx'[c] = Applied([tx[c] EXCEPT !.at = "committed"], {tx[c].key})
      <4> DEFINE q == [tx[c] EXCEPT !.at = "committed"]
      <4>1. q \in TxCall /\ q.attempts = tx[c].attempts
        BY <3>0 DEF TxCall, TxStages
      <4>2. tx'[c] = Applied(q, {tx[c].key})
        BY <3>3
      <4> HIDE DEF q
      <4>3. tx'[c].attempts = tx[c].attempts
        BY <4>1, <4>2, AppliedCall
      <4> QED
        BY <2>2, <3>0, <4>3 DEF Tries
    <3>4. ASSUME NEW W, tx'[c] = Applied([Failed(c) EXCEPT !.refused = TRUE], W) PROVE Tries(d)
      <4> DEFINE q == [Failed(c) EXCEPT !.refused = TRUE]
      <4>1. q \in TxCall /\ q.at = Failed(c).at /\ q.attempts = Failed(c).attempts
        BY <3>0 DEF TxCall
      <4> HIDE DEF q
      <4>2. Applied(q, W).at = Failed(c).at /\ Applied(q, W).attempts = Failed(c).attempts
        BY <4>1, AppliedCall
      <4> QED
        BY <1>0, <2>2, <3>0, <3>4, <4>2, FailedTries DEF q
    <3> QED BY <3>1, <3>2, <3>3, <3>4
  <2> QED BY <2>1, <2>2
<1>5. ASSUME NEW c \in TxCallers, NEW W \in SUBSET WatchKeys, MultiExecute(c, W) PROVE Tries(d)
  <2>1. CASE d # c
    BY <1>b, <1>5, <2>1 DEF MultiExecute
  <2>2. CASE d = c
    <3> DEFINE q == [Free EXCEPT !.at = "rejected"]
    <3>1. q \in TxCall /\ q.attempts = 0 /\ Free.attempts = 0
      BY FreeCall DEF TxCall, TxStages
    <3> HIDE DEF q
    <3>2. tx'[c] = Free \/ \E V : tx'[c] = Applied(q, V)
      BY <1>5 DEF MultiExecute, Told, q
    <3> QED BY <2>2, <3>1, <3>2, AppliedCall DEF Tries
  <2> QED BY <2>1, <2>2
<1>6. ASSUME NEW k \in WatchKeys, WatchAlone(k) PROVE Tries(d)
  BY <1>c, <1>6 DEF WatchAlone
<1>7. ASSUME NEW k \in WatchKeys, Write(k) PROVE Tries(d)
  BY <1>b, <1>7, TxAssumption DEF Write
<1>8. CASE Unwatch
  BY <1>b, <1>8, TxAssumption DEF Unwatch
<1>9. ASSUME NEW c \in TxCallers \cup {None}, Reconnect(c) PROVE Tries(d)
  <2>1. PICK W : tx' = [e \in TxCallers |->
                          [Told(tx, W, TRUE, c, Applied(Lost(c), W))[e] EXCEPT !.disturbed = @ \/ Busy(e)]]
    BY <1>9 DEF Reconnect, Lost
  <2> DEFINE t == Told(tx, W, TRUE, c, Applied(Lost(c), W))[d]
  <2>2. tx'[d] = [t EXCEPT !.disturbed = t.disturbed \/ Busy(d)]
    BY <2>1
  <2>3. CASE d # c
    <3>1. HasMarks(t, d, W, TRUE)
      BY <1>0, <2>3, ToldAre
    <3> HIDE DEF t
    <3>2. tx'[d].at = tx[d].at /\ tx'[d].attempts = tx[d].attempts
      BY <2>2, <3>1 DEF HasMarks, TxCall
    <3> QED BY <3>2 DEF Tries, Busy, In
  <2>4. CASE d = c
    <3>0. Failed(d).attempts = tx[d].attempts + 1
      BY <1>0, FailedCall
    <3>1. t = Applied(Lost(d), W) /\ Lost(d) \in TxCall
      BY <1>0, <2>4, LostCall DEF Told
    <3>a. Lost(d).at = Failed(d).at /\ Lost(d).attempts = Failed(d).attempts
      BY <1>0, <3>0, LostCall
    <3> HIDE DEF t
    <3>2. t \in TxCall /\ t.at = Failed(d).at /\ t.attempts = Failed(d).attempts
      BY <3>1, <3>a, AppliedCall
    <3>3. tx'[d].at = Failed(d).at /\ tx'[d].attempts = Failed(d).attempts
      BY <2>2, <3>2 DEF TxCall
    <3>4. Busy(d)
      BY <1>9, <2>4, TxAssumption DEF Reconnect
    <3> QED BY <1>0, <3>3, <3>4, FailedTries
  <2> QED BY <2>3, <2>4
<1>10. ASSUME NEW c \in TxCallers, Return(c) PROVE Tries(d)
  BY <1>0, <1>c, <1>10, FreeCall DEF Return, Tries
<1>11. CASE UNCHANGED txVars
  BY <1>c, <1>11 DEF txVars
<1> QED BY <1>1, <1>2, <1>3, <1>4, <1>5, <1>6, <1>7, <1>8, <1>9, <1>10, <1>11 DEF NextTx, Discard

\* A subscription waits for the client that it has asked for, and is on only when that one was there.
SubInv ==
    /\ sub = [s \in Subs |-> sub[s]]
    /\ client = "none" => \A s \in Subs : sub[s] = "new"
    /\ \A s \in Subs : sub[s] \in {"on", "off"} => client # "connecting"
    /\ \A s \in Subs : sub[s] = "refused" => client = "closed"

LEMMA SubInit == InitPubSub => SubInv
BY DEF InitPubSub, SubInv

LEMMA SubNext == SubInv /\ [NextPubSub]_psVars => SubInv'
<1> SUFFICES ASSUME SubInv, [NextPubSub]_psVars PROVE SubInv'
  OBVIOUS
<1> USE DEF SubInv
<1>1. ASSUME NEW s \in Subs, Subscribe(s) PROVE SubInv'
  <2> DEFINE v == CASE client = "none" -> "connecting" [] client = "closed" -> "refused" [] OTHER -> "queued"
  <2>1. /\ v \in {"connecting", "refused", "queued"} /\ (v = "refused" => client = "closed")
        /\ sub' = [sub EXCEPT ![s] = v] /\ client' = IF client = "none" THEN "connecting" ELSE client
    BY <1>1 DEF Subscribe
  <2> HIDE DEF v
  <2> QED BY <2>1
<1>2. ASSUME NEW s \in Subs, Accept(s) PROVE SubInv'
  BY <1>2 DEF Accept
<1>3. ASSUME NEW s \in Subs, Deliver(s) PROVE SubInv'
  BY <1>3 DEF Deliver
<1>4. ASSUME NEW ch \in Channels, Unsubscribe(ch) PROVE SubInv'
  BY <1>4 DEF Unsubscribe
<1>5. ASSUME NEW ch \in Channels, Publish(ch) PROVE SubInv'
  BY <1>5 DEF Publish
<1>6. CASE Connected
  BY <1>6 DEF Connected
<1>7. CASE ConnectFails
  BY <1>7 DEF ConnectFails
<1>8. CASE OnModuleDestroy
  BY <1>8 DEF OnModuleDestroy
<1>9. CASE Break \/ Reconnected
  BY <1>9 DEF Break, Reconnected
<1>10. CASE StopsTrying
  BY <1>10 DEF StopsTrying
<1>11. CASE UNCHANGED psVars
  BY <1>11 DEF psVars
<1> QED BY <1>1, <1>2, <1>3, <1>4, <1>5, <1>6, <1>7, <1>8, <1>9, <1>10, <1>11 DEF NextPubSub

\* The sequence goes past its mask by as much as there are CUIDs at most.
CountInv ==
    /\ clock \in 0..MaxClock /\ lastTimestamp \in -1..MaxClock
    /\ cuids \in 0..MaxCuids /\ sequence \in Nat /\ sequence <= Sequences + cuids

LEMMA CountInit == InitIds => CountInv
BY IdAssumption DEF InitIds, CountInv

LEMMA CountNext == CountInv /\ [NextIds]_idVars => CountInv'
<1> SUFFICES ASSUME CountInv, [NextIds]_idVars PROVE CountInv'
  OBVIOUS
<1> USE IdAssumption DEF CountInv
<1>1. CASE FirstOfMillisecond /\ UNCHANGED cuids
  BY <1>1 DEF FirstOfMillisecond, Issue
<1>2. CASE NextOfMillisecond /\ UNCHANGED cuids
  <2>1. NextSequence \in 0..(Sequences - 1)
    BY DEF NextSequence
  <2> QED BY <1>2, <2>1 DEF NextOfMillisecond, Issue
<1>3. CASE Spin /\ UNCHANGED cuids
  <2>1. PICK t \in (clock + 1)..MaxClock : clock' = t /\ lastTimestamp' = t /\ sequence' = 0
    BY <1>3 DEF Spin, Issue
  <2> QED BY <1>3, <2>1
<1>4. CASE GenerateCuid
  BY <1>4 DEF GenerateCuid
<1>5. CASE ClockMoves
  BY <1>5 DEF ClockMoves
<1>6. CASE UNCHANGED idVars
  BY <1>6 DEF idVars
<1> QED BY <1>1, <1>2, <1>3, <1>4, <1>5, <1>6 DEF NextIds, GenerateSnowflake

-----------------------------------------------------------------------------
(* The keyspace of texts implements the store of JavaScript values         *)

\* The store has the values and the answers of the keyspace.
LEMMA SameValues ==
    /\ Promised!Done = Done /\ Promised!Null = Null /\ Promised!Thrown = Thrown
    /\ Promised!Inputs = Inputs /\ Promised!Word = Word
    /\ \A v : Promised!Wrote(v) = Wrote(v) /\ Promised!WroteText(v) = WroteText(v)
    /\ \A v : Promised!PushedLeft(v) = PushedLeft(v) /\ Promised!PushedRight(v) = PushedRight(v)
    /\ \A i : Promised!Num(i) = Num(i)
    /\ \A v : Promised!IsNum(v) = (v[1] = "num")
BY DEF Promised!Done, Done, Promised!Null, Null, Promised!Thrown, Thrown, Promised!Inputs, Inputs,
       Promised!Word, Word, Promised!Wrote, Wrote, Promised!WroteText, WroteText, Promised!PushedLeft,
       PushedLeft, Promised!PushedRight, PushedRight, Promised!Num, Num, Promised!Digits, Digits,
       Promised!IsNum

\* The elements of a list or a hash as values.
Mapped(s) == [i \in DOMAIN s |-> Element(s[i])]

\* What a key is to the store.
LEMMA JsOfAbsent ==
    /\ AsJs(Absent) = <<"nothing">>
    /\ \A v : AsJs(v) = <<"nothing">> => v = Absent
BY DEF AsJs, Absent

LEMMA JsOfString ==
    ASSUME NEW t
    PROVE  AsJs(<<"string", t>>) = IF Parses(t) THEN <<"value", Parse(t)>> ELSE <<"opaque">>
BY DEF AsJs, Absent

LEMMA JsOfSet ==
    ASSUME NEW type \in {"set", "zset"}, NEW S
    PROVE  AsJs(<<type, S>>) = <<"opaque">>
BY DEF AsJs, Absent

LEMMA JsOfElements ==
    ASSUME NEW type \in {"list", "hash"}, NEW s
    PROVE  AsJs(<<type, s>>) = <<type, Mapped(s)>>
BY DEF AsJs, Absent, Mapped

LEMMA JsOfStream ==
    ASSUME NEW s
    PROVE  AsJs(<<"stream", s>>)
              = <<"stream", [i \in DOMAIN s.entries |-> ParseOrRaw(s.entries[i])]>>
BY DEF AsJs, Absent

\* A command that leaves the data alone.
LEMMA AnswerMaps ==
    ASSUME NEW a, Answers(a)
    PROVE  Promised!Answer(a)
BY DEF Answers, Promised!Answer, AsJs

\* A command that changes one key.
LEMMA KeyMaps ==
    ASSUME DataInv, NEW k \in Keys, NEW v, db' = [db EXCEPT ![k] = v]
    PROVE  /\ Promised!Only(k)
           /\ ([j \in Keys |-> AsJs(db[j])])'[k] = AsJs(v)
           /\ db'[k] = v
<1>1. db'[k] = v /\ \A j \in Keys \ {k} : db'[j] = db[j]
  BY DEF DataInv
<1> QED BY <1>1 DEF Promised!Only, AsJs

LEMMA ChangeMaps ==
    ASSUME DataInv, NEW k \in Keys, NEW v, NEW a, NEW Hs, db' = [db EXCEPT ![k] = v],
           volatile' = IF v = Absent THEN volatile \ {k} ELSE volatile, answer' = a, AsJs(v) \in Hs
    PROVE  Promised!Change(k, Hs, a)
<1>1. /\ Promised!Only(k) /\ ([j \in Keys |-> AsJs(db[j])])'[k] = AsJs(v)
  BY KeyMaps
<1>2. AsJs(v) = Promised!Nothing <=> v = Absent
  BY JsOfAbsent DEF Promised!Nothing
<1> QED BY <1>1, <1>2 DEF Promised!Change

LEMMA WritesMap ==
    ASSUME DataInv, NEW k \in Keys, NEW type, NEW content, NEW a, Writes(k, type, content, a), NEW Hs,
           AsJs(IF Emptied(type, content) THEN Absent ELSE <<type, content>>) \in Hs
    PROVE  Promised!Change(k, Hs, a)
<1> DEFINE v == IF Emptied(type, content) THEN Absent ELSE <<type, content>>
<1>1. db' = [db EXCEPT ![k] = v] /\ answer' = a
  BY DEF Writes
<1>2. db'[k] = v
  BY <1>1 DEF DataInv
<1>3. volatile' = IF v = Absent THEN volatile \ {k} ELSE volatile
  BY <1>2 DEF Writes
<1>4. AsJs(v) \in Hs
  OBVIOUS
<1> HIDE DEF v
<1> QED BY <1>1, <1>3, <1>4, ChangeMaps

LEMMA ReplacesMap ==
    ASSUME DataInv, NEW k \in Keys, NEW v, NEW lives \in BOOLEAN, NEW a, Replaces(k, v, lives, a),
           v = Absent => lives = FALSE, NEW Hs, AsJs(v) \in Hs
    PROVE  Promised!Replace(k, Hs, a)
<1>1. db' = [db EXCEPT ![k] = v] /\ answer' = a
      /\ volatile' = IF lives THEN volatile \cup {k} ELSE volatile \ {k}
  BY DEF Replaces
<1>2. /\ Promised!Only(k) /\ ([j \in Keys |-> AsJs(db[j])])'[k] = AsJs(v)
  BY <1>1, KeyMaps
<1>3. AsJs(v) = Promised!Nothing <=> v = Absent
  BY JsOfAbsent DEF Promised!Nothing
<1> QED BY <1>1, <1>2, <1>3 DEF Promised!Replace

-----------------------------------------------------------------------------
(* Keys and values                                                         *)

LEMMA StoreOf ==
    ASSUME NEW k \in Keys
    PROVE  [j \in Keys |-> AsJs(db[j])][k] = AsJs(db[k])
OBVIOUS

\* What is always promised.
LEMMA DoneMaps ==
    ASSUME NEW k \in Keys, Answers(Done) \/ Answers(Thrown)
    PROVE  Promised!Values(k)
BY AnswerMaps, SameValues DEF Promised!Values

LEMMA NullMaps ==
    ASSUME NEW k \in Keys, db[k] = Absent, Answers(Null)
    PROVE  Promised!Values(k)
<1>1. AsJs(db[k]) = Promised!Nothing
  BY JsOfAbsent DEF Promised!Nothing
<1>2. Promised!Answer(Promised!Null)
  BY AnswerMaps, SameValues
<1> QED BY <1>1, <1>2, StoreOf DEF Promised!Values

\* Whatever is not a value to the caller.
LEMMA OpaqueReplacement ==
    ASSUME DataInv, NEW k \in Keys, NEW v, Replaces(k, v, FALSE, Done),
           AsJs(v) \in {<<"nothing">>, <<"opaque">>, <<"value", Num(0)>>}
    PROVE  Promised!Values(k)
<1>1. Promised!Replace(k, {Promised!Nothing, Promised!Opaque, Promised!Value(Promised!Num(0))}, Promised!Done)
  BY ReplacesMap, SameValues DEF Promised!Nothing, Promised!Opaque, Promised!Value
<1> QED BY <1>1 DEF Promised!Values

LEMMA OpaqueChange ==
    ASSUME DataInv, NEW k \in Keys, NEW type, NEW content, Writes(k, type, content, Done),
           AsJs(db[k])[1] \in {"nothing", "opaque", "value"},
           AsJs(IF Emptied(type, content) THEN Absent ELSE <<type, content>>)
              \in {<<"nothing">>, <<"opaque">>, <<"value", Num(0)>>, <<"value", Word>>}
    PROVE  Promised!Values(k)
<1>1. Promised!Change(k, {Promised!Nothing, Promised!Opaque, Promised!Value(Promised!Num(0)),
                          Promised!Value(Promised!Word)}, Promised!Done)
  BY WritesMap, SameValues DEF Promised!Nothing, Promised!Opaque, Promised!Value
<1> QED BY <1>1, StoreOf DEF Promised!Values

\* What a string is to the store.
LEMMA JsOfStringKey ==
    ASSUME DataInv, NEW k \in Keys, IsOf(k, "string")
    PROVE  /\ AsJs(db[k])[1] \in {"nothing", "opaque", "value"}
           /\ db[k] # Absent => /\ db[k] = <<"string", db[k][2]>>
                                /\ AsJs(db[k]) = IF Parses(db[k][2]) THEN <<"value", Parse(db[k][2])>>
                                                 ELSE <<"opaque">>
<1>1. CASE db[k] = Absent
  BY <1>1, JsOfAbsent
<1>2. CASE db[k] # Absent
  <2>1. db[k] = <<"string", db[k][2]>>
    <3>1. db[k] = <<"string", Content(k, "string")>>
      BY <1>2, SeenContent DEF DataInv
    <3> QED BY <3>1
  <2> QED BY <1>2, <2>1, JsOfString
<1> QED BY <1>1, <1>2

\* What a text is to the store.
LEMMA JsOfText ==
    /\ \A v : Parses(Stringify(v)) /\ Parse(Stringify(v)) = v
    /\ ~Parses(Bare) /\ \A S : \A kind \in {"bits", "hll"} : ~Parses(<<kind, S>>)
    /\ \A v \in Inputs : AsJs(<<"string", StringifyUnlessString(v)>>) = Promised!Reread(v)
<1>1. \A v : Parses(Stringify(v)) /\ Parse(Stringify(v)) = v
  BY DEF Parses, Parse, Stringify
<1>2. ~Parses(Bare) /\ \A S : \A kind \in {"bits", "hll"} : ~Parses(<<kind, S>>)
  BY DEF Parses, Bare
<1>3. StringifyUnlessString(Num(1)) = Stringify(Num(1)) /\ Promised!Reread(Num(1)) = <<"value", Num(1)>>
  BY DEF StringifyUnlessString, IsString, Num, Promised!Reread, Promised!Word, Promised!Seen, Promised!Value
<1>4. StringifyUnlessString(Digits(1)) = Stringify(Num(1)) /\ Promised!Reread(Digits(1)) = <<"value", Num(1)>>
  BY SameValues DEF StringifyUnlessString, IsString, Digits, Raw, Word, Promised!Reread, Promised!Seen, Promised!Value
<1>5. StringifyUnlessString(Word) = Bare /\ Promised!Reread(Word) = <<"opaque">>
  BY SameValues DEF StringifyUnlessString, IsString, Raw, Word, Promised!Reread, Promised!Opaque
<1>6. ASSUME NEW v \in Inputs PROVE AsJs(<<"string", StringifyUnlessString(v)>>) = Promised!Reread(v)
  <2>1. AsJs(<<"string", Stringify(Num(1))>>) = <<"value", Num(1)>>
    BY <1>1, JsOfString
  <2>2. AsJs(<<"string", Bare>>) = <<"opaque">>
    BY <1>2, JsOfString
  <2>3. v = Num(1) \/ v = Digits(1) \/ v = Word
    BY DEF Inputs
  <2> QED BY <1>3, <1>4, <1>5, <2>1, <2>2, <2>3
<1> QED BY <1>1, <1>2, <1>6

\* Writing a value, and a text.
LEMMA ValueMaps ==
    ASSUME DataInv, NEW k \in Keys, NEW v \in Inputs, NEW lives \in BOOLEAN,
           \/ Replaces(k, <<"string", Stringify(v)>>, lives, Wrote(v))
           \/ Replaces(k, <<"string", StringifyUnlessString(v)>>, lives, WroteText(v))
    PROVE  Promised!Values(k)
<1>1. \A t : <<"string", t>> # Absent
  BY DEF Absent
<1>2. CASE Replaces(k, <<"string", Stringify(v)>>, lives, Wrote(v))
  <2>1. AsJs(<<"string", Stringify(v)>>) = Promised!Value(v)
    BY JsOfString, JsOfText DEF Promised!Value
  <2>2. Promised!Replace(k, {Promised!Value(v)}, Promised!Wrote(v))
    BY <1>1, <1>2, <2>1, ReplacesMap, SameValues
  <2> QED BY <2>2, SameValues DEF Promised!Values
<1>3. CASE Replaces(k, <<"string", StringifyUnlessString(v)>>, lives, WroteText(v))
  <2>1. AsJs(<<"string", StringifyUnlessString(v)>>) = Promised!Reread(v)
    BY JsOfText
  <2>2. Promised!Replace(k, {Promised!Reread(v)}, Promised!WroteText(v))
    BY <1>1, <1>3, <2>1, ReplacesMap, SameValues
  <2> QED BY <2>2, SameValues DEF Promised!Values
<1> QED BY <1>2, <1>3

LEMMA KeyValueMaps ==
    ASSUME DataInv, NEW k \in Keys, KeyValue(k) \/ TimesOut(k)
    PROVE  Promised!Values(k)
<1>1. CASE Get(k)
  <2>1. CASE db[k] = Absent
    <3>1. Answers(Null)
      <4>1. (CASE db[k] = Absent -> Null [] db[k][1] = "string" -> Js(db[k][2]) [] OTHER -> Thrown) = Null
        BY <2>1 DEF Absent
      <4> QED BY <1>1, <4>1 DEF Get
    <3> QED BY <2>1, <3>1, NullMaps
  <2>2. CASE db[k] # Absent /\ db[k][1] = "string"
    <3>1. Answers(Js(db[k][2]))
      BY <1>1, <2>2 DEF Get
    <3>2. CASE Parses(db[k][2])
      <4>1. Promised!Answer(<<"js", Parse(db[k][2])>>)
        BY <3>1, <3>2, AnswerMaps DEF Js
      <4>2. AsJs(db[k]) = <<"value", Parse(db[k][2])>>
        BY <2>2, <3>2, JsOfStringKey DEF IsOf
      <4> QED BY <4>1, <4>2, StoreOf DEF Promised!Values, Promised!Is
    <3>3. CASE ~Parses(db[k][2])
      BY <3>1, <3>3, DoneMaps DEF Js
    <3> QED BY <3>2, <3>3
  <2>3. CASE db[k] # Absent /\ db[k][1] # "string"
    <3>1. Answers(Thrown)
      BY <1>1, <2>3 DEF Get, Answers
    <3> QED BY <3>1, DoneMaps
  <2> QED BY <2>1, <2>2, <2>3
<1>2. CASE Del(k) \/ TimesOut(k)
  BY <1>2, OpaqueReplacement, JsOfAbsent DEF Del, TimesOut
<1>3. ASSUME NEW v \in Inputs, Set(k, v) \/ SetForever(k, v) \/ MSet(k, v) PROVE Promised!Values(k)
  BY <1>3, ValueMaps DEF Set, SetForever, MSet
<1>4. ASSUME NEW v \in Inputs, SetNX(k, v) PROVE Promised!Values(k)
  BY <1>4, ValueMaps, DoneMaps DEF SetNX
<1> QED BY <1>1, <1>2, <1>3, <1>4 DEF KeyValue

LEMMA StringsMap ==
    ASSUME DataInv, NEW k \in Keys, Strings(k)
    PROVE  Promised!Values(k)
<1>1. CASE MGet(k) \/ Refused \/ StringReads(k)
  BY <1>1, DoneMaps DEF MGet, Refused, StringReads
<1>2. ASSUME NEW v \in Inputs, GetSet(k, v) PROVE Promised!Values(k)
  BY <1>2, ValueMaps DEF GetSet
<1>3. CASE IsOf(k, "string") /\ (AppendTo(k) \/ SetRange(k))
  <2>1. ~Emptied("string", Bare) /\ AsJs(<<"string", Bare>>) = <<"opaque">>
    BY JsOfString, JsOfText DEF Emptied
  <2>2. Writes(k, "string", Bare, Done) /\ AsJs(db[k])[1] \in {"nothing", "opaque", "value"}
    BY <1>3, JsOfStringKey DEF AppendTo, SetRange
  <2> QED BY <2>1, <2>2, OpaqueChange
<1> QED BY <1>1, <1>2, <1>3 DEF Strings

LEMMA CountersMap ==
    ASSUME DataInv, NEW k \in Keys, Counters(k)
    PROVE  Promised!Values(k)
<1>1. CASE ~IsOf(k, "string")
  BY <1>1, DoneMaps DEF Counters, Refused
<1>2. CASE IsOf(k, "string")
  <2>1. PICK by \in {1, -1} : Count(k, by)
    BY <1>2 DEF Counters
  <2> DEFINE t == Content(k, "string")
  <2>2. CASE ~IsNumber(t)
    BY <2>1, <2>2, DoneMaps DEF Count
  <2>3. CASE IsNumber(t)
    <3>1. InRange(t, by) /\ Writes(k, "string", Counted(t, by), Done)
      BY <2>1, <2>3 DEF Count
    <3> DEFINE n == Num(Parse(t)[2] + by)
    <3>2. Counted(t, by) = Stringify(n) /\ ~Emptied("string", Stringify(n))
          /\ AsJs(<<"string", Stringify(n)>>) = <<"value", n>>
      BY JsOfString, JsOfText DEF Counted, Emptied
    <3>3. CASE db[k] = Absent
      <4>1. t = Stringify(Num(0))
        BY <3>3, NoContent
      <4>2. Parse(t)[2] = 0 /\ by = 1
        BY <3>1, <4>1 DEF Stringify, Parse, Num, InRange
      <4>3. n = Num(1)
        BY <4>2
      <4> HIDE DEF t, n
      <4>4. Promised!Change(k, {Promised!Value(Promised!Num(1))}, Promised!Done)
        BY <3>1, <3>2, <4>3, WritesMap, SameValues DEF Promised!Value
      <4>5. AsJs(db[k]) = Promised!Nothing
        BY <3>3, JsOfAbsent DEF Promised!Nothing
      <4> QED BY <4>4, <4>5, StoreOf DEF Promised!Values
    <3>4. CASE db[k] # Absent
      <4>1. t = db[k][2]
        BY <1>2, <3>4, SeenContent DEF DataInv
      <4>2. Parses(t) /\ Parse(t)[1] = "num"
        BY <2>3 DEF IsNumber
      <4>3. AsJs(db[k]) = <<"value", Parse(t)>>
        BY <1>2, <3>4, <4>1, <4>2, JsOfStringKey
      <4> HIDE DEF t
      <4>4. [j \in Keys |-> AsJs(db[j])][k] = <<"value", Parse(t)>>
        BY <4>3, StoreOf
      <4>5. /\ Promised!Is(k, "value")
            /\ Promised!IsNum([j \in Keys |-> AsJs(db[j])][k][2])
            /\ [j \in Keys |-> AsJs(db[j])][k][2][2] = Parse(t)[2]
        <5> DEFINE held == [j \in Keys |-> AsJs(db[j])][k]
        <5>1. held[1] = "value" /\ held[2] = Parse(t)
          BY <4>4
        <5>2. Promised!Is(k, "value")
          BY <5>1 DEF Promised!Is
        <5>3. held[2][1] = "num" /\ held[2][2] = Parse(t)[2]
          <6> HIDE DEF held
          <6> QED BY <4>2, <5>1
        <5>4. Promised!IsNum(held[2])
          <6> HIDE DEF held
          <6> QED BY <5>3, SameValues
        <5> QED BY <5>2, <5>3, <5>4
      <4> DEFINE Hs == {Promised!Value(Promised!Num([j \in Keys |-> AsJs(db[j])][k][2][2] + b)) : b \in {1, -1}}
      <4>6. AsJs(<<"string", Stringify(n)>>) \in Hs
        <5>1. AsJs(<<"string", Stringify(n)>>) = Promised!Value(n)
          BY <3>2 DEF Promised!Value
        <5>2. n = Promised!Num([j \in Keys |-> AsJs(db[j])][k][2][2] + by)
          BY <4>5, SameValues
        <5> QED BY <5>1, <5>2
      <4>7. Promised!Change(k, Hs, Promised!Done)
        <5> HIDE DEF n, Hs
        <5> QED BY <3>1, <3>2, <4>6, WritesMap, SameValues
      <4> QED BY <4>5, <4>7 DEF Promised!Values
    <3> QED BY <3>3, <3>4
  <2> QED BY <2>2, <2>3
<1> QED BY <1>1, <1>2

LEMMA UtilitiesMap ==
    ASSUME DataInv, NEW k \in Keys, Utilities(k)
    PROVE  Promised!Values(k)
<1>1. CASE KeyReads
  BY <1>1, DoneMaps DEF KeyReads
<1>2. CASE Expire(k) \/ Persist(k)
  <2>1. AsJs(db[k]) = Promised!Nothing <=> db[k] = Absent
    BY JsOfAbsent DEF Promised!Nothing
  <2>2. db' = db /\ answer' = Done /\ volatile' \in {volatile \ {k}, volatile \cup {k}}
        /\ (db[k] = Absent => k \notin volatile')
    BY <1>2 DEF Expire, Persist, DataInv
  <2>3. ([j \in Keys |-> AsJs(db[j])])' = [j \in Keys |-> AsJs(db[j])]
    BY <2>2 DEF AsJs
  <2> QED BY <2>1, <2>2, <2>3, StoreOf, SameValues DEF Promised!Values
<1> QED BY <1>1, <1>2 DEF Utilities

-----------------------------------------------------------------------------
(* Sets, sorted sets, HyperLogLogs and bitmaps, which are opaque           *)

LEMMA JsOfSetKey ==
    ASSUME DataInv, NEW k \in Keys, NEW type \in {"set", "zset"}, IsOf(k, type)
    PROVE  AsJs(db[k]) = IF db[k] = Absent THEN <<"nothing">> ELSE <<"opaque">>
<1>1. CASE db[k] = Absent
  BY <1>1, JsOfAbsent
<1>2. CASE db[k] # Absent
  <2>1. db[k] = <<type, Content(k, type)>>
    BY <1>2, SeenContent DEF DataInv
  <2> QED BY <1>2, <2>1, JsOfSet
<1> QED BY <1>1, <1>2

LEMMA SetWriteMaps ==
    ASSUME DataInv, NEW k \in Keys, NEW type \in {"set", "zset"}, IsOf(k, type), NEW content,
           Writes(k, type, content, Done)
    PROVE  Promised!Values(k)
<1>1. AsJs(IF Emptied(type, content) THEN Absent ELSE <<type, content>>) \in {<<"nothing">>, <<"opaque">>}
  BY JsOfSet, JsOfAbsent
<1>2. AsJs(db[k])[1] \in {"nothing", "opaque", "value"}
  BY JsOfSetKey
<1> QED BY <1>1, <1>2, OpaqueChange

LEMMA StoredMaps ==
    ASSUME DataInv, NEW d \in Keys, NEW type \in {"set", "zset"}, NEW content, StoresAt(d, type, content)
    PROVE  Promised!Values(d)
<1> DEFINE v == IF Emptied(type, content) THEN Absent ELSE <<type, content>>
<1>1. AsJs(v) \in {<<"nothing">>, <<"opaque">>}
  BY JsOfSet, JsOfAbsent
<1>2. Replaces(d, v, FALSE, Done)
  BY DEF StoresAt
<1> HIDE DEF v
<1> QED BY <1>1, <1>2, OpaqueReplacement

\* Either the one key is something of the caller's own, or a member moves to another.
LEMMA SetsMap ==
    ASSUME DataInv, NEW k \in Keys, Sets(k)
    PROVE  \E j \in Keys : Promised!Values(j) \/ \E d \in Keys : Promised!MoveOpaque(j, d)
<1>1. CASE ~IsOf(k, "set") \/ SetReads(k)
  BY <1>1, DoneMaps DEF Sets, Refused, SetReads
<1>2. ASSUME IsOf(k, "set"), NEW ms, SAdd(k, ms) \/ SRem(k, ms) PROVE Promised!Values(k)
  BY <1>2, SetWriteMaps DEF SAdd, SRem
<1>3. ASSUME IsOf(k, "set"), NEW d \in Keys, NEW m \in Members, SMove(k, d, m)
      PROVE  Promised!Values(k) \/ Promised!MoveOpaque(k, d)
  <2>1. CASE ~IsOf(d, "set") \/ ~(m \in SetOf(k) /\ k # d)
    <3>1. Answers(Done) \/ Answers(Thrown)
      BY <1>3, <2>1 DEF SMove
    <3> QED BY <3>1, DoneMaps
  <2>2. CASE IsOf(d, "set") /\ m \in SetOf(k) /\ k # d
    <3> DEFINE left == SetOf(k) \ {m}
               v == IF left = {} THEN Absent ELSE <<"set", left>>
               w == <<"set", SetOf(d) \cup {m}>>
               x == IF left = {} THEN Promised!Nothing ELSE Promised!Opaque
    <3>1. /\ db' = [db EXCEPT ![k] = v, ![d] = w] /\ answer' = Done
          /\ volatile' = IF left = {} THEN volatile \ {k} ELSE volatile
      BY <1>3, <2>2 DEF SMove
    <3>2. AsJs(w) = Promised!Opaque /\ AsJs(v) = x
      BY JsOfSet, JsOfAbsent DEF Promised!Nothing, Promised!Opaque
    <3>3. db[k] # Absent
      BY <2>2, NoContent DEF SetOf
    <3>4. Promised!Is(k, "opaque") /\ Promised!Free(d, "opaque")
      BY <1>3, <2>2, <3>3, JsOfSetKey, StoreOf DEF Promised!Is, Promised!Free, Promised!Nothing
    <3>5. x \in {Promised!Nothing, Promised!Opaque} /\ (x = Promised!Nothing <=> left = {})
      BY DEF Promised!Nothing, Promised!Opaque
    <3> HIDE DEF left, v, w, x
    <3>6. /\ db' = [j \in Keys |-> db'[j]] /\ db'[d] = w /\ db'[k] = v
          /\ \A j \in Keys \ {k, d} : db'[j] = db[j]
      BY <2>2, <3>1 DEF DataInv
    <3> DEFINE before == [j \in Keys |-> AsJs(db[j])]
               after == [j \in Keys |-> AsJs(db'[j])]
    <3>7. after = [before EXCEPT ![k] = x, ![d] = Promised!Opaque]
      <4>1. \A j \in Keys : after[j] = [before EXCEPT ![k] = x, ![d] = Promised!Opaque][j]
        BY <2>2, <3>2, <3>6
      <4> QED BY <4>1
    <3>8. before' = after
      BY DEF AsJs
    <3>9. volatile' = IF x = Promised!Nothing THEN volatile \ {k} ELSE volatile
      BY <3>1, <3>5
    <3> QED BY <3>1, <3>4, <3>5, <3>7, <3>8, <3>9, SameValues DEF Promised!MoveOpaque
  <2> QED BY <2>1, <2>2
<1>4. ASSUME NEW d \in Keys, NEW k1 \in Keys, NEW k2 \in Keys, SStore(d, k1, k2) PROVE Promised!Values(d)
  <2>1. CASE ~(IsOf(k1, "set") /\ IsOf(k2, "set"))
    BY <1>4, <2>1, DoneMaps DEF SStore
  <2>2. CASE IsOf(k1, "set") /\ IsOf(k2, "set")
    BY <1>4, <2>2, StoredMaps DEF SStore
  <2> QED BY <2>1, <2>2
<1> QED BY <1>1, <1>2, <1>3, <1>4 DEF Sets, SPop

LEMMA SortedSetsMap ==
    ASSUME DataInv, NEW k \in Keys, SortedSets(k) \/ Geo(k)
    PROVE  \E j \in Keys : Promised!Values(j)
<1>1. CASE ~IsOf(k, "zset") \/ SortedReads(k)
  BY <1>1, DoneMaps DEF SortedSets, Geo, Refused, SortedReads
<1>2. ASSUME IsOf(k, "zset"), NEW content, Writes(k, "zset", content, Done) PROVE Promised!Values(k)
  BY <1>2, SetWriteMaps
<1>3. ASSUME NEW d \in Keys, ZStore(d, k, d) PROVE Promised!Values(d)
  <2>1. Answers(Thrown) \/ \E content : StoresAt(d, "zset", content)
    BY <1>3 DEF ZStore
  <2> QED BY <2>1, DoneMaps, StoredMaps
<1>4. ASSUME IsOf(k, "zset"), NEW m, NEW n, ZRem(k, m) \/ ZAdd(k, n, m) \/ ZIncrBy(k, n, m)
      PROVE  Promised!Values(k)
  BY <1>2, <1>4 DEF ZRem, Without, ZAdd, ZIncrBy
<1>5. ASSUME IsOf(k, "zset"), NEW from, NEW to, ZRemRangeByRank(k, from, to) \/ ZRemRangeByScore(k, from, to)
      PROVE  Promised!Values(k)
  BY <1>2, <1>5 DEF ZRemRangeByRank, ZRemRangeByScore, Without
<1> QED BY <1>1, <1>3, <1>4, <1>5 DEF SortedSets, Geo, GeoReads, GeoAdd

\* A text of the caller's own in the place of a string.
LEMMA TextMaps ==
    ASSUME DataInv, NEW k \in Keys, IsOf(k, "string"), NEW t, Writes(k, "string", t, Done),
           ~Parses(t) \/ t \in {Stringify(Num(0)), Stringify(Word)}
    PROVE  Promised!Values(k)
<1>1. AsJs(<<"string", t>>) \in {<<"opaque">>, <<"value", Num(0)>>, <<"value", Word>>}
  BY JsOfString, JsOfText
<1>2. ~Emptied("string", t)
  BY DEF Emptied
<1>3. AsJs(db[k])[1] \in {"nothing", "opaque", "value"}
  BY JsOfStringKey
<1> QED BY <1>1, <1>2, <1>3, OpaqueChange

LEMMA SketchesMap ==
    ASSUME DataInv, NEW k \in Keys, HyperLogLogs(k)
    PROVE  \E j \in Keys : Promised!Values(j)
<1>1. CASE PfClear(k)
  BY <1>1, OpaqueReplacement, JsOfAbsent DEF PfClear, Del
<1>2. CASE Refused \/ PfReads(k)
  BY <1>2, DoneMaps DEF Refused, PfReads
<1>3. ASSUME NEW d \in Keys, IsSketch(d), NEW ms, PfAdd(d, ms) PROVE Promised!Values(d)
  <2>1. IsOf(d, "string")
    BY <1>3 DEF IsSketch, IsOf, Absent
  <2>2. ~Parses(<<"hll", Sketch(d) \cup ms>>)
    BY JsOfText
  <2> QED BY <1>3, <2>1, <2>2, TextMaps DEF PfAdd
<1>4. ASSUME NEW d \in Keys, PfMerge(d, k) PROVE Promised!Values(d)
  BY <1>3, <1>4, DoneMaps DEF PfMerge
<1> QED BY <1>1, <1>2, <1>3, <1>4 DEF HyperLogLogs

LEMMA BitmapsMap ==
    ASSUME DataInv, NEW k \in Keys, Bitmaps(k)
    PROVE  \E j \in Keys : Promised!Values(j)
<1>1. CASE ~IsOf(k, "string") \/ BitReads(k)
  BY <1>1, DoneMaps DEF Bitmaps, Refused, BitReads
<1>2. ASSUME IsOf(k, "string"), NEW offset, NEW bit \in BOOLEAN, SetBit(k, offset, bit) PROVE Promised!Values(k)
  <2>1. CASE IsBitmap(k)
    <3>1. PICK S : Writes(k, "string", <<"bits", S>>, Done)
      BY <1>2, <2>1 DEF SetBit
    <3>2. ~Parses(<<"bits", S>>)
      BY JsOfText
    <3> QED BY <1>2, <3>1, <3>2, TextMaps
  <2>2. CASE ~IsBitmap(k)
    <3>1. PICK t \in {Bare, Stringify(Num(0)), Stringify(Word)} : Writes(k, "string", t, Done)
      BY <1>2, <2>2 DEF SetBit
    <3>2. ~Parses(Bare)
      BY JsOfText
    <3> QED BY <1>2, <3>1, <3>2, TextMaps
  <2> QED BY <2>1, <2>2
<1>3. ASSUME NEW d \in Keys, NEW k1 \in Keys, NEW k2 \in Keys, BitOp(d, k1, k2) PROVE Promised!Values(d)
  <2>1. PICK S : Replaces(d, IF db[k1] = Absent /\ db[k2] = Absent THEN Absent ELSE <<"string", <<"bits", S>>>>,
                          FALSE, Done)
    BY <1>3 DEF BitOp
  <2> DEFINE v == IF db[k1] = Absent /\ db[k2] = Absent THEN Absent ELSE <<"string", <<"bits", S>>>>
  <2>2. AsJs(v) \in {<<"nothing">>, <<"opaque">>}
    <3>1. ~Parses(<<"bits", S>>)
      BY JsOfText
    <3>2. AsJs(<<"string", <<"bits", S>>>>) = <<"opaque">>
      BY <3>1, JsOfString
    <3> QED BY <3>2, JsOfAbsent
  <2> HIDE DEF v
  <2> QED BY <2>1, <2>2, OpaqueReplacement DEF v
<1> QED BY <1>1, <1>2, <1>3 DEF Bitmaps

-----------------------------------------------------------------------------
(* Lists, element by element                                               *)

JsElements == {Element(t) : t \in JsonTexts}

LEMMA MappedSeq ==
    ASSUME NEW s \in Seq(JsonTexts)
    PROVE  /\ Mapped(s) \in Seq(JsElements) /\ Len(Mapped(s)) = Len(s)
           /\ \A i \in 1..Len(s) : Mapped(s)[i] = Element(s[i])
<1>1. DOMAIN s = 1..Len(s) /\ Len(s) \in Nat /\ \A i \in 1..Len(s) : s[i] \in JsonTexts
  OBVIOUS
<1>2. \A i \in 1..Len(s) : Element(s[i]) \in JsElements
  BY <1>1 DEF JsElements
<1>3. Mapped(s) = [i \in 1..Len(s) |-> Element(s[i])]
  BY <1>1 DEF Mapped
<1> QED BY <1>1, <1>2, <1>3

\* A sequence is what a sequence of texts maps to, when its elements are.
LEMMA MapsTo ==
    ASSUME NEW s \in Seq(JsonTexts), NEW u \in Seq(JsElements), Len(u) = Len(s),
           \A i \in 1..Len(s) : u[i] = Element(s[i])
    PROVE  Mapped(s) = u
BY MappedSeq, SeqEqual

LEMMA EmptyMapped == Mapped(<<>>) = <<>>
<1>1. <<>> \in Seq(JsonTexts) /\ Len(<<>>) = 0
  OBVIOUS
<1>2. Mapped(<<>>) \in Seq(JsElements) /\ Len(Mapped(<<>>)) = 0
  BY <1>1, MappedSeq
<1> QED BY <1>2

\* What is stringified is read back, and nothing else is.
LEMMA ElementIs ==
    /\ \A v : Element(Stringify(v)) = v
    /\ \A t \in JsonTexts : Parses(t) /\ Element(t) = Parse(t) /\ t = Stringify(Element(t))
                            /\ ParseOrRaw(t) = Element(t)
<1>1. \A v : Element(Stringify(v)) = v /\ Parses(Stringify(v)) /\ ParseOrRaw(Stringify(v)) = v
  BY JsOfText DEF Element, ParseOrRaw
<1>2. \A t \in JsonTexts : \E v : t = Stringify(v)
  BY DEF JsonTexts
<1> QED BY <1>1, <1>2, JsOfText

LEMMA TextsMapped ==
    ASSUME NEW vs \in Seq(Inputs)
    PROVE  /\ Texts(vs) \in Seq(JsonTexts) /\ Len(Texts(vs)) = Len(vs)
           /\ Mapped(Texts(vs)) = vs
<1>1. DOMAIN vs = 1..Len(vs) /\ Len(vs) \in Nat /\ \A i \in 1..Len(vs) : vs[i] \in Inputs
  OBVIOUS
<1>2. Texts(vs) = [i \in 1..Len(vs) |-> Stringify(vs[i])]
  BY <1>1 DEF Texts
<1>3. \A i \in 1..Len(vs) : Stringify(vs[i]) \in JsonTexts
  BY <1>1, Texting
<1>4. Texts(vs) \in Seq(JsonTexts) /\ Len(Texts(vs)) = Len(vs) /\ \A i \in 1..Len(vs) : Texts(vs)[i] = Stringify(vs[i])
  BY <1>1, <1>2, <1>3
<1>5. \A i \in 1..Len(vs) : vs[i] \in JsElements /\ vs[i] = Element(Texts(vs)[i])
  BY <1>1, <1>3, <1>4, ElementIs DEF JsElements
<1>6. vs \in Seq(JsElements)
  BY <1>1, <1>5
<1> QED BY <1>4, <1>5, <1>6, MapsTo

LEMMA ReverseMapped ==
    ASSUME NEW s \in Seq(JsonTexts)
    PROVE  Reverse(s) \in Seq(JsonTexts) /\ Len(Reverse(s)) = Len(s)
           /\ Mapped(Reverse(s)) = Reverse(Mapped(s)) /\ Reverse(Mapped(s)) \in Seq(JsElements)
<1> DEFINE m == Mapped(s)
<1>1. Len(s) \in Nat /\ (\A i \in 1..Len(s) : s[i] \in JsonTexts) /\ m \in Seq(JsElements) /\ Len(m) = Len(s)
      /\ \A i \in 1..Len(s) : m[i] = Element(s[i])
  BY MappedSeq
<1> HIDE DEF m
<1>2. \A i \in 1..Len(s) : Len(s) - i + 1 \in 1..Len(s)
  BY <1>1
<1>3. Reverse(s) = [i \in 1..Len(s) |-> s[Len(s) - i + 1]] /\ Reverse(m) = [i \in 1..Len(s) |-> m[Len(s) - i + 1]]
  BY <1>1 DEF Reverse
<1>4. \A i \in 1..Len(s) : m[i] \in JsElements
  BY <1>1
<1>5. Reverse(s) \in Seq(JsonTexts) /\ Len(Reverse(s)) = Len(s)
      /\ \A i \in 1..Len(s) : Reverse(s)[i] = s[Len(s) - i + 1]
  BY <1>1, <1>2, <1>3
<1>6. Reverse(m) \in Seq(JsElements) /\ Len(Reverse(m)) = Len(s)
      /\ \A i \in 1..Len(s) : Reverse(m)[i] = m[Len(s) - i + 1]
  BY <1>1, <1>2, <1>3, <1>4
<1>7. Mapped(Reverse(s)) = Reverse(m)
  BY <1>1, <1>2, <1>5, <1>6, MapsTo
<1> QED BY <1>5, <1>6, <1>7 DEF m

LEMMA ConcatMapped ==
    ASSUME NEW s \in Seq(JsonTexts), NEW t \in Seq(JsonTexts)
    PROVE  s \o t \in Seq(JsonTexts) /\ Len(s \o t) = Len(s) + Len(t)
           /\ Mapped(s \o t) = Mapped(s) \o Mapped(t)
<1> DEFINE m == Mapped(s)
           n == Mapped(t)
<1>1. /\ m \in Seq(JsElements) /\ Len(m) = Len(s) /\ \A i \in 1..Len(s) : m[i] = Element(s[i])
      /\ n \in Seq(JsElements) /\ Len(n) = Len(t) /\ \A i \in 1..Len(t) : n[i] = Element(t[i])
  BY MappedSeq
<1> HIDE DEF m, n
<1>2. /\ s \o t \in Seq(JsonTexts) /\ Len(s \o t) = Len(s) + Len(t)
      /\ \A i \in 1..(Len(s) + Len(t)) : (s \o t)[i] = IF i <= Len(s) THEN s[i] ELSE t[i - Len(s)]
  BY ConcatProperties
<1>3. /\ m \o n \in Seq(JsElements) /\ Len(m \o n) = Len(s) + Len(t)
      /\ \A i \in 1..(Len(s) + Len(t)) : (m \o n)[i] = IF i <= Len(s) THEN m[i] ELSE n[i - Len(s)]
  <2>1. m \in Seq(JsElements) /\ n \in Seq(JsElements) /\ Len(m) = Len(s) /\ Len(n) = Len(t)
    BY <1>1
  <2>2. /\ m \o n \in Seq(JsElements) /\ Len(m \o n) = Len(m) + Len(n)
        /\ \A i \in 1..(Len(m) + Len(n)) : (m \o n)[i] = IF i <= Len(m) THEN m[i] ELSE n[i - Len(m)]
    BY <2>1, ConcatProperties
  <2> QED BY <2>1, <2>2
<1>4. \A i \in 1..Len(s \o t) : (m \o n)[i] = Element((s \o t)[i])
  <2> SUFFICES ASSUME NEW i \in 1..Len(s \o t) PROVE (m \o n)[i] = Element((s \o t)[i])
    OBVIOUS
  <2>1. Len(s) \in Nat /\ Len(t) \in Nat /\ i \in 1..(Len(s) + Len(t))
    BY <1>2
  <2>2. CASE i <= Len(s)
    BY <1>1, <1>2, <1>3, <2>1, <2>2
  <2>3. CASE ~(i <= Len(s))
    <3>1. i - Len(s) \in 1..Len(t)
      BY <2>1, <2>3
    <3> QED BY <1>1, <1>2, <1>3, <2>1, <2>3, <3>1
  <2> QED BY <2>2, <2>3
<1> DEFINE c == s \o t
           u == m \o n
<1>5. c \in Seq(JsonTexts) /\ u \in Seq(JsElements) /\ Len(u) = Len(c) /\ \A i \in 1..Len(c) : u[i] = Element(c[i])
  BY <1>2, <1>3, <1>4
<1> HIDE DEF c, u
<1>6. Mapped(c) = u
  BY <1>5, MapsTo
<1> QED BY <1>2, <1>6 DEF m, n, c, u

LEMMA SingleMapped ==
    ASSUME NEW t \in JsonTexts
    PROVE  <<t>> \in Seq(JsonTexts) /\ Len(<<t>>) = 1 /\ Mapped(<<t>>) = <<Element(t)>>
<1>1. <<t>> \in Seq(JsonTexts) /\ Len(<<t>>) = 1 /\ <<t>>[1] = t
  OBVIOUS
<1>2. Element(t) \in JsElements
  BY DEF JsElements
<1> DEFINE c == <<t>>
           u == <<Element(t)>>
<1>3. u \in Seq(JsElements) /\ Len(u) = 1 /\ u[1] = Element(t)
  BY <1>2
<1>4. c \in Seq(JsonTexts) /\ Len(c) = 1 /\ c[1] = t
  BY <1>1
<1> HIDE DEF c, u
<1>5. \A i \in 1..Len(c) : u[i] = Element(c[i])
  BY <1>3, <1>4
<1>6. Mapped(c) = u
  BY <1>3, <1>4, <1>5, MapsTo
<1> QED BY <1>4, <1>6 DEF c, u

\* A piece of a sequence, as Redis and as the store cut it.
LEMMA PieceMapped ==
    ASSUME NEW s \in Seq(JsonTexts), NEW i \in 1..(Len(s) + 1), NEW j \in 0..Len(s)
    PROVE  SubSeq(s, i, j) \in Seq(JsonTexts) /\ Len(SubSeq(s, i, j)) <= Len(s)
           /\ Len(SubSeq(s, i, j)) = (IF i <= j THEN j - i + 1 ELSE 0)
           /\ Mapped(SubSeq(s, i, j)) = Promised!Cut(Mapped(s), i, j)
<1> DEFINE m == Mapped(s)
<1>1. Len(s) \in Nat /\ (\A l \in 1..Len(s) : s[l] \in JsonTexts) /\ m \in Seq(JsElements) /\ Len(m) = Len(s)
      /\ \A l \in 1..Len(s) : m[l] = Element(s[l])
  BY MappedSeq
<1> HIDE DEF m
<1>2. \A l \in i..j : l \in 1..Len(s) /\ s[l] \in JsonTexts /\ m[l] \in JsElements
  BY <1>1
<1>3. /\ SubSeq(s, i, j) \in Seq(JsonTexts) /\ Len(SubSeq(s, i, j)) = (IF i <= j THEN j - i + 1 ELSE 0)
      /\ \A l \in 1..(j - i + 1) : SubSeq(s, i, j)[l] = s[i + l - 1]
  BY <1>1, <1>2, SubSeqProperties
<1>4. CASE i <= j
  <2>1. /\ SubSeq(m, i, j) \in Seq(JsElements) /\ Len(SubSeq(m, i, j)) = j - i + 1
        /\ \A l \in 1..(j - i + 1) : SubSeq(m, i, j)[l] = m[i + l - 1]
    BY <1>1, <1>2, <1>4, SubSeqProperties
  <2>2. \A l \in 1..(j - i + 1) : i + l - 1 \in 1..Len(s)
    BY <1>1
  <2> DEFINE c == SubSeq(s, i, j)
             u == SubSeq(m, i, j)
  <2>5. c \in Seq(JsonTexts) /\ u \in Seq(JsElements) /\ Len(c) = j - i + 1 /\ Len(u) = j - i + 1
    BY <1>3, <1>4, <2>1
  <2>6. \A l \in 1..(j - i + 1) : u[l] = Element(c[l])
    BY <1>1, <1>3, <2>1, <2>2
  <2> HIDE DEF c, u
  <2>7. Mapped(c) = u
    BY <2>5, <2>6, MapsTo
  <2>3. Mapped(SubSeq(s, i, j)) = SubSeq(m, i, j)
    BY <2>7 DEF c, u
  <2>4. Promised!Cut(m, i, j) = SubSeq(m, i, j)
    BY <1>1, <1>4 DEF Promised!Cut
  <2> QED BY <1>1, <1>3, <1>4, <2>3, <2>4 DEF m
<1>5. CASE i > j
  <2>1. SubSeq(s, i, j) = <<>>
    BY <1>5, SubSeqEmpty
  <2>2. Promised!Cut(m, i, j) = <<>>
    BY <1>5 DEF Promised!Cut
  <2> QED BY <1>1, <1>3, <1>5, <2>1, <2>2, EmptyMapped DEF m
<1> QED BY <1>1, <1>4, <1>5

LEMMA TailMapped ==
    ASSUME NEW s \in Seq(JsonTexts), s # <<>>
    PROVE  Tail(s) \in Seq(JsonTexts) /\ Len(Tail(s)) <= Len(s) /\ Mapped(Tail(s)) = Tail(Mapped(s))
<1> DEFINE m == Mapped(s)
<1>1. Len(s) \in Nat /\ (\A l \in 1..Len(s) : s[l] \in JsonTexts) /\ m \in Seq(JsElements) /\ Len(m) = Len(s)
      /\ \A l \in 1..Len(s) : m[l] = Element(s[l])
  BY MappedSeq
<1> HIDE DEF m
<1>2. Len(s) # 0 /\ m # <<>>
  BY <1>1
<1>3. /\ Tail(s) \in Seq(JsonTexts) /\ Len(Tail(s)) = Len(s) - 1 /\ \A i \in 1..Len(Tail(s)) : Tail(s)[i] = s[i + 1]
  BY HeadTailProperties
<1>4. /\ Tail(m) \in Seq(JsElements) /\ Len(Tail(m)) = Len(s) - 1 /\ \A i \in 1..Len(Tail(m)) : Tail(m)[i] = m[i + 1]
  BY <1>1, <1>2, HeadTailProperties
<1>5. \A i \in 1..Len(Tail(s)) : i + 1 \in 1..Len(s)
  BY <1>1, <1>2, <1>3
<1> DEFINE c == Tail(s)
           u == Tail(m)
<1>6. c \in Seq(JsonTexts) /\ u \in Seq(JsElements) /\ Len(c) = Len(s) - 1 /\ Len(u) = Len(s) - 1
  BY <1>3, <1>4
<1>7. \A i \in 1..Len(c) : u[i] = Element(c[i])
  BY <1>1, <1>3, <1>4, <1>5
<1> HIDE DEF c, u
<1>8. Mapped(c) = u
  BY <1>6, <1>7, MapsTo
<1> QED BY <1>1, <1>6, <1>8 DEF m, c, u

LEMMA ExceptMapped ==
    ASSUME NEW s \in Seq(JsonTexts), NEW i \in 1..Len(s), NEW v, Stringify(v) \in JsonTexts
    PROVE  [s EXCEPT ![i] = Stringify(v)] \in Seq(JsonTexts) /\ Len([s EXCEPT ![i] = Stringify(v)]) = Len(s)
           /\ Mapped([s EXCEPT ![i] = Stringify(v)]) = [Mapped(s) EXCEPT ![i] = v]
<1> DEFINE m == Mapped(s)
<1>1. Len(s) \in Nat /\ m \in Seq(JsElements) /\ Len(m) = Len(s) /\ \A l \in 1..Len(s) : m[l] = Element(s[l])
  BY MappedSeq
<1> HIDE DEF m
<1>2. v \in JsElements /\ Element(Stringify(v)) = v
  BY ElementIs DEF JsElements
<1> DEFINE e == Stringify(v)
<1>3. e \in JsonTexts /\ Element(e) = v
  BY <1>2
<1> HIDE DEF e
<1>4. /\ [s EXCEPT ![i] = e] \in Seq(JsonTexts) /\ Len([s EXCEPT ![i] = e]) = Len(s)
      /\ \A j \in 1..Len(s) : [s EXCEPT ![i] = e][j] = IF j = i THEN e ELSE s[j]
  BY <1>3, ExceptSeq
<1>5. /\ [m EXCEPT ![i] = v] \in Seq(JsElements) /\ Len([m EXCEPT ![i] = v]) = Len(s)
      /\ \A j \in 1..Len(s) : [m EXCEPT ![i] = v][j] = IF j = i THEN v ELSE m[j]
  BY <1>1, <1>2, ExceptSeq
<1> DEFINE c == [s EXCEPT ![i] = e]
           u == [m EXCEPT ![i] = v]
<1>6. c \in Seq(JsonTexts) /\ u \in Seq(JsElements) /\ Len(c) = Len(s) /\ Len(u) = Len(s)
  BY <1>4, <1>5
<1>7. \A l \in 1..Len(s) : u[l] = Element(c[l])
  BY <1>1, <1>3, <1>4, <1>5
<1> HIDE DEF c, u
<1>8. Mapped(c) = u
  BY <1>6, <1>7, MapsTo
<1> QED BY <1>6, <1>8 DEF m, e, c, u

LEMMA AppendMapped ==
    ASSUME NEW s \in Seq(JsonTexts), NEW t \in JsonTexts
    PROVE  Append(s, t) \in Seq(JsonTexts) /\ Mapped(Append(s, t)) = Append(Mapped(s), Element(t))
<1> DEFINE m == Mapped(s)
           e == Element(t)
<1>1. Len(s) \in Nat /\ m \in Seq(JsElements) /\ Len(m) = Len(s) /\ \A l \in 1..Len(s) : m[l] = Element(s[l])
  BY MappedSeq
<1>2. e \in JsElements
  BY DEF JsElements
<1> HIDE DEF m
<1> DEFINE c == Append(s, t)
           u == Append(m, e)
<1>3. /\ c \in Seq(JsonTexts) /\ Len(c) = Len(s) + 1 /\ c[Len(s) + 1] = t
      /\ \A l \in 1..Len(s) : c[l] = s[l]
  BY AppendProperties
<1>4. /\ u \in Seq(JsElements) /\ Len(u) = Len(s) + 1 /\ u[Len(s) + 1] = e
      /\ \A l \in 1..Len(s) : u[l] = m[l]
  <2> HIDE DEF e
  <2>1. m \in Seq(JsElements) /\ Len(m) = Len(s)
    BY <1>1
  <2> QED BY <1>2, <2>1, AppendProperties
<1> HIDE DEF c, u
<1>5. \A l \in 1..Len(c) : u[l] = Element(c[l])
  <2> SUFFICES ASSUME NEW l \in 1..Len(c) PROVE u[l] = Element(c[l])
    OBVIOUS
  <2>1. CASE l \in 1..Len(s)
    BY <1>1, <1>3, <1>4, <2>1
  <2>2. CASE l = Len(s) + 1
    BY <1>3, <1>4, <2>2
  <2> QED BY <1>1, <1>3, <2>1, <2>2
<1>6. Mapped(c) = u
  BY <1>3, <1>4, <1>5, MapsTo
<1> QED BY <1>3, <1>6 DEF c, u, m, e

\* What is picked of the values is what is picked of the texts.
LEMMA PickedMaps ==
    ASSUME NEW s \in Seq(JsonTexts), NEW S
    PROVE  /\ Picked(s, S) \in Seq(JsonTexts)
           /\ Mapped(Picked(s, S)) = Promised!Picked(Mapped(s), S)
<1> DEFINE m == Mapped(s)
<1>1. /\ Len(s) \in Nat /\ (\A i \in 1..Len(s) : s[i] \in JsonTexts)
      /\ Len(m) = Len(s) /\ \A i \in 1..Len(s) : m[i] = Element(s[i])
  BY MappedSeq
<1> HIDE DEF m
<1>2. PICK p : IsPicked(p, s, S, Len(s)) /\ Picked(s, S) = p[Len(s)]
  BY <1>1, PickedIs
<1>3. PICK q : IsPicked(q, m, S, Len(s)) /\ Picked(m, S) = q[Len(s)]
  BY <1>1, PickedIs
<1>4. \A i \in 0..Len(s) :
         p[i] = IF i = 0 THEN <<>> ELSE IF i \in S THEN Append(p[i - 1], s[i]) ELSE p[i - 1]
  BY <1>2, Zenon DEF IsPicked
<1>5. \A i \in 0..Len(s) :
         q[i] = IF i = 0 THEN <<>> ELSE IF i \in S THEN Append(q[i - 1], m[i]) ELSE q[i - 1]
  BY <1>3, Zenon DEF IsPicked
<1> DEFINE Bad == {i \in 0..Len(s) : ~(p[i] \in Seq(JsonTexts) /\ Mapped(p[i]) = q[i])}
<1>6. Bad = {}
  <2> SUFFICES ASSUME Bad # {} PROVE FALSE
    OBVIOUS
  <2>0. Bad \in SUBSET Nat
    BY <1>1
  <2> HIDE DEF Bad
  <2>1. PICK x \in Bad : \A y \in Bad : x <= y
    BY <2>0, LeastOne
  <2> USE DEF Bad
  <2>2. CASE x = 0
    <3>1. p[x] = <<>> /\ q[x] = <<>>
      BY <1>4, <1>5, <2>1, <2>2
    <3>2. <<>> \in Seq(JsonTexts)
      OBVIOUS
    <3> QED BY <2>1, <2>2, <3>1, <3>2, EmptyMapped
  <2>3. CASE x # 0
    <3>1. x - 1 \in 0..Len(s) /\ x \in 1..Len(s) /\ x - 1 \notin Bad
      BY <1>1, <2>1, <2>3
    <3>2. p[x - 1] \in Seq(JsonTexts) /\ Mapped(p[x - 1]) = q[x - 1]
      BY <3>1
    <3>3. p[x] = (IF x \in S THEN Append(p[x - 1], s[x]) ELSE p[x - 1])
          /\ q[x] = (IF x \in S THEN Append(q[x - 1], m[x]) ELSE q[x - 1])
      BY <1>4, <1>5, <2>1, <2>3
    <3> DEFINE a == p[x - 1]
               t == s[x]
    <3>4. a \in Seq(JsonTexts) /\ t \in JsonTexts /\ m[x] = Element(t) /\ q[x - 1] = Mapped(a)
      BY <1>1, <3>1, <3>2
    <3>5. p[x] = (IF x \in S THEN Append(a, t) ELSE a) /\ q[x] = (IF x \in S THEN Append(q[x - 1], m[x]) ELSE q[x - 1])
      BY <3>3
    <3> HIDE DEF a, t, Bad
    <3>6. Append(a, t) \in Seq(JsonTexts) /\ Mapped(Append(a, t)) = Append(Mapped(a), Element(t))
      BY <3>4, AppendMapped
    <3>7. p[x] \in Seq(JsonTexts) /\ Mapped(p[x]) = q[x]
      <4>1. CASE x \in S
        BY <3>4, <3>5, <3>6, <4>1
      <4>2. CASE x \notin S
        BY <3>4, <3>5, <4>2
      <4> QED BY <4>1, <4>2
    <3> QED BY <2>1, <3>7 DEF Bad
  <2> QED BY <2>2, <2>3
<1>7. Len(s) \in 0..Len(s) /\ Len(s) \notin Bad
  BY <1>1, <1>6
<1>8. Picked(s, S) \in Seq(JsonTexts) /\ Mapped(Picked(s, S)) = Picked(m, S)
  BY <1>2, <1>3, <1>7
<1>9. Picked(m, S) = Promised!Picked(m, S)
  BY DEF Picked, Promised!Picked
<1> QED BY <1>8, <1>9 DEF m

-----------------------------------------------------------------------------
(* Lists as the store sees them                                            *)

LEMMA ListMapped ==
    ASSUME DataInv, NEW k \in Keys, IsOf(k, "list")
    PROVE  /\ Promised!Free(k, "list") /\ Promised!Held(k, "list") = Mapped(List(k))
           /\ List(k) \in Seq(JsonTexts) /\ Len(List(k)) \in Nat
           /\ Mapped(List(k)) \in Seq(JsElements) /\ Len(Mapped(List(k))) = Len(List(k))
           /\ \A i \in 1..Len(List(k)) : Mapped(List(k))[i] = Element(List(k)[i])
           /\ db[k] = Absent <=> Len(List(k)) = 0
<1>1. /\ List(k) \in Seq(JsonTexts) /\ (db[k] = Absent <=> List(k) = <<>>)
      /\ db[k] # Absent => db[k] = <<"list", List(k)>>
  BY ListSeen DEF DataInv
<1>2. CASE db[k] = Absent
  <2>1. [j \in Keys |-> AsJs(db[j])][k] = <<"nothing">>
    BY <1>2, JsOfAbsent, StoreOf
  <2>2. Promised!Held(k, "list") = <<>> /\ Promised!Free(k, "list")
    BY <2>1 DEF Promised!Held, Promised!Is, Promised!Free, Promised!Nothing
  <2> QED BY <1>1, <1>2, <2>2, EmptyMapped, MappedSeq
<1>3. CASE db[k] # Absent
  <2> DEFINE l == List(k)
  <2>1. l \in Seq(JsonTexts) /\ l # <<>> /\ db[k] = <<"list", l>>
    BY <1>1, <1>3
  <2> HIDE DEF l
  <2>2. [j \in Keys |-> AsJs(db[j])][k] = <<"list", Mapped(l)>>
    BY <2>1, JsOfElements, StoreOf
  <2>3. Promised!Held(k, "list") = Mapped(l) /\ Promised!Free(k, "list")
    BY <2>2 DEF Promised!Held, Promised!Is, Promised!Free
  <2>4. Len(l) # 0
    BY <2>1
  <2> QED BY <1>3, <2>1, <2>3, <2>4, MappedSeq DEF l
<1> QED BY <1>2, <1>3

\* What a list that was written is to the store.
LEMMA JsOfList ==
    ASSUME NEW c \in Seq(JsonTexts)
    PROVE  AsJs(IF Emptied("list", c) THEN Absent ELSE <<"list", c>>) = Promised!ListOf(Mapped(c))
<1>1. Mapped(c) \in Seq(JsElements) /\ Len(Mapped(c)) = Len(c)
  BY MappedSeq
<1>2. CASE c = <<>>
  BY <1>2, EmptyMapped, JsOfAbsent DEF Emptied, Promised!ListOf, Promised!Nothing
<1>3. CASE c # <<>>
  <2>1. ~Emptied("list", c)
    BY <1>3 DEF Emptied
  <2>2. Mapped(c) # <<>>
    BY <1>1, <1>3
  <2> QED BY <2>1, <2>2, JsOfElements DEF Promised!ListOf
<1> QED BY <1>2, <1>3

\* A command that writes a list, and one that answers an element.
LEMMA ListWriteMaps ==
    ASSUME DataInv, NEW k \in Keys, NEW c \in Seq(JsonTexts), NEW a, Writes(k, "list", c, a),
           NEW Hs, Promised!ListOf(Mapped(c)) \in Hs
    PROVE  Promised!Change(k, Hs, a)
<1> DEFINE v == AsJs(IF Emptied("list", c) THEN Absent ELSE <<"list", c>>)
<1>1. v \in Hs
  BY JsOfList
<1> QED BY <1>1, WritesMap

LEMMA JsElement ==
    ASSUME NEW t \in JsonTexts
    PROVE  Js(t) = <<"js", Element(t)>>
BY ElementIs DEF Js

LEMMA PushesMap ==
    ASSUME DataInv, NEW k \in Keys, IsOf(k, "list"), NEW vs \in Pushed, LPush(k, vs) \/ RPush(k, vs)
    PROVE  Promised!Lists(k)
<1> DEFINE s == List(k)
           l == Promised!Held(k, "list")
           left == Promised!Reverse(vs) \o l
           right == l \o vs
<1>1. Promised!Free(k, "list") /\ l = Mapped(s) /\ s \in Seq(JsonTexts)
  BY ListMapped
<1>2. vs \in Promised!Pushes /\ vs \in Seq(Inputs)
  <2>1. CASE \E v \in Inputs : vs = <<v>>
    BY <2>1, SameValues DEF Promised!Pushes
  <2>2. CASE \E v, w \in Inputs : vs = <<v, w>>
    BY <2>2, SameValues DEF Promised!Pushes
  <2> QED BY <2>1, <2>2 DEF Pushed
<1> HIDE DEF s
<1>3. /\ Texts(vs) \in Seq(JsonTexts) /\ Mapped(Texts(vs)) = vs
      /\ Reverse(Texts(vs)) \in Seq(JsonTexts) /\ Mapped(Reverse(Texts(vs))) = Reverse(vs)
  <2>1. Texts(vs) \in Seq(JsonTexts) /\ Mapped(Texts(vs)) = vs
    BY <1>2, TextsMapped
  <2> QED BY <2>1, ReverseMapped
<1>4. Reverse(vs) = Promised!Reverse(vs)
  BY DEF Reverse, Promised!Reverse
<1>5. CASE LPush(k, vs)
  <2> DEFINE t == Reverse(Texts(vs))
             c == t \o s
  <2>1. Writes(k, "list", c, PushedLeft(vs))
    BY <1>5 DEF LPush, s
  <2> HIDE DEF t, l
  <2>2. c \in Seq(JsonTexts) /\ Mapped(c) = left
    <3>1. t \in Seq(JsonTexts) /\ Mapped(t) = Promised!Reverse(vs)
      BY <1>3, <1>4 DEF t
    <3> QED BY <1>1, <3>1, ConcatMapped
  <2> HIDE DEF c, left
  <2>3. Promised!Change(k, {Promised!ListOf(left)}, Promised!PushedLeft(vs))
    BY <2>1, <2>2, ListWriteMaps, SameValues
  <2>4. Promised!Push(k, vs)
    BY <2>3 DEF Promised!Push, left, l
  <2> QED BY <1>1, <1>2, <2>4 DEF Promised!Lists
<1>6. CASE RPush(k, vs)
  <2> DEFINE t == Texts(vs)
             c == s \o t
  <2>1. Writes(k, "list", c, PushedRight(vs))
    BY <1>6 DEF RPush, s
  <2> HIDE DEF t, l
  <2>2. c \in Seq(JsonTexts) /\ Mapped(c) = right
    <3>1. t \in Seq(JsonTexts) /\ Mapped(t) = vs
      BY <1>3 DEF t
    <3> QED BY <1>1, <3>1, ConcatMapped
  <2> HIDE DEF c, right
  <2>3. Promised!Change(k, {Promised!ListOf(right)}, Promised!PushedRight(vs))
    BY <2>1, <2>2, ListWriteMaps, SameValues
  <2>4. Promised!Push(k, vs)
    BY <2>3 DEF Promised!Push, right, l
  <2> QED BY <1>1, <1>2, <2>4 DEF Promised!Lists
<1> QED BY <1>5, <1>6

LEMMA PopsMap ==
    ASSUME DataInv, NEW k \in Keys, IsOf(k, "list"), LPop(k) \/ RPop(k)
    PROVE  Promised!Lists(k)
<1> DEFINE s == List(k)
           l == Promised!Held(k, "list")
           n == Len(l)
<1>1. /\ Promised!Free(k, "list") /\ l = Mapped(s) /\ s \in Seq(JsonTexts) /\ Len(s) \in Nat
      /\ Len(Mapped(s)) = Len(s) /\ (\A i \in 1..Len(s) : Mapped(s)[i] = Element(s[i]))
      /\ (db[k] = Absent <=> Len(s) = 0)
  BY ListMapped
<1> HIDE DEF s
<1>2. CASE db[k] = Absent
  <2>1. Promised!Answer(Promised!Null)
    BY <1>2, AnswerMaps, SameValues DEF LPop, RPop
  <2> QED BY <1>1, <2>1 DEF Promised!Lists, Promised!ReadList
<1>3. CASE db[k] # Absent
  <2>1. Len(s) # 0 /\ Len(s) > 0 /\ 1 \in 1..Len(s) /\ Len(s) \in 1..Len(s) /\ s # <<>>
    BY <1>1, <1>3
  <2>2. s[1] \in JsonTexts /\ s[Len(s)] \in JsonTexts
    BY <1>1, <2>1
  <2>3. Js(s[1]) = <<"js", l[1]>> /\ Js(s[Len(s)]) = <<"js", l[n]>>
    <3> HIDE DEF l
    <3>1. Js(s[1]) = <<"js", Element(s[1])>> /\ Js(s[Len(s)]) = <<"js", Element(s[Len(s)])>>
      BY <2>2, JsElement
    <3>2. n = Len(s) /\ l[1] = Element(s[1]) /\ l[Len(s)] = Element(s[Len(s)])
      BY <1>1, <2>1
    <3> QED BY <3>1, <3>2
  <2>4. n > 0
    BY <1>1, <2>1
  <2>5. CASE LPop(k)
    <3> DEFINE c == Tail(s)
               u == Tail(l)
    <3>1. Writes(k, "list", c, <<"js", l[1]>>)
      BY <1>3, <2>3, <2>5 DEF LPop, s
    <3>2. c \in Seq(JsonTexts) /\ Mapped(c) = u
      <4> HIDE DEF l
      <4> QED BY <1>1, <2>1, TailMapped
    <3> HIDE DEF c, u
    <3>3. Promised!Change(k, {Promised!ListOf(u)}, <<"js", l[1]>>)
      BY <3>1, <3>2, ListWriteMaps
    <3> QED BY <1>1, <2>4, <3>3 DEF Promised!Lists, Promised!Pop, u
  <2>6. CASE RPop(k)
    <3> DEFINE c == SubSeq(s, 1, Len(s) - 1)
               u == Promised!Cut(l, 1, n - 1)
    <3>1. Writes(k, "list", c, <<"js", l[n]>>)
      BY <1>3, <2>3, <2>6 DEF RPop, s, Front, Last
    <3>2. c \in Seq(JsonTexts) /\ Mapped(c) = u
      <4> HIDE DEF l
      <4>1. Len(s) - 1 \in 0..Len(s) /\ 1 \in 1..(Len(s) + 1) /\ n - 1 = Len(s) - 1
        BY <1>1, <2>1
      <4>2. c \in Seq(JsonTexts) /\ Mapped(c) = Promised!Cut(Mapped(s), 1, Len(s) - 1)
        BY <1>1, <4>1, PieceMapped
      <4> QED BY <1>1, <4>1, <4>2
    <3> HIDE DEF c, u
    <3>3. Promised!Change(k, {Promised!ListOf(u)}, <<"js", l[n]>>)
      BY <3>1, <3>2, ListWriteMaps
    <3> QED BY <1>1, <2>4, <3>3 DEF Promised!Lists, Promised!Pop, u
  <2> QED BY <2>5, <2>6
<1> QED BY <1>2, <1>3

LEMMA ListReadsMap ==
    ASSUME DataInv, NEW k \in Keys, IsOf(k, "list"), LRange(k) \/ (\E i \in 1..MaxLen : LIndex(k, i))
    PROVE  Promised!Lists(k)
<1> DEFINE s == List(k)
           l == Promised!Held(k, "list")
<1>1. /\ Promised!Free(k, "list") /\ l = Mapped(s) /\ s \in Seq(JsonTexts) /\ Len(s) \in Nat
      /\ Len(Mapped(s)) = Len(s) /\ (\A i \in 1..Len(s) : Mapped(s)[i] = Element(s[i]))
  BY ListMapped
<1> HIDE DEF s
<1>2. DOMAIN s = 1..Len(s) /\ \A i \in 1..Len(s) : s[i] \in JsonTexts
  BY <1>1
<1>3. CASE LRange(k)
  <2>1. Answers(JsList(s))
    BY <1>3 DEF LRange, s
  <2>2. JsList(s) = <<"list", Mapped(s)>>
    <3>1. \A i \in DOMAIN s : ParseOrRaw(s[i]) = Element(s[i])
      BY <1>2, ElementIs
    <3>2. [i \in DOMAIN s |-> ParseOrRaw(s[i])] = Mapped(s)
      BY <3>1 DEF Mapped
    <3> QED BY <3>2 DEF JsList
  <2>3. Promised!Answer(<<"list", l>>)
    BY <1>1, <2>1, <2>2, AnswerMaps
  <2> QED BY <1>1, <2>3 DEF Promised!Lists, Promised!ReadList
<1>4. ASSUME NEW i \in 1..MaxLen, LIndex(k, i) PROVE Promised!Lists(k)
  <2>1. CASE i \in 1..Len(s)
    <3>1. Answers(Js(s[i]))
      BY <1>2, <1>4, <2>1 DEF LIndex, s
    <3>2. Js(s[i]) = <<"js", l[i]>>
      <4>1. Js(s[i]) = <<"js", Element(s[i])>>
        BY <1>2, <2>1, JsElement
      <4>2. l[i] = Element(s[i]) 
        <5> HIDE DEF l
        <5> QED BY <1>1, <2>1
      <4> QED BY <4>1, <4>2
    <3>3. Promised!Answer(<<"js", l[i]>>) /\ i \in 1..Len(l)
      BY <1>1, <2>1, <3>1, <3>2, AnswerMaps
    <3> QED BY <1>1, <3>3 DEF Promised!Lists, Promised!ReadList
  <2>2. CASE i \notin 1..Len(s)
    <3>1. Promised!Answer(Promised!Null)
      BY <1>2, <1>4, <2>2, AnswerMaps, SameValues DEF LIndex, s
    <3> QED BY <1>1, <3>1 DEF Promised!Lists, Promised!ReadList
  <2> QED BY <2>1, <2>2
<1> QED BY <1>3, <1>4

LEMMA ListSetMaps ==
    ASSUME DataInv, NEW k \in Keys, IsOf(k, "list"), NEW i \in 1..MaxLen, NEW v \in Inputs, LSet(k, i, v)
    PROVE  Promised!Lists(k) \/ Promised!Values(k)
<1> DEFINE s == List(k)
           l == Promised!Held(k, "list")
           n == Len(l)
<1>1. /\ Promised!Free(k, "list") /\ l = Mapped(s) /\ s \in Seq(JsonTexts) /\ Len(s) \in Nat
      /\ Len(Mapped(s)) = Len(s)
  BY ListMapped
<1> HIDE DEF s
<1>2. DOMAIN s = 1..Len(s)
  BY <1>1
<1>3. CASE i \notin 1..Len(s)
  <2>1. Answers(Thrown)
    BY <1>2, <1>3 DEF LSet, s
  <2> QED BY <2>1, DoneMaps
<1>4. CASE i \in 1..Len(s)
  <2> DEFINE c == [s EXCEPT ![i] = Stringify(v)]
             Hs == {Promised!ListOf([l EXCEPT ![j] = v]) : j \in 1..n}
  <2>1. Writes(k, "list", c, Wrote(v))
    BY <1>2, <1>4 DEF LSet, s
  <2>2. c \in Seq(JsonTexts) /\ Mapped(c) = [l EXCEPT ![i] = v]
    <3>1. Stringify(v) \in JsonTexts
      BY Texting
    <3>2. c \in Seq(JsonTexts) /\ Mapped(c) = [Mapped(s) EXCEPT ![i] = v]
      BY <1>1, <1>4, <3>1, ExceptMapped
    <3> QED BY <1>1, <3>2
  <2>3. i \in 1..n
    BY <1>1, <1>4
  <2> HIDE DEF l, n, c
  <2>4. Promised!ListOf(Mapped(c)) \in Hs
    BY <2>2, <2>3
  <2> HIDE DEF Hs
  <2>5. Promised!Change(k, Hs, Promised!Wrote(v))
    BY <2>1, <2>2, <2>4, ListWriteMaps, SameValues
  <2>6. Promised!Place(k, v)
    BY <2>5 DEF Promised!Place, Hs, n, l
  <2> QED BY <1>1, <2>6, SameValues DEF Promised!Lists
<1> QED BY <1>3, <1>4

LEMMA ListInsertMaps ==
    ASSUME DataInv, NEW k \in Keys, IsOf(k, "list"), NEW pivot \in Inputs, NEW v \in Inputs,
           NEW before \in BOOLEAN, LInsert(k, pivot, v, before)
    PROVE  Promised!Lists(k) \/ Promised!Values(k)
<1> DEFINE s == List(k)
           l == Promised!Held(k, "list")
           n == Len(l)
           at == {i \in DOMAIN s : s[i] = Stringify(pivot)}
<1>1. /\ Promised!Free(k, "list") /\ l = Mapped(s) /\ s \in Seq(JsonTexts) /\ Len(s) \in Nat
      /\ Len(Mapped(s)) = Len(s)
  BY ListMapped
<1> HIDE DEF s
<1>2. DOMAIN s = 1..Len(s)
  BY <1>1
<1>3. CASE at = {}
  <2>1. Answers(Done)
    BY <1>3 DEF LInsert, s
  <2> QED BY <2>1, DoneMaps
<1>4. CASE at # {}
  <2> DEFINE p == CHOOSE i \in at : \A j \in at : i <= j
             q == IF before THEN p ELSE p + 1
             i == q - 1
             c == InsertAt(s, q, Stringify(v))
             Hs == {Promised!ListOf(Promised!Cut(l, 1, j) \o <<v>> \o Promised!Cut(l, j + 1, n)) : j \in 0..n}
  <2>1. p \in at
    <3>1. at \in SUBSET Nat
      BY <1>1, <1>2
    <3>2. \E x \in at : \A y \in at : x <= y
      BY <1>4, <3>1, LeastOne
    <3> QED BY <3>2
  <2>2. Writes(k, "list", c, Wrote(v))
    BY <1>4 DEF LInsert, s
  <2>3. q \in 1..(Len(s) + 1)
    BY <1>1, <1>2, <2>1
  <2> HIDE DEF q
  <2>4. i \in 0..Len(s) /\ i + 1 = q /\ 1 \in 1..(Len(s) + 1) /\ Len(s) \in 0..Len(s)
    BY <1>1, <2>3
  <2>5. n = Len(s)
    BY <1>1
  <2> DEFINE a == SubSeq(s, 1, i)
             z == SubSeq(s, q, Len(s))
             b == <<Stringify(v)>>
             m == Promised!Cut(l, 1, i) \o <<v>> \o Promised!Cut(l, i + 1, n)
  <2>6. c = a \o b \o z
    BY DEF InsertAt
  <2> HIDE DEF l, n, i, c
  <2>7. a \in Seq(JsonTexts) /\ Mapped(a) = Promised!Cut(l, 1, i)
    BY <1>1, <2>4, PieceMapped
  <2>8. z \in Seq(JsonTexts) /\ Mapped(z) = Promised!Cut(l, i + 1, n)
    <3>1. z \in Seq(JsonTexts) /\ Mapped(z) = Promised!Cut(Mapped(s), q, Len(s))
      BY <1>1, <2>3, <2>4, PieceMapped
    <3> QED BY <1>1, <2>4, <2>5, <3>1
  <2>9. b \in Seq(JsonTexts) /\ Mapped(b) = <<v>>
    <3>1. Stringify(v) \in JsonTexts /\ Element(Stringify(v)) = v
      BY Texting, ElementIs
    <3> QED BY <3>1, SingleMapped
  <2> HIDE DEF a, b, z
  <2>10. c \in Seq(JsonTexts) /\ Mapped(c) = m
    <3> DEFINE d == a \o b
    <3>1. d \in Seq(JsonTexts) /\ Mapped(d) = Mapped(a) \o Mapped(b)
      BY <2>7, <2>9, ConcatMapped
    <3> HIDE DEF d
    <3>2. d \o z \in Seq(JsonTexts) /\ Mapped(d \o z) = Mapped(d) \o Mapped(z)
      BY <2>8, <3>1, ConcatMapped
    <3> QED BY <2>6, <2>7, <2>8, <2>9, <3>1, <3>2 DEF d
  <2>11. Promised!ListOf(Mapped(c)) \in Hs
    <3>1. i \in 0..n
      BY <2>4, <2>5
    <3> QED BY <2>10, <3>1
  <2> HIDE DEF Hs
  <2>12. Promised!Change(k, Hs, Promised!Wrote(v))
    BY <2>2, <2>10, <2>11, ListWriteMaps, SameValues
  <2>13. Promised!Place(k, v)
    BY <2>12 DEF Promised!Place, Hs, n, l
  <2> QED BY <1>1, <2>13, SameValues DEF Promised!Lists
<1> QED BY <1>3, <1>4

LEMMA RemovalsMap ==
    ASSUME DataInv, NEW k \in Keys, IsOf(k, "list"),
           \/ \E v \in Inputs, count \in {-1, 0, 1} : LRem(k, count, v)
           \/ \E from, to \in 1..MaxLen : LTrim(k, from, to)
    PROVE  Promised!Lists(k)
<1> DEFINE s == List(k)
           l == Promised!Held(k, "list")
           n == Len(l)
<1>1. /\ Promised!Free(k, "list") /\ l = Mapped(s) /\ s \in Seq(JsonTexts) /\ Len(s) \in Nat
      /\ Len(Mapped(s)) = Len(s) /\ (\A i \in 1..Len(s) : Mapped(s)[i] = Element(s[i]))
  BY ListMapped
<1> HIDE DEF s
<1>2. DOMAIN s = 1..Len(s) /\ \A i \in 1..Len(s) : s[i] \in JsonTexts
  BY <1>1
<1>3. n = Len(s) /\ n \in Nat
  BY <1>1
<1> DEFINE ByValue == {Promised!ListOf(Promised!Picked(l, {i \in 1..n : l[i] # v})) : v \in Promised!Inputs}
           One == {Promised!ListOf(Promised!Picked(l, (1..n) \ {i})) : i \in 1..n}
           ByRange == {Promised!ListOf(Promised!Picked(l, i..j)) : i \in 1..n + 1, j \in 0..n}
\* What is left, and that the store can remove as much.
<1>4. ASSUME NEW S, Writes(k, "list", Picked(s, S), Done),
             \/ Promised!ListOf(Promised!Picked(l, S)) \in ByValue
             \/ Promised!ListOf(Promised!Picked(l, S)) \in One
             \/ Promised!ListOf(Promised!Picked(l, S)) \in ByRange
      PROVE  Promised!Lists(k)
  <2> HIDE DEF ByValue, One, ByRange
  <2> DEFINE c == Picked(s, S)
             p == Promised!ListOf(Promised!Picked(l, S))
  <2>1. c \in Seq(JsonTexts) /\ Promised!ListOf(Mapped(c)) = p
    BY <1>1, PickedMaps
  <2>2. p \in ByValue \/ p \in One \/ p \in ByRange
    BY <1>4
  <2>3. Writes(k, "list", c, Promised!Done)
    BY <1>4, SameValues
  <2> HIDE DEF c, p
  <2>4. \/ Promised!Change(k, ByValue, Promised!Done)
        \/ Promised!Change(k, One, Promised!Done)
        \/ Promised!Change(k, ByRange, Promised!Done)
    BY <2>1, <2>2, <2>3, ListWriteMaps
  <2>5. Promised!TakeOut(k)
    BY <2>4 DEF Promised!TakeOut, ByValue, One, ByRange
  <2> QED BY <1>1, <2>5 DEF Promised!Lists
<1>5. ASSUME NEW i \in 1..n + 1, NEW j \in 0..n, Writes(k, "list", Picked(s, i..j), Done)
      PROVE  Promised!Lists(k)
  <2>1. Promised!ListOf(Promised!Picked(l, i..j)) \in ByRange
    <3> HIDE DEF l, n
    <3> QED OBVIOUS
  <2> QED BY <1>4, <1>5, <2>1
<1>6. ASSUME NEW v \in Inputs, NEW count \in {-1, 0, 1}, LRem(k, count, v) PROVE Promised!Lists(k)
  <2> DEFINE at == {i \in DOMAIN s : s[i] = Stringify(v)}
             gone == CASE count > 0 -> {i \in at : \A j \in at : i <= j}
                       [] count < 0 -> {i \in at : \A j \in at : j <= i}
                       [] OTHER -> at
  <2>1. Writes(k, "list", Picked(s, DOMAIN s \ gone), Done)
    BY <1>6 DEF LRem, RemoveEach, s
  <2>2. CASE count = 0
    <3>1. gone = at
      BY <2>2
    <3>2. \A i \in 1..Len(s) : s[i] = Stringify(v) <=> l[i] = v
      <4> SUFFICES ASSUME NEW i \in 1..Len(s) PROVE s[i] = Stringify(v) <=> l[i] = v
        OBVIOUS
      <4> HIDE DEF l
      <4>1. l[i] = Element(s[i]) /\ s[i] \in JsonTexts
        BY <1>1, <1>2
      <4>2. s[i] = Stringify(Element(s[i])) /\ Element(Stringify(v)) = v
        BY <4>1, ElementIs
      <4> QED BY <4>1, <4>2
    <3> HIDE DEF l
    <3>3. DOMAIN s \ at = {i \in 1..n : l[i] # v}
      BY <1>2, <1>3, <3>2
    <3> HIDE DEF n, at, gone
    <3>4. Promised!ListOf(Promised!Picked(l, {i \in 1..n : l[i] # v})) \in ByValue
      BY SameValues
    <3>5. Writes(k, "list", Picked(s, {i \in 1..n : l[i] # v}), Done)
      BY <2>1, <3>1, <3>3
    <3> HIDE DEF ByValue, One, ByRange
    <3> QED BY <1>4, <3>4, <3>5
  <2>3. CASE count # 0
    <3>1. gone \subseteq 1..Len(s) /\ \A i, j \in gone : i = j
      <4>1. at \subseteq 1..Len(s) /\ at \in SUBSET Int
        BY <1>1, <1>2
      <4> HIDE DEF at
      <4>2. \/ gone = {i \in at : \A j \in at : i <= j}
            \/ gone = {i \in at : \A j \in at : j <= i}
        BY <1>6, <2>3
      <4> HIDE DEF gone
      <4>3. \A x, y \in at : x <= y /\ y <= x => x = y
        BY <4>1
      <4>4. gone \subseteq at /\ \A x, y \in gone : x <= y /\ y <= x
        BY <4>2
      <4> QED BY <4>1, <4>3, <4>4
    <3> HIDE DEF gone, at
    <3>2. CASE gone = {}
      <4>1. DOMAIN s \ gone = 1..n /\ 1 \in 1..n + 1 /\ n \in 0..n
        BY <1>2, <1>3, <3>2
      <4>2. Writes(k, "list", Picked(s, 1..n), Done)
        BY <2>1, <4>1
      <4> HIDE DEF n
      <4> QED BY <1>5, <4>1, <4>2
    <3>3. CASE gone # {}
      <4>1. PICK i \in gone : TRUE
        BY <3>3
      <4>2. gone = {i} /\ i \in 1..n
        BY <1>3, <3>1, <4>1
      <4>3. DOMAIN s \ gone = (1..n) \ {i}
        BY <1>2, <1>3, <4>2
      <4> HIDE DEF n, l
      <4>4. Promised!ListOf(Promised!Picked(l, (1..n) \ {i})) \in One
        BY <4>2
      <4>5. Writes(k, "list", Picked(s, (1..n) \ {i}), Done)
        BY <2>1, <4>3
      <4> HIDE DEF ByValue, One, ByRange
      <4> QED BY <1>4, <4>4, <4>5
    <3> QED BY <3>2, <3>3
  <2> QED BY <2>2, <2>3
<1>7. ASSUME NEW from \in 1..MaxLen, NEW to \in 1..MaxLen, LTrim(k, from, to) PROVE Promised!Lists(k)
  <2>1. Writes(k, "list", Picked(s, DOMAIN s \ (DOMAIN s \ (from..to))), Done)
    BY <1>7 DEF LTrim, RemoveEach, s
  <2> DEFINE i == IF from > n THEN n + 1 ELSE from
             j == IF to > n THEN n ELSE to
  <2> HIDE DEF n
  <2>2. DOMAIN s \ (DOMAIN s \ (from..to)) = i..j
    BY <1>2, <1>3, DataAssumption
  <2>3. i \in 1..n + 1 /\ j \in 0..n
    BY <1>3, DataAssumption
  <2> HIDE DEF i, j
  <2>4. Writes(k, "list", Picked(s, i..j), Done)
    BY <2>1, <2>2
  <2> QED BY <1>5, <2>3, <2>4
<1> QED BY <1>6, <1>7

LEMMA JsOfKept ==
    ASSUME NEW c \in Seq(JsonTexts)
    PROVE  /\ AsJs(IF c = <<>> THEN Absent ELSE <<"list", c>>) = Promised!ListOf(Mapped(c))
           /\ c # <<>> => AsJs(<<"list", c>>) = Promised!ListOf(Mapped(c))
           /\ c # <<>> <=> Promised!ListOf(Mapped(c)) # Promised!Nothing
<1>1. Emptied("list", c) <=> c = <<>>
  BY DEF Emptied
<1>2. AsJs(IF c = <<>> THEN Absent ELSE <<"list", c>>) = Promised!ListOf(Mapped(c))
  BY <1>1, JsOfList
<1>3. (IF c = <<>> THEN Absent ELSE <<"list", c>>) = Absent <=> c = <<>>
  BY DEF Absent
<1> QED BY <1>2, <1>3, JsOfAbsent DEF Promised!Nothing

\* An element that moves.
LEMMA MoveMaps ==
    ASSUME DataInv, NEW k \in Keys, IsOf(k, "list"), NEW d \in Keys, RPopLPush(k, d)
    PROVE  Promised!Lists(k) \/ Promised!Values(k) \/ Promised!Move(k, d)
<1> DEFINE s == List(k)
           l == Promised!Held(k, "list")
           n == Len(l)
<1>1. /\ Promised!Free(k, "list") /\ l = Mapped(s) /\ s \in Seq(JsonTexts) /\ Len(s) \in Nat
      /\ Len(Mapped(s)) = Len(s) /\ (\A i \in 1..Len(s) : Mapped(s)[i] = Element(s[i]))
      /\ (db[k] = Absent <=> Len(s) = 0)
  BY ListMapped
<1> HIDE DEF s
<1>2. CASE db[k] = Absent
  <2>1. Promised!Answer(Promised!Null)
    BY <1>2, AnswerMaps, SameValues DEF RPopLPush
  <2> QED BY <1>1, <2>1 DEF Promised!Lists, Promised!ReadList
<1>3. CASE db[k] # Absent /\ ~IsOf(d, "list")
  BY <1>3, DoneMaps DEF RPopLPush
<1>4. CASE db[k] # Absent /\ IsOf(d, "list")
  <2> DEFINE t == s[Len(s)]
             front == SubSeq(s, 1, Len(s) - 1)
             z == List(d)
             left == IF k = d THEN <<>> ELSE front
             new == IF k = d THEN <<t>> \o front ELSE <<t>> \o z
             v == IF left = <<>> THEN Absent ELSE <<"list", left>>
             w == <<"list", new>>
  <2>1. /\ db' = [db EXCEPT ![k] = v, ![d] = w]
        /\ volatile' = volatile \ {x \in {k} : db'[x] = Absent} /\ answer' = Js(t)
    BY <1>4 DEF RPopLPush, s, Last, Front
  <2>2. Len(s) > 0 /\ Len(s) \in 1..Len(s) /\ Len(s) - 1 \in 0..Len(s) /\ 1 \in 1..(Len(s) + 1)
    BY <1>1, <1>4
  <2>3. n = Len(s) /\ n > 0 /\ n - 1 = Len(s) - 1
    BY <1>1, <2>2
  <2>4. t \in JsonTexts /\ Element(t) = l[n]
    <3> HIDE DEF l
    <3> QED BY <1>1, <2>2, <2>3
  <2>5. Js(t) = <<"js", l[n]>>
    BY <2>4, JsElement
  <2>6. front \in Seq(JsonTexts) /\ Mapped(front) = Promised!Cut(l, 1, n - 1)
    <3> HIDE DEF l, n
    <3>1. front \in Seq(JsonTexts) /\ Mapped(front) = Promised!Cut(Mapped(s), 1, Len(s) - 1)
      BY <1>1, <2>2, PieceMapped
    <3> QED BY <1>1, <2>3, <3>1
  <2>7. z \in Seq(JsonTexts) /\ Promised!Held(d, "list") = Mapped(z) /\ Promised!Free(d, "list")
    BY <1>4, ListMapped
  <2>8. <<t>> \in Seq(JsonTexts) /\ Mapped(<<t>>) = <<l[n]>>
    BY <2>4, SingleMapped
  <2> DEFINE rest == Promised!Cut(l, 1, n - 1)
             head == <<l[n]>>
             first == <<t>>
  <2>9. /\ first \in Seq(JsonTexts) /\ Mapped(first) = head /\ Len(first) = 1
        /\ Mapped(front) = rest
        /\ new = IF k = d THEN first \o front ELSE first \o z
    BY <2>6, <2>8
  <2>10. /\ (first \o front) \in Seq(JsonTexts) /\ Len(first \o front) = 1 + Len(front)
         /\ Mapped(first \o front) = head \o rest
    <3> HIDE DEF first, head, rest, front
    <3> QED BY <2>6, <2>9, ConcatMapped
  <2>11. /\ (first \o z) \in Seq(JsonTexts) /\ Len(first \o z) = 1 + Len(z)
         /\ Mapped(first \o z) = head \o Promised!Held(d, "list")
    <3> HIDE DEF first, head, z
    <3> QED BY <2>7, <2>9, ConcatMapped
  <2>12. new \in Seq(JsonTexts) /\ new # <<>>
    <3> DEFINE x == first \o front
               y == first \o z
    <3>1. x \in Seq(JsonTexts) /\ y \in Seq(JsonTexts) /\ Len(x) = 1 + Len(front) /\ Len(y) = 1 + Len(z)
      BY <2>10, <2>11
    <3>2. Len(front) \in Nat /\ Len(z) \in Nat
      <4> HIDE DEF front, z
      <4> QED BY <2>6, <2>7
    <3>3. new = IF k = d THEN x ELSE y
      BY <2>9
    <3> HIDE DEF x, y, new, front, z, first
    <3> QED BY <3>1, <3>2, <3>3
  <2>13. Mapped(new) = IF k = d THEN head \o rest ELSE head \o Promised!Held(d, "list")
    <3> HIDE DEF first, front, z, rest, head
    <3> QED BY <2>9, <2>10, <2>11
  <2>14. AsJs(w) = Promised!ListOf(Mapped(new)) /\ w # Absent
    <3> HIDE DEF new
    <3> QED BY <2>12, JsOfKept DEF Absent
  <2>15. k # d => /\ AsJs(v) = Promised!ListOf(rest)
                  /\ v = Absent <=> Promised!ListOf(rest) = Promised!Nothing
    <3>1. /\ AsJs(IF front = <<>> THEN Absent ELSE <<"list", front>>) = Promised!ListOf(rest)
          /\ (front # <<>> <=> Promised!ListOf(rest) # Promised!Nothing)
      <4> HIDE DEF front, rest
      <4> QED BY <2>6, <2>9, JsOfKept
    <3>2. (IF front = <<>> THEN Absent ELSE <<"list", front>>) = Absent <=> front = <<>>
      BY DEF Absent
    <3>3. k # d => v = IF front = <<>> THEN Absent ELSE <<"list", front>>
      OBVIOUS
    <3> HIDE DEF front, rest, v
    <3> QED BY <3>1, <3>2, <3>3
  <2>16. AsJs(w) # Promised!Nothing
    BY <2>14, JsOfAbsent DEF Promised!Nothing
  <2> HIDE DEF left, new, v, w, t, front, z, first, s
  <2>17. /\ db' = [j \in Keys |-> db'[j]] /\ db'[d] = w /\ (k # d => db'[k] = v)
         /\ \A j \in Keys \ {k, d} : db'[j] = db[j]
    BY <2>1 DEF DataInv
  <2> DEFINE before == [j \in Keys |-> AsJs(db[j])]
             after == [j \in Keys |-> AsJs(db'[j])]
  <2>18. before' = after
    BY DEF AsJs
  <2> DEFINE own == Promised!ListOf(head \o rest)
             shorter == Promised!ListOf(rest)
             longer == Promised!ListOf(head \o Promised!Held(d, "list"))
  <2>19. CASE k = d
    <3>1. AsJs(w) = own
      BY <2>13, <2>14, <2>19
    <3> HIDE DEF own, head, rest, l, n
    <3>2. after = [before EXCEPT ![k] = own]
      <4>1. \A j \in Keys : after[j] = [before EXCEPT ![k] = own][j]
        BY <2>17, <2>19, <3>1
      <4> QED BY <4>1
    <3>3. volatile' = IF before'[k] = Promised!Nothing THEN volatile \ {k} ELSE volatile
      <4>1. before'[k] = own /\ own # Promised!Nothing
        BY <2>16, <2>18, <3>1, <3>2
      <4>2. db'[k] # Absent
        BY <2>14, <2>17, <2>19
      <4> QED BY <2>1, <4>1, <4>2
    <3>4. before' = [before EXCEPT ![k] = own]
      BY <2>18, <3>2
    <3>5. answer' = <<"js", l[n]>>
      BY <2>1, <2>5
    <3> QED BY <2>3, <2>7, <2>19, <3>3, <3>4, <3>5 DEF Promised!Move, own, head, rest, l, n
  <2>20. CASE k # d
    <3>1. AsJs(w) = longer /\ AsJs(v) = shorter
      BY <2>13, <2>14, <2>15, <2>20
    <3>2. v = Absent <=> shorter = Promised!Nothing
      BY <2>15, <2>20
    <3> HIDE DEF longer, shorter, head, rest, l, n
    <3>3. after = [before EXCEPT ![k] = shorter, ![d] = longer]
      <4>1. \A j \in Keys : after[j] = [before EXCEPT ![k] = shorter, ![d] = longer][j]
        BY <2>17, <2>20, <3>1
      <4> QED BY <4>1
    <3>4. volatile' = IF before'[k] = Promised!Nothing THEN volatile \ {k} ELSE volatile
      <4>1. before'[k] = shorter
        BY <2>18, <2>20, <3>3
      <4>2. db'[k] = v
        BY <2>17, <2>20
      <4> QED BY <2>1, <3>2, <4>1, <4>2
    <3>5. before' = [before EXCEPT ![k] = shorter, ![d] = longer]
      BY <2>18, <3>3
    <3>6. answer' = <<"js", l[n]>>
      BY <2>1, <2>5
    <3> QED BY <2>3, <2>7, <2>20, <3>4, <3>5, <3>6 DEF Promised!Move, longer, shorter, head, rest, l, n
  <2> QED BY <2>19, <2>20
<1> QED BY <1>2, <1>3, <1>4

LEMMA ListsMap ==
    ASSUME DataInv, NEW k \in Keys, Lists(k)
    PROVE  Promised!Lists(k) \/ Promised!Values(k) \/ \E d \in Keys : Promised!Move(k, d)
<1>1. CASE ~IsOf(k, "list") \/ ListReads(k)
  BY <1>1, DoneMaps DEF Lists, Refused, ListReads
<1>2. CASE IsOf(k, "list") /\ ~ListReads(k)
  <2>1. ASSUME NEW vs \in Pushed, LPush(k, vs) \/ RPush(k, vs) PROVE Promised!Lists(k)
    BY <1>2, <2>1, PushesMap
  <2>2. CASE LPop(k) \/ RPop(k)
    BY <1>2, <2>2, PopsMap
  <2>3. CASE LRange(k) \/ \E i \in 1..MaxLen : LIndex(k, i)
    BY <1>2, <2>3, ListReadsMap
  <2>4. ASSUME NEW i \in 1..MaxLen, NEW v \in Inputs, LSet(k, i, v)
        PROVE  Promised!Lists(k) \/ Promised!Values(k)
    BY <1>2, <2>4, ListSetMaps
  <2>5. ASSUME NEW pivot \in Inputs, NEW v \in Inputs, NEW before \in BOOLEAN, LInsert(k, pivot, v, before)
        PROVE  Promised!Lists(k) \/ Promised!Values(k)
    BY <1>2, <2>5, ListInsertMaps
  <2>6. CASE \/ \E v \in Inputs, count \in {-1, 0, 1} : LRem(k, count, v)
             \/ \E from, to \in 1..MaxLen : LTrim(k, from, to)
    BY <1>2, <2>6, RemovalsMap
  <2>7. ASSUME NEW d \in Keys, RPopLPush(k, d)
        PROVE  Promised!Lists(k) \/ Promised!Values(k) \/ Promised!Move(k, d)
    BY <1>2, <2>7, MoveMaps
  <2> QED BY <1>2, <2>1, <2>2, <2>3, <2>4, <2>5, <2>6, <2>7 DEF Lists
<1> QED BY <1>1, <1>2

-----------------------------------------------------------------------------
(* Hashes, field by field                                                  *)

LEMMA FieldsMapped ==
    ASSUME NEW h
    PROVE  DOMAIN Mapped(h) = DOMAIN h /\ \A f \in DOMAIN h : Mapped(h)[f] = Element(h[f])
BY DEF Mapped

LEMMA NothingMapped ==
    ASSUME NEW h, DOMAIN h = {}
    PROVE  Mapped(h) = <<>>
<1>1. DOMAIN <<>> = {}
  OBVIOUS
<1>2. Mapped(h) = Mapped(<<>>)
  BY <1>1 DEF Mapped
<1> QED BY <1>2, EmptyMapped

LEMMA HashMapped ==
    ASSUME DataInv, NEW k \in Keys, IsOf(k, "hash")
    PROVE  /\ Promised!Free(k, "hash") /\ Promised!Held(k, "hash") = Mapped(Hash(k))
           /\ \A f \in DOMAIN Hash(k) : Hash(k)[f] \in JsonTexts
<1>1. /\ Hash(k) \in [DOMAIN Hash(k) -> JsonTexts] /\ (db[k] = Absent <=> DOMAIN Hash(k) = {})
      /\ db[k] # Absent => db[k] = <<"hash", Hash(k)>>
  BY HashSeen DEF DataInv
<1>2. CASE db[k] = Absent
  <2>1. [j \in Keys |-> AsJs(db[j])][k] = <<"nothing">>
    BY <1>2, JsOfAbsent, StoreOf
  <2>2. Promised!Held(k, "hash") = <<>> /\ Promised!Free(k, "hash")
    BY <2>1 DEF Promised!Held, Promised!Is, Promised!Free, Promised!Nothing
  <2> QED BY <1>1, <1>2, <2>2, NothingMapped
<1>3. CASE db[k] # Absent
  <2> DEFINE h == Hash(k)
  <2>1. db[k] = <<"hash", h>> /\ \A f \in DOMAIN h : h[f] \in JsonTexts
    BY <1>1, <1>3
  <2> HIDE DEF h
  <2>2. [j \in Keys |-> AsJs(db[j])][k] = <<"hash", Mapped(h)>>
    BY <2>1, JsOfElements, StoreOf
  <2>3. Promised!Held(k, "hash") = Mapped(h) /\ Promised!Free(k, "hash")
    BY <2>2 DEF Promised!Held, Promised!Is, Promised!Free
  <2> QED BY <2>1, <2>3 DEF h
<1> QED BY <1>2, <1>3

LEMMA HashWriteMaps ==
    ASSUME DataInv, NEW k \in Keys, NEW c, NEW a, Writes(k, "hash", c, a),
           NEW Hs, Promised!HashOf(Mapped(c)) \in Hs
    PROVE  Promised!Change(k, Hs, a)
<1>1. AsJs(IF Emptied("hash", c) THEN Absent ELSE <<"hash", c>>) = Promised!HashOf(Mapped(c))
  <2>1. CASE DOMAIN c = {}
    BY <2>1, FieldsMapped, JsOfAbsent DEF Emptied, Promised!HashOf, Promised!Nothing
  <2>2. CASE DOMAIN c # {}
    <3>1. ~Emptied("hash", c)
      BY <2>2 DEF Emptied
    <3>2. DOMAIN Mapped(c) # {}
      BY <2>2, FieldsMapped
    <3> QED BY <3>1, <3>2, JsOfElements DEF Promised!HashOf
  <2> QED BY <2>1, <2>2
<1> DEFINE v == AsJs(IF Emptied("hash", c) THEN Absent ELSE <<"hash", c>>)
<1>2. v \in Hs
  BY <1>1
<1> QED BY <1>2, WritesMap

LEMMA WithMapped ==
    ASSUME NEW h, NEW f, NEW t
    PROVE  Mapped(With(h, f, t)) = Promised!Put(Mapped(h), f, Element(t))
<1> DEFINE m == Mapped(h)
           e == Element(t)
           w == With(h, f, t)
           D == (DOMAIN h) \cup {f}
<1>1. DOMAIN m = DOMAIN h /\ \A g \in DOMAIN h : m[g] = Element(h[g])
  BY FieldsMapped
<1>2. DOMAIN w = D /\ \A g \in D : w[g] = IF g = f THEN t ELSE h[g]
  BY DEF With
<1> HIDE DEF m, w
<1>3. Mapped(w) = [g \in D |-> Element(w[g])]
  BY <1>2 DEF Mapped
<1>4. Promised!Put(m, f, e) = [g \in D |-> IF g = f THEN e ELSE m[g]]
  BY <1>1 DEF Promised!Put
<1>5. \A g \in D : Element(w[g]) = IF g = f THEN e ELSE m[g]
  BY <1>1, <1>2
<1> HIDE DEF D, e
<1>6. Mapped(w) = Promised!Put(m, f, e)
  BY <1>3, <1>4, <1>5
<1> QED BY <1>6 DEF m, w, e

LEMMA DropMapped ==
    ASSUME NEW h, NEW f
    PROVE  Mapped(Restrict(h, DOMAIN h \ {f})) = [g \in (DOMAIN Mapped(h)) \ {f} |-> Mapped(h)[g]]
<1> DEFINE m == Mapped(h)
           D == (DOMAIN h) \ {f}
           r == Restrict(h, D)
<1>1. DOMAIN m = DOMAIN h /\ \A g \in DOMAIN h : m[g] = Element(h[g])
  BY FieldsMapped
<1>2. DOMAIN r = D /\ \A g \in D : r[g] = h[g]
  BY DEF Restrict
<1> HIDE DEF m, r
<1>3. Mapped(r) = [g \in D |-> Element(r[g])]
  BY <1>2 DEF Mapped
<1>4. \A g \in D : Element(r[g]) = m[g]
  BY <1>1, <1>2
<1>5. Mapped(r) = [g \in D |-> m[g]]
  BY <1>3, <1>4
<1>6. D = (DOMAIN m) \ {f}
  BY <1>1
<1> HIDE DEF D
<1>7. Mapped(r) = [g \in (DOMAIN m) \ {f} |-> m[g]]
  BY <1>5, <1>6
<1> QED BY <1>7 DEF m, r, D

LEMMA FieldSetMaps ==
    ASSUME DataInv, NEW k \in Keys, IsOf(k, "hash"), NEW f \in Fields, NEW v \in Inputs, HSet(k, f, v)
    PROVE  Promised!Hashes(k)
<1> DEFINE h == Hash(k)
           m == Promised!Held(k, "hash")
           c == With(h, f, Stringify(v))
           Hs == {Promised!HashOf(Promised!Put(m, g, v)) : g \in Fields}
<1>1. Promised!Free(k, "hash") /\ m = Mapped(h)
  BY HashMapped
<1>2. Writes(k, "hash", c, Promised!Wrote(v))
  BY SameValues DEF HSet
<1>3. Mapped(c) = Promised!Put(m, f, v)
  <2> HIDE DEF m
  <2> QED BY <1>1, WithMapped, ElementIs
<1> HIDE DEF c, m
<1>4. Promised!HashOf(Mapped(c)) \in Hs
  BY <1>3
<1> HIDE DEF Hs
<1>5. Promised!Change(k, Hs, Promised!Wrote(v))
  BY <1>2, <1>4, HashWriteMaps
<1>6. Promised!PutField(k, v)
  BY <1>5 DEF Promised!PutField, Hs, m
<1> QED BY <1>1, <1>6, SameValues DEF Promised!Hashes

LEMMA FieldDropMaps ==
    ASSUME DataInv, NEW k \in Keys, IsOf(k, "hash"), NEW f \in Fields, HDel(k, f)
    PROVE  Promised!Hashes(k)
<1> DEFINE h == Hash(k)
           m == Promised!Held(k, "hash")
           c == Restrict(h, DOMAIN h \ {f})
           Hs == {Promised!HashOf([g \in (DOMAIN m) \ {x} |-> m[g]]) : x \in Fields}
<1>1. Promised!Free(k, "hash") /\ m = Mapped(h)
  BY HashMapped
<1>2. Writes(k, "hash", c, Promised!Done)
  BY SameValues DEF HDel
<1>3. Mapped(c) = [g \in (DOMAIN m) \ {f} |-> m[g]]
  <2> HIDE DEF m, h
  <2>1. Mapped(c) = [g \in (DOMAIN Mapped(h)) \ {f} |-> Mapped(h)[g]]
    BY DropMapped
  <2> QED BY <1>1, <2>1
<1> HIDE DEF c, m
<1>4. Promised!HashOf(Mapped(c)) \in Hs
  BY <1>3
<1> HIDE DEF Hs
<1>5. Promised!Change(k, Hs, Promised!Done)
  BY <1>2, <1>4, HashWriteMaps
<1>6. Promised!DropField(k)
  BY <1>5 DEF Promised!DropField, Hs, m
<1> QED BY <1>1, <1>6 DEF Promised!Hashes

LEMMA FieldCountMaps ==
    ASSUME DataInv, NEW k \in Keys, IsOf(k, "hash"), NEW f \in Fields, NEW by \in {1, -1}, HIncrBy(k, f, by)
    PROVE  Promised!Hashes(k) \/ Promised!Values(k)
<1> DEFINE h == Hash(k)
           m == Promised!Held(k, "hash")
           t == IF f \in DOMAIN h THEN h[f] ELSE Stringify(Num(0))
           e == Num(Parse(t)[2] + by)
           c == With(h, f, Counted(t, by))
<1>1. /\ Promised!Free(k, "hash") /\ m = Mapped(h)
      /\ \A x \in DOMAIN h : h[x] \in JsonTexts
  BY HashMapped
<1>2. CASE ~IsNumber(t)
  BY <1>2, DoneMaps DEF HIncrBy
<1>3. CASE IsNumber(t)
  <2>1. Writes(k, "hash", c, Promised!Done)
    BY <1>3, SameValues DEF HIncrBy
  <2>2. Mapped(c) = Promised!Put(m, f, e)
    <3>1. Counted(t, by) = Stringify(e)
      BY DEF Counted
    <3> HIDE DEF m, t, e, h
    <3>2. Element(Counted(t, by)) = e
      BY <3>1, ElementIs
    <3> QED BY <1>1, <3>2, WithMapped
  <2>3. CASE f \in DOMAIN h
    <3> DEFINE Hs == {Promised!HashOf(Promised!Put(m, f, Promised!Num(m[f][2] + b))) : b \in {1, -1}}
    <3>1. f \in DOMAIN m /\ m[f] = Parse(t) /\ Promised!IsNum(m[f])
      <4>1. t = h[f] /\ t \in JsonTexts /\ Parse(t)[1] = "num"
        BY <1>1, <1>3, <2>3 DEF IsNumber
      <4>2. f \in DOMAIN m /\ m[f] = Parse(t)
        <5> HIDE DEF m, h, t
        <5> QED BY <1>1, <2>3, <4>1, FieldsMapped, ElementIs
      <4> HIDE DEF m, h, t
      <4> QED BY <4>1, <4>2, SameValues
    <3>2. e = Promised!Num(m[f][2] + by)
      <4> HIDE DEF m, h, t
      <4> QED BY <3>1, SameValues
    <3> HIDE DEF c, m, e
    <3>3. Promised!HashOf(Mapped(c)) \in Hs
      BY <2>2, <3>2
    <3> HIDE DEF Hs
    <3>4. Promised!Change(k, Hs, Promised!Done)
      BY <2>1, <3>3, HashWriteMaps
    <3>5. Promised!CountField(k, f)
      BY <3>1, <3>4 DEF Promised!CountField, Hs, m
    <3> QED BY <1>1, <3>5 DEF Promised!Hashes
  <2>4. CASE f \notin DOMAIN h
    <3> DEFINE Hs == {Promised!HashOf(Promised!Put(m, f, Promised!Num(b))) : b \in {1, -1}}
    <3>1. f \notin DOMAIN m
      <4> HIDE DEF m, h
      <4> QED BY <1>1, <2>4, FieldsMapped
    <3>2. e = Promised!Num(by)
      <4>1. Parse(t)[2] = 0
        BY <2>4, JsOfText DEF Num
      <4> HIDE DEF t
      <4>2. Parse(t)[2] + by = by
        BY <4>1
      <4> QED BY <4>2, SameValues
    <3> HIDE DEF c, m, e
    <3>3. Promised!HashOf(Mapped(c)) \in Hs
      BY <2>2, <3>2
    <3> HIDE DEF Hs
    <3>4. Promised!Change(k, Hs, Promised!Done)
      BY <2>1, <3>3, HashWriteMaps
    <3>5. Promised!CountField(k, f)
      BY <3>1, <3>4 DEF Promised!CountField, Hs, m
    <3> QED BY <1>1, <3>5 DEF Promised!Hashes
  <2> QED BY <2>3, <2>4
<1> QED BY <1>2, <1>3

LEMMA HashReadsMap ==
    ASSUME DataInv, NEW k \in Keys, IsOf(k, "hash"), HGetAll(k) \/ \E f \in Fields : HGet(k, f)
    PROVE  Promised!Hashes(k)
<1> DEFINE h == Hash(k)
           m == Promised!Held(k, "hash")
<1>1. /\ Promised!Free(k, "hash") /\ m = Mapped(h)
      /\ \A x \in DOMAIN h : h[x] \in JsonTexts
  BY HashMapped
<1>2. CASE HGetAll(k)
  <2>1. \A x \in DOMAIN h : Parses(h[x]) /\ Parse(h[x]) = Element(h[x])
    BY <1>1, ElementIs
  <2>2. [x \in DOMAIN h |-> Parse(h[x])] = Mapped(h)
    BY <2>1 DEF Mapped
  <2>3. Answers(<<"hash", Mapped(h)>>)
    BY <1>2, <2>1, <2>2 DEF HGetAll
  <2>4. Promised!Answer(<<"hash", m>>)
    BY <1>1, <2>3, AnswerMaps
  <2> QED BY <1>1, <2>4 DEF Promised!Hashes, Promised!ReadHash
<1>3. ASSUME NEW f \in Fields, HGet(k, f) PROVE Promised!Hashes(k)
  <2>1. CASE f \in DOMAIN h
    <3>1. Answers(Js(h[f]))
      BY <1>3, <2>1 DEF HGet
    <3>2. Js(h[f]) = <<"js", m[f]>> /\ f \in DOMAIN m
      <4> HIDE DEF m, h
      <4> QED BY <1>1, <2>1, JsElement, FieldsMapped
    <3>3. Promised!Answer(<<"js", m[f]>>)
      BY <3>1, <3>2, AnswerMaps
    <3> QED BY <1>1, <3>2, <3>3 DEF Promised!Hashes, Promised!ReadHash
  <2>2. CASE f \notin DOMAIN h
    <3>1. Promised!Answer(Promised!Null)
      BY <1>3, <2>2, AnswerMaps, SameValues DEF HGet
    <3> QED BY <1>1, <3>1 DEF Promised!Hashes, Promised!ReadHash
  <2> QED BY <2>1, <2>2
<1> QED BY <1>2, <1>3

LEMMA HashesMap ==
    ASSUME DataInv, NEW k \in Keys, Hashes(k)
    PROVE  Promised!Hashes(k) \/ Promised!Values(k)
<1>1. CASE ~IsOf(k, "hash") \/ HashReads(k)
  BY <1>1, DoneMaps DEF Hashes, Refused, HashReads
<1>2. CASE IsOf(k, "hash") /\ ~HashReads(k)
  <2>1. CASE HGetAll(k) \/ \E f \in Fields : HGet(k, f)
    BY <1>2, <2>1, HashReadsMap
  <2>2. ASSUME NEW f \in Fields, HDel(k, f) PROVE Promised!Hashes(k)
    BY <1>2, <2>2, FieldDropMaps
  <2>3. ASSUME NEW f \in Fields, NEW v \in Inputs, HSet(k, f, v) \/ HSetNX(k, f, v)
        PROVE  Promised!Hashes(k) \/ Promised!Values(k)
    BY <1>2, <2>3, FieldSetMaps, DoneMaps DEF HSetNX
  <2>4. ASSUME NEW f \in Fields, NEW by \in {1, -1}, HIncrBy(k, f, by)
        PROVE  Promised!Hashes(k) \/ Promised!Values(k)
    BY <1>2, <2>4, FieldCountMaps
  <2> QED BY <1>2, <2>1, <2>2, <2>3, <2>4 DEF Hashes
<1> QED BY <1>1, <1>2

-----------------------------------------------------------------------------
(* Streams, message by message                                             *)

ReadBack(e) == [i \in DOMAIN e |-> ParseOrRaw(e[i])]
Readings == {ParseOrRaw(t) : t \in KnownTexts}

LEMMA ReadBackSeq ==
    ASSUME NEW e \in Seq(KnownTexts)
    PROVE  /\ ReadBack(e) \in Seq(Readings) /\ Len(ReadBack(e)) = Len(e) /\ Len(e) \in Nat
           /\ \A i \in 1..Len(e) : ReadBack(e)[i] = ParseOrRaw(e[i])
<1>1. DOMAIN e = 1..Len(e) /\ Len(e) \in Nat /\ \A i \in 1..Len(e) : e[i] \in KnownTexts
  OBVIOUS
<1>2. \A i \in 1..Len(e) : ParseOrRaw(e[i]) \in Readings
  BY <1>1 DEF Readings
<1>3. ReadBack(e) = [i \in 1..Len(e) |-> ParseOrRaw(e[i])]
  BY <1>1 DEF ReadBack
<1> QED BY <1>1, <1>2, <1>3

LEMMA ReadBackOfNone == ReadBack(<<>>) = <<>>
<1>1. <<>> \in Seq(KnownTexts) /\ Len(<<>>) = 0
  OBVIOUS
<1>2. ReadBack(<<>>) \in Seq(Readings) /\ Len(ReadBack(<<>>)) = 0
  BY <1>1, ReadBackSeq
<1> QED BY <1>2

LEMMA AppendReadBack ==
    ASSUME NEW e \in Seq(KnownTexts), NEW t \in KnownTexts
    PROVE  ReadBack(Append(e, t)) = Append(ReadBack(e), ParseOrRaw(t))
<1> DEFINE m == ReadBack(e)
           v == ParseOrRaw(t)
           c == Append(e, t)
           u == Append(m, v)
           w == ReadBack(c)
<1>1. Len(e) \in Nat /\ m \in Seq(Readings) /\ Len(m) = Len(e) /\ \A i \in 1..Len(e) : m[i] = ParseOrRaw(e[i])
  BY ReadBackSeq
<1>2. v \in Readings
  BY DEF Readings
<1>3. /\ c \in Seq(KnownTexts) /\ Len(c) = Len(e) + 1 /\ c[Len(e) + 1] = t
      /\ \A i \in 1..Len(e) : c[i] = e[i]
  BY AppendProperties
<1> HIDE DEF m
<1>4. /\ u \in Seq(Readings) /\ Len(u) = Len(e) + 1 /\ u[Len(e) + 1] = v
      /\ \A i \in 1..Len(e) : u[i] = m[i]
  <2> HIDE DEF v
  <2>1. m \in Seq(Readings) /\ Len(m) = Len(e)
    BY <1>1
  <2> QED BY <1>2, <2>1, AppendProperties
<1> HIDE DEF c, u
<1>5. w \in Seq(Readings) /\ Len(w) = Len(e) + 1 /\ \A i \in 1..Len(e) + 1 : w[i] = ParseOrRaw(c[i])
  BY <1>3, ReadBackSeq
<1> HIDE DEF w
<1>6. \A i \in 1..Len(w) : w[i] = u[i]
  <2> SUFFICES ASSUME NEW i \in 1..Len(w) PROVE w[i] = u[i]
    OBVIOUS
  <2>1. CASE i \in 1..Len(e)
    BY <1>1, <1>3, <1>4, <1>5, <2>1
  <2>2. CASE i = Len(e) + 1
    BY <1>3, <1>4, <1>5, <2>2
  <2> QED BY <1>1, <1>5, <2>1, <2>2
<1>7. w = u
  BY <1>4, <1>5, <1>6, SeqEqual
<1> QED BY <1>7 DEF m, c, u, w

LEMMA StreamMapped ==
    ASSUME DataInv, NEW k \in Keys, IsOf(k, "stream")
    PROVE  /\ Promised!Free(k, "stream") /\ Promised!Held(k, "stream") = ReadBack(Entries(k))
           /\ Entries(k) \in Seq(KnownTexts)
           /\ Stream(k) = [entries |-> Entries(k), next |-> Stream(k).next, pending |-> Stream(k).pending]
           /\ Stream(k).next \in {NoGroup} \cup Nat /\ Stream(k).next <= Len(Entries(k))
           /\ Stream(k).pending \subseteq 1..Stream(k).next
           /\ db[k] = Absent => Stream(k).next = NoGroup
           /\ db[k] # Absent => db[k] = <<"stream", Stream(k)>>
                                /\ AsJs(db[k]) = <<"stream", Promised!Held(k, "stream")>>
<1> DEFINE s == Stream(k)
<1>1. /\ s \in ContentOf("stream") /\ (db[k] = Absent => s = EmptyStream)
      /\ (db[k] # Absent => db[k] = <<"stream", s>>)
  BY StreamSeen DEF DataInv
<1>2. s.entries = Entries(k)
  BY DEF Entries
<1> HIDE DEF s
<1>3. /\ s = [entries |-> s.entries, next |-> s.next, pending |-> s.pending]
      /\ s.entries \in Seq(KnownTexts) /\ s.next \in {NoGroup} \cup Nat /\ s.next <= Len(s.entries)
      /\ s.pending \subseteq 1..s.next
  BY <1>1, StreamFacts
<1>4. CASE db[k] = Absent
  <2>1. [j \in Keys |-> AsJs(db[j])][k] = <<"nothing">>
    BY <1>4, JsOfAbsent, StoreOf
  <2>2. Promised!Held(k, "stream") = <<>> /\ Promised!Free(k, "stream")
    BY <2>1 DEF Promised!Held, Promised!Is, Promised!Free, Promised!Nothing
  <2>3. s.entries = <<>> /\ s.next = NoGroup
    BY <1>1, <1>4 DEF EmptyStream
  <2>4. ReadBack(s.entries) = <<>>
    BY <2>3, ReadBackOfNone
  <2> QED BY <1>2, <1>3, <1>4, <2>2, <2>3, <2>4 DEF s
<1>5. CASE db[k] # Absent
  <2>1. db[k] = <<"stream", s>>
    BY <1>1, <1>5
  <2>2. AsJs(db[k]) = <<"stream", ReadBack(s.entries)>>
    BY <2>1, JsOfStream DEF ReadBack
  <2>3. [j \in Keys |-> AsJs(db[j])][k] = <<"stream", ReadBack(s.entries)>>
    BY <2>2, StoreOf
  <2>4. Promised!Held(k, "stream") = ReadBack(s.entries) /\ Promised!Free(k, "stream")
    BY <2>3 DEF Promised!Held, Promised!Is, Promised!Free
  <2> QED BY <1>2, <1>3, <1>5, <2>1, <2>2, <2>4 DEF s
<1> QED BY <1>4, <1>5

\* A command that writes a stream.
LEMMA StreamWriteMaps ==
    ASSUME DataInv, NEW k \in Keys, NEW s, NEW a, Writes(k, "stream", s, a)
    PROVE  Promised!Change(k, {<<"stream", ReadBack(s.entries)>>}, a)
<1>1. ~Emptied("stream", s)
  BY DEF Emptied
<1>2. AsJs(IF Emptied("stream", s) THEN Absent ELSE <<"stream", s>>) = <<"stream", ReadBack(s.entries)>>
  BY <1>1, JsOfStream DEF ReadBack
<1> DEFINE v == AsJs(IF Emptied("stream", s) THEN Absent ELSE <<"stream", s>>)
           Hs == {<<"stream", ReadBack(s.entries)>>}
<1>3. v \in Hs
  BY <1>2
<1> HIDE DEF Hs
<1>4. Promised!Change(k, Hs, a)
  BY <1>3, WritesMap
<1> QED BY <1>4 DEF Hs

\* What is read, of whatever is asked for.
LEMMA MessagesMap ==
    ASSUME DataInv, NEW k \in Keys, IsOf(k, "stream"), NEW S, S \subseteq 1..Len(Entries(k)),
           Promised!Answer(Messages(k, S))
    PROVE  Promised!Streams(k)
<1> DEFINE e == Entries(k)
           m == Promised!Held(k, "stream")
<1>1. Promised!Free(k, "stream") /\ m = ReadBack(e) /\ e \in Seq(KnownTexts)
  BY StreamMapped
<1>2. CASE S = {}
  BY <1>1, <1>2, SameValues DEF Promised!Streams, Messages
<1>3. CASE S # {}
  <2>1. Messages(k, S) = <<"messages", Picked(m, S)>>
    BY <1>1, <1>3 DEF Messages, ReadBack
  <2>2. Picked(m, S) = Promised!Picked(m, S)
    BY DEF Picked, Promised!Picked
  <2>3. S \in SUBSET DOMAIN m
    <3> HIDE DEF m, e
    <3>1. m \in Seq(Readings) /\ Len(m) = Len(e)
      BY <1>1, ReadBackSeq
    <3> QED BY <3>1 DEF e
  <2>4. Promised!Answer(<<"messages", Promised!Picked(m, S)>>)
    BY <2>1, <2>2
  <2>5. Promised!ReadMessages(k)
    BY <2>3, <2>4 DEF Promised!ReadMessages
  <2> QED BY <1>1, <2>5 DEF Promised!Streams
<1> QED BY <1>2, <1>3

\* A string that is added is read as what it parses to.
LEMMA SeenMaps ==
    ASSUME NEW v \in Inputs
    PROVE  ParseOrRaw(StringifyUnlessString(v)) = Promised!Seen(v)
<1>1. ParseOrRaw(StringifyUnlessString(Num(1))) = Num(1) /\ Promised!Seen(Num(1)) = Num(1)
  <2>1. StringifyUnlessString(Num(1)) = Stringify(Num(1)) /\ Promised!Seen(Num(1)) = Num(1)
    BY DEF StringifyUnlessString, IsString, Num, Promised!Seen
  <2> QED BY <2>1, JsOfText DEF ParseOrRaw
<1>2. ParseOrRaw(StringifyUnlessString(Digits(1))) = Num(1) /\ Promised!Seen(Digits(1)) = Num(1)
  <2>1. StringifyUnlessString(Digits(1)) = Stringify(Num(1)) /\ Promised!Seen(Digits(1)) = Num(1)
    BY SameValues DEF StringifyUnlessString, IsString, Digits, Raw, Word, Promised!Seen
  <2> QED BY <2>1, JsOfText DEF ParseOrRaw
<1>3. ParseOrRaw(StringifyUnlessString(Word)) = Word /\ Promised!Seen(Word) = Word
  <2>1. StringifyUnlessString(Word) = Bare /\ Promised!Seen(Word) = Word
    BY SameValues DEF StringifyUnlessString, IsString, Raw, Word, Promised!Seen
  <2> QED BY <2>1, JsOfText DEF ParseOrRaw
<1> QED BY <1>1, <1>2, <1>3 DEF Inputs

LEMMA MessageAddMaps ==
    ASSUME DataInv, NEW k \in Keys, IsOf(k, "stream"), NEW v \in Inputs, XAdd(k, v)
    PROVE  Promised!Streams(k)
<1> DEFINE e == Entries(k)
           m == Promised!Held(k, "stream")
           t == StringifyUnlessString(v)
           s == [Stream(k) EXCEPT !.entries = Append(@, t)]
           u == Append(m, Promised!Seen(v))
<1>1. /\ Promised!Free(k, "stream") /\ m = ReadBack(e) /\ e \in Seq(KnownTexts)
      /\ Stream(k) = [entries |-> e, next |-> Stream(k).next, pending |-> Stream(k).pending]
  BY StreamMapped
<1>2. Writes(k, "stream", s, Promised!WroteText(v))
  BY SameValues DEF XAdd
<1>3. s.entries = Append(e, t)
  <2> DEFINE p == Append(e, t)
  <2>1. s = [Stream(k) EXCEPT !.entries = p]
    BY DEF Entries
  <2> HIDE DEF p, s, e
  <2>2. s.entries = p
    BY <1>1, <2>1
  <2> QED BY <2>2 DEF p
<1>4. t \in KnownTexts /\ ParseOrRaw(t) = Promised!Seen(v)
  BY Texting, SeenMaps
<1> HIDE DEF s, e, m, t
<1>5. ReadBack(s.entries) = u
  BY <1>1, <1>3, <1>4, AppendReadBack
<1> HIDE DEF u
<1>6. Promised!Change(k, {<<"stream", u>>}, Promised!WroteText(v))
  BY <1>2, <1>5, StreamWriteMaps
<1>7. Promised!AddMessage(k, v)
  BY <1>6 DEF Promised!AddMessage, u, m
<1> QED BY <1>1, <1>7, SameValues DEF Promised!Streams

\* A command that is only about the group.
LEMMA GroupMaps ==
    ASSUME DataInv, NEW k \in Keys, IsOf(k, "stream"), NEW s, s.entries = Entries(k),
           Writes(k, "stream", s, Done)
    PROVE  Promised!Streams(k)
<1>1. Promised!Free(k, "stream") /\ Promised!Held(k, "stream") = ReadBack(Entries(k))
  BY StreamMapped
<1>2. Writes(k, "stream", s, Promised!Done)
  BY SameValues
<1>3. Promised!Change(k, {<<"stream", ReadBack(s.entries)>>}, Promised!Done)
  BY <1>2, StreamWriteMaps
<1>4. Promised!Change(k, {<<"stream", Promised!Held(k, "stream")>>}, Promised!Done)
  BY <1>1, <1>3
<1> QED BY <1>1, <1>4 DEF Promised!Streams

\* One that is, and answers messages.
LEMMA DeliveryMaps ==
    ASSUME DataInv, NEW k \in Keys, IsOf(k, "stream"), db[k] # Absent, NEW s, s.entries = Entries(k),
           NEW a, Writes(k, "stream", s, a)
    PROVE  Promised!Answer(a)
<1> DEFINE w == <<"stream", s>>
<1>1. ~Emptied("stream", s) /\ w # Absent
  BY DEF Emptied, Absent
<1>2. AsJs(w) = AsJs(db[k])
  <2>1. AsJs(db[k]) = <<"stream", ReadBack(Entries(k))>>
    BY StreamMapped
  <2>2. AsJs(w) = <<"stream", ReadBack(s.entries)>>
    BY JsOfStream DEF ReadBack
  <2> QED BY <2>1, <2>2
<1>3. db' = [db EXCEPT ![k] = w] /\ answer' = a /\ volatile' = IF db'[k] = Absent THEN volatile \ {k} ELSE volatile
  BY <1>1 DEF Writes
<1> HIDE DEF w
<1>4. db'[k] = w /\ \A j \in Keys \ {k} : db'[j] = db[j]
  BY <1>3 DEF DataInv
<1>5. volatile' = volatile
  BY <1>1, <1>3, <1>4
<1> DEFINE before == [j \in Keys |-> AsJs(db[j])]
           after == [j \in Keys |-> AsJs(db'[j])]
<1>6. after = before
  <2>1. \A j \in Keys : AsJs(db'[j]) = AsJs(db[j])
    BY <1>2, <1>4
  <2> QED BY <2>1
<1>7. before' = after
  BY DEF AsJs
<1> QED BY <1>3, <1>5, <1>6, <1>7 DEF Promised!Answer

LEMMA StreamsMap ==
    ASSUME DataInv, NEW k \in Keys, Streams(k)
    PROVE  Promised!Streams(k) \/ Promised!Values(k)
<1>1. CASE ~IsOf(k, "stream") \/ XLen(k)
  BY <1>1, DoneMaps DEF Streams, Refused, XLen
<1>2. CASE IsOf(k, "stream")
  <2> DEFINE e == Entries(k)
             s == Stream(k)
  <2>1. /\ e \in Seq(KnownTexts) /\ Len(e) \in Nat
        /\ s = [entries |-> e, next |-> s.next, pending |-> s.pending]
        /\ s.next \in {NoGroup} \cup Nat /\ s.next <= Len(e)
        /\ s.pending \subseteq 1..s.next /\ (db[k] = Absent => s.next = NoGroup)
    <3>1. /\ e \in Seq(KnownTexts)
          /\ s = [entries |-> e, next |-> s.next, pending |-> s.pending]
          /\ s.next \in {NoGroup} \cup Nat /\ s.next <= Len(e)
          /\ s.pending \subseteq 1..s.next /\ (db[k] = Absent => s.next = NoGroup)
      BY <1>2, StreamMapped
    <3>2. Len(e) \in Nat
      <4> HIDE DEF e
      <4> QED BY <3>1
    <3> QED BY <3>1, <3>2
  <2>2. s.entries = e
    BY DEF Entries
  <2> HIDE DEF e, s
  <2>3. ASSUME NEW v \in Inputs, XAdd(k, v) PROVE Promised!Streams(k)
    BY <1>2, <2>3, MessageAddMaps
  <2>4. ASSUME NEW after \in 0..MaxEntries, XRead(k, after) PROVE Promised!Streams(k)
    <3> DEFINE S == (after + 1)..Len(e)
    <3>1. Answers(Messages(k, S))
      BY <2>4 DEF XRead, e
    <3>2. S \subseteq 1..Len(e)
      BY <2>1, DataAssumption
    <3> HIDE DEF S
    <3>3. Promised!Answer(Messages(k, S))
      BY <3>1, AnswerMaps
    <3> QED BY <1>2, <3>2, <3>3, MessagesMap DEF e
  <2>5. ASSUME NEW makeStream \in BOOLEAN, NEW fromStart \in BOOLEAN, XGroupCreate(k, makeStream, fromStart)
        PROVE  Promised!Streams(k) \/ Promised!Values(k)
    <3>1. Answers(Thrown) \/ \E n : Writes(k, "stream", [s EXCEPT !.next = n], Done)
      BY <2>5 DEF XGroupCreate, s
    <3>2. ASSUME NEW n, Writes(k, "stream", [s EXCEPT !.next = n], Done) PROVE Promised!Streams(k)
      <4> DEFINE u == [s EXCEPT !.next = n]
      <4>1. u.entries = Entries(k)
        BY <2>1 DEF e
      <4> HIDE DEF u
      <4> QED BY <1>2, <3>2, <4>1, GroupMaps DEF u
    <3> QED BY <3>1, <3>2, DoneMaps
  <2>6. ASSUME NEW count \in 1..MaxEntries, XReadGroup(k, count)
        PROVE  Promised!Streams(k) \/ Promised!Values(k)
    <3> DEFINE last == IF s.next + count < Len(e) THEN s.next + count ELSE Len(e)
               S == (s.next + 1)..last
               p == s.pending \cup S
               u == [s EXCEPT !.next = last, !.pending = p]
    <3>1. \/ Answers(Thrown)
          \/ /\ s.next # NoGroup
             /\ \/ Writes(k, "stream", u, Messages(k, S))
                \/ Answers(Null)
                \/ Answers(Messages(k, s.pending))
      BY <2>6 DEF XReadGroup, s, e
    <3>2. CASE Answers(Thrown)
      BY <3>2, DoneMaps
    <3>3. CASE s.next # NoGroup /\ Writes(k, "stream", u, Messages(k, S))
      <4>1. db[k] # Absent /\ s.next \in Nat /\ last <= Len(e) /\ last \in Nat
        BY <2>1, <3>3, DataAssumption
      <4>2. S \subseteq 1..Len(e)
        <5> HIDE DEF last
        <5> QED BY <2>1, <4>1
      <4>3. u.entries = e
        <5> DEFINE r == [s EXCEPT !.next = last]
        <5> HIDE DEF last, p
        <5>1. r = [entries |-> e, next |-> last, pending |-> s.pending]
          BY <2>1
        <5> HIDE DEF r
        <5>2. [r EXCEPT !.pending = p] = [entries |-> e, next |-> last, pending |-> p]
          BY <5>1
        <5>3. u = [entries |-> e, next |-> last, pending |-> p]
          BY <5>2 DEF r
        <5> HIDE DEF u
        <5> QED BY <5>3
      <4> DEFINE a == Messages(k, S)
      <4> HIDE DEF u, S, a
      <4>4. Promised!Answer(a)
        BY <1>2, <3>3, <4>1, <4>3, DeliveryMaps DEF e, a
      <4> QED BY <1>2, <4>2, <4>4, MessagesMap DEF e, a
    <3>4. CASE Answers(Null)
      <4>1. Promised!Answer(Promised!Null) /\ Promised!Free(k, "stream")
        BY <1>2, <3>4, AnswerMaps, SameValues, StreamMapped
      <4> QED BY <4>1 DEF Promised!Streams
    <3>5. CASE s.next # NoGroup /\ Answers(Messages(k, s.pending))
      <4>1. s.pending \subseteq 1..Len(e)
        BY <2>1, <3>5
      <4>2. Promised!Answer(Messages(k, s.pending))
        BY <3>5, AnswerMaps
      <4> QED BY <1>2, <4>1, <4>2, MessagesMap DEF e
    <3> QED BY <3>1, <3>2, <3>3, <3>4, <3>5
  <2>7. ASSUME NEW ids \in SUBSET (1..MaxEntries), XAck(k, ids)
        PROVE  Promised!Streams(k) \/ Promised!Values(k)
    <3> DEFINE p == s.pending \ ids
               u == [s EXCEPT !.pending = p]
    <3>1. Answers(Done) \/ Writes(k, "stream", u, Done)
      BY <2>7 DEF XAck, s
    <3>2. u.entries = Entries(k)
      BY <2>1 DEF e
    <3> HIDE DEF u
    <3> QED BY <1>2, <3>1, <3>2, GroupMaps, DoneMaps
  <2>8. CASE XLen(k)
    BY <1>1, <2>8
  <2> QED BY <1>2, <2>3, <2>4, <2>5, <2>6, <2>7, <2>8 DEF Streams
<1> QED BY <1>1, <1>2

-----------------------------------------------------------------------------
(* Every command is one of the store, or changes nothing in it             *)

LEMMA StoreNext ==
    ASSUME DataInv, NextData
    PROVE  Promised!Next
<1>1. PICK k \in Keys :
         \/ KeyValue(k) \/ Strings(k) \/ Counters(k) \/ Utilities(k) \/ TimesOut(k)
         \/ Hashes(k) \/ Sets(k) \/ SortedSets(k) \/ Lists(k)
         \/ HyperLogLogs(k) \/ Geo(k) \/ Streams(k) \/ Bitmaps(k)
  BY DEF NextData
<1>2. CASE KeyValue(k) \/ Strings(k) \/ Counters(k) \/ Utilities(k) \/ TimesOut(k)
  <2>1. Promised!Values(k)
    BY <1>2, KeyValueMaps, StringsMap, CountersMap, UtilitiesMap
  <2> QED BY <2>1 DEF Promised!Next
<1>3. CASE Hashes(k) \/ Streams(k)
  <2>1. Promised!Hashes(k) \/ Promised!Streams(k) \/ Promised!Values(k)
    BY <1>3, HashesMap, StreamsMap
  <2> QED BY <2>1 DEF Promised!Next
<1>4. CASE Sets(k)
  <2>1. PICK j \in Keys : Promised!Values(j) \/ \E d \in Keys : Promised!MoveOpaque(j, d)
    BY <1>4, SetsMap
  <2> QED BY <2>1 DEF Promised!Next
<1>5. CASE SortedSets(k) \/ Geo(k) \/ HyperLogLogs(k) \/ Bitmaps(k)
  <2>1. PICK j \in Keys : Promised!Values(j)
    BY <1>5, SortedSetsMap, SketchesMap, BitmapsMap
  <2> QED BY <2>1 DEF Promised!Next
<1>6. CASE Lists(k)
  <2>1. Promised!Lists(k) \/ Promised!Values(k) \/ \E d \in Keys : Promised!Move(k, d)
    BY <1>6, ListsMap
  <2> QED BY <2>1 DEF Promised!Next
<1> QED BY <1>1, <1>2, <1>3, <1>4, <1>5, <1>6

LEMMA StoreInit ==
    ASSUME InitData
    PROVE  Promised!Init
<1>1. \A k \in Keys : AsJs(db[k]) = Promised!Nothing
  BY JsOfAbsent DEF InitData, Promised!Nothing
<1>2. [k \in Keys |-> AsJs(db[k])] = [k \in Keys |-> Promised!Nothing]
  BY <1>1
<1> QED BY <1>2, SameValues DEF InitData, Promised!Init

\* What is read is what was written: the data-structure services, whose commands each run to
\* completion on a keyspace of texts, implement the store of JavaScript values; each command
\* is a step of the store or changes nothing in it.  In particular a pop, which removes its
\* element before it parses it, never removes one that does not parse.
THEOREM ValuesReadBack == Spec => KeepsJsStore
<1> DEFINE store == [k \in Keys |-> AsJs(db[k])]
           Step == [Promised!Next]_<<store, volatile, answer>>
<1>1. Init => DataInv /\ Promised!Init
  BY DataInit, StoreInit DEF Init
<1>2. [Next]_vars => [NextData]_dataVars
  BY DEF Next, Data, Aside, Tx, Channel, Requesting, Identifying, vars
<1>3. DataInv /\ [Next]_vars => DataInv'
  BY <1>2, DataNext
<1>4. DataInv /\ [Next]_vars => Step
  <2> SUFFICES ASSUME DataInv, [Next]_vars PROVE Step
    OBVIOUS
  <2>1. CASE NextData
    BY <2>1, StoreNext
  <2>2. CASE UNCHANGED dataVars
    BY <2>2 DEF dataVars, AsJs
  <2> QED BY <1>2, <2>1, <2>2
<1> QED BY <1>1, <1>3, <1>4, PTL DEF Spec, KeepsJsStore, Promised!StoreSpec

-----------------------------------------------------------------------------
(* The whole                                                               *)

\* The cache package and its users, running together, keep all of this: each part does its
\* steps and no step of another disturbs it.
THEOREM PartsStaySound ==
    Spec => [](/\ FreshUnlessOverlapped /\ PatternIsGone
               /\ CommitSeesNoChange /\ WatchesAreAccountedFor
               /\ AcceptedIsHeardOnce
               /\ OneHandlerAtATime /\ OneResponseUnlessOvertaken /\ LockIsReleased
               /\ UniqueIds /\ SortedIds)
<1>1. Init => InitAside /\ InitTx /\ InitPubSub /\ InitIdempotency /\ InitIds
  BY DEF Init
<1>2. [Next]_vars => /\ [NextAside]_asideVars /\ [NextTx]_txVars /\ [NextPubSub]_psVars
                     /\ [NextIdempotency]_idemVars /\ [NextIds]_idVars
  BY DEF Next, Data, Aside, Tx, Channel, Requesting, Identifying, vars
<1>3. Spec => AsideSpec /\ TxSpec /\ PubSubSpec /\ IdempotencySpec /\ IdSpec
  BY <1>1, <1>2, PTL DEF Spec, AsideSpec, TxSpec, PubSubSpec, IdempotencySpec, IdSpec
<1> QED BY <1>3, CopiesAreFresh, SweepsAreThorough, CommitsAreSafe, WatchesEnd,
           MessagesAreHeardOnce, HandlersExclude, ResponsesAreSingle, LocksAreReleased,
           SnowflakesAreUnique, SnowflakesAreSorted, PTL

\* Everything the cache package and its users keep has its type: Redis keeps no empty list, hash
\* or set, a copy is never newer than its source, no call tries more often than it may, and no
\* subscription is on before the connection is there.
THEOREM CacheStaysTyped == Spec => []TypeOK
<1> DEFINE Whole ==
        /\ part \in Parts /\ DataInv /\ AsideInv /\ VersionInv /\ TxInv /\ RetriesInv /\ SubInv
        /\ IdemInv /\ CountInv
<1>1. Init => Whole
  BY DataInit, AsideInit, VersionInit, TxInvInit, RetriesInit, SubInit, IdemInvInit, CountInit DEF Init
<1>2. Whole /\ [Next]_vars => Whole'
  <2> SUFFICES ASSUME Whole, [Next]_vars PROVE Whole'
    OBVIOUS
  <2>1. /\ [NextData]_dataVars /\ [NextAside]_asideVars /\ [NextTx]_txVars /\ [NextPubSub]_psVars
        /\ [NextIdempotency]_idemVars /\ [NextIds]_idVars /\ part' = part
    BY DEF Next, Data, Aside, Tx, Channel, Requesting, Identifying, vars
  <2> QED BY <2>1, DataNext, AsideNext, VersionNext, TxInvNext, RetriesNext, SubNext, IdemInvNext, CountNext
<1>3. Whole => TypeOK
  <2> SUFFICES ASSUME Whole PROVE TypeOK
    OBVIOUS
  <2>1. \A k \in AsideKeys : cache[k] \in {Nothing} \cup 0..MaxVersion /\ cache[k] <= source[k]
    <3> SUFFICES ASSUME NEW k \in AsideKeys
                 PROVE  cache[k] \in {Nothing} \cup 0..MaxVersion /\ cache[k] <= source[k]
      OBVIOUS
    <3>1. source[k] \in Nat /\ source[k] <= MaxVersion
      BY DEF VersionInv, AsideInv, AsideType
    <3>2. CASE cache[k] = Nothing
      BY <3>1, <3>2 DEF Nothing
    <3>3. CASE UpTo(cache[k], source[k])
      BY <3>1, <3>3, AsideAssumption DEF UpTo
    <3> QED BY <3>2, <3>3 DEF VersionInv
  <2>2. cache \in [AsideKeys -> {Nothing} \cup 0..MaxVersion]
    BY <2>1 DEF AsideInv, AsideType
  <2>3. watched \subseteq WatchKeys /\ \A c \in TxCallers : tx[c].attempts \in 0..MaxRetries
    BY TxAssumption DEF TxInv, TxType, TxCall, RetriesInv
  <2>4. \A p \in Places : lock[p] \in Requests \cup {NoResponse}
    BY DEF IdemInv, IdemType
  <2>5. sequence \in 0..(Sequences + MaxCuids) /\ lastTimestamp \in -1..MaxClock
    BY IdAssumption DEF CountInv
  <2>6. part \in Parts /\ DataInv /\ SubInv
    OBVIOUS
  <2> HIDE DEF Whole
  <2> QED BY <2>1, <2>2, <2>3, <2>4, <2>5, <2>6 DEF TypeOK, DataInv, SubInv
<1> QED BY <1>1, <1>2, <1>3, PTL DEF Spec
=============================================================================
