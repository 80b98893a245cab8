---------------------------- MODULE IdGenerator ----------------------------
(***************************************************************************)
(* IdGenerator of the common package: Snowflake identifiers made of a      *)
(* millisecond, a worker and a sequence number, and the CUIDs that share   *)
(* the counter.  One process; an identifier is <<millisecond, sequence>>.  *)
(***************************************************************************)
EXTENDS Integers

CONSTANTS
    Sequences,  \* sequence numbers to a millisecond (4096)
    MaxClock,   \* BOUND on the clock
    MaxCuids    \* BOUND on the CUIDs in one behaviour

ASSUME IdAssumption == Sequences \in Nat \ {0} /\ MaxClock \in Nat /\ MaxCuids \in Nat

VARIABLES
    clock,          \* Date.now()
    lastTimestamp,
    sequence,
    issued,         \* the Snowflake identifiers so far
    repeated,       \* whether one of them came twice
    steppedBack,    \* whether the clock has been set back
    overflowed,     \* whether CUIDs have pushed the sequence past its mask
    cuids           \* the number of CUIDs so far

idVars == <<clock, lastTimestamp, sequence, issued, repeated, steppedBack, overflowed, cuids>>

InitIds ==
    /\ clock = 0
    /\ lastTimestamp = -1
    /\ sequence = 0
    /\ issued = {}
    /\ repeated = FALSE
    /\ steppedBack = FALSE
    /\ overflowed = FALSE
    /\ cuids = 0

Issue(t, s) ==
    /\ lastTimestamp' = t
    /\ sequence' = s
    /\ issued' = issued \cup {<<t, s>>}
    /\ repeated' = (repeated \/ <<t, s>> \in issued)

\* MUTANT of NextSequence: it forgets the mask.
UnmaskedSequence == sequence + 1

\* The sequence after the mask.
NextSequence == (sequence + 1) % Sequences

\* generateSnowflake in a new millisecond, or in one that the clock has gone back to ...
FirstOfMillisecond == clock # lastTimestamp /\ Issue(clock, 0) /\ UNCHANGED clock

\* ... in the same millisecond ...
NextOfMillisecond ==
    /\ clock = lastTimestamp /\ NextSequence # 0
    /\ Issue(clock, NextSequence)
    /\ UNCHANGED clock

\* MUTANT of Spin: it does not wait.
SpinNot == clock = lastTimestamp /\ NextSequence = 0 /\ Issue(clock, 0) /\ UNCHANGED clock

\* ... and when its numbers are used up: it spins until the clock has moved on.
Spin ==
    /\ clock = lastTimestamp /\ NextSequence = 0
    /\ \E t \in (clock + 1)..MaxClock : clock' = t /\ Issue(t, 0)

GenerateSnowflake ==
    /\ FirstOfMillisecond \/ NextOfMillisecond \/ Spin
    /\ UNCHANGED <<steppedBack, overflowed, cuids>>

\* generateCuid counts with the same sequence, without the mask.
GenerateCuid ==
    /\ cuids < MaxCuids
    /\ cuids' = cuids + 1
    /\ sequence' = sequence + 1
    /\ overflowed' = (overflowed \/ sequence' >= Sequences)
    /\ UNCHANGED <<clock, lastTimestamp, issued, repeated, steppedBack>>

\* The clock runs, or is set back.
ClockMoves ==
    /\ \E t \in 0..MaxClock : t # clock /\ clock' = t
    /\ steppedBack' = (steppedBack \/ clock' < clock)
    /\ UNCHANGED <<lastTimestamp, sequence, issued, repeated, overflowed, cuids>>

NextIds == GenerateSnowflake \/ GenerateCuid \/ ClockMoves

IdSpec == InitIds /\ [][NextIds]_idVars

-----------------------------------------------------------------------------
\* No Snowflake identifier comes twice while the clock is never set back and CUIDs do not
\* push the sequence past the number at which generateSnowflake waits.
UniqueIds == repeated => steppedBack \/ overflowed

\* Under the same conditions the last identifier is the greatest (lastTimestamp, sequence).
SortedIds ==
    \/ steppedBack \/ overflowed
    \/ \A i \in issued : i[1] < lastTimestamp \/ (i[1] = lastTimestamp /\ i[2] <= sequence)
=============================================================================
