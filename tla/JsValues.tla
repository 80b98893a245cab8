------------------------------ MODULE JsValues ------------------------------
(***************************************************************************)
(* The JavaScript values that callers hand to the services of the cache,   *)
(* and the answers they get.                                               *)
(***************************************************************************)
EXTENDS Integers, Sequences

\* Numbers, strings of digits, and one string that is not JSON.
Num(i) == <<"num", i>>
Digits(i) == <<"digits", i>>
Word == <<"word", 0>>
Inputs == {Num(1), Digits(1), Word}
IsString(v) == v[1] \in {"digits", "word"}
IsNum(v) == v[1] = "num"

\* The elements of a sequence at the positions in S, in their order.
Picked(s, S) ==
    LET picked[i \in 0..Len(s)] ==
            IF i = 0 THEN <<>>
            ELSE IF i \in S THEN Append(picked[i - 1], s[i]) ELSE picked[i - 1]
    IN  picked[Len(s)]

\* What a call answers; counts, flags and raw texts are not told apart.  A call that writes
\* values shows them instead.
Done == <<"done">>
Null == <<"null">>
Wrote(v) == <<"wrote", v>>
WroteText(v) == <<"wrote text", v>>
PushedLeft(vs) == <<"left", vs>>
PushedRight(vs) == <<"right", vs>>
Thrown == <<"thrown">>
=============================================================================
