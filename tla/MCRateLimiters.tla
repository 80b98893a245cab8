--------------------------- MODULE MCRateLimiters ---------------------------
(* Constants for the runs over the rate limiters. *)
EXTENDS RateLimiterProperties, TLC

CONSTANTS c1, c2

MCCall == {c1, c2}
Symmetry == Permutations(MCCall)
MCLimiters == Algorithm \X {"redis", "memory"}
=============================================================================
