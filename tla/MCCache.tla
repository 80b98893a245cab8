------------------------------ MODULE MCCache ------------------------------
EXTENDS CacheProperties

CONSTANTS k1, k2, ch1, ch2, s1, s2, s3, c1, c2

MCMembers == 1..1
MCChannelOf == s1 :> ch1 @@ s2 :> ch1 @@ s3 :> ch2

Symmetry == Permutations({k1, k2}) \cup Permutations({c1, c2})
=============================================================================
