-------------------------- MODULE MCApiCacheManager --------------------------
(* Instances of ApiCacheManager for TLC.                                   *)
EXTENDS ApiCacheManager, TLC

CONSTANTS d1, d2, r1, r2, c1, c2

Descriptors == {d1, d2}
Codes == {1, 2}
Requests == {r1, r2}
Clients == {c1, c2}

\* No expiry, and expiry after a tick.
ExpireTimes == {0, 1}

Symmetry == Permutations(Clients) \cup Permutations(Requests) \cup Permutations(Descriptors)
=============================================================================
