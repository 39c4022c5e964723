--------------------------- MODULE MCExpireLruCache ---------------------------
(* Instances of ExpireLruCache for TLC.                                    *)
EXTENDS ExpireLruCache

CONSTANTS k1, k2, k3, v1, v2

Keys == {k1, k2, k3}
Values == {v1, v2}

\* No expiry, expiry after a tick, and the default of a time below 0.
ExpiresAll == {0, 1, -1}
=============================================================================
