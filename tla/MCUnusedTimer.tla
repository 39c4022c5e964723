---------------------------- MODULE MCUnusedTimer ----------------------------
(* Instances of UnusedTimer for TLC: a word of 6 bits, 2 milliseconds to   *)
(* the second, an interval of one second and an upper limit of two.        *)
EXTENDS UnusedTimer, TLC

CONSTANTS s1, s2

OneSA == {s1}
TwoSAs == {s1, s2}

\* No timeout; below, at and above the limits; so long that the product wraps.
AllTimeouts == {-1, 0, 1, 2, 5, 17}
FewTimeouts == {-1, 0, 5}

Symmetry == Permutations(TwoSAs)
=============================================================================
