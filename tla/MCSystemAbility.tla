--------------------------- MODULE MCSystemAbility ---------------------------
(* Instances of SystemAbility for TLC.                                     *)
EXTENDS SystemAbility, TLC

CONSTANTS t1, t2, t3, o1, o2

Threads3 == {t1, t2, t3}
Objects == {o1, o2}

\* Threads are interchangeable, and so are objects.
Symmetry == Permutations(Threads3) \cup Permutations(Objects)
=============================================================================
