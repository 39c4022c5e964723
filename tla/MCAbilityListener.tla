-------------------------- MODULE MCAbilityListener --------------------------
(* Instances of AbilityListener for TLC.                                   *)
EXTENDS AbilityListener

CONSTANTS l1, l2, l3

Listeners2 == {l1, l2}
Listeners3 == {l1, l2, l3}
=============================================================================
