------------------------------- MODULE MCLru -------------------------------
(* Instances of Lru for TLC.                                               *)
EXTENDS Lru, TLC

CONSTANTS k1, k2, k3, v1, v2

KeySymmetry == Permutations(Keys)
=============================================================================
