----------------------------- MODULE MCRCUFlip -----------------------------
(* Model-checking instance of RCUFlip.                                     *)
EXTENDS RCUFlip, TLC

Symmetry == Permutations(Readers) \cup Permutations(Writers)
=============================================================================
