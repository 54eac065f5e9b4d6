----------------------------- MODULE MCRCULock -----------------------------
(* Model-checking instance of RCULock.                                     *)
EXTENDS RCULock, TLC

Symmetry == Permutations(Readers)
=============================================================================
