--------------------------- MODULE MCThreadPause ---------------------------
(* Model-checking instance of ThreadPause.                                 *)
EXTENDS ThreadPause, TLC

Symmetry == Permutations(Threads)
=============================================================================
