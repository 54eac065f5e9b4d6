------------------------- MODULE MCProcletMigration -------------------------
(* Model-checking instance of ProcletMigration: the threads are alike, and *)
(* so are the nodes other than the one the proclet is created on.          *)
EXTENDS ProcletMigration, TLC

Symmetry == Permutations(Threads) \cup Permutations(Nodes \ {Home})
=============================================================================
