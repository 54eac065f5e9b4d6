--------------------------- MODULE MCProcletCalls ---------------------------
(* Model-checking instance of ProcletCalls.                                *)
EXTENDS ProcletCalls
=============================================================================
