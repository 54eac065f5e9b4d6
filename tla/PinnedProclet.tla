--------------------------- MODULE PinnedProclet ---------------------------
(***************************************************************************)
(* What migration promises to the code that runs inside a proclet, without *)
(* any of its protocol.  The proclet is at one node or on its way; calls   *)
(* run inside it, under a MigrationGuard, only at the node where it is;    *)
(* and it leaves a node only when no call runs inside it: "Once            *)
(* constructed, it guarantees that the current proclet won't be migrated"  *)
(* (runtime.hpp).                                                          *)
(***************************************************************************)
CONSTANTS Nodes, Threads, Moving

VARIABLES
  host,     (* the node of the proclet, or Moving                          *)
  inside    (* the threads inside it                                       *)

vars == <<host, inside>>

Init == host \in Nodes /\ inside = {}

Enter(t) ==
  /\ host \in Nodes
  /\ t \notin inside
  /\ inside' = inside \cup {t}
  /\ UNCHANGED host

Leave(t) ==
  /\ t \in inside
  /\ inside' = inside \ {t}
  /\ UNCHANGED host

Depart ==
  /\ host \in Nodes
  /\ inside = {}
  /\ host' = Moving
  /\ UNCHANGED inside

Arrive(n) ==
  /\ host = Moving
  /\ host' = n
  /\ UNCHANGED inside

Next ==
  \/ \E t \in Threads : Enter(t) \/ Leave(t)
  \/ Depart
  \/ \E n \in Nodes : Arrive(n)

Spec == Init /\ [][Next]_vars
=============================================================================
