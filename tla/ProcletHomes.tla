---------------------------- MODULE ProcletHomes ----------------------------
(***************************************************************************)
(* What an application may take for granted: an address is allocated, a    *)
(* proclet is created there at one node, moves as a whole from node to     *)
(* node while it lives, no more once its destruction has begun, and then   *)
(* is gone.  It is never lost, and never at two nodes.  MigrationBatch     *)
(* implements this.                                                        *)
(***************************************************************************)
CONSTANTS Nodes, Proclets, Nowhere

VARIABLES
  home,    (* per proclet, its node, or Nowhere                            *)
  life     (* per proclet, "free", "allocated", "alive" or "dying"         *)

vars == <<home, life>>

Init ==
  /\ home \in [Proclets -> Nodes]
  /\ life = [p \in Proclets |-> "alive"]

Turns(p, from, to) ==
  life[p] = from /\ life' = [life EXCEPT ![p] = to]

Allocate(p) == Turns(p, "free", "allocated") /\ UNCHANGED home
Create(p, n) == Turns(p, "allocated", "alive") /\ home' = [home EXCEPT ![p] = n]
Move(p, n) == life[p] = "alive" /\ home' = [home EXCEPT ![p] = n] /\ UNCHANGED life
Destroy(p) == Turns(p, "alive", "dying") /\ UNCHANGED home
Free(p) == Turns(p, "dying", "free") /\ home' = [home EXCEPT ![p] = Nowhere]

Next ==
  \E p \in Proclets :
    \/ Allocate(p) \/ Destroy(p) \/ Free(p)
    \/ \E n \in Nodes : Create(p, n) \/ Move(p, n)

Spec == Init /\ [][Next]_vars
=============================================================================
