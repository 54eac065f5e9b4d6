---------------------------- MODULE AtomicPause ----------------------------
(***************************************************************************)
(* What the migrator takes for granted of the scheduler: the threads of    *)
(* the proclet that leaves stop all at once, wherever they are, and none   *)
(* of them is seen ready or running until it is gone.  ProcletMigration    *)
(* has this as its step PauseThreads; ThreadPause implements it.           *)
(***************************************************************************)
CONSTANTS Threads, Proclets

VARIABLES
  owner,    (* per thread, its proclet                                     *)
  mode,     (* per thread, active, blocked, stopped or gone                *)
  stopped   (* the proclet whose threads are stopped, or {}                *)

vars == <<owner, mode, stopped>>

Modes == {"active", "blocked", "stopped", "gone"}
OwnedBy(p) == {t \in Threads : owner[t] = p}

Init ==
  /\ owner \in [Threads -> Proclets]
  /\ mode \in [Threads -> {"active", "blocked"}]
  /\ stopped = {}

(* An active thread waits on a mutex or a condition variable, or another   *)
(* one that is active and of the same proclet wakes it.                    *)
Block(t) ==
  /\ mode[t] = "active"
  /\ mode' = [mode EXCEPT ![t] = "blocked"]
  /\ UNCHANGED <<owner, stopped>>

Wake(t, u) ==
  /\ mode[t] = "active" /\ owner[t] = owner[u] /\ mode[u] = "blocked"
  /\ mode' = [mode EXCEPT ![u] = "active"]
  /\ UNCHANGED <<owner, stopped>>

Pause(p) ==
  /\ stopped = {}
  /\ stopped' = {p}
  /\ mode' = [t \in Threads |-> IF t \in OwnedBy(p) /\ mode[t] = "active"
                                THEN "stopped" ELSE mode[t]]
  /\ UNCHANGED owner

Leave(p) ==
  /\ stopped = {p}
  /\ stopped' = {}
  /\ mode' = [t \in Threads |-> IF t \in OwnedBy(p) THEN "gone" ELSE mode[t]]
  /\ UNCHANGED owner

Next ==
  \/ \E t \in Threads : Block(t)
  \/ \E t, u \in Threads : Wake(t, u)
  \/ \E p \in Proclets : Pause(p) \/ Leave(p)

Spec == Init /\ [][Next]_vars
=============================================================================
