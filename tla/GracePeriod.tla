---------------------------- MODULE GracePeriod ----------------------------
(***************************************************************************)
(* What nu::RCULock promises to its clients, stated without its algorithm. *)
(* A reader is inside a section from the return of its outermost           *)
(* reader_lock() to the call of its outermost reader_unlock().  A writer   *)
(* that calls writer_sync() returns only when every section that was open  *)
(* at the call has ended.  Sections opened later do not concern it.        *)
(***************************************************************************)
CONSTANTS Readers, Writers

VARIABLES
  inside,       (* readers inside a section                                *)
  syncing,      (* writers between the call and the return of writer_sync  *)
  waitFor       (* per writer, the sections open at its call, still open   *)

vars == <<inside, syncing, waitFor>>

(* The types of the variables.                                             *)
TypeOK ==
  /\ inside \in SUBSET Readers
  /\ syncing \in SUBSET Writers
  /\ waitFor \in [Writers -> SUBSET Readers]

Init ==
  /\ inside = {}
  /\ syncing = {}
  /\ waitFor = [w \in Writers |-> {}]

Enter(r) ==
  /\ r \notin inside
  /\ inside' = inside \cup {r}
  /\ UNCHANGED <<syncing, waitFor>>

Leave(r) ==
  /\ r \in inside
  /\ inside' = inside \ {r}
  /\ waitFor' = [w \in Writers |-> waitFor[w] \ {r}]
  /\ UNCHANGED syncing

SyncCall(w) ==
  /\ w \notin syncing
  /\ syncing' = syncing \cup {w}
  /\ waitFor' = [waitFor EXCEPT ![w] = inside]
  /\ UNCHANGED inside

SyncReturn(w) ==
  /\ w \in syncing
  /\ waitFor[w] = {}
  /\ syncing' = syncing \ {w}
  /\ UNCHANGED <<inside, waitFor>>

Next ==
  \/ \E r \in Readers : Enter(r) \/ Leave(r)
  \/ \E w \in Writers : SyncCall(w) \/ SyncReturn(w)

Spec == Init /\ [][Next]_vars
=============================================================================
