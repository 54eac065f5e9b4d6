-------------------------- MODULE ProcletMigration --------------------------
(***************************************************************************)
(* The life of one proclet that migrates between nodes: the source's       *)
(* Migrator::__migrate under its pressure handler, the destination's       *)
(* Migrator::load and handle_copy_proclet, the deferred clean-ups, the     *)
(* threads that attach to the proclet and hold MigrationGuards, and the    *)
(* controller's record of acquired nodes and of the proclet's location.    *)
(*                                                                         *)
(* Abstractions.  A section of the proclet's RCU lock is named by its      *)
(* thread: the counters of the heap are the set of threads they count      *)
(* (RCULock: CountsMatchSections), and writer_sync is the grace period     *)
(* that RCUFlip proves.  The heap is a set of parts, one per transmitting  *)
(* connection, each holding the live contents or not.  Threads blocked on  *)
(* the proclet's mutexes and timers travel as those blocked on its         *)
(* condition variable do.  A node's connection to the controller is FIFO.  *)
(*                                                                         *)
(* Bounds.  MaxRounds: how many migration rounds are started in all.       *)
(***************************************************************************)
EXTENDS Integers, Sequences, FiniteSets

CONSTANTS
  Nodes, Threads,
  AuxConns,       (* kTransmitProcletNumThreads - 1 auxiliary connections  *)
  HeaderPart,     (* the connection that carries the start of the heap,    *)
                  (* where rcu_lock lies (chunk 0)                         *)
  Home,           (* the node the proclet is created on                    *)
  MaxRounds

Main == "main"
Parts == AuxConns \cup {Main}
None == "none"

ASSUME ConstantsOK ==
  /\ Home \in Nodes /\ None \notin Nodes
  /\ Main \notin AuxConns /\ HeaderPart \in AuxConns
  /\ IsFiniteSet(AuxConns)
  /\ MaxRounds \in Nat

VARIABLES
  status,     (* per node, proclet_statuses[] of the proclet               *)
  heap,       (* per node, the parts that hold the live contents           *)
  rcu,        (* per node, the sections counted by rcu_lock in its memory  *)
  loadCnt,    (* per node, pending_load_cnt                                *)
  th,         (* per thread, where and what it is                          *)
  src,        (* per node, its pressure handler as a migration source      *)
  dst,        (* per node, the load() of its main migration connection     *)
  auxh,       (* per node and auxiliary connection, the handler thread     *)
  chan,       (* per pair of nodes, the main migration connection          *)
  auxchan,    (* per pair of nodes and auxiliary connection                *)
  back,       (* per pair of nodes, approvals on the main connection       *)
  spawned,    (* per node and kind, deferred clean-ups not yet run         *)
  acquired,   (* controller: the nodes with status.acquired                *)
  loc,        (* controller: proclet_id_to_ip_ of the proclet              *)
  toCtl,      (* per node, its one-way messages to the controller          *)
  rounds      (* rounds started                                            *)

ctlVars == <<acquired, loc>>
chanVars == <<chan, auxchan, back>>
vars == <<status, heap, rcu, loadCnt, th, src, dst, auxh, chanVars, spawned,
          ctlVars, toCtl, rounds>>

Status == {"absent", "populating", "depopulating", "cleaning", "migrating", "present"}

(* status >= kPresent (destruction is not part of this module).  Mutant:   *)
(* status >= kMigrating.                                                   *)
UsableMigrating(n) == status[n] \in {"migrating", "present"}
Usable(n) == status[n] = "present"

OutThread == [node |-> None, pc |-> "out", paused |-> FALSE]
Jobs == {"cleanup", "depopulate"}
IdleSrc == [pc |-> "idle", dest |-> None, sent |-> {}, waitFor |-> {}]
IdleDst == [pc |-> "idle", from |-> None]
IdleAux == [pc |-> "idle", from |-> None]

Init ==
  /\ status = [n \in Nodes |-> IF n = Home THEN "present" ELSE "absent"]
  /\ heap = [n \in Nodes |-> IF n = Home THEN Parts ELSE {}]
  /\ rcu = [n \in Nodes |-> {}]
  /\ loadCnt = [n \in Nodes |-> 0]
  /\ th = [t \in Threads |-> OutThread]
  /\ src = [n \in Nodes |-> IdleSrc]
  /\ dst = [n \in Nodes |-> IdleDst]
  /\ auxh = [n \in Nodes |-> [a \in AuxConns |-> IdleAux]]
  /\ chan = [p \in Nodes \X Nodes |-> <<>>]
  /\ auxchan = [p \in Nodes \X Nodes |-> [a \in AuxConns |-> <<>>]]
  /\ back = [p \in Nodes \X Nodes |-> <<>>]
  /\ spawned = [n \in Nodes |-> [k \in Jobs |-> 0]]
  /\ acquired = {}
  /\ loc = Home
  /\ toCtl = [n \in Nodes |-> <<>>]
  /\ rounds = 0

---------------------------------------------------------------------------
(* Threads.                                                                *)

At(t, n, pc) == th[t].node = n /\ th[t].pc = pc /\ ~th[t].paused
Goto(t, pc) == th' = [th EXCEPT ![t].pc = pc]
ReaderLock(t, n) == rcu' = [rcu EXCEPT ![n] = @ \cup {t}]

(* Ends the section, for a writer_sync in progress at n as well.           *)
ReaderUnlock(t, n) ==
  /\ rcu' = [rcu EXCEPT ![n] = @ \ {t}]
  /\ src' = [src EXCEPT ![n].waitFor = @ \ {t}]

(* Threads whose rcu_context counts a section.                             *)
Holding == {t \in Threads : th[t].pc \in {"attached", "relock", "guard"}}
Guarding == {t \in Threads : th[t].pc = "guard"}

(* Owner threads at n; the ones with preemption off are still attaching.   *)
OwnersAt(n) == {t \in Threads : th[t].node = n}
NonPreemptible(t) == th[t].pc \in {"attaching", "attached"}

threadFrame == <<status, heap, loadCnt, dst, auxh, chanVars, spawned,
                 ctlVars, toCtl, rounds>>

(* attach_and_disable_migration by a handler thread at n: the owner is set *)
(* and the status is seen; if it is below kPresent nothing remains and the *)
(* caller is told kErrWrongClient.                                         *)
Attach(t, n) ==
  /\ th[t] = OutThread
  /\ Usable(n)
  /\ th' = [th EXCEPT ![t] = [node |-> n, pc |-> "attaching", paused |-> FALSE]]
  /\ UNCHANGED <<rcu, src, threadFrame>>

AttachLock(t, n) ==
  /\ At(t, n, "attaching")
  /\ ReaderLock(t, n)
  /\ Goto(t, "attached")
  /\ UNCHANGED <<src, threadFrame>>

(* The status is checked again under the reader lock.                      *)
AttachRecheck(t, n) ==
  /\ At(t, n, "attached")
  /\ IF Usable(n)
     THEN Goto(t, "guard") /\ UNCHANGED <<rcu, src>>
     ELSE ReaderUnlock(t, n) /\ th' = [th EXCEPT ![t] = OutThread]
  /\ UNCHANGED threadFrame

(* The call is over: detach and destroy the guard.                         *)
Detach(t, n) ==
  /\ At(t, n, "guard")
  /\ ReaderUnlock(t, n)
  /\ th' = [th EXCEPT ![t] = OutThread]
  /\ UNCHANGED threadFrame

(* MigrationGuard::enable_for: f runs without the guard; then the reader   *)
(* lock is taken again with preemption on, and the status is checked.      *)
EnableFor(t, n) ==
  /\ At(t, n, "guard")
  /\ ReaderUnlock(t, n)
  /\ Goto(t, "free")
  /\ UNCHANGED threadFrame

Relock(t, n) ==
  /\ At(t, n, "free")
  /\ ReaderLock(t, n)
  /\ Goto(t, "relock")
  /\ UNCHANGED <<src, threadFrame>>

RelockCheck(t, n) ==
  /\ At(t, n, "relock")
  /\ IF Usable(n)
     THEN Goto(t, "guard") /\ UNCHANGED <<rcu, src>>
     ELSE ReaderUnlock(t, n) /\ Goto(t, "towait")
  /\ UNCHANGED threadFrame

(* ProcletManager::wait_until(kPresent), under the header's spin lock: the *)
(* thread parks on cond_var or goes back to take the reader lock.          *)
WaitUntilPresent(t, n) ==
  /\ At(t, n, "towait")
  /\ Goto(t, IF status[n] = "present" THEN "free" ELSE "parked")
  /\ UNCHANGED <<rcu, src, threadFrame>>

ThreadStep(t) ==
  \E n \in Nodes :
    \/ Attach(t, n) \/ AttachLock(t, n) \/ AttachRecheck(t, n) \/ Detach(t, n)
    \/ EnableFor(t, n) \/ Relock(t, n) \/ RelockCheck(t, n) \/ WaitUntilPresent(t, n)

---------------------------------------------------------------------------
(* The source: PressureHandler::__main_handler and Migrator::__migrate.    *)

SrcAt(n, pc) == src[n].pc = pc
SrcGoto(n, pc) == src' = [src EXCEPT ![n].pc = pc]
Send(s, d, m) == chan' = [chan EXCEPT ![<<s, d>>] = Append(@, m)]
Post(n, msgs) == toCtl' = [toCtl EXCEPT ![n] = @ \o msgs]

(* migration_spin of the proclet at n is held from the lock in __migrate   *)
(* to the end of its scope; the other critical sections are single steps.  *)
SpinHeld(n) == src[n].pc \in {"copy", "state", "location", "clean"}

(* acquire_node for itself, in order with the messages sent before.        *)
AcquireSelf(n) ==
  /\ SrcAt(n, "idle")
  /\ rounds < MaxRounds
  /\ status[n] = "present"
  /\ toCtl[n] = <<>>
  /\ n \notin acquired
  /\ acquired' = acquired \cup {n}
  /\ rounds' = rounds + 1
  /\ SrcGoto(n, "acquire")
  /\ UNCHANGED <<status, heap, rcu, loadCnt, th, dst, auxh, chanVars, spawned, loc, toCtl>>

(* acquire_migration_dest: another node that nobody has acquired.          *)
Candidates(n) == Nodes \ (acquired \cup {n})

AcquireDest(n, d) ==
  /\ SrcAt(n, "acquire")
  /\ d \in Candidates(n)
  /\ acquired' = acquired \cup {d}
  /\ src' = [src EXCEPT ![n].pc = "tasks", ![n].dest = d]
  /\ UNCHANGED <<status, heap, rcu, loadCnt, th, dst, auxh, chanVars, spawned, loc, toCtl, rounds>>

NoDest(n) ==
  /\ SrcAt(n, "acquire")
  /\ Candidates(n) = {}
  /\ Post(n, <<[kind |-> "release", node |-> n]>>)
  /\ src' = [src EXCEPT ![n] = IdleSrc]
  /\ UNCHANGED <<status, heap, rcu, loadCnt, th, dst, auxh, chanVars, spawned, ctlVars, rounds>>

SendTasks(n) ==
  /\ SrcAt(n, "tasks")
  /\ Send(n, src[n].dest, [kind |-> "tasks"])
  /\ SrcGoto(n, "mark")
  /\ UNCHANGED <<status, heap, rcu, loadCnt, th, dst, auxh, auxchan, back, spawned, ctlVars, toCtl, rounds>>

(* The pressure is gone, or the proclet is not present any more.           *)
Skip(n) ==
  /\ SrcAt(n, "mark")
  /\ Send(n, src[n].dest, [kind |-> "skip"])
  /\ SrcGoto(n, "approval")
  /\ UNCHANGED <<status, heap, rcu, loadCnt, th, dst, auxh, auxchan, back, spawned, ctlVars, toCtl, rounds>>

(* try_mark_proclet_migrating: remove_for_migration, then writer_sync.     *)
MarkMigrating(n) ==
  /\ SrcAt(n, "mark")
  /\ status[n] = "present"
  /\ status' = [status EXCEPT ![n] = "migrating"]
  /\ SrcGoto(n, "sync")
  /\ UNCHANGED <<heap, rcu, loadCnt, th, dst, auxh, chanVars, spawned, ctlVars, toCtl, rounds>>

(* writer_sync.  Mutant: it is skipped.                                    *)
NoSections(n) == {}
OpenSections(n) == rcu[n]

SyncCall(n) ==
  /\ SrcAt(n, "sync")
  /\ src' = [src EXCEPT ![n].pc = "syncing", ![n].waitFor = OpenSections(n)]
  /\ UNCHANGED <<status, heap, rcu, loadCnt, th, dst, auxh, chanVars, spawned, ctlVars, toCtl, rounds>>

(* The sections open at the call have ended: GracePeriod of the RCU lock.  *)
SyncReturn(n) ==
  /\ SrcAt(n, "syncing")
  /\ src[n].waitFor = {}
  /\ SrcGoto(n, "pause")
  /\ UNCHANGED <<status, heap, rcu, loadCnt, th, dst, auxh, chanVars, spawned, ctlVars, toCtl, rounds>>

(* pause_migrating_threads: every thread owned by the proclet that is not  *)
(* parked is stopped, once those with preemption off have got through.     *)
(* Mutants: the blocked ones are paused too; those about to block are not. *)
PausableAll(n) == OwnersAt(n)
PausableFew(n) == {t \in OwnersAt(n) : th[t].pc \notin {"parked", "towait"}}
Pausable(n) == {t \in OwnersAt(n) : th[t].pc # "parked"}

PauseThreads(n) ==
  /\ SrcAt(n, "pause")
  /\ \A t \in OwnersAt(n) : ~NonPreemptible(t)
  /\ th' = [t \in Threads |->
              IF t \in Pausable(n)
              THEN [th[t] EXCEPT !.paused = TRUE] ELSE th[t]]
  /\ SrcGoto(n, "lock")
  /\ UNCHANGED <<status, heap, rcu, loadCnt, dst, auxh, chanVars, spawned, ctlVars, toCtl, rounds>>

LockSpin(n) ==
  /\ SrcAt(n, "lock")
  /\ SrcGoto(n, "copy")
  /\ UNCHANGED <<status, heap, rcu, loadCnt, th, dst, auxh, chanVars, spawned, ctlVars, toCtl, rounds>>

(* transmit_proclet: the chunks go out on the connections in parallel;     *)
(* wait_aux_tasks ends when all of them are written.                       *)
Chunk(n, p) == [kind |-> "copy", live |-> p \in heap[n], rcu |-> rcu[n]]

TransmitChunk(n, p) ==
  LET d == src[n].dest IN
  /\ SrcAt(n, "copy")
  /\ p \in Parts \ src[n].sent
  /\ IF p = Main
     THEN Send(n, d, Chunk(n, p)) /\ UNCHANGED auxchan
     ELSE auxchan' = [auxchan EXCEPT ![<<n, d>>][p] = Append(@, Chunk(n, p))] /\ UNCHANGED chan
  /\ src' = [src EXCEPT ![n].sent = @ \cup {p},
                        ![n].pc = IF src[n].sent \cup {p} = Parts THEN "state" ELSE "copy"]
  /\ UNCHANGED <<status, heap, rcu, loadCnt, th, dst, auxh, back, spawned, ctlVars, toCtl, rounds>>

(* transmit_mutexes, transmit_condvars, transmit_time: the blocked threads;*)
(* transmit_threads: the paused ones.  They no longer exist here.          *)
Carry(S) == [t \in S |-> th[t].pc]

TransmitState(n) ==
  LET blocked == {t \in OwnersAt(n) : th[t].pc = "parked"}
      ready == {t \in OwnersAt(n) : th[t].paused}
      d == src[n].dest
  IN
  /\ SrcAt(n, "state")
  /\ chan' = [chan EXCEPT ![<<n, d>>] = @ \o <<[kind |-> "blocked", ths |-> Carry(blocked)],
                                              [kind |-> "ready", ths |-> Carry(ready)]>>]
  /\ th' = [t \in Threads |->
              IF t \in blocked \cup ready THEN [th[t] EXCEPT !.node = None] ELSE th[t]]
  /\ heap' = [heap EXCEPT ![n] = {}]
  /\ SrcGoto(n, "location")
  /\ UNCHANGED <<status, rcu, loadCnt, dst, auxh, auxchan, back, spawned, ctlVars, toCtl, rounds>>

UpdateLocation(n) ==
  /\ SrcAt(n, "location")
  /\ Post(n, <<[kind |-> "location", node |-> src[n].dest]>>)
  /\ SrcGoto(n, "clean")
  /\ UNCHANGED <<status, heap, rcu, loadCnt, th, dst, auxh, chanVars, spawned, ctlVars, rounds>>

(* status = kCleaning, the end of the spin's scope, post_migration_cleanup.*)
SetCleaning(n) ==
  /\ SrcAt(n, "clean")
  /\ status' = [status EXCEPT ![n] = "cleaning"]
  /\ spawned' = [spawned EXCEPT ![n]["cleanup"] = @ + 1]
  /\ SrcGoto(n, "approval")
  /\ UNCHANGED <<heap, rcu, loadCnt, th, dst, auxh, chanVars, ctlVars, toCtl, rounds>>

(* The final receive_approval, the destructors of both node guards.        *)
TakeApproval(d, n) == back' = [back EXCEPT ![<<d, n>>] = Tail(@)]

FinishRound(n) ==
  LET d == src[n].dest IN
  /\ SrcAt(n, "approval")
  /\ back[<<d, n>>] # <<>>
  /\ TakeApproval(d, n)
  /\ Post(n, <<[kind |-> "release", node |-> d], [kind |-> "release", node |-> n]>>)
  /\ src' = [src EXCEPT ![n] = IdleSrc]
  /\ UNCHANGED <<status, heap, rcu, loadCnt, th, dst, auxh, chan, auxchan, spawned, ctlVars, rounds>>

RoundStep(n) ==
  \/ (\E d \in Nodes : AcquireDest(n, d)) \/ NoDest(n)
  \/ SendTasks(n) \/ Skip(n) \/ MarkMigrating(n) \/ SyncCall(n)
  \/ SyncReturn(n) \/ PauseThreads(n)
  \/ LockSpin(n) \/ (\E p \in Parts : TransmitChunk(n, p)) \/ TransmitState(n)
  \/ UpdateLocation(n) \/ SetCleaning(n) \/ FinishRound(n)

SourceStep(n) == AcquireSelf(n) \/ RoundStep(n)

---------------------------------------------------------------------------
(* The destination: Migrator::load on the main connection from s ...       *)

DstAt(n, s, pc) == dst[n] = [pc |-> pc, from |-> s]
DstGoto(n, pc) == dst' = [dst EXCEPT ![n].pc = pc]
Arrived(s, n, kind) == chan[<<s, n>>] # <<>> /\ Head(chan[<<s, n>>]).kind = kind
Receive(s, n) == chan' = [chan EXCEPT ![<<s, n>>] = Tail(@)]
Spawn(n, job) == spawned' = [spawned EXCEPT ![n][job] = @ + 1]

ReceiveTasks(n, s) ==
  /\ dst[n].pc = "idle"
  /\ Arrived(s, n, "tasks")
  /\ Receive(s, n)
  /\ dst' = [dst EXCEPT ![n] = [pc |-> "populate", from |-> s]]
  /\ UNCHANGED <<status, heap, rcu, loadCnt, th, src, auxh, auxchan, back, spawned, ctlVars, toCtl, rounds>>

(* populate_proclets; populating the pages changes no contents.            *)
Populate(n, s) ==
  /\ DstAt(n, s, "populate")
  /\ ~SpinHeld(n)
  /\ status' = [status EXCEPT ![n] = "populating"]
  /\ DstGoto(n, "load")
  /\ UNCHANGED <<heap, rcu, loadCnt, th, src, auxh, chanVars, spawned, ctlVars, toCtl, rounds>>

(* kSkipProclet: depopulate_proclet sets the status whatever it is.        *)
LoadSkipped(n, s) ==
  /\ DstAt(n, s, "load")
  /\ Arrived(s, n, "skip")
  /\ Receive(s, n)
  /\ status' = [status EXCEPT ![n] = "depopulating"]
  /\ Spawn(n, "depopulate")
  /\ DstGoto(n, "approve")
  /\ UNCHANGED <<heap, rcu, loadCnt, th, src, auxh, auxchan, back, ctlVars, toCtl, rounds>>

(* What a chunk leaves behind: its part of the heap, and one load less.    *)
Install(n, p, m) ==
  /\ heap' = [heap EXCEPT ![n] = IF m.live THEN @ \cup {p} ELSE @ \ {p}]
  /\ rcu' = IF p = HeaderPart THEN [rcu EXCEPT ![n] = m.rcu] ELSE rcu
  /\ loadCnt' = [loadCnt EXCEPT ![n] = @ - 1]

(* handle_copy_proclet on the main connection, then setup() and            *)
(* pending_load_cnt += kTransmitProcletNumThreads.                         *)
LoadMainChunk(n, s) ==
  /\ DstAt(n, s, "load")
  /\ Arrived(s, n, "copy")
  /\ Receive(s, n)
  /\ status' = [status EXCEPT ![n] = IF @ \in {"depopulating", "cleaning"} THEN "absent" ELSE @]
  /\ Install(n, Main, Head(chan[<<s, n>>]))
  /\ DstGoto(n, "count")
  /\ UNCHANGED <<th, src, auxh, auxchan, back, spawned, ctlVars, toCtl, rounds>>

(* Mutant: off by one.                                                     *)
OneChunkMore == Cardinality(Parts) + 1
NumChunks == Cardinality(Parts)

ExpectChunks(n, s) ==
  /\ DstAt(n, s, "count")
  /\ loadCnt' = [loadCnt EXCEPT ![n] = @ + NumChunks]
  /\ DstGoto(n, "spin")
  /\ UNCHANGED <<status, heap, rcu, th, src, auxh, chanVars, spawned, ctlVars, toCtl, rounds>>

(* while (pending_load_cnt.load());  Mutant: one chunk may be missing.     *)
AlmostLoaded(n) == loadCnt[n] <= 1
AllLoaded(n) == loadCnt[n] = 0

ChunksLoaded(n, s) ==
  /\ DstAt(n, s, "spin")
  /\ AllLoaded(n)
  /\ DstGoto(n, "blocked")
  /\ UNCHANGED <<status, heap, rcu, loadCnt, th, src, auxh, chanVars, spawned, ctlVars, toCtl, rounds>>

(* Threads restored at n at the point they had reached.                    *)
Restore(n, ths) ==
  th' = [t \in Threads |-> IF t \in DOMAIN ths
                           THEN [node |-> n, pc |-> ths[t], paused |-> FALSE] ELSE th[t]]

LoadBlocked(n, s) ==
  /\ DstAt(n, s, "blocked")
  /\ Arrived(s, n, "blocked")
  /\ Receive(s, n)
  /\ Restore(n, Head(chan[<<s, n>>]).ths)
  /\ DstGoto(n, "insert")
  /\ UNCHANGED <<status, heap, rcu, loadCnt, src, auxh, auxchan, back, spawned, ctlVars, toCtl, rounds>>

(* load_time_and_mark_proclet_present: the proclet is usable from here on. *)
InsertPresent(n, s) ==
  /\ DstAt(n, s, "insert")
  /\ status' = [status EXCEPT ![n] = "present"]
  /\ DstGoto(n, "ready")
  /\ UNCHANGED <<heap, rcu, loadCnt, th, src, auxh, chanVars, spawned, ctlVars, toCtl, rounds>>

LoadReady(n, s) ==
  /\ DstAt(n, s, "ready")
  /\ Arrived(s, n, "ready")
  /\ Receive(s, n)
  /\ Restore(n, Head(chan[<<s, n>>]).ths)
  /\ DstGoto(n, "signal")
  /\ UNCHANGED <<status, heap, rcu, loadCnt, src, auxh, auxchan, back, spawned, ctlVars, toCtl, rounds>>

(* cond_var.signal_all(): the threads parked in wait_until look again.     *)
(* Mutant: signal().                                                       *)
OneWaiter(n) ==
  LET S == {t \in Threads : At(t, n, "parked")} IN IF S = {} THEN {} ELSE {CHOOSE t \in S : TRUE}
Waiters(n) == {t \in Threads : At(t, n, "parked")}

SignalAll(n, s) ==
  /\ DstAt(n, s, "signal")
  /\ th' = [t \in Threads |-> IF t \in Waiters(n) THEN [th[t] EXCEPT !.pc = "towait"] ELSE th[t]]
  /\ DstGoto(n, "approve")
  /\ UNCHANGED <<status, heap, rcu, loadCnt, src, auxh, chanVars, spawned, ctlVars, toCtl, rounds>>

FinalApproval(n, s) ==
  /\ DstAt(n, s, "approve")
  /\ back' = [back EXCEPT ![<<n, s>>] = Append(@, "approve")]
  /\ dst' = [dst EXCEPT ![n] = IdleDst]
  /\ UNCHANGED <<status, heap, rcu, loadCnt, th, src, auxh, chan, auxchan, spawned, ctlVars, toCtl, rounds>>

(* ... and handle_copy_proclet on an auxiliary connection, which the main  *)
(* one does not wait for before it reads the tasks: the header and the     *)
(* unlocked look at the status, ...                                        *)
AuxHeader(n, a, s) ==
  /\ auxh[n][a].pc = "idle"
  /\ auxchan[<<s, n>>][a] # <<>>
  /\ auxh' = [auxh EXCEPT ![n][a] =
       [pc |-> IF status[n] \in {"depopulating", "cleaning"} THEN "settle" ELSE "payload",
        from |-> s]]
  /\ UNCHANGED <<status, heap, rcu, loadCnt, th, src, dst, chanVars, spawned, ctlVars, toCtl, rounds>>

(* ... the status made kAbsent under the spin lock, so that no clean-up    *)
(* that is still to run wipes the chunk, ...                               *)
AuxSettle(n, a) ==
  /\ auxh[n][a].pc = "settle"
  /\ ~SpinHeld(n)
  /\ status' = [status EXCEPT ![n] = "absent"]
  /\ auxh' = [auxh EXCEPT ![n][a].pc = "payload"]
  /\ UNCHANGED <<heap, rcu, loadCnt, th, src, dst, chanVars, spawned, ctlVars, toCtl, rounds>>

(* ... and the payload.                                                    *)
AuxPayload(n, a) ==
  LET s == auxh[n][a].from IN
  /\ auxh[n][a].pc = "payload"
  /\ Install(n, a, Head(auxchan[<<s, n>>][a]))
  /\ auxchan' = [auxchan EXCEPT ![<<s, n>>][a] = Tail(@)]
  /\ auxh' = [auxh EXCEPT ![n][a] = IdleAux]
  /\ UNCHANGED <<status, th, src, dst, chan, back, spawned, ctlVars, toCtl, rounds>>

DestStep(n) ==
  \/ \E s \in Nodes :
       \/ ReceiveTasks(n, s) \/ Populate(n, s) \/ LoadSkipped(n, s)
       \/ LoadMainChunk(n, s) \/ ExpectChunks(n, s) \/ ChunksLoaded(n, s)
       \/ LoadBlocked(n, s) \/ InsertPresent(n, s) \/ LoadReady(n, s)
       \/ SignalAll(n, s) \/ FinalApproval(n, s)
  \/ \E a \in AuxConns :
       \/ (\E s \in Nodes : AuxHeader(n, a, s)) \/ AuxSettle(n, a) \/ AuxPayload(n, a)

---------------------------------------------------------------------------
(* The deferred clean-ups of post_migration_cleanup and depopulate_proclet:*)
(* each looks at the status under the spin lock and wipes the memory only  *)
(* if nothing has happened to the proclet since.                           *)

Expected(job) == IF job = "cleanup" THEN "cleaning" ELSE "depopulating"

Wipe(n) ==
  /\ heap' = [heap EXCEPT ![n] = {}]
  /\ rcu' = [rcu EXCEPT ![n] = {}]
  /\ loadCnt' = [loadCnt EXCEPT ![n] = 0]
  /\ status' = [status EXCEPT ![n] = "absent"]

RunJob(n, job) ==
  /\ spawned[n][job] > 0
  /\ ~SpinHeld(n)
  /\ spawned' = [spawned EXCEPT ![n][job] = @ - 1]
  /\ IF status[n] = Expected(job) THEN Wipe(n)
     ELSE UNCHANGED <<status, heap, rcu, loadCnt>>
  /\ UNCHANGED <<th, src, dst, auxh, chanVars, ctlVars, toCtl, rounds>>

(* The controller takes the one-way messages of a node in order.           *)
ControllerStep(n) ==
  /\ toCtl[n] # <<>>
  /\ LET m == Head(toCtl[n]) IN
       IF m.kind = "release"
       THEN acquired' = acquired \ {m.node} /\ UNCHANGED loc
       ELSE loc' = m.node /\ UNCHANGED acquired
  /\ toCtl' = [toCtl EXCEPT ![n] = Tail(@)]
  /\ UNCHANGED <<status, heap, rcu, loadCnt, th, src, dst, auxh, chanVars, spawned, rounds>>

Next ==
  \/ \E t \in Threads : ThreadStep(t)
  \/ \E n \in Nodes : SourceStep(n)
  \/ \E n \in Nodes : DestStep(n)
  \/ \E n \in Nodes : \E job \in Jobs : RunJob(n, job)
  \/ \E n \in Nodes : ControllerStep(n)

Spec == Init /\ [][Next]_vars

(* Handlers, clean-ups and the controller run; the threads of the proclet  *)
(* run unless they are paused, and a guard is not held for ever.  Nobody   *)
(* has to call the proclet and no pressure has to come: no fairness for    *)
(* Attach, EnableFor and AcquireSelf.                                      *)
Fairness ==
  /\ \A n \in Nodes :
       /\ WF_vars(RoundStep(n))
       /\ WF_vars(DestStep(n))
       /\ \A a \in AuxConns : WF_vars(AuxSettle(n, a) \/ AuxPayload(n, a))
       /\ \A job \in Jobs : WF_vars(RunJob(n, job))
       /\ WF_vars(ControllerStep(n))
  /\ \A t \in Threads :
       WF_vars(\E n \in Nodes :
                 \/ AttachLock(t, n) \/ AttachRecheck(t, n) \/ Detach(t, n)
                 \/ Relock(t, n) \/ RelockCheck(t, n) \/ WaitUntilPresent(t, n))

FairSpec == Spec /\ Fairness

---------------------------------------------------------------------------
(* Properties.                                                             *)

TypeOK ==
  /\ status \in [Nodes -> Status]
  /\ heap \in [Nodes -> SUBSET Parts]
  /\ rcu \in [Nodes -> SUBSET Threads]
  /\ loadCnt \in [Nodes -> (0 - Cardinality(Parts))..(Cardinality(Parts) - 1)]
  /\ \A t \in Threads : th[t].node \in Nodes \cup {None}
  /\ acquired \subseteq Nodes
  /\ loc \in Nodes
  /\ rounds \in 0..MaxRounds

(* Whoever finds the proclet present finds all of it: every chunk is live, *)
(* none is expected any more, and the reader counters that came with the   *)
(* heap count exactly the threads that came with it or attached since.     *)
(* The chunks that come before load() announces them take pending_load_cnt *)
(* below zero, and since load() has installed its own by then, it never    *)
(* reaches their number (TypeOK).                                          *)
PresentIsWhole ==
  /\ TypeOK
  /\ \A n \in Nodes : status[n] = "present" =>
       heap[n] = Parts /\ loadCnt[n] = 0 /\ rcu[n] = Holding

(* A guard pins the proclet to the thread's node: it is there, whole, and  *)
(* its transmission has not begun.                                         *)
GuardPins ==
  \A t \in Guarding : \A n \in Nodes : th[t].node = n =>
    /\ status[n] \in {"present", "migrating"}
    /\ heap[n] = Parts
    /\ ~SpinHeld(n)

(* No thread of the proclet stays on a node that the proclet has left, and *)
(* none sleeps on where it is present, once its arrival was signalled.     *)
NoThreadLeftBehind ==
  \A t \in Threads : \A n \in Nodes : th[t].node = n =>
    /\ \/ status[n] = "present"
       \/ status[n] = "migrating" /\ src[n].pc \notin {"location", "clean"}
       \/ dst[n].pc = "insert"
    /\ th[t].pc = "parked" /\ status[n] = "present" => dst[n].pc \in {"ready", "signal"}

(* A thread on its way is in exactly one message, once.                    *)
Carrying(t) ==
  {c \in (Nodes \X Nodes) \X (1..4) :
     /\ c[2] \in DOMAIN chan[c[1]]
     /\ chan[c[1]][c[2]].kind \in {"blocked", "ready"}
     /\ t \in DOMAIN chan[c[1]][c[2]].ths}

NoThreadLost ==
  \A t \in Threads :
    Cardinality(Carrying(t)) = IF th[t].node = None /\ th[t].pc # "out" THEN 1 ELSE 0

(* Seen from inside, the proclet is pinned while calls run and moves at    *)
(* once between them.                                                      *)
Hosts == {n \in Nodes : \/ status[n] = "present"
                        \/ SrcAt(n, "sync") \/ SrcAt(n, "syncing")}
Pinned == INSTANCE PinnedProclet WITH
  Moving <- None,
  host <- IF Hosts = {} THEN None ELSE CHOOSE n \in Hosts : TRUE,
  inside <- Guarding

ImplementsPinned == Pinned!Spec

(* A migration round that is started is finished.                          *)
RoundFinishes == \A n \in Nodes : ~SrcAt(n, "idle") ~> SrcAt(n, "idle")

(* A thread parked while its proclet moves gets its guard back, wherever   *)
(* the proclet arrived.                                                    *)
ParkedGetsGuard == \A t \in Threads : th[t].pc = "parked" ~> th[t].pc = "guard"
=============================================================================
