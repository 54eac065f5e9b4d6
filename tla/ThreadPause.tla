---------------------------- MODULE ThreadPause ----------------------------
(***************************************************************************)
(* How the threads of a proclet are stopped before it is transmitted, and  *)
(* who does it: the pressure handlers of a node (main and auxiliary), and  *)
(* the scheduler of every core, whose run queues the threads are in.       *)
(*                                                                         *)
(* Abstractions.  A run queue and its overflow list are a set, as nothing  *)
(* here depends on their order; threads that are of no proclet are not in  *)
(* it, and a core finds one of them ("other") whenever it looks.  The      *)
(* handlers run on cores whose current thread is "other" for good; these   *)
(* cores need no step.  A thread that is still to be created or that has   *)
(* ended counts as blocked.  What an auxiliary handler writes to its       *)
(* connection is a task without contents.                                  *)
(*                                                                         *)
(* Bounds.  MaxStarts: how often the iokernel starts the handlers.         *)
(***************************************************************************)
EXTENDS Integers, FiniteSets

CONSTANTS
  NumCores,       (* maxks                                                 *)
  Threads, Proclets,
  Aux,            (* the auxiliary handlers                                *)
  Pauser,         (* handler 0, which is given the pause tasks             *)
  MaxStarts,
  PromptSwitch    (* a core that has made its thread ready gets its own    *)
                  (* lock before that thread was stolen and shed back      *)

Cores == 1..NumCores
None == "none"
Other == "other"
Guest == "guest"

ASSUME ConstantsOK ==
  /\ NumCores \in Nat \ {0}
  /\ Pauser \in Aux /\ IsFiniteSet(Aux)
  /\ {None, Other, Guest} \cap Threads = {} /\ None \notin Proclets
  /\ Aux \cap Cores = {} /\ 0 \notin Aux /\ "main" \notin Aux
  /\ MaxStarts \in Nat /\ PromptSwitch \in BOOLEAN

VARIABLES
  owner,      (* per thread, nu_state.owner_proclet                        *)
  core,       (* per core, where its code is and k->curr_th                *)
  lock,       (* per core, who holds k->lock: a core, a handler or Free    *)
  rq,         (* per core, the threads of proclets in its run queue        *)
  mig,        (* per core, k->migrating_ths                                *)
  req,        (* per core, k->pause_req                                    *)
  intr,       (* the cores with preempt_yield_needed                       *)
  running,    (* the threads with thread_running                           *)
  blocked,    (* the threads on mutexes, condition variables and timers    *)
  gathered,   (* all_migrating_ths                                         *)
  gone,       (* the threads transmitted                                   *)
  mask,       (* global_pause_req_mask                                     *)
  target,     (* pause_req_owner_proclet                                   *)
  main,       (* where the main handler is                                 *)
  early,      (* the cores that may have looked for a pause request before *)
              (* it was made and have not settled since                    *)
  aux,        (* per auxiliary handler, where it is                        *)
  st,         (* per auxiliary handler, its AuxHandlerState                *)
  scan,       (* the loop of pause_migrating_ths_aux                       *)
  active,     (* active_handlers_                                          *)
  status,     (* resource_pressure_info->status                            *)
  summoned,   (* the handlers the iokernel has put at a core's preemptor   *)
  starts      (* how often it did so                                       *)

Free == 0
threadVars == <<owner, core, lock, rq, mig, req, intr, running, blocked>>
gatherVars == <<gathered, gone, mask, target>>
handlerVars == <<main, aux, st, scan, active, status, summoned, starts>>
vars == <<threadVars, gatherVars, early, handlerVars>>

Idle == [pc |-> "parked", cur |-> None, old |-> None, then |-> "sched", tgt |-> 1]
NoTask == [pending |-> FALSE, pause |-> FALSE, done |-> FALSE]
NoPass == [i |-> 1, last |-> 1, done |-> TRUE]

Init ==
  /\ owner \in [Threads -> Proclets]
  /\ core = [c \in Cores |-> Idle]
  /\ lock = [c \in Cores |-> Free]
  /\ rq = [c \in Cores |-> IF c = 1 THEN Threads ELSE {}]
  /\ mig = [c \in Cores |-> {}]
  /\ req = [c \in Cores |-> FALSE]
  /\ intr = {} /\ running = {} /\ blocked = {} /\ gathered = {} /\ gone = {}
  /\ mask = FALSE /\ target = None
  /\ main = "off" /\ early = {}
  /\ aux = [a \in Aux |-> "off"]
  /\ st = [a \in Aux |-> NoTask]
  /\ scan = NoPass
  /\ active = 0 /\ status = "NONE" /\ summoned = {} /\ starts = 0

---------------------------------------------------------------------------
(* Locks and requests.                                                     *)

At(c, pc) == core[c].pc = pc
Goto(c, pc) == core' = [core EXCEPT ![c].pc = pc]
Become(c, pc, th) == core' = [core EXCEPT ![c] = [@ EXCEPT !.pc = pc, !.cur = th]]

(* spin_try_lock of the lock of core r.                                    *)
Takeable(r) == lock[r] = Free

(* The thread that is on its way off core c: nobody has its registers yet. *)
Leaving(c) ==
  CASE At(c, "switch") -> core[c].cur
    [] At(c, "load") -> core[c].old
    [] OTHER -> None

OwnedThreads == {t \in Threads : owner[t] = target}

(* has_pending_pause_req, and can_handle_pause_req.  Mutant: a core can be *)
(* handled whatever it runs.                                               *)
Pending(c) == req[c] /\ mask
CanAlways(c) == TRUE
CanHandle(c) == core[c].cur \notin OwnedThreads \cup {Guest}

(* __pause_migrating_threads_locked, up to its wait for the threads that   *)
(* are still switching out, and the store that ends it.                    *)
TakeThreads(c) ==
  /\ rq' = [rq EXCEPT ![c] = @ \ OwnedThreads]
  /\ mig' = [mig EXCEPT ![c] = @ \cup (rq[c] \cap OwnedThreads)]
AllSwitchedOut(c) == mig[c] \cap running = {}

(* A core whose scheduler has settled since the request.                   *)
Settle(c) == early' = early \ {c}

---------------------------------------------------------------------------
(* The threads of proclets.                                                *)

Runs(c, t) == At(c, "run") /\ core[c].cur = t /\ t \in Threads

threadFrame == <<gatherVars, handlerVars>>

(* thread_yield, by itself or because of a signal: the thread is ready in  *)
(* its core's queue before it has left the core.                           *)
Yield(c, t) ==
  /\ Runs(c, t)
  /\ lock[c] = Free
  /\ rq' = [rq EXCEPT ![c] = @ \cup {t}]
  /\ intr' = intr \ {c}
  /\ Goto(c, "switch")
  /\ UNCHANGED <<owner, lock, mig, req, running, blocked, early, threadFrame>>

(* Mutex::__lock, CondVar::wait, Time::sleep_until: on a list of waiters   *)
(* whose lock is released before the thread has left the core.             *)
Block(c, t) ==
  /\ Runs(c, t)
  /\ blocked' = blocked \cup {t}
  /\ Goto(c, "switch")
  /\ UNCHANGED <<owner, lock, rq, mig, req, intr, running, early, threadFrame>>

(* A thread of the proclet wakes one that waits: thread_ready puts it in   *)
(* the queue of the waker's core.                                          *)
Wake(c, t, u) ==
  /\ Runs(c, t)
  /\ u \in blocked /\ owner[u] = owner[t]
  /\ lock[c] = Free
  /\ rq' = [rq EXCEPT ![c] = @ \cup {u}]
  /\ blocked' = blocked \ {u}
  /\ UNCHANGED <<owner, core, lock, mig, req, intr, running, early, threadFrame>>

(* thread_cede: the core is taken away; the thread goes to the head of its *)
(* queue, and the core parks.                                              *)
Cede(c, t) ==
  /\ Runs(c, t)
  /\ lock[c] = Free
  /\ rq' = [rq EXCEPT ![c] = @ \cup {t}]
  /\ running' = running \ {t}
  /\ Become(c, "parked", None)
  /\ UNCHANGED <<owner, lock, mig, req, intr, blocked, early, threadFrame>>

(* A handler thread of the RPC server attaches to the proclet that is      *)
(* leaving: it is its owner, with preemption off, until it has seen the    *)
(* status.                                                                 *)
GuestAttach(c) ==
  /\ At(c, "run") /\ core[c].cur = Other
  /\ main \in {"signal", "waiting", "forced"}
  /\ Become(c, "run", Guest)
  /\ UNCHANGED <<owner, lock, rq, mig, req, intr, running, blocked, early, threadFrame>>

GuestLeave(c) ==
  /\ At(c, "run") /\ core[c].cur = Guest
  /\ Become(c, "run", Other)
  /\ UNCHANGED <<owner, lock, rq, mig, req, intr, running, blocked, early, threadFrame>>

(* Other threads that leave the core.                                      *)
OtherSwitch(c) ==
  /\ At(c, "run") /\ core[c].cur = Other
  /\ Goto(c, "switch")
  /\ intr' = intr \ {c}
  /\ UNCHANGED <<owner, lock, rq, mig, req, running, blocked, early, threadFrame>>

ThreadStep(c) ==
  \/ \E t \in Threads : Yield(c, t) \/ Block(c, t) \/ Cede(c, t)
  \/ \E t, u \in Threads : Wake(c, t, u)
  \/ GuestAttach(c) \/ GuestLeave(c) \/ OtherSwitch(c)

---------------------------------------------------------------------------
(* schedule().                                                             *)

(* enter_schedule and the entry of schedule(): k->lock, and the thread     *)
(* that leaves has switched out.                                           *)
EnterSchedule(c) ==
  /\ At(c, "switch") /\ lock[c] = Free
  /\ lock' = [lock EXCEPT ![c] = c]
  /\ running' = running \ {core[c].cur}
  /\ Become(c, "check", None)
  /\ UNCHANGED <<owner, rq, mig, req, intr, blocked, early, threadFrame>>

(* The fast path: the next thread is popped and the lock let go of before  *)
(* the last one has switched out.                                          *)
EnterDirect(c) ==
  /\ At(c, "switch") /\ lock[c] = Free /\ ~Pending(c)
  /\ \E t \in rq[c] \cup {Other} :
       /\ rq' = [rq EXCEPT ![c] = @ \ {t}]
       /\ core' = [core EXCEPT ![c] = [@ EXCEPT !.pc = "load", !.cur = t, !.old = core[c].cur]]
  /\ UNCHANGED <<owner, lock, mig, req, intr, running, blocked, early, threadFrame>>

(* kthread_park returns.                                                   *)
Unpark(c) ==
  /\ At(c, "parked") /\ lock[c] = Free
  /\ lock' = [lock EXCEPT ![c] = c]
  /\ Goto(c, "check")
  /\ UNCHANGED <<owner, rq, mig, req, intr, running, blocked, early, threadFrame>>

(* pause_local_migrating_threads_locked.                                   *)
Check(c) ==
  /\ At(c, "check")
  /\ IF Pending(c)
     THEN TakeThreads(c) /\ core' = [core EXCEPT ![c] = [@ EXCEPT !.pc = "pausing", !.then = "sched"]]
     ELSE Goto(c, "sched") /\ UNCHANGED <<rq, mig>>
  /\ Settle(c)
  /\ UNCHANGED <<owner, lock, req, intr, running, blocked, threadFrame>>

(* The run queue is not empty: pop one and let go of the lock.             *)
RunNext(c) ==
  /\ At(c, "sched")
  /\ \E t \in rq[c] :
       /\ rq' = [rq EXCEPT ![c] = @ \ {t}]
       /\ Become(c, "load", t)
  /\ lock' = [lock EXCEPT ![c] = Free]
  /\ UNCHANGED <<owner, mig, req, intr, running, blocked, early, threadFrame>>

RunOther(c) ==
  /\ At(c, "sched")
  /\ Become(c, "run", Other)
  /\ lock' = [lock EXCEPT ![c] = Free]
  /\ Settle(c)
  /\ UNCHANGED <<owner, rq, mig, req, intr, running, blocked, threadFrame>>

(* jmp_thread and jmp_thread_direct: wait until the thread has left the    *)
(* core it was on; the latter only then lets the old one go.               *)
Load(c) ==
  /\ At(c, "load")
  /\ core[c].cur \notin running \ {core[c].old}
  /\ running' = (running \ {core[c].old}) \cup ({core[c].cur} \cap Threads)
  /\ core' = [core EXCEPT ![c] = [@ EXCEPT !.pc = "run", !.old = None]]
  /\ Settle(c)
  /\ UNCHANGED <<owner, lock, rq, mig, req, intr, blocked, threadFrame>>

(* Nothing to run: steal_work from r, which looks at r's request first.    *)
(* Mutant: it does not.                                                    *)
StealAnyway(r) == TRUE
MayStealFrom(r) == ~Pending(r)

StealLook(c, r) ==
  /\ At(c, "sched") /\ rq[c] = {} /\ r # c
  /\ MayStealFrom(r)
  /\ core' = [core EXCEPT ![c] = [@ EXCEPT !.pc = "steal", !.tgt = r]]
  /\ UNCHANGED <<owner, lock, rq, mig, req, intr, running, blocked, early, threadFrame>>

StealHandle(c, r) ==
  /\ At(c, "sched") /\ rq[c] = {} /\ r # c
  /\ Pending(r) /\ Takeable(r) /\ CanHandle(r)
  /\ lock' = [lock EXCEPT ![r] = c]
  /\ TakeThreads(r)
  /\ core' = [core EXCEPT ![c] = [@ EXCEPT !.pc = "pausing", !.then = "steal", !.tgt = r]]
  /\ UNCHANGED <<owner, req, intr, running, blocked, early, threadFrame>>

(* Half of r's queue; with the threads that are not modelled it may be any *)
(* of those that are.                                                      *)
StealTake(c) ==
  LET r == core[c].tgt IN
  /\ At(c, "steal") /\ Takeable(r)
  /\ \E some \in SUBSET rq[r] :
       rq' = [rq EXCEPT ![c] = @ \cup some, ![r] = @ \ some]
  /\ Goto(c, "sched")
  /\ UNCHANGED <<owner, lock, mig, req, intr, running, blocked, early, threadFrame>>

StealFail(c) ==
  /\ At(c, "steal")
  /\ Goto(c, "sched")
  /\ UNCHANGED <<owner, lock, rq, mig, req, intr, running, blocked, early, threadFrame>>

(* goto again, and parking at last.                                        *)
Again(c) ==
  /\ At(c, "sched") /\ rq[c] = {}
  /\ Goto(c, "check")
  /\ UNCHANGED <<owner, lock, rq, mig, req, intr, running, blocked, early, threadFrame>>

Park(c) ==
  /\ At(c, "sched") /\ rq[c] = {}
  /\ lock' = [lock EXCEPT ![c] = Free]
  /\ Goto(c, "parked")
  /\ Settle(c)
  /\ UNCHANGED <<owner, rq, mig, req, intr, running, blocked, threadFrame>>

ScheduleStep(c) ==
  \/ EnterSchedule(c) \/ EnterDirect(c) \/ Unpark(c) \/ Check(c) \/ RunNext(c) \/ RunOther(c) \/ Load(c)
  \/ (\E r \in Cores : StealLook(c, r) \/ StealHandle(c, r))
  \/ StealTake(c) \/ StealFail(c) \/ Again(c) \/ Park(c)
---------------------------------------------------------------------------
(* unblock_spin, called by whoever spins in the runtime: stop the threads  *)
(* in the own queue, then shed the queue to other cores.                   *)

UnblockHandle(c) ==
  /\ At(c, "run") /\ core[c].cur = Other
  /\ Pending(c) /\ lock[c] = Free
  /\ lock' = [lock EXCEPT ![c] = c]
  /\ TakeThreads(c)
  /\ core' = [core EXCEPT ![c] = [@ EXCEPT !.pc = "pausing", !.then = "run"]]
  /\ UNCHANGED <<owner, req, intr, running, blocked, early, threadFrame>>

(* shed_work holds both locks when it looks at its own request.  Mutant:   *)
(* it does not look.                                                       *)
ShedAnyway(c) == FALSE
MustStopFirst(c) == Pending(c)

ShedLook(c, r) ==
  /\ At(c, "run") /\ core[c].cur = Other
  /\ rq[c] # {} /\ lock[c] = Free
  /\ r # c /\ Takeable(r) /\ ~At(r, "parked")
  /\ PromptSwitch => ~At(r, "switch")
  /\ lock' = [lock EXCEPT ![c] = c, ![r] = c]
  /\ IF MustStopFirst(c)
     THEN /\ TakeThreads(c)
          /\ core' = [core EXCEPT ![c] = [@ EXCEPT !.pc = "pausing", !.then = "shed", !.tgt = r]]
     ELSE /\ core' = [core EXCEPT ![c] = [@ EXCEPT !.pc = "shed", !.tgt = r]]
          /\ UNCHANGED <<rq, mig>>
  /\ UNCHANGED <<owner, req, intr, running, blocked, early, threadFrame>>

(* As many as r has room for, and all that had overflowed.                 *)
ShedMove(c) ==
  LET r == core[c].tgt IN
  /\ At(c, "shed")
  /\ \E some \in SUBSET rq[c] :
       rq' = [rq EXCEPT ![c] = @ \ some, ![r] = @ \cup some]
  /\ lock' = [lock EXCEPT ![c] = Free, ![r] = Free]
  /\ Goto(c, "run")
  /\ UNCHANGED <<owner, mig, req, intr, running, blocked, early, threadFrame>>

(* The end of __pause_migrating_threads_locked, for whom it was called.    *)
Victim(c) == IF core[c].then = "steal" THEN core[c].tgt ELSE c
Unlocked(c) ==
  CASE core[c].then = "run" -> [lock EXCEPT ![c] = Free]
    [] core[c].then = "steal" -> [lock EXCEPT ![core[c].tgt] = Free]
    [] OTHER -> lock

Stopped(c) ==
  /\ At(c, "pausing") /\ AllSwitchedOut(Victim(c))
  /\ req' = [req EXCEPT ![Victim(c)] = FALSE]
  /\ lock' = Unlocked(c)
  /\ Goto(c, core[c].then)
  /\ UNCHANGED <<owner, rq, mig, intr, running, blocked, early, threadFrame>>

UnblockStep(c) ==
  \/ UnblockHandle(c) \/ (\E r \in Cores : ShedLook(c, r)) \/ ShedMove(c) \/ Stopped(c)

---------------------------------------------------------------------------
(* The auxiliary handlers: __aux_handler and pause_migrating_ths_aux.      *)

SetAux(a, pc) == aux' = [aux EXCEPT ![a] = pc]
scanFrame == <<owner, core, intr, running, blocked, gone, target, main, early,
               st, active, status, summoned, starts>>

AuxStart(a) ==
  /\ a \in summoned /\ aux[a] = "off"
  /\ summoned' = summoned \ {a}
  /\ SetAux(a, "serve")
  /\ UNCHANGED <<threadVars, gatherVars, early, main, st, scan, active, status, starts>>

AuxWrite(a) ==
  /\ aux[a] = "serve" /\ ~st[a].done
  /\ st[a].pending /\ ~st[a].pause
  /\ st' = [st EXCEPT ![a].pending = FALSE]
  /\ UNCHANGED <<threadVars, gatherVars, early, main, aux, scan, active, status, summoned, starts>>

(* The first pass begins when the request has been made.                   *)
AuxSeeRequest(a) ==
  /\ aux[a] = "serve" /\ ~st[a].done
  /\ st[a].pending /\ st[a].pause /\ mask
  /\ SetAux(a, "scan")
  /\ scan' = NoPass
  /\ UNCHANGED <<lock, rq, mig, req, gathered, mask, scanFrame>>

(* A core whose request is done gives up what was found there.  Mutant: it *)
(* keeps it.                                                               *)
CollectCopy(i) == gathered' = gathered \cup mig[i] /\ UNCHANGED mig
Collect(i) ==
  /\ gathered' = gathered \cup mig[i]
  /\ mig' = [mig EXCEPT ![i] = {}]

AuxCollect(a) ==
  /\ aux[a] = "scan" /\ scan.i \in Cores
  /\ ~req[scan.i]
  /\ Collect(scan.i)
  /\ scan' = [scan EXCEPT !.i = @ + 1]
  /\ UNCHANGED <<lock, rq, req, mask, aux, scanFrame>>

(* handle_pending_pause_req: in place of a core that runs something else.  *)
AuxHandle(a) ==
  /\ aux[a] = "scan" /\ scan.i \in Cores
  /\ req[scan.i] /\ Takeable(scan.i) /\ CanHandle(scan.i)
  /\ lock' = [lock EXCEPT ![scan.i] = a]
  /\ TakeThreads(scan.i)
  /\ SetAux(a, "pausing")
  /\ UNCHANGED <<req, gathered, mask, scan, scanFrame>>

AuxHandled(a) ==
  /\ aux[a] = "pausing" /\ AllSwitchedOut(scan.i)
  /\ req' = [req EXCEPT ![scan.i] = FALSE]
  /\ lock' = [lock EXCEPT ![scan.i] = Free]
  /\ Collect(scan.i)
  /\ scan' = [scan EXCEPT !.i = @ + 1]
  /\ SetAux(a, "scan")
  /\ UNCHANGED <<rq, mask, scanFrame>>

(* It cannot be handled yet: the next pass begins with the first of these. *)
NextPassFrom(i) == [i |-> i + 1, last |-> IF scan.done THEN i ELSE scan.last, done |-> FALSE]

AuxPostpone(a) ==
  /\ aux[a] = "scan" /\ scan.i \in Cores
  /\ req[scan.i] /\ ~(Takeable(scan.i) /\ CanHandle(scan.i))
  /\ scan' = NextPassFrom(scan.i)
  /\ UNCHANGED <<lock, rq, mig, req, gathered, mask, aux, scanFrame>>

AuxPassDone(a) ==
  /\ aux[a] = "scan" /\ scan.i > NumCores
  /\ IF scan.done
     THEN mask' = FALSE /\ SetAux(a, "scanned") /\ scan' = NoPass
     ELSE scan' = [scan EXCEPT !.i = scan.last, !.done = TRUE] /\ UNCHANGED <<mask, aux>>
  /\ UNCHANGED <<lock, rq, mig, req, gathered, scanFrame>>

AuxPauseDone(a) ==
  /\ aux[a] = "scanned"
  /\ st' = [st EXCEPT ![a] = [@ EXCEPT !.pause = FALSE, !.pending = FALSE]]
  /\ SetAux(a, "serve")
  /\ UNCHANGED <<threadVars, gatherVars, early, main, scan, active, status, summoned, starts>>

(* Told to stop: the flag is reset for the next start before the handler   *)
(* is counted out.                                                         *)
AuxRelease(a) ==
  /\ aux[a] = "serve" /\ st[a].done
  /\ st' = [st EXCEPT ![a].done = FALSE]
  /\ SetAux(a, "stop")
  /\ UNCHANGED <<threadVars, gatherVars, early, main, scan, active, status, summoned, starts>>

(* --active_handlers_, and set_handled by the last one.                    *)
CountOut ==
  /\ active' = active - 1
  /\ status' = IF active = 1 THEN "HANDLED" ELSE status

AuxStop(a) ==
  /\ aux[a] = "stop"
  /\ CountOut
  /\ SetAux(a, "off")
  /\ UNCHANGED <<threadVars, gatherVars, early, main, st, scan, summoned, starts>>

AuxStep(a) ==
  \/ AuxStart(a) \/ AuxWrite(a) \/ AuxSeeRequest(a) \/ AuxCollect(a) \/ AuxHandle(a)
  \/ AuxHandled(a) \/ AuxPostpone(a) \/ AuxPassDone(a) \/ AuxPauseDone(a)
  \/ AuxRelease(a) \/ AuxStop(a)

---------------------------------------------------------------------------
(* The main handler: __main_handler, __migrate and pause_migrating_ths_main *)
(* as far as they concern the threads.                                     *)

mainFrame == <<owner, core, lock, rq, mig, running, aux, scan>>

(* ias_ps_poll: the pressure is to be handled (again).                     *)
Summon ==
  /\ status # "HANDLING" /\ starts < MaxStarts
  /\ status' = "HANDLING"
  /\ summoned' = Aux \cup {"main"}
  /\ starts' = starts + 1
  /\ UNCHANGED <<threadVars, gatherVars, early, main, aux, st, scan, active>>

(* active_handlers_ += kNumAuxHandlers + 1.  Mutant: the main handler is   *)
(* not counted.                                                            *)
NumAux == Cardinality(Aux)
NumHandlers == Cardinality(Aux) + 1

MainStart ==
  /\ "main" \in summoned /\ main = "off"
  /\ summoned' = summoned \ {"main"}
  /\ active' = active + NumHandlers
  /\ main' = "ready"
  /\ UNCHANGED <<threadVars, gatherVars, early, aux, st, scan, status, starts>>

(* dispatch_aux_pause_task(0), for a proclet that is now kMigrating and    *)
(* whose readers have left.                                                *)
MainDispatchPause ==
  /\ main = "ready" /\ ~st[Pauser].pending
  /\ st' = [st EXCEPT ![Pauser] = [@ EXCEPT !.pause = TRUE, !.pending = TRUE]]
  /\ main' = "request"
  /\ UNCHANGED <<mainFrame, req, intr, blocked, gatherVars, early, active, status, summoned, starts>>

(* pause_req of every core, the owner and the mask: only the mask makes    *)
(* the others count.                                                       *)
MainRequest(p) ==
  /\ main = "request"
  /\ \A t \in gone : owner[t] # p
  /\ req' = [c \in Cores |-> TRUE]
  /\ target' = p
  /\ mask' = TRUE
  /\ early' = {c \in Cores : core[c].pc \in {"sched", "steal", "load"}}
  /\ main' = "signal"
  /\ UNCHANGED <<mainFrame, intr, blocked, gathered, gone, st, active, status, summoned, starts>>

(* The cores that run a thread of the proclet are sent a signal ...        *)
MainSignal ==
  /\ main = "signal"
  /\ intr' = intr \cup {c \in Cores : req[c] /\ ~CanHandle(c) /\ ~At(c, "parked")}
  /\ main' = "waiting"
  /\ UNCHANGED <<mainFrame, req, blocked, gatherVars, early, st, active, status, summoned, starts>>

(* ... and after RUNTIME_PAUSE_THS_MAX_WAIT_US every core is, once: by     *)
(* then the cores that were in their schedulers at the request have looked *)
(* again or run what they had found.  Mutant: the fall-back is missing.    *)
NoCores == {}
AllCores == {c \in Cores : ~At(c, "parked")}

MainForce ==
  /\ main = "waiting" /\ mask /\ early = {}
  /\ intr' = intr \cup AllCores
  /\ main' = "forced"
  /\ UNCHANGED <<mainFrame, req, blocked, gatherVars, early, st, active, status, summoned, starts>>

MainPaused ==
  /\ main \in {"waiting", "forced"} /\ ~mask
  /\ main' = "paused"
  /\ UNCHANGED <<mainFrame, req, intr, blocked, gatherVars, early, st, active, status, summoned, starts>>

(* transmit_proclet: a chunk for every auxiliary handler, each of which    *)
(* must have finished what it was given before.                            *)
MainDispatch ==
  /\ main = "paused" /\ \A a \in Aux : ~st[a].pending
  /\ st' = [a \in Aux |-> [st[a] EXCEPT !.pending = TRUE]]
  /\ main' = "transmit"
  /\ UNCHANGED <<mainFrame, req, intr, blocked, gatherVars, early, active, status, summoned, starts>>

(* wait_aux_tasks; then the threads are transmitted, those that wait and   *)
(* those that were gathered, and freed (gc_migrated_threads).              *)
MainTransmit ==
  /\ main = "transmit" /\ \A a \in Aux : ~st[a].pending
  /\ gone' = gone \cup gathered \cup (blocked \cap OwnedThreads)
  /\ blocked' = blocked \ OwnedThreads
  /\ gathered' = {} /\ target' = None
  /\ main' = "ready"
  /\ UNCHANGED <<mainFrame, req, intr, mask, early, st, active, status, summoned, starts>>

(* pause_aux_handlers.                                                     *)
MainEnd ==
  /\ main = "ready"
  /\ st' = [a \in Aux |-> [st[a] EXCEPT !.done = TRUE]]
  /\ main' = "ending"
  /\ UNCHANGED <<mainFrame, req, intr, blocked, gatherVars, early, active, status, summoned, starts>>

MainStop ==
  /\ main = "ending"
  /\ CountOut
  /\ main' = "off"
  /\ UNCHANGED <<mainFrame, req, intr, blocked, gatherVars, early, st, summoned, starts>>

MainStep ==
  \/ MainStart \/ MainDispatchPause \/ (\E p \in Proclets : MainRequest(p)) \/ MainSignal
  \/ MainForce \/ MainPaused \/ MainDispatch \/ MainTransmit \/ MainEnd \/ MainStop

CoreStep(c) == ThreadStep(c) \/ ScheduleStep(c) \/ UnblockStep(c)

Next ==
  \/ \E c \in Cores : CoreStep(c)
  \/ \E a \in Aux : AuxStep(a)
  \/ Summon \/ MainStep

Spec == Init /\ [][Next]_vars

(* Schedulers run, a core that is sent a signal yields, a thread that is   *)
(* attaching detaches, the handlers run.  A thread that is sent no signal  *)
(* may compute for ever, a core may stay parked or spin for ever.          *)
YieldToSignal(c) == c \in intr /\ (OtherSwitch(c) \/ \E t \in Threads : Yield(c, t))
Fairness ==
  /\ \A c \in Cores :
       /\ SF_vars(EnterSchedule(c) \/ EnterDirect(c) \/ RunNext(c) \/ RunOther(c) \/ Again(c) \/ Park(c))
       /\ WF_vars(Check(c) \/ Load(c) \/ StealFail(c) \/ ShedMove(c) \/ Stopped(c) \/ GuestLeave(c))
       /\ SF_vars(YieldToSignal(c))
  /\ \A a \in Aux : WF_vars(AuxStep(a))
  /\ WF_vars(MainStep)

FairSpec == Spec /\ Fairness

---------------------------------------------------------------------------
(* Properties.                                                             *)

(* A thread is in one place: on a core, in a run queue, on a list of       *)
(* waiters, among the threads gathered at a core or at all, or gone; the   *)
(* lists share one link, so that a thread in two of them would corrupt     *)
(* both.  (One that is leaving its core can have been made ready.)         *)
Places(t) ==
  {<<"core", c>> : c \in {d \in Cores : core[d].cur = t /\ ~At(d, "switch")}}
  \cup {<<"rq", c>> : c \in {d \in Cores : t \in rq[d]}}
  \cup {<<"mig", c>> : c \in {d \in Cores : t \in mig[d]}}
  \cup {<<x[1], 0>> : x \in {y \in {<<"blocked", blocked>>, <<"gathered", gathered>>, <<"gone", gone>>} :
                            t \in y[2]}}
OnePlace == \A t \in Threads : Cardinality(Places(t)) = 1

(* When pause_migrating_ths_main has returned, the threads of the proclet  *)
(* are gathered or wait, none is on its way off a core, and none becomes   *)
(* ready before they have been transmitted, whatever the cores do.         *)
PausedIsStopped ==
  main \in {"paused", "transmit"} =>
    /\ OwnedThreads \subseteq gathered \cup blocked
    /\ gathered \subseteq OwnedThreads \ running

(* The handlers are counted right: when the iokernel may start them again, *)
(* all of them are at rest and no request, task or flag of the last start  *)
(* is left.                                                                *)
HandlersAtRest ==
  status # "HANDLING" =>
    /\ main = "off" /\ active = 0 /\ summoned = {}
    /\ \A a \in Aux : aux[a] = "off" /\ st[a] = NoTask
    /\ ~mask /\ gathered = {} /\ \A c \in Cores : mig[c] = {}

(* Those who stop the threads of a core wait for them to switch out, with  *)
(* one lock or two in their hands; a core that switches waits for its own  *)
(* lock, or for the next thread to have left another core.  Nobody waits   *)
(* in a circle.                                                            *)
WaitsFor(x, y) ==
  \/ x \in Cores /\ At(x, "pausing") /\ Leaving(y) \in mig[Victim(x)] \cap running
  \/ x \in Aux /\ aux[x] = "pausing" /\ Leaving(y) \in mig[scan.i] \cap running
  \/ x \in Cores /\ At(x, "load") /\ y # x /\ Leaving(y) \in {core[x].cur} \cap running
NoCircularWait ==
  LET Stuck == {x \in Cores : At(x, "pausing") \/ At(x, "load") \/ At(x, "switch")}
               \cup {a \in Aux : aux[a] = "pausing"}
  IN \A S \in (SUBSET Stuck) \ {{}} :
       \E x \in S : \A y \in S :
         /\ y \in Cores => ~WaitsFor(x, y)
         /\ x \in Cores /\ At(x, "switch") => lock[x] # y

(* pause_migrating_ths_main returns.                                       *)
PauseReturns == main = "signal" ~> main = "paused"

(* Seen from the migrator, the threads stop all at once when the mask is   *)
(* cleared: until then one that is gathered passes for one that is ready.  *)
ModeOf(t) ==
  IF t \in gone THEN "gone"
  ELSE IF t \in blocked THEN "blocked"
  ELSE IF t \in gathered /\ ~mask THEN "stopped" ELSE "active"

Promise == INSTANCE AtomicPause WITH
  mode <- [t \in Threads |-> ModeOf(t)],
  stopped <- IF target # None /\ ~mask THEN {target} ELSE {}

ImplementsAtomicPause == Promise!Spec
=============================================================================
