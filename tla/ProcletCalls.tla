---------------------------- MODULE ProcletCalls ----------------------------
(***************************************************************************)
(* Calls between proclets that move.  The threads of proclet A call a      *)
(* method of proclet B, and then drop their reference to it (Proclet::__run, *)
(* invoke_remote, update_ref_cnt).  A call is local if B is found at the   *)
(* caller's node; otherwise it is an RPC to the node that the location     *)
(* cache names, and is tried again when that node has no B.  The thread    *)
(* that runs the method moves with B; its result is forwarded to the node  *)
(* that got the RPC, for only that one can answer it.  The caller's thread *)
(* waits at its node, outside of A; if A is gone when it is done, its      *)
(* stack is sent after A (Migrator::migrate_thread_and_ret_val).  The last *)
(* reference that is dropped destroys B.                                   *)
(*                                                                         *)
(* Abstractions.  A migration is marked, leaves, and arrives:              *)
(* ProcletMigration has the rest.  acquire_node and the guards of the      *)
(* controller let one migration at a time touch a node (Controller), so    *)
(* with three nodes there is one at all; and a proclet is not moved on     *)
(* before the controller has read its location.  The thread of nu::async   *)
(* that drops a reference remotely stands for its caller, which waits for  *)
(* it.  That update_location can be overtaken by destroy_proclet           *)
(* (Controller, QuietDestroy) is left out.                                 *)
(*                                                                         *)
(* Bounds.  Every caller calls once, every thread drops once; MaxMoves migrations.   *)
(***************************************************************************)
EXTENDS Integers, FiniteSets

CONSTANTS
  Nodes, Threads,
  Callers,       (* the threads that call; all drop their reference        *)
  Home,          (* the node of A at first                                 *)
  MaxMoves

None == "none"
Proclets == {"A", "B"}
Jobs == {"run", "drop"}
AgentPcs == {"idle", "run", "look", "store", "sent", "wrong", "wait", "answered", "body",
             "count", "ran", "kill", "again", "dtor", "done", "end", "sync"}
Agents == Threads \X {"caller", "run", "drop"}   (* callers, and handlers  *)

ASSUME ConstantsOK ==
  /\ Home \in Nodes /\ None \notin Nodes /\ Cardinality(Nodes) \in 2..3
  /\ IsFiniteSet(Threads) /\ Callers \subseteq Threads
  /\ MaxMoves \in Nat

VARIABLES
  status,   (* per node and proclet, proclet_statuses[]                    *)
  ref_cnt,  (* of B                                                        *)
  ctl,      (* controller: proclet_id_to_ip_                               *)
  news,     (* per proclet, an update_location that is still to be read    *)
  cache,    (* per node and proclet, rem_id_to_node_info_                  *)
  mig,      (* the migration that is going on                              *)
  moves,
  ag,       (* per agent, its runtime thread                               *)
  rpc,      (* per thread, its RPC: for which proclet, to whom, and the    *)
            (* address that was resolved                                   *)
  refs,     (* per node, ProcletServer::ref_cnt_                           *)
  todo,     (* per thread, the jobs it has not begun                       *)
  job, did  (* per thread, the job it is at, and how often it was done     *)

places == <<status, ctl, news, mig, moves>>
work == <<todo, job, did>>
vars == <<places, ref_cnt, cache, ag, rpc, refs, work>>

Idle == [pc |-> "idle", at |-> None, own |-> None, guard |-> None,
         migrated |-> FALSE, birth |-> None, destructed |-> FALSE]
NoRpc == [goal |-> None, to |-> None, addr |-> None]

Init ==
  \E b \in Nodes :
    /\ ctl = [p \in Proclets |-> IF p = "A" THEN Home ELSE b]
    /\ status = [n \in Nodes |-> [p \in Proclets |-> IF ctl[p] = n THEN "present" ELSE "absent"]]
    /\ ag = [x \in Agents |-> IF x[2] = "caller"
                              THEN [Idle EXCEPT !.pc = "run", !.at = Home, !.own = "A"] ELSE Idle]
    /\ ref_cnt = Cardinality(Threads)
    /\ news = [p \in Proclets |-> None]
    /\ cache = [n \in Nodes |-> [p \in Proclets |-> None]]
    /\ mig = [pc |-> "idle", p |-> None, from |-> None, to |-> None]
    /\ moves = 0
    /\ rpc = [t \in Threads |-> NoRpc]
    /\ refs = [n \in Nodes |-> 0]
    /\ todo = [t \in Threads |-> IF t \in Callers THEN Jobs ELSE {"drop"}]
    /\ job = [t \in Threads |-> None]
    /\ did = [t \in Threads |-> 0]

(* attach and its recheck under the reader lock.                           *)
Usable(n, p) == n # None /\ status[n][p] \in {"present", "destructing"}

SetStatus(n, p, s) == status' = [status EXCEPT ![n][p] = s]
Thread(t) == ag[<<t, "caller">>]
SetThread(t, r) == ag' = [ag EXCEPT ![<<t, "caller">>] = r]

(* The thread runs in A again, with the result.                            *)
HomeAgain(r, n) == [r EXCEPT !.pc = "run", !.at = n, !.own = "A", !.guard = None]
Finish(t) ==
  /\ job' = [job EXCEPT ![t] = None]
  /\ did' = [did EXCEPT ![t] = 0]
  /\ UNCHANGED todo

---------------------------------------------------------------------------
(* The caller.                                                             *)

(* Within B: a method runs with migration enabled, a count does not.       *)
Enter(r, j) ==
  [r EXCEPT !.own = "B", !.pc = IF j = "run" THEN "body" ELSE "count",
            !.guard = IF j = "run" THEN None ELSE "B"]

(* Outside of any proclet, about to send for one.                          *)
Ask(t, goal) ==
  /\ rpc' = [rpc EXCEPT ![t] = [NoRpc EXCEPT !.goal = goal]]
  /\ SetThread(t, [Thread(t) EXCEPT !.pc = "look", !.own = None, !.guard = None])

(* The caller's guard, and reattach: B is local (run_closure_locally,      *)
(* update_ref_cnt_locally), or the thread leaves A to call it.             *)
Call(t, j) ==
  LET n == Thread(t).at IN
  /\ Thread(t).pc = "run" /\ Usable(n, "A")
  /\ j \in todo[t] /\ (j = "drop" => todo[t] = {"drop"})
  /\ todo' = [todo EXCEPT ![t] = @ \ {j}]
  /\ job' = [job EXCEPT ![t] = j]
  /\ IF Usable(n, "B") THEN SetThread(t, Enter(Thread(t), j)) /\ UNCHANGED rpc ELSE Ask(t, "B")
  /\ UNCHANGED <<places, ref_cnt, cache, refs, did>>

(* get_info: from the cache, ...                                           *)
Known(t) == cache[Thread(t).at][rpc[t].goal]

LookCached(t) ==
  /\ Thread(t).pc = "look" /\ Known(t) # None
  /\ rpc' = [rpc EXCEPT ![t].to = Known(t)]
  /\ SetThread(t, [Thread(t) EXCEPT !.pc = "sent"])
  /\ UNCHANGED <<places, ref_cnt, cache, refs, work>>

(* ... or, one thread at a time, from the controller; while it answers the *)
(* proclet may move, and after that it looks again.                        *)
Resolve(t) ==
  LET p == rpc[t].goal
      n == Thread(t).at
  IN
  /\ Thread(t).pc = "look" /\ Known(t) = None
  /\ \A u \in Threads : ~(Thread(u).pc = "store" /\ Thread(u).at = n /\ rpc[u].goal = p)
  /\ ctl[p] # None                                         (* BUG_ON(!ip)  *)
  /\ rpc' = [rpc EXCEPT ![t].addr = ctl[p]]
  /\ SetThread(t, [Thread(t) EXCEPT !.pc = "store"])
  /\ UNCHANGED <<places, ref_cnt, cache, refs, work>>

Store(t) ==
  /\ Thread(t).pc = "store"
  /\ cache' = [cache EXCEPT ![Thread(t).at][rpc[t].goal] = rpc[t].addr]
  /\ rpc' = [rpc EXCEPT ![t].addr = None]
  /\ SetThread(t, [Thread(t) EXCEPT !.pc = "look"])
  /\ UNCHANGED <<places, ref_cnt, refs, work>>

(* kErrWrongClient: invalidate_cache, unless another location is there     *)
(* already, and retry.  Mutant: retry only.                                *)
StaysCached(n, p, old) == FALSE
Stale(n, p, old) == cache[n][p] = old

WrongClient(t) ==
  LET n == Thread(t).at
      p == rpc[t].goal
  IN
  /\ Thread(t).pc = "wrong"
  /\ cache' = IF Stale(n, p, rpc[t].to) THEN [cache EXCEPT ![n][p] = None] ELSE cache
  /\ rpc' = [rpc EXCEPT ![t].to = None]
  /\ SetThread(t, [Thread(t) EXCEPT !.pc = "look"])
  /\ UNCHANGED <<places, ref_cnt, refs, work>>

(* The answer has come, or the local call is over: the thread attaches to  *)
(* A again, or follows it.                                                 *)
Back(t) ==
  /\ Thread(t).pc \in {"answered", "done"}
  /\ IF Usable(Thread(t).at, "A")
     THEN /\ SetThread(t, HomeAgain(Thread(t), Thread(t).at))
          /\ rpc' = [rpc EXCEPT ![t] = NoRpc]
          /\ Finish(t)
     ELSE Ask(t, "A") /\ UNCHANGED work
  /\ UNCHANGED <<places, ref_cnt, cache, refs>>

(* load_thread_and_ret_val, at the node that was asked.                    *)
LoadThread(t) ==
  LET c == rpc[t].to IN
  /\ Thread(t).pc = "sent" /\ rpc[t].goal = "A"
  /\ IF Usable(c, "A")
     THEN /\ SetThread(t, HomeAgain(Thread(t), c))
          /\ rpc' = [rpc EXCEPT ![t] = NoRpc]
          /\ Finish(t)
     ELSE SetThread(t, [Thread(t) EXCEPT !.pc = "wrong"]) /\ UNCHANGED <<rpc, work>>
  /\ UNCHANGED <<places, ref_cnt, cache, refs>>

CallerStep(t) ==
  LookCached(t) \/ Resolve(t) \/ Store(t) \/ WrongClient(t) \/ Back(t)

---------------------------------------------------------------------------
(* The node that is asked for B.                                           *)

(* parse_and_run_handler, and attach.                                      *)
HandlerStart(t) ==
  LET c == rpc[t].to
      h == <<t, job[t]>>
  IN
  /\ Thread(t).pc = "sent" /\ rpc[t].goal = "B"
  /\ IF Usable(c, "B")
     THEN /\ ag' = [ag EXCEPT ![h] = Enter([Idle EXCEPT !.at = c, !.birth = c], job[t]),
                              ![<<t, "caller">>].pc = "wait"]
          /\ refs' = [refs EXCEPT ![c] = @ + 1]
     ELSE SetThread(t, [Thread(t) EXCEPT !.pc = "wrong"]) /\ UNCHANGED refs
  /\ UNCHANGED <<places, ref_cnt, cache, rpc, work>>

(* The method; and the guard is taken again, where B is.                   *)
RunBody(x) ==
  /\ ag[x].pc = "body" /\ ag[x].at # None
  /\ ag' = [ag EXCEPT ![x].pc = "ran"]
  /\ did' = [did EXCEPT ![x[1]] = @ + 1]
  /\ UNCHANGED <<places, ref_cnt, cache, rpc, refs, todo, job>>

Reguard(x, from, to) ==
  /\ ag[x].pc = from /\ Usable(ag[x].at, "B")
  /\ ag' = [ag EXCEPT ![x] = [@ EXCEPT !.pc = to, !.guard = "B"]]
  /\ UNCHANGED <<places, ref_cnt, cache, rpc, refs, work>>

(* __update_ref_cnt.  Mutant: below 0 instead of at 0.                     *)
IsBelow(cnt) == cnt < 0
IsLast(cnt) == cnt = 0

Count(x) ==
  /\ ag[x].pc = "count"
  /\ ref_cnt' = ref_cnt - 1
  /\ did' = [did EXCEPT ![x[1]] = @ + 1]
  /\ ag' = [ag EXCEPT ![x].pc = IF IsLast(ref_cnt') THEN "kill" ELSE "done"]
  /\ UNCHANGED <<places, cache, rpc, refs, todo, job>>

(* remove_for_destruction; while it fails the guard is given up, so that   *)
(* the migration goes on, and the thread with it.                          *)
Kill(x) ==
  /\ ag[x].pc = "kill"
  /\ IF status[ag[x].at]["B"] = "present"
     THEN /\ SetStatus(ag[x].at, "B", "destructing")
          /\ ag' = [ag EXCEPT ![x] = [@ EXCEPT !.pc = "dtor", !.guard = None]]
     ELSE /\ ag' = [ag EXCEPT ![x] = [@ EXCEPT !.pc = "again", !.guard = None]]
          /\ UNCHANGED status
  /\ UNCHANGED <<ctl, news, mig, moves, ref_cnt, cache, rpc, refs, work>>

Guarded(n, p) == \E x \in Agents : ag[x].guard = p /\ ag[x].at = n

(* The destructor, kAbsent, and, for a local caller, a grace period before *)
(* and the clean-up right after.                                           *)
Freed == ctl' = [ctl EXCEPT !["B"] = None]

Destruct(x) ==
  LET local == x[2] = "caller" IN
  /\ ag[x].pc = "dtor" /\ Usable(ag[x].at, "B")
  /\ local => ~Guarded(ag[x].at, "B") /\ news["B"] = None
  /\ SetStatus(ag[x].at, "B", "absent")
  /\ IF local THEN Freed ELSE UNCHANGED ctl
  /\ ag' = [ag EXCEPT ![x] = [@ EXCEPT !.pc = "done", !.guard = "B", !.destructed = TRUE]]
  /\ UNCHANGED <<news, mig, moves, ref_cnt, cache, rpc, refs, work>>

(* send_rpc_resp_ok: a handler that has moved forwards its result, and     *)
(* forward_to_client also counts it out.  Mutant: it only answers.         *)
NeverCounted(x) == FALSE
CountedOut(x) == ag[x].migrated

(* A handler that has moved answers as well.  Mutant: it would rather have *)
(* the caller try where it is now.                                         *)
RetryElsewhere(x) == IF ag[x].migrated THEN "wrong" ELSE "answered"
Answer(x) == "answered"

Respond(x) ==
  /\ x[2] # "caller" /\ ag[x].pc = "done"
  /\ ag' = [ag EXCEPT ![x].pc = "end", ![<<x[1], "caller">>].pc = Answer(x)]
  /\ refs' = IF CountedOut(x) THEN [refs EXCEPT ![ag[x].birth] = @ - 1] ELSE refs
  /\ UNCHANGED <<places, ref_cnt, cache, rpc, work>>

(* detach, and the guard is dropped.  A thread that has moved just exits;  *)
(* another one cleans up if it has destroyed B, and is counted out.        *)
End(x) ==
  /\ ag[x].pc = "end"
  /\ IF ~ag[x].migrated /\ ag[x].destructed
     THEN /\ ag' = [ag EXCEPT ![x] = [@ EXCEPT !.pc = "sync", !.own = None, !.guard = None]]
          /\ UNCHANGED refs
     ELSE /\ ag' = [ag EXCEPT ![x] = [Idle EXCEPT !.destructed = ag[x].destructed,
                                                  !.migrated = ag[x].migrated]]
          /\ refs' = IF ag[x].migrated THEN refs ELSE [refs EXCEPT ![ag[x].at] = @ - 1]
  /\ UNCHANGED <<places, ref_cnt, cache, rpc, work>>

Cleanup(x) ==
  /\ ag[x].pc = "sync" /\ ~Guarded(ag[x].at, "B") /\ news["B"] = None
  /\ Freed
  /\ ag' = [ag EXCEPT ![x] = [Idle EXCEPT !.destructed = TRUE]]
  /\ refs' = [refs EXCEPT ![ag[x].at] = @ - 1]
  /\ UNCHANGED <<status, news, mig, moves, ref_cnt, cache, rpc, work>>

InnerStep(x) ==
  \/ RunBody(x) \/ Count(x) \/ Kill(x) \/ Destruct(x)
  \/ Reguard(x, "ran", "done") \/ Reguard(x, "again", "kill")
  \/ Respond(x) \/ End(x) \/ Cleanup(x)

---------------------------------------------------------------------------
(* Migrations.                                                             *)

Mark(p, n, d) ==
  /\ mig.pc = "idle" /\ moves < MaxMoves
  /\ status[n][p] = "present" /\ d # n /\ ctl[p] = n
  /\ SetStatus(n, p, "migrating")
  /\ mig' = [pc |-> "marked", p |-> p, from |-> n, to |-> d]
  /\ moves' = moves + 1
  /\ UNCHANGED <<ctl, news, ref_cnt, cache, ag, rpc, refs, work>>

(* writer_sync, and the proclet leaves with its threads.  Mutant: those    *)
(* that are about to take a guard again stay.                              *)
AllButWaiting(x) == ag[x].own = mig.p /\ ag[x].at = mig.from /\ ag[x].pc # "ran"
Passengers(x) == ag[x].own = mig.p /\ ag[x].at = mig.from

Leave ==
  /\ mig.pc = "marked" /\ ~Guarded(mig.from, mig.p)
  /\ SetStatus(mig.from, mig.p, "absent")
  /\ ag' = [x \in Agents |-> IF Passengers(x) THEN [ag[x] EXCEPT !.at = None] ELSE ag[x]]
  /\ news' = [news EXCEPT ![mig.p] = mig.to]
  /\ mig' = [mig EXCEPT !.pc = "moving"]
  /\ UNCHANGED <<ctl, moves, ref_cnt, cache, rpc, refs, work>>

Arrive ==
  /\ mig.pc = "moving"
  /\ SetStatus(mig.to, mig.p, "present")
  /\ mig' = [mig EXCEPT !.pc = "arrived"]
  /\ UNCHANGED <<ctl, news, moves, ref_cnt, cache, ag, rpc, refs, work>>

LoadThreads ==
  /\ mig.pc = "arrived"
  /\ ag' = [x \in Agents |-> IF ag[x].own = mig.p /\ ag[x].at = None
                             THEN [ag[x] EXCEPT !.at = mig.to, !.migrated = ag[x].birth # None]
                             ELSE ag[x]]
  /\ mig' = [pc |-> "idle", p |-> None, from |-> None, to |-> None]
  /\ UNCHANGED <<status, ctl, news, moves, ref_cnt, cache, rpc, refs, work>>

UpdateLocation(p) ==
  /\ news[p] # None
  /\ ctl' = [ctl EXCEPT ![p] = news[p]]
  /\ news' = [news EXCEPT ![p] = None]
  /\ UNCHANGED <<status, mig, moves, ref_cnt, cache, ag, rpc, refs, work>>

MigrationStep == Leave \/ Arrive \/ LoadThreads \/ \E p \in Proclets : UpdateLocation(p)

---------------------------------------------------------------------------
Terminated ==
  /\ \A t \in Threads : todo[t] = {} /\ job[t] = None
  /\ \A x \in Agents : ag[x].pc \in {"idle", "run"}
  /\ UNCHANGED vars

Next ==
  \/ \E t \in Threads :
       HandlerStart(t) \/ LoadThread(t) \/ CallerStep(t) \/ \E j \in Jobs : Call(t, j)
  \/ \E x \in Agents : InnerStep(x)
  \/ MigrationStep
  \/ \E p \in Proclets, n, d \in Nodes : Mark(p, n, d)
  \/ Terminated

Spec == Init /\ [][Next]_vars

(* Threads are scheduled, requests are read, and a migration that has      *)
(* begun goes on; threads need not call, nor proclets be migrated.         *)
Fairness ==
  /\ \A t \in Threads : WF_vars(CallerStep(t) \/ HandlerStart(t) \/ LoadThread(t))
  /\ \A x \in Agents : WF_vars(InnerStep(x))
  /\ WF_vars(Leave \/ Arrive \/ LoadThreads)
  /\ \A p \in Proclets : WF_vars(UpdateLocation(p))
FairSpec == Spec /\ Fairness

---------------------------------------------------------------------------
(* Properties.                                                             *)

Places == Nodes \cup {None}
AgentRec ==
  [pc : AgentPcs, at : Places, own : Proclets \cup {None}, guard : Proclets \cup {None},
   migrated : BOOLEAN, birth : Places, destructed : BOOLEAN]
RpcRec == [goal : Proclets \cup {None}, to : Places, addr : Places]
TypeOK ==
  /\ status \in [Nodes -> [Proclets -> {"present", "migrating", "destructing", "absent"}]]
  /\ ref_cnt \in Int /\ refs \in [Nodes -> Int] /\ moves \in Nat
  /\ ctl \in [Proclets -> Places] /\ news \in [Proclets -> Places]
  /\ cache \in [Nodes -> [Proclets -> Places]]
  /\ mig \in [pc : {"idle", "marked", "moving", "arrived"}, p : Proclets \cup {None},
              from : Places, to : Places]
  /\ ag \in [Agents -> AgentRec]
  /\ rpc \in [Threads -> RpcRec]
  /\ todo \in [Threads -> SUBSET Jobs]
  /\ job \in [Threads -> Jobs \cup {None}] /\ did \in [Threads -> {0, 1}]

(* Where a call is says whether it has been done: not while its RPC looks  *)
(* for B, however often it was sent to a wrong node, and yes while the     *)
(* caller looks for A.  A handler works only for a caller that waits for   *)
(* it.                                                                     *)
NotYet(pc) == pc \in {"body", "count"}
Already(pc) == pc \in {"ran", "kill", "again", "dtor", "done", "answered"}
Asking(pc) == pc \in {"look", "store", "sent", "wrong"}

CallerPhase(t) ==
  LET pc == Thread(t).pc IN
  /\ pc \notin {"idle", "end", "sync"}
  /\ pc = "run" <=> job[t] = None
  /\ pc = "run" \/ NotYet(pc) => did[t] = 0
  /\ Already(pc) => did[t] = 1
  /\ Asking(pc) => \/ rpc[t].goal = "B" /\ did[t] = 0
                   \/ rpc[t].goal = "A" /\ did[t] = 1
  /\ pc = "wait" => LET h == ag[<<t, job[t]>>].pc IN
                    \/ NotYet(h) /\ did[t] = 0
                    \/ Already(h) /\ did[t] = 1

HandlerPhase(t, j) ==
  LET pc == ag[<<t, j>>].pc IN
  NotYet(pc) \/ Already(pc) => Thread(t).pc = "wait" /\ job[t] = j

(* Only threads that work in a proclet without its guard travel with it.   *)
Settled(x) ==
  /\ ag[x].pc \in {"count", "kill", "done", "end"} => ag[x].own = "B" /\ ag[x].guard = "B"
  /\ ag[x].pc \in {"body", "ran", "again", "dtor"} => ag[x].own = "B"
  /\ Asking(ag[x].pc) \/ ag[x].pc \in {"wait", "answered", "sync"} => ag[x].own = None
  /\ ag[x].at = None => ag[x].pc \in {"idle", "run", "body", "ran", "again", "dtor"}

(* The inductive invariant behind ImplementsCalls, and the types.          *)
CallInv ==
  /\ TypeOK
  /\ \A t \in Threads : CallerPhase(t) /\ \A j \in Jobs : HandlerPhase(t, j)
  /\ \A x \in Agents : Settled(x)
  /\ mig.pc # "idle" => mig.p # None /\ mig.from # None /\ mig.to # None

(* A thread that works within a proclet is where the proclet is, or still  *)
(* where it was destroyed, and its memory not given back before the last   *)
(* of them has left; and who holds a reference to B finds it at the        *)
(* controller, as BUG_ON(!ip) of get_info has it, however late it asks.    *)
CalleeIsThere ==
  /\ \A x \in Agents :
       ag[x].own \in Proclets /\ ag[x].at # None =>
         \/ status[ag[x].at][ag[x].own] # "absent"
         \/ ag[x].own = "B" /\ (ag[x].destructed \/ (ref_cnt = 0 /\ ctl["B"] # None))
  /\ \A t \in Threads : Thread(t).pc = "look" => ctl[rpc[t].goal] # None

(* A node that has been asked and has not answered keeps its proclet       *)
(* server alive (~ProcletServer waits for ref_cnt_), also when the handler *)
(* has moved away with B; and no handler is counted for ever.              *)
ReturnerKept ==
  \A n \in Nodes :
    refs[n] = Cardinality({x \in Agents :
      ag[x].birth = n /\ ~(ag[x].pc = "end" /\ ag[x].migrated)})

(* A call returns, wherever both proclets go; a migration that goes on for *)
(* ever would keep it (MaxMoves).                                          *)
CallReturns == \A t \in Threads : job[t] # None ~> job[t] = None

(* B is freed at the controller after its last reference was dropped; but  *)
(* if the handler that has destroyed it had moved with it, nobody does.    *)
FreedOrForgotten ==
  ref_cnt = 0 ~> ctl["B"] = None
                 \/ \E x \in Agents : x[2] = "drop" /\ ag[x].destructed /\ ag[x].migrated

(* What is called is done once, and before the call returns.               *)
Promise == INSTANCE RemoteCall WITH NoJob <- None
ImplementsCalls == Promise!Spec
=============================================================================
