--------------------------- MODULE MigrationBatch ---------------------------
(***************************************************************************)
(* Batches of proclets: the loop of Migrator::migrate over the proclets    *)
(* that the pressure handler has picked, its rounds to one destination     *)
(* each (Migrator::__migrate), the destination's Migrator::load with the   *)
(* approvals by which it may refuse the rest, and, while all this goes on, *)
(* the destruction of proclets and the re-use of their addresses.          *)
(*                                                                         *)
(* Abstractions.  One proclet is transmitted in one step, and received in  *)
(* another: ProcletMigration and ThreadPause have what happens inside.     *)
(* Whether there is pressure, and how much a destination has room for, is  *)
(* asked anew each time and may be answered either way.                    *)
(*                                                                         *)
(* Bounds.  MaxCalls: how often migrate is called; MaxCreations: how often *)
(* an address is used again.                                               *)
(***************************************************************************)
EXTENDS Integers, Sequences, FiniteSets, SequencesExt

CONSTANTS
  Nodes, Proclets,
  Home,           (* the node all proclets are on at first                 *)
  MaxCalls, MaxCreations,
  QuietReuse      (* a proclet is not picked, nor destroyed, before it is  *)
                  (* inserted, and its address is not used again while a   *)
                  (* handler has it among its tasks                        *)

None == "none"

ASSUME ConstantsOK ==
  /\ Home \in Nodes /\ None \notin Nodes
  /\ IsFiniteSet(Proclets)
  /\ MaxCalls \in Nat /\ MaxCreations \in Nat /\ QuietReuse \in BOOLEAN

VARIABLES
  status,     (* per node and proclet, proclet_statuses[]                  *)
  body,       (* per node, the proclets whose contents are in its memory   *)
  jobs,       (* per node, the deferred clean-ups that were spawned        *)
  src,        (* per node, its call of migrate                             *)
  dst,        (* per node, its load                                        *)
  chan,       (* per pair of nodes, the migration connection               *)
  back,       (* per pair of nodes, the approvals on it                    *)
  acquired,   (* controller: the nodes acquired                            *)
  alive,      (* controller: the proclets it knows                         *)
  making,     (* per proclet, its construction: where, and how far         *)
  dying,      (* the node where its destructor runs, or None               *)
  calls, creations

memory == <<status, body, jobs>>
links == <<chan, back>>
app == <<alive, making, dying, creations>>
vars == <<memory, src, dst, links, acquired, app, calls>>

Statuses == {"absent", "populating", "depopulating", "cleaning", "migrating",
             "present", "destructing"}
Found(s) == s \in {"present", "destructing"}         (* >= kPresent *)

IdleSrc == [pc |-> "idle", tasks |-> <<>>, it |-> 1, size |-> 0, i |-> 1,
            dest |-> None, congested |-> {}]
IdleDst == [pc |-> "idle", from |-> None, tasks |-> <<>>, i |-> 1]
NotMaking == [node |-> None, pc |-> "no"]

Init ==
  /\ status = [n \in Nodes |-> [p \in Proclets |-> IF n = Home THEN "present" ELSE "absent"]]
  /\ body = [n \in Nodes |-> IF n = Home THEN Proclets ELSE {}]
  /\ jobs = [n \in Nodes |-> {}]
  /\ src = [n \in Nodes |-> IdleSrc]
  /\ dst = [n \in Nodes |-> IdleDst]
  /\ chan = [l \in Nodes \X Nodes |-> <<>>]
  /\ back = [l \in Nodes \X Nodes |-> <<>>]
  /\ acquired = {}
  /\ alive = Proclets
  /\ making = [p \in Proclets |-> NotMaking]
  /\ dying = [p \in Proclets |-> None]
  /\ calls = 0 /\ creations = 0

SetStatus(n, p, s) == status' = [status EXCEPT ![n][p] = s]
Wipe(n, p) == body' = [body EXCEPT ![n] = @ \ {p}]
Spawn(n, job) == jobs' = [jobs EXCEPT ![n] = @ \cup {job}]
Send(n, d, m) == chan' = [chan EXCEPT ![<<n, d>>] = Append(@, m)]

---------------------------------------------------------------------------
(* Migrator::migrate.                                                      *)

Task(n, k) == src[n].tasks[src[n].it + k - 1]
Picked == UNION {Range(src[n].tasks) : n \in Nodes}

(* pick_tasks, from lists that may name a proclet of which only the        *)
(* address is still the same.                                              *)
Pick(n, tasks) ==
  /\ calls < MaxCalls
  /\ \A p \in Range(tasks) :
       status[n][p] = "present" /\ (QuietReuse => making[p] = NotMaking)
  /\ calls' = calls + 1
  /\ src' = [src EXCEPT ![n] = [IdleSrc EXCEPT !.pc = "loop", !.tasks = tasks]]

(* __main_handler: acquire_node and a first call of migrate, ...           *)
MainStart(n, tasks) ==
  /\ src[n].pc = "idle" /\ n \notin acquired
  /\ acquired' = acquired \cup {n}
  /\ Pick(n, tasks)
  /\ UNCHANGED <<memory, dst, links, app>>

(* ... and another, if all of the first were migrated and there still is   *)
(* pressure.                                                               *)
PickAgain(n, tasks) ==
  /\ src[n].pc = "loop" /\ src[n].it > Len(src[n].tasks)
  /\ Pick(n, tasks)
  /\ UNCHANGED <<memory, dst, links, acquired, app>>

(* acquire_migration_dest, the tasks the destination has room for (at      *)
(* least one), and transmit_proclet_migration_tasks.                       *)
RoundStart(n, d, size) ==
  /\ src[n].pc = "loop"
  /\ d \notin acquired \cup src[n].congested
  /\ size \in 1..(Len(src[n].tasks) - src[n].it + 1)
  /\ acquired' = acquired \cup {d}
  /\ src' = [src EXCEPT ![n] = [@ EXCEPT !.pc = "task", !.dest = d, !.size = size, !.i = 1]]
  /\ Send(n, d, [type |-> "tasks", tasks |-> SubSeq(src[n].tasks, src[n].it, src[n].it + size - 1)])
  /\ UNCHANGED <<memory, dst, back, app, calls>>

(* No task is left, no pressure, no destination, or a congested one, which *)
(* the guard gives back; and so is this node.                              *)
MigrateReturns(n) ==
  /\ src[n].pc = "loop"
  /\ src' = [src EXCEPT ![n] = IdleSrc]
  /\ acquired' = acquired \ {n}
  /\ UNCHANGED <<memory, dst, links, app, calls>>

(* The approval that is read before every task but the first.  Mutant:     *)
(* before the first as well.                                               *)
NeedsApprovalFirst(i) == i > 0
NeedsApproval(i) == i > 1

SrcApproval(n) ==
  LET b == <<n, src[n].dest>> IN
  /\ src[n].pc = "task" /\ NeedsApproval(src[n].i)
  /\ back[b] # <<>>
  /\ back' = [back EXCEPT ![b] = Tail(@)]
  /\ src' = [src EXCEPT ![n].pc = IF Head(back[b]) THEN "mark" ELSE "last"]
  /\ UNCHANGED <<memory, dst, chan, acquired, app, calls>>

Approved(n) == src[n].pc = "mark" \/ (src[n].pc = "task" /\ ~NeedsApproval(src[n].i))

AfterTask(n) ==
  src' = [src EXCEPT ![n] = [@ EXCEPT !.i = src[n].i + 1,
                                      !.pc = IF src[n].i = src[n].size THEN "last" ELSE "task"]]

(* try_mark_proclet_migrating can do so.  Mutant: whatever can be found.   *)
MarksFound(n, p) == Found(status[n][p])
Markable(n, p) == status[n][p] = "present"

(* No pressure any more, or it can not be marked.                          *)
SrcSkip(n) ==
  /\ Approved(n)
  /\ Send(n, src[n].dest, [type |-> "skip"])
  /\ AfterTask(n)
  /\ UNCHANGED <<memory, dst, back, acquired, app, calls>>

SrcMark(n) ==
  LET p == Task(n, src[n].i) IN
  /\ Approved(n) /\ Markable(n, p)
  /\ SetStatus(n, p, "migrating")
  /\ src' = [src EXCEPT ![n].pc = "send"]
  /\ UNCHANGED <<body, jobs, dst, links, acquired, app, calls>>

SrcSend(n) ==
  /\ src[n].pc = "send"
  /\ Send(n, src[n].dest, [type |-> "copy", proclet |-> Task(n, src[n].i)])
  /\ src' = [src EXCEPT ![n].pc = "sent"]
  /\ UNCHANGED <<memory, dst, back, acquired, app, calls>>

(* kCleaning, and post_migration_cleanup; a clean-up that is not spawned   *)
(* is one that runs at once.                                               *)
SrcCleaning(n) ==
  LET p == Task(n, src[n].i) IN
  /\ src[n].pc = "sent"
  /\ SetStatus(n, p, "cleaning")
  /\ Spawn(n, [kind |-> "cleaning", proclet |-> p])
  /\ AfterTask(n)
  /\ UNCHANGED <<body, dst, links, acquired, app, calls>>

(* The last approval; the tasks before i are done, and a destination that  *)
(* has refused some is not asked again.                                    *)
RoundEnd(n) ==
  LET d == src[n].dest
      delta == src[n].i - 1
  IN
  /\ src[n].pc = "last"
  /\ back[<<n, d>>] # <<>>
  /\ back' = [back EXCEPT ![<<n, d>>] = Tail(@)]
  /\ src' = [src EXCEPT ![n] = [@ EXCEPT
       !.pc = "loop", !.it = src[n].it + delta, !.dest = None, !.size = 0, !.i = 1,
       !.congested = IF delta < src[n].size THEN src[n].congested \cup {d} ELSE src[n].congested]]
  /\ acquired' = acquired \ {d}
  /\ UNCHANGED <<memory, dst, chan, app, calls>>

SrcStep(n) ==
  \/ \E d \in Nodes, size \in 1..Cardinality(Proclets) : RoundStart(n, d, size)
  \/ MigrateReturns(n) \/ SrcApproval(n) \/ SrcSkip(n) \/ SrcMark(n)
  \/ SrcSend(n) \/ SrcCleaning(n) \/ RoundEnd(n)

---------------------------------------------------------------------------
(* Migrator::load.                                                         *)

(* load_proclet_migration_tasks and populate_proclets.                     *)
LoadStart(n, s) ==
  LET m == Head(chan[<<s, n>>]) IN
  /\ dst[n].pc = "idle"
  /\ chan[<<s, n>>] # <<>>
  /\ m.type = "tasks"
  /\ chan' = [chan EXCEPT ![<<s, n>>] = Tail(@)]
  /\ status' = [status EXCEPT ![n] = [p \in Proclets |->
       IF p \in Range(m.tasks) THEN "populating" ELSE @[p]]]
  /\ dst' = [dst EXCEPT ![n] = [pc |-> "approve", from |-> s, tasks |-> m.tasks, i |-> 1]]
  /\ UNCHANGED <<body, jobs, src, back, acquired, app, calls>>

Approve(n, yes) == back' = [back EXCEPT ![<<dst[n].from, n>>] = Append(@, yes)]

(* An approval for the task after this one, before this one is loaded;     *)
(* there is none for the last.                                             *)
IsLast(n) == dst[n].i = Len(dst[n].tasks)

LoadApprove(n) ==
  /\ dst[n].pc = "approve"
  /\ \/ /\ ~IsLast(n)
        /\ \E yes \in BOOLEAN :
             /\ Approve(n, yes)
             /\ dst' = [dst EXCEPT ![n].pc = IF yes THEN "load" ELSE "loadlast"]
     \/ /\ IsLast(n)
        /\ dst' = [dst EXCEPT ![n].pc = "loadlast"]
        /\ UNCHANGED back
  /\ UNCHANGED <<memory, src, chan, acquired, app, calls>>

Loaded(n) ==
  dst' = [dst EXCEPT ![n] = [@ EXCEPT !.i = dst[n].i + 1,
                                      !.pc = IF dst[n].pc = "load" THEN "approve" ELSE "refuse"]]

Incoming(n) == chan[<<dst[n].from, n>>]

(* The task was skipped: depopulate_proclet.                               *)
LoadSkip(n) ==
  LET p == dst[n].tasks[dst[n].i] IN
  /\ dst[n].pc \in {"load", "loadlast"}
  /\ Incoming(n) # <<>> /\ Head(Incoming(n)).type = "skip"
  /\ chan' = [chan EXCEPT ![<<dst[n].from, n>>] = Tail(@)]
  /\ SetStatus(n, p, "depopulating")
  /\ Spawn(n, [kind |-> "depopulating", proclet |-> p])
  /\ Loaded(n)
  /\ UNCHANGED <<body, src, back, acquired, app, calls>>

(* handle_copy_proclet ...                                                 *)
LoadCopy(n) ==
  LET p == Head(Incoming(n)).proclet IN
  /\ dst[n].pc \in {"load", "loadlast"}
  /\ Incoming(n) # <<>> /\ Head(Incoming(n)).type = "copy"
  /\ p \notin body[n]
  /\ IF status[n][p] \in {"depopulating", "cleaning"}
     THEN SetStatus(n, p, "absent") ELSE UNCHANGED status
  /\ body' = [body EXCEPT ![n] = @ \cup {p}]
  /\ UNCHANGED <<jobs, src, dst, links, acquired, app, calls>>

(* ... and, when all of it has arrived, insert.                            *)
LoadInsert(n) ==
  LET p == Head(Incoming(n)).proclet IN
  /\ dst[n].pc \in {"load", "loadlast"}
  /\ Incoming(n) # <<>> /\ Head(Incoming(n)).type = "copy"
  /\ p \in body[n]
  /\ chan' = [chan EXCEPT ![<<dst[n].from, n>>] = Tail(@)]
  /\ SetStatus(n, p, "present")
  /\ Loaded(n)
  /\ UNCHANGED <<body, jobs, src, back, acquired, app, calls>>

(* The rest is depopulated if it was refused, and the last approval given. *)
(* Mutant: the first of the rest is forgotten.                             *)
RestButOne(n) == {dst[n].tasks[k] : k \in dst[n].i + 1 .. Len(dst[n].tasks)}
Rest(n) == {dst[n].tasks[k] : k \in dst[n].i .. Len(dst[n].tasks)}

LoadRefuse(n) ==
  /\ dst[n].pc = "refuse"
  /\ status' = [status EXCEPT ![n] = [p \in Proclets |->
       IF p \in Rest(n) THEN "depopulating" ELSE @[p]]]
  /\ jobs' = [jobs EXCEPT ![n] = @ \cup {[kind |-> "depopulating", proclet |-> p] : p \in Rest(n)}]
  /\ Approve(n, TRUE)
  /\ dst' = [dst EXCEPT ![n] = IdleDst]
  /\ UNCHANGED <<body, src, chan, acquired, app, calls>>

DstStep(n) ==
  \/ \E s \in Nodes : LoadStart(n, s)
  \/ LoadApprove(n) \/ LoadSkip(n) \/ LoadCopy(n) \/ LoadInsert(n) \/ LoadRefuse(n)

(* A spawned clean-up looks at the status under the migration lock.        *)
(* Mutant: it does not look.                                               *)
AlwaysDue(n, job) == TRUE
StillDue(n, job) == status[n][job.proclet] = job.kind

RunJob(n, job) ==
  /\ job \in jobs[n]
  /\ jobs' = [jobs EXCEPT ![n] = @ \ {job}]
  /\ IF StillDue(n, job)
     THEN SetStatus(n, job.proclet, "absent") /\ Wipe(n, job.proclet)
     ELSE UNCHANGED <<status, body>>
  /\ UNCHANGED <<src, dst, links, acquired, app, calls>>

---------------------------------------------------------------------------
(* The application.                                                        *)

(* The last reference is dropped, which can be before insert, since the    *)
(* reply of construct_proclet is sent first: remove_for_destruction, and   *)
(* the destructor, ...                                                     *)
Destroy(n, p) ==
  /\ status[n][p] = "present" /\ dying[p] = None
  /\ making[p].pc \in {"no", "insert"} /\ (QuietReuse => making[p] = NotMaking)
  /\ SetStatus(n, p, "destructing")
  /\ dying' = [dying EXCEPT ![p] = n]
  /\ UNCHANGED <<body, jobs, src, dst, links, acquired, alive, making, creations, calls>>

(* ... kAbsent, cleanup, and destroy_proclet at the controller.            *)
Destroyed(n, p) ==
  /\ dying[p] = n
  /\ SetStatus(n, p, "absent")
  /\ Wipe(n, p)
  /\ alive' = alive \ {p}
  /\ dying' = [dying EXCEPT ![p] = None]
  /\ UNCHANGED <<jobs, src, dst, links, acquired, making, creations, calls>>

(* allocate_proclet, at any node if the caller has given a hint; of an     *)
(* address one construction at a time is followed.                         *)
Allocate(n, p) ==
  /\ p \notin alive /\ making[p] = NotMaking /\ creations < MaxCreations
  /\ QuietReuse => p \notin Picked
  /\ alive' = alive \cup {p}
  /\ making' = [making EXCEPT ![p] = [node |-> n, pc |-> "setup"]]
  /\ creations' = creations + 1
  /\ UNCHANGED <<memory, src, dst, links, acquired, dying, calls>>

MakeStep(p, from, to) ==
  /\ making[p].pc = from
  /\ making' = [making EXCEPT ![p] = IF to = "no" THEN NotMaking ELSE [@ EXCEPT !.pc = to]]
  /\ UNCHANGED <<jobs, src, dst, links, acquired, alive, dying, creations, calls>>

(* construct_proclet: setup and kPresent, whatever the status was ...      *)
Setup(p) ==
  /\ MakeStep(p, "setup", "attach")
  /\ SetStatus(making[p].node, p, "present")
  /\ body' = [body EXCEPT ![making[p].node] = @ \cup {p}]

(* ... the constructor, run by a thread that attaches as any other ...     *)
Construct(p) ==
  /\ MakeStep(p, "attach", "insert")
  /\ Found(status[making[p].node][p])
  /\ UNCHANGED <<status, body>>

(* ... and insert, again whatever the status is; or the proclet has left   *)
(* during the constructor, and with it the thread.                         *)
Insert(p) ==
  /\ MakeStep(p, "insert", "no")
  /\ \/ SetStatus(making[p].node, p, "present")
     \/ ~Found(status[making[p].node][p]) /\ UNCHANGED status
  /\ UNCHANGED body

AppStep ==
  \E p \in Proclets :
    \/ Setup(p) \/ Construct(p) \/ Insert(p)
    \/ \E n \in Nodes : Destroy(n, p) \/ Destroyed(n, p) \/ Allocate(n, p)

---------------------------------------------------------------------------
Start ==
  \E n \in Nodes, P \in (SUBSET Proclets) \ {{}} :
    \E t \in SetToSeqs(P) : MainStart(n, t) \/ PickAgain(n, t)

Next ==
  \/ Start
  \/ \E n \in Nodes : SrcStep(n) \/ DstStep(n) \/ \E job \in jobs[n] : RunJob(n, job)
  \/ AppStep

Spec == Init /\ [][Next]_vars

(* Handlers run, and what is spawned is run.                               *)
Fairness ==
  \A n \in Nodes :
    /\ WF_vars(SrcStep(n)) /\ WF_vars(DstStep(n))
    /\ WF_vars(\E job \in jobs[n] : RunJob(n, job))
FairSpec == Spec /\ Fairness

---------------------------------------------------------------------------
(* Properties.                                                             *)

FoundAt(p) == {n \in Nodes : Found(status[n][p])}
LeavingFrom(p) ==
  {n \in Nodes : /\ src[n].dest # None
                 /\ \/ src[n].pc = "send" /\ Task(n, src[n].i) = p
                    \/ [type |-> "copy", proclet |-> p] \in Range(chan[<<n, src[n].dest>>])}

(* A proclet that exists is usable at one node, where its contents are, or *)
(* on its way from one; it is not lost when a task is skipped or refused,  *)
(* nor wiped by a clean-up of an earlier stay, and one that was destroyed  *)
(* is usable nowhere.                                                      *)
OneHome ==
  \A p \in Proclets :
    /\ Cardinality(FoundAt(p)) <= 1
    /\ \A n \in FoundAt(p) : p \in body[n]
    /\ (FoundAt(p) \cup LeavingFrom(p) # {}) <=> (p \in alive /\ making[p].pc # "setup")

(* Source and destination count the same tasks and approvals: when a call  *)
(* of migrate is between rounds, nothing of the last round is left on the  *)
(* connections and its destination is free again; no proclet waits to be   *)
(* loaded where no load is running, and what is to be cleaned up has a     *)
(* clean-up.                                                               *)
RoundsAgree ==
  \A n \in Nodes :
    /\ src[n].pc \in {"idle", "loop"} =>
         \A d \in Nodes : chan[<<n, d>>] = <<>> /\ back[<<n, d>>] = <<>>
    /\ dst[n].pc # "idle" => src[dst[n].from].dest = n
    /\ \A p \in Proclets :
         /\ status[n][p] = "populating" => dst[n].pc # "idle" /\ p \in Range(dst[n].tasks)
         /\ status[n][p] \in {"depopulating", "cleaning"} =>
              [kind |-> status[n][p], proclet |-> p] \in jobs[n]

(* BUG_ON(proclet_not_found) of construct_proclet: the proclet is still    *)
(* there when the thread that constructs it attaches.                      *)
CreatedIsFound ==
  \A p \in Proclets : making[p].pc = "attach" => Found(status[making[p].node][p])

(* "Now won't be migrated": once remove_for_destruction has succeeded a    *)
(* proclet stays kDestructing, where its destructor runs, until it is gone. *)
DyingStays ==
  \A p \in Proclets : dying[p] # None => status[dying[p]][p] = "destructing"

(* migrate returns: a source and a destination that count the approvals    *)
(* differently would wait for each other.                                  *)
MigrateEnds == \A n \in Nodes : src[n].pc = "loop" ~> src[n].pc = "idle"

(* Seen from outside a proclet is where it can be found, and until then    *)
(* where it was; it is created at one node, moves only while it lives,     *)
(* and is never lost: the batches implement ProcletHomes.                  *)
HomeOf(p) ==
  LET at == FoundAt(p)
      from == LeavingFrom(p)
  IN CASE at # {} -> CHOOSE n \in at : TRUE
       [] at = {} /\ from # {} -> CHOOSE n \in from : TRUE
       [] OTHER -> None

LifeOf(p) ==
  CASE p \notin alive -> "free"
    [] p \in alive /\ making[p].pc = "setup" -> "allocated"
    [] p \in alive /\ dying[p] # None -> "dying"
    [] OTHER -> "alive"

Homes == INSTANCE ProcletHomes WITH
  home <- [p \in Proclets |-> HomeOf(p)],
  life <- [p \in Proclets |-> LifeOf(p)], Nowhere <- None
ImplementsHomes == Homes!Spec
=============================================================================
