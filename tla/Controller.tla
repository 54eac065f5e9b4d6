----------------------------- MODULE Controller -----------------------------
(***************************************************************************)
(* nu::Controller and what its clients do to it: logical processes (LPs)   *)
(* that nodes join and leave, proclet heap segments, the location of every *)
(* proclet, and the acquired flags that pair the source of a migration     *)
(* with its destination.                                                   *)
(*                                                                         *)
(* Every handler runs under mutex_, destroy_lp gives it up while it waits. *)
(* Registration, allocation and destruction come by RPC, in any order; the *)
(* node's acquire, release and update_location messages come in order on   *)
(* its TCP connection, the first being answered, the others not.           *)
(*                                                                         *)
(* Abstractions.  Which nodes have the resources a migration needs is any  *)
(* set.  A node's address is registered again only when its former LP is   *)
(* gone.  Heap segments come in two sizes, the smallest and the largest.   *)
(*                                                                         *)
(* Bounds.  Clusters, the stack clusters: each registration takes one for  *)
(* good.  MaxQueue, the unread one-way messages of a node.                 *)
(*                                                                         *)
(* Assumptions on the clients that nothing in the code enforces are named  *)
(* and can be dropped: EnoughClusters, QuietExit, QuietDestroy.            *)
(***************************************************************************)
EXTENDS Naturals, Sequences, FiniteSets

CONSTANTS
  NumLPs,
  Nodes,          (* the IPs, ordered as the keys of node_statuses are     *)
  Isolated,       (* the nodes started with --isol                         *)
  Binaries,       (* MD5 values                                            *)
  Clusters,       (* the length of free_stack_cluster_segments_            *)
  NumSegments,    (* the largest heap segments                             *)
  SegmentSize,    (* their size, the smallest being 1                      *)
  MaxQueue,
  EnoughClusters, (* nobody registers when the stack clusters are used up  *)
  QuietExit,      (* no node acquires itself in an LP that is destroyed    *)
  QuietDestroy    (* a proclet dies only when the controller has heard of  *)
                  (* its last migration                                    *)

ASSUME ConstantsOK ==
  /\ NumLPs \in Nat \ {0}
  /\ Nodes \subseteq Nat \ {0} /\ IsFiniteSet(Nodes)
  /\ Isolated \subseteq Nodes
  /\ Clusters \in Nat /\ NumSegments \in Nat /\ SegmentSize \in Nat \ {0, 1}
  /\ MaxQueue \in Nat \ {0}
  /\ EnoughClusters \in BOOLEAN /\ QuietExit \in BOOLEAN /\ QuietDestroy \in BOOLEAN

LPs == 1..NumLPs
NoLP == 0
NoNode == 0
End == 0              \* node_statuses.end(), as a value of rr_iter
NoMD5 == "none"
NoProclet == 0        \* kNullProcletID

VARIABLES
  (* the controller *)
  freeLPs,        (* free_lpids_                                           *)
  md5,            (* lpid_to_md5_                                          *)
  members,        (* per LP, the keys of lpid_to_info_[].node_statuses     *)
  acquired,       (* per LP, those with status.acquired                    *)
  rrIter,         (* per LP, rr_iter                                       *)
  sweep,          (* per LP, destroy_lp in progress                        *)
  clusters,       (* the number of free stack clusters                     *)
  freeSegs,       (* per size, the stack free_proclet_heap_segments_[]     *)
  location,       (* proclet_id_to_ip_                                     *)
  bug,            (* the BUG_ON that stopped the controller                *)
  (* its clients *)
  proc,           (* per node, its process and its pressure handler        *)
  host,           (* per proclet id, the node where it really is, its size *)
  toCtl,          (* per node, its one-way messages, in order              *)
  destroys        (* destroy_proclet requests under way                    *)

lpVars == <<freeLPs, md5, members, acquired, rrIter, sweep, clusters>>
segVars == <<freeSegs, location, host, destroys>>
vars == <<lpVars, segVars, bug, proc, toCtl>>

Small == 1
Sizes == {Small, SegmentSize}
Addresses == 1..(NumSegments * SegmentSize)
Down == [lp |-> NoLP, binary |-> NoMD5, main |-> FALSE,
         pc |-> "calm", dest |-> NoNode, moved |-> NoProclet]
NoHeap == [node |-> NoNode, size |-> 0]
NoSweep == [by |-> NoNode, left |-> {}, stopping |-> {}]
Destroying(lp) == sweep[lp].by # NoNode

Init ==
  /\ freeLPs = LPs
  /\ md5 = [lp \in LPs |-> NoMD5]
  /\ members = [lp \in LPs |-> {}]
  /\ acquired = [lp \in LPs |-> {}]
  /\ rrIter = [lp \in LPs |-> End]
  /\ sweep = [lp \in LPs |-> NoSweep]
  /\ clusters = Clusters
  /\ freeSegs = [s \in Sizes |->
       IF s = Small THEN <<>>
       ELSE [i \in 1..NumSegments |-> [start |-> 1 + (i - 1) * s, size |-> s, prev |-> NoNode]]]
  /\ location = [a \in Addresses |-> NoNode]
  /\ bug = "none"
  /\ proc = [n \in Nodes |-> Down]
  /\ host = [a \in Addresses |-> NoHeap]
  /\ toCtl = [n \in Nodes |-> <<>>]
  /\ destroys = {}

Least(S) == CHOOSE n \in S : \A m \in S : n <= m

(* rr_iter after it was at n: the next key or end().  Mutant: it wraps     *)
(* round at once.                                                          *)
AfterWraps(lp, n) ==
  LET later == {m \in members[lp] : m > n} IN IF later = {} THEN Least(members[lp]) ELSE Least(later)
After(lp, n) ==
  LET later == {m \in members[lp] : m > n} IN IF later = {} THEN End ELSE Least(later)

Abort(label) == bug' = label

---------------------------------------------------------------------------
(* Logical processes.                                                      *)

(* The check of kEnableBinaryVerification.  Mutant: left out.              *)
AnyBinary(lp, binary) == TRUE
BinaryFits(lp, binary) == lp \in freeLPs \/ md5[lp] = binary

(* register_node(n, want, binary): want is 0 for any free LP.  A process   *)
(* that is refused changes nothing and exits, except that without a stack  *)
(* cluster it is refused after its LP was put among the free ones.         *)
RegisterNode(n, want, binary, main) ==
  LET lp == IF want # NoLP THEN want ELSE Least(freeLPs) IN
  /\ proc[n] = Down
  /\ \A l \in LPs : n \notin members[l]
  /\ toCtl[n] = <<>>
  /\ want = NoLP => freeLPs # {}
  /\ ~Destroying(lp)
  /\ BinaryFits(lp, binary)
  /\ EnoughClusters => clusters > 0
  /\ main => \A m \in Nodes : ~(proc[m].lp = lp /\ proc[m].main)
  /\ md5' = [md5 EXCEPT ![lp] = binary]
  /\ IF clusters = 0
     THEN /\ freeLPs' = freeLPs \cup {lp}
          /\ UNCHANGED <<members, clusters, proc>>
     ELSE /\ freeLPs' = freeLPs \ {lp}
          /\ clusters' = clusters - 1
          /\ members' = [members EXCEPT ![lp] = @ \cup {n}]
          /\ proc' = [proc EXCEPT ![n] = [Down EXCEPT !.lp = lp, !.binary = binary, !.main = main]]
  /\ UNCHANGED <<acquired, rrIter, sweep, segVars, bug, toCtl>>

(* The first critical section of destroy_lp, called by the process that    *)
(* ran main: the LP is marked, the walk over its nodes starts.             *)
DestroyLP(n) ==
  LET lp == proc[n].lp IN
  /\ proc[n].main
  /\ proc' = [proc EXCEPT ![n].main = FALSE]
  /\ IF lp \in freeLPs
     THEN Abort("destroy_lp: the LP is free") /\ UNCHANGED <<md5, sweep>>
     ELSE /\ md5' = [md5 EXCEPT ![lp] = NoMD5]
          /\ sweep' = [sweep EXCEPT ![lp] = [by |-> n, left |-> members[lp], stopping |-> {}]]
          /\ UNCHANGED bug
  /\ UNCHANGED <<freeLPs, members, acquired, rrIter, clusters, segVars, toCtl>>

(* Mutant: the walk does not wait for migrations.                          *)
SweepAtOnce(lp) ==
  /\ sweep[lp].left # {}
  /\ sweep' = [sweep EXCEPT ![lp].left = {}, ![lp].stopping = sweep[lp].left \ {sweep[lp].by}]
  /\ UNCHANGED <<freeLPs, md5, members, acquired, rrIter, clusters, segVars, bug, proc, toCtl>>

(* The walk passes a node once it is not acquired (cv.wait gives up mutex_)*)
(* and tells it to shut down.                                              *)
SweepNode(lp) ==
  LET s == sweep[lp]
      n == Least(s.left)
  IN
  /\ s.left # {}
  /\ n \notin acquired[lp]
  /\ sweep' = [sweep EXCEPT ![lp].left = @ \ {n},
                            ![lp].stopping = IF n = s.by THEN @ ELSE @ \cup {n}]
  /\ UNCHANGED <<freeLPs, md5, members, acquired, rrIter, clusters, segVars, bug, proc, toCtl>>

(* Runtime::shutdown: the pressure handler is through, then the controller *)
(* client closes; what it wrote before will still be read.                 *)
Shutdown(lp, n) ==
  /\ n \in sweep[lp].stopping
  /\ proc[n].pc = "calm"
  /\ proc' = [proc EXCEPT ![n] = Down]
  /\ sweep' = [sweep EXCEPT ![lp].stopping = @ \ {n}]
  /\ UNCHANGED <<freeLPs, md5, members, acquired, rrIter, clusters, segVars, bug, toCtl>>

(* The second critical section of destroy_lp.                              *)
LPDestroyed(lp) ==
  /\ Destroying(lp)
  /\ sweep[lp].left = {} /\ sweep[lp].stopping = {}
  /\ freeLPs' = freeLPs \cup {lp}
  /\ members' = [members EXCEPT ![lp] = {}]
  /\ acquired' = [acquired EXCEPT ![lp] = {}]
  /\ rrIter' = [rrIter EXCEPT ![lp] = End]
  /\ sweep' = [sweep EXCEPT ![lp] = NoSweep]
  /\ UNCHANGED <<md5, clusters, segVars, bug, proc, toCtl>>

(* The process that ran main ends once destroy_lp has returned.            *)
MainExits(n) ==
  /\ proc[n].lp # NoLP /\ proc[n].pc = "calm"
  /\ n \notin members[proc[n].lp]
  /\ proc' = [proc EXCEPT ![n] = Down]
  /\ UNCHANGED <<lpVars, segVars, bug, toCtl>>

---------------------------------------------------------------------------
(* Proclets.                                                               *)

InLP(n) == proc[n].lp # NoLP /\ n \in members[proc[n].lp]

(* The stacks after a largest segment has been cut up, if one must be.     *)
(* Mutant: it stays among the largest.                                     *)
CutAndKeep(size) ==
  LET big == freeSegs[SegmentSize]
      seg == big[Len(big)]
  IN IF freeSegs[size] # <<>> \/ big = <<>> THEN freeSegs
     ELSE [freeSegs EXCEPT
             ![size] = [i \in 1..(SegmentSize \div size) |->
                          [start |-> seg.start + (i - 1) * size, size |-> size, prev |-> seg.prev]]]

Cut(size) ==
  LET big == freeSegs[SegmentSize]
      seg == big[Len(big)]
  IN IF freeSegs[size] # <<>> \/ big = <<>> THEN freeSegs
     ELSE [freeSegs EXCEPT
             ![SegmentSize] = SubSeq(big, 1, Len(big) - 1),
             ![size] = [i \in 1..(SegmentSize \div size) |->
                          [start |-> seg.start + (i - 1) * size, size |-> size, prev |-> seg.prev]]]

(* The round-robin loop of select_node_for_proclet: the first node from    *)
(* rr_iter on that is not isolated.  The loop does not end without one.    *)
RoundRobin(lp) ==
  LET shared == members[lp] \ Isolated
      ahead == {m \in shared : rrIter[lp] # End /\ m >= rrIter[lp]}
  IN Least(IF ahead # {} THEN ahead ELSE shared)

(* allocate_proclet(size, lp, hint) and select_node_for_proclet.           *)
AllocateProclet(n, size, hint) ==
  LET lp == proc[n].lp
      segs == Cut(size)
      seg == segs[size][Len(segs[size])]
      robin == hint = NoNode /\ seg.prev = NoNode
      node == IF hint # NoNode THEN (IF hint \in members[lp] THEN hint ELSE NoNode)
              ELSE IF robin THEN RoundRobin(lp) ELSE seg.prev
  IN
  /\ InLP(n)
  /\ segs[size] # <<>>
  /\ robin => members[lp] \ Isolated # {}
  /\ freeSegs' = [segs EXCEPT ![size] = SubSeq(@, 1, Len(@) - 1)]
  /\ rrIter' = IF robin THEN [rrIter EXCEPT ![lp] = After(lp, node)] ELSE rrIter
  /\ location' = IF node = NoNode THEN location ELSE [location EXCEPT ![seg.start] = node]
  /\ host' = IF node = NoNode THEN host ELSE [host EXCEPT ![seg.start] = [node |-> node, size |-> size]]
  /\ UNCHANGED <<freeLPs, md5, members, acquired, sweep, clusters, destroys, bug, proc, toCtl>>

(* The last reference to the proclet at `a' is dropped where it lives, and *)
(* a request with its range is sent; then the controller has it.           *)
DropProclet(a) ==
  LET n == host[a].node IN
  /\ n # NoNode /\ proc[n].lp # NoLP
  /\ QuietDestroy => location[a] = n
  /\ host' = [host EXCEPT ![a] = NoHeap]
  /\ destroys' = destroys \cup {[start |-> a, size |-> host[a].size]}
  /\ UNCHANGED <<lpVars, freeSegs, location, bug, proc, toCtl>>

DestroyProclet(m) ==
  /\ m \in destroys
  /\ destroys' = destroys \ {m}
  /\ IF location[m.start] = NoNode THEN UNCHANGED <<freeSegs, location>>
     ELSE /\ freeSegs' = [freeSegs EXCEPT ![m.size] =
               Append(@, [start |-> m.start, size |-> m.size, prev |-> location[m.start]])]
          /\ location' = [location EXCEPT ![m.start] = NoNode]
  /\ UNCHANGED <<lpVars, host, bug, proc, toCtl>>

---------------------------------------------------------------------------
(* Migration, as far as the controller is concerned.  A request that is    *)
(* answered comes after the one-way messages sent before it.               *)

Heard(n) == toCtl[n] = <<>>
Post(n, m) == Len(toCtl[n]) < MaxQueue /\ toCtl' = [toCtl EXCEPT ![n] = Append(@, m)]
Release(lp, n) == [kind |-> "release", lp |-> lp, node |-> n]

(* acquire_node: does not look at `destroying'.                            *)
AcquireNode(n) ==
  LET lp == proc[n].lp IN
  /\ InLP(n) /\ Heard(n)
  /\ proc[n].pc = "calm"
  /\ QuietExit => ~Destroying(lp)
  /\ n \notin acquired[lp]
  /\ acquired' = [acquired EXCEPT ![lp] = @ \cup {n}]
  /\ proc' = [proc EXCEPT ![n].pc = "self"]
  /\ UNCHANGED <<freeLPs, md5, members, rrIter, sweep, clusters, segVars, bug, toCtl>>

(* An LP that is destroyed takes no migration.  Mutant: not looked at.     *)
ServesAlways(lp) == TRUE
Serves(lp) == ~Destroying(lp)

(* Mutant: the acquired flag is not looked at.                             *)
AnyShared(lp, n) == members[lp] \ (Isolated \cup {n})
Candidates(lp, n) == members[lp] \ (Isolated \cup acquired[lp] \cup {n})

(* acquire_migration_dest: the search from rr_iter on finds some node with *)
(* enough resources, or none; lpid_to_info_[lpid] may be new and empty.    *)
AcquireMigrationDest(n) ==
  LET lp == proc[n].lp IN
  /\ proc[n].pc = "self" /\ Heard(n)
  /\ Serves(lp)
  /\ \/ /\ members[lp] = {}
        /\ Abort("acquire_migration_dest: no nodes")
        /\ UNCHANGED <<acquired, rrIter, proc>>
     \/ \E d \in Candidates(lp, n) :
          /\ acquired' = [acquired EXCEPT ![lp] = @ \cup {d}]
          /\ rrIter' = [rrIter EXCEPT ![lp] = After(lp, d)]
          /\ proc' = [proc EXCEPT ![n].pc = "paired", ![n].dest = d]
          /\ UNCHANGED bug
  /\ UNCHANGED <<freeLPs, md5, members, sweep, clusters, segVars, toCtl>>

(* The proclet at `a' is usable at the destination ...                     *)
Migrate(n, a) ==
  /\ proc[n].pc = "paired"
  /\ host[a].node = n
  /\ host' = [host EXCEPT ![a].node = proc[n].dest]
  /\ proc' = [proc EXCEPT ![n].pc = "moved", ![n].moved = a]
  /\ UNCHANGED <<lpVars, freeSegs, location, destroys, bug, toCtl>>

(* ... before the source says so.                                          *)
SendLocation(n) ==
  /\ proc[n].pc = "moved"
  /\ Post(n, [kind |-> "location", id |-> proc[n].moved, node |-> proc[n].dest])
  /\ proc' = [proc EXCEPT ![n].pc = "paired", ![n].moved = NoProclet]
  /\ UNCHANGED <<lpVars, segVars, bug>>

(* The destructors of the two NodeGuards.                                  *)
ReleaseDest(n) ==
  /\ proc[n].pc = "paired"
  /\ Post(n, Release(proc[n].lp, proc[n].dest))
  /\ proc' = [proc EXCEPT ![n].pc = "self", ![n].dest = NoNode]
  /\ UNCHANGED <<lpVars, segVars, bug>>

ReleaseSelf(n) ==
  /\ proc[n].pc = "self"
  /\ Post(n, Release(proc[n].lp, n))
  /\ proc' = [proc EXCEPT ![n].pc = "calm"]
  /\ UNCHANGED <<lpVars, segVars, bug>>

(* release_node and update_location.                                       *)
ReleaseNode(m) ==
  /\ UNCHANGED location
  /\ IF m.node \notin members[m.lp]
     THEN Abort("release_node: no such node") /\ UNCHANGED acquired
     ELSE IF m.node \notin acquired[m.lp]
     THEN Abort("release_node: not acquired") /\ UNCHANGED acquired
     ELSE acquired' = [acquired EXCEPT ![m.lp] = @ \ {m.node}] /\ UNCHANGED bug

(* Mutant: an entry that is there is kept.                                 *)
KeepLocation(m) ==
  /\ UNCHANGED <<acquired, location>>
  /\ IF location[m.id] = NoNode THEN Abort("update_location: no such proclet") ELSE UNCHANGED bug

UpdateLocation(m) ==
  /\ UNCHANGED acquired
  /\ IF location[m.id] = NoNode
     THEN Abort("update_location: no such proclet") /\ UNCHANGED location
     ELSE location' = [location EXCEPT ![m.id] = m.node] /\ UNCHANGED bug

ReadMessage(n) ==
  /\ toCtl[n] # <<>>
  /\ LET m == Head(toCtl[n]) IN IF m.kind = "release" THEN ReleaseNode(m) ELSE UpdateLocation(m)
  /\ toCtl' = [toCtl EXCEPT ![n] = Tail(@)]
  /\ UNCHANGED <<freeLPs, md5, members, rrIter, sweep, clusters, freeSegs, host, destroys, proc>>

---------------------------------------------------------------------------
LPStep ==
  \/ \E n \in Nodes, want \in LPs \cup {NoLP}, b \in Binaries, main \in BOOLEAN :
       RegisterNode(n, want, b, main)
  \/ \E n \in Nodes : DestroyLP(n) \/ MainExits(n)
  \/ \E lp \in LPs : SweepNode(lp) \/ LPDestroyed(lp) \/ \E n \in Nodes : Shutdown(lp, n)

ProcletStep ==
  \/ \E n \in Nodes, size \in Sizes, hint \in Nodes \cup {NoNode} : AllocateProclet(n, size, hint)
  \/ \E a \in Addresses : DropProclet(a)
  \/ \E m \in destroys : DestroyProclet(m)

MigrationStep(n) ==
  \/ AcquireNode(n) \/ AcquireMigrationDest(n) \/ (\E a \in Addresses : Migrate(n, a))
  \/ SendLocation(n) \/ ReleaseDest(n) \/ ReleaseSelf(n) \/ ReadMessage(n)

Next ==
  /\ bug = "none"
  /\ LPStep \/ ProcletStep \/ \E n \in Nodes : MigrationStep(n)

Spec == Init /\ [][Next]_vars

(* A migration round picks finitely many proclets, and so it ends; the     *)
(* controller and the nodes it tells to shut down go on.                   *)
Goes(A) == bug = "none" /\ A
Fairness ==
  /\ \A n \in Nodes :
       /\ WF_vars(Goes(SendLocation(n))) /\ SF_vars(Goes(ReleaseDest(n)))
       /\ WF_vars(Goes(ReleaseSelf(n))) /\ WF_vars(Goes(ReadMessage(n)))
  /\ \A lp \in LPs :
       /\ WF_vars(Goes(SweepNode(lp))) /\ WF_vars(Goes(LPDestroyed(lp)))
       /\ \A n \in Nodes : WF_vars(Goes(Shutdown(lp, n)))

FairSpec == Spec /\ Fairness

---------------------------------------------------------------------------
(* Properties.                                                             *)

(* No BUG_ON of the controller fires, under the three assumptions on its   *)
(* clients.                                                                *)
NoBug == bug = "none"

(* One NodeGuard, or the release it left behind, stands for each acquired  *)
(* node: a node is never a migration's source and another's destination.   *)
Claims(lp, n) ==
  {c \in Nodes \X (0..(MaxQueue + 1)) :
     LET p == proc[c[1]] IN
     CASE c[2] = 0 -> p.lp = lp /\ p.pc # "calm" /\ c[1] = n
       [] c[2] = MaxQueue + 1 -> p.lp = lp /\ p.dest = n
       [] OTHER -> c[2] \in DOMAIN toCtl[c[1]] /\ toCtl[c[1]][c[2]] = Release(lp, n)}

AcquiredOnce ==
  \A lp \in LPs : \A n \in Nodes :
    Cardinality(Claims(lp, n)) = IF n \in acquired[lp] THEN 1 ELSE 0

(* A node that destroy_lp has passed is not acquired again before it goes. *)
PassedStaysIdle ==
  \A lp \in LPs : Destroying(lp) => acquired[lp] \subseteq sweep[lp].left

(* rr_iter never stands at the first node: the search of                   *)
(* acquire_migration_dest, which ends when it is back where it started and *)
(* steps over end() only at the head of its loop, would never end.         *)
SearchEnds == \A lp \in LPs : members[lp] # {} => rrIter[lp] # Least(members[lp])

(* The nodes of an LP run one binary (kEnableBinaryVerification): code     *)
(* addresses are passed between them as they are.                          *)
OneBinaryPerLP ==
  \A m, n \in Nodes :
    InLP(m) /\ InLP(n) /\ proc[m].lp = proc[n].lp => proc[m].binary = proc[n].binary

(* The inductive strengthening of SearchEnds and OneBinaryPerLP.  rr_iter  *)
(* stays in its map, whose first key only gets smaller; as long as another *)
(* node can join an LP, it is held to the binary of those that are in it,  *)
(* and an LP that is free has none.                                        *)
ProcTyped ==
  proc \in [Nodes -> [lp : LPs \cup {NoLP}, binary : Binaries \cup {NoMD5}, main : BOOLEAN,
                      pc : {"calm", "self", "paired", "moved"},
                      dest : Nodes \cup {NoNode}, moved : Addresses \cup {NoProclet}]]

SweepTyped ==
  sweep \in [LPs -> [by : Nodes \cup {NoNode}, left : SUBSET Nodes, stopping : SUBSET Nodes]]

LPsTyped ==
  /\ freeLPs \subseteq LPs
  /\ md5 \in [LPs -> Binaries \cup {NoMD5}]
  /\ members \in [LPs -> SUBSET Nodes]
  /\ rrIter \in [LPs -> Nodes \cup {End}]
  /\ clusters \in Nat

IterInside == \A lp \in LPs : rrIter[lp] \in members[lp] \cup {End}

FreeIsEmpty == \A lp \in freeLPs : clusters > 0 => members[lp] = {}

MembersRunMD5 ==
  \A n \in Nodes : InLP(n) /\ clusters > 0 /\ ~Destroying(proc[n].lp)
    => proc[n].binary = md5[proc[n].lp]

CalmOutside == \A n \in Nodes : proc[n].lp = NoLP => proc[n].pc = "calm"

LPInv ==
  /\ ProcTyped /\ SweepTyped /\ LPsTyped
  /\ IterInside /\ FreeIsEmpty /\ MembersRunMD5 /\ CalmOutside
  /\ SearchEnds /\ OneBinaryPerLP

(* No address is in two heap segments, free or in use, of whatever size.   *)
Extent(seg) == seg.start .. (seg.start + seg.size - 1)
FreeSlots == {x \in Sizes \X (1..Cardinality(Addresses)) : x[2] \in DOMAIN freeSegs[x[1]]}
InUse == destroys \cup {[start |-> a, size |-> host[a].size] : a \in {b \in Addresses : host[b] # NoHeap}}

SegmentsDisjoint ==
  /\ \A x, y \in FreeSlots : x # y => Extent(freeSegs[x[1]][x[2]]) \cap Extent(freeSegs[y[1]][y[2]]) = {}
  /\ \A x, y \in InUse : x # y => Extent(x) \cap Extent(y) = {}
  /\ \A x \in FreeSlots : \A y \in InUse : Extent(freeSegs[x[1]][x[2]]) \cap Extent(y) = {}

(* The controller knows where a proclet is, or one message is about to     *)
(* tell it: no two moves of a proclet are ever outstanding, so that their  *)
(* messages, on two connections, cannot be taken in the wrong order.       *)
Untold(a) == {n \in Nodes : proc[n].moved = a}
Telling(a) ==
  {c \in Nodes \X (1..MaxQueue) :
     /\ c[2] \in DOMAIN toCtl[c[1]]
     /\ toCtl[c[1]][c[2]].kind = "location"
     /\ toCtl[c[1]][c[2]].id = a}

LocationTold ==
  \A a \in Addresses : host[a] # NoHeap =>
    CASE Untold(a) \cup Telling(a) = {} -> location[a] = host[a].node
      [] Untold(a) # {} -> Telling(a) = {} /\ \A n \in Untold(a) : proc[n].dest = host[a].node
      [] OTHER -> /\ Cardinality(Telling(a)) = 1
                  /\ \A c \in Telling(a) : toCtl[c[1]][c[2]].node = host[a].node

(* destroy_lp returns.                                                     *)
DestroyReturns == \A lp \in LPs : Destroying(lp) ~> ~Destroying(lp)
=============================================================================
