---------------------- MODULE ControllerMessages_proofs ----------------------
(***************************************************************************)
(* Proofs about Controller that follow its clients' messages: one owner of *)
(* each acquired flag, the idle nodes of an LP that is destroyed, the      *)
(* locations, and the BUG_ONs.  Each theorem names the assumptions on the  *)
(* clients it needs, of EnoughClusters, QuietExit and QuietDestroy; the    *)
(* other constants are any.                                                *)
(***************************************************************************)
EXTENDS Controller_proofs, FiniteSetTheorems

(* Of the acquired flags.  The handler or the message at place k of node c *)
(* stands for `n' being acquired in `lp': k is 0 for the guard of the      *)
(* source, MaxQueue + 1 for that of the destination, and else an index.    *)
Places == 0..(MaxQueue + 1)
Holds(c, k, lp, n) ==
  IF k = 0 THEN proc[c].lp = lp /\ proc[c].pc # "calm" /\ c = n
  ELSE IF k = MaxQueue + 1 THEN proc[c].lp = lp /\ proc[c].dest = n
  ELSE k \in 1..Len(toCtl[c]) /\ toCtl[c][k] = Release(lp, n)

AcquiredInside == \A lp \in LPs : acquired[lp] \subseteq members[lp]
OneClaim ==
  /\ \A lp \in LPs, n \in Nodes :
       n \in acquired[lp] <=> \E c \in Nodes, k \in Places : Holds(c, k, lp, n)
  /\ \A lp \in LPs, n, c, d \in Nodes, j, k \in Places :
       Holds(c, j, lp, n) /\ Holds(d, k, lp, n) => c = d /\ j = k
PairInv == AcquiredInside /\ PassedStaysIdle /\ OneClaim

(* Of the locations.  The handler, at place 0, or the message at place k of*)
(* node c is to tell where the proclet at `a' has come.                    *)
Tells(c, k, a) ==
  IF k = 0 THEN proc[c].moved = a
  ELSE k \in 1..Len(toCtl[c]) /\ toCtl[c][k].kind = "location" /\ toCtl[c][k].id = a
NewHome(c, k) == IF k = 0 THEN proc[c].dest ELSE toCtl[c][k].node
Tellers == 0..MaxQueue

(* The node it names is not released before it is read, so that the        *)
(* proclet does not move on before.                                        *)
ToldBeforeReleased ==
  \A c \in Nodes : \A k \in 1..Len(toCtl[c]) : toCtl[c][k].kind = "location" =>
    \/ proc[c].dest = toCtl[c][k].node
    \/ \E j \in (k + 1)..Len(toCtl[c]), lp \in LPs : toCtl[c][j] = Release(lp, toCtl[c][k].node)

NobodyTells(a) == \A c \in Nodes, k \in Tellers : ~Tells(c, k, a)
OneTells(a) ==
  \E c \in Nodes, k \in Tellers :
    /\ Tells(c, k, a) /\ NewHome(c, k) = host[a].node
    /\ \A d \in Nodes, j \in Tellers : Tells(d, j, a) => d = c /\ j = k
OneToTell ==
  \A a \in Addresses :
    IF host[a] = NoHeap THEN NobodyTells(a)
    ELSE /\ location[a] # NoNode
         /\ IF location[a] = host[a].node THEN NobodyTells(a) ELSE OneTells(a)
TellInv == ToldBeforeReleased /\ OneToTell

(* Of the processes that run main.                                         *)
MainInv ==
  /\ \A n \in Nodes : proc[n].main =>
       proc[n].lp \in LPs \ freeLPs /\ ~Destroying(proc[n].lp)
  /\ \A m, n \in Nodes : proc[m].main /\ proc[n].main /\ proc[m].lp = proc[n].lp => m = n

---------------------------------------------------------------------------
(* The acquired flags.  How the places that stand for them change.         *)
LEMMA ClaimsSame ==
  ASSUME OneClaim, UNCHANGED acquired,
         \A lp \in LPs, n, c \in Nodes, k \in Places : Holds(c, k, lp, n)' <=> Holds(c, k, lp, n)
  PROVE  OneClaim'
BY DEF OneClaim

Claimed(l, d, b, i) ==
  /\ d \notin acquired[l]
  /\ \A lp \in LPs, n \in Nodes : n \in acquired'[lp] <=> n \in acquired[lp] \/ (lp = l /\ n = d)
  /\ \A lp \in LPs, n, c \in Nodes, k \in Places :
       Holds(c, k, lp, n)' <=> Holds(c, k, lp, n) \/ (c = b /\ k = i /\ lp = l /\ n = d)

LEMMA ClaimAdded ==
  ASSUME OneClaim, NEW l \in LPs, NEW d \in Nodes, NEW b \in Nodes, NEW i \in Places, Claimed(l, d, b, i)
  PROVE  OneClaim'
<1>1. \A c \in Nodes, k \in Places : ~Holds(c, k, l, d)
  BY DEF OneClaim, Claimed
<1> QED
  BY <1>1 DEF OneClaim, Claimed

LEMMA ClaimMoved ==
  ASSUME OneClaim, UNCHANGED acquired,
         NEW l \in LPs, NEW d \in Nodes, NEW b \in Nodes, NEW i \in Places, NEW j \in Places, i # j,
         \A lp \in LPs, n \in Nodes : /\ Holds(b, i, lp, n) <=> lp = l /\ n = d
                                      /\ ~Holds(b, j, lp, n)
                                      /\ ~Holds(b, i, lp, n)'
                                      /\ Holds(b, j, lp, n)' <=> lp = l /\ n = d,
         \A lp \in LPs, n, c \in Nodes, k \in Places :
           c # b \/ k \notin {i, j} => (Holds(c, k, lp, n)' <=> Holds(c, k, lp, n))
  PROVE  OneClaim'
<1>1. ASSUME NEW lp \in LPs, NEW n \in Nodes
      PROVE  /\ (\E c \in Nodes, k \in Places : Holds(c, k, lp, n)')
                  <=> (\E c \in Nodes, k \in Places : Holds(c, k, lp, n))
             /\ \A c, x \in Nodes, k, y \in Places :
                  Holds(c, k, lp, n)' /\ Holds(x, y, lp, n)' => c = x /\ k = y
  <2>1. CASE lp = l /\ n = d
    <3>1. \A c \in Nodes, k \in Places : Holds(c, k, lp, n) <=> c = b /\ k = i
      BY <2>1 DEF OneClaim
    <3>2. \A c \in Nodes, k \in Places : Holds(c, k, lp, n)' <=> c = b /\ k = j
      BY <2>1, <3>1
    <3> QED
      BY <3>1, <3>2
  <2>2. CASE ~(lp = l /\ n = d)
    <3>1. \A c \in Nodes, k \in Places : Holds(c, k, lp, n)' <=> Holds(c, k, lp, n)
      BY <2>2
    <3> QED
      BY <3>1 DEF OneClaim
  <2> QED
    BY <2>1, <2>2
<1> QED
  BY <1>1 DEF OneClaim

(* The first message of node b is taken: the others come forward.          *)
LEMMA ClaimRead ==
  ASSUME OneClaim, acquired \in [LPs -> SUBSET Nodes], acquired' \in [LPs -> SUBSET Nodes],
         NEW b \in Nodes,
         \A lp \in LPs, n \in Nodes :
           n \in acquired'[lp] <=> n \in acquired[lp] /\ ~Holds(b, 1, lp, n),
         \A lp \in LPs, n, c \in Nodes, k \in Places :
           Holds(c, k, lp, n)' <=>
             IF c = b /\ k \in 1..MaxQueue THEN k < MaxQueue /\ Holds(b, k + 1, lp, n)
             ELSE Holds(c, k, lp, n)
  PROVE  OneClaim'
<1> DEFINE back(c, k) == IF c = b /\ k \in 1..MaxQueue THEN k + 1 ELSE k
<1>1. MaxQueue \in Nat \ {0} /\ Places = 0..(MaxQueue + 1)
  BY ConstantFacts DEF Places
<1>2. ASSUME NEW lp \in LPs, NEW n \in Nodes, NEW c \in Nodes, NEW k \in Places, Holds(c, k, lp, n)'
      PROVE  back(c, k) \in Places /\ Holds(c, back(c, k), lp, n) /\ ~(c = b /\ back(c, k) = 1)
             /\ ~(c = b /\ k = MaxQueue)
  BY <1>1, <1>2
<1>3. ASSUME NEW lp \in LPs, NEW n \in Nodes, NEW c \in Nodes, NEW k \in Places, Holds(c, k, lp, n),
             ~(c = b /\ k = 1)
      PROVE  \E j \in Places : Holds(c, j, lp, n)'
  <2>1. CASE c = b /\ k \in 2..MaxQueue
    <3>1. k - 1 \in Places /\ k - 1 \in 1..MaxQueue /\ k - 1 < MaxQueue /\ k - 1 + 1 = k
      BY <1>1, <2>1
    <3> QED
      BY <1>3, <2>1, <3>1
  <2>2. CASE ~(c = b /\ k \in 2..MaxQueue)
    <3>1. ~(c = b /\ k \in 1..MaxQueue)
      BY <1>1, <1>3, <2>2
    <3> QED
      BY <1>3, <3>1
  <2> QED
    BY <2>1, <2>2
<1>4. \A c \in Nodes, j, k \in Places :
        back(c, j) = back(c, k) /\ ~(c = b /\ j = MaxQueue) /\ ~(c = b /\ k = MaxQueue) => j = k
  BY <1>1
<1>5. 1 \in Places
  BY <1>1
<1> HIDE DEF back
<1>6. ASSUME NEW lp \in LPs, NEW n \in Nodes
      PROVE  n \in acquired'[lp] <=> \E c \in Nodes, k \in Places : Holds(c, k, lp, n)'
  <2>1. ASSUME n \in acquired'[lp] PROVE \E c \in Nodes, k \in Places : Holds(c, k, lp, n)'
    <3>1. PICK c \in Nodes, k \in Places : Holds(c, k, lp, n) /\ ~(c = b /\ k = 1)
      BY <2>1 DEF OneClaim
    <3> QED
      BY <1>3, <3>1
  <2>2. ASSUME NEW c \in Nodes, NEW k \in Places, Holds(c, k, lp, n)' PROVE n \in acquired'[lp]
    <3>1. PICK j \in Places : Holds(c, j, lp, n) /\ ~(c = b /\ j = 1)
      BY <1>2, <2>2
    <3> QED
      BY <1>5, <3>1 DEF OneClaim
  <2> QED
    BY <2>1, <2>2
<1>7. ASSUME NEW lp \in LPs, NEW n \in Nodes, NEW c \in Nodes, NEW x \in Nodes, NEW j \in Places, NEW k \in Places,
             Holds(c, j, lp, n)', Holds(x, k, lp, n)'
      PROVE  c = x /\ j = k
  <2>1. c = x /\ back(c, j) = back(x, k)
    <3>1. PICK u \in Places, v \in Places : /\ u = back(c, j) /\ v = back(x, k)
                                            /\ Holds(c, u, lp, n) /\ Holds(x, v, lp, n)
      BY <1>2, <1>7
    <3> QED
      BY <3>1 DEF OneClaim
  <2> QED
    BY <1>2, <1>4, <1>7, <2>1
<1> QED
  BY <1>6, <1>7 DEF OneClaim

(* Holds, place by place.                                                  *)
LEMMA HoldsAt ==
  ASSUME NEW c \in Nodes, NEW lp \in LPs, NEW n \in Nodes
  PROVE  /\ Holds(c, 0, lp, n) <=> proc[c].lp = lp /\ proc[c].pc # "calm" /\ c = n
         /\ Holds(c, MaxQueue + 1, lp, n) <=> proc[c].lp = lp /\ proc[c].dest = n
         /\ \A k \in 1..MaxQueue :
              Holds(c, k, lp, n) <=> k \in 1..Len(toCtl[c]) /\ toCtl[c][k] = Release(lp, n)
         /\ Holds(c, 0, lp, n)' <=> proc'[c].lp = lp /\ proc'[c].pc # "calm" /\ c = n
         /\ Holds(c, MaxQueue + 1, lp, n)' <=> proc'[c].lp = lp /\ proc'[c].dest = n
         /\ \A k \in 1..MaxQueue :
              Holds(c, k, lp, n)' <=> k \in 1..Len(toCtl'[c]) /\ toCtl'[c][k] = Release(lp, n)
         /\ 0 \in Places /\ MaxQueue + 1 \in Places /\ 1 \in Places
         /\ \A k \in 1..MaxQueue : k \in Places /\ k # 0 /\ k # MaxQueue + 1
         /\ \A k \in Places : k = 0 \/ k = MaxQueue + 1 \/ k \in 1..MaxQueue
<1>1. MaxQueue \in Nat \ {0} /\ Places = 0..(MaxQueue + 1)
  BY ConstantFacts DEF Places
<1>2. /\ 0 \in Places /\ MaxQueue + 1 \in Places /\ 1 \in Places /\ MaxQueue + 1 # 0
      /\ \A k \in 1..MaxQueue : k \in Places /\ k # 0 /\ k # MaxQueue + 1
      /\ \A k \in Places : k = 0 \/ k = MaxQueue + 1 \/ k \in 1..MaxQueue
  BY <1>1
<1> QED
  BY <1>2 DEF Holds

(* A node whose handler and queue stay.                                    *)
LEMMA HoldsElsewhere ==
  ASSUME NEW c \in Nodes, proc'[c] = proc[c], toCtl'[c] = toCtl[c]
  PROVE  \A lp \in LPs, n \in Nodes, k \in Places : Holds(c, k, lp, n)' <=> Holds(c, k, lp, n)
BY DEF Holds

(* A message is posted at the end of the queue.                            *)
LEMMA HoldsPosted ==
  ASSUME NEW b \in Nodes, NEW m, Posted(b, m), NEW lp \in LPs, NEW n \in Nodes, NEW k \in 1..MaxQueue
  PROVE  Holds(b, k, lp, n)' <=> IF k = Len(toCtl[b]) + 1 THEN m = Release(lp, n) ELSE Holds(b, k, lp, n)
<1>1. MaxQueue \in Nat /\ Len(toCtl[b]) \in Nat /\ Len(toCtl'[b]) = Len(toCtl[b]) + 1
  BY ConstantFacts DEF Posted
<1>2. k = Len(toCtl[b]) + 1 => toCtl'[b][k] = m /\ k \in 1..Len(toCtl'[b])
  BY <1>1 DEF Posted
<1>3. k # Len(toCtl[b]) + 1 => (k \in 1..Len(toCtl'[b]) <=> k \in 1..Len(toCtl[b]))
  BY <1>1
<1>4. k \in 1..Len(toCtl[b]) => toCtl'[b][k] = toCtl[b][k]
  BY DEF Posted
<1> QED
  BY <1>2, <1>3, <1>4, HoldsAt

LEMMA HoldsTaken ==
  ASSUME NEW b \in Nodes, Taken(b), Len(toCtl[b]) <= MaxQueue, NEW lp \in LPs, NEW n \in Nodes, NEW k \in 1..MaxQueue
  PROVE  Holds(b, k, lp, n)' <=> k < MaxQueue /\ Holds(b, k + 1, lp, n)
<1>1. /\ MaxQueue \in Nat /\ Len(toCtl[b]) \in Nat /\ Len(toCtl'[b]) = Len(toCtl[b]) - 1
      /\ 1 <= Len(toCtl[b])
  BY ConstantFacts DEF Taken
<1>2. k \in 1..Len(toCtl'[b]) <=> k < MaxQueue /\ k + 1 \in 1..Len(toCtl[b])
  BY <1>1
<1>3. k \in 1..Len(toCtl'[b]) => toCtl'[b][k] = toCtl[b][k + 1]
  BY DEF Taken
<1>4. k < MaxQueue => k + 1 \in 1..MaxQueue
  BY <1>1
<1>5. k < MaxQueue => (Holds(b, k + 1, lp, n) <=> k + 1 \in 1..Len(toCtl[b]) /\ toCtl[b][k + 1] = Release(lp, n))
  BY <1>4, HoldsAt
<1> QED
  BY <1>2, <1>3, <1>5, HoldsAt

(* Two claims to a node are one.                                           *)
LEMMA ClaimsAreOne ==
  ASSUME PairInv, InOneLP, NEW n \in Nodes, NEW l \in LPs, NEW k \in LPs,
         NEW c \in Nodes, NEW d \in Nodes, NEW i \in Places, NEW j \in Places,
         Holds(c, i, l, n), Holds(d, j, k, n)
  PROVE  /\ n \in acquired[l] /\ n \in members[l]
         /\ l = k /\ c = d /\ i = j
<1>1. n \in acquired[l] /\ n \in acquired[k]
  BY DEF PairInv, OneClaim
<1>2. n \in members[l] /\ n \in members[k]
  BY <1>1 DEF PairInv, AcquiredInside
<1>3. l = k
  BY <1>2 DEF InOneLP
<1> QED
  BY <1>1, <1>2, <1>3 DEF PairInv, OneClaim

LEMMA InitPair ==
  ASSUME Init
  PROVE  PairInv
<1>1. \A lp \in LPs : acquired[lp] = {} /\ ~Destroying(lp)
  BY DEF Init, Destroying, NoSweep
<1>2. \A c \in Nodes : proc[c].pc = "calm" /\ proc[c].dest = NoNode /\ Len(toCtl[c]) = 0
  BY DEF Init, Down
<1>3. \A lp \in LPs, n, c \in Nodes, k \in Places : ~Holds(c, k, lp, n)
  BY <1>2, HoldsAt, ConstantFacts
<1> QED
  BY <1>1, <1>3 DEF PairInv, AcquiredInside, PassedStaysIdle, OneClaim

LEMMA LPStepPair ==
  ASSUME ClientInv, PairInv, LPStep
  PROVE  PairInv'
<1>1. LPInv /\ HandlersTyped /\ acquired \in [LPs -> SUBSET Nodes] /\ members \in [LPs -> SUBSET Nodes]
  BY DEF ClientInv, LPInv, LPsTyped, MessagesTyped
<1>2. SweepTyped /\ ProcTyped
  BY <1>1 DEF LPInv
<1>3. UNCHANGED acquired /\ AcquiredInside' /\ PassedStaysIdle'
  <2>1. CASE UNCHANGED <<acquired, members, sweep>>
    BY <2>1 DEF PairInv, AcquiredInside, PassedStaysIdle, Destroying
  <2>2. ASSUME NEW n \in Nodes, NEW want \in LPs \cup {NoLP}, NEW b \in Binaries, NEW main \in BOOLEAN,
               RegisterNode(n, want, b, main)
        PROVE  UNCHANGED acquired /\ AcquiredInside' /\ PassedStaysIdle'
    <3>1. PICK lp \in LPs : UNCHANGED members \/ members' = [members EXCEPT ![lp] = @ \cup {n}]
      BY <1>1, <2>2, RegistrationLP DEF RegisterNode
    <3>2. UNCHANGED <<acquired, sweep>>
      BY <2>2 DEF RegisterNode
    <3>3. \A l \in LPs : members[l] \subseteq members'[l]
      BY <1>1, <3>1
    <3> QED
      BY <3>2, <3>3 DEF PairInv, AcquiredInside, PassedStaysIdle, Destroying
  <2>3. ASSUME NEW n \in Nodes, DestroyLP(n)
        PROVE  UNCHANGED acquired /\ AcquiredInside' /\ PassedStaysIdle'
    <3>1. UNCHANGED <<acquired, members>>
      BY <2>3 DEF DestroyLP
    <3>2. \/ UNCHANGED sweep
          \/ sweep' = [sweep EXCEPT ![proc[n].lp] = [by |-> n, left |-> members[proc[n].lp], stopping |-> {}]]
      BY <2>3 DEF DestroyLP
    <3>3. \A l \in LPs : sweep'[l] = sweep[l] \/ sweep'[l].left = members[l]
      BY <1>2, <3>2 DEF SweepTyped
    <3> QED
      BY <3>1, <3>3 DEF PairInv, AcquiredInside, PassedStaysIdle, Destroying
  <2>4. ASSUME NEW lp \in LPs, SweepNode(lp)
        PROVE  UNCHANGED acquired /\ AcquiredInside' /\ PassedStaysIdle'
    <3>1. PICK n : /\ n = Least(sweep[lp].left) /\ n \notin acquired[lp]
                   /\ sweep' = [sweep EXCEPT ![lp].left = @ \ {n},
                                             ![lp].stopping = IF n = sweep[lp].by THEN @ ELSE @ \cup {n}]
      BY <2>4 DEF SweepNode
    <3>2. /\ \A l \in LPs : sweep'[l].by = sweep[l].by
          /\ \A l \in LPs : sweep'[l].left = IF l = lp THEN sweep[l].left \ {n} ELSE sweep[l].left
      BY <1>2, <3>1 DEF SweepTyped
    <3>3. UNCHANGED <<acquired, members>>
      BY <2>4 DEF SweepNode
    <3>4. AcquiredInside'
      BY <3>3 DEF PairInv, AcquiredInside
    <3>5. ASSUME NEW l \in LPs, sweep'[l].by # NoNode PROVE acquired[l] \subseteq sweep'[l].left
      <4>1. acquired[l] \subseteq sweep[l].left
        BY <3>2, <3>5 DEF PairInv, PassedStaysIdle, Destroying
      <4>2. n \notin acquired[lp]
        BY <3>1
      <4> QED
        BY <3>2, <4>1, <4>2
    <3> QED
      BY <3>3, <3>4, <3>5 DEF PassedStaysIdle, Destroying
  <2>5. ASSUME NEW lp \in LPs, NEW n \in Nodes, Shutdown(lp, n)
        PROVE  UNCHANGED acquired /\ AcquiredInside' /\ PassedStaysIdle'
    <3>1. \A l \in LPs : sweep'[l].by = sweep[l].by /\ sweep'[l].left = sweep[l].left
      BY <1>2, <2>5 DEF Shutdown, SweepTyped
    <3>2. UNCHANGED <<acquired, members>>
      BY <2>5 DEF Shutdown
    <3> QED
      BY <3>1, <3>2 DEF PairInv, AcquiredInside, PassedStaysIdle, Destroying
  <2>6. ASSUME NEW lp \in LPs, LPDestroyed(lp)
        PROVE  UNCHANGED acquired /\ AcquiredInside' /\ PassedStaysIdle'
    <3>1. /\ acquired[lp] = {} /\ acquired' = [acquired EXCEPT ![lp] = {}]
          /\ members' = [members EXCEPT ![lp] = {}] /\ sweep' = [sweep EXCEPT ![lp] = NoSweep]
      BY <1>1, <2>6 DEF LPDestroyed, PairInv, PassedStaysIdle
    <3>2. acquired' = acquired
      BY <1>1, <3>1
    <3>3. \A l \in LPs : /\ l = lp \/ (members'[l] = members[l] /\ sweep'[l] = sweep[l])
                         /\ l = lp => acquired[l] = {}
      BY <1>1, <1>2, <3>1 DEF SweepTyped
    <3> QED
      BY <3>2, <3>3 DEF PairInv, AcquiredInside, PassedStaysIdle, Destroying
  <2> QED
    BY <2>1, <2>2, <2>3, <2>4, <2>5, <2>6 DEF LPStep, MainExits, lpVars
<1>4. ASSUME NEW lp \in LPs, NEW n \in Nodes, NEW c \in Nodes, NEW k \in Places
      PROVE  Holds(c, k, lp, n)' <=> Holds(c, k, lp, n)
  <2>1. /\ toCtl' = toCtl
        /\ \/ /\ proc'[c].pc = proc[c].pc /\ proc'[c].dest = proc[c].dest /\ proc'[c].lp = proc[c].lp
           \/ /\ proc[c].pc = "calm" /\ proc'[c].pc = "calm"
              /\ proc[c].dest = NoNode /\ proc'[c].dest = NoNode
    BY <1>1, LPStepHandlers
  <2> QED
    BY <2>1, HoldsAt, ConstantFacts
<1> QED
  BY <1>3, <1>4, ClaimsSame DEF PairInv

(* A handler moves from place to place; none acts in an LP that goes.      *)
LEMMA MigrationPair ==
  ASSUME QuietExit, ClientInv, PairInv, NEW b \in Nodes, MigrationStep(b)
  PROVE  PairInv'
<1>1. /\ LPInv /\ ProcTyped /\ MessagesTyped /\ HandlersTyped /\ OneClaim
      /\ acquired \in [LPs -> SUBSET Nodes] /\ members \in [LPs -> SUBSET Nodes]
      /\ Len(toCtl[b]) <= MaxQueue
  BY DEF ClientInv, LPInv, LPsTyped, MessagesTyped, PairInv
<1>2. UNCHANGED <<members, sweep>>
  BY DEF MigrationStep, AcquireNode, AcquireMigrationDest, Migrate, SendLocation,
         ReleaseDest, ReleaseSelf, ReadMessage, lpVars
<1>3. UNCHANGED acquired => AcquiredInside' /\ PassedStaysIdle'
  BY <1>2 DEF PairInv, AcquiredInside, PassedStaysIdle, Destroying
<1>4. ASSUME NEW l \in LPs, NEW d \in Nodes, d \in members[l], ~Destroying(l),
             acquired' = [acquired EXCEPT ![l] = @ \cup {d}]
      PROVE  AcquiredInside' /\ PassedStaysIdle'
  <2>1. \A lp \in LPs : acquired'[lp] = IF lp = l THEN acquired[lp] \cup {d} ELSE acquired[lp]
    BY <1>1, <1>4
  <2> QED
    BY <1>2, <1>4, <2>1 DEF PairInv, AcquiredInside, PassedStaysIdle, Destroying
<1>5. ASSUME NEW c \in Nodes, c # b, UNCHANGED toCtl \/ (\E m : Posted(b, m)) \/ Taken(b), proc'[c] = proc[c]
      PROVE  \A lp \in LPs, n \in Nodes, k \in Places : Holds(c, k, lp, n)' <=> Holds(c, k, lp, n)
  BY <1>5, HoldsElsewhere DEF Posted, Taken
<1>6. CASE AcquireNode(b)
  <2>1. PICK l \in LPs : /\ l = proc[b].lp /\ b \in members[l] /\ ~Destroying(l) /\ b \notin acquired[l]
                         /\ acquired' = [acquired EXCEPT ![l] = @ \cup {b}]
    BY <1>1, <1>6 DEF AcquireNode, InLP, ProcTyped
  <2>2. HandlerAt(b, "self", proc[b].dest, proc[b].moved) /\ UNCHANGED toCtl /\ proc[b].pc = "calm"
    BY <1>1, <1>6, AcquireNodeFacts DEF AcquireNode
  <2>3. ASSUME NEW lp \in LPs, NEW n \in Nodes, NEW c \in Nodes, NEW k \in Places
        PROVE  Holds(c, k, lp, n)' <=> Holds(c, k, lp, n) \/ (c = b /\ k = 0 /\ lp = l /\ n = b)
    <3>1. CASE c # b
      BY <1>5, <2>2, <3>1 DEF HandlerAt
    <3>2. CASE c = b
      BY <2>1, <2>2, <3>2, HoldsAt DEF HandlerAt
    <3> QED
      BY <3>1, <3>2
  <2>4. OneClaim'
    <3>1. 0 \in Places
      BY HoldsAt
    <3>2. \A lp \in LPs, n, c \in Nodes, k \in Places :
            Holds(c, k, lp, n)' <=> Holds(c, k, lp, n) \/ (c = b /\ k = 0 /\ lp = l /\ n = b)
      BY <2>3
    <3>3. /\ b \notin acquired[l] /\ OneClaim
          /\ \A lp \in LPs, n \in Nodes : n \in acquired'[lp] <=> n \in acquired[lp] \/ (lp = l /\ n = b)
      BY <1>1, <2>1
    <3>4. Claimed(l, b, b, 0)
      BY <3>2, <3>3 DEF Claimed
    <3> QED
      BY <3>1, <3>3, <3>4, ClaimAdded
  <2> QED
    BY <1>4, <2>1, <2>4 DEF PairInv
<1>7. CASE AcquireMigrationDest(b)
  <2>1. CASE UNCHANGED <<acquired, rrIter, proc>>
    <3>1. UNCHANGED <<acquired, proc, toCtl>>
      BY <1>7, <2>1 DEF AcquireMigrationDest
    <3>2. OneClaim'
      BY <1>1, <3>1, ClaimsSame, HoldsElsewhere
    <3> QED
      BY <1>3, <3>1, <3>2 DEF PairInv
  <2>2. ASSUME NEW d \in Candidates(proc[b].lp, b),
               acquired' = [acquired EXCEPT ![proc[b].lp] = @ \cup {d}],
               proc' = [proc EXCEPT ![b].pc = "paired", ![b].dest = d]
        PROVE  PairInv'
    <3>1. PICK l \in LPs : l = proc[b].lp
      BY <1>1, <1>7, HandlerFacts DEF AcquireMigrationDest
    <3>2. d \in members[l] /\ d \in Nodes /\ d \notin acquired[l] /\ ~Destroying(l) /\ d # NoNode
      BY <1>1, <1>7, <2>2, <3>1, ConstantFacts DEF AcquireMigrationDest, Candidates, Serves
    <3>3. proc[b].dest = NoNode /\ proc[b].pc = "self" /\ UNCHANGED toCtl
      BY <1>1, <1>7, HandlerFacts DEF AcquireMigrationDest
    <3>4. HandlerAt(b, "paired", d, proc[b].moved)
      BY <1>1, <2>2, PairFacts
    <3>5. ASSUME NEW lp \in LPs, NEW n \in Nodes, NEW c \in Nodes, NEW k \in Places
          PROVE  Holds(c, k, lp, n)' <=> Holds(c, k, lp, n) \/ (c = b /\ k = MaxQueue + 1 /\ lp = l /\ n = d)
      <4>1. CASE c # b
        BY <1>5, <3>3, <3>4, <4>1 DEF HandlerAt
      <4>2. CASE c = b
        BY <3>1, <3>2, <3>3, <3>4, <4>2, HoldsAt, ConstantFacts DEF HandlerAt
      <4> QED
        BY <4>1, <4>2
    <3>6. OneClaim'
      <4>1. MaxQueue + 1 \in Places
        BY <3>1, <3>2, HoldsAt
      <4>2. \A lp \in LPs, n, c \in Nodes, k \in Places :
              Holds(c, k, lp, n)' <=> Holds(c, k, lp, n) \/ (c = b /\ k = MaxQueue + 1 /\ lp = l /\ n = d)
        BY <3>5
      <4>3. /\ d \notin acquired[l] /\ OneClaim /\ d \in Nodes
            /\ \A lp \in LPs, n \in Nodes : n \in acquired'[lp] <=> n \in acquired[lp] \/ (lp = l /\ n = d)
        BY <1>1, <2>2, <3>1, <3>2
      <4>4. Claimed(l, d, b, MaxQueue + 1)
        BY <4>2, <4>3 DEF Claimed
      <4> QED
        BY <4>1, <4>3, <4>4, ClaimAdded
    <3> QED
      BY <1>4, <2>2, <3>1, <3>2, <3>6 DEF PairInv
  <2> QED
    BY <1>7, <2>1, <2>2 DEF AcquireMigrationDest
<1>8. ASSUME NEW a \in Addresses, Migrate(b, a) PROVE PairInv'
  <2>1. HandlerAt(b, "moved", proc[b].dest, a) /\ UNCHANGED <<toCtl, acquired>> /\ proc[b].pc = "paired"
    BY <1>1, <1>8, MigrateFacts DEF Migrate, lpVars
  <2>2. ASSUME NEW lp \in LPs, NEW n \in Nodes, NEW c \in Nodes, NEW k \in Places
        PROVE  Holds(c, k, lp, n)' <=> Holds(c, k, lp, n)
    BY <1>5, <2>1, HoldsAt DEF HandlerAt
  <2> QED
    BY <1>1, <1>3, <2>1, <2>2, ClaimsSame DEF PairInv
<1>9. CASE SendLocation(b)
  <2>1. PICK m : /\ m = [kind |-> "location", id |-> proc[b].moved, node |-> proc[b].dest]
                 /\ m \in Messages /\ m.kind = "location" /\ Post(b, m)
    BY <1>1, <1>9, HandlerFacts, MessageFacts DEF SendLocation
  <2>2. HandlerAt(b, "paired", proc[b].dest, NoProclet) /\ UNCHANGED acquired /\ proc[b].pc = "moved"
    BY <1>1, <1>9, SendFacts DEF SendLocation, lpVars
  <2>3. Posted(b, m)
    BY <1>1, <2>1, PostFacts
  <2>4. ASSUME NEW lp \in LPs, NEW n \in Nodes, NEW c \in Nodes, NEW k \in Places
        PROVE  Holds(c, k, lp, n)' <=> Holds(c, k, lp, n)
    <3>1. CASE c # b
      BY <1>5, <2>2, <2>3, <3>1 DEF HandlerAt
    <3>2. CASE c = b /\ k \in 1..MaxQueue
      <4>1. m # Release(lp, n)
        BY <2>1, MessageFacts
      <4>2. k = Len(toCtl[b]) + 1 => ~Holds(b, k, lp, n)
        <5>1. Len(toCtl[b]) \in Nat
          BY <2>3 DEF Posted
        <5> QED
          BY <3>2, <5>1, HoldsAt
      <4> QED
        BY <2>3, <3>2, <4>1, <4>2, HoldsPosted
    <3>3. CASE c = b /\ k \notin 1..MaxQueue
      BY <2>2, <3>3, HoldsAt DEF HandlerAt
    <3> QED
      BY <3>1, <3>2, <3>3
  <2> QED
    BY <1>1, <1>3, <2>2, <2>4, ClaimsSame DEF PairInv
<1>10. ASSUME NEW l \in LPs, NEW d \in Nodes, NEW i \in {0, MaxQueue + 1}, Posted(b, Release(l, d)), UNCHANGED acquired,
              \A c \in Nodes \ {b} : proc'[c] = proc[c],
              \A lp \in LPs, n \in Nodes : /\ Holds(b, i, lp, n) <=> lp = l /\ n = d
                                           /\ ~Holds(b, i, lp, n)',
              \A lp \in LPs, n \in Nodes : \A k \in {0, MaxQueue + 1} \ {i} : Holds(b, k, lp, n)' <=> Holds(b, k, lp, n)
       PROVE  PairInv'
  <2>1. PICK j \in 1..MaxQueue : j = Len(toCtl[b]) + 1 /\ j \notin 1..Len(toCtl[b])
    BY <1>10, ConstantFacts DEF Posted
  <2>2. j \in Places /\ i \in Places /\ i # j
    BY <1>10, HoldsAt
  <2>3. ASSUME NEW lp \in LPs, NEW n \in Nodes
        PROVE  ~Holds(b, j, lp, n) /\ (Holds(b, j, lp, n)' <=> lp = l /\ n = d)
    <3>1. Release(l, d) = Release(lp, n) <=> lp = l /\ n = d
      BY MessageFacts
    <3> QED
      BY <1>10, <2>1, <3>1, HoldsAt, HoldsPosted
  <2>4. ASSUME NEW lp \in LPs, NEW n \in Nodes, NEW c \in Nodes, NEW k \in Places, c # b \/ k \notin {i, j}
        PROVE  Holds(c, k, lp, n)' <=> Holds(c, k, lp, n)
    <3>1. CASE c # b
      BY <1>5, <1>10, <3>1
    <3>2. CASE c = b /\ k \in 1..MaxQueue
      BY <1>10, <2>1, <2>4, <3>2, HoldsPosted
    <3>3. CASE c = b /\ k \notin 1..MaxQueue
      <4>1. k \in {0, MaxQueue + 1} \ {i}
        BY <2>4, <3>3, HoldsAt
      <4> QED
        BY <1>10, <3>3, <4>1
    <3> QED
      BY <3>1, <3>2, <3>3
  <2>5. OneClaim'
    <3>1. \A lp \in LPs, n \in Nodes : /\ Holds(b, i, lp, n) <=> lp = l /\ n = d
                                       /\ ~Holds(b, j, lp, n)
                                       /\ ~Holds(b, i, lp, n)'
                                       /\ Holds(b, j, lp, n)' <=> lp = l /\ n = d
      BY <1>10, <2>3
    <3>2. \A lp \in LPs, n, c \in Nodes, k \in Places :
            c # b \/ k \notin {i, j} => (Holds(c, k, lp, n)' <=> Holds(c, k, lp, n))
      BY <2>4
    <3>3. OneClaim /\ UNCHANGED acquired
      BY <1>1, <1>10
    <3> QED
      BY <2>2, <3>1, <3>2, <3>3, ClaimMoved
  <2> QED
    BY <1>3, <1>10, <2>5 DEF PairInv
<1>11. CASE ReleaseDest(b)
  <2>1. PICK l \in LPs, d \in Nodes : l = proc[b].lp /\ d = proc[b].dest /\ d # NoNode /\ Post(b, Release(l, d))
    BY <1>1, <1>11, HandlerFacts, ConstantFacts DEF ReleaseDest
  <2>2. HandlerAt(b, "self", NoNode, proc[b].moved) /\ UNCHANGED acquired /\ proc[b].pc = "paired"
    BY <1>1, <1>11, ReleaseDestFacts DEF ReleaseDest, lpVars
  <2>3. Posted(b, Release(l, d))
    BY <1>1, <2>1, PostFacts, MessageFacts
  <2>4. \A lp \in LPs, n \in Nodes : /\ Holds(b, MaxQueue + 1, lp, n) <=> lp = l /\ n = d
                                     /\ ~Holds(b, MaxQueue + 1, lp, n)'
    BY <2>1, <2>2, HoldsAt, ConstantFacts DEF HandlerAt
  <2>5. \A lp \in LPs, n \in Nodes : \A k \in {0, MaxQueue + 1} \ {MaxQueue + 1} : Holds(b, k, lp, n)' <=> Holds(b, k, lp, n)
    BY <2>2, HoldsAt DEF HandlerAt
  <2> QED
    BY <1>10, <2>2, <2>3, <2>4, <2>5 DEF HandlerAt
<1>12. CASE ReleaseSelf(b)
  <2>1. PICK l \in LPs : l = proc[b].lp /\ Post(b, Release(l, b))
    BY <1>1, <1>12, HandlerFacts DEF ReleaseSelf
  <2>2. HandlerAt(b, "calm", proc[b].dest, proc[b].moved) /\ UNCHANGED acquired /\ proc[b].pc = "self"
    BY <1>1, <1>12, ReleaseSelfFacts DEF ReleaseSelf, lpVars
  <2>3. Posted(b, Release(l, b))
    BY <1>1, <2>1, PostFacts, MessageFacts
  <2>4. \A lp \in LPs, n \in Nodes : /\ Holds(b, 0, lp, n) <=> lp = l /\ n = b
                                     /\ ~Holds(b, 0, lp, n)'
    BY <2>1, <2>2, HoldsAt DEF HandlerAt
  <2>5. \A lp \in LPs, n \in Nodes : \A k \in {0, MaxQueue + 1} \ {0} : Holds(b, k, lp, n)' <=> Holds(b, k, lp, n)
    BY <2>2, HoldsAt DEF HandlerAt
  <2> QED
    BY <1>10, <2>2, <2>3, <2>4, <2>5 DEF HandlerAt
<1>13. CASE ReadMessage(b)
  <2>1. PICK m \in Messages : m = Head(toCtl[b]) /\ m = toCtl[b][1] /\ Taken(b)
    BY <1>1, <1>13, TakeFacts DEF ReadMessage
  <2>2. UNCHANGED proc
    BY <1>13 DEF ReadMessage
  <2>3. ASSUME NEW lp \in LPs, NEW n \in Nodes
        PROVE  Holds(b, 1, lp, n) <=> m = Release(lp, n)
    <3>1. 1 \in 1..MaxQueue /\ 1 \in 1..Len(toCtl[b])
      BY <2>1, ConstantFacts DEF Taken
    <3> QED
      BY <2>1, <3>1, HoldsAt
  <2>4. ASSUME NEW lp \in LPs, NEW n \in Nodes, NEW c \in Nodes, NEW k \in Places
        PROVE  Holds(c, k, lp, n)' <=>
                 IF c = b /\ k \in 1..MaxQueue THEN k < MaxQueue /\ Holds(b, k + 1, lp, n)
                 ELSE Holds(c, k, lp, n)
    <3>1. CASE c # b
      BY <1>5, <2>1, <2>2, <3>1
    <3>2. CASE c = b /\ k \in 1..MaxQueue
      BY <1>1, <2>1, <3>2, HoldsTaken
    <3>3. CASE c = b /\ k \notin 1..MaxQueue
      BY <2>2, <3>3, HoldsAt
    <3> QED
      BY <3>1, <3>2, <3>3
  <2>5. CASE m.kind = "release"
    <3>1. PICK l \in LPs, d \in Nodes : m = Release(l, d) /\ m.lp = l /\ m.node = d
      BY <2>5, MessageFacts
    <3>2. d \in acquired[l] /\ d \in members[l]
      BY <1>1, <2>3, <3>1, HoldsAt DEF PairInv, AcquiredInside, OneClaim
    <3>3. acquired' = [acquired EXCEPT ![l] = @ \ {d}]
      BY <1>13, <2>1, <2>5, <3>1, <3>2 DEF ReadMessage, ReleaseNode
    <3>4. ASSUME NEW lp \in LPs, NEW n \in Nodes
          PROVE  n \in acquired'[lp] <=> n \in acquired[lp] /\ ~Holds(b, 1, lp, n)
      <4>1. Release(l, d) = Release(lp, n) <=> lp = l /\ n = d
        BY MessageFacts
      <4> QED
        BY <1>1, <2>3, <3>1, <3>3, <4>1
    <3>5. acquired' \in [LPs -> SUBSET Nodes] /\ \A lp \in LPs : acquired'[lp] \subseteq acquired[lp]
      BY <1>1, <3>3
    <3>6. OneClaim'
      BY <1>1, <2>4, <3>4, <3>5, ClaimRead
    <3> QED
      BY <1>2, <3>5, <3>6 DEF PairInv, AcquiredInside, PassedStaysIdle, Destroying
  <2>6. CASE m.kind # "release"
    <3>1. UNCHANGED acquired
      BY <1>13, <2>1, <2>6 DEF ReadMessage, UpdateLocation
    <3>2. \A lp \in LPs, n \in Nodes : ~Holds(b, 1, lp, n)
      BY <2>3, <2>6, MessageFacts
    <3>3. OneClaim'
      BY <1>1, <2>4, <3>1, <3>2, ClaimRead
    <3> QED
      BY <1>3, <3>1, <3>3 DEF PairInv
  <2> QED
    BY <2>5, <2>6
<1> QED
  BY <1>6, <1>7, <1>8, <1>9, <1>11, <1>12, <1>13 DEF MigrationStep

---------------------------------------------------------------------------
(* The locations.                                                          *)
LEMMA TellerFacts ==
  /\ 0 \in Tellers /\ 1 \in Tellers /\ 1 \in 1..MaxQueue
  /\ \A k \in 1..MaxQueue : k \in Tellers /\ k # 0
  /\ \A k \in Tellers : k = 0 \/ k \in 1..MaxQueue
<1>1. MaxQueue \in Nat \ {0} /\ Tellers = 0..MaxQueue
  BY ConstantFacts DEF Tellers
<1> QED
  BY <1>1

LEMMA TellsAt ==
  ASSUME NEW c \in Nodes, NEW a
  PROVE  /\ Tells(c, 0, a) <=> proc[c].moved = a
         /\ Tells(c, 0, a)' <=> proc'[c].moved = a
         /\ NewHome(c, 0) = proc[c].dest /\ NewHome(c, 0)' = proc'[c].dest
         /\ \A k \in 1..MaxQueue :
              /\ Tells(c, k, a) <=> k \in 1..Len(toCtl[c]) /\ toCtl[c][k].kind = "location" /\ toCtl[c][k].id = a
              /\ Tells(c, k, a)' <=> k \in 1..Len(toCtl'[c]) /\ toCtl'[c][k].kind = "location" /\ toCtl'[c][k].id = a
              /\ NewHome(c, k) = toCtl[c][k].node /\ NewHome(c, k)' = toCtl'[c][k].node
         /\ 0 \in Tellers /\ 1 \in Tellers /\ 1 \in 1..MaxQueue
         /\ \A k \in 1..MaxQueue : k \in Tellers /\ k # 0
         /\ \A k \in Tellers : k = 0 \/ k \in 1..MaxQueue
BY TellerFacts DEF Tells, NewHome

(* Who is about to tell keeps the node it will name from being released.   *)
LEMMA TargetIsHeld ==
  ASSUME ClientInv, ToldBeforeReleased, NEW c \in Nodes, NEW k \in Tellers, NEW a \in Addresses, Tells(c, k, a)
  PROVE  NewHome(c, k) \in Nodes /\ \E i \in Places, l \in LPs : i # 0 /\ Holds(c, i, l, NewHome(c, k))
<1>1. LPInv /\ HandlersTyped /\ MessagesTyped
  BY DEF ClientInv
<1>2. MaxQueue \in Nat /\ MaxQueue + 1 # 0
  BY ConstantFacts
<1>3. ASSUME proc[c].dest \in Nodes
      PROVE  \E i \in Places, l \in LPs : i # 0 /\ Holds(c, i, l, proc[c].dest)
  <2>1. proc[c].lp \in LPs
    BY <1>1, <1>3, HandlerFacts, ConstantFacts
  <2> QED
    BY <1>2, <1>3, <2>1, HoldsAt
<1>4. CASE k = 0
  <2>1. proc[c].pc = "moved"
    BY <1>1, <1>4, HandlerFacts, TellsAt, ConstantFacts
  <2>2. proc[c].dest \in Nodes
    BY <1>1, <2>1, HandlerFacts
  <2> QED
    BY <1>3, <1>4, <2>2, TellsAt
<1>5. CASE k \in 1..MaxQueue
  <2>1. k \in 1..Len(toCtl[c]) /\ toCtl[c][k].kind = "location" /\ NewHome(c, k) = toCtl[c][k].node
    <3>1. Tells(c, k, a) <=> k \in 1..Len(toCtl[c]) /\ toCtl[c][k].kind = "location" /\ toCtl[c][k].id = a
      BY <1>5, TellsAt
    <3>2. NewHome(c, k) = toCtl[c][k].node
      BY <1>5, TellsAt
    <3> QED
      BY <3>1, <3>2
  <2>2. toCtl[c] \in Seq(Messages) /\ Len(toCtl[c]) \in Nat /\ Len(toCtl[c]) <= MaxQueue
    BY <1>1 DEF MessagesTyped
  <2>3. toCtl[c][k].node \in Nodes
    BY <2>1, <2>2, ElementOfSeq, MessageFacts
  <2>4. CASE proc[c].dest = toCtl[c][k].node
    BY <1>3, <2>1, <2>3, <2>4
  <2>5. ASSUME NEW j \in (k + 1)..Len(toCtl[c]), NEW lp \in LPs, toCtl[c][j] = Release(lp, toCtl[c][k].node)
        PROVE  \E i \in Places, l \in LPs : i # 0 /\ Holds(c, i, l, toCtl[c][k].node)
    <3>1. j \in 1..MaxQueue /\ j \in 1..Len(toCtl[c]) /\ j # 0 /\ j \in Places
      BY <1>2, <1>5, <2>2, HoldsAt
    <3>2. Holds(c, j, lp, toCtl[c][k].node)
      BY <2>3, <2>5, <3>1, HoldsAt
    <3> QED
      BY <3>1, <3>2
  <2> QED
    BY <2>1, <2>3, <2>4, <2>5 DEF ToldBeforeReleased
<1> QED
  BY <1>4, <1>5, TellsAt

(* How ToldBeforeReleased outlives the steps.                              *)
LEMMA ToldSame ==
  ASSUME MessagesTyped, ToldBeforeReleased, UNCHANGED toCtl,
         \A c \in Nodes : proc'[c].dest = proc[c].dest \/ proc[c].dest = NoNode
  PROVE  ToldBeforeReleased'
<1> SUFFICES ASSUME NEW c \in Nodes, NEW k \in 1..Len(toCtl[c]), toCtl[c][k].kind = "location"
             PROVE  \/ proc'[c].dest = toCtl[c][k].node
                    \/ \E j \in (k + 1)..Len(toCtl[c]), lp \in LPs : toCtl[c][j] = Release(lp, toCtl[c][k].node)
  BY DEF ToldBeforeReleased
<1>1. toCtl[c][k].node \in Nodes
  <2>1. toCtl[c] \in Seq(Messages)
    BY DEF MessagesTyped
  <2> QED
    BY <2>1, ElementOfSeq, MessageFacts
<1> QED
  BY <1>1, ConstantFacts DEF ToldBeforeReleased

LEMMA ToldPosted ==
  ASSUME ToldBeforeReleased, NEW b \in Nodes, NEW m \in Messages, Posted(b, m),
         \A c \in Nodes \ {b} : proc'[c] = proc[c],
         \/ proc'[b].dest = proc[b].dest /\ (m.kind = "location" => m.node = proc[b].dest)
         \/ \E l \in LPs : m = Release(l, proc[b].dest)
  PROVE  ToldBeforeReleased'
<1> SUFFICES ASSUME NEW c \in Nodes, NEW k \in 1..Len(toCtl'[c]), toCtl'[c][k].kind = "location"
             PROVE  \/ proc'[c].dest = toCtl'[c][k].node
                    \/ \E j \in (k + 1)..Len(toCtl'[c]), lp \in LPs : toCtl'[c][j] = Release(lp, toCtl'[c][k].node)
  BY DEF ToldBeforeReleased
<1>1. CASE c # b
  <2>1. toCtl'[c] = toCtl[c] /\ proc'[c] = proc[c]
    BY <1>1 DEF Posted
  <2> QED
    BY <2>1 DEF ToldBeforeReleased
<1>2. CASE c = b /\ k \in 1..Len(toCtl[b])
  <2>1. /\ Len(toCtl[b]) \in Nat /\ Len(toCtl'[b]) = Len(toCtl[b]) + 1
        /\ \A i \in 1..Len(toCtl[b]) : toCtl'[b][i] = toCtl[b][i]
        /\ toCtl'[b][Len(toCtl[b]) + 1] = m
    BY DEF Posted
  <2>2. toCtl[b][k] = toCtl'[b][k] /\ toCtl[b][k].kind = "location"
    BY <1>2, <2>1
  <2>3. CASE proc[b].dest = toCtl[b][k].node
    <3>1. CASE proc'[b].dest = proc[b].dest
      BY <1>2, <2>2, <2>3, <3>1
    <3>2. ASSUME NEW l \in LPs, m = Release(l, proc[b].dest)
          PROVE  \E j \in (k + 1)..Len(toCtl'[b]), lp \in LPs : toCtl'[b][j] = Release(lp, toCtl'[b][k].node)
      <4>1. Len(toCtl[b]) + 1 \in (k + 1)..Len(toCtl'[b])
        BY <1>2, <2>1
      <4> QED
        BY <2>1, <2>2, <2>3, <3>2, <4>1
    <3> QED
      BY <1>2, <3>1, <3>2
  <2>4. ASSUME NEW j \in (k + 1)..Len(toCtl[b]), NEW lp \in LPs, toCtl[b][j] = Release(lp, toCtl[b][k].node)
        PROVE  \E i \in (k + 1)..Len(toCtl'[b]), l \in LPs : toCtl'[b][i] = Release(l, toCtl'[b][k].node)
    <3>1. j \in 1..Len(toCtl[b]) /\ j \in (k + 1)..Len(toCtl'[b])
      BY <1>2, <2>1
    <3> QED
      BY <2>1, <2>2, <2>4, <3>1
  <2> QED
    BY <1>2, <2>2, <2>3, <2>4 DEF ToldBeforeReleased
<1>3. CASE c = b /\ k \notin 1..Len(toCtl[b])
  <2>1. k = Len(toCtl[b]) + 1 /\ toCtl'[b][k] = m
    BY <1>3 DEF Posted
  <2> QED
    <3>1. \A l : Release(l, proc[b].dest).kind = "release"
      BY DEF Release
    <3> QED
      BY <1>3, <2>1, <3>1
<1> QED
  BY <1>1, <1>2, <1>3

LEMMA ToldTaken ==
  ASSUME ToldBeforeReleased, NEW b \in Nodes, Taken(b), UNCHANGED proc
  PROVE  ToldBeforeReleased'
<1> SUFFICES ASSUME NEW c \in Nodes, NEW k \in 1..Len(toCtl'[c]), toCtl'[c][k].kind = "location"
             PROVE  \/ proc'[c].dest = toCtl'[c][k].node
                    \/ \E j \in (k + 1)..Len(toCtl'[c]), lp \in LPs : toCtl'[c][j] = Release(lp, toCtl'[c][k].node)
  BY DEF ToldBeforeReleased
<1>1. CASE c # b
  <2>1. toCtl'[c] = toCtl[c]
    BY <1>1 DEF Taken
  <2> QED
    BY <2>1 DEF ToldBeforeReleased
<1>2. CASE c = b
  <2>1. /\ Len(toCtl[b]) \in Nat /\ 1 <= Len(toCtl[b]) /\ Len(toCtl'[b]) = Len(toCtl[b]) - 1
        /\ \A i \in 1..Len(toCtl'[b]) : toCtl'[b][i] = toCtl[b][i + 1]
    BY DEF Taken
  <2>2. PICK i \in 1..Len(toCtl[b]) : i = k + 1 /\ toCtl[b][i] = toCtl'[b][k]
    BY <1>2, <2>1
  <2>3. ASSUME NEW j \in (i + 1)..Len(toCtl[b]), NEW lp \in LPs, toCtl[b][j] = Release(lp, toCtl[b][i].node)
        PROVE  \E x \in (k + 1)..Len(toCtl'[b]), l \in LPs : toCtl'[b][x] = Release(l, toCtl'[b][k].node)
    <3>1. PICK x \in (k + 1)..Len(toCtl'[b]) : j = x + 1
      <4>1. j - 1 \in (k + 1)..Len(toCtl'[b]) /\ j = (j - 1) + 1
        BY <1>2, <2>1, <2>2
      <4> QED
        BY <4>1
    <3>2. x \in 1..Len(toCtl'[b])
      BY <1>2, <2>1, <3>1
    <3> QED
      BY <2>1, <2>2, <2>3, <3>1, <3>2
  <2> QED
    BY <1>2, <2>2, <2>3 DEF ToldBeforeReleased
<1> QED
  BY <1>1, <1>2

(* How OneToTell outlives them.                                            *)
LEMMA TellSame ==
  ASSUME OneToTell, NEW a \in Addresses, host'[a] = host[a], location'[a] = location[a],
         \A c \in Nodes, k \in Tellers : /\ Tells(c, k, a)' <=> Tells(c, k, a)
                                         /\ Tells(c, k, a) => NewHome(c, k)' = NewHome(c, k)
  PROVE  IF host'[a] = NoHeap THEN NobodyTells(a)'
         ELSE /\ location'[a] # NoNode
              /\ IF location'[a] = host'[a].node THEN NobodyTells(a)' ELSE OneTells(a)'
<1>1. NobodyTells(a) => NobodyTells(a)'
  BY DEF NobodyTells
<1>2. OneTells(a) => OneTells(a)'
  BY DEF OneTells
<1> QED
  BY <1>1, <1>2 DEF OneToTell

(* The handler of node b has posted what it had to tell.                   *)
Passed(b, o, j) ==
  /\ \A a \in Addresses : /\ Tells(b, 0, a) <=> a = o
                          /\ ~Tells(b, j, a) /\ ~Tells(b, 0, a)'
                          /\ Tells(b, j, a)' <=> a = o
  /\ NewHome(b, j)' = NewHome(b, 0)
  /\ \A c \in Nodes, k \in Tellers, a \in Addresses :
       c # b \/ k \notin {0, j} => /\ Tells(c, k, a)' <=> Tells(c, k, a)
                                   /\ Tells(c, k, a) => NewHome(c, k)' = NewHome(c, k)

LEMMA TellPosted ==
  ASSUME OneToTell, UNCHANGED <<host, location>>, NEW b \in Nodes, NEW o \in Addresses,
         NEW j \in Tellers, j # 0, Passed(b, o, j)
  PROVE  OneToTell'
<1>1. 0 \in Tellers
  BY TellsAt
<1> SUFFICES ASSUME NEW a \in Addresses
             PROVE  IF host'[a] = NoHeap THEN NobodyTells(a)'
                    ELSE /\ location'[a] # NoNode
                         /\ IF location'[a] = host'[a].node THEN NobodyTells(a)' ELSE OneTells(a)'
  BY DEF OneToTell
<1>2. CASE a # o
  <2>1. \A c \in Nodes, k \in Tellers : /\ Tells(c, k, a)' <=> Tells(c, k, a)
                                        /\ Tells(c, k, a) => NewHome(c, k)' = NewHome(c, k)
    BY <1>2 DEF Passed
  <2> QED
    BY <2>1, TellSame
<1>3. CASE a = o
  <2>1. Tells(b, 0, a) /\ Tells(b, j, a)'
    BY <1>3 DEF Passed
  <2>2. host[a] # NoHeap /\ location[a] # NoNode /\ location[a] # host[a].node /\ OneTells(a)
    BY <1>1, <2>1 DEF OneToTell, NobodyTells
  <2>3. NewHome(b, 0) = host[a].node /\ \A c \in Nodes, k \in Tellers : Tells(c, k, a) => c = b /\ k = 0
    BY <1>1, <2>1, <2>2 DEF OneTells
  <2>4. \A c \in Nodes, k \in Tellers : Tells(c, k, a)' => c = b /\ k = j
    BY <1>3, <2>3 DEF Passed
  <2>5. NewHome(b, j)' = host'[a].node
    BY <2>3 DEF Passed
  <2>6. OneTells(a)'
    BY <2>1, <2>4, <2>5 DEF OneTells
  <2> QED
    BY <2>2, <2>6
<1> QED
  BY <1>2, <1>3

(* The first message of node b is taken: the others come forward.          *)
TookTell(b) ==
  /\ \A a \in Addresses : location'[a] = IF Tells(b, 1, a) THEN NewHome(b, 1) ELSE location[a]
  /\ \A c \in Nodes, k \in Tellers, a \in Addresses :
       IF c = b /\ k # 0
       THEN /\ Tells(c, k, a)' <=> k < MaxQueue /\ Tells(b, k + 1, a)
            /\ k < MaxQueue /\ Tells(b, k + 1, a) => NewHome(b, k)' = NewHome(b, k + 1)
       ELSE /\ Tells(c, k, a)' <=> Tells(c, k, a)
            /\ NewHome(c, k)' = NewHome(c, k)

LEMMA TellTaken ==
  ASSUME OneToTell, HeapTyped, UNCHANGED host, NEW b \in Nodes, TookTell(b)
  PROVE  OneToTell'
<1>1. MaxQueue \in Nat \ {0} /\ Tellers = 0..MaxQueue /\ 1 \in Tellers
  BY ConstantFacts DEF Tellers
<1> SUFFICES ASSUME NEW a \in Addresses
             PROVE  IF host'[a] = NoHeap THEN NobodyTells(a)'
                    ELSE /\ location'[a] # NoNode
                         /\ IF location'[a] = host'[a].node THEN NobodyTells(a)' ELSE OneTells(a)'
  BY DEF OneToTell
<1>2. ASSUME NEW c \in Nodes, NEW k \in Tellers, Tells(c, k, a)'
      PROVE  \E j \in Tellers : /\ Tells(c, j, a) /\ NewHome(c, k)' = NewHome(c, j)
                                /\ ~(c = b /\ j = 1)
                                /\ j = IF c = b /\ k # 0 THEN k + 1 ELSE k
  <2>1. CASE c = b /\ k # 0
    <3>1. k < MaxQueue /\ Tells(b, k + 1, a) /\ NewHome(b, k)' = NewHome(b, k + 1)
      BY <1>2, <2>1 DEF TookTell
    <3>2. k + 1 \in Tellers /\ k + 1 # 1
      BY <1>1, <2>1, <3>1
    <3> QED
      BY <2>1, <3>1, <3>2
  <2>2. CASE ~(c = b /\ k # 0)
    <3>1. Tells(c, k, a) /\ NewHome(c, k)' = NewHome(c, k)
      BY <1>2, <2>2 DEF TookTell
    <3>2. ~(c = b /\ k = 1)
      BY <2>2
    <3> QED
      BY <2>2, <3>1, <3>2
  <2> QED
    BY <2>1, <2>2
<1>3. ASSUME NEW c \in Nodes, NEW j \in Tellers, Tells(c, j, a), ~(c = b /\ j = 1)
      PROVE  \E k \in Tellers : Tells(c, k, a)' /\ NewHome(c, k)' = NewHome(c, j)
  <2>1. CASE c = b /\ j # 0
    <3>1. PICK k \in Tellers : k # 0 /\ k < MaxQueue /\ j = k + 1
      <4>1. j - 1 \in Tellers /\ j - 1 # 0 /\ j - 1 < MaxQueue /\ j = (j - 1) + 1
        BY <1>1, <1>3, <2>1
      <4> QED
        BY <4>1
    <3>2. Tells(b, k, a)' /\ NewHome(b, k)' = NewHome(b, k + 1)
      BY <1>3, <2>1, <3>1 DEF TookTell
    <3> QED
      BY <2>1, <3>1, <3>2
  <2>2. CASE ~(c = b /\ j # 0)
    BY <1>3, <2>2 DEF TookTell
  <2> QED
    BY <2>1, <2>2
<1>4. NobodyTells(a) => NobodyTells(a)' /\ location'[a] = location[a]
  <2>1. NobodyTells(a) => NobodyTells(a)'
    BY <1>2 DEF NobodyTells
  <2>2. NobodyTells(a) => ~Tells(b, 1, a)
    BY <1>1 DEF NobodyTells
  <2> QED
    BY <2>1, <2>2 DEF TookTell
<1>5. CASE NobodyTells(a)
  BY <1>4, <1>5 DEF OneToTell, OneTells, NobodyTells
<1>6. CASE ~NobodyTells(a)
  <2>1. host[a] # NoHeap /\ location[a] # NoNode /\ location[a] # host[a].node /\ OneTells(a)
    BY <1>6 DEF OneToTell
  <2>2. PICK c \in Nodes, j \in Tellers :
          /\ Tells(c, j, a) /\ NewHome(c, j) = host[a].node
          /\ \A d \in Nodes, i \in Tellers : Tells(d, i, a) => d = c /\ i = j
    BY <2>1 DEF OneTells
  <2>3. CASE c = b /\ j = 1
    <3>1. NobodyTells(a)'
      BY <1>2, <2>2, <2>3 DEF NobodyTells
    <3>2. location'[a] = host[a].node
      BY <2>2, <2>3 DEF TookTell
    <3>3. host[a].node # NoNode
      BY <2>1, InUseFacts
    <3> QED
      BY <2>1, <3>1, <3>2, <3>3
  <2>4. CASE ~(c = b /\ j = 1)
    <3>1. location'[a] = location[a]
      <4>1. ~Tells(b, 1, a)
        BY <1>1, <2>2, <2>4
      <4> QED
        BY <4>1 DEF TookTell
    <3>2. PICK k \in Tellers : Tells(c, k, a)' /\ NewHome(c, k)' = host'[a].node
      BY <1>3, <2>2, <2>4
    <3>3. \A d \in Nodes, i \in Tellers : Tells(d, i, a)' => d = c /\ i = k
      <4> SUFFICES ASSUME NEW d \in Nodes, NEW i \in Tellers, Tells(d, i, a)' PROVE d = c /\ i = k
        OBVIOUS
      <4>1. d = c /\ j = IF d = b /\ i # 0 THEN i + 1 ELSE i
        BY <1>2, <2>2
      <4>2. j = IF c = b /\ k # 0 THEN k + 1 ELSE k
        BY <1>2, <2>2, <3>2
      <4> QED
        BY <1>1, <4>1, <4>2
    <3>4. OneTells(a)'
      BY <3>2, <3>3 DEF OneTells
    <3> QED
      BY <2>1, <3>1, <3>4
  <2> QED
    BY <2>3, <2>4
<1> QED
  BY <1>5, <1>6

LEMMA InitTell ==
  ASSUME Init
  PROVE  TellInv
<1>1. \A c \in Nodes : Len(toCtl[c]) = 0 /\ proc[c].moved = NoProclet
  BY DEF Init, Down
<1>2. ASSUME NEW c \in Nodes, NEW k \in Tellers, NEW a \in Addresses
      PROVE  ~Tells(c, k, a)
  <2>1. k = 0 => proc[c].moved # a
    BY <1>1, ConstantFacts
  <2>2. k \notin 1..Len(toCtl[c])
    BY <1>1, TellerFacts
  <2> QED
    BY <2>1, <2>2 DEF Tells
<1>3. \A a \in Addresses : host[a] = NoHeap
  BY DEF Init
<1> QED
  BY <1>1, <1>2, <1>3 DEF TellInv, ToldBeforeReleased, OneToTell, NobodyTells

LEMMA LPStepTell ==
  ASSUME ClientInv, TellInv, LPStep
  PROVE  TellInv'
<1>1. LPInv /\ HandlersTyped /\ MessagesTyped /\ ToldBeforeReleased /\ OneToTell
  BY DEF ClientInv, TellInv
<1>2. /\ UNCHANGED <<toCtl, host, location>>
      /\ \A c \in Nodes : \/ /\ proc'[c].dest = proc[c].dest /\ proc'[c].moved = proc[c].moved
                          \/ /\ proc[c].dest = NoNode /\ proc'[c].dest = NoNode
                             /\ proc[c].moved = NoProclet /\ proc'[c].moved = NoProclet
  BY <1>1, LPStepHandlers DEF segVars
<1>3. ASSUME NEW c \in Nodes, NEW k \in Tellers, NEW a \in Addresses
      PROVE  /\ Tells(c, k, a)' <=> Tells(c, k, a)
             /\ Tells(c, k, a) => NewHome(c, k)' = NewHome(c, k)
  BY <1>2, TellerFacts DEF Tells, NewHome
<1>4. ToldBeforeReleased'
  BY <1>1, <1>2, ToldSame
<1>5. OneToTell'
  BY <1>1, <1>2, <1>3, TellSame DEF OneToTell
<1> QED
  BY <1>4, <1>5 DEF TellInv

(* A segment that is given out has no teller left, and a proclet dies only *)
(* when there is none.                                                     *)
LEMMA ProcletStepTell ==
  ASSUME QuietDestroy, ClientInv, TellInv, ProcletStep
  PROVE  TellInv'
<1>1. LPInv /\ HeapInv /\ HeapTyped /\ MessagesTyped /\ ToldBeforeReleased /\ OneToTell
  BY DEF ClientInv, TellInv, HeapInv
<1>2. UNCHANGED <<toCtl, proc>>
  BY ProcletStepLeaves
<1>3. ToldBeforeReleased'
  BY <1>1, <1>2, ToldSame
<1>4. ASSUME NEW c \in Nodes, NEW k \in Tellers, NEW a \in Addresses
      PROVE  (Tells(c, k, a)' <=> Tells(c, k, a)) /\ NewHome(c, k)' = NewHome(c, k)
  BY <1>2, TellerFacts DEF Tells, NewHome
<1>5. \A a \in Addresses : NobodyTells(a)' <=> NobodyTells(a)
  BY <1>4 DEF NobodyTells
<1> DEFINE Told(a) == IF host'[a] = NoHeap THEN NobodyTells(a)'
                      ELSE /\ location'[a] # NoNode
                           /\ IF location'[a] = host'[a].node THEN NobodyTells(a)' ELSE OneTells(a)'
<1>6. ASSUME NEW a \in Addresses, host'[a] = host[a], location'[a] = location[a]
      PROVE  Told(a)
  BY <1>1, <1>4, <1>6, TellSame
<1>7. ASSUME NEW n \in Nodes, NEW size \in Sizes, NEW hint \in Nodes \cup {NoNode}, AllocateProclet(n, size, hint)
      PROVE  \A a \in Addresses : Told(a)
  <2>1. CASE UNCHANGED <<location, host>>
    BY <1>6, <2>1
  <2>2. ASSUME NEW o \in Addresses, NEW node \in Nodes, host[o] = NoHeap,
               location' = [location EXCEPT ![o] = node],
               host' = [host EXCEPT ![o] = [node |-> node, size |-> size]]
        PROVE  \A a \in Addresses : Told(a)
    <3>1. /\ location'[o] = node /\ host'[o].node = node /\ node # NoNode
          /\ \A a \in Addresses \ {o} : host'[a] = host[a] /\ location'[a] = location[a]
      BY <1>1, <2>2, ConstantFacts DEF HeapTyped
    <3>2. NobodyTells(o)
      BY <1>1, <2>2 DEF OneToTell
    <3>3. Told(o)
      BY <1>5, <3>1, <3>2
    <3> HIDE DEF Told
    <3> QED
      BY <1>6, <3>1, <3>3
  <2> HIDE DEF Told
  <2> QED
    BY <1>1, <1>7, <2>1, <2>2, AllocateHeap
<1>8. ASSUME NEW o \in Addresses, DropProclet(o)
      PROVE  \A a \in Addresses : Told(a)
  <2>1. /\ location[o] = host[o].node /\ host[o].node # NoNode
        /\ host' = [host EXCEPT ![o] = NoHeap] /\ UNCHANGED location
    BY <1>8 DEF DropProclet
  <2>2. NobodyTells(o)
    BY <1>1, <2>1 DEF OneToTell
  <2>3. host'[o] = NoHeap /\ \A a \in Addresses \ {o} : host'[a] = host[a]
    BY <1>1, <2>1 DEF HeapTyped
  <2>4. Told(o)
    BY <1>5, <2>2, <2>3
  <2> HIDE DEF Told
  <2> QED
    BY <1>6, <2>1, <2>3, <2>4
<1>9. ASSUME NEW m \in destroys, DestroyProclet(m)
      PROVE  \A a \in Addresses : Told(a)
  <2>1. PICK o \in Addresses : o = m.start /\ host[o] = NoHeap
    BY <1>1, <1>9, DestroyHeap
  <2>2. UNCHANGED host /\ (UNCHANGED location \/ location' = [location EXCEPT ![o] = NoNode])
    BY <1>9, <2>1 DEF DestroyProclet
  <2>3. \A a \in Addresses \ {o} : host'[a] = host[a] /\ location'[a] = location[a]
    BY <1>1, <2>2 DEF HeapTyped
  <2>4. NobodyTells(o)
    BY <1>1, <2>1 DEF OneToTell
  <2>5. Told(o)
    BY <1>5, <2>1, <2>2, <2>4
  <2> HIDE DEF Told
  <2> QED
    BY <1>6, <2>3, <2>5
<1>10. OneToTell'
  <2>1. \A a \in Addresses : Told(a)
    <3> HIDE DEF Told
    <3> QED
      BY <1>7, <1>8, <1>9 DEF ProcletStep
  <2> QED
    BY <2>1 DEF OneToTell
<1> QED
  BY <1>3, <1>10 DEF TellInv

(* A proclet leaves only a node whose handler has it alone, and so after   *)
(* the controller has heard of its last move.                              *)
LEMMA MigrationTell ==
  ASSUME ClientInv, PairInv, TellInv, NEW b \in Nodes, MigrationStep(b)
  PROVE  TellInv'
<1>1. /\ LPInv /\ ProcTyped /\ HeapInv /\ HeapTyped /\ MessagesTyped /\ HandlersTyped
      /\ ToldBeforeReleased /\ OneToTell /\ InOneLP /\ Len(toCtl[b]) <= MaxQueue
  BY DEF ClientInv, TellInv, HeapInv, LPInv, MessagesTyped
<1>2. ASSUME NEW pc, NEW dest, HandlerAt(b, pc, dest, proc[b].moved), UNCHANGED <<toCtl, host, location>>,
             proc[b].moved = NoProclet, dest = proc[b].dest \/ proc[b].dest = NoNode
      PROVE  TellInv'
  <2>1. ASSUME NEW c \in Nodes, NEW k \in Tellers, NEW a \in Addresses
        PROVE  /\ Tells(c, k, a)' <=> Tells(c, k, a)
               /\ Tells(c, k, a) => NewHome(c, k)' = NewHome(c, k)
    BY <1>2, TellerFacts, ConstantFacts DEF HandlerAt, Tells, NewHome
  <2>2. ToldBeforeReleased'
    BY <1>1, <1>2, ToldSame DEF HandlerAt
  <2>3. OneToTell'
    BY <1>1, <1>2, <2>1, TellSame DEF OneToTell
  <2> QED
    BY <2>2, <2>3 DEF TellInv
<1>3. CASE AcquireNode(b)
  BY <1>1, <1>2, <1>3, AcquireNodeFacts, HandlerFacts DEF AcquireNode, segVars
<1>4. CASE AcquireMigrationDest(b)
  <2>1. proc[b].pc = "self" /\ proc[b].moved = NoProclet /\ proc[b].dest = NoNode /\ UNCHANGED <<toCtl, host, location>>
    BY <1>1, <1>4, HandlerFacts DEF AcquireMigrationDest, segVars
  <2>2. UNCHANGED proc \/ \E d : proc' = [proc EXCEPT ![b].pc = "paired", ![b].dest = d]
    BY <1>4 DEF AcquireMigrationDest
  <2>3. UNCHANGED proc => HandlerAt(b, proc[b].pc, proc[b].dest, proc[b].moved)
    BY DEF HandlerAt
  <2> QED
    BY <1>1, <1>2, <2>1, <2>2, <2>3, PairFacts
<1>5. ASSUME NEW o \in Addresses, Migrate(b, o) PROVE TellInv'
  <2>1. /\ proc[b].pc = "paired" /\ proc[b].moved = NoProclet /\ proc[b].dest \in Nodes /\ proc[b].lp \in LPs
        /\ host[o].node = b /\ host' = [host EXCEPT ![o].node = proc[b].dest]
        /\ UNCHANGED <<toCtl, location>>
    BY <1>1, <1>5, HandlerFacts DEF Migrate
  <2>2. HandlerAt(b, "moved", proc[b].dest, o)
    BY <1>1, <1>5, MigrateFacts
  <2>3. PICK l \in LPs, d \in Nodes : l = proc[b].lp /\ d = proc[b].dest
    BY <2>1
  <2>4. Holds(b, 0, l, b) /\ Holds(b, MaxQueue + 1, l, d) /\ 0 \in Places /\ MaxQueue + 1 \in Places
    BY <2>1, <2>3, HoldsAt
  <2>5. d # b
    <3>1. MaxQueue + 1 # 0
      BY ConstantFacts
    <3> QED
      BY <1>1, <2>4, <3>1, ClaimsAreOne
  <2>6. host[o] # NoHeap
    BY <1>1, <2>1, InUseFacts, ConstantFacts
  <2>7. NobodyTells(o) /\ location[o] = b
    <3>1. ASSUME NEW c \in Nodes, NEW k \in Tellers, Tells(c, k, o), NewHome(c, k) = host[o].node
          PROVE  FALSE
      <4>1. PICK i \in Places, m \in LPs : i # 0 /\ Holds(c, i, m, b)
        BY <1>1, <2>1, <3>1, TargetIsHeld
      <4> QED
        BY <1>1, <2>4, <4>1, ClaimsAreOne
    <3>2. ~OneTells(o)
      BY <3>1 DEF OneTells
    <3> QED
      BY <1>1, <2>1, <2>6, <3>2 DEF OneToTell
  <2>8. ASSUME NEW c \in Nodes, NEW k \in Tellers, NEW a \in Addresses
        PROVE  /\ Tells(c, k, a)' <=> Tells(c, k, a) \/ (c = b /\ k = 0 /\ a = o)
               /\ Tells(c, k, a) => NewHome(c, k)' = NewHome(c, k)
    <3>1. CASE c # b
      BY <2>1, <2>2, <3>1, TellerFacts DEF HandlerAt, Tells, NewHome
    <3>2. CASE c = b
      BY <2>1, <2>2, <3>2, TellerFacts, ConstantFacts DEF HandlerAt, Tells, NewHome
    <3> QED
      BY <3>1, <3>2
  <2>9. NewHome(b, 0)' = d /\ 0 \in Tellers
    BY <2>2, <2>3, TellsAt DEF HandlerAt
  <2>10. /\ host'[o].node = d /\ \A a \in Addresses \ {o} : host'[a] = host[a]
         /\ host'[o] # NoHeap
    <3>1. PICK h : h = [host[o] EXCEPT !.node = d]
      OBVIOUS
    <3>2. host[o] \in [node : Nodes, size : Sizes]
      BY <1>1, <2>6 DEF HeapTyped
    <3>3. h.node = d /\ d # NoHeap.node
      BY <3>1, <3>2, ConstantFacts DEF NoHeap
    <3>4. host' = [host EXCEPT ![o] = h]
      BY <2>1, <2>3, <3>1
    <3> QED
      BY <1>1, <3>3, <3>4 DEF HeapTyped
  <2>11. OneTells(o)'
    <3>1. \A c \in Nodes, k \in Tellers : Tells(c, k, o)' => c = b /\ k = 0
      BY <2>7, <2>8 DEF NobodyTells
    <3>2. Tells(b, 0, o)' /\ NewHome(b, 0)' = host'[o].node
      BY <2>8, <2>9, <2>10
    <3> QED
      BY <2>9, <3>1, <3>2 DEF OneTells
  <2>12. OneToTell'
    <3> SUFFICES ASSUME NEW a \in Addresses
                 PROVE  IF host'[a] = NoHeap THEN NobodyTells(a)'
                        ELSE /\ location'[a] # NoNode
                             /\ IF location'[a] = host'[a].node THEN NobodyTells(a)' ELSE OneTells(a)'
      BY DEF OneToTell
    <3>1. CASE a = o
      BY <2>1, <2>5, <2>7, <2>10, <2>11, <3>1, ConstantFacts
    <3>2. CASE a # o
      <4>1. \A c \in Nodes, k \in Tellers : /\ Tells(c, k, a)' <=> Tells(c, k, a)
                                            /\ Tells(c, k, a) => NewHome(c, k)' = NewHome(c, k)
        BY <2>8, <3>2
      <4>2. host'[a] = host[a] /\ location'[a] = location[a]
        BY <2>1, <2>10, <3>2
      <4> QED
        BY <1>1, <4>1, <4>2, TellSame
    <3> QED
      BY <3>1, <3>2
  <2>13. ToldBeforeReleased'
    BY <1>1, <2>1, <2>2, ToldSame DEF HandlerAt
  <2> QED
    BY <2>12, <2>13 DEF TellInv
<1>6. CASE SendLocation(b)
  <2>1. PICK o \in Addresses, d \in Nodes : o = proc[b].moved /\ d = proc[b].dest /\ proc[b].pc = "moved"
    BY <1>1, <1>6, HandlerFacts DEF SendLocation
  <2>2. PICK m : m = [kind |-> "location", id |-> o, node |-> d] /\ m \in Messages
                 /\ m.kind = "location" /\ m.id = o /\ m.node = d
    <3>1. PICK m : m = [kind |-> "location", id |-> o, node |-> d]
      OBVIOUS
    <3> QED
      BY <3>1, MessageFacts
  <2>3. HandlerAt(b, "paired", d, NoProclet) /\ UNCHANGED <<host, location>> /\ Posted(b, m)
    BY <1>1, <1>6, <2>1, <2>2, SendFacts, PostFacts DEF SendLocation, segVars
  <2>4. PICK j \in 1..MaxQueue : j = Len(toCtl[b]) + 1 /\ j \notin 1..Len(toCtl[b]) /\ j \in 1..Len(toCtl'[b])
                                 /\ toCtl'[b][j] = m
    BY <2>3, ConstantFacts DEF Posted
  <2>5. Passed(b, o, j)
    <3>1. ASSUME NEW a \in Addresses
          PROVE  /\ Tells(b, 0, a) <=> a = o
                 /\ ~Tells(b, j, a) /\ ~Tells(b, 0, a)'
                 /\ Tells(b, j, a)' <=> a = o
      BY <2>1, <2>2, <2>3, <2>4, TellerFacts, ConstantFacts DEF HandlerAt, Tells, NewHome
    <3>2. NewHome(b, j)' = NewHome(b, 0)
      BY <2>1, <2>2, <2>4, TellsAt
    <3>3. ASSUME NEW c \in Nodes, NEW k \in Tellers, NEW a \in Addresses, c # b \/ k \notin {0, j}
          PROVE  /\ Tells(c, k, a)' <=> Tells(c, k, a)
                 /\ Tells(c, k, a) => NewHome(c, k)' = NewHome(c, k)
      <4>1. CASE c # b
        <5>1. toCtl'[c] = toCtl[c] /\ proc'[c] = proc[c]
          BY <2>3, <4>1 DEF HandlerAt, Posted
        <5> QED
          BY <5>1 DEF Tells, NewHome
      <4>2. CASE c = b
        <5>1. k \in 1..MaxQueue /\ k # j
          BY <3>3, <4>2, TellsAt
        <5>2. k \in 1..Len(toCtl'[b]) <=> k \in 1..Len(toCtl[b])
          BY <2>3, <2>4, <5>1 DEF Posted
        <5>3. k \in 1..Len(toCtl[b]) => toCtl'[b][k] = toCtl[b][k]
          BY <2>3 DEF Posted
        <5> QED
          BY <4>2, <5>1, <5>2, <5>3, TellerFacts DEF Tells, NewHome
      <4> QED
        BY <4>1, <4>2
    <3> QED
      BY <3>1, <3>2, <3>3 DEF Passed
  <2>6. OneToTell'
    BY <1>1, <2>3, <2>4, <2>5, TellPosted, TellsAt
  <2>7. ToldBeforeReleased'
    BY <1>1, <2>1, <2>2, <2>3, ToldPosted DEF HandlerAt
  <2> QED
    BY <2>6, <2>7 DEF TellInv
<1>7. ASSUME NEW l \in LPs, NEW d \in Nodes, NEW pc, NEW dest, Posted(b, Release(l, d)), HandlerAt(b, pc, dest, proc[b].moved),
             UNCHANGED <<host, location>>, proc[b].moved = NoProclet,
             dest = proc[b].dest \/ d = proc[b].dest
      PROVE  TellInv'
  <2>1. PICK m \in Messages : m = Release(l, d) /\ m.kind = "release" /\ Posted(b, m)
    BY <1>7, MessageFacts
  <2>2. ASSUME NEW c \in Nodes, NEW k \in Tellers, NEW a \in Addresses
        PROVE  /\ Tells(c, k, a)' <=> Tells(c, k, a)
               /\ Tells(c, k, a) => NewHome(c, k)' = NewHome(c, k)
    <3>1. CASE c # b
      <4>1. toCtl'[c] = toCtl[c] /\ proc'[c] = proc[c]
        BY <1>7, <2>1, <3>1 DEF HandlerAt, Posted
      <4> QED
        BY <4>1 DEF Tells, NewHome
    <3>2. CASE c = b /\ k = 0
      BY <1>7, <3>2, TellsAt, ConstantFacts DEF HandlerAt
    <3>3. CASE c = b /\ k \in 1..MaxQueue
      <4>1. k \in 1..Len(toCtl[b]) => toCtl'[b][k] = toCtl[b][k] /\ k \in 1..Len(toCtl'[b])
        BY <2>1 DEF Posted
      <4>2. k \in 1..Len(toCtl'[b]) => k \in 1..Len(toCtl[b]) \/ toCtl'[b][k].kind # "location"
        BY <2>1 DEF Posted
      <4> QED
        BY <3>3, <4>1, <4>2, TellerFacts DEF Tells, NewHome
    <3> QED
      BY <3>1, <3>2, <3>3, TellsAt
  <2>3. OneToTell'
    BY <1>1, <1>7, <2>2, TellSame DEF OneToTell
  <2>4. ToldBeforeReleased'
    BY <1>1, <1>7, <2>1, ToldPosted DEF HandlerAt
  <2> QED
    BY <2>3, <2>4 DEF TellInv
<1>8. CASE ReleaseDest(b)
  <2>1. PICK l \in LPs, d \in Nodes : l = proc[b].lp /\ d = proc[b].dest /\ Post(b, Release(l, d))
    BY <1>1, <1>8, HandlerFacts DEF ReleaseDest
  <2>2. /\ HandlerAt(b, "self", NoNode, proc[b].moved) /\ UNCHANGED <<host, location>>
        /\ proc[b].moved = NoProclet /\ Posted(b, Release(l, d))
    BY <1>1, <1>8, <2>1, ReleaseDestFacts, HandlerFacts, PostFacts, MessageFacts DEF ReleaseDest, segVars
  <2> QED
    BY <1>7, <2>1, <2>2
<1>9. CASE ReleaseSelf(b)
  <2>1. PICK l \in LPs : l = proc[b].lp /\ Post(b, Release(l, b))
    BY <1>1, <1>9, HandlerFacts DEF ReleaseSelf
  <2>2. /\ HandlerAt(b, "calm", proc[b].dest, proc[b].moved) /\ UNCHANGED <<host, location>>
        /\ proc[b].moved = NoProclet /\ Posted(b, Release(l, b))
    BY <1>1, <1>9, <2>1, ReleaseSelfFacts, HandlerFacts, PostFacts, MessageFacts DEF ReleaseSelf, segVars
  <2> QED
    BY <1>7, <2>2
<1>10. CASE ReadMessage(b)
  <2>1. PICK m \in Messages : m = Head(toCtl[b]) /\ m = toCtl[b][1] /\ Taken(b)
    BY <1>1, <1>10, TakeFacts DEF ReadMessage
  <2>2. UNCHANGED <<proc, host>>
    BY <1>10 DEF ReadMessage
  <2>3. /\ MaxQueue \in Nat \ {0} /\ Len(toCtl[b]) \in Nat /\ 1 <= Len(toCtl[b])
        /\ Len(toCtl'[b]) = Len(toCtl[b]) - 1
        /\ \A i \in 1..Len(toCtl'[b]) : toCtl'[b][i] = toCtl[b][i + 1]
    BY <2>1, ConstantFacts DEF Taken
  <2>4. \A a \in Addresses : Tells(b, 1, a) <=> m.kind = "location" /\ m.id = a
    <3>1. 1 \in 1..Len(toCtl[b])
      BY <2>3
    <3> QED
      BY <2>1, <3>1, TellerFacts DEF Tells, NewHome
  <2>5. ASSUME NEW a \in Addresses
        PROVE  location'[a] = IF Tells(b, 1, a) THEN NewHome(b, 1) ELSE location[a]
    <3>1. CASE m.kind = "release"
      BY <1>10, <2>1, <2>4, <3>1 DEF ReadMessage, ReleaseNode
    <3>2. CASE m.kind # "release"
      <4>1. m.kind = "location" /\ m.id \in Addresses /\ NewHome(b, 1) = m.node
        BY <2>1, <3>2, MessageFacts, TellsAt
      <4>2. location[m.id] # NoNode
        <5>1. ~NobodyTells(m.id)
          BY <2>4, <4>1, TellsAt DEF NobodyTells
        <5> QED
          BY <1>1, <4>1, <5>1 DEF OneToTell
      <4>3. location' = [location EXCEPT ![m.id] = m.node]
        BY <1>10, <2>1, <3>2, <4>2 DEF ReadMessage, UpdateLocation
      <4> QED
        BY <1>1, <2>4, <4>1, <4>3 DEF HeapTyped
    <3> QED
      BY <3>1, <3>2
  <2>6. ASSUME NEW c \in Nodes, NEW k \in Tellers, NEW a \in Addresses
        PROVE  IF c = b /\ k # 0
               THEN /\ Tells(c, k, a)' <=> k < MaxQueue /\ Tells(b, k + 1, a)
                    /\ k < MaxQueue /\ Tells(b, k + 1, a) => NewHome(b, k)' = NewHome(b, k + 1)
               ELSE /\ Tells(c, k, a)' <=> Tells(c, k, a)
                    /\ NewHome(c, k)' = NewHome(c, k)
    <3>1. CASE c # b
      <4>1. toCtl'[c] = toCtl[c] /\ proc'[c] = proc[c]
        BY <2>1, <2>2, <3>1 DEF Taken
      <4> QED
        BY <3>1, <4>1 DEF Tells, NewHome
    <3>2. CASE c = b /\ k = 0
      BY <2>2, <3>2, TellsAt
    <3>3. CASE c = b /\ k \in 1..MaxQueue
      <4>1. k \in 1..Len(toCtl'[b]) <=> k < MaxQueue /\ k + 1 \in 1..Len(toCtl[b])
        BY <1>1, <2>3, <3>3
      <4>2. k < MaxQueue => k + 1 \in 1..MaxQueue
        BY <2>3, <3>3
      <4>3. k \in 1..Len(toCtl'[b]) => toCtl'[b][k] = toCtl[b][k + 1]
        BY <2>3
      <4>4. /\ Tells(b, k, a)' <=> k \in 1..Len(toCtl'[b]) /\ toCtl'[b][k].kind = "location" /\ toCtl'[b][k].id = a
            /\ NewHome(b, k)' = toCtl'[b][k].node /\ k # 0
        BY <3>3, TellerFacts DEF Tells, NewHome
      <4>5. k < MaxQueue => /\ Tells(b, k + 1, a) <=> /\ k + 1 \in 1..Len(toCtl[b]) /\ toCtl[b][k + 1].kind = "location"
                                                      /\ toCtl[b][k + 1].id = a
                            /\ NewHome(b, k + 1) = toCtl[b][k + 1].node
        BY <4>2, TellerFacts DEF Tells, NewHome
      <4> QED
        BY <3>3, <4>1, <4>3, <4>4, <4>5
    <3> QED
      BY <3>1, <3>2, <3>3, TellsAt
  <2>7. TookTell(b)
    BY <2>5, <2>6 DEF TookTell
  <2>8. OneToTell'
    BY <1>1, <2>2, <2>7, TellTaken
  <2>9. ToldBeforeReleased'
    BY <1>1, <2>1, <2>2, ToldTaken
  <2> QED
    BY <2>8, <2>9 DEF TellInv
<1> QED
  BY <1>3, <1>4, <1>5, <1>6, <1>8, <1>9, <1>10 DEF MigrationStep

---------------------------------------------------------------------------
(* The processes that run main.                                            *)
LEMMA InitMain ==
  ASSUME Init
  PROVE  MainInv
BY DEF Init, MainInv, Down

LEMMA MainSame ==
  ASSUME MainInv, UNCHANGED <<freeLPs, sweep>>,
         \A n \in Nodes : proc'[n].main => proc[n].main /\ proc'[n].lp = proc[n].lp
  PROVE  MainInv'
BY DEF MainInv, Destroying

LEMMA LPStepMain ==
  ASSUME EnoughClusters, LPInv, MainInv, LPStep
  PROVE  MainInv'
<1>1. ProcTyped /\ SweepTyped /\ LPsTyped
  BY DEF LPInv
<1>2. ASSUME NEW n \in Nodes, NEW want \in LPs \cup {NoLP}, NEW b \in Binaries, NEW main \in BOOLEAN,
             RegisterNode(n, want, b, main)
      PROVE  MainInv'
  <2>1. PICK lp \in LPs : lp = IF want # NoLP THEN want ELSE Least(freeLPs)
    BY <1>2, RegistrationLP DEF RegisterNode
  <2>2. /\ clusters > 0 /\ ~Destroying(lp) /\ UNCHANGED sweep
        /\ main => \A m \in Nodes : ~(proc[m].lp = lp /\ proc[m].main)
    BY <1>2, <2>1 DEF RegisterNode
  <2>3. PICK new : new = [Down EXCEPT !.lp = lp, !.binary = b, !.main = main]
    OBVIOUS
  <2>4. freeLPs' = freeLPs \ {lp} /\ proc' = [proc EXCEPT ![n] = new]
    BY <1>2, <2>1, <2>2, <2>3 DEF RegisterNode
  <2>5. new.lp = lp /\ new.main = main
    BY <2>3 DEF Down
  <2>6. proc'[n] = new /\ \A m \in Nodes \ {n} : proc'[m] = proc[m]
    BY <1>1, <2>4 DEF ProcTyped
  <2> QED
    BY <2>2, <2>4, <2>5, <2>6 DEF MainInv, Destroying
<1>3. ASSUME NEW n \in Nodes, DestroyLP(n) PROVE MainInv'
  <2>1. PICK lp \in LPs : lp = proc[n].lp /\ lp \notin freeLPs /\ proc[n].main
    BY <1>3 DEF DestroyLP, MainInv
  <2>2. /\ ~proc'[n].main /\ \A m \in Nodes \ {n} : proc'[m] = proc[m]
        /\ UNCHANGED freeLPs
    BY <1>1, <1>3 DEF DestroyLP, ProcTyped
  <2>3. \A l \in LPs \ {lp} : sweep'[l] = sweep[l]
    BY <1>1, <1>3, <2>1 DEF DestroyLP, SweepTyped
  <2>4. \A m \in Nodes \ {n} : proc[m].main => proc[m].lp # lp
    BY <2>1 DEF MainInv
  <2> QED
    BY <2>2, <2>3, <2>4 DEF MainInv, Destroying
<1>4. ASSUME NEW n \in Nodes, proc' = [proc EXCEPT ![n] = Down], UNCHANGED freeLPs,
             \A l \in LPs : sweep'[l].by = sweep[l].by
      PROVE  MainInv'
  <2>1. ~proc'[n].main /\ \A m \in Nodes \ {n} : proc'[m] = proc[m]
    BY <1>1, <1>4 DEF ProcTyped, Down
  <2> QED
    BY <1>4, <2>1 DEF MainInv, Destroying
<1>5. ASSUME NEW n \in Nodes, MainExits(n) PROVE MainInv'
  BY <1>4, <1>5 DEF MainExits, lpVars
<1>6. ASSUME NEW lp \in LPs, NEW n \in Nodes, Shutdown(lp, n) PROVE MainInv'
  <2>1. \A l \in LPs : sweep'[l].by = sweep[l].by
    BY <1>1, <1>6 DEF Shutdown, SweepTyped
  <2> QED
    BY <1>4, <1>6, <2>1 DEF Shutdown
<1>7. ASSUME NEW lp \in LPs, SweepNode(lp) PROVE MainInv'
  <2>1. UNCHANGED <<proc, freeLPs>> /\ \A l \in LPs : sweep'[l].by = sweep[l].by
    BY <1>1, <1>7 DEF SweepNode, SweepTyped
  <2> QED
    BY <2>1 DEF MainInv, Destroying
<1>8. ASSUME NEW lp \in LPs, LPDestroyed(lp) PROVE MainInv'
  <2>1. UNCHANGED proc /\ freeLPs' = freeLPs \cup {lp} /\ Destroying(lp)
    BY <1>8 DEF LPDestroyed
  <2>2. \A l \in LPs \ {lp} : sweep'[l] = sweep[l]
    BY <1>1, <1>8 DEF LPDestroyed, SweepTyped
  <2> QED
    BY <2>1, <2>2 DEF MainInv, Destroying
<1> QED
  BY <1>2, <1>3, <1>5, <1>6, <1>7, <1>8 DEF LPStep

LEMMA OtherMain ==
  ASSUME LPInv, MainInv, ProcletStep \/ \E n \in Nodes : MigrationStep(n)
  PROVE  MainInv'
<1>1. ProcTyped
  BY DEF LPInv
<1>2. CASE ProcletStep
  <2>1. UNCHANGED <<freeLPs, sweep, proc>>
    BY <1>2, ProcletStepLeaves
  <2> QED
    BY <2>1, MainSame
<1>3. ASSUME NEW n \in Nodes, MigrationStep(n) PROVE MainInv'
  <2>1. UNCHANGED <<freeLPs, sweep>>
    BY <1>3 DEF MigrationStep, AcquireNode, AcquireMigrationDest, Migrate, SendLocation,
       ReleaseDest, ReleaseSelf, ReadMessage, lpVars
  <2>2. UNCHANGED proc \/ \E pc, dest, moved : HandlerAt(n, pc, dest, moved)
    <3>1. AcquireMigrationDest(n) => UNCHANGED proc \/ \E d : proc' = [proc EXCEPT ![n].pc = "paired", ![n].dest = d]
      BY DEF AcquireMigrationDest
    <3>2. ReadMessage(n) => UNCHANGED proc
      BY DEF ReadMessage
    <3> QED
      BY <1>1, <1>3, <3>1, <3>2, AcquireNodeFacts, PairFacts, MigrateFacts, SendFacts, ReleaseDestFacts, ReleaseSelfFacts
         DEF MigrationStep
  <2>3. \A m \in Nodes : proc'[m].main => proc[m].main /\ proc'[m].lp = proc[m].lp
    BY <2>2 DEF HandlerAt
  <2> QED
    BY <2>1, <2>3, MainSame
<1> QED
  BY <1>2, <1>3

---------------------------------------------------------------------------
(* The theorems.                                                           *)
LEMMA PairStep ==
  ASSUME QuietExit, ClientInv, PairInv, [Next]_vars
  PROVE  PairInv'
<1>1. CASE UNCHANGED <<members, acquired, sweep, proc, toCtl>>
  <2>1. AcquiredInside' /\ PassedStaysIdle'
    BY <1>1 DEF PairInv, AcquiredInside, PassedStaysIdle, Destroying
  <2>2. OneClaim'
    BY <1>1, HoldsElsewhere, ClaimsSame DEF PairInv
  <2> QED
    BY <2>1, <2>2 DEF PairInv
<1>2. CASE UNCHANGED vars
  BY <1>1, <1>2 DEF vars, lpVars
<1>3. CASE ProcletStep
  <2>1. UNCHANGED <<members, acquired, sweep, proc, toCtl>>
    BY <1>3, ProcletStepLeaves
  <2> QED
    BY <1>1, <2>1
<1> QED
  BY <1>2, <1>3, LPStepPair, MigrationPair DEF Next

(* Provided that no node acquires itself in an LP that is being destroyed. *)
THEOREM PairInvariant ==
  ASSUME QuietExit
  PROVE  Spec => [](ClientInv /\ PairInv)
<1>1. Init => ClientInv /\ PairInv
  BY InitClient, InitPair
<1>2. ClientInv /\ PairInv /\ [Next]_vars => (ClientInv /\ PairInv)'
  BY ClientStep, PairStep
<1> QED
  BY <1>1, <1>2, PTL DEF Spec

(* A claim of the model's Claims is a place that holds.                    *)
LEMMA ClaimsAre ==
  ASSUME MessagesTyped, NEW lp \in LPs, NEW n \in Nodes
  PROVE  Claims(lp, n) = {c \in Nodes \X Places : Holds(c[1], c[2], lp, n)}
<1>0. \A c \in Nodes : DOMAIN toCtl[c] = 1..Len(toCtl[c])
  BY LenProperties DEF MessagesTyped
<1>1. MaxQueue \in Nat /\ MaxQueue + 1 # 0 /\ Places = 0..(MaxQueue + 1)
  BY ConstantFacts DEF Places
<1> SUFFICES ASSUME NEW c \in Nodes \X Places
             PROVE  c \in Claims(lp, n) <=> Holds(c[1], c[2], lp, n)
  BY <1>1 DEF Claims
<1> QED
  BY <1>0, <1>1 DEF Claims, Holds

(* Provided that no node acquires itself in an LP that is being destroyed, *)
(* each acquired flag of the controller has exactly one NodeGuard, or the  *)
(* release it has left behind, whatever the order in which acquire_node,   *)
(* acquire_migration_dest, release_node and destroy_lp come.               *)
THEOREM AcquiredHasOneOwner ==
  ASSUME QuietExit
  PROVE  Spec => []AcquiredOnce
<1>1. ClientInv /\ PairInv => AcquiredOnce
  <2> SUFFICES ASSUME ClientInv, PairInv, NEW lp \in LPs, NEW n \in Nodes
               PROVE  Cardinality(Claims(lp, n)) = IF n \in acquired[lp] THEN 1 ELSE 0
    BY DEF AcquiredOnce
  <2>1. Claims(lp, n) = {c \in Nodes \X Places : Holds(c[1], c[2], lp, n)}
    BY ClaimsAre DEF ClientInv
  <2>2. CASE n \in acquired[lp]
    <3>1. PICK c \in Nodes, k \in Places : Holds(c, k, lp, n)
      BY <2>2 DEF PairInv, OneClaim
    <3>2. \A d \in Nodes, j \in Places : Holds(d, j, lp, n) => d = c /\ j = k
      BY <3>1 DEF PairInv, OneClaim
    <3>3. Claims(lp, n) = {<<c, k>>}
      BY <2>1, <3>1, <3>2
    <3> QED
      BY <2>2, <3>3, FS_Singleton
  <2>3. CASE n \notin acquired[lp]
    <3>1. Claims(lp, n) = {}
      BY <2>1, <2>3 DEF PairInv, OneClaim
    <3> QED
      BY <2>3, <3>1, FS_EmptySet
  <2> QED
    BY <2>2, <2>3
<1> QED
  BY <1>1, PairInvariant, PTL

(* A node that destroy_lp has told to shut down is not acquired again,     *)
(* under the same condition: acquire_node alone does not look at the flag. *)
THEOREM PassedNodesStayIdle ==
  ASSUME QuietExit
  PROVE  Spec => []PassedStaysIdle
<1>1. ClientInv /\ PairInv => PassedStaysIdle
  BY DEF PairInv
<1> QED
  BY <1>1, PairInvariant, PTL

LEMMA TellStep ==
  ASSUME QuietDestroy, ClientInv, PairInv, TellInv, [Next]_vars
  PROVE  TellInv'
<1>1. CASE UNCHANGED vars
  <2>1. /\ UNCHANGED <<toCtl, proc, host, location>>
        /\ MessagesTyped /\ ToldBeforeReleased /\ OneToTell
    BY <1>1 DEF vars, segVars, ClientInv, TellInv
  <2>2. ToldBeforeReleased'
    BY <2>1, ToldSame
  <2>3. \A c \in Nodes, k \in Tellers, a \in Addresses :
          (Tells(c, k, a)' <=> Tells(c, k, a)) /\ NewHome(c, k)' = NewHome(c, k)
    BY <2>1 DEF Tells, NewHome
  <2>4. OneToTell'
    BY <2>1, <2>3, TellSame DEF OneToTell
  <2> QED
    BY <2>2, <2>4 DEF TellInv
<1> QED
  BY <1>1, LPStepTell, ProcletStepTell, MigrationTell DEF Next

(* Provided also that a proclet dies only when the controller has heard of *)
(* its last migration.                                                     *)
THEOREM TellInvariant ==
  ASSUME QuietExit, QuietDestroy
  PROVE  Spec => [](ClientInv /\ PairInv /\ TellInv)
<1>1. Init => ClientInv /\ PairInv /\ TellInv
  BY InitClient, InitPair, InitTell
<1>2. ClientInv /\ PairInv /\ TellInv /\ [Next]_vars => (ClientInv /\ PairInv /\ TellInv)'
  BY ClientStep, PairStep, TellStep
<1> QED
  BY <1>1, <1>2, PTL DEF Spec

(* Under the two conditions the controller knows where every proclet is, or*)
(* just one handler or message is about to tell it, and rightly: the two   *)
(* moves of a proclet are told in their order though they come on two      *)
(* connections, as the release of its new node is behind the first.        *)
THEOREM LocationsAreTold ==
  ASSUME QuietExit, QuietDestroy
  PROVE  Spec => []LocationTold
<1>1. ClientInv /\ PairInv /\ TellInv => LocationTold
  <2> SUFFICES ASSUME ClientInv, TellInv, NEW a \in Addresses, host[a] # NoHeap
               PROVE  /\ Untold(a) \cup Telling(a) = {} => location[a] = host[a].node
                      /\ Untold(a) # {} => Telling(a) = {} /\ \A n \in Untold(a) : proc[n].dest = host[a].node
                      /\ Untold(a) = {} /\ Telling(a) # {} =>
                           /\ Cardinality(Telling(a)) = 1
                           /\ \A c \in Telling(a) : toCtl[c[1]][c[2]].node = host[a].node
    BY DEF LocationTold
  <2>1. \A c \in Nodes : DOMAIN toCtl[c] = 1..Len(toCtl[c])
    BY LenProperties DEF ClientInv, MessagesTyped
  <2>2. /\ \A n : n \in Untold(a) <=> n \in Nodes /\ Tells(n, 0, a)
        /\ \A c : c \in Telling(a) <=> c \in Nodes \X (1..MaxQueue) /\ Tells(c[1], c[2], a)
    BY <2>1, TellerFacts DEF Untold, Telling, Tells
  <2>3. CASE NobodyTells(a)
    <3>1. Untold(a) = {} /\ Telling(a) = {}
      BY <2>2, <2>3, TellerFacts DEF NobodyTells
    <3>2. location[a] = host[a].node
      BY <2>3 DEF TellInv, OneToTell, OneTells, NobodyTells
    <3> QED
      BY <3>1, <3>2
  <2>4. CASE ~NobodyTells(a)
    <3>1. OneTells(a)
      BY <2>4 DEF TellInv, OneToTell
    <3>2. PICK c \in Nodes, k \in Tellers :
            /\ Tells(c, k, a) /\ NewHome(c, k) = host[a].node
            /\ \A d \in Nodes, j \in Tellers : Tells(d, j, a) => d = c /\ j = k
      BY <3>1 DEF OneTells
    <3>3. CASE k = 0
      <4>1. Untold(a) = {c} /\ Telling(a) = {}
        BY <2>2, <3>2, <3>3, TellerFacts
      <4>2. proc[c].dest = host[a].node
        BY <3>2, <3>3 DEF NewHome
      <4> QED
        BY <4>1, <4>2
    <3>4. CASE k \in 1..MaxQueue
      <4>1. Untold(a) = {}
        BY <2>2, <3>2, <3>4, TellerFacts
      <4>2. Telling(a) = {<<c, k>>}
        BY <2>2, <3>2, <3>4, TellerFacts
      <4>3. toCtl[c][k].node = host[a].node
        BY <3>2, <3>4, TellerFacts DEF NewHome
      <4> QED
        <5>1. Cardinality(Telling(a)) = 1
          BY <4>2, FS_Singleton
        <5>2. \A d \in Telling(a) : d[1] = c /\ d[2] = k
          BY <4>2
        <5> QED
          BY <4>1, <4>2, <4>3, <5>1, <5>2
    <3> QED
      BY <3>3, <3>4, TellerFacts
  <2> QED
    BY <2>3, <2>4
<1> QED
  BY <1>1, TellInvariant, PTL

(* No BUG_ON of the controller can fire in a state of the invariants.      *)
LEMMA NoBugStep ==
  ASSUME ClientInv, PairInv, TellInv, MainInv, NoBug, [Next]_vars
  PROVE  NoBug'
<1>1. /\ LPInv /\ ProcTyped /\ MessagesTyped /\ HandlersTyped /\ OneToTell /\ bug = "none"
  BY DEF ClientInv, LPInv, TellInv, NoBug
<1>2. CASE UNCHANGED vars
  BY <1>1, <1>2 DEF vars, NoBug
<1>3. ASSUME NEW n \in Nodes, DestroyLP(n) PROVE UNCHANGED bug
  BY <1>3 DEF DestroyLP, MainInv
<1>4. CASE LPStep
  <2>1. ASSUME NEW n \in Nodes, NEW want \in LPs \cup {NoLP}, NEW b \in Binaries, NEW main \in BOOLEAN,
               RegisterNode(n, want, b, main)
        PROVE  UNCHANGED bug
    BY <2>1 DEF RegisterNode
  <2> QED
    BY <1>1, <1>3, <1>4, <2>1 DEF LPStep, MainExits, SweepNode, LPDestroyed, Shutdown, NoBug
<1>5. CASE ProcletStep
  BY <1>1, <1>5, ProcletStepLeaves DEF NoBug
<1>6. ASSUME NEW n \in Nodes, MigrationStep(n) PROVE UNCHANGED bug
  <2>1. CASE AcquireMigrationDest(n)
    <3>1. PICK l \in LPs : l = proc[n].lp /\ proc[n].pc = "self"
      BY <1>1, <2>1, HandlerFacts DEF AcquireMigrationDest
    <3>2. Holds(n, 0, l, n) /\ 0 \in Places
      BY <3>1, HoldsAt
    <3>3. n \in members[l]
      BY <3>2 DEF PairInv, OneClaim, AcquiredInside
    <3> QED
      BY <2>1, <3>1, <3>3 DEF AcquireMigrationDest
  <2>2. CASE ReadMessage(n)
    <3>1. PICK m \in Messages : m = Head(toCtl[n]) /\ m = toCtl[n][1] /\ Taken(n)
      BY <1>1, <2>2, TakeFacts DEF ReadMessage
    <3>2. 1 \in 1..Len(toCtl[n]) /\ 1 \in 1..MaxQueue
      BY <3>1, ConstantFacts DEF Taken
    <3>3. CASE m.kind = "release"
      <4>1. PICK l \in LPs, d \in Nodes : m = Release(l, d) /\ m.lp = l /\ m.node = d
        BY <3>3, MessageFacts
      <4>2. Holds(n, 1, l, d) /\ 1 \in Places
        BY <3>1, <3>2, <4>1, HoldsAt
      <4>3. d \in acquired[l] /\ d \in members[l]
        BY <4>2 DEF PairInv, OneClaim, AcquiredInside
      <4> QED
        BY <2>2, <3>1, <3>3, <4>1, <4>3 DEF ReadMessage, ReleaseNode
    <3>4. CASE m.kind # "release"
      <4>1. m.kind = "location" /\ m.id \in Addresses
        BY <3>4, MessageFacts
      <4>2. Tells(n, 1, m.id)
        BY <3>1, <3>2, <4>1 DEF Tells
      <4>3. location[m.id] # NoNode
        BY <1>1, <4>1, <4>2, TellerFacts DEF OneToTell, NobodyTells
      <4> QED
        BY <2>2, <3>1, <3>4, <4>3 DEF ReadMessage, UpdateLocation
    <3> QED
      BY <3>3, <3>4
  <2> QED
    BY <1>6, <2>1, <2>2 DEF MigrationStep, AcquireNode, Migrate, SendLocation, ReleaseDest, ReleaseSelf
<1> QED
  BY <1>1, <1>2, <1>4, <1>5, <1>6 DEF Next, NoBug

(* Under the three conditions none of the controller's BUG_ONs fires, for  *)
(* any number of nodes, LPs, stack clusters and heap segments.             *)
THEOREM ControllerKeepsRunning ==
  ASSUME EnoughClusters, QuietExit, QuietDestroy
  PROVE  Spec => []NoBug
<1> DEFINE Inv == ClientInv /\ PairInv /\ TellInv /\ MainInv /\ NoBug
<1>1. Init => Inv
  BY InitClient, InitPair, InitTell, InitMain DEF Init, NoBug
<1>2. LPInv /\ MainInv /\ [Next]_vars => MainInv'
  <2>1. UNCHANGED vars /\ MainInv => MainInv'
    BY MainSame DEF vars, lpVars
  <2> QED
    BY <2>1, LPStepMain, OtherMain DEF Next
<1>3. Inv /\ [Next]_vars => Inv'
  BY <1>2, ClientStep, PairStep, TellStep, NoBugStep DEF ClientInv
<1>4. Inv => NoBug
  OBVIOUS
<1> QED
  BY <1>1, <1>3, <1>4, PTL DEF Spec
==============================================================================
