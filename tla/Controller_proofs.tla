-------------------------- MODULE Controller_proofs --------------------------
(***************************************************************************)
(* Proofs about Controller, for every number of LPs, nodes, binaries, stack*)
(* clusters and heap segments, and whatever the assumptions made on the    *)
(* clients: the inductive invariant LPInv, the end of the search for a     *)
(* migration destination, and the one binary of an LP; then the inductive  *)
(* invariant ClientInv, which adds the messages, the pressure handlers and *)
(* the heap, and that no two heap segments overlap.                        *)
(***************************************************************************)
EXTENDS Controller, Integers, SequenceTheorems, WellFoundedInduction, TLAPS

(* Least is the least element of a set of numbers.                         *)
LEMMA LeastIsMinimum ==
  ASSUME NEW S \in SUBSET Nat, S # {}
  PROVE  Least(S) \in S /\ \A m \in S : Least(S) <= m
<1>1. PICK x \in S : \A y \in S : ~(<<y, x>> \in OpToRel(<, Nat))
  BY NatLessThanWellFounded, WFMin, Zenon
<1>2. \A y \in S : x <= y
  <2> SUFFICES ASSUME NEW y \in S PROVE x <= y
    OBVIOUS
  <2>1. ~(y < x)
    BY <1>1 DEF OpToRel
  <2> QED
    BY <2>1
<1> QED
  BY <1>2, Zenon DEF Least

(* The iterator after a member of the map stands at a later key or at the  *)
(* end, and so never at the first key.                                     *)
LEMMA AfterLeavesTheFirst ==
  ASSUME NEW lp \in LPs, members \in [LPs -> SUBSET Nodes], NEW n \in members[lp]
  PROVE  /\ After(lp, n) \in members[lp] \cup {End}
         /\ After(lp, n) # Least(members[lp])
<1> DEFINE later == {m \in members[lp] : m > n}
<1>1. members[lp] \in SUBSET Nat /\ 0 \notin members[lp] /\ members[lp] # {}
  BY ConstantsOK
<1>2. Least(members[lp]) \in members[lp] /\ Least(members[lp]) <= n
  BY <1>1, LeastIsMinimum
<1>3. CASE later = {}
  BY <1>1, <1>2, <1>3 DEF After, End
<1>4. CASE later # {}
  <2>1. Least(later) \in later
    <3>1. later \in SUBSET Nat
      BY <1>1
    <3> QED
      BY <3>1, <1>4, LeastIsMinimum
  <2>2. After(lp, n) = Least(later)
    BY <1>4 DEF After
  <2>3. Least(later) > n /\ Least(later) \in members[lp]
    BY <2>1
  <2> QED
    BY <1>1, <1>2, <2>2, <2>3
<1> QED
  BY <1>3, <1>4

(* No process runs, no LP has a node.                                      *)
LEMMA InitLPInv == Init => LPInv
  BY ConstantsOK DEF Init, LPInv, ProcTyped, SweepTyped, LPsTyped, IterInside,
     FreeIsEmpty, MembersRunMD5, CalmOutside, SearchEnds, OneBinaryPerLP, InLP,
     Down, NoSweep, LPs, NoLP, NoNode, NoMD5, NoProclet, End

(* What LPInv reads.                                                       *)
lpInvVars == <<proc, sweep, freeLPs, md5, members, rrIter, clusters>>

LEMMA StutterLPInv ==
  ASSUME LPInv, UNCHANGED lpInvVars
  PROVE  LPInv'
  BY DEF lpInvVars, LPInv, ProcTyped, SweepTyped, LPsTyped, IterInside,
     FreeIsEmpty, MembersRunMD5, CalmOutside, SearchEnds, OneBinaryPerLP, InLP, Destroying

(* A step that leaves the LPs alone and takes no process to another LP or  *)
(* binary.                                                                 *)
LEMMA SamePlaceLPInv ==
  ASSUME LPInv, UNCHANGED <<sweep, freeLPs, md5, members, rrIter, clusters>>,
         ProcTyped', CalmOutside',
         \A n \in Nodes : proc'[n].lp = proc[n].lp /\ proc'[n].binary = proc[n].binary
  PROVE  LPInv'
<1> USE DEF LPInv
<1>1. SweepTyped' /\ LPsTyped' /\ IterInside' /\ FreeIsEmpty' /\ SearchEnds'
  BY DEF SweepTyped, LPsTyped, IterInside, FreeIsEmpty, SearchEnds
<1>2. MembersRunMD5'
  BY DEF MembersRunMD5, InLP, Destroying
<1>3. OneBinaryPerLP'
  BY DEF OneBinaryPerLP, InLP
<1> QED
  BY <1>1, <1>2, <1>3

(* What the LP of a registration is: a free one, or the one wanted.        *)
LEMMA RegistrationLP ==
  ASSUME LPInv, NEW want \in LPs \cup {NoLP}, want = NoLP => freeLPs # {}
  PROVE  (IF want # NoLP THEN want ELSE Least(freeLPs)) \in LPs
<1>1. freeLPs \in SUBSET Nat /\ freeLPs \subseteq LPs
  BY ConstantsOK DEF LPInv, LPsTyped, LPs
<1> QED
  BY <1>1, LeastIsMinimum

(* A node that joins an LP runs its binary, and can only make the first    *)
(* key smaller: the iterator does not stand at the new node.               *)
LEMMA RegisterLPInv ==
  ASSUME LPInv, NEW n \in Nodes, NEW want \in LPs \cup {NoLP}, NEW b \in Binaries,
         NEW main \in BOOLEAN, RegisterNode(n, want, b, main)
  PROVE  LPInv'
<1> DEFINE lp == IF want # NoLP THEN want ELSE Least(freeLPs)
<1>0. lp \in LPs
  BY RegistrationLP DEF RegisterNode
<1>1. /\ proc[n] = Down
      /\ \A l \in LPs : n \notin members[l]
      /\ ~Destroying(lp)
      /\ lp \in freeLPs \/ md5[lp] = b
      /\ md5' = [md5 EXCEPT ![lp] = b]
      /\ UNCHANGED <<rrIter, sweep>>
  BY DEF RegisterNode, BinaryFits
<1>2. CASE clusters = 0
  <2>1. freeLPs' = freeLPs \cup {lp} /\ UNCHANGED <<members, clusters, proc>>
    BY <1>2 DEF RegisterNode
  <2> HIDE DEF lp
  <2> QED
    BY <1>0, <1>1, <1>2, <2>1 DEF LPInv, ProcTyped, SweepTyped, LPsTyped, IterInside,
       FreeIsEmpty, MembersRunMD5, CalmOutside, SearchEnds, OneBinaryPerLP, InLP
<1>3. CASE clusters # 0
  <2>1. /\ freeLPs' = freeLPs \ {lp}
        /\ clusters' = clusters - 1
        /\ members' = [members EXCEPT ![lp] = @ \cup {n}]
        /\ proc' = [proc EXCEPT ![n] = [Down EXCEPT !.lp = lp, !.binary = b, !.main = main]]
    BY <1>3 DEF RegisterNode
  <2> HIDE DEF lp
  <2>2. clusters > 0 /\ clusters' \in Nat
    BY <1>3, <2>1 DEF LPInv, LPsTyped
  <2>3. /\ proc'[n].lp = lp /\ proc'[n].binary = b
        /\ \A m \in Nodes \ {n} : proc'[m] = proc[m]
    BY <2>1 DEF Down, LPInv, ProcTyped
  <2>4. /\ members'[lp] = members[lp] \cup {n}
        /\ \A l \in LPs \ {lp} : members'[l] = members[l] /\ md5'[l] = md5[l]
        /\ md5'[lp] = b
    BY <1>0, <1>1, <2>1 DEF LPInv, LPsTyped
  <2>5. ProcTyped' /\ CalmOutside' /\ SweepTyped'
    BY <1>0, <1>1, <2>1, ConstantsOK
       DEF LPInv, ProcTyped, SweepTyped, CalmOutside, Down, LPs, NoLP
  <2>6. LPsTyped' /\ IterInside' /\ FreeIsEmpty'
    BY <1>0, <1>1, <2>1, <2>2 DEF LPInv, LPsTyped, IterInside, FreeIsEmpty
  <2>7. SearchEnds'
    <3> SUFFICES ASSUME NEW l \in LPs, members'[l] # {}
                 PROVE  rrIter'[l] # Least(members'[l])
      BY DEF SearchEnds
    <3>1. CASE l # lp
      BY <3>1, <1>1, <2>4 DEF LPInv, SearchEnds
    <3>2. CASE l = lp
      <4>1. /\ members[lp] \in SUBSET Nat /\ members'[lp] \in SUBSET Nat
            /\ 0 \notin members'[lp] /\ rrIter[lp] \in members[lp] \cup {0}
        BY <1>0, <2>4, ConstantsOK DEF LPInv, LPsTyped, IterInside, End
      <4>2. /\ Least(members'[lp]) \in members'[lp]
            /\ \A m \in members'[lp] : Least(members'[lp]) <= m
        BY <4>1, <2>4, LeastIsMinimum
      <4>3. CASE members[lp] = {}
        BY <1>1, <3>2, <4>1, <4>2, <4>3
      <4>4. CASE members[lp] # {}
        <5>1. /\ Least(members[lp]) \in members[lp]
              /\ \A m \in members[lp] : Least(members[lp]) <= m
          BY <4>1, <4>4, LeastIsMinimum
        <5>2. rrIter[lp] # Least(members[lp])
          BY <1>0, <4>4 DEF LPInv, SearchEnds
        <5>3. Least(members'[lp]) <= Least(members[lp])
          BY <2>4, <4>2, <5>1
        <5> QED
          BY <1>1, <3>2, <4>1, <4>2, <5>1, <5>2, <5>3
      <4> QED
        BY <4>3, <4>4
    <3> QED
      BY <3>1, <3>2
  <2>8. /\ \A m \in Nodes \ {n} : InLP(m)' <=> InLP(m)
        /\ lp \in freeLPs => \A m \in Nodes : ~(InLP(m) /\ proc[m].lp = lp)
        /\ \A m \in Nodes \ {n} : InLP(m) /\ proc[m].lp = lp => proc[m].binary = b
    <3>1. \A m \in Nodes \ {n} : InLP(m)' <=> InLP(m)
      <4> SUFFICES ASSUME NEW m \in Nodes, m # n PROVE InLP(m)' <=> InLP(m)
        OBVIOUS
      <4>1. proc[m].lp \in LPs \cup {NoLP}
        BY DEF LPInv, ProcTyped
      <4>2. proc[m].lp \in LPs => (m \in members'[proc[m].lp] <=> m \in members[proc[m].lp])
        BY <2>4
      <4> QED
        BY <2>3, <4>1, <4>2 DEF InLP
    <3>2. lp \in freeLPs => \A m \in Nodes : ~(InLP(m) /\ proc[m].lp = lp)
      BY <2>2 DEF LPInv, FreeIsEmpty, InLP
    <3>3. \A m \in Nodes : InLP(m) /\ proc[m].lp = lp => proc[m].binary = b
      BY <1>1, <2>2, <3>2 DEF LPInv, MembersRunMD5
    <3> QED
      BY <3>1, <3>2, <3>3
  <2>9. MembersRunMD5'
    <3> SUFFICES ASSUME NEW m \in Nodes, InLP(m)', ~Destroying(proc[m].lp)'
                 PROVE  proc'[m].binary = md5'[proc'[m].lp]
      BY DEF MembersRunMD5
    <3>1. CASE m = n
      BY <2>3, <2>4, <3>1
    <3>2. CASE m # n
      <4>1. InLP(m) /\ proc'[m] = proc[m] /\ proc[m].lp \in LPs
        BY <2>3, <2>8, <3>2 DEF LPInv, ProcTyped, InLP
      <4>2. ~Destroying(proc[m].lp)
        BY <1>1, <4>1 DEF Destroying
      <4>3. proc[m].binary = md5[proc[m].lp]
        BY <2>2, <4>1, <4>2 DEF LPInv, MembersRunMD5
      <4> QED
        BY <2>4, <2>8, <3>2, <4>1, <4>3
    <3> QED
      BY <3>1, <3>2
  <2>10. OneBinaryPerLP'
    BY <2>3, <2>8 DEF LPInv, OneBinaryPerLP
  <2> QED
    BY <2>5, <2>6, <2>7, <2>9, <2>10 DEF LPInv
<1> QED
  BY <1>2, <1>3

(* destroy_lp: the LP is marked; the walk only shrinks; nothing but its end*)
(* takes nodes away, all of them, with the iterator.                       *)
LEMMA DestroyLPInv ==
  ASSUME LPInv, NEW n \in Nodes, DestroyLP(n)
  PROVE  LPInv'
<1> DEFINE lp == proc[n].lp
<1>1. /\ proc' = [proc EXCEPT ![n].main = FALSE]
      /\ UNCHANGED <<freeLPs, members, rrIter, clusters>>
  BY DEF DestroyLP
<1>2. /\ \A m \in Nodes : proc'[m].lp = proc[m].lp /\ proc'[m].binary = proc[m].binary
      /\ ProcTyped' /\ CalmOutside'
  BY <1>1 DEF LPInv, ProcTyped, CalmOutside
<1>3. CASE UNCHANGED <<md5, sweep>>
  BY <1>1, <1>2, <1>3, SamePlaceLPInv
<1>4. CASE /\ md5' = [md5 EXCEPT ![lp] = NoMD5]
           /\ sweep' = [sweep EXCEPT ![lp] = [by |-> n, left |-> members[lp], stopping |-> {}]]
  <2>1. LPsTyped' /\ IterInside' /\ FreeIsEmpty' /\ SearchEnds'
    BY <1>1, <1>4 DEF LPInv, LPsTyped, IterInside, FreeIsEmpty, SearchEnds
  <2>2. SweepTyped'
    BY <1>4 DEF LPInv, SweepTyped, LPsTyped
  <2>3. \A l \in LPs : Destroying(l)' \/ (l # lp /\ ~Destroying(l) /\ md5'[l] = md5[l])
    <3>1. n # NoNode
      BY ConstantsOK DEF NoNode
    <3> QED
      BY <1>4, <3>1 DEF LPInv, SweepTyped, LPsTyped, Destroying
  <2>4. \A m \in Nodes : InLP(m)' <=> InLP(m)
    BY <1>1, <1>2 DEF InLP
  <2>5. MembersRunMD5'
    <3> SUFFICES ASSUME NEW m \in Nodes, InLP(m)', clusters > 0, ~Destroying(proc[m].lp)'
                 PROVE  proc'[m].binary = md5'[proc'[m].lp]
      BY <1>1 DEF MembersRunMD5
    <3>1. proc'[m].lp = proc[m].lp /\ proc'[m].binary = proc[m].binary /\ InLP(m)
      BY <1>2, <2>4
    <3>2. proc[m].lp \in LPs
      BY <3>1 DEF LPInv, ProcTyped, InLP
    <3>3. ~(sweep'[proc[m].lp].by # NoNode)
      BY <3>1 DEF Destroying
    <3>4. ~Destroying(proc[m].lp) /\ md5'[proc[m].lp] = md5[proc[m].lp]
      BY <2>3, <3>2, <3>3 DEF Destroying
    <3> QED
      BY <3>1, <3>4 DEF LPInv, MembersRunMD5
  <2>6. OneBinaryPerLP'
    BY <1>2, <2>4 DEF LPInv, OneBinaryPerLP
  <2> QED
    BY <1>2, <2>1, <2>2, <2>5, <2>6 DEF LPInv
<1> QED
  BY <1>3, <1>4 DEF DestroyLP

LEMMA SweepLPInv ==
  ASSUME LPInv, NEW lp \in LPs, SweepNode(lp)
  PROVE  LPInv'
<1> DEFINE n == Least(sweep[lp].left)
<1>1. /\ sweep' = [sweep EXCEPT ![lp].left = @ \ {n},
                                ![lp].stopping = IF n = sweep[lp].by THEN @ ELSE @ \cup {n}]
      /\ sweep[lp].left # {}
      /\ UNCHANGED <<freeLPs, md5, members, rrIter, clusters, proc>>
  BY DEF SweepNode
<1>2. n \in Nodes
  <2>1. sweep[lp].left \subseteq Nodes
    BY DEF LPInv, SweepTyped
  <2>2. n \in sweep[lp].left
    BY <1>1, <2>1, LeastIsMinimum, ConstantsOK
  <2> QED
    BY <2>1, <2>2
<1> HIDE DEF n
<1>3. SweepTyped' /\ \A l \in LPs : sweep'[l].by = sweep[l].by
  BY <1>1, <1>2 DEF LPInv, SweepTyped
<1>4. MembersRunMD5'
  BY <1>1, <1>3 DEF LPInv, ProcTyped, MembersRunMD5, InLP, Destroying
<1>5. ProcTyped' /\ LPsTyped' /\ IterInside' /\ FreeIsEmpty' /\ CalmOutside'
      /\ SearchEnds' /\ OneBinaryPerLP'
  BY <1>1 DEF LPInv, ProcTyped, LPsTyped, IterInside, FreeIsEmpty, CalmOutside,
     SearchEnds, OneBinaryPerLP, InLP
<1> QED
  BY <1>3, <1>4, <1>5 DEF LPInv

(* A process that ends is in no LP.                                        *)
LEMMA GoneLPInv ==
  ASSUME LPInv, NEW n \in Nodes, proc' = [proc EXCEPT ![n] = Down],
         UNCHANGED <<freeLPs, md5, members, rrIter, clusters>>,
         SweepTyped', \A l \in LPs : sweep'[l].by = sweep[l].by
  PROVE  LPInv'
<1>1. /\ proc'[n] = Down /\ \A m \in Nodes \ {n} : proc'[m] = proc[m]
      /\ ProcTyped' /\ CalmOutside'
  BY DEF LPInv, ProcTyped, CalmOutside, Down
<1>2. LPsTyped' /\ IterInside' /\ FreeIsEmpty' /\ SearchEnds'
  BY DEF LPInv, LPsTyped, IterInside, FreeIsEmpty, SearchEnds
<1>3. \A m \in Nodes : InLP(m)' => m # n /\ InLP(m) /\ proc[m].lp \in LPs
  BY <1>1 DEF InLP, Down, LPInv, ProcTyped
<1>4. MembersRunMD5'
  BY <1>1, <1>3 DEF LPInv, MembersRunMD5, Destroying
<1>5. OneBinaryPerLP'
  BY <1>1, <1>3 DEF LPInv, OneBinaryPerLP
<1> QED
  BY <1>1, <1>2, <1>4, <1>5 DEF LPInv

LEMMA ShutdownLPInv ==
  ASSUME LPInv, NEW lp \in LPs, NEW n \in Nodes, Shutdown(lp, n)
  PROVE  LPInv'
<1>1. SweepTyped' /\ \A l \in LPs : sweep'[l].by = sweep[l].by
  BY DEF Shutdown, LPInv, SweepTyped
<1> QED
  BY <1>1, GoneLPInv DEF Shutdown

LEMMA MainExitsLPInv ==
  ASSUME LPInv, NEW n \in Nodes, MainExits(n)
  PROVE  LPInv'
<1>1. SweepTyped' /\ \A l \in LPs : sweep'[l].by = sweep[l].by
  BY DEF MainExits, lpVars, LPInv, SweepTyped
<1> QED
  BY <1>1, GoneLPInv DEF MainExits, lpVars

LEMMA LPDestroyedLPInv ==
  ASSUME LPInv, NEW lp \in LPs, LPDestroyed(lp)
  PROVE  LPInv'
<1>1. /\ members'[lp] = {} /\ rrIter'[lp] = End
      /\ \A l \in LPs \ {lp} : /\ members'[l] = members[l] /\ rrIter'[l] = rrIter[l]
                               /\ sweep'[l] = sweep[l] /\ (l \in freeLPs' <=> l \in freeLPs)
      /\ UNCHANGED <<md5, clusters, proc>>
  BY DEF LPDestroyed, LPInv, LPsTyped, SweepTyped
<1>2. ProcTyped' /\ CalmOutside' /\ SweepTyped' /\ LPsTyped' /\ IterInside' /\ FreeIsEmpty'
  BY <1>1 DEF LPDestroyed, LPInv, ProcTyped, CalmOutside, SweepTyped, LPsTyped,
     IterInside, FreeIsEmpty, NoSweep
<1>3. SearchEnds'
  BY <1>1 DEF LPInv, SearchEnds
<1>4. \A m \in Nodes : InLP(m)' => InLP(m) /\ proc[m].lp \in LPs \ {lp}
  BY <1>1 DEF InLP, LPInv, ProcTyped
<1>5. MembersRunMD5'
  BY <1>1, <1>4 DEF LPInv, MembersRunMD5, Destroying
<1>6. OneBinaryPerLP'
  BY <1>1, <1>4 DEF LPInv, OneBinaryPerLP
<1> QED
  BY <1>2, <1>3, <1>5, <1>6 DEF LPInv

(* The iterator of an LP moves past a member of its map.                   *)
LEMMA IterMovesLPInv ==
  ASSUME LPInv, NEW lp \in LPs, NEW d \in members[lp],
         rrIter' = [rrIter EXCEPT ![lp] = After(lp, d)],
         UNCHANGED <<sweep, freeLPs, md5, members, clusters>>,
         ProcTyped', CalmOutside',
         \A n \in Nodes : proc'[n].lp = proc[n].lp /\ proc'[n].binary = proc[n].binary
  PROVE  LPInv'
<1>1. members \in [LPs -> SUBSET Nodes] /\ rrIter \in [LPs -> Nodes \cup {End}]
  BY DEF LPInv, LPsTyped
<1>2. After(lp, d) \in members[lp] \cup {End} /\ After(lp, d) # Least(members[lp])
  BY <1>1, AfterLeavesTheFirst
<1>3. rrIter'[lp] = After(lp, d) /\ \A l \in LPs \ {lp} : rrIter'[l] = rrIter[l]
  BY <1>1
<1>4. IterInside' /\ LPsTyped'
  BY <1>1, <1>2 DEF LPInv, IterInside, LPsTyped
<1>5. SearchEnds'
  BY <1>2, <1>3 DEF LPInv, SearchEnds
<1>6. SweepTyped' /\ FreeIsEmpty'
  BY DEF LPInv, SweepTyped, FreeIsEmpty
<1>7. MembersRunMD5'
  BY DEF LPInv, MembersRunMD5, InLP, Destroying
<1>8. OneBinaryPerLP'
  BY DEF LPInv, OneBinaryPerLP, InLP
<1> QED
  BY <1>4, <1>5, <1>6, <1>7, <1>8 DEF LPInv

LEMMA AllocateLPInv ==
  ASSUME LPInv, NEW n \in Nodes, NEW size \in Sizes, NEW hint \in Nodes \cup {NoNode},
         AllocateProclet(n, size, hint)
  PROVE  LPInv'
<1> DEFINE lp == proc[n].lp
<1>1. lp \in LPs
  BY DEF AllocateProclet, InLP, LPInv, ProcTyped
<1>2. UNCHANGED <<sweep, freeLPs, md5, members, clusters, proc>>
  BY DEF AllocateProclet
<1>3. ProcTyped' /\ CalmOutside'
  BY <1>2 DEF LPInv, ProcTyped, CalmOutside
<1>4. CASE UNCHANGED rrIter
  BY <1>2, <1>4, StutterLPInv DEF lpInvVars
<1>5. CASE /\ members[lp] \ Isolated # {}
           /\ rrIter' = [rrIter EXCEPT ![lp] = After(lp, RoundRobin(lp))]
  <2>1. RoundRobin(lp) \in members[lp]
    <3> DEFINE shared == members[lp] \ Isolated
               ahead == {m \in shared : rrIter[lp] # End /\ m >= rrIter[lp]}
    <3>1. shared \in SUBSET Nat /\ ahead \in SUBSET Nat /\ shared \subseteq members[lp]
      BY <1>1, ConstantsOK DEF LPInv, LPsTyped
    <3>2. Least(IF ahead # {} THEN ahead ELSE shared) \in shared
      BY <1>5, <3>1, LeastIsMinimum
    <3> QED
      BY <3>2 DEF RoundRobin
  <2> QED
    BY <1>1, <1>2, <1>3, <1>5, <2>1, IterMovesLPInv
<1>6. \/ UNCHANGED rrIter
      \/ /\ members[lp] \ Isolated # {}
         /\ rrIter' = [rrIter EXCEPT ![lp] = After(lp, RoundRobin(lp))]
  BY Zenon DEF AllocateProclet
<1> QED
  BY <1>4, <1>5, <1>6

LEMMA AcquireMigrationDestLPInv ==
  ASSUME LPInv, NEW n \in Nodes, AcquireMigrationDest(n)
  PROVE  LPInv'
<1> DEFINE lp == proc[n].lp
<1>1. lp \in LPs /\ UNCHANGED <<freeLPs, md5, members, sweep, clusters>>
  BY DEF AcquireMigrationDest, LPInv, ProcTyped, CalmOutside
<1>2. CASE UNCHANGED <<acquired, rrIter, proc>>
  BY <1>1, <1>2, StutterLPInv DEF lpInvVars
<1>3. ASSUME NEW d \in Candidates(lp, n),
             rrIter' = [rrIter EXCEPT ![lp] = After(lp, d)],
             proc' = [proc EXCEPT ![n].pc = "paired", ![n].dest = d]
      PROVE  LPInv'
  <2>1. d \in members[lp] /\ d \in Nodes
    BY <1>1, <1>3 DEF Candidates, LPInv, LPsTyped
  <2>2. /\ \A m \in Nodes : proc'[m].lp = proc[m].lp /\ proc'[m].binary = proc[m].binary
        /\ ProcTyped' /\ CalmOutside'
    <3> DEFINE new == [proc[n] EXCEPT !.pc = "paired", !.dest = d]
    <3>1. /\ proc' = [proc EXCEPT ![n] = new]
          /\ new.lp = lp /\ new.binary = proc[n].binary /\ new.main = proc[n].main
          /\ new.pc = "paired" /\ new.dest = d /\ new.moved = proc[n].moved
      BY <1>3 DEF LPInv, ProcTyped
    <3>2. new \in [lp : LPs \cup {NoLP}, binary : Binaries \cup {NoMD5}, main : BOOLEAN,
                   pc : {"calm", "self", "paired", "moved"},
                   dest : Nodes \cup {NoNode}, moved : Addresses \cup {NoProclet}]
      BY <2>1 DEF LPInv, ProcTyped
    <3>3. lp # NoLP
      BY <1>1, ConstantsOK DEF LPs, NoLP
    <3> HIDE DEF new
    <3> QED
      BY <3>1, <3>2, <3>3 DEF LPInv, ProcTyped, CalmOutside
  <2> QED
    BY <1>1, <1>3, <2>1, <2>2, IterMovesLPInv
<1> QED
  BY <1>2, <1>3 DEF AcquireMigrationDest

(* The other steps of a migration.                                         *)
LEMMA MigrationStepLPInv ==
  ASSUME LPInv, NEW n \in Nodes, MigrationStep(n)
  PROVE  LPInv'
<1> DEFINE Stays == /\ \A m \in Nodes : /\ proc'[m].lp = proc[m].lp
                                        /\ proc'[m].binary = proc[m].binary
                    /\ ProcTyped' /\ CalmOutside'
<1> USE DEF LPInv, ProcTyped, CalmOutside
<1>1. CASE AcquireNode(n)
  <2>1. Stays
    BY <1>1 DEF AcquireNode, InLP
  <2> HIDE DEF LPInv, ProcTyped, CalmOutside
  <2> QED
    BY <1>1, <2>1, SamePlaceLPInv DEF AcquireNode
<1>2. CASE AcquireMigrationDest(n)
  BY <1>2, AcquireMigrationDestLPInv
<1>3. ASSUME NEW a \in Addresses, Migrate(n, a) PROVE LPInv'
  <2>1. Stays
    <3> DEFINE new == [proc[n] EXCEPT !.pc = "moved", !.moved = a]
    <3>1. /\ proc' = [proc EXCEPT ![n] = new]
          /\ new.lp = proc[n].lp /\ new.binary = proc[n].binary
      BY <1>3 DEF Migrate
    <3>2. new \in [lp : LPs \cup {NoLP}, binary : Binaries \cup {NoMD5}, main : BOOLEAN,
                   pc : {"calm", "self", "paired", "moved"},
                   dest : Nodes \cup {NoNode}, moved : Addresses \cup {NoProclet}]
      BY <1>3
    <3>3. proc[n].lp # NoLP
      BY <1>3 DEF Migrate
    <3> HIDE DEF new
    <3> QED
      BY <3>1, <3>2, <3>3
  <2> HIDE DEF LPInv, ProcTyped, CalmOutside
  <2> QED
    BY <1>3, <2>1, SamePlaceLPInv DEF Migrate, lpVars
<1>4. CASE SendLocation(n)
  <2>1. Stays
    BY <1>4 DEF SendLocation
  <2> HIDE DEF LPInv, ProcTyped, CalmOutside
  <2> QED
    BY <1>4, <2>1, SamePlaceLPInv DEF SendLocation, lpVars
<1>5. CASE ReleaseDest(n)
  <2>1. Stays
    BY <1>5 DEF ReleaseDest
  <2> HIDE DEF LPInv, ProcTyped, CalmOutside
  <2> QED
    BY <1>5, <2>1, SamePlaceLPInv DEF ReleaseDest, lpVars
<1>6. CASE ReleaseSelf(n)
  <2>1. Stays
    BY <1>6 DEF ReleaseSelf
  <2> HIDE DEF LPInv, ProcTyped, CalmOutside
  <2> QED
    BY <1>6, <2>1, SamePlaceLPInv DEF ReleaseSelf, lpVars
<1>7. CASE ReadMessage(n)
  BY <1>7, StutterLPInv DEF ReadMessage, lpInvVars
<1> QED
  BY <1>1, <1>2, <1>3, <1>4, <1>5, <1>6, <1>7 DEF MigrationStep

LEMMA LPStepLPInv ==
  ASSUME LPInv, LPStep
  PROVE  LPInv'
<1>1. ASSUME NEW n \in Nodes, NEW want \in LPs \cup {NoLP}, NEW b \in Binaries,
             NEW main \in BOOLEAN, RegisterNode(n, want, b, main)
      PROVE  LPInv'
  BY <1>1, RegisterLPInv
<1>2. ASSUME NEW n \in Nodes, DestroyLP(n) \/ MainExits(n) PROVE LPInv'
  BY <1>2, DestroyLPInv, MainExitsLPInv
<1>3. ASSUME NEW lp \in LPs, SweepNode(lp) \/ LPDestroyed(lp) PROVE LPInv'
  BY <1>3, SweepLPInv, LPDestroyedLPInv
<1>4. ASSUME NEW lp \in LPs, NEW n \in Nodes, Shutdown(lp, n) PROVE LPInv'
  BY <1>4, ShutdownLPInv
<1> QED
  BY <1>1, <1>2, <1>3, <1>4 DEF LPStep

LEMMA ProcletStepLPInv ==
  ASSUME LPInv, ProcletStep
  PROVE  LPInv'
<1>1. ASSUME NEW n \in Nodes, NEW size \in Sizes, NEW hint \in Nodes \cup {NoNode},
             AllocateProclet(n, size, hint)
      PROVE  LPInv'
  BY <1>1, AllocateLPInv
<1>2. ASSUME NEW a \in Addresses, DropProclet(a) PROVE LPInv'
  BY <1>2, StutterLPInv DEF DropProclet, lpVars, lpInvVars
<1>3. ASSUME NEW m \in destroys, DestroyProclet(m) PROVE LPInv'
  BY <1>3, StutterLPInv DEF DestroyProclet, lpVars, lpInvVars
<1> QED
  BY <1>1, <1>2, <1>3 DEF ProcletStep

(* The invariant, for any number of LPs, nodes and clusters, and whether or*)
(* not the clients keep to the three assumptions.                          *)
THEOREM LPInvariant == Spec => []LPInv
<1>1. LPInv /\ [Next]_vars => LPInv'
  <2> SUFFICES ASSUME LPInv, [Next]_vars PROVE LPInv'
    OBVIOUS
  <2>1. CASE UNCHANGED vars
    BY <2>1, StutterLPInv DEF vars, lpVars, lpInvVars
  <2> QED
    BY <2>1, LPStepLPInv, ProcletStepLPInv, MigrationStepLPInv DEF Next
<1> QED
  BY <1>1, InitLPInv, PTL DEF Spec

(* rr_iter never stands at the first node, where the search of             *)
(* acquire_migration_dest would start and not end.                         *)
THEOREM SearchAlwaysEnds == Spec => []SearchEnds
<1>1. LPInv => SearchEnds
  BY DEF LPInv
<1> QED
  BY <1>1, LPInvariant, PTL

(* The nodes of an LP always run one binary, even when a process registers *)
(* after the stack clusters are used up and the LP is put among the free.  *)
THEOREM BinariesAgree == Spec => []OneBinaryPerLP
<1>1. LPInv => OneBinaryPerLP
  BY DEF LPInv
<1> QED
  BY <1>1, LPInvariant, PTL

---------------------------------------------------------------------------
(* What the messages, the flags and the heap can be.                       *)
Releases == [kind : {"release"}, lp : LPs, node : Nodes]
Locations == [kind : {"location"}, id : Addresses, node : Nodes]
Messages == Releases \cup Locations

MessagesTyped ==
  /\ acquired \in [LPs -> SUBSET Nodes]
  /\ toCtl \in [Nodes -> Seq(Messages)]
  /\ \A n \in Nodes : Len(toCtl[n]) <= MaxQueue

(* A pressure handler has a destination and a proclet on its way just when *)
(* it is at the place for it.                                              *)
HandlersTyped ==
  \A n \in Nodes : /\ proc[n].dest # NoNode <=> proc[n].pc \in {"paired", "moved"}
                   /\ proc[n].moved # NoProclet <=> proc[n].pc = "moved"

(* A node is in one LP.                                                    *)
InOneLP == \A l, k \in LPs : l # k => members[l] \cap members[k] = {}

Bytes == NumSegments * SegmentSize
Slot(s) == [start : Addresses, size : {s}, prev : Nodes \cup {NoNode}]
SlotsTyped(F) ==
  /\ DOMAIN F = Sizes
  /\ \A s \in Sizes : F[s] \in Seq(Slot(s))
  /\ \A s \in Sizes : \A i \in 1..Len(F[s]) : F[s][i].start + s <= Bytes + 1
Segment == [start : Addresses, size : Sizes]
HeapTyped ==
  /\ SlotsTyped(freeSegs)
  /\ location \in [Addresses -> Nodes \cup {NoNode}]
  /\ host \in [Addresses -> [node : Nodes, size : Sizes] \cup {NoHeap}]
  /\ destroys \subseteq Segment
  /\ \A x \in InUse : x.start + x.size <= Bytes + 1

(* No two segments overlap, and one whose proclet has died has no other.   *)
Apart(x, y) == x.start + x.size <= y.start \/ y.start + y.size <= x.start
SegmentsApart(F, U) ==
  /\ \A s, r \in Sizes : \A i \in 1..Len(F[s]) : \A j \in 1..Len(F[r]) :
       s # r \/ i # j => Apart(F[s][i], F[r][j])
  /\ \A s \in Sizes : \A i \in 1..Len(F[s]) : \A x \in U : Apart(F[s][i], x)
  /\ \A x, y \in U : x # y => Apart(x, y)
DeadIsGone == \A m \in destroys : host[m.start] = NoHeap

HeapInv == HeapTyped /\ SegmentsApart(freeSegs, InUse) /\ DeadIsGone
ClientInv == LPInv /\ MessagesTyped /\ HandlersTyped /\ InOneLP /\ HeapInv

---------------------------------------------------------------------------
(* Sequences, as stacks and as queues.                                     *)
LEMMA Popped ==
  ASSUME NEW S, NEW q \in Seq(S), q # <<>>
  PROVE  /\ Len(q) \in Nat \ {0} /\ q[Len(q)] \in S
         /\ SubSeq(q, 1, Len(q) - 1) \in Seq(S)
         /\ Len(SubSeq(q, 1, Len(q) - 1)) = Len(q) - 1
         /\ \A i \in 1..(Len(q) - 1) : SubSeq(q, 1, Len(q) - 1)[i] = q[i]
<1>1. PICK n \in Int : Len(q) \in Nat \ {0} /\ n = Len(q) - 1
  BY EmptySeq
<1>2. q[Len(q)] \in S /\ \A i \in 1..n : q[i] \in S /\ 1 + i - 1 = i
  BY <1>1
<1>3. /\ SubSeq(q, 1, n) \in Seq(S)
      /\ Len(SubSeq(q, 1, n)) = IF 1 <= n THEN n - 1 + 1 ELSE 0
      /\ \A i \in 1..(n - 1 + 1) : SubSeq(q, 1, n)[i] = q[1 + i - 1]
  BY <1>1, <1>2, SubSeqProperties
<1>4. \A i \in 1..n : SubSeq(q, 1, n)[i] = q[i]
  BY <1>1, <1>2, <1>3
<1> QED
  BY <1>1, <1>2, <1>3, <1>4

LEMMA ConstantFacts ==
  /\ NumLPs \in Nat \ {0} /\ Nodes \subseteq Nat \ {0} /\ NoNode \notin Nodes /\ NoLP \notin LPs
  /\ Small \in Sizes /\ SegmentSize \in Sizes /\ Small # SegmentSize /\ Small = 1
  /\ Sizes = {Small, SegmentSize} /\ Sizes \subseteq Nat \ {0}
  /\ Bytes \in Nat /\ Addresses = 1..Bytes /\ NoProclet \notin Addresses
  /\ MaxQueue \in Nat \ {0}
<1>1. NumSegments \in Nat /\ SegmentSize \in Nat /\ SegmentSize # 0 /\ SegmentSize # 1
  BY ConstantsOK
<1>2. NumSegments * SegmentSize \in Nat
  BY <1>1
<1> QED
  BY <1>1, <1>2, ConstantsOK DEF NoNode, NoLP, LPs, Small, Sizes, Bytes, Addresses, NoProclet

---------------------------------------------------------------------------
(* The heap segments.                                                      *)

(* What a stack holds, spelled out.                                        *)
LEMMA SlotFacts ==
  ASSUME NEW F, SlotsTyped(F), NEW s \in Sizes
  PROVE  /\ Len(F[s]) \in Nat /\ DOMAIN F[s] = 1..Len(F[s])
         /\ \A i \in 1..Len(F[s]) : /\ F[s][i] \in Slot(s)
                                    /\ F[s][i].start \in 1..Bytes /\ F[s][i].size = s
                                    /\ F[s][i].prev \in Nodes \cup {NoNode}
                                    /\ F[s][i].start + s <= Bytes + 1
<1>1. F[s] \in Seq(Slot(s))
  BY DEF SlotsTyped
<1>2. Len(F[s]) \in Nat /\ DOMAIN F[s] = 1..Len(F[s])
  BY <1>1, LenProperties
<1>3. \A i \in 1..Len(F[s]) : F[s][i] \in Slot(s)
  BY <1>1, ElementOfSeq
<1> QED
  BY <1>2, <1>3, ConstantFacts DEF SlotsTyped, Slot

(* A segment of the largest size is cut into pieces of size 1, which lie   *)
(* in it, one after the other.                                             *)
LEMMA PieceApart ==
  ASSUME NEW seg, NEW x, NEW y, NEW a \in Nat, NEW n \in Nat, NEW i \in 1..n,
         seg.start = a, seg.size = n, x.start \in Nat, x.size \in Nat, Apart(seg, x) \/ Apart(x, seg),
         y.start = a + i - 1, y.size = 1
  PROVE  Apart(x, y) /\ Apart(y, x)
BY DEF Apart

CutInto(F, G, a) ==
  /\ DOMAIN G = Sizes /\ \A s \in Sizes : G[s] \in Seq(Slot(s))
  /\ Len(F[SegmentSize]) # 0 /\ Len(G[SegmentSize]) = Len(F[SegmentSize]) - 1
  /\ \A i \in 1..(Len(F[SegmentSize]) - 1) : G[SegmentSize][i] = F[SegmentSize][i]
  /\ F[SegmentSize][Len(F[SegmentSize])].start = a
  /\ Len(G[Small]) = SegmentSize
  /\ \A i \in 1..SegmentSize : G[Small][i].start = a + i - 1

LEMMA CutUp ==
  ASSUME NEW F, SlotsTyped(F), NEW U, U \subseteq Segment, SegmentsApart(F, U),
         NEW a \in Nat, NEW G, CutInto(F, G, a)
  PROVE  SlotsTyped(G) /\ SegmentsApart(G, U)
<1>1. /\ SegmentSize \in Nat \ {0, 1} /\ Small = 1 /\ Bytes \in Nat
      /\ Sizes = {Small, SegmentSize} /\ Small # SegmentSize /\ SegmentSize \in Sizes /\ Small \in Sizes
  BY ConstantFacts, ConstantsOK
<1>2. PICK n \in Nat \ {0} : n = Len(F[SegmentSize])
  <2>1. Len(F[SegmentSize]) \in Nat
    BY <1>1, SlotFacts
  <2> QED
    BY <2>1 DEF CutInto
<1>3. PICK seg : /\ seg = F[SegmentSize][n] /\ seg.start = a /\ seg.size = SegmentSize
                 /\ a + SegmentSize <= Bytes + 1
  BY <1>1, <1>2, SlotFacts DEF CutInto
<1>4. /\ Len(G[SegmentSize]) = n - 1 /\ Len(G[Small]) = SegmentSize
      /\ \A i \in 1..(n - 1) : G[SegmentSize][i] = F[SegmentSize][i]
  BY <1>2 DEF CutInto
<1>5. \A i \in 1..SegmentSize : G[Small][i].start = a + i - 1 /\ G[Small][i].size = 1
  <2>1. \A i \in 1..SegmentSize : G[Small][i] \in Slot(Small)
    <3>1. G[Small] \in Seq(Slot(Small))
      BY <1>1 DEF CutInto
    <3> QED
      BY <1>4, <3>1, ElementOfSeq
  <2>2. \A i \in 1..SegmentSize : G[Small][i].size = 1
    BY <1>1, <2>1 DEF Slot
  <2> QED
    BY <2>2 DEF CutInto
<1>6. ASSUME NEW i \in 1..(n - 1)
      PROVE  /\ G[SegmentSize][i] = F[SegmentSize][i] /\ Apart(F[SegmentSize][i], seg)
             /\ F[SegmentSize][i].start \in Nat /\ F[SegmentSize][i].size = SegmentSize
             /\ F[SegmentSize][i].start + SegmentSize <= Bytes + 1
  <2>1. i \in 1..n /\ n \in 1..n /\ i # n
    BY <1>2
  <2>2. Apart(F[SegmentSize][i], seg)
    BY <1>1, <1>2, <1>3, <2>1 DEF SegmentsApart
  <2>3. /\ F[SegmentSize][i].start \in 1..Bytes /\ F[SegmentSize][i].size = SegmentSize
        /\ F[SegmentSize][i].start + SegmentSize <= Bytes + 1
    BY <1>1, <1>2, <2>1, SlotFacts
  <2> QED
    BY <1>1, <1>4, <2>2, <2>3
<1>7. ASSUME NEW x \in U
      PROVE  x.start \in Nat /\ x.size \in Nat /\ Apart(seg, x)
  <2>1. Apart(seg, x)
    BY <1>1, <1>2, <1>3 DEF SegmentsApart
  <2> QED
    BY <2>1, ConstantFacts DEF Segment
<1>8. SlotsTyped(G)
  <2>1. \A i \in 1..(n - 1) : G[SegmentSize][i].start + SegmentSize <= Bytes + 1
    BY <1>6
  <2>2. ASSUME NEW i \in 1..SegmentSize
        PROVE  G[Small][i].start + Small <= Bytes + 1
    BY <1>1, <1>3, <1>5, <2>2
  <2> QED
    BY <1>1, <1>4, <2>1, <2>2 DEF SlotsTyped, CutInto
<1>9. ASSUME NEW i \in 1..(n - 1), NEW j \in 1..(n - 1), i # j
      PROVE  Apart(G[SegmentSize][i], G[SegmentSize][j])
  <2>1. i \in 1..n /\ j \in 1..n
    BY <1>2
  <2>2. Apart(F[SegmentSize][i], F[SegmentSize][j])
    BY <1>1, <1>2, <1>9, <2>1 DEF SegmentsApart
  <2> QED
    BY <1>4, <2>2
<1>10. ASSUME NEW i \in 1..SegmentSize, NEW j \in 1..SegmentSize, i # j
       PROVE  Apart(G[Small][i], G[Small][j])
  <2>1. G[Small][i].start = a + i - 1 /\ G[Small][i].size = 1 /\ G[Small][j].start = a + j - 1 /\ G[Small][j].size = 1
    BY <1>5
  <2> QED
    BY <1>1, <1>10, <2>1 DEF Apart
<1>11. ASSUME NEW i \in 1..(n - 1), NEW j \in 1..SegmentSize
       PROVE  Apart(G[SegmentSize][i], G[Small][j]) /\ Apart(G[Small][j], G[SegmentSize][i])
  <2>1. PICK x : /\ x = G[SegmentSize][i] /\ x.start \in Nat /\ x.size \in Nat /\ Apart(x, seg)
    BY <1>1, <1>6
  <2>2. PICK y : y = G[Small][j] /\ y.start = a + j - 1 /\ y.size = 1
    BY <1>5
  <2>3. SegmentSize \in Nat /\ (Apart(seg, x) \/ Apart(x, seg))
    BY <1>1, <2>1
  <2>4. Apart(x, y) /\ Apart(y, x)
    BY <1>3, <2>1, <2>2, <2>3, PieceApart
  <2> QED
    BY <2>1, <2>2, <2>4
<1>12. ASSUME NEW i \in 1..SegmentSize, NEW x \in U
       PROVE  Apart(G[Small][i], x)
  <2>1. PICK y : y = G[Small][i] /\ y.start = a + i - 1 /\ y.size = 1
    BY <1>5
  <2>2. Apart(y, x)
    BY <1>1, <1>3, <1>7, <2>1, PieceApart
  <2> QED
    BY <2>1, <2>2
<1>13. ASSUME NEW i \in 1..(n - 1), NEW x \in U
       PROVE  Apart(G[SegmentSize][i], x)
  <2>1. i \in 1..n
    BY <1>2
  <2> QED
    BY <1>1, <1>2, <1>4, <2>1 DEF SegmentsApart
<1>14. SegmentsApart(G, U)
  <2>1. ASSUME NEW s \in Sizes, NEW r \in Sizes, NEW i \in 1..Len(G[s]), NEW j \in 1..Len(G[r]),
               s # r \/ i # j
        PROVE  Apart(G[s][i], G[r][j])
    BY <1>1, <1>4, <1>9, <1>10, <1>11, <2>1
  <2>2. ASSUME NEW s \in Sizes, NEW i \in 1..Len(G[s]), NEW x \in U
        PROVE  Apart(G[s][i], x)
    BY <1>1, <1>4, <1>12, <1>13
  <2>3. \A x, y \in U : x # y => Apart(x, y)
    BY DEF SegmentsApart
  <2> QED
    BY <2>1, <2>2, <2>3 DEF SegmentsApart
<1> QED
  BY <1>8, <1>14

(* get_free_proclet_heap_segment.                                          *)
LEMMA CutApart ==
  ASSUME SlotsTyped(freeSegs), NEW U, U \subseteq Segment, SegmentsApart(freeSegs, U), NEW size \in Sizes
  PROVE  SlotsTyped(Cut(size)) /\ SegmentsApart(Cut(size), U)
<1>1. CASE freeSegs[size] # <<>> \/ freeSegs[SegmentSize] = <<>>
  BY <1>1 DEF Cut
<1>2. CASE freeSegs[size] = <<>> /\ freeSegs[SegmentSize] # <<>>
  <2>1. size = 1 /\ Small = 1 /\ size # SegmentSize /\ SegmentSize \in Nat /\ SegmentSize \div 1 = SegmentSize
    BY <1>2, ConstantFacts
  <2>2. PICK big : big = freeSegs[SegmentSize] /\ big # <<>> /\ big \in Seq(Slot(SegmentSize))
    BY <1>2, ConstantFacts DEF SlotsTyped
  <2>3. PICK seg : /\ seg = big[Len(big)] /\ Len(big) # 0
                   /\ seg.start \in 1..Bytes /\ seg.start + SegmentSize <= Bytes + 1
                   /\ seg.prev \in Nodes \cup {NoNode}
    BY <2>2, SlotFacts, Popped, ConstantFacts
  <2>12. PICK a \in Nat : a = seg.start
    BY <2>3, ConstantFacts
  <2>4. PICK pieces :
          pieces = [i \in 1..SegmentSize |-> [start |-> a + (i - 1) * 1, size |-> 1, prev |-> seg.prev]]
    OBVIOUS
  <2>5. Cut(size) = [freeSegs EXCEPT ![SegmentSize] = SubSeq(big, 1, Len(big) - 1), ![size] = pieces]
    BY <1>2, <2>1, <2>2, <2>3, <2>4, <2>12 DEF Cut
  <2>6. \A i \in 1..SegmentSize :
          pieces[i] \in Slot(1) /\ pieces[i].start = a + i - 1
    <3> SUFFICES ASSUME NEW i \in 1..SegmentSize
                 PROVE  pieces[i] \in Slot(1) /\ pieces[i].start = a + i - 1
      OBVIOUS
    <3>1. a + (i - 1) * 1 = a + i - 1 /\ a + i - 1 \in 1..Bytes
      BY <2>1, <2>3, <2>12, ConstantFacts
    <3>2. pieces[i] = [start |-> a + i - 1, size |-> 1, prev |-> seg.prev]
      BY <2>4, <3>1
    <3> QED
      BY <2>3, <3>1, <3>2, ConstantFacts DEF Slot
  <2>7. pieces \in [1..SegmentSize -> Slot(1)]
    BY <2>4, <2>6
  <2>8. pieces \in Seq(Slot(1)) /\ Len(pieces) = SegmentSize
    BY <2>1, <2>7
  <2>9. PICK G : /\ G = Cut(size) /\ DOMAIN G = Sizes /\ G[Small] = pieces
                 /\ G[SegmentSize] = SubSeq(big, 1, Len(big) - 1)
    BY <2>1, <2>5, ConstantFacts DEF SlotsTyped
  <2>10. /\ G[SegmentSize] \in Seq(Slot(SegmentSize)) /\ Len(G[SegmentSize]) = Len(big) - 1
         /\ \A i \in 1..(Len(big) - 1) : G[SegmentSize][i] = big[i]
    BY <2>2, <2>9, Popped
  <2>11. \A i \in 1..SegmentSize : G[Small][i].start = a + i - 1
    BY <2>6, <2>9
  <2>13. CutInto(freeSegs, G, a)
    <3>1. \A s \in Sizes : G[s] \in Seq(Slot(s))
      BY <2>1, <2>8, <2>9, <2>10, ConstantFacts
    <3> QED
      BY <2>2, <2>3, <2>8, <2>9, <2>10, <2>11, <2>12, <3>1 DEF CutInto
  <2> QED
    BY <2>9, <2>13, CutUp
<1> QED
  BY <1>1, <1>2

(* The segment on top of a stack is taken; it comes back to one.           *)
LEMMA TakeApart ==
  ASSUME NEW F, SlotsTyped(F), NEW U, U \subseteq Segment, SegmentsApart(F, U),
         NEW s \in Sizes, F[s] # <<>>, NEW top, top = F[s][Len(F[s])],
         NEW G, G = [F EXCEPT ![s] = SubSeq(@, 1, Len(@) - 1)],
         NEW x, x.start = top.start, x.size = top.size
  PROVE  SlotsTyped(G) /\ SegmentsApart(G, U \cup {x})
<1>1. PICK q : q = F[s] /\ q \in Seq(Slot(s)) /\ q # <<>>
  BY DEF SlotsTyped
<1>2. PICK n \in Nat \ {0} : n = Len(q) /\ top = q[n]
  BY <1>1, EmptySeq
<1>3. /\ G[s] \in Seq(Slot(s)) /\ Len(G[s]) = n - 1
      /\ \A i \in 1..(n - 1) : G[s][i] = q[i]
      /\ DOMAIN G = Sizes /\ \A r \in Sizes \ {s} : G[r] = F[r]
  <2>1. G[s] = SubSeq(q, 1, Len(q) - 1) /\ DOMAIN G = Sizes /\ \A r \in Sizes \ {s} : G[r] = F[r]
    BY <1>1 DEF SlotsTyped
  <2> QED
    BY <1>1, <1>2, <2>1, Popped
<1>4. \A r \in Sizes : \A i \in 1..Len(G[r]) : i \in 1..Len(F[r]) /\ G[r][i] = F[r][i] /\ (r # s \/ i # n)
  BY <1>1, <1>2, <1>3
<1>5. SlotsTyped(G)
  <2>1. \A r \in Sizes : G[r] \in Seq(Slot(r))
    BY <1>3 DEF SlotsTyped
  <2>2. \A r \in Sizes : \A i \in 1..Len(G[r]) : G[r][i].start + r <= Bytes + 1
    BY <1>4 DEF SlotsTyped
  <2> QED
    BY <1>3, <2>1, <2>2 DEF SlotsTyped
<1>6. \A r \in Sizes : \A i \in 1..Len(G[r]) : Apart(F[r][i], top)
  BY <1>1, <1>2, <1>4 DEF SegmentsApart
<1>7. ASSUME NEW y, Apart(y, top)
      PROVE  Apart(y, x)
  BY <1>7 DEF Apart
<1>8. ASSUME NEW y \in U
      PROVE  Apart(x, y) /\ Apart(y, x)
  <2>1. n \in 1..Len(F[s])
    BY <1>1, <1>2
  <2>2. Apart(top, y)
    BY <1>1, <1>2, <2>1 DEF SegmentsApart
  <2> QED
    BY <2>2 DEF Apart
<1>9. SegmentsApart(G, U \cup {x})
  <2>1. ASSUME NEW r \in Sizes, NEW p \in Sizes, NEW i \in 1..Len(G[r]), NEW j \in 1..Len(G[p]), r # p \/ i # j
        PROVE  Apart(G[r][i], G[p][j])
    BY <1>4, <2>1 DEF SegmentsApart
  <2>2. ASSUME NEW r \in Sizes, NEW i \in 1..Len(G[r]), NEW y \in U \cup {x}
        PROVE  Apart(G[r][i], y)
    <3>1. CASE y \in U
      BY <1>4, <3>1 DEF SegmentsApart
    <3>2. CASE y = x
      BY <1>4, <1>6, <1>7, <3>2
    <3> QED
      BY <3>1, <3>2
  <2>3. \A y, z \in U : y # z => Apart(y, z)
    BY DEF SegmentsApart
  <2> QED
    BY <1>8, <2>1, <2>2, <2>3 DEF SegmentsApart
<1> QED
  BY <1>5, <1>9

LEMMA GiveApart ==
  ASSUME NEW F, SlotsTyped(F), NEW U, U \subseteq Segment, SegmentsApart(F, U),
         NEW x \in U, x.start + x.size <= Bytes + 1, NEW old \in Nodes \cup {NoNode},
         NEW G, G = [F EXCEPT ![x.size] = Append(@, [start |-> x.start, size |-> x.size, prev |-> old])]
  PROVE  SlotsTyped(G) /\ SegmentsApart(G, U \ {x})
<1>1. PICK s \in Sizes : s = x.size /\ x.start \in Addresses
  BY DEF Segment
<1>2. PICK q, new : /\ q = F[s] /\ q \in Seq(Slot(s)) /\ G[s] = Append(q, new)
                    /\ new \in Slot(s) /\ new.start = x.start /\ new.size = x.size
  <2>1. PICK new : new = [start |-> x.start, size |-> s, prev |-> old]
    OBVIOUS
  <2>2. new \in Slot(s) /\ new.start = x.start /\ new.size = x.size
    BY <1>1, <2>1 DEF Slot
  <2>3. G[s] = Append(F[s], new) /\ F[s] \in Seq(Slot(s))
    BY <1>1, <2>1 DEF SlotsTyped
  <2> QED
    BY <2>2, <2>3
<1>3. PICK n \in Nat : n = Len(q)
  BY <1>2
<1>4. /\ G[s] \in Seq(Slot(s)) /\ Len(G[s]) = n + 1 /\ G[s][n + 1] = new
      /\ \A i \in 1..n : G[s][i] = q[i]
      /\ DOMAIN G = Sizes /\ \A r \in Sizes \ {s} : G[r] = F[r]
  <2>1. DOMAIN G = Sizes /\ \A r \in Sizes \ {s} : G[r] = F[r]
    BY <1>1 DEF SlotsTyped
  <2> QED
    BY <1>2, <1>3, <2>1, AppendProperties
<1>5. \A r \in Sizes : \A i \in 1..Len(G[r]) :
        \/ r = s /\ i = n + 1 /\ G[r][i] = new
        \/ (r # s \/ i # n + 1) /\ i \in 1..Len(F[r]) /\ G[r][i] = F[r][i]
  BY <1>2, <1>3, <1>4
<1>6. SlotsTyped(G)
  <2>1. \A r \in Sizes : G[r] \in Seq(Slot(r))
    BY <1>4 DEF SlotsTyped
  <2>2. new.start + s <= Bytes + 1
    BY <1>1, <1>2
  <2>3. \A r \in Sizes : \A i \in 1..Len(G[r]) : G[r][i].start + r <= Bytes + 1
    BY <1>5, <2>2 DEF SlotsTyped
  <2> QED
    BY <1>4, <2>1, <2>3 DEF SlotsTyped
<1>7. ASSUME NEW y, Apart(y, x) \/ Apart(x, y)
      PROVE  Apart(y, new) /\ Apart(new, y)
  BY <1>2, <1>7 DEF Apart
<1>8. SegmentsApart(G, U \ {x})
  <2>1. ASSUME NEW r \in Sizes, NEW p \in Sizes, NEW i \in 1..Len(G[r]), NEW j \in 1..Len(G[p]), r # p \/ i # j
        PROVE  Apart(G[r][i], G[p][j])
    <3>1. CASE r = s /\ i = n + 1
      <4>1. G[r][i] = new /\ j \in 1..Len(F[p]) /\ G[p][j] = F[p][j]
        BY <1>5, <2>1, <3>1
      <4>2. Apart(F[p][j], x)
        BY <4>1 DEF SegmentsApart
      <4> QED
        BY <1>7, <4>1, <4>2
    <3>2. CASE p = s /\ j = n + 1
      <4>1. G[p][j] = new /\ i \in 1..Len(F[r]) /\ G[r][i] = F[r][i]
        BY <1>5, <2>1, <3>2
      <4>2. Apart(F[r][i], x)
        BY <4>1 DEF SegmentsApart
      <4> QED
        BY <1>7, <4>1, <4>2
    <3>3. CASE ~(r = s /\ i = n + 1) /\ ~(p = s /\ j = n + 1)
      BY <1>5, <2>1, <3>3 DEF SegmentsApart
    <3> QED
      BY <3>1, <3>2, <3>3
  <2>2. ASSUME NEW r \in Sizes, NEW i \in 1..Len(G[r]), NEW y \in U \ {x}
        PROVE  Apart(G[r][i], y)
    <3>1. Apart(x, y)
      BY DEF SegmentsApart
    <3> QED
      BY <1>5, <1>7, <3>1 DEF SegmentsApart
  <2>3. \A y, z \in U \ {x} : y # z => Apart(y, z)
    BY DEF SegmentsApart
  <2> QED
    BY <2>1, <2>2, <2>3 DEF SegmentsApart
<1> QED
  BY <1>6, <1>8

LEMMA FewerApart ==
  ASSUME NEW F, NEW U, NEW V, V \subseteq U, SegmentsApart(F, U)
  PROVE  SegmentsApart(F, V)
BY DEF SegmentsApart

(* The segments in use are those of the proclets and of the dead.          *)
SegmentOf(a, s) == [start |-> a, size |-> s]

LEMMA InUseIs ==
  /\ \A x : x \in InUse <=> \/ x \in destroys
                            \/ \E a \in Addresses : host[a] # NoHeap /\ x = SegmentOf(a, host[a].size)
  /\ \A x : x \in InUse' <=> \/ x \in destroys'
                             \/ \E a \in Addresses : host'[a] # NoHeap /\ x = SegmentOf(a, host'[a].size)
BY DEF InUse, SegmentOf

LEMMA SegmentFacts ==
  ASSUME NEW a, NEW s
  PROVE  SegmentOf(a, s).start = a /\ SegmentOf(a, s).size = s
BY DEF SegmentOf

LEMMA InUseFacts ==
  ASSUME HeapTyped
  PROVE  /\ InUse \subseteq Segment
         /\ \A a \in Addresses : host[a] # NoHeap =>
              /\ host[a].node \in Nodes /\ host[a].size \in Sizes
              /\ SegmentOf(a, host[a].size) \in InUse
         /\ \A a \in Addresses : host[a] = NoHeap <=> host[a].node = NoNode
<1>1. \A a \in Addresses : host[a] # NoHeap => host[a].node \in Nodes /\ host[a].size \in Sizes
  BY DEF HeapTyped
<1>2. NoHeap.node = NoNode
  BY DEF NoHeap
<1> QED
  BY <1>1, <1>2, InUseIs, ConstantFacts DEF HeapTyped, Segment, SegmentOf

(* A step that leaves the segments and who uses them alone.                *)
LEMMA SameHeap ==
  ASSUME HeapInv, UNCHANGED <<freeSegs, destroys>>,
         location' \in [Addresses -> Nodes \cup {NoNode}],
         host' \in [Addresses -> [node : Nodes, size : Sizes] \cup {NoHeap}],
         \A a \in Addresses : /\ host'[a] = NoHeap <=> host[a] = NoHeap
                              /\ host'[a].size = host[a].size
  PROVE  HeapInv'
<1>1. \A x : x \in InUse' <=> x \in InUse
  BY InUseIs
<1>2. InUse' = InUse
  BY <1>1
<1>3. HeapTyped'
  BY <1>2 DEF HeapInv, HeapTyped
<1>4. DeadIsGone'
  BY DEF HeapInv, HeapTyped, DeadIsGone, Segment
<1> QED
  BY <1>2, <1>3, <1>4 DEF HeapInv

LEMMA RoundRobinInside ==
  ASSUME LPInv, NEW lp \in LPs, members[lp] \ Isolated # {}
  PROVE  RoundRobin(lp) \in members[lp]
<1> DEFINE shared == members[lp] \ Isolated
           ahead == {m \in shared : rrIter[lp] # End /\ m >= rrIter[lp]}
<1>1. shared \in SUBSET Nat /\ ahead \in SUBSET Nat /\ shared \subseteq members[lp]
  BY ConstantsOK DEF LPInv, LPsTyped
<1>2. Least(IF ahead # {} THEN ahead ELSE shared) \in shared
  BY <1>1, LeastIsMinimum
<1> QED
  BY <1>2 DEF RoundRobin

(* allocate_proclet takes a segment that nobody has.                       *)
LEMMA AllocateHeap ==
  ASSUME LPInv, HeapInv, NEW n \in Nodes, NEW size \in Sizes, NEW hint \in Nodes \cup {NoNode},
         AllocateProclet(n, size, hint)
  PROVE  /\ HeapInv'
         /\ \/ UNCHANGED <<location, host>>
            \/ \E a \in Addresses, node \in Nodes :
                 /\ host[a] = NoHeap
                 /\ location' = [location EXCEPT ![a] = node]
                 /\ host' = [host EXCEPT ![a] = [node |-> node, size |-> size]]
<1>1. PICK F : F = Cut(size) /\ SlotsTyped(F) /\ SegmentsApart(F, InUse) /\ InUse \subseteq Segment
  BY CutApart, InUseFacts DEF HeapInv, HeapTyped
<1>2. PICK top : top = F[size][Len(F[size])] /\ F[size] # <<>>
  BY <1>1 DEF AllocateProclet
<1>3. freeSegs' = [F EXCEPT ![size] = SubSeq(@, 1, Len(@) - 1)] /\ UNCHANGED destroys
  BY <1>1 DEF AllocateProclet
<1>4. /\ top.start \in Addresses /\ top.size = size /\ top.start + top.size <= Bytes + 1 /\ size \in Nat \ {0}
      /\ top.prev \in Nodes \cup {NoNode} /\ Len(F[size]) \in 1..Len(F[size])
  <2>1. F[size] \in Seq(Slot(size))
    BY <1>1 DEF SlotsTyped
  <2>2. Len(F[size]) \in 1..Len(F[size])
    BY <1>2, <2>1, EmptySeq
  <2> QED
    BY <1>1, <1>2, <2>2, SlotFacts, ConstantFacts
<1>5. PICK x : x = SegmentOf(top.start, size)
  OBVIOUS
<1>6. x.start = top.start /\ x.size = top.size /\ x \in Segment
  BY <1>4, <1>5, SegmentFacts, ConstantFacts DEF Segment, SegmentOf
<1>7. SlotsTyped(freeSegs') /\ SegmentsApart(freeSegs', InUse \cup {x})
  BY <1>1, <1>2, <1>3, <1>6, TakeApart
<1>8. \A y \in InUse : y.start # top.start
  <2> SUFFICES ASSUME NEW y \in InUse PROVE y.start # top.start
    OBVIOUS
  <2>1. Apart(top, y)
    BY <1>1, <1>2, <1>4 DEF SegmentsApart
  <2>2. y.start \in Nat /\ y.size \in Nat \ {0}
    BY <1>1, ConstantFacts DEF Segment
  <2> QED
    BY <1>4, <2>1, <2>2, ConstantFacts DEF Apart
<1>9. PICK a \in Addresses : a = top.start
  BY <1>4
<1>10. host[a] = NoHeap /\ \A m \in destroys : m.start # a
  <2>1. \A m \in destroys : m \in InUse
    BY InUseIs
  <2>2. host[a] # NoHeap => SegmentOf(a, host[a].size) \in InUse
    BY InUseFacts DEF HeapInv
  <2> QED
    BY <1>8, <1>9, <2>1, <2>2, SegmentFacts
<1>11. CASE UNCHANGED <<location, host>>
  <2>1. InUse' = InUse
    BY <1>3, <1>11 DEF InUse
  <2>2. SegmentsApart(freeSegs', InUse)
    BY <1>7, FewerApart
  <2>3. HeapTyped' /\ DeadIsGone'
    BY <1>3, <1>7, <1>11, <2>1 DEF HeapInv, HeapTyped, DeadIsGone
  <2> QED
    BY <1>11, <2>1, <2>2, <2>3 DEF HeapInv
<1>12. ASSUME NEW node \in Nodes, location' = [location EXCEPT ![a] = node],
              host' = [host EXCEPT ![a] = [node |-> node, size |-> size]]
       PROVE  HeapInv'
  <2>1. /\ host'[a] = [node |-> node, size |-> size] /\ host'[a] # NoHeap /\ host'[a].size = size
        /\ \A b \in Addresses \ {a} : host'[b] = host[b]
        /\ host' \in [Addresses -> [node : Nodes, size : Sizes] \cup {NoHeap}]
    <3>1. [node |-> node, size |-> size].node # NoHeap.node
      BY ConstantFacts DEF NoHeap
    <3> QED
      BY <1>12, <3>1 DEF HeapInv, HeapTyped
  <2>2. \A y : y \in InUse' <=> y \in InUse \/ y = x
    <3>1. x = SegmentOf(a, host'[a].size)
      BY <1>5, <1>9, <2>1
    <3>2. \A y : y \in InUse' <=> \/ y \in destroys
                                  \/ y = x
                                  \/ \E b \in Addresses \ {a} : host[b] # NoHeap /\ y = SegmentOf(b, host[b].size)
      BY <1>3, <2>1, <3>1, InUseIs
    <3>3. \A y : y \in InUse <=> \/ y \in destroys
                                 \/ \E b \in Addresses \ {a} : host[b] # NoHeap /\ y = SegmentOf(b, host[b].size)
      BY <1>10, InUseIs
    <3> QED
      BY <3>2, <3>3
  <2>3. InUse' = InUse \cup {x}
    BY <2>2
  <2>4. HeapTyped'
    BY <1>3, <1>4, <1>6, <1>7, <1>12, <2>1, <2>3 DEF HeapInv, HeapTyped
  <2>5. DeadIsGone'
    BY <1>3, <1>10, <2>1 DEF HeapInv, HeapTyped, DeadIsGone, Segment
  <2> QED
    BY <1>7, <2>3, <2>4, <2>5 DEF HeapInv
<1>13. \/ UNCHANGED <<location, host>>
       \/ \E node \in Nodes : /\ location' = [location EXCEPT ![a] = node]
                              /\ host' = [host EXCEPT ![a] = [node |-> node, size |-> size]]
  <2> DEFINE lp == proc[n].lp
  <2>1. lp \in LPs /\ members[lp] \subseteq Nodes
    BY DEF AllocateProclet, InLP, LPInv, ProcTyped, LPsTyped
  <2>2. ASSUME hint = NoNode, top.prev = NoNode
        PROVE  RoundRobin(lp) \in members[lp]
    <3>1. members[lp] \ Isolated # {}
      BY <1>1, <1>2, <2>2 DEF AllocateProclet
    <3> QED
      BY <2>1, <3>1, RoundRobinInside
  <2>3. PICK node \in Nodes \cup {NoNode} :
          /\ location' = IF node = NoNode THEN location ELSE [location EXCEPT ![a] = node]
          /\ host' = IF node = NoNode THEN host ELSE [host EXCEPT ![a] = [node |-> node, size |-> size]]
    BY <1>1, <1>2, <1>4, <1>9, <2>1, <2>2 DEF AllocateProclet
  <2> QED
    BY <2>3
<1> QED
  BY <1>10, <1>11, <1>12, <1>13

(* A proclet dies: its segment stays in use until destroy_proclet has come.*)
LEMMA DropHeap ==
  ASSUME HeapInv, NEW a \in Addresses, DropProclet(a)
  PROVE  HeapInv'
<1>1. PICK x : /\ x = SegmentOf(a, host[a].size) /\ destroys' = destroys \cup {x}
               /\ host' = [host EXCEPT ![a] = NoHeap] /\ UNCHANGED <<freeSegs, location>>
  BY DEF DropProclet, SegmentOf
<1>2. host[a] # NoHeap /\ x \in InUse /\ x \in Segment /\ x.start = a
  BY <1>1, InUseFacts, SegmentFacts DEF DropProclet, HeapInv
<1>3. /\ host'[a] = NoHeap /\ \A b \in Addresses \ {a} : host'[b] = host[b]
      /\ host' \in [Addresses -> [node : Nodes, size : Sizes] \cup {NoHeap}]
  BY <1>1 DEF HeapInv, HeapTyped
<1>4. InUse' = InUse
  <2>1. \A y : y \in InUse' <=> \/ y \in destroys \/ y = x
                                \/ \E b \in Addresses \ {a} : host[b] # NoHeap /\ y = SegmentOf(b, host[b].size)
    BY <1>1, <1>3, InUseIs
  <2>2. \A y : y \in InUse <=> \/ y \in destroys \/ y = x
                               \/ \E b \in Addresses \ {a} : host[b] # NoHeap /\ y = SegmentOf(b, host[b].size)
    BY <1>1, <1>2, InUseIs
  <2> QED
    BY <2>1, <2>2
<1>5. HeapTyped'
  BY <1>1, <1>2, <1>3, <1>4 DEF HeapInv, HeapTyped
<1>6. DeadIsGone'
  BY <1>1, <1>2, <1>3 DEF HeapInv, HeapTyped, DeadIsGone, Segment
<1> QED
  BY <1>1, <1>4, <1>5, <1>6 DEF HeapInv

LEMMA DestroyHeap ==
  ASSUME HeapInv, NEW m \in destroys, DestroyProclet(m)
  PROVE  HeapInv' /\ host[m.start] = NoHeap /\ m.start \in Addresses
<1>1. m \in InUse /\ m \in Segment /\ m.start \in Addresses /\ host[m.start] = NoHeap
  BY InUseIs DEF HeapInv, HeapTyped, DeadIsGone, Segment
<1>2. destroys' = destroys \ {m} /\ UNCHANGED host
  BY DEF DestroyProclet
<1>3. \A y : y \in InUse' <=> y \in InUse \ {m}
  <2>1. \A b \in Addresses : host[b] # NoHeap => m # SegmentOf(b, host[b].size)
    BY <1>1, SegmentFacts
  <2> QED
    BY <1>2, <2>1, InUseIs
<1>4. InUse' = InUse \ {m}
  BY <1>3
<1>5. SlotsTyped(freeSegs') /\ SegmentsApart(freeSegs', InUse \ {m})
  <2>1. CASE UNCHANGED freeSegs
    BY <2>1, FewerApart DEF HeapInv, HeapTyped
  <2>2. CASE freeSegs' = [freeSegs EXCEPT ![m.size] =
               Append(@, [start |-> m.start, size |-> m.size, prev |-> location[m.start]])]
    <3>1. location[m.start] \in Nodes \cup {NoNode} /\ m.start + m.size <= Bytes + 1
      BY <1>1 DEF HeapInv, HeapTyped
    <3> QED
      BY <1>1, <2>2, <3>1, GiveApart, InUseFacts DEF HeapInv, HeapTyped
  <2> QED
    BY <2>1, <2>2 DEF DestroyProclet
<1>6. location' \in [Addresses -> Nodes \cup {NoNode}]
  BY DEF DestroyProclet, HeapInv, HeapTyped
<1>7. HeapTyped' /\ DeadIsGone'
  BY <1>2, <1>4, <1>5, <1>6 DEF HeapInv, HeapTyped, DeadIsGone
<1> QED
  BY <1>1, <1>4, <1>5, <1>7 DEF HeapInv

---------------------------------------------------------------------------
(* What the steps of a migration do to its handler and to the queue.       *)
HandlerAt(n, pc, dest, moved) ==
  /\ \A m \in Nodes \ {n} : proc'[m] = proc[m]
  /\ proc'[n].lp = proc[n].lp /\ proc'[n].main = proc[n].main
  /\ proc'[n].pc = pc /\ proc'[n].dest = dest /\ proc'[n].moved = moved
Posted(n, m) ==
  /\ \A c \in Nodes \ {n} : toCtl'[c] = toCtl[c]
  /\ Len(toCtl[n]) \in Nat /\ Len(toCtl[n]) < MaxQueue
  /\ Len(toCtl'[n]) = Len(toCtl[n]) + 1
  /\ \A i \in 1..Len(toCtl[n]) : toCtl'[n][i] = toCtl[n][i]
  /\ toCtl'[n][Len(toCtl[n]) + 1] = m
Taken(n) ==
  /\ \A c \in Nodes \ {n} : toCtl'[c] = toCtl[c]
  /\ Len(toCtl[n]) \in Nat /\ 1 <= Len(toCtl[n])
  /\ Len(toCtl'[n]) = Len(toCtl[n]) - 1
  /\ \A i \in 1..Len(toCtl'[n]) : toCtl'[n][i] = toCtl[n][i + 1]

LEMMA PostFacts ==
  ASSUME MessagesTyped, NEW n \in Nodes, NEW m \in Messages, Post(n, m)
  PROVE  /\ Posted(n, m)
         /\ toCtl' \in [Nodes -> Seq(Messages)]
         /\ \A c \in Nodes : Len(toCtl'[c]) <= MaxQueue
<1>1. toCtl[n] \in Seq(Messages) /\ Len(toCtl[n]) < MaxQueue /\ MaxQueue \in Nat
      /\ toCtl' = [toCtl EXCEPT ![n] = Append(toCtl[n], m)]
  BY ConstantsOK DEF Post, MessagesTyped
<1>2. PICK q : q = Append(toCtl[n], m)
  OBVIOUS
<1>3. /\ q \in Seq(Messages) /\ Len(toCtl[n]) \in Nat /\ Len(q) = Len(toCtl[n]) + 1
      /\ \A i \in 1..Len(toCtl[n]) : q[i] = toCtl[n][i]
      /\ q[Len(toCtl[n]) + 1] = m
  BY <1>1, <1>2
<1>4. toCtl'[n] = q /\ \A c \in Nodes \ {n} : toCtl'[c] = toCtl[c]
  BY <1>1, <1>2 DEF MessagesTyped
<1>5. toCtl' \in [Nodes -> Seq(Messages)]
  BY <1>1, <1>2, <1>3 DEF MessagesTyped
<1>6. \A c \in Nodes : Len(toCtl'[c]) <= MaxQueue
  BY <1>1, <1>3, <1>4 DEF MessagesTyped
<1> QED
  BY <1>1, <1>3, <1>4, <1>5, <1>6 DEF Posted

LEMMA TakeFacts ==
  ASSUME MessagesTyped, NEW n \in Nodes, toCtl[n] # <<>>, toCtl' = [toCtl EXCEPT ![n] = Tail(@)]
  PROVE  /\ Taken(n) /\ Head(toCtl[n]) = toCtl[n][1] /\ toCtl[n][1] \in Messages
         /\ toCtl' \in [Nodes -> Seq(Messages)]
         /\ \A c \in Nodes : Len(toCtl'[c]) <= MaxQueue
<1>1. toCtl[n] \in Seq(Messages) /\ Len(toCtl[n]) \in Nat /\ Len(toCtl[n]) <= MaxQueue
      /\ Len(toCtl[n]) # 0 /\ Head(toCtl[n]) = toCtl[n][1] /\ MaxQueue \in Nat
  BY EmptySeq, ConstantsOK DEF MessagesTyped
<1>2. PICK q : q = Tail(toCtl[n])
  OBVIOUS
<1>3. /\ q \in Seq(Messages) /\ Len(q) = Len(toCtl[n]) - 1 /\ toCtl[n][1] \in Messages
      /\ \A i \in 1..Len(q) : q[i] = toCtl[n][i + 1]
  BY <1>1, <1>2
<1>4. toCtl'[n] = q /\ \A c \in Nodes \ {n} : toCtl'[c] = toCtl[c]
  BY <1>2 DEF MessagesTyped
<1>5. toCtl' \in [Nodes -> Seq(Messages)]
  BY <1>2, <1>3 DEF MessagesTyped
<1>6. \A c \in Nodes : Len(toCtl'[c]) <= MaxQueue
  BY <1>1, <1>3, <1>4 DEF MessagesTyped
<1> QED
  BY <1>1, <1>3, <1>4, <1>5, <1>6 DEF Taken

(* The two kinds of messages.                                              *)
LEMMA MessageFacts ==
  /\ \A m \in Messages :
       \/ m.kind = "release" /\ m.lp \in LPs /\ m.node \in Nodes /\ m = Release(m.lp, m.node)
       \/ m.kind = "location" /\ m.id \in Addresses /\ m.node \in Nodes
  /\ \A lp \in LPs, n \in Nodes :
       /\ Release(lp, n) \in Messages /\ Release(lp, n).kind = "release"
       /\ Release(lp, n).lp = lp /\ Release(lp, n).node = n
  /\ \A a \in Addresses, n \in Nodes : [kind |-> "location", id |-> a, node |-> n] \in Messages
  BY DEF Messages, Releases, Locations, Release

(* Where a node's handler is.                                              *)
LEMMA HandlerFacts ==
  ASSUME LPInv, HandlersTyped, NEW n \in Nodes
  PROVE  /\ n \in Nat /\ n # NoNode /\ 0 \notin LPs /\ 0 \notin Addresses
         /\ proc[n].pc # "calm" => proc[n].lp \in LPs
         /\ proc[n].pc \in {"paired", "moved"} => proc[n].dest \in Nodes
         /\ proc[n].pc \in {"calm", "self"} => proc[n].dest = NoNode
         /\ proc[n].pc = "moved" => proc[n].moved \in Addresses
         /\ proc[n].pc # "moved" => proc[n].moved = NoProclet
         /\ proc[n].pc \in {"calm", "self", "paired", "moved"}
         /\ proc[n].lp \in LPs \cup {NoLP}
  BY ConstantsOK DEF LPInv, ProcTyped, CalmOutside, HandlersTyped, NoNode, LPs, Addresses, NoProclet, NoLP

LEMMA AcquireNodeFacts ==
  ASSUME ProcTyped, NEW n \in Nodes, AcquireNode(n)
  PROVE  HandlerAt(n, "self", proc[n].dest, proc[n].moved)
BY DEF AcquireNode, ProcTyped, HandlerAt

LEMMA PairFacts ==
  ASSUME ProcTyped, NEW n \in Nodes, NEW d,
         proc' = [proc EXCEPT ![n].pc = "paired", ![n].dest = d]
  PROVE  HandlerAt(n, "paired", d, proc[n].moved)
BY DEF ProcTyped, HandlerAt

LEMMA MigrateFacts ==
  ASSUME ProcTyped, NEW n \in Nodes, NEW a \in Addresses, Migrate(n, a)
  PROVE  HandlerAt(n, "moved", proc[n].dest, a)
BY DEF Migrate, ProcTyped, HandlerAt

LEMMA SendFacts ==
  ASSUME ProcTyped, NEW n \in Nodes, SendLocation(n)
  PROVE  HandlerAt(n, "paired", proc[n].dest, NoProclet)
BY DEF SendLocation, ProcTyped, HandlerAt

LEMMA ReleaseDestFacts ==
  ASSUME ProcTyped, NEW n \in Nodes, ReleaseDest(n)
  PROVE  HandlerAt(n, "self", NoNode, proc[n].moved)
BY DEF ReleaseDest, ProcTyped, HandlerAt

LEMMA ReleaseSelfFacts ==
  ASSUME ProcTyped, NEW n \in Nodes, ReleaseSelf(n)
  PROVE  HandlerAt(n, "calm", proc[n].dest, proc[n].moved)
BY DEF ReleaseSelf, ProcTyped, HandlerAt

(* The handlers stay in step when one of them moves.                       *)
LEMMA HandlersStay ==
  ASSUME HandlersTyped, NEW n \in Nodes, NEW pc, NEW dest, NEW moved, HandlerAt(n, pc, dest, moved),
         dest # NoNode <=> pc \in {"paired", "moved"}, moved # NoProclet <=> pc = "moved"
  PROVE  HandlersTyped'
BY DEF HandlersTyped, HandlerAt

---------------------------------------------------------------------------
(* At the start the largest segments lie one after the other.              *)
LEMMA Multiples ==
  ASSUME NEW s \in Nat, NEW i \in Nat, NEW j \in Nat, i < j
  PROVE  i * s \in Nat /\ j * s \in Nat /\ i * s + s <= j * s
<1>1. PICK d \in Nat : j = i + 1 + d
  <2>1. j - i - 1 \in Nat /\ j = i + 1 + (j - i - 1)
    OBVIOUS
  <2> QED
    BY <2>1
<1>2. i * s \in Nat /\ d * s \in Nat
  OBVIOUS
<1>3. (i + 1 + d) * s = i * s + s + d * s
  OBVIOUS
<1> QED
  BY <1>1, <1>2, <1>3

LEMMA InitHeap ==
  ASSUME Init
  PROVE  HeapInv
<1>1. /\ SegmentSize \in Nat \ {0, 1} /\ NumSegments \in Nat /\ Small = 1
      /\ Sizes = {Small, SegmentSize} /\ Small # SegmentSize
  BY ConstantFacts, ConstantsOK
<1>2. PICK q : q = [i \in 1..NumSegments |-> [start |-> 1 + (i - 1) * SegmentSize, size |-> SegmentSize, prev |-> NoNode]]
  OBVIOUS
<1>3. /\ DOMAIN freeSegs = Sizes /\ freeSegs[Small] = <<>> /\ freeSegs[SegmentSize] = q
      /\ destroys = {} /\ location = [a \in Addresses |-> NoNode] /\ host = [a \in Addresses |-> NoHeap]
  BY <1>1, <1>2 DEF Init
<1>4. ASSUME NEW i \in 1..NumSegments
      PROVE  /\ q[i] \in Slot(SegmentSize)
             /\ q[i].size = SegmentSize /\ q[i].start = 1 + (i - 1) * SegmentSize
             /\ q[i].start + SegmentSize <= Bytes + 1
  <2>1. PICK p \in Nat : p = i - 1 /\ p < NumSegments
    BY <1>1
  <2>2. p * SegmentSize \in Nat /\ p * SegmentSize + SegmentSize <= NumSegments * SegmentSize
        /\ NumSegments * SegmentSize \in Nat
    BY <1>1, <2>1, Multiples
  <2>3. PICK v : v = p * SegmentSize /\ v \in Nat /\ v + SegmentSize <= Bytes
    BY <2>2 DEF Bytes
  <2>4. q[i] = [start |-> 1 + v, size |-> SegmentSize, prev |-> NoNode]
    BY <1>2, <2>1, <2>3
  <2>5. 1 + v \in Addresses /\ 1 + v + SegmentSize <= Bytes + 1
    BY <1>1, <2>3, ConstantFacts
  <2> QED
    BY <2>1, <2>3, <2>4, <2>5 DEF Slot
<1>5. q \in Seq(Slot(SegmentSize)) /\ Len(q) = NumSegments
  <2>1. q \in [1..NumSegments -> Slot(SegmentSize)]
    BY <1>2, <1>4
  <2> QED
    BY <1>1, <2>1
<1>6. ASSUME NEW i \in 1..NumSegments, NEW j \in 1..NumSegments, i < j
      PROVE  Apart(q[i], q[j]) /\ Apart(q[j], q[i])
  <2>1. PICK m \in Nat, p \in Nat : m = i - 1 /\ p = j - 1 /\ m < p
    BY <1>6
  <2>2. m * SegmentSize \in Nat /\ p * SegmentSize \in Nat /\ m * SegmentSize + SegmentSize <= p * SegmentSize
    BY <1>1, <2>1, Multiples
  <2>3. PICK v, w : v = m * SegmentSize /\ w = p * SegmentSize /\ v \in Nat /\ w \in Nat /\ v + SegmentSize <= w
    BY <2>2
  <2>4. q[i].start = 1 + v /\ q[j].start = 1 + w /\ q[i].size = SegmentSize /\ q[j].size = SegmentSize
    BY <1>4, <2>1, <2>3
  <2> QED
    BY <1>1, <2>3, <2>4 DEF Apart
<1>7. ASSUME NEW i \in 1..NumSegments, NEW j \in 1..NumSegments, i # j
      PROVE  Apart(q[i], q[j])
  <2>1. i < j \/ j < i
    BY <1>1, <1>7
  <2> QED
    BY <1>6, <2>1
<1>8. Len(<<>>) = 0 /\ \A S : <<>> \in Seq(S)
  OBVIOUS
<1>9. SlotsTyped(freeSegs)
  <2>1. \A s \in Sizes : freeSegs[s] \in Seq(Slot(s))
    BY <1>1, <1>3, <1>5, <1>8
  <2>2. ASSUME NEW s \in Sizes, NEW i \in 1..Len(freeSegs[s])
        PROVE  freeSegs[s][i].start + s <= Bytes + 1
    <3>1. s = SegmentSize
      BY <1>1, <1>3, <1>8
    <3> QED
      BY <1>3, <1>4, <1>5, <3>1
  <2> QED
    BY <1>3, <2>1, <2>2 DEF SlotsTyped
<1>10. \A x : x \notin InUse
  BY <1>3, InUseIs
<1>11. SegmentsApart(freeSegs, InUse)
  <2>1. ASSUME NEW s \in Sizes, NEW r \in Sizes, NEW i \in 1..Len(freeSegs[s]), NEW j \in 1..Len(freeSegs[r]),
               s # r \/ i # j
        PROVE  Apart(freeSegs[s][i], freeSegs[r][j])
    <3>1. s = SegmentSize /\ r = SegmentSize
      BY <1>1, <1>3, <1>8
    <3> QED
      BY <1>3, <1>5, <1>7, <2>1, <3>1
  <2> QED
    BY <1>10, <2>1 DEF SegmentsApart
<1>12. HeapTyped
  BY <1>3, <1>9, <1>10 DEF HeapTyped
<1>13. DeadIsGone
  BY <1>3 DEF DeadIsGone
<1> QED
  BY <1>11, <1>12, <1>13 DEF HeapInv

LEMMA InitClient ==
  ASSUME Init
  PROVE  ClientInv
<1>1. MessagesTyped
  <2>1. Len(<<>>) = 0 /\ <<>> \in Seq(Messages)
    OBVIOUS
  <2> QED
    BY <2>1, ConstantFacts DEF Init, MessagesTyped
<1>2. HandlersTyped
  BY DEF Init, HandlersTyped, Down
<1>3. InOneLP
  BY DEF Init, InOneLP
<1> QED
  BY <1>1, <1>2, <1>3, InitHeap, InitLPInv DEF ClientInv

(* The steps of a migration.                                               *)
LEMMA MigrationClient ==
  ASSUME ClientInv, NEW n \in Nodes, MigrationStep(n)
  PROVE  ClientInv'
<1>1. /\ LPInv /\ LPInv' /\ ProcTyped /\ MessagesTyped /\ HandlersTyped /\ InOneLP /\ HeapInv
      /\ n # NoNode /\ UNCHANGED members
  BY MigrationStepLPInv, HandlerFacts
     DEF ClientInv, LPInv, MigrationStep, AcquireNode, AcquireMigrationDest, Migrate, SendLocation,
         ReleaseDest, ReleaseSelf, ReadMessage, lpVars
<1>2. InOneLP'
  BY <1>1 DEF InOneLP
<1>3. UNCHANGED <<freeSegs, destroys, host, location>> => HeapInv'
  BY <1>1, SameHeap DEF HeapInv, HeapTyped
<1>4. UNCHANGED toCtl /\ acquired' \in [LPs -> SUBSET Nodes] => MessagesTyped'
  BY <1>1 DEF MessagesTyped
<1>5. \A m \in Messages : Post(n, m) /\ UNCHANGED acquired => MessagesTyped'
  BY <1>1, PostFacts DEF MessagesTyped
<1>6. CASE AcquireNode(n)
  <2>1. HandlersTyped'
    BY <1>1, <1>6, AcquireNodeFacts, HandlersStay, HandlerFacts DEF AcquireNode
  <2>2. acquired' \in [LPs -> SUBSET Nodes] /\ UNCHANGED <<toCtl, freeSegs, destroys, host, location>>
    BY <1>1, <1>6 DEF AcquireNode, MessagesTyped, segVars
  <2> QED
    BY <1>1, <1>2, <1>3, <1>4, <2>1, <2>2 DEF ClientInv
<1>7. CASE AcquireMigrationDest(n)
  <2>1. CASE UNCHANGED <<acquired, rrIter, proc>>
    <3>1. HandlersTyped'
      BY <1>1, <2>1 DEF HandlersTyped
    <3>2. acquired' \in [LPs -> SUBSET Nodes] /\ UNCHANGED <<toCtl, freeSegs, destroys, host, location>>
      BY <1>1, <1>7, <2>1 DEF AcquireMigrationDest, MessagesTyped, segVars
    <3> QED
      BY <1>1, <1>2, <1>3, <1>4, <3>1, <3>2 DEF ClientInv
  <2>2. ASSUME NEW d \in Candidates(proc[n].lp, n),
               acquired' = [acquired EXCEPT ![proc[n].lp] = @ \cup {d}],
               proc' = [proc EXCEPT ![n].pc = "paired", ![n].dest = d]
        PROVE  ClientInv'
    <3>1. d \in Nodes /\ d # NoNode /\ proc[n].moved = NoProclet
      BY <1>1, <1>7, <2>2, HandlerFacts, ConstantFacts DEF AcquireMigrationDest, Candidates, LPInv, LPsTyped
    <3>2. HandlerAt(n, "paired", d, proc[n].moved)
      BY <1>1, <2>2, PairFacts
    <3>3. HandlersTyped'
      BY <1>1, <3>1, <3>2, HandlersStay
    <3>4. acquired' \in [LPs -> SUBSET Nodes] /\ UNCHANGED <<toCtl, freeSegs, destroys, host, location>>
      BY <1>1, <1>7, <2>2, <3>1 DEF AcquireMigrationDest, MessagesTyped, segVars
    <3> QED
      BY <1>1, <1>2, <1>3, <1>4, <3>3, <3>4 DEF ClientInv
  <2> QED
    BY <1>7, <2>1, <2>2 DEF AcquireMigrationDest
<1>8. ASSUME NEW a \in Addresses, Migrate(n, a) PROVE ClientInv'
  <2>1. /\ proc[n].pc = "paired" /\ proc[n].dest \in Nodes /\ proc[n].dest # NoNode
        /\ a # NoProclet /\ host[a].node = n
        /\ host' = [host EXCEPT ![a].node = proc[n].dest]
        /\ UNCHANGED <<freeSegs, destroys, location, acquired, toCtl>>
    BY <1>1, <1>8, HandlerFacts, ConstantFacts DEF Migrate, lpVars
  <2>2. HandlersTyped'
    BY <1>1, <1>8, <2>1, MigrateFacts, HandlersStay
  <2>3. MessagesTyped'
    BY <1>1, <2>1 DEF MessagesTyped
  <2>4. host[a] # NoHeap /\ host[a].size \in Sizes /\ host \in [Addresses -> [node : Nodes, size : Sizes] \cup {NoHeap}]
    BY <1>1, <2>1, InUseFacts DEF HeapInv, HeapTyped
  <2>5. PICK h : h = [host[a] EXCEPT !.node = proc[n].dest]
    OBVIOUS
  <2>6. h \in [node : Nodes, size : Sizes] /\ h.size = host[a].size /\ h.node = proc[n].dest
    BY <2>1, <2>4, <2>5 DEF NoHeap
  <2>7. host' = [host EXCEPT ![a] = h] /\ h # NoHeap
    <3>1. NoHeap.node = NoNode
      BY DEF NoHeap
    <3> QED
      BY <2>1, <2>5, <2>6, <3>1
  <2>8. HeapInv'
    <3>1. \A b \in Addresses : /\ host'[b] = NoHeap <=> host[b] = NoHeap
                               /\ host'[b].size = host[b].size
      BY <2>4, <2>6, <2>7
    <3>2. host' \in [Addresses -> [node : Nodes, size : Sizes] \cup {NoHeap}]
          /\ location' \in [Addresses -> Nodes \cup {NoNode}]
      BY <1>1, <2>1, <2>4, <2>6, <2>7 DEF HeapInv, HeapTyped
    <3> QED
      BY <1>1, <2>1, <3>1, <3>2, SameHeap
  <2> QED
    BY <1>1, <1>2, <2>2, <2>3, <2>8 DEF ClientInv
<1>9. CASE SendLocation(n)
  <2>1. proc[n].dest \in Nodes /\ proc[n].dest # NoNode /\ proc[n].moved \in Addresses
    BY <1>1, <1>9, HandlerFacts, ConstantFacts DEF SendLocation
  <2>2. HandlersTyped'
    BY <1>1, <1>9, <2>1, SendFacts, HandlersStay
  <2>3. UNCHANGED <<freeSegs, destroys, host, location, acquired>>
        /\ Post(n, [kind |-> "location", id |-> proc[n].moved, node |-> proc[n].dest])
    BY <1>9 DEF SendLocation, lpVars, segVars
  <2> QED
    BY <1>1, <1>2, <1>3, <1>5, <2>1, <2>2, <2>3, MessageFacts DEF ClientInv
<1>10. CASE ReleaseDest(n)
  <2>1. proc[n].dest \in Nodes /\ proc[n].lp \in LPs /\ proc[n].moved = NoProclet
    BY <1>1, <1>10, HandlerFacts DEF ReleaseDest
  <2>2. HandlersTyped'
    BY <1>1, <1>10, <2>1, ReleaseDestFacts, HandlersStay
  <2>3. UNCHANGED <<freeSegs, destroys, host, location, acquired>> /\ Post(n, Release(proc[n].lp, proc[n].dest))
    BY <1>10 DEF ReleaseDest, lpVars, segVars
  <2> QED
    BY <1>1, <1>2, <1>3, <1>5, <2>1, <2>2, <2>3, MessageFacts DEF ClientInv
<1>11. CASE ReleaseSelf(n)
  <2>1. proc[n].dest = NoNode /\ proc[n].lp \in LPs /\ proc[n].moved = NoProclet
    BY <1>1, <1>11, HandlerFacts DEF ReleaseSelf
  <2>2. HandlersTyped'
    BY <1>1, <1>11, <2>1, ReleaseSelfFacts, HandlersStay
  <2>3. UNCHANGED <<freeSegs, destroys, host, location, acquired>> /\ Post(n, Release(proc[n].lp, n))
    BY <1>11 DEF ReleaseSelf, lpVars, segVars
  <2> QED
    BY <1>1, <1>2, <1>3, <1>5, <2>1, <2>2, <2>3, MessageFacts DEF ClientInv
<1>12. CASE ReadMessage(n)
  <2>1. PICK m : m = Head(toCtl[n]) /\ m \in Messages
    BY <1>1, <1>12, TakeFacts DEF ReadMessage
  <2>2. toCtl' \in [Nodes -> Seq(Messages)] /\ \A c \in Nodes : Len(toCtl'[c]) <= MaxQueue
    BY <1>1, <1>12, TakeFacts DEF ReadMessage
  <2>3. acquired' \in [LPs -> SUBSET Nodes] /\ location' \in [Addresses -> Nodes \cup {NoNode}]
    <3>1. m.kind = "release" => ReleaseNode(m)
      BY <1>12, <2>1 DEF ReadMessage
    <3>2. m.kind # "release" => UpdateLocation(m)
      BY <1>12, <2>1 DEF ReadMessage
    <3>3. acquired \in [LPs -> SUBSET Nodes] /\ location \in [Addresses -> Nodes \cup {NoNode}]
      BY <1>1 DEF MessagesTyped, HeapInv, HeapTyped
    <3>4. CASE m.kind = "release"
      BY <3>1, <3>3, <3>4 DEF ReleaseNode
    <3>5. CASE m.kind # "release"
      <4>1. m.node \in Nodes
        BY <2>1, <3>5, MessageFacts
      <4> QED
        BY <3>2, <3>3, <3>5, <4>1 DEF UpdateLocation
    <3> QED
      BY <3>4, <3>5
  <2>4. UNCHANGED <<freeSegs, destroys, host, proc>>
    BY <1>12 DEF ReadMessage
  <2>5. HeapInv'
    BY <1>1, <2>3, <2>4, SameHeap DEF HeapInv, HeapTyped
  <2>6. HandlersTyped'
    BY <1>1, <2>4 DEF HandlersTyped
  <2> QED
    BY <1>1, <1>2, <2>2, <2>3, <2>5, <2>6 DEF ClientInv, MessagesTyped
<1> QED
  BY <1>6, <1>7, <1>8, <1>9, <1>10, <1>11, <1>12 DEF MigrationStep

(* The steps of the LPs.                                                   *)
LEMMA LPStepHandlers ==
  ASSUME LPInv, HandlersTyped, LPStep
  PROVE  /\ HandlersTyped' /\ UNCHANGED <<toCtl, segVars>>
         /\ \A n \in Nodes : \/ /\ proc'[n].pc = proc[n].pc /\ proc'[n].dest = proc[n].dest
                                /\ proc'[n].moved = proc[n].moved /\ proc'[n].lp = proc[n].lp
                             \/ /\ proc[n].pc = "calm" /\ proc'[n].pc = "calm"
                                /\ proc[n].dest = NoNode /\ proc'[n].dest = NoNode
                                /\ proc[n].moved = NoProclet /\ proc'[n].moved = NoProclet
<1> DEFINE Same(m) == /\ proc'[m].pc = proc[m].pc /\ proc'[m].dest = proc[m].dest
                      /\ proc'[m].moved = proc[m].moved /\ proc'[m].lp = proc[m].lp
           Calm(m) == /\ proc[m].pc = "calm" /\ proc'[m].pc = "calm"
                      /\ proc[m].dest = NoNode /\ proc'[m].dest = NoNode
                      /\ proc[m].moved = NoProclet /\ proc'[m].moved = NoProclet
<1>0. ProcTyped
  BY DEF LPInv
<1>1. ASSUME NEW n \in Nodes, NEW want \in LPs \cup {NoLP}, NEW b \in Binaries, NEW main \in BOOLEAN,
             RegisterNode(n, want, b, main)
      PROVE  UNCHANGED <<toCtl, segVars>> /\ \A m \in Nodes : Same(m) \/ Calm(m)
  <2>1. UNCHANGED <<toCtl, segVars>> /\ proc[n] = Down
    BY <1>1 DEF RegisterNode
  <2>2. PICK lp : lp = IF want # NoLP THEN want ELSE Least(freeLPs)
    OBVIOUS
  <2>3. PICK new : new = [Down EXCEPT !.lp = lp, !.binary = b, !.main = main]
    OBVIOUS
  <2>4. UNCHANGED proc \/ proc' = [proc EXCEPT ![n] = new]
    BY <1>1, <2>2, <2>3 DEF RegisterNode
  <2>5. new.pc = "calm" /\ new.dest = NoNode /\ new.moved = NoProclet
    BY <2>3 DEF Down
  <2> QED
    BY <1>0, <2>1, <2>4, <2>5 DEF ProcTyped, Down
<1>2. ASSUME NEW n \in Nodes, DestroyLP(n)
      PROVE  UNCHANGED <<toCtl, segVars>> /\ \A m \in Nodes : Same(m) \/ Calm(m)
  BY <1>0, <1>2 DEF DestroyLP, ProcTyped
<1>3. ASSUME NEW n \in Nodes, proc[n].pc = "calm", proc' = [proc EXCEPT ![n] = Down]
      PROVE  \A m \in Nodes : Same(m) \/ Calm(m)
  <2>1. proc[n].dest = NoNode /\ proc[n].moved = NoProclet
    BY <1>3 DEF HandlersTyped
  <2> QED
    BY <1>0, <1>3, <2>1 DEF ProcTyped, Down
<1>4. ASSUME NEW n \in Nodes, MainExits(n)
      PROVE  UNCHANGED <<toCtl, segVars>> /\ \A m \in Nodes : Same(m) \/ Calm(m)
  <2>1. proc[n].pc = "calm" /\ proc' = [proc EXCEPT ![n] = Down] /\ UNCHANGED <<toCtl, segVars>>
    BY <1>4 DEF MainExits
  <2> HIDE DEF Same, Calm
  <2> QED
    BY <1>3, <2>1
<1>5. ASSUME NEW lp \in LPs, NEW n \in Nodes, Shutdown(lp, n)
      PROVE  UNCHANGED <<toCtl, segVars>> /\ \A m \in Nodes : Same(m) \/ Calm(m)
  <2>1. proc[n].pc = "calm" /\ proc' = [proc EXCEPT ![n] = Down] /\ UNCHANGED <<toCtl, segVars>>
    BY <1>5 DEF Shutdown
  <2> HIDE DEF Same, Calm
  <2> QED
    BY <1>3, <2>1
<1>6. ASSUME NEW lp \in LPs, SweepNode(lp) \/ LPDestroyed(lp)
      PROVE  UNCHANGED <<toCtl, segVars>> /\ \A m \in Nodes : Same(m) \/ Calm(m)
  BY <1>6 DEF SweepNode, LPDestroyed
<1> HIDE DEF Same, Calm
<1>7. UNCHANGED <<toCtl, segVars>> /\ \A m \in Nodes : Same(m) \/ Calm(m)
  BY <1>1, <1>2, <1>4, <1>5, <1>6 DEF LPStep
<1>8. HandlersTyped'
  BY <1>7 DEF HandlersTyped, Same, Calm
<1> QED
  BY <1>7, <1>8 DEF Same, Calm

LEMMA LPStepClient ==
  ASSUME ClientInv, LPStep
  PROVE  ClientInv'
<1>1. /\ LPInv /\ LPInv' /\ MessagesTyped /\ HandlersTyped /\ InOneLP /\ HeapInv
      /\ HandlersTyped' /\ UNCHANGED <<toCtl, freeSegs, location, host, destroys>>
  BY LPStepLPInv, LPStepHandlers DEF ClientInv, segVars
<1>2. HeapInv'
  BY <1>1, SameHeap DEF HeapInv, HeapTyped
<1>3. acquired' \in [LPs -> SUBSET Nodes] /\ InOneLP'
  <2>1. CASE UNCHANGED <<acquired, members>>
    BY <1>1, <2>1 DEF MessagesTyped, InOneLP
  <2>2. ASSUME NEW n \in Nodes, NEW want \in LPs \cup {NoLP}, NEW b \in Binaries, NEW main \in BOOLEAN,
               RegisterNode(n, want, b, main)
        PROVE  acquired' \in [LPs -> SUBSET Nodes] /\ InOneLP'
    <3>1. PICK lp \in LPs : \/ UNCHANGED members
                            \/ members' = [members EXCEPT ![lp] = @ \cup {n}]
      BY <1>1, <2>2, RegistrationLP DEF RegisterNode
    <3>2. UNCHANGED acquired /\ \A l \in LPs : n \notin members[l]
      BY <2>2 DEF RegisterNode
    <3>3. \A l \in LPs : members'[l] = members[l] \/ (l = lp /\ members'[l] = members[l] \cup {n})
      BY <1>1, <3>1 DEF LPInv, LPsTyped
    <3> QED
      BY <1>1, <3>2, <3>3 DEF MessagesTyped, InOneLP
  <2>3. ASSUME NEW lp \in LPs, LPDestroyed(lp)
        PROVE  acquired' \in [LPs -> SUBSET Nodes] /\ InOneLP'
    <3>1. \A l \in LPs : members'[l] = members[l] \/ members'[l] = {}
      BY <1>1, <2>3 DEF LPDestroyed, LPInv, LPsTyped
    <3>2. acquired' = [acquired EXCEPT ![lp] = {}]
      BY <2>3 DEF LPDestroyed
    <3> QED
      BY <1>1, <3>1, <3>2 DEF MessagesTyped, InOneLP
  <2> QED
    BY <2>1, <2>2, <2>3 DEF LPStep, DestroyLP, MainExits, SweepNode, Shutdown, lpVars
<1>4. MessagesTyped'
  BY <1>1, <1>3 DEF MessagesTyped
<1> QED
  BY <1>1, <1>2, <1>3, <1>4 DEF ClientInv

(* What the steps about the proclets leave alone.                          *)
LEMMA ProcletStepLeaves ==
  ASSUME ProcletStep
  PROVE  UNCHANGED <<freeLPs, members, acquired, sweep, bug, proc, toCtl>>
<1>1. ASSUME NEW n \in Nodes, NEW size \in Sizes, NEW hint \in Nodes \cup {NoNode},
             AllocateProclet(n, size, hint)
      PROVE  UNCHANGED <<freeLPs, members, acquired, sweep, bug, proc, toCtl>>
  BY <1>1 DEF AllocateProclet
<1>2. ASSUME NEW a \in Addresses, DropProclet(a)
      PROVE  UNCHANGED <<freeLPs, members, acquired, sweep, bug, proc, toCtl>>
  BY <1>2 DEF DropProclet, lpVars
<1>3. ASSUME NEW m \in destroys, DestroyProclet(m)
      PROVE  UNCHANGED <<freeLPs, members, acquired, sweep, bug, proc, toCtl>>
  BY <1>3 DEF DestroyProclet, lpVars
<1> QED
  BY <1>1, <1>2, <1>3 DEF ProcletStep

LEMMA ProcletStepClient ==
  ASSUME ClientInv, ProcletStep
  PROVE  ClientInv'
<1>1. /\ LPInv /\ LPInv' /\ MessagesTyped /\ HandlersTyped /\ InOneLP /\ HeapInv
  BY ProcletStepLPInv DEF ClientInv
<1>2. UNCHANGED <<acquired, toCtl, proc, members>>
  BY ProcletStepLeaves
<1>3. MessagesTyped' /\ HandlersTyped' /\ InOneLP'
  BY <1>1, <1>2 DEF MessagesTyped, HandlersTyped, InOneLP
<1>4. HeapInv'
  BY <1>1, AllocateHeap, DropHeap, DestroyHeap DEF ProcletStep
<1> QED
  BY <1>1, <1>3, <1>4 DEF ClientInv

LEMMA ClientStep ==
  ASSUME ClientInv, [Next]_vars
  PROVE  ClientInv'
<1>1. CASE UNCHANGED vars
  <2>1. LPInv'
    BY <1>1, StutterLPInv DEF ClientInv, vars, lpVars, lpInvVars
  <2>2. HeapInv'
    BY <1>1, SameHeap DEF ClientInv, HeapInv, HeapTyped, vars, segVars
  <2>3. MessagesTyped' /\ HandlersTyped' /\ InOneLP'
    BY <1>1 DEF ClientInv, MessagesTyped, HandlersTyped, InOneLP, vars, lpVars
  <2> QED
    BY <2>1, <2>2, <2>3 DEF ClientInv
<1> QED
  BY <1>1, LPStepClient, ProcletStepClient, MigrationClient DEF Next

(* No assumption on the clients is needed for this part of the invariant.  *)
THEOREM ClientInvariant == Spec => []ClientInv
BY InitClient, ClientStep, PTL DEF Spec

(* Whatever the clients do, no address is ever in two heap segments, free, *)
(* in use or on its way back: get_free_proclet_heap_segment cuts a segment *)
(* up without leaving it in its stack, allocate_proclet gives none out     *)
(* twice, and destroy_proclet takes none that is in use.                   *)
THEOREM SegmentsNeverOverlap == Spec => []SegmentsDisjoint
<1>1. ASSUME NEW x, NEW y, x.start \in Nat, x.size \in Nat, y.start \in Nat, y.size \in Nat, Apart(x, y)
      PROVE  Extent(x) \cap Extent(y) = {}
  BY <1>1 DEF Extent, Apart
<1>2. ClientInv => SegmentsDisjoint
  <2> SUFFICES ASSUME ClientInv PROVE SegmentsDisjoint
    OBVIOUS
  <2>1. SlotsTyped(freeSegs) /\ SegmentsApart(freeSegs, InUse) /\ InUse \subseteq Segment
    BY InUseFacts DEF ClientInv, HeapInv, HeapTyped
  <2>2. ASSUME NEW x \in FreeSlots
        PROVE  /\ x[1] \in Sizes /\ x[2] \in 1..Len(freeSegs[x[1]])
               /\ freeSegs[x[1]][x[2]].start \in Nat /\ freeSegs[x[1]][x[2]].size \in Nat
    <3>1. x[1] \in Sizes /\ x[2] \in DOMAIN freeSegs[x[1]]
      BY DEF FreeSlots
    <3>2. x[2] \in 1..Len(freeSegs[x[1]]) /\ x[1] \in Nat
      BY <2>1, <3>1, SlotFacts, ConstantFacts
    <3>3. freeSegs[x[1]][x[2]].start \in 1..Bytes /\ freeSegs[x[1]][x[2]].size = x[1]
      BY <2>1, <3>1, <3>2, SlotFacts
    <3> QED
      BY <3>1, <3>2, <3>3
  <2>3. ASSUME NEW y \in InUse PROVE y.start \in Nat /\ y.size \in Nat
    BY <2>1, ConstantFacts DEF Segment
  <2>4. ASSUME NEW x \in FreeSlots, NEW y \in FreeSlots, x # y
        PROVE  Extent(freeSegs[x[1]][x[2]]) \cap Extent(freeSegs[y[1]][y[2]]) = {}
    <3>1. x[1] # y[1] \/ x[2] # y[2]
      BY <2>4 DEF FreeSlots
    <3>2. Apart(freeSegs[x[1]][x[2]], freeSegs[y[1]][y[2]])
      BY <2>1, <2>2, <3>1 DEF SegmentsApart
    <3> QED
      BY <1>1, <2>2, <3>2
  <2>5. ASSUME NEW x \in InUse, NEW y \in InUse, x # y
        PROVE  Extent(x) \cap Extent(y) = {}
    <3>1. Apart(x, y)
      BY <2>1, <2>5 DEF SegmentsApart
    <3> QED
      BY <1>1, <2>3, <3>1
  <2>6. ASSUME NEW x \in FreeSlots, NEW y \in InUse
        PROVE  Extent(freeSegs[x[1]][x[2]]) \cap Extent(y) = {}
    <3>1. Apart(freeSegs[x[1]][x[2]], y)
      BY <2>1, <2>2 DEF SegmentsApart
    <3> QED
      BY <1>1, <2>2, <2>3, <3>1
  <2> QED
    BY <2>4, <2>5, <2>6 DEF SegmentsDisjoint
<1> QED
  BY <1>2, ClientInvariant, PTL
=============================================================================
