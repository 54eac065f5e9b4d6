-------------------------- MODULE RCUFlip_proofs --------------------------
(***************************************************************************)
(* Proofs about RCUFlip, for every set of readers and every set of writers:*)
(* the inductive invariant, the grace period, and the refinement of        *)
(* GracePeriod.                                                            *)
(***************************************************************************)
EXTENDS RCUFlip, TLAPS

(* The invariant holds before the first reader or writer arrives.          *)
LEMMA InitIInv == Init => IInv
  BY DEF Init, IInv, TypeOK, ReaderPC, WriterPC, SnapInside, OwedCovers,
         DelayIsOver, MutexHeldOnce, InMutex, OldFlagRuledOut, GracePeriodOver

(* A step of a reader preserves the invariant: an open section moves only  *)
(* forward, its flag is fixed once it is published, and it leaves every    *)
(* snapshot when it ends.                                                  *)
LEMMA ReaderStepIInv ==
  ASSUME IInv, NEW r \in Readers, ReaderStep(r)
  PROVE  IInv'
<1> USE DEF IInv, TypeOK, ReaderPC, WriterPC, SnapInside, OwedCovers,
            DelayIsOver, MutexHeldOnce, InMutex, OldFlagRuledOut,
            GracePeriodOver, Inside, VisibleUnder, ObserveDrained
<1>1. CASE Sample(r)
  BY <1>1 DEF Sample
<1>2. CASE Issue(r)
  BY <1>2 DEF Issue
<1>3. CASE Drain(r)
  BY <1>3 DEF Drain
<1>4. CASE Unlock(r)
  BY <1>4 DEF Unlock
<1> QED
  BY <1>1, <1>2, <1>3, <1>4 DEF ReaderStep

(* A step of a writer preserves the invariant: two waits, one per value of *)
(* the flag, leave nothing of the snapshot.                                *)
LEMMA WriterStepIInv ==
  ASSUME IInv, NEW w \in Writers, WriterStep(w)
  PROVE  IInv'
<1> USE DEF IInv, TypeOK, ReaderPC, WriterPC, SnapInside, OwedCovers,
            DelayIsOver, MutexHeldOnce, InMutex, OldFlagRuledOut,
            GracePeriodOver, Inside, VisibleUnder, ObserveDrained, FlipFlag
<1>1. CASE SyncCall(w)
  BY <1>1 DEF SyncCall
<1>2. CASE DelayDone(w)
  BY <1>2 DEF DelayDone
<1>3. CASE LockAndFlip(w)
  <2>1. TypeOK' /\ SnapInside' /\ OwedCovers' /\ DelayIsOver' /\ GracePeriodOver'
    BY <1>3 DEF LockAndFlip
  <2>2. MutexHeldOnce'
    BY <1>3 DEF LockAndFlip
  <2>3. \A v \in Writers \ {w} : wpc[v] \notin InMutex /\ wpc'[v] = wpc[v]
    BY <1>3 DEF LockAndFlip
  <2>4. \A r \in snap[w] : rpc[r] = "visible"
    BY <1>3 DEF LockAndFlip
  <2>5. drained' => \A r \in snap[w] : rflag[r] = flag'
    <3>1. /\ flag' = ~flag
          /\ drained' = ({r \in Readers : rpc[r] = "visible" /\ rflag[r] = flag} = {})
      BY <1>3 DEF LockAndFlip
    <3>2. snap[w] \subseteq Readers /\ flag \in BOOLEAN /\ rflag \in [Readers -> BOOLEAN]
      OBVIOUS
    <3> HIDE DEF IInv, VisibleUnder
    <3> QED
      BY <2>4, <3>1, <3>2
  <2>6. OldFlagRuledOut'
    BY <1>3, <2>3, <2>5 DEF LockAndFlip
  <2> QED
    BY <2>1, <2>2, <2>6
<1>4. CASE FirstWaitDone(w)
  BY <1>4 DEF FirstWaitDone
<1>5. CASE SecondFlip(w)
  <2>1. TypeOK' /\ SnapInside' /\ OwedCovers' /\ DelayIsOver' /\ GracePeriodOver'
    BY <1>5 DEF SecondFlip
  <2>2. MutexHeldOnce'
    BY <1>5 DEF SecondFlip
  <2>3. \A v \in Writers \ {w} : wpc[v] \notin InMutex /\ wpc'[v] = wpc[v]
    BY <1>5 DEF SecondFlip
  <2>4. \A r \in snap[w] : rpc[r] = "visible"
    BY <1>5 DEF SecondFlip
  <2>5. drained' => \A r \in snap[w] : rflag[r] = flag'
    BY <1>5, <2>4 DEF SecondFlip
  <2>6. OldFlagRuledOut'
    BY <1>5, <2>3, <2>5 DEF SecondFlip
  <2> QED
    BY <2>1, <2>2, <2>6
<1>6. CASE SecondWaitDone(w)
  BY <1>6 DEF SecondWaitDone
<1>7. CASE SyncReturn(w)
  BY <1>7 DEF SyncReturn
<1> QED
  BY <1>1, <1>2, <1>3, <1>4, <1>5, <1>6, <1>7 DEF WriterStep

(* The invariant, for any number of readers and writers.                   *)
THEOREM InductiveInvariant == Spec => []IInv
<1>1. Init => IInv
  BY InitIInv
<1>2. IInv /\ [Next]_vars => IInv'
  <2> SUFFICES ASSUME IInv, [Next]_vars PROVE IInv'
    OBVIOUS
  <2>1. CASE \E r \in Readers : ReaderStep(r)
    BY <2>1, ReaderStepIInv
  <2>2. CASE \E w \in Writers : WriterStep(w)
    BY <2>2, WriterStepIInv
  <2>3. CASE UNCHANGED vars
    BY <2>3 DEF vars, IInv, TypeOK, SnapInside, OwedCovers, DelayIsOver,
                MutexHeldOnce, OldFlagRuledOut, GracePeriodOver, Inside
  <2> QED
    BY <2>1, <2>2, <2>3 DEF Next
<1> QED
  BY <1>1, <1>2, PTL DEF Spec

(* writer_sync returns only when every section open at its call has ended: *)
(* the guarantee behind migrating or destroying a proclet.                 *)
THEOREM GracePeriodHolds == Spec => []GracePeriodOver
<1>1. IInv => GracePeriodOver
  BY DEF IInv
<1> QED
  BY <1>1, InductiveInvariant, PTL

(* The two-flip algorithm implements the promise of an RCU lock: a step is *)
(* an Enter, a Leave, a SyncCall, a SyncReturn or invisible to clients.    *)
THEOREM ImplementsGracePeriod == Spec => ImplementsPromise
<1> USE DEF Promise!Init, Promise!Next, Promise!vars, Promise!Enter,
            Promise!Leave, Promise!SyncCall, Promise!SyncReturn, Inside
<1>1. Init => Promise!Init
  BY DEF Init
<1>2. IInv /\ [Next]_vars => [Promise!Next]_(Promise!vars)
  <2> SUFFICES ASSUME IInv, [Next]_vars
               PROVE  [Promise!Next]_(Promise!vars)
    OBVIOUS
  <2>0. /\ rpc \in [Readers -> ReaderPC]
        /\ wpc \in [Writers -> WriterPC]
        /\ snap \in [Writers -> SUBSET Readers]
    BY DEF IInv, TypeOK
  <2>1. ASSUME NEW r \in Readers, Sample(r)
        PROVE  UNCHANGED Promise!vars
    BY <2>0, <2>1 DEF Sample
  <2>2. ASSUME NEW r \in Readers, Issue(r)
        PROVE  Promise!Enter(r)
    BY <2>0, <2>2 DEF Issue
  <2>3. ASSUME NEW r \in Readers, Drain(r)
        PROVE  UNCHANGED Promise!vars
    BY <2>0, <2>3 DEF Drain
  <2>4. ASSUME NEW r \in Readers, Unlock(r)
        PROVE  Promise!Leave(r)
    BY <2>0, <2>4 DEF Unlock
  <2>5. ASSUME NEW w \in Writers, SyncCall(w)
        PROVE  Promise!SyncCall(w)
    BY <2>0, <2>5 DEF SyncCall
  <2>6. ASSUME NEW w \in Writers,
               \/ DelayDone(w) \/ LockAndFlip(w) \/ FirstWaitDone(w)
               \/ SecondFlip(w) \/ SecondWaitDone(w)
        PROVE  UNCHANGED Promise!vars
    BY <2>0, <2>6 DEF DelayDone, LockAndFlip, FirstWaitDone, SecondFlip,
                      SecondWaitDone
  <2>7. ASSUME NEW w \in Writers, SyncReturn(w)
        PROVE  Promise!SyncReturn(w)
    BY <2>0, <2>7 DEF SyncReturn, IInv, GracePeriodOver
  <2>8. CASE UNCHANGED vars
    BY <2>8 DEF vars
  <2> QED
    BY <2>1, <2>2, <2>3, <2>4, <2>5, <2>6, <2>7, <2>8
       DEF Next, ReaderStep, WriterStep
<1> QED
  BY <1>1, <1>2, InductiveInvariant, PTL DEF Spec, ImplementsPromise, Promise!Spec
=============================================================================
