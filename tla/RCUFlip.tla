------------------------------ MODULE RCUFlip ------------------------------
(***************************************************************************)
(* The algorithm of nu::RCULock, above its counters: a reader samples      *)
(* flag_, publishes itself under the sample, and stays published under it  *)
(* until it leaves; writer_sync waits out the stores already issued        *)
(* (delay_us), then twice flips flag_ and waits until the sections         *)
(* published under the old value have been seen to be gone.                *)
(*                                                                         *)
(* A publication is ISSUED by the store that increments the reader's       *)
(* per-core counter and becomes VISIBLE when the store buffer drains: the  *)
(* reader does not fence, which is why the writer delays (TBTSO).          *)
(***************************************************************************)
CONSTANTS Readers, Writers

VARIABLES
  flag,         (* RCULock::flag_                                          *)
  rpc,          (* per reader: idle, sampled, issued, visible              *)
  rflag,        (* per reader: the flag of its rcu_context                 *)
  wpc,          (* per writer: where it is in writer_sync                  *)
  owed,         (* per writer: publications its delay still waits for      *)
  snap,         (* per writer: sections open at its call, still open       *)
  drained       (* since the last flip, the old flag once had no visible   *)
                (* section                                                 *)

vars == <<flag, rpc, rflag, wpc, owed, snap, drained>>

ReaderPC == {"idle", "sampled", "issued", "visible"}
WriterPC == {"idle", "delay", "mutex", "wait1", "flip2", "wait2", "done"}

(* The writers inside the scope of ScopedLock g(&mutex_).                  *)
InMutex == {"wait1", "flip2", "wait2"}

Inside == {r \in Readers : rpc[r] \in {"issued", "visible"}}
VisibleUnder(f) == {r \in Readers : rpc[r] = "visible" /\ rflag[r] = f}

(* The types of the variables.                                             *)
TypeOK ==
  /\ flag \in BOOLEAN
  /\ rpc \in [Readers -> ReaderPC]
  /\ rflag \in [Readers -> BOOLEAN]
  /\ wpc \in [Writers -> WriterPC]
  /\ owed \in [Writers -> SUBSET Readers]
  /\ snap \in [Writers -> SUBSET Readers]
  /\ drained \in BOOLEAN

Init ==
  /\ flag = FALSE
  /\ rpc = [r \in Readers |-> "idle"]
  /\ rflag = [r \in Readers |-> FALSE]
  /\ wpc = [w \in Writers |-> "idle"]
  /\ owed = [w \in Writers |-> {}]
  /\ snap = [w \in Writers |-> {}]
  /\ drained = TRUE

(* The old flag was drained before, or is now.                             *)
ObserveDrained == drained' = (drained \/ VisibleUnder(~flag)' = {})

---------------------------------------------------------------------------
(* The reader.                                                             *)

Sample(r) ==
  /\ rpc[r] = "idle"
  /\ rpc' = [rpc EXCEPT ![r] = "sampled"]
  /\ rflag' = [rflag EXCEPT ![r] = flag]
  /\ UNCHANGED <<flag, wpc, owed, snap>>
  /\ ObserveDrained

Issue(r) ==
  /\ rpc[r] = "sampled"
  /\ rpc' = [rpc EXCEPT ![r] = "issued"]
  /\ UNCHANGED <<flag, rflag, wpc, owed, snap>>
  /\ ObserveDrained

Drain(r) ==
  /\ rpc[r] = "issued"
  /\ rpc' = [rpc EXCEPT ![r] = "visible"]
  /\ owed' = [w \in Writers |-> owed[w] \ {r}]
  /\ UNCHANGED <<flag, rflag, wpc, snap>>
  /\ ObserveDrained

Unlock(r) ==
  /\ rpc[r] = "visible"
  /\ rpc' = [rpc EXCEPT ![r] = "idle"]
  /\ rflag' = [rflag EXCEPT ![r] = FALSE]      \* the context is given back
  /\ snap' = [w \in Writers |-> snap[w] \ {r}]
  /\ UNCHANGED <<flag, wpc, owed>>
  /\ ObserveDrained

---------------------------------------------------------------------------
(* The writer.                                                             *)

SyncCall(w) ==
  /\ wpc[w] = "idle"
  /\ wpc' = [wpc EXCEPT ![w] = "delay"]
  /\ snap' = [snap EXCEPT ![w] = Inside]
  /\ owed' = [owed EXCEPT ![w] = {r \in Readers : rpc[r] = "issued"}]
  /\ UNCHANGED <<flag, rpc, rflag>>
  /\ ObserveDrained

(* Mutant: no delay before the first flip.                                 *)
DelayForgotten(w) ==
  /\ wpc[w] = "delay"
  /\ wpc' = [wpc EXCEPT ![w] = "mutex"]
  /\ owed' = [owed EXCEPT ![w] = {}]
  /\ UNCHANGED <<flag, rpc, rflag, snap>>
  /\ ObserveDrained

DelayDone(w) ==
  /\ wpc[w] = "delay"
  /\ owed[w] = {}
  /\ wpc' = [wpc EXCEPT ![w] = "mutex"]
  /\ UNCHANGED <<flag, rpc, rflag, owed, snap>>
  /\ ObserveDrained

(* A flip makes the sections of the current flag the old ones.             *)
FlipFlag ==
  /\ flag' = ~flag
  /\ drained' = (VisibleUnder(flag) = {})

(* Mutant: writer_sync does not take mutex_.                               *)
FlipUnlocked(w) ==
  /\ wpc[w] = "mutex"
  /\ wpc' = [wpc EXCEPT ![w] = "wait1"]
  /\ FlipFlag
  /\ UNCHANGED <<rpc, rflag, owed, snap>>

LockAndFlip(w) ==
  /\ wpc[w] = "mutex"
  /\ \A v \in Writers : wpc[v] \notin InMutex
  /\ wpc' = [wpc EXCEPT ![w] = "wait1"]
  /\ FlipFlag
  /\ UNCHANGED <<rpc, rflag, owed, snap>>

FirstWaitDone(w) ==
  /\ wpc[w] = "wait1"
  /\ drained
  /\ wpc' = [wpc EXCEPT ![w] = "flip2"]
  /\ UNCHANGED <<flag, rpc, rflag, owed, snap>>
  /\ ObserveDrained

(* Mutant: one flip is taken to be enough.                                 *)
SecondFlipForgotten(w) ==
  /\ wpc[w] = "flip2"
  /\ wpc' = [wpc EXCEPT ![w] = "wait2"]
  /\ UNCHANGED <<flag, rpc, rflag, owed, snap>>
  /\ ObserveDrained

SecondFlip(w) ==
  /\ wpc[w] = "flip2"
  /\ wpc' = [wpc EXCEPT ![w] = "wait2"]
  /\ FlipFlag
  /\ UNCHANGED <<rpc, rflag, owed, snap>>

SecondWaitDone(w) ==
  /\ wpc[w] = "wait2"
  /\ drained
  /\ wpc' = [wpc EXCEPT ![w] = "done"]
  /\ UNCHANGED <<flag, rpc, rflag, owed, snap>>
  /\ ObserveDrained

SyncReturn(w) ==
  /\ wpc[w] = "done"
  /\ wpc' = [wpc EXCEPT ![w] = "idle"]
  /\ UNCHANGED <<flag, rpc, rflag, owed, snap>>
  /\ ObserveDrained

ReaderStep(r) == Sample(r) \/ Issue(r) \/ Drain(r) \/ Unlock(r)
WriterStep(w) ==
  \/ SyncCall(w) \/ DelayDone(w) \/ LockAndFlip(w) \/ FirstWaitDone(w)
  \/ SecondFlip(w) \/ SecondWaitDone(w) \/ SyncReturn(w)

Next ==
  \/ \E r \in Readers : ReaderStep(r)
  \/ \E w \in Writers : WriterStep(w)

Spec == Init /\ [][Next]_vars

---------------------------------------------------------------------------
(* Properties.                                                             *)

(* When flip_and_wait has been done twice, every section that was open at  *)
(* the call of writer_sync has ended: what Migrator::__migrate and the     *)
(* destruction path rely on before they touch the heap.                    *)
GracePeriodOver == \A w \in Writers : wpc[w] = "done" => snap[w] = {}

(* The algorithm implements the promise.                                   *)
Promise == INSTANCE GracePeriod WITH
  inside <- Inside,
  syncing <- {w \in Writers : wpc[w] # "idle"},
  waitFor <- snap

(* Seen by its clients, RCULock behaves as a grace-period primitive: a     *)
(* reader_lock, a reader_unlock, the call and the return of writer_sync    *)
(* are its only visible steps, and the return outlasts the open sections.  *)
ImplementsPromise == Promise!Spec

(* Why it works.  A section of the snapshot is visible once the delay is   *)
(* over and keeps its flag; the first wait rules out one value of the flag *)
(* and the second one the other.                                           *)
SnapInside == \A w \in Writers : snap[w] \subseteq Inside
OwedCovers ==
  \A w \in Writers : \A r \in snap[w] : rpc[r] = "issued" => r \in owed[w]
DelayIsOver ==
  \A w \in Writers : wpc[w] \notin {"idle", "delay"} => owed[w] = {}
MutexHeldOnce ==
  \A v, w \in Writers : wpc[v] \in InMutex /\ wpc[w] \in InMutex => v = w
OldFlagRuledOut ==
  \A w \in Writers :
    /\ wpc[w] \in {"wait1", "wait2"} /\ drained
         => \A r \in snap[w] : rflag[r] = flag
    /\ wpc[w] = "flip2" => \A r \in snap[w] : rflag[r] = flag
    /\ wpc[w] = "wait2" => \A r \in snap[w] : rflag[r] # flag

IInv ==
  /\ TypeOK
  /\ SnapInside
  /\ OwedCovers
  /\ DelayIsOver
  /\ MutexHeldOnce
  /\ OldFlagRuledOut
  /\ GracePeriodOver
=============================================================================
