------------------------------ MODULE RCULock ------------------------------
(***************************************************************************)
(* nu::RCULock as it is coded: two banks of per-core counters, one per     *)
(* value of flag_, incremented and decremented without atomics by threads  *)
(* that may lock on one core and unlock on another, and summed by          *)
(* flip_and_wait while they change.                                        *)
(*                                                                         *)
(* Each core holds one 64-bit word {val, ver} per bank, updated by a plain *)
(* load and store of the word with preemption off; the store sits in the   *)
(* core's store buffer until it drains.  The writer reads the words of     *)
(* other cores from memory.                                                *)
(*                                                                         *)
(* Bounds.  Width: the counters wrap modulo Width (2^32 in the code).      *)
(* MaxNest: the nesting of one thread.  MaxSections: how many outermost    *)
(* sections are opened in all, 0 for no bound.  A store buffer holds one   *)
(* of our stores at a time: the next one waits for it to drain.            *)
(***************************************************************************)
EXTENDS Naturals, FiniteSetsExt

CONSTANTS
  Readers, Writers,
  NumCores,       (* kNumCores                                             *)
  Width,          (* the counters are computed modulo Width                *)
  MaxNest,        (* bound on the nesting of one thread                    *)
  MaxSections,    (* bound on the sections opened, 0 for none              *)
  LoadOrders      (* how the build may load the two halves of a word in    *)
                  (* the first loop of flip_and_wait: the source reads     *)
                  (* cnt.val, then cnt.ver, in two plain loads which the   *)
                  (* compiler may merge or swap                            *)

ASSUME ConstantsOK ==
  /\ NumCores \in Nat \ {0}
  /\ Width \in Nat \ {0} /\ Width > Cardinality(Readers)
  /\ MaxNest \in Nat \ {0} /\ MaxSections \in Nat
  /\ LoadOrders \subseteq {"together", "ver_first", "val_first"}

Cores == 1..NumCores

VARIABLES
  flag,           (* flag_                                                 *)
  mem,            (* aligned_cnts_[flag][core] as other cores see it       *)
  buf,            (* per core, the store it has not made visible           *)
  ctx,            (* per thread, its rcu_context and where it runs         *)
  wr,             (* per writer, its control point                         *)
  scan,           (* locals of flip_and_wait, of the holder of mutex_      *)
  owedCores,      (* per writer, the cores delay_us still covers           *)
  snap, drained,  (* history: see RCUFlip                                  *)
  sections        (* sections opened, when MaxSections bounds them         *)

vars == <<flag, mem, buf, ctx, wr, scan, owedCores, snap, drained, sections>>

NoCore == 0
NoStore == [by |-> "none"]
Word == [val : 0..(Width - 1), ver : 0..(Width - 1)]
IdleCtx == [pc |-> "idle", flag |-> FALSE, nest |-> 0, core |-> NoCore]
NoScan == [round |-> 0, core |-> 0, val |-> 0, ver |-> 0, ver2 |-> 0, half |-> "none"]

Pending(c) == buf[c] # NoStore

(* cnt_ref.raw as core c itself reads it, its own store forwarded.         *)
OwnWord(f, c) == IF Pending(c) /\ buf[c].flag = f THEN buf[c].word ELSE mem[f][c]

Plus(n, d) == (n + d) % Width
Minus1(n) == (n + Width - 1) % Width

(* Cores on which a thread sits between its load of flag_ and its store,   *)
(* preemption disabled: no other thread runs there.                        *)
Busy(c) == \E r \in Readers : ctx[r].pc = "sampled" /\ ctx[r].core = c

Visible(r) == ctx[r].pc = "inside" /\ \A c \in Cores : buf[c].by # r
Inside == {r \in Readers : ctx[r].pc = "inside"}

ObserveDrained ==
  drained' = (drained \/ {r \in Readers : Visible(r) /\ ctx[r].flag = ~flag}' = {})

Init ==
  /\ flag = FALSE
  /\ mem = [f \in BOOLEAN |-> [c \in Cores |-> [val |-> 0, ver |-> 0]]]
  /\ buf = [c \in Cores |-> NoStore]
  /\ ctx = [r \in Readers |-> IdleCtx]
  /\ wr = [w \in Writers |-> "idle"]
  /\ scan = NoScan
  /\ owedCores = [w \in Writers |-> {}]
  /\ snap = [w \in Writers |-> {}]
  /\ drained = TRUE
  /\ sections = 0

---------------------------------------------------------------------------
(* reader_lock: load_acquire(&flag_), then thread_hold_rcu and the store.  *)
(* A thread comes to a core through locks: what it stored on another core  *)
(* is visible by then.                                                     *)

RunsOn(r, c) == ~Busy(c) /\ \A d \in Cores \ {c} : buf[d].by # r

LoadFlag(r, c) ==
  /\ ctx[r].pc = "idle"
  /\ RunsOn(r, c)
  /\ ctx' = [ctx EXCEPT ![r] = [pc |-> "sampled", flag |-> flag, nest |-> 0, core |-> c]]
  /\ \/ MaxSections = 0 /\ UNCHANGED sections
     \/ sections < MaxSections /\ sections' = sections + 1
  /\ UNCHANGED <<flag, mem, buf, wr, scan, owedCores, snap>>
  /\ ObserveDrained

HoldAndCount(r) ==
  LET c == ctx[r].core
      f == ctx[r].flag
      old == OwnWord(f, c)
      new == [val |-> Plus(old.val, 1), ver |-> Plus(old.ver, 1)]
  IN
  /\ ctx[r].pc = "sampled"
  /\ ~Pending(c)
  /\ buf' = [buf EXCEPT ![c] = [by |-> r, flag |-> f, word |-> new]]
  /\ ctx' = [ctx EXCEPT ![r] = [pc |-> "inside", flag |-> f, nest |-> 1, core |-> NoCore]]
  /\ UNCHANGED <<flag, mem, wr, scan, owedCores, snap, sections>>
  /\ ObserveDrained

(* An inner reader_lock finds the context and counts nothing.              *)
LockNested(r) ==
  /\ ctx[r].pc = "inside"
  /\ ctx[r].nest < MaxNest
  /\ ctx' = [ctx EXCEPT ![r].nest = @ + 1]
  /\ UNCHANGED <<flag, mem, buf, wr, scan, owedCores, snap, sections>>
  /\ ObserveDrained

UnlockNested(r) ==
  /\ ctx[r].pc = "inside"
  /\ ctx[r].nest > 1
  /\ ctx' = [ctx EXCEPT ![r].nest = @ - 1]
  /\ UNCHANGED <<flag, mem, buf, wr, scan, owedCores, snap, sections>>
  /\ ObserveDrained

(* thread_unhold_rcu: the flag the section was opened under.  Mutant: the  *)
(* one that is current.                                                    *)
CurrentFlag(r) == flag
HeldFlag(r) == ctx[r].flag

(* The outermost reader_unlock, on the core the thread runs on by then.    *)
(* The version is left alone.                                              *)
UnlockOutermost(r, c) ==
  LET f == HeldFlag(r)
      old == OwnWord(f, c)
      new == [val |-> Minus1(old.val), ver |-> old.ver]
  IN
  /\ ctx[r].pc = "inside"
  /\ ctx[r].nest = 1
  /\ RunsOn(r, c)
  /\ ~Pending(c)
  /\ buf' = [buf EXCEPT ![c] = [by |-> r, flag |-> f, word |-> new]]
  /\ ctx' = [ctx EXCEPT ![r] = IdleCtx]
  /\ snap' = [w \in Writers |-> snap[w] \ {r}]
  /\ UNCHANGED <<flag, mem, wr, scan, owedCores, sections>>
  /\ ObserveDrained

(* The store buffer of a core drains.                                      *)
DrainStore(c) ==
  /\ Pending(c)
  /\ mem' = [mem EXCEPT ![buf[c].flag][c] = buf[c].word]
  /\ buf' = [buf EXCEPT ![c] = NoStore]
  /\ owedCores' = [w \in Writers |-> owedCores[w] \ {c}]
  /\ UNCHANGED <<flag, ctx, wr, scan, snap, sections>>
  /\ ObserveDrained

---------------------------------------------------------------------------
(* writer_sync.                                                            *)

InMutex == {"sum", "verify", "flip2"}

SyncCall(w) ==
  /\ wr[w] = "idle"
  /\ wr' = [wr EXCEPT ![w] = "delay"]
  /\ owedCores' = [owedCores EXCEPT ![w] = {c \in Cores : Pending(c)}]
  /\ snap' = [snap EXCEPT ![w] = Inside]
  /\ UNCHANGED <<flag, mem, buf, ctx, scan, sections>>
  /\ ObserveDrained

(* delay_us(kTemporalBoundUs): the stores issued before it are visible.    *)
DelayDone(w) ==
  /\ wr[w] = "delay"
  /\ owedCores[w] = {}
  /\ wr' = [wr EXCEPT ![w] = "mutex"]
  /\ UNCHANGED <<flag, mem, buf, ctx, scan, owedCores, snap, sections>>
  /\ ObserveDrained

(* store_release(&flag_, !flag); mb(): the bank just left becomes the one  *)
(* to be scanned.                                                          *)
StartScan(round) == scan' = [NoScan EXCEPT !.round = round, !.core = 1]

Flip ==
  /\ flag' = ~flag
  /\ drained' = ({r \in Readers : Visible(r) /\ ctx[r].flag = flag} = {})

LockAndFlip(w) ==
  /\ wr[w] = "mutex"
  /\ \A v \in Writers : wr[v] \notin InMutex
  /\ Flip
  /\ StartScan(1)
  /\ wr' = [wr EXCEPT ![w] = "sum"]
  /\ UNCHANGED <<mem, buf, ctx, owedCores, snap, sections>>

SecondFlip(w) ==
  /\ wr[w] = "flip2"
  /\ Flip
  /\ StartScan(2)
  /\ wr' = [wr EXCEPT ![w] = "sum"]
  /\ UNCHANGED <<mem, buf, ctx, owedCores, snap, sections>>

NewWord(c) == mem[flag][c]     \* mutant: scans the bank in use
OldWord(c) == mem[~flag][c]
AddVal(s) == [s EXCEPT !.val = Plus(@, OldWord(s.core).val)]
AddVer(s) == [s EXCEPT !.ver = Plus(@, OldWord(s.core).ver)]
NextCore(s) == [s EXCEPT !.core = @ + 1, !.half = "none"]

(* One iteration of the first loop, in one load or in two.                 *)
SumTogether(w) ==
  /\ wr[w] = "sum" /\ scan.core \in Cores /\ scan.half = "none"
  /\ "together" \in LoadOrders
  /\ scan' = NextCore(AddVal(AddVer(scan)))
  /\ UNCHANGED <<flag, mem, buf, ctx, wr, owedCores, snap, sections>>
  /\ ObserveDrained

SumFirstHalf(w) ==
  /\ wr[w] = "sum" /\ scan.core \in Cores /\ scan.half = "none"
  /\ \E o \in LoadOrders \ {"together"} :
       scan' = IF o = "val_first" THEN [AddVal(scan) EXCEPT !.half = "val"]
                                  ELSE [AddVer(scan) EXCEPT !.half = "ver"]
  /\ UNCHANGED <<flag, mem, buf, ctx, wr, owedCores, snap, sections>>
  /\ ObserveDrained

SumSecondHalf(w) ==
  /\ wr[w] = "sum" /\ scan.half # "none"
  /\ scan' = NextCore(IF scan.half = "val" THEN AddVer(scan) ELSE AddVal(scan))
  /\ UNCHANGED <<flag, mem, buf, ctx, wr, owedCores, snap, sections>>
  /\ ObserveDrained

(* if (sum_val) goto retry; otherwise start over the versions.             *)
SumDone(w) ==
  /\ wr[w] = "sum" /\ scan.core > NumCores
  /\ IF scan.val # 0
     THEN StartScan(scan.round) /\ UNCHANGED wr
     ELSE scan' = [scan EXCEPT !.core = 1] /\ wr' = [wr EXCEPT ![w] = "verify"]
  /\ UNCHANGED <<flag, mem, buf, ctx, owedCores, snap, sections>>
  /\ ObserveDrained

VerifyWord(w) ==
  /\ wr[w] = "verify" /\ scan.core \in Cores
  /\ scan' = [scan EXCEPT !.ver2 = Plus(@, OldWord(scan.core).ver), !.core = @ + 1]
  /\ UNCHANGED <<flag, mem, buf, ctx, wr, owedCores, snap, sections>>
  /\ ObserveDrained

(* if (sum_ver != latest_sum_ver) goto retry; otherwise this flip is done. *)
VersionsAgree == scan.ver = scan.ver2

VerifyDone(w) ==
  /\ wr[w] = "verify" /\ scan.core > NumCores
  /\ IF ~VersionsAgree
     THEN StartScan(scan.round) /\ wr' = [wr EXCEPT ![w] = "sum"]
     ELSE /\ wr' = [wr EXCEPT ![w] = IF scan.round = 1 THEN "flip2" ELSE "done"]
          /\ scan' = NoScan
  /\ UNCHANGED <<flag, mem, buf, ctx, owedCores, snap, sections>>
  /\ ObserveDrained

SyncReturn(w) ==
  /\ wr[w] = "done"
  /\ wr' = [wr EXCEPT ![w] = "idle"]
  /\ UNCHANGED <<flag, mem, buf, ctx, scan, owedCores, snap, sections>>
  /\ ObserveDrained

Unlock(r) == UnlockNested(r) \/ \E c \in Cores : UnlockOutermost(r, c)

ReaderStep(r) ==
  \/ \E c \in Cores : LoadFlag(r, c)
  \/ HoldAndCount(r) \/ LockNested(r) \/ Unlock(r)

SyncStep(w) ==
  \/ DelayDone(w) \/ LockAndFlip(w) \/ SecondFlip(w)
  \/ SumTogether(w) \/ SumFirstHalf(w) \/ SumSecondHalf(w) \/ SumDone(w)
  \/ VerifyWord(w) \/ VerifyDone(w) \/ SyncReturn(w)

Next ==
  \/ \E r \in Readers : ReaderStep(r)
  \/ \E c \in Cores : DrainStore(c)
  \/ \E w \in Writers : SyncCall(w) \/ SyncStep(w)

Spec == Init /\ [][Next]_vars

(* Store buffers drain, a thread that sampled the flag goes on (preemption *)
(* is off), sections end (the runtime prioritizes the threads that hold    *)
(* the lock) and the writer thread runs.                                   *)
Fairness ==
  /\ \A c \in Cores : WF_vars(DrainStore(c))
  /\ \A r \in Readers : WF_vars(HoldAndCount(r)) /\ SF_vars(\E c \in Cores : UnlockOutermost(r, c))
  /\ \A w \in Writers : SF_vars(LockAndFlip(w)) /\ WF_vars(SyncStep(w))

FairSpec == Spec /\ Fairness

---------------------------------------------------------------------------
(* Properties.                                                             *)

TypeOK ==
  /\ flag \in BOOLEAN
  /\ mem \in [BOOLEAN -> [Cores -> Word]]
  /\ \A c \in Cores : Pending(c) => buf[c].word \in Word /\ buf[c].flag \in BOOLEAN
  /\ \A r \in Readers : ctx[r].nest \in 0..MaxNest /\ ctx[r].core \in Cores \cup {NoCore}
  /\ wr \in [Writers -> {"idle", "delay", "mutex", "sum", "verify", "flip2", "done"}]
  /\ scan.core \in 0..(NumCores + 1)

(* The words of a bank, each as its own core reads it and within its       *)
(* width (TypeOK), sum to the number of sections open under that flag,     *)
(* whichever cores they were opened and closed on and however often a      *)
(* counter wrapped.                                                        *)
CountsMatchSections ==
  /\ TypeOK
  /\ \A f \in BOOLEAN :
       MapThenSumSet(LAMBDA c : OwnWord(f, c).val, Cores) % Width
         = Cardinality({r \in Inside : ctx[r].flag = f}) % Width

(* The counters and the two-pass sum implement the flip-and-wait algorithm *)
(* of RCUFlip, and with it its grace period: a scan that passes saw an     *)
(* instant without a section.                                              *)
FlipAlgorithm == INSTANCE RCUFlip WITH
  rpc <- [r \in Readers |->
            CASE ctx[r].pc # "inside" -> ctx[r].pc
              [] Visible(r) -> "visible"
              [] OTHER -> "issued"],
  rflag <- [r \in Readers |-> ctx[r].flag],
  wpc <- [w \in Writers |->
            CASE wr[w] \in {"sum", "verify"} /\ scan.round = 1 -> "wait1"
              [] wr[w] \in {"sum", "verify"} /\ scan.round = 2 -> "wait2"
              [] OTHER -> wr[w]],
  owed <- [w \in Writers |-> {r \in Inside : \E c \in owedCores[w] : buf[c].by = r}]

ImplementsFlipAlgorithm == FlipAlgorithm!Spec

(* Readers that come and go forever cannot keep writer_sync from           *)
(* returning: those that arrive after a flip use the other bank.           *)
WriterReturns == \A w \in Writers : wr[w] = "delay" ~> wr[w] = "done"
=============================================================================
