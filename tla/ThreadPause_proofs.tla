------------------------ MODULE ThreadPause_proofs ------------------------
(***************************************************************************)
(* What holds of ThreadPause for any number of cores, threads, proclets    *)
(* and auxiliary handlers: a thread is in one place, the threads of the    *)
(* proclet are stopped when pause_migrating_ths_main has returned, the     *)
(* scheduler implements AtomicPause, the handlers are counted right, and   *)
(* nobody waits in a circle.                                               *)
(***************************************************************************)
EXTENDS ThreadPause, FiniteSetTheorems, TLAPS

CorePcs == {"parked", "run", "switch", "load", "check", "sched", "steal", "pausing", "shed"}
CoreRec ==
  [pc : CorePcs, cur : Threads \cup {None, Other, Guest}, old : Threads \cup {None, Other, Guest},
   then : {"sched", "steal", "run", "shed"}, tgt : Cores]
MainPcs == {"off", "ready", "request", "signal", "waiting", "forced", "paused", "transmit", "ending"}
AuxPcs == {"off", "serve", "scan", "pausing", "scanned", "stop"}

CoreTypes ==
  /\ core \in [Cores -> CoreRec]
  /\ lock \in [Cores -> Cores \cup Aux \cup {Free}]
  /\ rq \in [Cores -> SUBSET Threads] /\ mig \in [Cores -> SUBSET Threads]
  /\ req \in [Cores -> BOOLEAN]
  /\ running \subseteq Threads /\ blocked \subseteq Threads

TypeOK ==
  /\ CoreTypes
  /\ owner \in [Threads -> Proclets]
  /\ gathered \subseteq Threads /\ gone \subseteq Threads
  /\ mask \in BOOLEAN /\ target \in Proclets \cup {None}
  /\ main \in MainPcs
  /\ aux \in [Aux -> AuxPcs]
  /\ st \in [Aux -> [pending : BOOLEAN, pause : BOOLEAN, done : BOOLEAN]]
  /\ scan \in [i : Nat \ {0}, last : Cores, done : BOOLEAN]

(* The places of OnePlace, as sets of threads: a thread is in one of them. *)
Kinds == {"core", "rq", "mig", "blocked", "gathered", "gone"}
Spots == Cores \cup {0}
OnCore(c) == {t \in Threads : core[c].cur = t /\ core[c].pc # "switch"}
Held(k, c) ==
  CASE k = "core" /\ c \in Cores -> OnCore(c)
    [] k = "rq" /\ c \in Cores -> rq[c]
    [] k = "mig" /\ c \in Cores -> mig[c]
    [] k = "blocked" /\ c = 0 -> blocked
    [] k = "gathered" /\ c = 0 -> gathered
    [] k = "gone" /\ c = 0 -> gone
    [] OTHER -> {}

Placed ==
  \A t \in Threads : \E k \in Kinds, c \in Spots :
    \A j \in Kinds, d \in Spots : t \in Held(j, d) <=> j = k /\ d = c

(* A core that is in the scheduler or the runtime has no thread.           *)
NoThread ==
  \A c \in Cores : core[c].pc \notin {"run", "switch", "load"} => core[c].cur \notin Threads

(* Who holds which lock.                                                   *)
Locked ==
  /\ \A c \in Cores :
       /\ core[c].pc \in {"check", "sched", "steal", "pausing", "shed"} => lock[c] = c
       /\ core[c].pc \in {"steal", "shed"} => core[c].tgt # c
       /\ At(c, "shed") => lock[core[c].tgt] = c
       /\ At(c, "pausing") /\ core[c].then \in {"steal", "shed"} =>
            core[c].tgt # c /\ lock[core[c].tgt] = c
  /\ \A a \in Aux : aux[a] = "pausing" => scan.i \in Cores /\ lock[scan.i] = a

(* The hand-shake of the main handler with the auxiliary one.              *)
Pausing == main \in {"signal", "waiting", "forced"}
Handshake ==
  /\ \A a \in Aux :
       /\ aux[a] \in {"scan", "pausing", "scanned"} => st[a].pause
       /\ aux[a] \in {"scan", "pausing"} => mask
       /\ aux[a] = "scanned" => ~mask /\ main # "request"
       /\ st[a].pause => a = Pauser /\ st[a].pending
       /\ st[a].pause => main \in {"request", "signal", "waiting", "forced", "paused"}
  /\ mask => Pausing
  /\ main \in {"off", "ready", "ending"} => \A a \in Aux : ~st[a].pending
  /\ target # None <=> main \in {"signal", "waiting", "forced", "paused", "transmit"}

(* A core that has been handled has no thread of the proclet and gets      *)
(* none; one that is being handled has none left.                          *)
Clear(c) == core[c].cur \notin OwnedThreads /\ rq[c] \cap OwnedThreads = {}
SwitchedOut(c) == mig[c] \cap running = {}
CoresClear == \A c \in Cores : mask /\ ~req[c] => Clear(c) /\ SwitchedOut(c)
VictimsClear == \A c \in Cores : At(c, "pausing") => mask /\ req[Victim(c)] /\ Clear(Victim(c))
SourcesClear ==
  \A c \in Cores :
    /\ At(c, "steal") /\ mask /\ ~req[c] => ~req[core[c].tgt]
    /\ At(c, "shed") /\ mask /\ ~req[core[c].tgt] => ~req[c]
ScanClear == \A a \in Aux : aux[a] = "pausing" => req[scan.i] /\ Clear(scan.i)

(* The auxiliary handler has been at every core before the one that it is  *)
(* at, or before the first that it has postponed.                          *)
Collected(c) == ~req[c] /\ mig[c] = {}
Scanned ==
  \A a \in Aux : aux[a] \in {"scan", "pausing"} =>
    \A c \in Cores : c < (IF scan.done THEN scan.i ELSE scan.last) => Collected(c)

(* Only threads of the proclet are gathered, and those that have left      *)
(* their cores; when the request is over, all are.                         *)
Gathered ==
  /\ gathered \subseteq OwnedThreads \ running
  /\ OwnedThreads \cap gone = {}
  /\ \A c \in Cores : mig[c] \subseteq OwnedThreads
  /\ ~mask => \A c \in Cores : mig[c] = {}
  /\ target # None /\ ~mask => OwnedThreads \subseteq gathered \cup blocked

CoreInv ==
  /\ TypeOK /\ NoThread /\ Placed /\ Locked
  /\ CoresClear /\ VictimsClear /\ SourcesClear /\ ScanClear
  /\ Scanned /\ Gathered
PauseInv == CoreInv /\ Handshake

---------------------------------------------------------------------------
(* What the steps of a core, of an auxiliary handler and of the main one   *)
(* leave alone.                                                            *)

LEMMA CoreFrame ==
  ASSUME NEW c \in Cores, CoreStep(c)
  PROVE  UNCHANGED <<owner, gatherVars, handlerVars>>
<1>1. ThreadStep(c) => UNCHANGED <<owner, gatherVars, handlerVars>>
  BY DEF ThreadStep, threadFrame, Yield, Block, Cede, Wake, GuestAttach, GuestLeave, OtherSwitch
<1>2. ScheduleStep(c) => UNCHANGED <<owner, gatherVars, handlerVars>>
  BY DEF ScheduleStep, threadFrame, EnterSchedule, EnterDirect, Unpark, Check, RunNext, RunOther,
         Load, StealLook, StealHandle, StealTake, StealFail, Again, Park
<1>3. UnblockStep(c) => UNCHANGED <<owner, gatherVars, handlerVars>>
  BY DEF UnblockStep, threadFrame, UnblockHandle, ShedLook, ShedMove, Stopped
<1>4. QED
  BY <1>1, <1>2, <1>3 DEF CoreStep

LEMMA AuxFrame ==
  ASSUME NEW a \in Aux, AuxStep(a)
  PROVE  UNCHANGED <<owner, core, running, blocked, gone, target, main>>
BY DEF AuxStep, AuxStart, AuxWrite, AuxSeeRequest, AuxCollect, AuxHandle, AuxHandled, AuxPostpone,
       AuxPassDone, AuxPauseDone, AuxRelease, AuxStop, scanFrame, threadVars, gatherVars

LEMMA MainFrame ==
  ASSUME MainStep \/ Summon
  PROVE  UNCHANGED mainFrame
BY DEF MainStep, MainStart, MainDispatchPause, MainRequest, MainSignal, MainForce, MainPaused,
       MainDispatch, MainTransmit, MainEnd, MainStop, Summon, mainFrame, threadVars

---------------------------------------------------------------------------
(* What becomes of the record of a core, by the form of the assignment.    *)

CoreTo(c, pc, cur, then, tgt) ==
  /\ core' \in [Cores -> CoreRec]
  /\ \A d \in Cores \ {c} : core'[d] = core[d]
  /\ core'[c].pc = pc /\ core'[c].cur = cur /\ core'[c].then = then /\ core'[c].tgt = tgt

LEMMA OneCore ==
  ASSUME TypeOK, NEW c \in Cores, NEW r \in CoreRec, core' = [core EXCEPT ![c] = r]
  PROVE  CoreTo(c, r.pc, r.cur, r.then, r.tgt)
BY DEF TypeOK, CoreTypes, CoreTo

LEMMA GotoTo ==
  ASSUME PauseInv, NEW c \in Cores, NEW pc \in CorePcs,
         Goto(c, pc)
  PROVE  CoreTo(c, pc, core[c].cur, core[c].then, core[c].tgt)
<1> DEFINE r == [core[c] EXCEPT !.pc = pc]
<1>1. TypeOK /\ core[c] \in CoreRec
  BY DEF PauseInv, CoreInv, TypeOK, CoreTypes
<1>2. r \in CoreRec /\ r.pc = pc /\ r.cur = core[c].cur /\ r.then = core[c].then /\ r.tgt = core[c].tgt
  BY <1>1 DEF CoreRec, CorePcs
<1>3. core' = [core EXCEPT ![c] = r]
  BY DEF Goto
<1> QED
  BY <1>1, <1>2, <1>3, OneCore

LEMMA BecomeTo ==
  ASSUME PauseInv, NEW c \in Cores, NEW pc \in CorePcs, NEW th \in Threads \cup {None, Other, Guest},
         Become(c, pc, th)
  PROVE  CoreTo(c, pc, th, core[c].then, core[c].tgt)
<1> DEFINE r == [core[c] EXCEPT !.pc = pc, !.cur = th]
<1>1. TypeOK /\ core[c] \in CoreRec
  BY DEF PauseInv, CoreInv, TypeOK, CoreTypes
<1>2. r \in CoreRec /\ r.pc = pc /\ r.cur = th /\ r.then = core[c].then /\ r.tgt = core[c].tgt
  BY <1>1 DEF CoreRec, CorePcs
<1>3. core' = [core EXCEPT ![c] = r]
  BY DEF Become
<1> QED
  BY <1>1, <1>2, <1>3, OneCore

LEMMA SwapTo ==
  ASSUME PauseInv, NEW c \in Cores, NEW th \in Threads \cup {None, Other, Guest},
         core' = [core EXCEPT ![c] = [@ EXCEPT !.pc = "load", !.cur = th, !.old = core[c].cur]]
  PROVE  CoreTo(c, "load", th, core[c].then, core[c].tgt)
<1> DEFINE r == [core[c] EXCEPT !.pc = "load", !.cur = th, !.old = core[c].cur]
<1>1. TypeOK /\ core[c] \in CoreRec
  BY DEF PauseInv, CoreInv, TypeOK, CoreTypes
<1>2. r \in CoreRec /\ r.pc = "load" /\ r.cur = th /\ r.then = core[c].then /\ r.tgt = core[c].tgt
  BY <1>1 DEF CoreRec, CorePcs
<1>3. core' = [core EXCEPT ![c] = r]
  OBVIOUS
<1> QED
  BY <1>1, <1>2, <1>3, OneCore

LEMMA LoadTo ==
  ASSUME PauseInv, NEW c \in Cores,
         core' = [core EXCEPT ![c] = [@ EXCEPT !.pc = "run", !.old = None]]
  PROVE  CoreTo(c, "run", core[c].cur, core[c].then, core[c].tgt)
<1> DEFINE r == [core[c] EXCEPT !.pc = "run", !.old = None]
<1>1. TypeOK /\ core[c] \in CoreRec
  BY DEF PauseInv, CoreInv, TypeOK, CoreTypes
<1>2. r \in CoreRec /\ r.pc = "run" /\ r.cur = core[c].cur /\ r.then = core[c].then /\ r.tgt = core[c].tgt
  BY <1>1 DEF CoreRec, CorePcs
<1>3. core' = [core EXCEPT ![c] = r]
  OBVIOUS
<1> QED
  BY <1>1, <1>2, <1>3, OneCore

LEMMA AimTo ==
  ASSUME PauseInv, NEW c \in Cores, NEW pc \in CorePcs, NEW d \in Cores,
         core' = [core EXCEPT ![c] = [@ EXCEPT !.pc = pc, !.tgt = d]]
  PROVE  CoreTo(c, pc, core[c].cur, core[c].then, d)
<1> DEFINE r == [core[c] EXCEPT !.pc = pc, !.tgt = d]
<1>1. TypeOK /\ core[c] \in CoreRec
  BY DEF PauseInv, CoreInv, TypeOK, CoreTypes
<1>2. r \in CoreRec /\ r.pc = pc /\ r.cur = core[c].cur /\ r.then = core[c].then /\ r.tgt = d
  BY <1>1 DEF CoreRec, CorePcs
<1>3. core' = [core EXCEPT ![c] = r]
  OBVIOUS
<1> QED
  BY <1>1, <1>2, <1>3, OneCore

LEMMA PauseTo ==
  ASSUME PauseInv, NEW c \in Cores, NEW then \in {"sched", "run"},
         core' = [core EXCEPT ![c] = [@ EXCEPT !.pc = "pausing", !.then = then]]
  PROVE  CoreTo(c, "pausing", core[c].cur, then, core[c].tgt)
<1> DEFINE r == [core[c] EXCEPT !.pc = "pausing", !.then = then]
<1>1. TypeOK /\ core[c] \in CoreRec
  BY DEF PauseInv, CoreInv, TypeOK, CoreTypes
<1>2. r \in CoreRec /\ r.pc = "pausing" /\ r.cur = core[c].cur /\ r.then = then /\ r.tgt = core[c].tgt
  BY <1>1 DEF CoreRec, CorePcs
<1>3. core' = [core EXCEPT ![c] = r]
  OBVIOUS
<1> QED
  BY <1>1, <1>2, <1>3, OneCore

LEMMA PauseAimTo ==
  ASSUME PauseInv, NEW c \in Cores, NEW then \in {"steal", "shed"}, NEW d \in Cores,
         core' = [core EXCEPT ![c] = [@ EXCEPT !.pc = "pausing", !.then = then, !.tgt = d]]
  PROVE  CoreTo(c, "pausing", core[c].cur, then, d)
<1> DEFINE r == [core[c] EXCEPT !.pc = "pausing", !.then = then, !.tgt = d]
<1>1. TypeOK /\ core[c] \in CoreRec
  BY DEF PauseInv, CoreInv, TypeOK, CoreTypes
<1>2. r \in CoreRec /\ r.pc = "pausing" /\ r.cur = core[c].cur /\ r.then = then /\ r.tgt = d
  BY <1>1 DEF CoreRec, CorePcs
<1>3. core' = [core EXCEPT ![c] = r]
  OBVIOUS
<1> QED
  BY <1>1, <1>2, <1>3, OneCore

(* The constants that stand for no thread, core or handler.                *)
LEMMA Names ==
  /\ None \notin Threads /\ Other \notin Threads /\ Guest \notin Threads
  /\ Free \notin Cores /\ Free \notin Aux /\ Aux \cap Cores = {}
  /\ OwnedThreads \subseteq Threads
BY ConstantsOK DEF Free, Cores, OwnedThreads

(* Held, kind by kind.                                                     *)
LEMMA HeldAre ==
  /\ \A c \in Cores : Held("core", c) = OnCore(c) /\ Held("rq", c) = rq[c] /\ Held("mig", c) = mig[c]
  /\ Held("blocked", 0) = blocked /\ Held("gathered", 0) = gathered /\ Held("gone", 0) = gone
  /\ \A k \in {"core", "rq", "mig"} : Held(k, 0) = {}
  /\ \A k \in {"blocked", "gathered", "gone"} : \A c \in Cores : Held(k, c) = {}
BY Names DEF Held, Free

LEMMA HeldAreNext ==
  /\ \A c \in Cores :
       Held("core", c)' = OnCore(c)' /\ Held("rq", c)' = rq'[c] /\ Held("mig", c)' = mig'[c]
  /\ Held("blocked", 0)' = blocked' /\ Held("gathered", 0)' = gathered' /\ Held("gone", 0)' = gone'
  /\ \A k \in {"core", "rq", "mig"} : Held(k, 0)' = {}
  /\ \A k \in {"blocked", "gathered", "gone"} : \A c \in Cores : Held(k, c)' = {}
BY Names DEF Held, Free

(* No thread leaves its place.                                             *)
LEMMA NoneMoved ==
  ASSUME Placed, UNCHANGED <<blocked, gathered, gone>>,
         \A d \in Cores : OnCore(d)' = OnCore(d) /\ rq'[d] = rq[d] /\ mig'[d] = mig[d]
  PROVE  Placed'
<1>1. \A i \in Kinds, e \in Spots : Held(i, e)' = Held(i, e)
  <2> SUFFICES ASSUME NEW i \in Kinds, NEW e \in Spots
               PROVE  Held(i, e)' = Held(i, e)
    OBVIOUS
  <2>1. CASE e = 0
    BY <2>1, HeldAre, HeldAreNext DEF Kinds
  <2>2. CASE e \in Cores
    BY <2>2, HeldAre, HeldAreNext DEF Kinds
  <2> QED
    BY <2>1, <2>2 DEF Spots
<1> SUFFICES ASSUME NEW t \in Threads
             PROVE  \E i \in Kinds, e \in Spots :
                      \A l \in Kinds, f \in Spots : t \in Held(l, f)' <=> l = i /\ f = e
  BY DEF Placed, Kinds, Spots, Cores
<1>2. PICK i \in Kinds, e \in Spots : \A l \in Kinds, f \in Spots : t \in Held(l, f) <=> l = i /\ f = e
  BY DEF Placed
<1>3. \A l \in Kinds, f \in Spots : t \in Held(l, f)' <=> l = i /\ f = e
  BY <1>1, <1>2
<1> QED
  BY <1>3

(* Threads M leave one place for another: each is in one place still.      *)
Same(k, c, j, d) ==
  /\ \A e \in Cores : ~(k = "core" /\ e = c) /\ ~(j = "core" /\ e = d) => OnCore(e)' = OnCore(e)
  /\ \A e \in Cores : ~(k = "rq" /\ e = c) /\ ~(j = "rq" /\ e = d) => rq'[e] = rq[e]
  /\ \A e \in Cores : ~(k = "mig" /\ e = c) /\ ~(j = "mig" /\ e = d) => mig'[e] = mig[e]
  /\ "blocked" \notin {k, j} => UNCHANGED blocked
  /\ "gathered" \notin {k, j} => UNCHANGED gathered
  /\ UNCHANGED gone

LEMMA Moved ==
  ASSUME Placed, NEW k \in Kinds, NEW c \in Spots, NEW j \in Kinds, NEW d \in Spots,
         k # j \/ c # d, Same(k, c, j, d),
         k = "blocked" \/ k = "gathered" => c = 0, j = "blocked" \/ j = "gathered" => d = 0,
         NEW M, M \subseteq Held(k, c),
         Held(k, c)' = Held(k, c) \ M, Held(j, d)' = Held(j, d) \cup M
  PROVE  Placed'
<1>1. ASSUME NEW i \in Kinds, NEW e \in Spots, i # k \/ e # c, i # j \/ e # d
      PROVE  Held(i, e)' = Held(i, e)
  <2>1. CASE e = 0
    BY <1>1, <2>1, Names, HeldAre, HeldAreNext DEF Kinds, Same, Free
  <2>2. CASE e \in Cores
    <3>1. i = "core" => OnCore(e)' = OnCore(e)
      BY <1>1, <2>2 DEF Same
    <3>2. i = "rq" => rq'[e] = rq[e]
      BY <1>1, <2>2 DEF Same
    <3>3. i = "mig" => mig'[e] = mig[e]
      BY <1>1, <2>2 DEF Same
    <3> QED
      BY <2>2, <3>1, <3>2, <3>3, HeldAre, HeldAreNext DEF Kinds
  <2> QED
    BY <2>1, <2>2 DEF Spots
<1> SUFFICES ASSUME NEW t \in Threads
             PROVE  \E i \in Kinds, e \in Spots :
                      \A l \in Kinds, f \in Spots : t \in Held(l, f)' <=> l = i /\ f = e
  BY DEF Placed, Kinds, Spots, Cores
<1>2. PICK kt \in Kinds, ct \in Spots : \A l \in Kinds, f \in Spots : t \in Held(l, f) <=> l = kt /\ f = ct
  BY DEF Placed
<1>3. CASE t \in M
  <2>1. PICK i \in Kinds, e \in Spots : i = j /\ e = d
    OBVIOUS
  <2>2. \A l \in Kinds, f \in Spots : t \in Held(l, f)' <=> l = i /\ f = e
    BY <1>1, <1>2, <1>3, <2>1
  <2> QED
    BY <2>2
<1>4. CASE t \notin M
  <2>1. \A l \in Kinds, f \in Spots : t \in Held(l, f)' <=> t \in Held(l, f)
    BY <1>1, <1>4
  <2>2. \A l \in Kinds, f \in Spots : t \in Held(l, f)' <=> l = kt /\ f = ct
    BY <1>2, <2>1
  <2> QED
    BY <2>2
<1> QED
  BY <1>3, <1>4

(* What it means that a thread is in one place.                            *)
LEMMA Apart ==
  ASSUME TypeOK, Placed, NEW t \in Threads
  PROVE  /\ ~(t \in blocked /\ t \in gathered) /\ ~(t \in blocked /\ t \in gone)
         /\ ~(t \in gathered /\ t \in gone)
         /\ \A c \in Cores : t \in rq[c] \/ t \in mig[c] => t \notin blocked \cup gathered \cup gone
         /\ \A c, d \in Cores : t \in rq[c] => t \notin mig[d]
         /\ \A c \in Cores : core[c].cur = t /\ core[c].pc # "switch" =>
              /\ t \notin blocked \cup gathered \cup gone
              /\ \A d \in Cores : t \notin rq[d] /\ t \notin mig[d]
<1>1. PICK k \in Kinds, c \in Spots : \A j \in Kinds, d \in Spots : t \in Held(j, d) <=> j = k /\ d = c
  BY DEF Placed
<1>2. 0 \notin Cores /\ 0 \in Spots /\ Cores \subseteq Spots
  BY ConstantsOK DEF Cores, Spots
<1>3. /\ t \in blocked <=> k = "blocked" /\ c = 0
      /\ t \in gathered <=> k = "gathered" /\ c = 0
      /\ t \in gone <=> k = "gone" /\ c = 0
  BY <1>1, <1>2 DEF Held, Kinds
<1>4. \A d \in Cores :
        /\ t \in rq[d] <=> k = "rq" /\ c = d
        /\ t \in mig[d] <=> k = "mig" /\ c = d
        /\ core[d].cur = t /\ core[d].pc # "switch" <=> k = "core" /\ c = d
  <2> TAKE d \in Cores
  <2>1. Held("rq", d) = rq[d] /\ Held("mig", d) = mig[d]
    BY HeldAre
  <2>2. t \in Held("core", d) <=> core[d].cur = t /\ core[d].pc # "switch"
    BY HeldAre DEF OnCore
  <2> QED
    BY <1>1, <1>2, <2>1, <2>2 DEF Kinds
<1> QED
  BY <1>3, <1>4

(* Who stops the threads of a core has its lock.                           *)
LEMMA VictimLocked ==
  ASSUME PauseInv, NEW d \in Cores, At(d, "pausing")
  PROVE  /\ Victim(d) \in Cores /\ lock[Victim(d)] = d /\ lock[d] = d
         /\ mask /\ req[Victim(d)] /\ Clear(Victim(d))
BY DEF PauseInv, CoreInv, Locked, Victim, VictimsClear, At, TypeOK, CoreTypes, CoreRec

---------------------------------------------------------------------------
(* The steps of a core.                                                    *)

(* The steps of a core that take no thread from one place to another: the  *)
(* core goes to pc with cur as its current thread, and tgt as its target.  *)
Quiet(c, pc, cur, tgt) ==
  /\ CoreTo(c, pc, cur, core[c].then, tgt)
  /\ UNCHANGED <<rq, mig, req, blocked>>
  /\ pc \notin {"pausing", "shed"}
  /\ OnCore(c)' = OnCore(c) /\ (cur \in Threads => cur = core[c].cur)
  /\ pc \notin {"run", "switch", "load"} => cur \notin Threads
  /\ running' \subseteq running \cup OnCore(c)
  /\ lock' \in [Cores -> Cores \cup Aux \cup {Free}] /\ \A d \in Cores \ {c} : lock'[d] = lock[d]
  /\ lock'[c] = lock[c] \/ lock[c] \in {c, Free}
  /\ pc \in {"check", "sched", "steal"} => lock'[c] = c
  /\ pc = "steal" => tgt # c /\ (mask => ~req[tgt])

LEMMA QuietInv ==
  ASSUME PauseInv, NEW c \in Cores, NEW pc, NEW cur, NEW tgt \in Cores, Quiet(c, pc, cur, tgt),
         UNCHANGED <<owner, gatherVars, handlerVars>>
  PROVE  CoreInv'
<1> USE DEF PauseInv, CoreInv
<1>1. /\ CoreTo(c, pc, cur, core[c].then, tgt)
      /\ UNCHANGED <<rq, mig, req, blocked, gathered, gone, mask, target, main, aux, st, scan, owner, OwnedThreads>>
  BY DEF Quiet, gatherVars, handlerVars, OwnedThreads
<1>2. \A d \in Cores \ {c} : Victim(d)' = Victim(d)
  BY <1>1 DEF CoreTo, Victim
<1>3. running' \subseteq Threads /\ \A t \in running' \ running : t \notin gathered /\ \A d \in Cores : t \notin mig[d]
  BY Apart DEF Quiet, OnCore, TypeOK, CoreTypes
<1>4. TypeOK'
  BY <1>1, <1>3 DEF Quiet, TypeOK, CoreTypes, CoreTo
<1>5. NoThread'
  BY <1>1 DEF Quiet, NoThread, CoreTo
<1>6. Placed'
  <2>1. \A e \in Cores : OnCore(e)' = OnCore(e)
    BY <1>1 DEF Quiet, OnCore, CoreTo
  <2> QED
    BY <1>1, <2>1, NoneMoved
<1>7. \A d \in Cores \cup Aux : \A e \in Cores : d # c /\ lock[e] = d => lock'[e] = d
  BY Names DEF Quiet
<1>8. Locked'
  <2>1. \A a \in Aux : aux[a] = "pausing" => scan.i \in Cores /\ lock'[scan.i] = a
    BY <1>7, Names DEF Locked
  <2>2. \A e \in Cores \ {c} :
          /\ core[e].pc \in {"check", "sched", "steal", "pausing", "shed"} => lock'[e] = e
          /\ At(e, "shed") => lock'[core[e].tgt] = e
          /\ At(e, "pausing") /\ core[e].then \in {"steal", "shed"} => lock'[core[e].tgt] = e
    BY <1>7 DEF Locked, TypeOK, CoreTypes, CoreRec
  <2> QED
    BY <1>1, <2>1, <2>2 DEF Quiet, Locked, CoreTo, At
<1>9. CoresClear'
  BY <1>1, <1>3 DEF Quiet, CoresClear, Clear, SwitchedOut, CoreTo, OwnedThreads
<1>10. VictimsClear'
  <2>1. \A d \in Cores : Clear(d) => Clear(d)'
    BY <1>1, Names DEF Quiet, Clear, CoreTo
  <2>2. \A d \in Cores \ {c} : At(d, "pausing")' => At(d, "pausing")
    BY <1>1 DEF At, CoreTo
  <2>3. ~At(c, "pausing")'
    BY <1>1 DEF Quiet, At, CoreTo
  <2>4. ASSUME NEW d \in Cores, At(d, "pausing")'
        PROVE  mask' /\ req'[Victim(d)'] /\ Clear(Victim(d))'
    <3>1. d # c /\ At(d, "pausing")
      BY <2>2, <2>3, <2>4
    <3>2. Victim(d)' = Victim(d) /\ Victim(d) \in Cores
      BY <1>2, <3>1, VictimLocked
    <3>3. Clear(Victim(d))'
      BY <1>1, <2>1, <3>1, <3>2, VictimLocked DEF Quiet, Clear, CoreTo
    <3> QED
      BY <1>1, <3>1, <3>2, <3>3, VictimLocked
  <2> QED
    BY <2>4 DEF VictimsClear
<1>11. SourcesClear'
  BY <1>1 DEF Quiet, SourcesClear, CoreTo, At
<1>12. ScanClear'
  BY <1>1, Names DEF Quiet, ScanClear, Clear, CoreTo, Locked
<1>13. Scanned'
  BY <1>1 DEF Scanned, Collected
<1>14. Gathered'
  BY <1>1, <1>3 DEF Gathered
<1> QED
  BY <1>4, <1>5, <1>6, <1>8, <1>9, <1>10, <1>11, <1>12, <1>13, <1>14

LEMMA QuietSteps ==
  ASSUME PauseInv, NEW c \in Cores,
         \/ GuestAttach(c) \/ GuestLeave(c) \/ OtherSwitch(c) \/ EnterSchedule(c) \/ Unpark(c)
         \/ Check(c) /\ ~Pending(c)
         \/ RunOther(c) \/ Load(c) \/ (\E r \in Cores : StealLook(c, r)) \/ StealFail(c) \/ Again(c) \/ Park(c)
  PROVE  CoreInv'
<1>1. /\ core[c] \in CoreRec /\ core[c].tgt \in Cores /\ lock[c] \in Cores \cup Aux \cup {Free}
      /\ lock \in [Cores -> Cores \cup Aux \cup {Free}]
      /\ core[c].pc \notin {"run", "switch", "load"} => core[c].cur \notin Threads
      /\ core[c].pc \in {"check", "sched", "steal"} => lock[c] = c
  BY DEF PauseInv, CoreInv, TypeOK, CoreTypes, CoreRec, NoThread, Locked
<1>2. UNCHANGED <<owner, gatherVars, handlerVars>>
  BY CoreFrame DEF CoreStep, ThreadStep, ScheduleStep
<1>3. CASE GuestAttach(c)
  <2>1. CoreTo(c, "run", Guest, core[c].then, core[c].tgt)
    BY <1>3, BecomeTo DEF GuestAttach, CorePcs
  <2>2. Quiet(c, "run", Guest, core[c].tgt)
    BY <1>1, <1>3, <2>1, Names DEF GuestAttach, Quiet, OnCore, CoreTo, At
  <2> QED
    BY <1>1, <1>2, <2>2, QuietInv
<1>4. CASE GuestLeave(c)
  <2>1. CoreTo(c, "run", Other, core[c].then, core[c].tgt)
    BY <1>4, BecomeTo DEF GuestLeave, CorePcs
  <2>2. Quiet(c, "run", Other, core[c].tgt)
    BY <1>1, <1>4, <2>1, Names DEF GuestLeave, Quiet, OnCore, CoreTo, At
  <2> QED
    BY <1>1, <1>2, <2>2, QuietInv
<1>5. CASE OtherSwitch(c)
  <2>1. CoreTo(c, "switch", core[c].cur, core[c].then, core[c].tgt) /\ core[c].cur = Other
    BY <1>5, GotoTo DEF OtherSwitch, CorePcs
  <2>2. Quiet(c, "switch", Other, core[c].tgt)
    BY <1>1, <1>5, <2>1, Names DEF OtherSwitch, Quiet, OnCore, CoreTo, At
  <2> QED
    BY <1>1, <1>2, <2>2, QuietInv
<1>6. CASE EnterSchedule(c)
  <2>1. CoreTo(c, "check", None, core[c].then, core[c].tgt)
    BY <1>6, BecomeTo DEF EnterSchedule, CorePcs
  <2>2. Quiet(c, "check", None, core[c].tgt)
    BY <1>1, <1>6, <2>1, Names DEF EnterSchedule, Quiet, OnCore, CoreTo, At
  <2> QED
    BY <1>1, <1>2, <2>2, QuietInv
<1>7. CASE Unpark(c)
  <2>1. CoreTo(c, "check", core[c].cur, core[c].then, core[c].tgt)
    BY <1>7, GotoTo DEF Unpark, CorePcs
  <2>2. Quiet(c, "check", core[c].cur, core[c].tgt)
    BY <1>1, <1>7, <2>1, Names DEF Unpark, Quiet, OnCore, CoreTo, At
  <2> QED
    BY <1>1, <1>2, <2>2, QuietInv
<1>8. CASE Check(c) /\ ~Pending(c)
  <2>1. CoreTo(c, "sched", core[c].cur, core[c].then, core[c].tgt)
    BY <1>8, GotoTo DEF Check, CorePcs
  <2>2. Quiet(c, "sched", core[c].cur, core[c].tgt)
    BY <1>1, <1>8, <2>1, Names DEF Check, Quiet, OnCore, CoreTo, At
  <2> QED
    BY <1>1, <1>2, <2>2, QuietInv
<1>9. CASE RunOther(c)
  <2>1. CoreTo(c, "run", Other, core[c].then, core[c].tgt)
    BY <1>9, BecomeTo DEF RunOther, CorePcs
  <2>2. Quiet(c, "run", Other, core[c].tgt)
    BY <1>1, <1>9, <2>1, Names DEF RunOther, Quiet, OnCore, CoreTo, At
  <2> QED
    BY <1>1, <1>2, <2>2, QuietInv
<1>10. CASE Load(c)
  <2>1. CoreTo(c, "run", core[c].cur, core[c].then, core[c].tgt)
    BY <1>10, LoadTo DEF Load
  <2>2. Quiet(c, "run", core[c].cur, core[c].tgt)
    BY <1>1, <1>10, <2>1, Names DEF Load, Quiet, OnCore, CoreTo, At
  <2> QED
    BY <1>1, <1>2, <2>2, QuietInv
<1>11. ASSUME NEW r \in Cores, StealLook(c, r)
       PROVE  CoreInv'
  <2>1. CoreTo(c, "steal", core[c].cur, core[c].then, r)
    BY <1>11, AimTo DEF StealLook, CorePcs
  <2>2. Quiet(c, "steal", core[c].cur, r)
    BY <1>1, <1>11, <2>1, Names DEF StealLook, MayStealFrom, Pending, Quiet, OnCore, CoreTo, At
  <2> QED
    BY <1>2, <2>2, QuietInv
<1>12. CASE StealFail(c) \/ Again(c) \/ Park(c)
  <2>1. PICK pc \in {"sched", "check", "parked"} :
          /\ CoreTo(c, pc, core[c].cur, core[c].then, core[c].tgt)
          /\ core[c].pc \in {"steal", "sched"}
          /\ pc # "parked" => lock' = lock
          /\ pc = "parked" => lock' = [lock EXCEPT ![c] = Free]
    BY <1>12, GotoTo DEF StealFail, Again, Park, CorePcs, At
  <2>2. Quiet(c, pc, core[c].cur, core[c].tgt)
    BY <1>1, <1>12, <2>1, Names DEF StealFail, Again, Park, Quiet, OnCore, CoreTo
  <2> QED
    BY <1>1, <1>2, <2>2, QuietInv
<1> QED
  BY <1>3, <1>4, <1>5, <1>6, <1>7, <1>8, <1>9, <1>10, <1>11, <1>12

(* The steps of a core that move threads: out of the processor, in and out *)
(* of a run queue, and to the queue of the threads that have been stopped. *)
LEMMA YieldInv ==
  ASSUME PauseInv, NEW c \in Cores, NEW t \in Threads, Yield(c, t)
  PROVE  CoreInv'
<1> USE DEF PauseInv, CoreInv
<1>1. CoreTo(c, "switch", t, core[c].then, core[c].tgt)
  BY GotoTo DEF Yield, Runs, CorePcs
<1>2. /\ UNCHANGED <<lock, mig, req, running, blocked>>
      /\ core[c].pc = "run" /\ core[c].cur = t /\ lock[c] = Free
      /\ rq' = [rq EXCEPT ![c] = @ \cup {t}]
  BY DEF Yield, Runs, At
<1>3. UNCHANGED <<gathered, gone, mask, target, main, aux, st, scan, owner, OwnedThreads>>
  BY DEF Yield, threadFrame, gatherVars, handlerVars, OwnedThreads
<1>4. \A d \in Cores \ {c} : Victim(d)' = Victim(d)
  BY <1>1 DEF CoreTo, Victim
<1>5. TypeOK'
  BY <1>1, <1>2, <1>3, Names DEF TypeOK, CoreTypes, CoreTo
<1>6. NoThread'
  BY <1>1, <1>2, <1>3, Names DEF NoThread, CoreTo, TypeOK, CoreTypes
<1>7. Placed'
  <2>1. (\A e \in Cores \ {c} : OnCore(e)' = OnCore(e)) /\ OnCore(c) = {t} /\ OnCore(c)' = {}
    BY <1>1, <1>2, <1>3, Names DEF OnCore, CoreTo, TypeOK, CoreTypes
  <2>2. Same("core", c, "rq", c)
    BY <1>1, <1>2, <1>3, <2>1 DEF Same
  <2>3. {t} \subseteq Held("core", c) /\ Held("core", c)' = Held("core", c) \ {t}
    BY <1>1, <1>2, <1>3, <2>1, Names, Apart, HeldAre, HeldAreNext DEF TypeOK, CoreTypes
  <2>4. Held("rq", c)' = Held("rq", c) \cup {t}
    BY <1>1, <1>2, <1>3, <2>1, HeldAre, HeldAreNext DEF TypeOK, CoreTypes
  <2>5. c \in Spots /\ 0 \in Spots
    BY <1>1, <1>2, <1>3 DEF Spots
  <2> QED
    BY <2>2, <2>3, <2>4, <2>5, Moved, Names DEF Kinds
<1>8. Locked'
  BY <1>1, <1>2, <1>3, Names DEF Locked, CoreTo, At, TypeOK, CoreTypes
<1>9. CoresClear'
  BY <1>1, <1>2, <1>3, Names DEF CoresClear, Clear, SwitchedOut, CoreTo, TypeOK, CoreTypes
<1>10. VictimsClear'
  BY <1>1, <1>2, <1>3, <1>4, Names, VictimLocked DEF VictimsClear, Clear, CoreTo, At, TypeOK, CoreTypes
<1>11. SourcesClear'
  BY <1>1, <1>2, <1>3, Names DEF SourcesClear, CoreTo, At, Locked, TypeOK, CoreTypes
<1>12. ScanClear'
  BY <1>1, <1>2, <1>3, Names DEF ScanClear, Clear, CoreTo, Locked, TypeOK, CoreTypes
<1>13. Scanned'
  BY <1>1, <1>2, <1>3, Names DEF Scanned, Collected, TypeOK, CoreTypes
<1>14. Gathered'
  BY <1>1, <1>2, <1>3, Names DEF Gathered, CoreTo, TypeOK, CoreTypes
<1> QED
  BY <1>5, <1>6, <1>7, <1>8, <1>9, <1>10, <1>11, <1>12, <1>13, <1>14

LEMMA BlockInv ==
  ASSUME PauseInv, NEW c \in Cores, NEW t \in Threads, Block(c, t)
  PROVE  CoreInv'
<1> USE DEF PauseInv, CoreInv
<1>1. CoreTo(c, "switch", t, core[c].then, core[c].tgt)
  BY GotoTo DEF Block, Runs, CorePcs
<1>2. /\ UNCHANGED <<lock, rq, mig, req, running>>
      /\ core[c].pc = "run" /\ core[c].cur = t
      /\ blocked' = blocked \cup {t}
  BY DEF Block, Runs, At
<1>3. UNCHANGED <<gathered, gone, mask, target, main, aux, st, scan, owner, OwnedThreads>>
  BY DEF Block, threadFrame, gatherVars, handlerVars, OwnedThreads
<1>4. \A d \in Cores \ {c} : Victim(d)' = Victim(d)
  BY <1>1 DEF CoreTo, Victim
<1>5. TypeOK'
  BY <1>1, <1>2, <1>3, Names DEF TypeOK, CoreTypes, CoreTo
<1>6. NoThread'
  BY <1>1, <1>2, <1>3, Names DEF NoThread, CoreTo, TypeOK, CoreTypes
<1>7. Placed'
  <2>1. (\A e \in Cores \ {c} : OnCore(e)' = OnCore(e)) /\ OnCore(c) = {t} /\ OnCore(c)' = {}
    BY <1>1, <1>2, <1>3, Names DEF OnCore, CoreTo, TypeOK, CoreTypes
  <2>2. Same("core", c, "blocked", 0)
    BY <1>1, <1>2, <1>3, <2>1 DEF Same
  <2>3. {t} \subseteq Held("core", c) /\ Held("core", c)' = Held("core", c) \ {t}
    BY <1>1, <1>2, <1>3, <2>1, Names, Apart, HeldAre, HeldAreNext DEF TypeOK, CoreTypes
  <2>4. Held("blocked", 0)' = Held("blocked", 0) \cup {t}
    BY <1>1, <1>2, <1>3, <2>1, HeldAre, HeldAreNext DEF TypeOK, CoreTypes
  <2>5. c \in Spots /\ 0 \in Spots
    BY <1>1, <1>2, <1>3 DEF Spots
  <2> QED
    BY <2>2, <2>3, <2>4, <2>5, Moved, Names DEF Kinds
<1>8. Locked'
  BY <1>1, <1>2, <1>3, Names DEF Locked, CoreTo, At, TypeOK, CoreTypes
<1>9. CoresClear'
  BY <1>1, <1>2, <1>3, Names DEF CoresClear, Clear, SwitchedOut, CoreTo, TypeOK, CoreTypes
<1>10. VictimsClear'
  BY <1>1, <1>2, <1>3, <1>4, Names, VictimLocked DEF VictimsClear, Clear, CoreTo, At, TypeOK, CoreTypes
<1>11. SourcesClear'
  BY <1>1, <1>2, <1>3, Names DEF SourcesClear, CoreTo, At, Locked, TypeOK, CoreTypes
<1>12. ScanClear'
  BY <1>1, <1>2, <1>3, Names DEF ScanClear, Clear, CoreTo, Locked, TypeOK, CoreTypes
<1>13. Scanned'
  BY <1>1, <1>2, <1>3, Names DEF Scanned, Collected, TypeOK, CoreTypes
<1>14. Gathered'
  BY <1>1, <1>2, <1>3, Names DEF Gathered, CoreTo, TypeOK, CoreTypes
<1> QED
  BY <1>5, <1>6, <1>7, <1>8, <1>9, <1>10, <1>11, <1>12, <1>13, <1>14

LEMMA WakeInv ==
  ASSUME PauseInv, NEW c \in Cores, NEW t \in Threads, NEW u \in Threads, Wake(c, t, u)
  PROVE  CoreInv'
<1> USE DEF PauseInv, CoreInv
<1>1. UNCHANGED core
  BY DEF Wake
<1>2. /\ UNCHANGED <<lock, mig, req, running>>
      /\ core[c].pc = "run" /\ core[c].cur = t /\ lock[c] = Free
      /\ u \in blocked
      /\ rq' = [rq EXCEPT ![c] = @ \cup {u}] /\ blocked' = blocked \ {u}
      /\ t \in OwnedThreads <=> u \in OwnedThreads
  BY DEF Wake, Runs, At, OwnedThreads
<1>3. UNCHANGED <<gathered, gone, mask, target, main, aux, st, scan, owner, OwnedThreads>>
  BY DEF Wake, threadFrame, gatherVars, handlerVars, OwnedThreads
<1>4. \A d \in Cores \ {c} : Victim(d)' = Victim(d)
  BY <1>1 DEF CoreTo, Victim
<1>5. TypeOK'
  BY <1>1, <1>2, <1>3, Names DEF TypeOK, CoreTypes, CoreTo
<1>6. NoThread'
  BY <1>1, <1>2, <1>3, Names DEF NoThread, CoreTo, TypeOK, CoreTypes
<1>7. Placed'
  <2>1. (\A e \in Cores : OnCore(e)' = OnCore(e))
    BY <1>1, <1>2, <1>3, Names DEF OnCore, CoreTo, TypeOK, CoreTypes
  <2>2. Same("blocked", 0, "rq", c)
    BY <1>1, <1>2, <1>3, <2>1 DEF Same
  <2>3. {u} \subseteq Held("blocked", 0) /\ Held("blocked", 0)' = Held("blocked", 0) \ {u}
    BY <1>1, <1>2, <1>3, <2>1, Names, Apart, HeldAre, HeldAreNext DEF TypeOK, CoreTypes
  <2>4. Held("rq", c)' = Held("rq", c) \cup {u}
    BY <1>1, <1>2, <1>3, <2>1, HeldAre, HeldAreNext DEF TypeOK, CoreTypes
  <2>5. c \in Spots /\ 0 \in Spots
    BY <1>1, <1>2, <1>3 DEF Spots
  <2> QED
    BY <2>2, <2>3, <2>4, <2>5, Moved, Names DEF Kinds
<1>8. Locked'
  BY <1>1, <1>2, <1>3, Names DEF Locked, CoreTo, At, TypeOK, CoreTypes
<1>9. CoresClear'
  BY <1>1, <1>2, <1>3, Names DEF CoresClear, Clear, SwitchedOut, CoreTo, TypeOK, CoreTypes
<1>10. VictimsClear'
  BY <1>1, <1>2, <1>3, <1>4, Names, VictimLocked DEF VictimsClear, Clear, CoreTo, At, TypeOK, CoreTypes
<1>11. SourcesClear'
  BY <1>1, <1>2, <1>3, Names DEF SourcesClear, CoreTo, At, Locked, TypeOK, CoreTypes
<1>12. ScanClear'
  BY <1>1, <1>2, <1>3, Names DEF ScanClear, Clear, CoreTo, Locked, TypeOK, CoreTypes
<1>13. Scanned'
  BY <1>1, <1>2, <1>3, Names DEF Scanned, Collected, TypeOK, CoreTypes
<1>14. Gathered'
  BY <1>1, <1>2, <1>3, Names, Apart DEF Gathered, CoreTo, TypeOK, CoreTypes
<1> QED
  BY <1>5, <1>6, <1>7, <1>8, <1>9, <1>10, <1>11, <1>12, <1>13, <1>14

LEMMA CedeInv ==
  ASSUME PauseInv, NEW c \in Cores, NEW t \in Threads, Cede(c, t)
  PROVE  CoreInv'
<1> USE DEF PauseInv, CoreInv
<1>1. CoreTo(c, "parked", None, core[c].then, core[c].tgt)
  BY BecomeTo DEF Cede, CorePcs
<1>2. /\ UNCHANGED <<lock, mig, req, blocked>>
      /\ core[c].pc = "run" /\ core[c].cur = t /\ lock[c] = Free
      /\ rq' = [rq EXCEPT ![c] = @ \cup {t}] /\ running' = running \ {t}
  BY DEF Cede, Runs, At
<1>3. UNCHANGED <<gathered, gone, mask, target, main, aux, st, scan, owner, OwnedThreads>>
  BY DEF Cede, threadFrame, gatherVars, handlerVars, OwnedThreads
<1>4. \A d \in Cores \ {c} : Victim(d)' = Victim(d)
  BY <1>1 DEF CoreTo, Victim
<1>5. TypeOK'
  BY <1>1, <1>2, <1>3, Names DEF TypeOK, CoreTypes, CoreTo
<1>6. NoThread'
  BY <1>1, <1>2, <1>3, Names DEF NoThread, CoreTo, TypeOK, CoreTypes
<1>7. Placed'
  <2>1. (\A e \in Cores \ {c} : OnCore(e)' = OnCore(e)) /\ OnCore(c) = {t} /\ OnCore(c)' = {}
    BY <1>1, <1>2, <1>3, Names DEF OnCore, CoreTo, TypeOK, CoreTypes
  <2>2. Same("core", c, "rq", c)
    BY <1>1, <1>2, <1>3, <2>1 DEF Same
  <2>3. {t} \subseteq Held("core", c) /\ Held("core", c)' = Held("core", c) \ {t}
    BY <1>1, <1>2, <1>3, <2>1, Names, Apart, HeldAre, HeldAreNext DEF TypeOK, CoreTypes
  <2>4. Held("rq", c)' = Held("rq", c) \cup {t}
    BY <1>1, <1>2, <1>3, <2>1, HeldAre, HeldAreNext DEF TypeOK, CoreTypes
  <2>5. c \in Spots /\ 0 \in Spots
    BY <1>1, <1>2, <1>3 DEF Spots
  <2> QED
    BY <2>2, <2>3, <2>4, <2>5, Moved, Names DEF Kinds
<1>8. Locked'
  BY <1>1, <1>2, <1>3, Names DEF Locked, CoreTo, At, TypeOK, CoreTypes
<1>9. CoresClear'
  BY <1>1, <1>2, <1>3, Names DEF CoresClear, Clear, SwitchedOut, CoreTo, TypeOK, CoreTypes
<1>10. VictimsClear'
  BY <1>1, <1>2, <1>3, <1>4, Names, VictimLocked DEF VictimsClear, Clear, CoreTo, At, TypeOK, CoreTypes
<1>11. SourcesClear'
  BY <1>1, <1>2, <1>3, Names DEF SourcesClear, CoreTo, At, Locked, TypeOK, CoreTypes
<1>12. ScanClear'
  BY <1>1, <1>2, <1>3, Names DEF ScanClear, Clear, CoreTo, Locked, TypeOK, CoreTypes
<1>13. Scanned'
  BY <1>1, <1>2, <1>3, Names DEF Scanned, Collected, TypeOK, CoreTypes
<1>14. Gathered'
  BY <1>1, <1>2, <1>3, Names DEF Gathered, CoreTo, TypeOK, CoreTypes
<1> QED
  BY <1>5, <1>6, <1>7, <1>8, <1>9, <1>10, <1>11, <1>12, <1>13, <1>14

LEMMA EnterDirectInv ==
  ASSUME PauseInv, NEW c \in Cores, EnterDirect(c)
  PROVE  CoreInv'
<1> USE DEF PauseInv, CoreInv
<1>1. PICK t \in rq[c] \cup {Other} :
        /\ CoreTo(c, "load", t, core[c].then, core[c].tgt)
        /\ rq' = [rq EXCEPT ![c] = @ \ {t}]
  BY SwapTo DEF EnterDirect, PauseInv, CoreInv, TypeOK, CoreTypes, CorePcs
<1>2. /\ UNCHANGED <<lock, mig, req, running, blocked>>
      /\ core[c].pc = "switch" /\ lock[c] = Free
  BY DEF EnterDirect, At
<1>3. UNCHANGED <<gathered, gone, mask, target, main, aux, st, scan, owner, OwnedThreads>>
  BY DEF EnterDirect, threadFrame, gatherVars, handlerVars, OwnedThreads
<1>4. \A d \in Cores \ {c} : Victim(d)' = Victim(d)
  BY <1>1 DEF CoreTo, Victim
<1>5. TypeOK'
  BY <1>1, <1>2, <1>3, Names DEF TypeOK, CoreTypes, CoreTo
<1>6. NoThread'
  BY <1>1, <1>2, <1>3, Names DEF NoThread, CoreTo, TypeOK, CoreTypes
<1>7. Placed'
  <2>1. (\A e \in Cores \ {c} : OnCore(e)' = OnCore(e)) /\ OnCore(c) = {} /\ OnCore(c)' = ({t} \cap Threads)
    BY <1>1, <1>2, <1>3, Names DEF OnCore, CoreTo, TypeOK, CoreTypes
  <2>2. Same("rq", c, "core", c)
    BY <1>1, <1>2, <1>3, <2>1 DEF Same
  <2>3. ({t} \cap Threads) \subseteq Held("rq", c) /\ Held("rq", c)' = Held("rq", c) \ ({t} \cap Threads)
    BY <1>1, <1>2, <1>3, <2>1, Names, Apart, HeldAre, HeldAreNext DEF TypeOK, CoreTypes
  <2>4. Held("core", c)' = Held("core", c) \cup ({t} \cap Threads)
    BY <1>1, <1>2, <1>3, <2>1, HeldAre, HeldAreNext DEF TypeOK, CoreTypes
  <2>5. c \in Spots /\ 0 \in Spots
    BY <1>1, <1>2, <1>3 DEF Spots
  <2> QED
    BY <2>2, <2>3, <2>4, <2>5, Moved, Names DEF Kinds
<1>8. Locked'
  BY <1>1, <1>2, <1>3, Names DEF Locked, CoreTo, At, TypeOK, CoreTypes
<1>9. CoresClear'
  BY <1>1, <1>2, <1>3, Names DEF CoresClear, Clear, SwitchedOut, CoreTo, TypeOK, CoreTypes
<1>10. VictimsClear'
  BY <1>1, <1>2, <1>3, <1>4, Names, VictimLocked DEF VictimsClear, Clear, CoreTo, At, TypeOK, CoreTypes
<1>11. SourcesClear'
  BY <1>1, <1>2, <1>3, Names DEF SourcesClear, CoreTo, At, Locked, TypeOK, CoreTypes
<1>12. ScanClear'
  BY <1>1, <1>2, <1>3, Names DEF ScanClear, Clear, CoreTo, Locked, TypeOK, CoreTypes
<1>13. Scanned'
  BY <1>1, <1>2, <1>3, Names DEF Scanned, Collected, TypeOK, CoreTypes
<1>14. Gathered'
  BY <1>1, <1>2, <1>3, Names DEF Gathered, CoreTo, TypeOK, CoreTypes
<1> QED
  BY <1>5, <1>6, <1>7, <1>8, <1>9, <1>10, <1>11, <1>12, <1>13, <1>14

LEMMA RunNextInv ==
  ASSUME PauseInv, NEW c \in Cores, RunNext(c)
  PROVE  CoreInv'
<1> USE DEF PauseInv, CoreInv
<1>1. PICK t \in rq[c] :
        /\ CoreTo(c, "load", t, core[c].then, core[c].tgt)
        /\ rq' = [rq EXCEPT ![c] = @ \ {t}]
  BY BecomeTo DEF RunNext, PauseInv, CoreInv, TypeOK, CoreTypes, CorePcs
<1>2. /\ UNCHANGED <<mig, req, running, blocked>>
      /\ core[c].pc = "sched" /\ core[c].cur \notin Threads
      /\ lock' = [lock EXCEPT ![c] = Free]
  BY DEF RunNext, At, NoThread
<1>3. UNCHANGED <<gathered, gone, mask, target, main, aux, st, scan, owner, OwnedThreads>>
  BY DEF RunNext, threadFrame, gatherVars, handlerVars, OwnedThreads
<1>4. \A d \in Cores \ {c} : Victim(d)' = Victim(d)
  BY <1>1 DEF CoreTo, Victim
<1>5. TypeOK'
  BY <1>1, <1>2, <1>3, Names DEF TypeOK, CoreTypes, CoreTo
<1>6. NoThread'
  BY <1>1, <1>2, <1>3, Names DEF NoThread, CoreTo, TypeOK, CoreTypes
<1>7. Placed'
  <2>1. (\A e \in Cores \ {c} : OnCore(e)' = OnCore(e)) /\ OnCore(c) = {} /\ OnCore(c)' = {t}
    BY <1>1, <1>2, <1>3, Names DEF OnCore, CoreTo, TypeOK, CoreTypes
  <2>2. Same("rq", c, "core", c)
    BY <1>1, <1>2, <1>3, <2>1 DEF Same
  <2>3. {t} \subseteq Held("rq", c) /\ Held("rq", c)' = Held("rq", c) \ {t}
    BY <1>1, <1>2, <1>3, <2>1, Names, Apart, HeldAre, HeldAreNext DEF TypeOK, CoreTypes
  <2>4. Held("core", c)' = Held("core", c) \cup {t}
    BY <1>1, <1>2, <1>3, <2>1, HeldAre, HeldAreNext DEF TypeOK, CoreTypes
  <2>5. c \in Spots /\ 0 \in Spots
    BY <1>1, <1>2, <1>3 DEF Spots
  <2> QED
    BY <2>2, <2>3, <2>4, <2>5, Moved, Names DEF Kinds
<1>8. Locked'
  BY <1>1, <1>2, <1>3, Names DEF Locked, CoreTo, At, TypeOK, CoreTypes
<1>9. CoresClear'
  BY <1>1, <1>2, <1>3, Names DEF CoresClear, Clear, SwitchedOut, CoreTo, TypeOK, CoreTypes
<1>10. VictimsClear'
  BY <1>1, <1>2, <1>3, <1>4, Names, VictimLocked DEF VictimsClear, Clear, CoreTo, At, TypeOK, CoreTypes
<1>11. SourcesClear'
  BY <1>1, <1>2, <1>3, Names DEF SourcesClear, CoreTo, At, Locked, TypeOK, CoreTypes
<1>12. ScanClear'
  BY <1>1, <1>2, <1>3, Names DEF ScanClear, Clear, CoreTo, Locked, TypeOK, CoreTypes
<1>13. Scanned'
  BY <1>1, <1>2, <1>3, Names DEF Scanned, Collected, TypeOK, CoreTypes
<1>14. Gathered'
  BY <1>1, <1>2, <1>3, Names DEF Gathered, CoreTo, TypeOK, CoreTypes
<1> QED
  BY <1>5, <1>6, <1>7, <1>8, <1>9, <1>10, <1>11, <1>12, <1>13, <1>14

LEMMA StealTakeInv ==
  ASSUME PauseInv, NEW c \in Cores, StealTake(c)
  PROVE  CoreInv'
<1> USE DEF PauseInv, CoreInv
<1>1. CoreTo(c, "sched", core[c].cur, core[c].then, core[c].tgt)
  BY GotoTo DEF StealTake, CorePcs
<1>2. /\ UNCHANGED <<lock, mig, req, running, blocked>>
      /\ core[c].pc = "steal" /\ lock[core[c].tgt] = Free /\ core[c].tgt \in Cores \ {c} /\ lock[c] = c
      /\ mask /\ ~req[c] => ~req[core[c].tgt]
  BY DEF StealTake, At, Takeable, TypeOK, CoreTypes, CoreRec, Locked, SourcesClear
<1>3. UNCHANGED <<gathered, gone, mask, target, main, aux, st, scan, owner, OwnedThreads>>
  BY DEF StealTake, threadFrame, gatherVars, handlerVars, OwnedThreads
<1>4. \A d \in Cores \ {c} : Victim(d)' = Victim(d)
  BY <1>1 DEF CoreTo, Victim
<1>5. PICK r \in Cores : r = core[c].tgt /\ r # c
  BY <1>2
<1>6. PICK some \in SUBSET rq[r] : rq' = [rq EXCEPT ![c] = @ \cup some, ![r] = @ \ some]
  BY <1>5 DEF StealTake
<1>7. /\ rq' \in [Cores -> SUBSET Threads]
      /\ rq'[c] = rq[c] \cup some /\ rq'[r] = rq[r] \ some
      /\ \A d \in Cores \ {c, r} : rq'[d] = rq[d]
  BY <1>2, <1>6, <1>5 DEF TypeOK, CoreTypes
<1>8. mask /\ ~req[c] => some \cap OwnedThreads = {}
  BY <1>2, <1>6, <1>5 DEF CoresClear, Clear
<1>9. TypeOK'
  BY <1>1, <1>2, <1>3, <1>5, <1>6, <1>7, <1>8, Names DEF TypeOK, CoreTypes, CoreTo
<1>10. NoThread'
  BY <1>1, <1>2, <1>3, <1>5, <1>6, <1>7, <1>8, Names DEF NoThread, CoreTo, TypeOK, CoreTypes
<1>11. Placed'
  <2>1. (\A e \in Cores : OnCore(e)' = OnCore(e))
    BY <1>1, <1>2, <1>3, <1>5, <1>6, <1>7, <1>8, Names DEF OnCore, CoreTo, TypeOK, CoreTypes
  <2>2. Same("rq", r, "rq", c)
    BY <1>1, <1>2, <1>3, <1>5, <1>6, <1>7, <1>8, <2>1 DEF Same
  <2>3. some \subseteq Held("rq", r) /\ Held("rq", r)' = Held("rq", r) \ some
    BY <1>1, <1>2, <1>3, <1>5, <1>6, <1>7, <1>8, <2>1, Names, Apart, HeldAre, HeldAreNext DEF TypeOK, CoreTypes
  <2>4. Held("rq", c)' = Held("rq", c) \cup some
    BY <1>1, <1>2, <1>3, <1>5, <1>6, <1>7, <1>8, <2>1, HeldAre, HeldAreNext DEF TypeOK, CoreTypes
  <2>5. c \in Spots /\ 0 \in Spots /\ r \in Spots
    BY <1>1, <1>2, <1>3, <1>5, <1>6, <1>7, <1>8 DEF Spots
  <2> QED
    BY <1>5, <2>2, <2>3, <2>4, <2>5, Moved, Names DEF Kinds
<1>12. Locked'
  BY <1>1, <1>2, <1>3, <1>5, <1>6, <1>7, <1>8, Names DEF Locked, CoreTo, At, TypeOK, CoreTypes
<1>13. CoresClear'
  BY <1>1, <1>2, <1>3, <1>5, <1>6, <1>7, <1>8, Names DEF CoresClear, Clear, SwitchedOut, CoreTo, TypeOK, CoreTypes
<1>14. VictimsClear'
  BY <1>1, <1>2, <1>3, <1>5, <1>6, <1>7, <1>8, <1>4, Names, VictimLocked DEF VictimsClear, Clear, CoreTo, At, TypeOK, CoreTypes
<1>15. SourcesClear'
  BY <1>1, <1>2, <1>3, <1>5, <1>6, <1>7, <1>8, Names DEF SourcesClear, CoreTo, At, Locked, TypeOK, CoreTypes
<1>16. ScanClear'
  BY <1>1, <1>2, <1>3, <1>5, <1>6, <1>7, <1>8, Names DEF ScanClear, Clear, CoreTo, Locked, TypeOK, CoreTypes
<1>17. Scanned'
  BY <1>1, <1>2, <1>3, <1>5, <1>6, <1>7, <1>8, Names DEF Scanned, Collected, TypeOK, CoreTypes
<1>18. Gathered'
  BY <1>1, <1>2, <1>3, <1>5, <1>6, <1>7, <1>8, Names DEF Gathered, CoreTo, TypeOK, CoreTypes
<1> QED
  BY <1>9, <1>10, <1>11, <1>12, <1>13, <1>14, <1>15, <1>16, <1>17, <1>18

LEMMA ShedMoveInv ==
  ASSUME PauseInv, NEW c \in Cores, ShedMove(c)
  PROVE  CoreInv'
<1> USE DEF PauseInv, CoreInv
<1>1. CoreTo(c, "run", core[c].cur, core[c].then, core[c].tgt)
  BY GotoTo DEF ShedMove, CorePcs
<1>2. /\ UNCHANGED <<mig, req, running, blocked>>
      /\ core[c].pc = "shed" /\ core[c].tgt \in Cores \ {c} /\ lock[core[c].tgt] = c /\ lock[c] = c
      /\ mask /\ ~req[core[c].tgt] => ~req[c]
      /\ lock' = [lock EXCEPT ![c] = Free, ![core[c].tgt] = Free]
  BY DEF ShedMove, At, TypeOK, CoreTypes, CoreRec, Locked, SourcesClear
<1>3. UNCHANGED <<gathered, gone, mask, target, main, aux, st, scan, owner, OwnedThreads>>
  BY DEF ShedMove, threadFrame, gatherVars, handlerVars, OwnedThreads
<1>4. \A d \in Cores \ {c} : Victim(d)' = Victim(d)
  BY <1>1 DEF CoreTo, Victim
<1>5. PICK r \in Cores : r = core[c].tgt /\ r # c
  BY <1>2
<1>6. PICK some \in SUBSET rq[c] : rq' = [rq EXCEPT ![c] = @ \ some, ![r] = @ \cup some]
  BY <1>5 DEF ShedMove
<1>7. /\ rq' \in [Cores -> SUBSET Threads]
      /\ rq'[c] = rq[c] \ some /\ rq'[r] = rq[r] \cup some
      /\ \A d \in Cores \ {c, r} : rq'[d] = rq[d]
  BY <1>2, <1>6, <1>5 DEF TypeOK, CoreTypes
<1>8. lock' \in [Cores -> Cores \cup Aux \cup {Free}] /\ lock'[c] = Free /\ lock'[r] = Free
      /\ \A d \in Cores \ {c, r} : lock'[d] = lock[d]
  BY <1>2, <1>5 DEF TypeOK, CoreTypes
<1>9. mask /\ ~req[r] => some \cap OwnedThreads = {}
  BY <1>2, <1>6, <1>5 DEF CoresClear, Clear
<1>10. TypeOK'
  BY <1>1, <1>2, <1>3, <1>5, <1>6, <1>7, <1>8, <1>9, Names DEF TypeOK, CoreTypes, CoreTo
<1>11. NoThread'
  BY <1>1, <1>2, <1>3, <1>5, <1>6, <1>7, <1>8, <1>9, Names DEF NoThread, CoreTo, TypeOK, CoreTypes
<1>12. Placed'
  <2>1. (\A e \in Cores : OnCore(e)' = OnCore(e))
    BY <1>1, <1>2, <1>3, <1>5, <1>6, <1>7, <1>8, <1>9, Names DEF OnCore, CoreTo, TypeOK, CoreTypes
  <2>2. Same("rq", c, "rq", r)
    BY <1>1, <1>2, <1>3, <1>5, <1>6, <1>7, <1>8, <1>9, <2>1 DEF Same
  <2>3. some \subseteq Held("rq", c) /\ Held("rq", c)' = Held("rq", c) \ some
    BY <1>1, <1>2, <1>3, <1>5, <1>6, <1>7, <1>8, <1>9, <2>1, Names, Apart, HeldAre, HeldAreNext DEF TypeOK, CoreTypes
  <2>4. Held("rq", r)' = Held("rq", r) \cup some
    BY <1>1, <1>2, <1>3, <1>5, <1>6, <1>7, <1>8, <1>9, <2>1, HeldAre, HeldAreNext DEF TypeOK, CoreTypes
  <2>5. c \in Spots /\ 0 \in Spots /\ r \in Spots
    BY <1>1, <1>2, <1>3, <1>5, <1>6, <1>7, <1>8, <1>9 DEF Spots
  <2> QED
    BY <1>5, <2>2, <2>3, <2>4, <2>5, Moved, Names DEF Kinds
<1>13. Locked'
  <2>1. \A e \in Cores : lock[e] # c => lock'[e] = lock[e]
    BY <1>2, <1>8, <1>5
  <2>2. \A a \in Aux : aux[a] = "pausing" => scan.i \in Cores /\ lock'[scan.i] = a
    BY <2>1, Names DEF Locked
  <2>3. \A e \in Cores \ {c} : core'[e] = core[e]
    BY <1>1 DEF CoreTo
  <2>4. \A e \in Cores \ {c} :
          /\ core[e].pc \in {"check", "sched", "steal", "pausing", "shed"} => lock'[e] = e
          /\ At(e, "shed") => lock'[core[e].tgt] = e
          /\ At(e, "pausing") /\ core[e].then \in {"steal", "shed"} => lock'[core[e].tgt] = e
    BY <2>1 DEF Locked, TypeOK, CoreTypes, CoreRec
  <2> QED
    BY <1>1, <1>3, <2>2, <2>3, <2>4 DEF Locked, CoreTo, At
<1>14. CoresClear'
  BY <1>1, <1>2, <1>3, <1>5, <1>6, <1>7, <1>8, <1>9, Names DEF CoresClear, Clear, SwitchedOut, CoreTo, TypeOK, CoreTypes
<1>15. VictimsClear'
  BY <1>1, <1>2, <1>3, <1>5, <1>6, <1>7, <1>8, <1>9, <1>4, Names, VictimLocked DEF VictimsClear, Clear, CoreTo, At, TypeOK, CoreTypes
<1>16. SourcesClear'
  BY <1>1, <1>2, <1>3, <1>5, <1>6, <1>7, <1>8, <1>9, Names DEF SourcesClear, CoreTo, At, Locked, TypeOK, CoreTypes
<1>17. ScanClear'
  BY <1>1, <1>2, <1>3, <1>5, <1>6, <1>7, <1>8, <1>9, Names DEF ScanClear, Clear, CoreTo, Locked, TypeOK, CoreTypes
<1>18. Scanned'
  BY <1>1, <1>2, <1>3, <1>5, <1>6, <1>7, <1>8, <1>9, Names DEF Scanned, Collected, TypeOK, CoreTypes
<1>19. Gathered'
  BY <1>1, <1>2, <1>3, <1>5, <1>6, <1>7, <1>8, <1>9, Names DEF Gathered, CoreTo, TypeOK, CoreTypes
<1> QED
  BY <1>10, <1>11, <1>12, <1>13, <1>14, <1>15, <1>16, <1>17, <1>18, <1>19

(* What __pause_migrating_threads_locked takes from the queue of core v.   *)
LEMMA Taken ==
  ASSUME TypeOK, NEW v \in Cores, TakeThreads(v)
  PROVE  /\ rq' \in [Cores -> SUBSET Threads] /\ mig' \in [Cores -> SUBSET Threads]
         /\ rq'[v] = rq[v] \ OwnedThreads /\ mig'[v] = mig[v] \cup (rq[v] \cap OwnedThreads)
         /\ \A d \in Cores \ {v} : rq'[d] = rq[d] /\ mig'[d] = mig[d]
BY DEF TypeOK, CoreTypes, TakeThreads

LEMMA TakenPlaced ==
  ASSUME TypeOK, Placed, NEW v \in Cores, TakeThreads(v),
         UNCHANGED <<blocked, gathered, gone>>, \A e \in Cores : OnCore(e)' = OnCore(e)
  PROVE  Placed'
<1> DEFINE M == rq[v] \cap OwnedThreads
<1>1. Same("rq", v, "mig", v)
  BY Taken DEF Same
<1>2. M \subseteq Held("rq", v) /\ Held("rq", v)' = Held("rq", v) \ M
  BY Taken, HeldAre, HeldAreNext
<1>3. Held("mig", v)' = Held("mig", v) \cup M
  BY Taken, HeldAre, HeldAreNext
<1>4. v \in Spots
  BY DEF Spots
<1> QED
  BY <1>1, <1>2, <1>3, <1>4, Moved DEF Kinds

(* The steps of a core that handles a request for a stop, its own or the   *)
(* one of the core it would take a thread from.                            *)
LEMMA CheckStopInv ==
  ASSUME PauseInv, NEW c \in Cores, Check(c), Pending(c)
  PROVE  CoreInv'
<1> USE DEF PauseInv, CoreInv
<1>1. CoreTo(c, "pausing", core[c].cur, "sched", core[c].tgt)
  BY PauseTo DEF Check
<1>2. /\ UNCHANGED <<lock, req, running, blocked>>
      /\ core[c].pc = "check" /\ core[c].cur \notin Threads /\ lock[c] = c /\ mask /\ req[c] /\ TakeThreads(c)
  BY DEF Check, Pending, At, NoThread, Locked
<1>3. UNCHANGED <<gathered, gone, mask, target, main, aux, st, scan, owner, OwnedThreads>>
  BY DEF Check, threadFrame, gatherVars, handlerVars, OwnedThreads
<1>4. \A d \in Cores \ {c} : Victim(d)' = Victim(d)
  BY <1>1 DEF CoreTo, Victim
<1>5. /\ rq' \in [Cores -> SUBSET Threads] /\ mig' \in [Cores -> SUBSET Threads]
      /\ rq'[c] = rq[c] \ OwnedThreads /\ mig'[c] = mig[c] \cup (rq[c] \cap OwnedThreads)
      /\ \A d \in Cores \ {c} : rq'[d] = rq[d] /\ mig'[d] = mig[d]
  BY <1>2, Taken
<1>6. TypeOK'
  BY <1>1, <1>2, <1>3, <1>5, Names DEF TypeOK, CoreTypes, CoreTo
<1>7. NoThread'
  BY <1>1, <1>2, <1>3, <1>5, Names DEF NoThread, CoreTo, TypeOK, CoreTypes
<1>8. Placed'
  <2>1. \A e \in Cores : OnCore(e)' = OnCore(e)
    BY <1>1, <1>2, <1>3, Names DEF OnCore, CoreTo, TypeOK, CoreTypes
  <2> QED
    BY <1>2, <1>3, <2>1, TakenPlaced
<1>9. Locked'
  BY <1>1, <1>2, <1>3, <1>5, Names DEF Locked, CoreTo, At, TypeOK, CoreTypes
<1>10. CoresClear'
  BY <1>1, <1>2, <1>3, <1>5, Names DEF CoresClear, Clear, SwitchedOut, CoreTo, TypeOK, CoreTypes
<1>11. VictimsClear'
  BY <1>1, <1>2, <1>3, <1>5, <1>4, Names, VictimLocked DEF VictimsClear, Clear, CoreTo, At, TypeOK, CoreTypes, Victim
<1>12. SourcesClear'
  BY <1>1, <1>2, <1>3, <1>5, Names DEF SourcesClear, CoreTo, At, Locked, TypeOK, CoreTypes
<1>13. ScanClear'
  BY <1>1, <1>2, <1>3, <1>5, Names DEF ScanClear, Clear, CoreTo, Locked, TypeOK, CoreTypes
<1>14. Scanned'
  BY <1>1, <1>2, <1>3, <1>5, Names DEF Scanned, Collected, TypeOK, CoreTypes
<1>15. Gathered'
  BY <1>1, <1>2, <1>3, <1>5, Names DEF Gathered, CoreTo, TypeOK, CoreTypes
<1> QED
  BY <1>6, <1>7, <1>8, <1>9, <1>10, <1>11, <1>12, <1>13, <1>14, <1>15

LEMMA StealHandleInv ==
  ASSUME PauseInv, NEW c \in Cores, NEW r \in Cores, StealHandle(c, r)
  PROVE  CoreInv'
<1> USE DEF PauseInv, CoreInv
<1>1. CoreTo(c, "pausing", core[c].cur, "steal", r)
  BY PauseAimTo DEF StealHandle
<1>2. /\ UNCHANGED <<req, running, blocked>>
      /\ core[c].pc = "sched" /\ r # c /\ mask /\ req[r] /\ lock[r] = Free /\ TakeThreads(r)
      /\ core[r].cur \notin OwnedThreads
      /\ lock' = [lock EXCEPT ![r] = c]
  BY DEF StealHandle, Pending, Takeable, CanHandle, At, NoThread, Locked
<1>3. UNCHANGED <<gathered, gone, mask, target, main, aux, st, scan, owner, OwnedThreads>>
  BY DEF StealHandle, threadFrame, gatherVars, handlerVars, OwnedThreads
<1>4. \A d \in Cores \ {c} : Victim(d)' = Victim(d)
  BY <1>1 DEF CoreTo, Victim
<1>5. /\ rq' \in [Cores -> SUBSET Threads] /\ mig' \in [Cores -> SUBSET Threads]
      /\ rq'[r] = rq[r] \ OwnedThreads /\ mig'[r] = mig[r] \cup (rq[r] \cap OwnedThreads)
      /\ \A d \in Cores \ {r} : rq'[d] = rq[d] /\ mig'[d] = mig[d]
  BY <1>2, Taken
<1>6. TypeOK'
  BY <1>1, <1>2, <1>3, <1>5, Names DEF TypeOK, CoreTypes, CoreTo
<1>7. NoThread'
  BY <1>1, <1>2, <1>3, <1>5, Names DEF NoThread, CoreTo, TypeOK, CoreTypes
<1>8. Placed'
  <2>1. \A e \in Cores : OnCore(e)' = OnCore(e)
    BY <1>1, <1>2, <1>3, Names DEF OnCore, CoreTo, TypeOK, CoreTypes
  <2> QED
    BY <1>2, <1>3, <2>1, TakenPlaced
<1>9. Locked'
  BY <1>1, <1>2, <1>3, <1>5, Names DEF Locked, CoreTo, At, TypeOK, CoreTypes
<1>10. CoresClear'
  BY <1>1, <1>2, <1>3, <1>5, Names DEF CoresClear, Clear, SwitchedOut, CoreTo, TypeOK, CoreTypes
<1>11. VictimsClear'
  BY <1>1, <1>2, <1>3, <1>5, <1>4, Names, VictimLocked DEF VictimsClear, Clear, CoreTo, At, TypeOK, CoreTypes, Victim
<1>12. SourcesClear'
  BY <1>1, <1>2, <1>3, <1>5, Names DEF SourcesClear, CoreTo, At, Locked, TypeOK, CoreTypes
<1>13. ScanClear'
  BY <1>1, <1>2, <1>3, <1>5, Names DEF ScanClear, Clear, CoreTo, Locked, TypeOK, CoreTypes
<1>14. Scanned'
  BY <1>1, <1>2, <1>3, <1>5, Names DEF Scanned, Collected, TypeOK, CoreTypes
<1>15. Gathered'
  BY <1>1, <1>2, <1>3, <1>5, Names DEF Gathered, CoreTo, TypeOK, CoreTypes
<1> QED
  BY <1>6, <1>7, <1>8, <1>9, <1>10, <1>11, <1>12, <1>13, <1>14, <1>15

LEMMA UnblockHandleInv ==
  ASSUME PauseInv, NEW c \in Cores, UnblockHandle(c)
  PROVE  CoreInv'
<1> USE DEF PauseInv, CoreInv
<1>1. CoreTo(c, "pausing", core[c].cur, "run", core[c].tgt)
  BY PauseTo DEF UnblockHandle
<1>2. /\ UNCHANGED <<req, running, blocked>>
      /\ core[c].pc = "run" /\ core[c].cur = Other /\ lock[c] = Free /\ mask /\ req[c] /\ TakeThreads(c)
      /\ lock' = [lock EXCEPT ![c] = c]
  BY DEF UnblockHandle, Pending, At
<1>3. UNCHANGED <<gathered, gone, mask, target, main, aux, st, scan, owner, OwnedThreads>>
  BY DEF UnblockHandle, threadFrame, gatherVars, handlerVars, OwnedThreads
<1>4. \A d \in Cores \ {c} : Victim(d)' = Victim(d)
  BY <1>1 DEF CoreTo, Victim
<1>5. /\ rq' \in [Cores -> SUBSET Threads] /\ mig' \in [Cores -> SUBSET Threads]
      /\ rq'[c] = rq[c] \ OwnedThreads /\ mig'[c] = mig[c] \cup (rq[c] \cap OwnedThreads)
      /\ \A d \in Cores \ {c} : rq'[d] = rq[d] /\ mig'[d] = mig[d]
  BY <1>2, Taken
<1>6. TypeOK'
  BY <1>1, <1>2, <1>3, <1>5, Names DEF TypeOK, CoreTypes, CoreTo
<1>7. NoThread'
  BY <1>1, <1>2, <1>3, <1>5, Names DEF NoThread, CoreTo, TypeOK, CoreTypes
<1>8. Placed'
  <2>1. \A e \in Cores : OnCore(e)' = OnCore(e)
    BY <1>1, <1>2, <1>3, Names DEF OnCore, CoreTo, TypeOK, CoreTypes
  <2> QED
    BY <1>2, <1>3, <2>1, TakenPlaced
<1>9. Locked'
  BY <1>1, <1>2, <1>3, <1>5, Names DEF Locked, CoreTo, At, TypeOK, CoreTypes
<1>10. CoresClear'
  BY <1>1, <1>2, <1>3, <1>5, Names DEF CoresClear, Clear, SwitchedOut, CoreTo, TypeOK, CoreTypes
<1>11. VictimsClear'
  BY <1>1, <1>2, <1>3, <1>5, <1>4, Names, VictimLocked DEF VictimsClear, Clear, CoreTo, At, TypeOK, CoreTypes, Victim
<1>12. SourcesClear'
  BY <1>1, <1>2, <1>3, <1>5, Names DEF SourcesClear, CoreTo, At, Locked, TypeOK, CoreTypes
<1>13. ScanClear'
  BY <1>1, <1>2, <1>3, <1>5, Names DEF ScanClear, Clear, CoreTo, Locked, TypeOK, CoreTypes
<1>14. Scanned'
  BY <1>1, <1>2, <1>3, <1>5, Names DEF Scanned, Collected, TypeOK, CoreTypes
<1>15. Gathered'
  BY <1>1, <1>2, <1>3, <1>5, Names DEF Gathered, CoreTo, TypeOK, CoreTypes
<1> QED
  BY <1>6, <1>7, <1>8, <1>9, <1>10, <1>11, <1>12, <1>13, <1>14, <1>15

LEMMA ShedLookStopInv ==
  ASSUME PauseInv, NEW c \in Cores, NEW r \in Cores, ShedLook(c, r), Pending(c)
  PROVE  CoreInv'
<1> USE DEF PauseInv, CoreInv
<1>1. CoreTo(c, "pausing", core[c].cur, "shed", r)
  BY PauseAimTo DEF ShedLook, MustStopFirst
<1>2. /\ UNCHANGED <<req, running, blocked>>
      /\ core[c].pc = "run" /\ core[c].cur = Other /\ lock[c] = Free /\ r # c /\ lock[r] = Free
      /\ mask /\ req[c] /\ TakeThreads(c)
  BY DEF ShedLook, MustStopFirst, Takeable, Pending, At
<1>3. UNCHANGED <<gathered, gone, mask, target, main, aux, st, scan, owner, OwnedThreads>>
  BY DEF ShedLook, threadFrame, gatherVars, handlerVars, OwnedThreads
<1>4. \A d \in Cores \ {c} : Victim(d)' = Victim(d)
  BY <1>1 DEF CoreTo, Victim
<1>5. /\ rq' \in [Cores -> SUBSET Threads] /\ mig' \in [Cores -> SUBSET Threads]
      /\ rq'[c] = rq[c] \ OwnedThreads /\ mig'[c] = mig[c] \cup (rq[c] \cap OwnedThreads)
      /\ \A d \in Cores \ {c} : rq'[d] = rq[d] /\ mig'[d] = mig[d]
  BY <1>2, Taken
<1>6. /\ lock' \in [Cores -> Cores \cup Aux \cup {Free}] /\ lock'[c] = c /\ lock'[r] = c
      /\ \A e \in Cores : lock[e] # Free => lock'[e] = lock[e]
  BY <1>2 DEF ShedLook, TypeOK, CoreTypes
<1>7. TypeOK'
  BY <1>1, <1>2, <1>3, <1>5, <1>6, Names DEF TypeOK, CoreTypes, CoreTo
<1>8. NoThread'
  BY <1>1, <1>2, <1>3, <1>5, <1>6, Names DEF NoThread, CoreTo, TypeOK, CoreTypes
<1>9. Placed'
  <2>1. \A e \in Cores : OnCore(e)' = OnCore(e)
    BY <1>1, <1>2, <1>3, Names DEF OnCore, CoreTo, TypeOK, CoreTypes
  <2> QED
    BY <1>2, <1>3, <2>1, TakenPlaced
<1>10. Locked'
  <2>1. \A a \in Aux : aux[a] = "pausing" => scan.i \in Cores /\ lock'[scan.i] = a
    BY <1>6, Names DEF Locked
  <2>2. \A e \in Cores \ {c} : core'[e] = core[e]
    BY <1>1 DEF CoreTo
  <2>3. \A e \in Cores \ {c} :
          /\ core[e].pc \in {"check", "sched", "steal", "pausing", "shed"} => lock'[e] = e
          /\ At(e, "shed") => lock'[core[e].tgt] = e
          /\ At(e, "pausing") /\ core[e].then \in {"steal", "shed"} => lock'[core[e].tgt] = e
    BY <1>6, Names DEF Locked, TypeOK, CoreTypes, CoreRec
  <2> QED
    BY <1>1, <1>2, <1>3, <1>6, <2>1, <2>2, <2>3 DEF Locked, CoreTo, At
<1>11. CoresClear'
  BY <1>1, <1>2, <1>3, <1>5, <1>6, Names DEF CoresClear, Clear, SwitchedOut, CoreTo, TypeOK, CoreTypes
<1>12. VictimsClear'
  BY <1>1, <1>2, <1>3, <1>5, <1>6, <1>4, Names, VictimLocked DEF VictimsClear, Clear, CoreTo, At, TypeOK, CoreTypes, Victim
<1>13. SourcesClear'
  BY <1>1, <1>2, <1>3, <1>5, <1>6, Names DEF SourcesClear, CoreTo, At, Locked, TypeOK, CoreTypes
<1>14. ScanClear'
  BY <1>1, <1>2, <1>3, <1>5, <1>6, Names DEF ScanClear, Clear, CoreTo, Locked, TypeOK, CoreTypes
<1>15. Scanned'
  BY <1>1, <1>2, <1>3, <1>5, <1>6, Names DEF Scanned, Collected, TypeOK, CoreTypes
<1>16. Gathered'
  BY <1>1, <1>2, <1>3, <1>5, <1>6, Names DEF Gathered, CoreTo, TypeOK, CoreTypes
<1> QED
  BY <1>7, <1>8, <1>9, <1>10, <1>11, <1>12, <1>13, <1>14, <1>15, <1>16

LEMMA ShedLookPassInv ==
  ASSUME PauseInv, NEW c \in Cores, NEW r \in Cores, ShedLook(c, r), ~Pending(c)
  PROVE  CoreInv'
<1> USE DEF PauseInv, CoreInv
<1>1. CoreTo(c, "shed", core[c].cur, core[c].then, r)
  BY AimTo DEF ShedLook, MustStopFirst, CorePcs
<1>2. /\ UNCHANGED <<rq, mig, req, running, blocked>>
      /\ core[c].pc = "run" /\ core[c].cur = Other /\ lock[c] = Free /\ r # c /\ lock[r] = Free
      /\ mask => ~req[c]
  BY DEF ShedLook, MustStopFirst, Takeable, Pending, At
<1>3. UNCHANGED <<gathered, gone, mask, target, main, aux, st, scan, owner, OwnedThreads>>
  BY DEF ShedLook, threadFrame, gatherVars, handlerVars, OwnedThreads
<1>4. \A d \in Cores \ {c} : Victim(d)' = Victim(d)
  BY <1>1 DEF CoreTo, Victim
<1>5. /\ lock' \in [Cores -> Cores \cup Aux \cup {Free}] /\ lock'[c] = c /\ lock'[r] = c
      /\ \A e \in Cores : lock[e] # Free => lock'[e] = lock[e]
  BY <1>2 DEF ShedLook, TypeOK, CoreTypes
<1>6. TypeOK'
  BY <1>1, <1>2, <1>3, <1>5, Names DEF TypeOK, CoreTypes, CoreTo
<1>7. NoThread'
  BY <1>1, <1>2, <1>3, <1>5, Names DEF NoThread, CoreTo, TypeOK, CoreTypes
<1>8. Placed'
  <2>1. \A e \in Cores : OnCore(e)' = OnCore(e)
    BY <1>1, <1>2, <1>3, <1>5, Names DEF OnCore, CoreTo
  <2> QED
    BY <1>1, <1>2, <1>3, <1>5, <2>1, NoneMoved
<1>9. Locked'
  <2>1. \A a \in Aux : aux[a] = "pausing" => scan.i \in Cores /\ lock'[scan.i] = a
    BY <1>5, Names DEF Locked
  <2>2. \A e \in Cores \ {c} : core'[e] = core[e]
    BY <1>1 DEF CoreTo
  <2>3. \A e \in Cores \ {c} :
          /\ core[e].pc \in {"check", "sched", "steal", "pausing", "shed"} => lock'[e] = e
          /\ At(e, "shed") => lock'[core[e].tgt] = e
          /\ At(e, "pausing") /\ core[e].then \in {"steal", "shed"} => lock'[core[e].tgt] = e
    BY <1>5, Names DEF Locked, TypeOK, CoreTypes, CoreRec
  <2> QED
    BY <1>1, <1>2, <1>3, <1>5, <2>1, <2>2, <2>3 DEF Locked, CoreTo, At
<1>10. CoresClear'
  BY <1>1, <1>2, <1>3, <1>5, Names DEF CoresClear, Clear, SwitchedOut, CoreTo, TypeOK, CoreTypes
<1>11. VictimsClear'
  BY <1>1, <1>2, <1>3, <1>5, <1>4, Names, VictimLocked DEF VictimsClear, Clear, CoreTo, At, TypeOK, CoreTypes
<1>12. SourcesClear'
  BY <1>1, <1>2, <1>3, <1>5, Names DEF SourcesClear, CoreTo, At, Locked, TypeOK, CoreTypes
<1>13. ScanClear'
  BY <1>1, <1>2, <1>3, <1>5, Names DEF ScanClear, Clear, CoreTo, Locked, TypeOK, CoreTypes
<1>14. Scanned'
  BY <1>1, <1>2, <1>3, <1>5, Names DEF Scanned, Collected, TypeOK, CoreTypes
<1>15. Gathered'
  BY <1>1, <1>2, <1>3, <1>5, Names DEF Gathered, CoreTo, TypeOK, CoreTypes
<1> QED
  BY <1>6, <1>7, <1>8, <1>9, <1>10, <1>11, <1>12, <1>13, <1>14, <1>15

LEMMA StoppedInv ==
  ASSUME PauseInv, NEW c \in Cores, Stopped(c)
  PROVE  CoreInv'
<1> USE DEF PauseInv, CoreInv
<1>1. CoreTo(c, core[c].then, core[c].cur, core[c].then, core[c].tgt)
  BY GotoTo DEF Stopped, TypeOK, CoreTypes, CoreRec, CorePcs
<1>2. /\ UNCHANGED <<rq, mig, running, blocked>>
      /\ core[c].pc = "pausing" /\ core[c].then \in {"sched", "steal", "run", "shed"}
  BY DEF Stopped, At, TypeOK, CoreTypes, CoreRec
<1>3. UNCHANGED <<gathered, gone, mask, target, main, aux, st, scan, owner, OwnedThreads>>
  BY DEF Stopped, threadFrame, gatherVars, handlerVars, OwnedThreads
<1>4. \A d \in Cores \ {c} : Victim(d)' = Victim(d)
  BY <1>1 DEF CoreTo, Victim
<1>5. PICK v \in Cores : /\ v = Victim(c) /\ lock[v] = c /\ lock[c] = c /\ mask /\ req[v] /\ Clear(v)
                         /\ mig[v] \cap running = {} /\ req' = [req EXCEPT ![v] = FALSE]
  BY <1>2, VictimLocked DEF Stopped, AllSwitchedOut, At
<1>6. /\ lock' \in [Cores -> Cores \cup Aux \cup {Free}]
      /\ \A d \in Cores : lock[d] # c => lock'[d] = lock[d]
      /\ core[c].then # "run" => lock'[c] = c
      /\ core[c].then = "shed" => lock'[core[c].tgt] = c
  BY <1>2, <1>5, VictimLocked DEF Stopped, Unlocked, Victim, TypeOK, CoreTypes, Locked, At
<1>7. TypeOK'
  BY <1>1, <1>2, <1>3, <1>5, <1>6, Names DEF TypeOK, CoreTypes, CoreTo
<1>8. NoThread'
  BY <1>1, <1>2, <1>3, <1>5, <1>6, Names DEF NoThread, CoreTo, TypeOK, CoreTypes
<1>9. Placed'
  <2>1. \A e \in Cores : OnCore(e)' = OnCore(e)
    BY <1>1, <1>2, <1>3, <1>5, <1>6, Names DEF OnCore, CoreTo
  <2> QED
    BY <1>1, <1>2, <1>3, <1>5, <1>6, <2>1, NoneMoved
<1>10. Locked'
  <2>1. \A a \in Aux : aux[a] = "pausing" => scan.i \in Cores /\ lock'[scan.i] = a
    BY <1>6, Names DEF Locked
  <2>2. \A e \in Cores \ {c} : core'[e] = core[e]
    BY <1>1 DEF CoreTo
  <2>4. core[c].then \in {"steal", "shed"} => core[c].tgt # c
    BY <1>2 DEF Locked, At
  <2>3. \A e \in Cores \ {c} :
          /\ core[e].pc \in {"check", "sched", "steal", "pausing", "shed"} => lock'[e] = e
          /\ At(e, "shed") => lock'[core[e].tgt] = e
          /\ At(e, "pausing") /\ core[e].then \in {"steal", "shed"} => lock'[core[e].tgt] = e
    BY <1>6, Names DEF Locked, TypeOK, CoreTypes, CoreRec
  <2> QED
    BY <1>1, <1>2, <1>3, <1>6, <2>1, <2>2, <2>3, <2>4 DEF Locked, CoreTo, At
<1>11. CoresClear'
  BY <1>1, <1>2, <1>3, <1>5, <1>6, Names DEF CoresClear, Clear, SwitchedOut, CoreTo, TypeOK, CoreTypes
<1>12. VictimsClear'
  BY <1>1, <1>2, <1>3, <1>5, <1>6, <1>4, Names, VictimLocked DEF VictimsClear, Clear, CoreTo, At, TypeOK, CoreTypes
<1>13. SourcesClear'
  <2>1. ASSUME NEW d \in Cores \ {c}, At(d, "steal"), mask, ~req'[d]
        PROVE  ~req'[core[d].tgt]
    <3>1. d # v
      BY <1>5, <2>1 DEF Locked, At
    <3> QED
      BY <1>5, <2>1, <3>1 DEF SourcesClear, TypeOK, CoreTypes, CoreRec
  <2>2. ASSUME NEW d \in Cores \ {c}, At(d, "shed"), mask, ~req'[core[d].tgt]
        PROVE  ~req'[d]
    <3>1. core[d].tgt # v
      BY <1>5, <2>2 DEF Locked, At
    <3> QED
      BY <1>5, <2>2, <3>1 DEF SourcesClear, TypeOK, CoreTypes, CoreRec
  <2>3. /\ core[c].then = "steal" => ~req'[core[c].tgt]
        /\ core[c].then = "shed" => ~req'[c]
    BY <1>5 DEF Victim, TypeOK, CoreTypes, CoreRec
  <2> QED
    BY <1>1, <1>3, <2>1, <2>2, <2>3 DEF SourcesClear, CoreTo, At
<1>14. ScanClear'
  BY <1>1, <1>2, <1>3, <1>5, <1>6, Names DEF ScanClear, Clear, CoreTo, Locked, TypeOK, CoreTypes
<1>15. Scanned'
  BY <1>1, <1>2, <1>3, <1>5, <1>6, Names DEF Scanned, Collected, TypeOK, CoreTypes
<1>16. Gathered'
  BY <1>1, <1>2, <1>3, <1>5, <1>6, Names DEF Gathered, CoreTo, TypeOK, CoreTypes
<1> QED
  BY <1>7, <1>8, <1>9, <1>10, <1>11, <1>12, <1>13, <1>14, <1>15, <1>16

---------------------------------------------------------------------------
(* The steps of the handlers.                                              *)

(* What becomes of the state of a handler.                                 *)
Task == [pending : BOOLEAN, pause : BOOLEAN, done : BOOLEAN]
TaskTo(a, pending, pause, done) ==
  /\ st' \in [Aux -> Task]
  /\ \A b \in Aux \ {a} : st'[b] = st[b]
  /\ st'[a].pending = pending /\ st'[a].pause = pause /\ st'[a].done = done

LEMMA OneTask ==
  ASSUME TypeOK, NEW a \in Aux, NEW r \in Task, st' = [st EXCEPT ![a] = r]
  PROVE  TaskTo(a, r.pending, r.pause, r.done)
BY DEF TypeOK, Task, TaskTo

LEMMA WriteTo ==
  ASSUME TypeOK, NEW a \in Aux, AuxWrite(a)
  PROVE  TaskTo(a, FALSE, st[a].pause, st[a].done)
<1> DEFINE r == [st[a] EXCEPT !.pending = FALSE]
<1>1. r \in Task /\ r.pending = FALSE /\ r.pause = st[a].pause /\ r.done = st[a].done
  BY DEF TypeOK, Task
<1>2. st' = [st EXCEPT ![a] = r]
  BY DEF AuxWrite
<1> QED
  BY <1>1, <1>2, OneTask

LEMMA PauseDoneTo ==
  ASSUME TypeOK, NEW a \in Aux, AuxPauseDone(a)
  PROVE  TaskTo(a, FALSE, FALSE, st[a].done)
<1> DEFINE r == [st[a] EXCEPT !.pause = FALSE, !.pending = FALSE]
<1>1. r \in Task /\ r.pending = FALSE /\ r.pause = FALSE /\ r.done = st[a].done
  BY DEF TypeOK, Task
<1>2. st' = [st EXCEPT ![a] = r]
  BY DEF AuxPauseDone
<1> QED
  BY <1>1, <1>2, OneTask

LEMMA ReleaseTo ==
  ASSUME TypeOK, NEW a \in Aux, AuxRelease(a)
  PROVE  TaskTo(a, st[a].pending, st[a].pause, FALSE)
<1> DEFINE r == [st[a] EXCEPT !.done = FALSE]
<1>1. r \in Task /\ r.pending = st[a].pending /\ r.pause = st[a].pause /\ r.done = FALSE
  BY DEF TypeOK, Task
<1>2. st' = [st EXCEPT ![a] = r]
  BY DEF AuxRelease
<1> QED
  BY <1>1, <1>2, OneTask

LEMMA DispatchPauseTo ==
  ASSUME TypeOK, MainDispatchPause
  PROVE  TaskTo(Pauser, TRUE, TRUE, st[Pauser].done)
<1> DEFINE r == [st[Pauser] EXCEPT !.pause = TRUE, !.pending = TRUE]
<1>1. Pauser \in Aux
  BY ConstantsOK
<1>2. r \in Task /\ r.pending = TRUE /\ r.pause = TRUE /\ r.done = st[Pauser].done
  BY <1>1 DEF TypeOK, Task
<1>3. st' = [st EXCEPT ![Pauser] = r]
  BY DEF MainDispatchPause
<1> QED
  BY <1>1, <1>2, <1>3, OneTask

(* What becomes of the states of all the handlers.                         *)
LEMMA DispatchTo ==
  ASSUME TypeOK, MainDispatch
  PROVE  /\ st' \in [Aux -> Task]
         /\ \A a \in Aux : st'[a].pending /\ st'[a].pause = st[a].pause /\ st'[a].done = st[a].done
<1>1. \A a \in Aux : st[a] \in Task
  BY DEF TypeOK, Task
<1>2. \A a \in Aux : LET r == [st[a] EXCEPT !.pending = TRUE]
                     IN  r \in Task /\ r.pending = TRUE /\ r.pause = st[a].pause /\ r.done = st[a].done
  BY <1>1 DEF Task
<1>3. st' = [a \in Aux |-> [st[a] EXCEPT !.pending = TRUE]]
  BY DEF MainDispatch
<1> QED
  BY <1>2, <1>3

LEMMA EndTo ==
  ASSUME TypeOK, MainEnd
  PROVE  /\ st' \in [Aux -> Task]
         /\ \A a \in Aux : st'[a].pending = st[a].pending /\ st'[a].pause = st[a].pause /\ st'[a].done
<1>1. \A a \in Aux : st[a] \in Task
  BY DEF TypeOK, Task
<1>2. \A a \in Aux : LET r == [st[a] EXCEPT !.done = TRUE]
                     IN  r \in Task /\ r.pending = st[a].pending /\ r.pause = st[a].pause /\ r.done = TRUE
  BY <1>1 DEF Task
<1>3. st' = [a \in Aux |-> [st[a] EXCEPT !.done = TRUE]]
  BY DEF MainEnd
<1> QED
  BY <1>2, <1>3

(* Steps that concern the handlers alone.                                  *)
LEMMA HandlersOnly ==
  ASSUME PauseInv, TypeOK',
         UNCHANGED <<owner, core, lock, rq, mig, req, running, blocked, gatherVars, scan>>,
         \A a \in Aux : aux'[a] \in {"scan", "pausing"} => aux'[a] = aux[a]
  PROVE  CoreInv'
<1> USE DEF PauseInv, CoreInv
<1>1. UNCHANGED <<gathered, gone, mask, target, OwnedThreads>>
  BY DEF gatherVars, OwnedThreads
<1>2. \A c \in Cores : Victim(c)' = Victim(c)
  BY DEF Victim
<1>3. NoThread'
  BY DEF NoThread
<1>4. Placed'
  <2>1. \A e \in Cores : OnCore(e)' = OnCore(e)
    BY DEF OnCore
  <2> QED
    BY <1>1, <2>1, NoneMoved
<1>5. Locked'
  BY DEF Locked, At
<1>6. CoresClear'
  BY <1>1 DEF CoresClear, Clear, SwitchedOut
<1>7. VictimsClear'
  BY <1>1, <1>2 DEF VictimsClear, Clear, At
<1>8. SourcesClear'
  BY <1>1 DEF SourcesClear, At
<1>9. ScanClear'
  BY <1>1 DEF ScanClear, Clear
<1>10. Scanned'
  BY DEF Scanned, Collected
<1>11. Gathered'
  BY <1>1 DEF Gathered
<1> QED
  BY <1>3, <1>4, <1>5, <1>6, <1>7, <1>8, <1>9, <1>10, <1>11

(* AuxStart, AuxWrite, AuxPauseDone, AuxRelease and AuxStop.               *)
LEMMA AuxRestInv ==
  ASSUME PauseInv, NEW a \in Aux,
         AuxStart(a) \/ AuxWrite(a) \/ AuxPauseDone(a) \/ AuxRelease(a) \/ AuxStop(a)
  PROVE  PauseInv'
<1>1. TypeOK /\ Handshake
  BY DEF PauseInv, CoreInv
<1>2. UNCHANGED <<owner, core, lock, rq, mig, req, running, blocked, gatherVars, scan>>
  BY DEF AuxStart, AuxWrite, AuxPauseDone, AuxRelease, AuxStop, threadVars
<1>3. UNCHANGED <<gathered, gone, mask, target, main>>
  BY DEF AuxStart, AuxWrite, AuxPauseDone, AuxRelease, AuxStop, gatherVars
<1>4. /\ aux' \in [Aux -> AuxPcs]
      /\ \A b \in Aux \ {a} : aux'[b] = aux[b]
      /\ aux'[a] \in {"off", "serve", "stop"}
  BY <1>1 DEF AuxStart, AuxWrite, AuxPauseDone, AuxRelease, AuxStop, SetAux, TypeOK, AuxPcs
<1>5. /\ st' \in [Aux -> Task]
      /\ \A b \in Aux : /\ st'[b].pending => st[b].pending
                        /\ st'[b].pause => st[b].pause
                        /\ st'[b].pause /\ b # a => st'[b].pending
      /\ st'[a].pause => st'[a].pending
  <2>1. CASE AuxWrite(a)
    <3>1. ~st[a].pause
      BY <2>1 DEF AuxWrite
    <3> QED
      BY <1>1, <2>1, <3>1, WriteTo DEF TaskTo, Handshake
  <2>2. CASE AuxPauseDone(a)
    BY <1>1, <2>2, PauseDoneTo DEF TaskTo, Handshake
  <2>3. CASE AuxRelease(a)
    BY <1>1, <2>3, ReleaseTo DEF TaskTo, Handshake
  <2>4. CASE AuxStart(a) \/ AuxStop(a)
    <3>1. st' = st
      BY <2>4 DEF AuxStart, AuxStop
    <3> QED
      BY <1>1, <3>1 DEF TypeOK, Task, Handshake
  <2> QED
    BY <2>1, <2>2, <2>3, <2>4
<1>6. TypeOK'
  BY <1>1, <1>2, <1>3, <1>4, <1>5 DEF TypeOK, CoreTypes, Task
<1>7. CoreInv'
  BY <1>2, <1>4, <1>6, HandlersOnly
<1>8. Handshake'
  <2>1. aux'[a] \notin {"scan", "pausing", "scanned"}
    BY <1>4
  <2>2. \A b \in Aux : st'[b].pause => st'[b].pending
    BY <1>5
  <2>3. \A b \in Aux \ {a} : st'[b].pause = st[b].pause
    <3>1. CASE AuxStart(a) \/ AuxStop(a)
      BY <3>1 DEF AuxStart, AuxStop
    <3> QED
      BY <1>1, <3>1, WriteTo, PauseDoneTo, ReleaseTo DEF TaskTo
  <2> QED
    BY <1>1, <1>3, <1>4, <1>5, <2>1, <2>2, <2>3 DEF Handshake, Pausing
<1> QED
  BY <1>7, <1>8 DEF PauseInv

LEMMA MainRestInv ==
  ASSUME PauseInv,
         \/ MainStart \/ MainDispatchPause \/ MainSignal \/ MainForce \/ MainPaused
         \/ MainDispatch \/ MainEnd \/ MainStop \/ Summon
  PROVE  PauseInv'
<1>1. TypeOK /\ Handshake
  BY DEF PauseInv, CoreInv
<1>2. /\ UNCHANGED <<owner, core, lock, rq, mig, req, running, blocked, gatherVars, aux, scan>>
      /\ UNCHANGED <<gathered, gone, mask, target>>
  BY DEF MainStart, MainDispatchPause, MainSignal, MainForce, MainPaused, MainDispatch, MainEnd, MainStop,
         Summon, threadVars, gatherVars, mainFrame
<1>3. main' \in MainPcs
  BY <1>1 DEF MainStart, MainDispatchPause, MainSignal, MainForce, MainPaused, MainDispatch, MainEnd, MainStop,
         Summon, TypeOK, MainPcs
<1>4. CASE MainDispatchPause
  <2>1. TaskTo(Pauser, TRUE, TRUE, st[Pauser].done) /\ Pauser \in Aux
    BY <1>1, <1>4, DispatchPauseTo, ConstantsOK
  <2>2. main = "ready" /\ main' = "request"
    BY <1>4 DEF MainDispatchPause
  <2>3. TypeOK'
    BY <1>1, <1>2, <1>3, <2>1 DEF TypeOK, CoreTypes, TaskTo, Task
  <2>4. Handshake'
    BY <1>1, <1>2, <2>1, <2>2 DEF Handshake, Pausing, TaskTo, TypeOK
  <2> QED
    BY <1>2, <2>3, <2>4, HandlersOnly DEF PauseInv
<1>5. CASE MainDispatch
  <2>1. /\ st' \in [Aux -> Task]
        /\ \A a \in Aux : st'[a].pending /\ st'[a].pause = st[a].pause
    BY <1>1, <1>5, DispatchTo
  <2>2. main = "paused" /\ main' = "transmit" /\ \A a \in Aux : ~st[a].pending
    BY <1>5 DEF MainDispatch
  <2>3. TypeOK'
    BY <1>1, <1>2, <1>3, <2>1 DEF TypeOK, CoreTypes, Task
  <2>4. Handshake'
    BY <1>1, <1>2, <2>1, <2>2 DEF Handshake, Pausing
  <2> QED
    BY <1>2, <2>3, <2>4, HandlersOnly DEF PauseInv
<1>6. CASE MainEnd
  <2>1. /\ st' \in [Aux -> Task]
        /\ \A a \in Aux : st'[a].pending = st[a].pending /\ st'[a].pause = st[a].pause
    BY <1>1, <1>6, EndTo
  <2>2. main = "ready" /\ main' = "ending"
    BY <1>6 DEF MainEnd
  <2>3. TypeOK'
    BY <1>1, <1>2, <1>3, <2>1 DEF TypeOK, CoreTypes, Task
  <2>4. Handshake'
    BY <1>1, <1>2, <2>1, <2>2 DEF Handshake, Pausing
  <2> QED
    BY <1>2, <2>3, <2>4, HandlersOnly DEF PauseInv
<1>7. CASE MainStart \/ MainSignal \/ MainForce \/ MainPaused \/ MainStop \/ Summon
  <2>1. st' = st
    BY <1>7 DEF MainStart, MainSignal, MainForce, MainPaused, MainStop, Summon
  <2>2. \/ main = "off" /\ main' = "ready"
        \/ main = "signal" /\ main' = "waiting"
        \/ main = "waiting" /\ main' = "forced"
        \/ main \in {"waiting", "forced"} /\ ~mask /\ main' = "paused"
        \/ main = "ending" /\ main' = "off"
        \/ main' = main
    BY <1>7 DEF MainStart, MainSignal, MainForce, MainPaused, MainStop, Summon
  <2>3. TypeOK'
    BY <1>1, <1>2, <1>3, <2>1 DEF TypeOK, CoreTypes
  <2>4. Handshake'
    BY <1>1, <1>2, <2>1, <2>2 DEF Handshake, Pausing
  <2> QED
    BY <1>2, <2>3, <2>4, HandlersOnly DEF PauseInv
<1> QED
  BY <1>4, <1>5, <1>6, <1>7

---------------------------------------------------------------------------
(* The loop of pause_migrating_ths_aux.                                    *)

(* Only the handler that is given the pause tasks is in it.                *)
LEMMA OnlyPauser ==
  ASSUME PauseInv, NEW a \in Aux, aux[a] \in {"scan", "pausing"}
  PROVE  /\ mask /\ Pausing /\ st[a].pause
         /\ \A b \in Aux \ {a} : aux[b] \notin {"scan", "pausing", "scanned"}
BY DEF PauseInv, Handshake

(* Its steps leave most of the hand-shake alone.                           *)
LEMMA ScanHandshake ==
  ASSUME PauseInv, NEW a \in Aux, UNCHANGED <<mask, target, main, st>>, mask, st[a].pause,
         NEW pc \in {"scan", "pausing"}, aux' = [aux EXCEPT ![a] = pc]
  PROVE  Handshake'
BY DEF PauseInv, CoreInv, TypeOK, Handshake, Pausing

LEMMA AuxSeeRequestInv ==
  ASSUME PauseInv, NEW a \in Aux, AuxSeeRequest(a)
  PROVE  PauseInv'
<1> USE DEF PauseInv, CoreInv
<1>1. UNCHANGED <<owner, core, lock, rq, mig, req, running, blocked, gathered, gone, mask, target, main, st,
                  OwnedThreads>>
  BY DEF AuxSeeRequest, scanFrame, OwnedThreads
<1>2. /\ aux' = [aux EXCEPT ![a] = "scan"] /\ aux[a] = "serve" /\ mask /\ st[a].pause
      /\ scan' = NoPass
  BY DEF AuxSeeRequest, SetAux
<1>3. \A b \in Aux \ {a} : aux[b] \notin {"scan", "pausing", "scanned"}
  BY <1>2 DEF Handshake
<1>4. scan' \in [i : Nat \ {0}, last : Cores, done : BOOLEAN] /\ scan'.i = 1 /\ scan'.done
  BY <1>2, ConstantsOK DEF NoPass, Cores
<1>5. TypeOK'
  BY <1>1, <1>2, <1>4 DEF TypeOK, CoreTypes, AuxPcs
<1>6. NoThread' /\ CoresClear' /\ SourcesClear' /\ Gathered'
  BY <1>1 DEF NoThread, CoresClear, Clear, SwitchedOut, SourcesClear, Gathered, At
<1>7. Placed'
  <2>1. \A e \in Cores : OnCore(e)' = OnCore(e)
    BY <1>1 DEF OnCore
  <2> QED
    BY <1>1, <2>1, NoneMoved
<1>8. \A b \in Aux : aux'[b] # "pausing"
  BY <1>2, <1>3 DEF TypeOK
<1>9. Locked'
  BY <1>1, <1>8 DEF Locked, At
<1>10. VictimsClear'
  <2>1. \A c \in Cores : Victim(c)' = Victim(c)
    BY <1>1 DEF Victim
  <2> QED
    BY <1>1, <2>1 DEF VictimsClear, Clear, At
<1>11. ScanClear'
  BY <1>8 DEF ScanClear
<1>12. Scanned'
  BY <1>2, <1>3, <1>4 DEF Scanned, TypeOK, Cores
<1>13. Handshake'
  BY <1>1, <1>2, ScanHandshake
<1> QED
  BY <1>5, <1>6, <1>7, <1>9, <1>10, <1>11, <1>12, <1>13

(* The cores that are behind the handler.                                  *)
LEMMA AuxPostponeInv ==
  ASSUME PauseInv, NEW a \in Aux, AuxPostpone(a)
  PROVE  PauseInv'
<1> USE DEF PauseInv, CoreInv
<1>1. UNCHANGED <<owner, core, lock, rq, mig, req, running, blocked, gathered, gone, mask, target, main, st, aux,
                  OwnedThreads>>
  BY DEF AuxPostpone, scanFrame, OwnedThreads
<1>2. /\ scan.i \in Cores /\ aux[a] = "scan"
      /\ scan' = [i |-> scan.i + 1, last |-> IF scan.done THEN scan.i ELSE scan.last, done |-> FALSE]
  BY DEF AuxPostpone, NextPassFrom
<1>3. scan' \in [i : Nat \ {0}, last : Cores, done : BOOLEAN]
  BY <1>2 DEF TypeOK, Cores
<1>4. TypeOK'
  BY <1>1, <1>3 DEF TypeOK, CoreTypes
<1>5. NoThread' /\ CoresClear' /\ SourcesClear' /\ Gathered' /\ Handshake'
  BY <1>1 DEF NoThread, CoresClear, Clear, SwitchedOut, SourcesClear, Gathered, Handshake, Pausing, At
<1>6. Placed'
  <2>1. \A e \in Cores : OnCore(e)' = OnCore(e)
    BY <1>1 DEF OnCore
  <2> QED
    BY <1>1, <2>1, NoneMoved
<1>7. \A b \in Aux : aux[b] # "pausing"
  BY <1>2, OnlyPauser
<1>8. Locked'
  BY <1>1, <1>7 DEF Locked, At
<1>9. VictimsClear'
  <2>1. \A c \in Cores : Victim(c)' = Victim(c)
    BY <1>1 DEF Victim
  <2> QED
    BY <1>1, <2>1 DEF VictimsClear, Clear, At
<1>10. ScanClear'
  BY <1>1, <1>7 DEF ScanClear
<1>11. Scanned'
  BY <1>1, <1>2 DEF Scanned, Collected
<1> QED
  BY <1>4, <1>5, <1>6, <1>8, <1>9, <1>10, <1>11

LEMMA AuxPassDoneInv ==
  ASSUME PauseInv, NEW a \in Aux, AuxPassDone(a)
  PROVE  PauseInv'
<1> USE DEF PauseInv, CoreInv
<1>1. UNCHANGED <<owner, core, lock, rq, mig, req, running, blocked, gathered, gone, target, main, st, OwnedThreads>>
  BY DEF AuxPassDone, scanFrame, OwnedThreads
<1>2. aux[a] = "scan" /\ scan.i > NumCores
  BY DEF AuxPassDone
<1>3. /\ \A b \in Aux \ {a} : aux[b] \notin {"scan", "pausing", "scanned"}
      /\ mask /\ Pausing /\ st[a].pause
  BY <1>2, OnlyPauser
<1>4. NoThread'
  BY <1>1 DEF NoThread
<1>5. Placed'
  <2>1. \A e \in Cores : OnCore(e)' = OnCore(e)
    BY <1>1 DEF OnCore
  <2> QED
    BY <1>1, <2>1, NoneMoved
<1>6. \A c \in Cores : Victim(c)' = Victim(c)
  BY <1>1 DEF Victim
<1>7. CASE scan.done
  <2>1. mask' = FALSE /\ aux' = [aux EXCEPT ![a] = "scanned"] /\ scan' = NoPass
    BY <1>7 DEF AuxPassDone, SetAux
  <2>2. \A b \in Aux : aux'[b] \notin {"scan", "pausing"}
    BY <1>3, <2>1 DEF TypeOK
  <2>3. \A c \in Cores : ~req[c] /\ mig[c] = {}
    BY <1>2, <1>7, ConstantsOK DEF Scanned, Collected, TypeOK, Cores
  <2>4. \A c \in Cores : ~At(c, "pausing")
    BY <2>3, VictimLocked
  <2>5. OwnedThreads \subseteq gathered \cup blocked
    <3> SUFFICES ASSUME NEW t \in OwnedThreads
                 PROVE  t \in gathered \cup blocked
      OBVIOUS
    <3>1. PICK k \in Kinds, c \in Spots : t \in Held(k, c)
      BY Names DEF Placed
    <3>2. t \notin gone
      BY DEF Gathered
    <3>3. c \in Cores => k = "mig" \/ t \notin Held(k, c)
      BY <1>3, <2>3, HeldAre DEF CoresClear, Clear, OnCore, Kinds
    <3> QED
      BY <2>3, <3>1, <3>2, <3>3, HeldAre DEF Kinds, Spots
  <2>6. TypeOK'
    <3>1. scan' \in [i : Nat \ {0}, last : Cores, done : BOOLEAN]
      BY <2>1, ConstantsOK DEF NoPass, Cores
    <3> QED
      BY <1>1, <2>1, <3>1 DEF TypeOK, CoreTypes, AuxPcs
  <2>7. Locked'
    BY <1>1, <2>2 DEF Locked, At
  <2>8. CoresClear' /\ SourcesClear'
    BY <2>1 DEF CoresClear, SourcesClear
  <2>9. VictimsClear'
    BY <1>1, <2>4 DEF VictimsClear, At
  <2>10. ScanClear' /\ Scanned'
    BY <2>2 DEF ScanClear, Scanned
  <2>11. Gathered'
    BY <1>1, <2>3, <2>5 DEF Gathered
  <2>12. Handshake'
    BY <1>1, <1>3, <2>1 DEF Handshake, Pausing, TypeOK
  <2> QED
    BY <1>4, <1>5, <2>6, <2>7, <2>8, <2>9, <2>10, <2>11, <2>12
<1>8. CASE ~scan.done
  <2>1. UNCHANGED <<mask, aux>>
    BY <1>8 DEF AuxPassDone
  <2>2. /\ scan' \in [i : Nat \ {0}, last : Cores, done : BOOLEAN]
        /\ scan'.i = scan.last /\ scan'.done
    <3>1. scan.last \in Nat \ {0}
      BY ConstantsOK DEF TypeOK, Cores
    <3>2. scan' = [scan EXCEPT !.i = scan.last, !.done = TRUE]
      BY <1>8 DEF AuxPassDone
    <3> QED
      BY <3>1, <3>2 DEF TypeOK
  <2>3. TypeOK'
    BY <1>1, <2>1, <2>2 DEF TypeOK, CoreTypes
  <2>4. CoresClear' /\ SourcesClear' /\ Gathered' /\ Handshake'
    BY <1>1, <2>1 DEF CoresClear, Clear, SwitchedOut, SourcesClear, Gathered, Handshake, Pausing, At
  <2>5. \A b \in Aux : aux[b] # "pausing"
    BY <1>2, <1>3
  <2>6. Locked' /\ ScanClear'
    BY <1>1, <2>1, <2>5 DEF Locked, ScanClear, At
  <2>7. VictimsClear'
    BY <1>1, <1>6, <2>1 DEF VictimsClear, Clear, At
  <2>8. Scanned'
    BY <1>1, <1>8, <2>1, <2>2 DEF Scanned, Collected
  <2> QED
    BY <1>4, <1>5, <2>3, <2>4, <2>6, <2>7, <2>8
<1> QED
  BY <1>7, <1>8

(* What a handler takes over from core i: from among the threads of the    *)
(* core to those gathered.                                                 *)
LEMMA CollectTo ==
  ASSUME TypeOK, Placed, NEW i \in Cores, Collect(i),
         UNCHANGED <<core, rq, blocked, gone>>
  PROVE  /\ mig' \in [Cores -> SUBSET Threads] /\ mig'[i] = {}
         /\ \A d \in Cores \ {i} : mig'[d] = mig[d]
         /\ gathered' = gathered \cup mig[i]
         /\ Placed'
<1>1. /\ mig' \in [Cores -> SUBSET Threads] /\ mig'[i] = {}
      /\ \A d \in Cores \ {i} : mig'[d] = mig[d]
      /\ gathered' = gathered \cup mig[i]
  BY DEF Collect, TypeOK, CoreTypes
<1>2. Same("mig", i, "gathered", 0)
  BY <1>1 DEF Same, OnCore
<1>3. mig[i] \subseteq Held("mig", i) /\ Held("mig", i)' = Held("mig", i) \ mig[i]
  BY <1>1, HeldAre, HeldAreNext
<1>4. Held("gathered", 0)' = Held("gathered", 0) \cup mig[i]
  BY <1>1, HeldAre, HeldAreNext
<1>5. 0 \in Spots /\ i \in Spots
  BY DEF Spots
<1>6. Placed'
  BY <1>2, <1>3, <1>4, <1>5, Moved DEF Kinds
<1> QED
  BY <1>1, <1>6

LEMMA AuxCollectInv ==
  ASSUME PauseInv, NEW a \in Aux, AuxCollect(a)
  PROVE  PauseInv'
<1> USE DEF PauseInv, CoreInv
<1>1. UNCHANGED <<owner, core, lock, rq, req, running, blocked, gone, mask, target, main, st, aux, OwnedThreads>>
  BY DEF AuxCollect, scanFrame, OwnedThreads
<1>2. PICK i \in Cores : /\ i = scan.i /\ aux[a] = "scan" /\ ~req[i] /\ Collect(i)
                         /\ scan' = [scan EXCEPT !.i = i + 1]
  BY DEF AuxCollect
<1>3. /\ mask /\ \A b \in Aux : aux[b] # "pausing"
  BY <1>2, OnlyPauser
<1>4. /\ mig' \in [Cores -> SUBSET Threads] /\ mig'[i] = {}
      /\ \A d \in Cores \ {i} : mig'[d] = mig[d]
      /\ gathered' = gathered \cup mig[i]
      /\ Placed'
  BY <1>1, <1>2, CollectTo
<1>5. /\ scan' \in [i : Nat \ {0}, last : Cores, done : BOOLEAN]
      /\ scan'.i = i + 1 /\ scan'.last = scan.last /\ scan'.done = scan.done
  BY <1>2 DEF TypeOK, Cores
<1>6. mig[i] \subseteq OwnedThreads \ running
  BY <1>2, <1>3 DEF CoresClear, SwitchedOut, Gathered
<1>7. TypeOK'
  BY <1>1, <1>4, <1>5 DEF TypeOK, CoreTypes
<1>8. NoThread' /\ SourcesClear' /\ Handshake'
  BY <1>1 DEF NoThread, SourcesClear, Handshake, Pausing, At
<1>9. CoresClear'
  BY <1>1, <1>4 DEF CoresClear, Clear, SwitchedOut
<1>10. Locked' /\ ScanClear'
  BY <1>1, <1>3 DEF Locked, ScanClear, At
<1>11. VictimsClear'
  <2>1. \A c \in Cores : Victim(c)' = Victim(c)
    BY <1>1 DEF Victim
  <2> QED
    BY <1>1, <2>1 DEF VictimsClear, Clear, At
<1>12. Scanned'
  BY <1>1, <1>2, <1>4, <1>5 DEF Scanned, Collected, TypeOK, Cores
<1>13. Gathered'
  BY <1>1, <1>3, <1>4, <1>6 DEF Gathered
<1> QED
  BY <1>4, <1>7, <1>8, <1>9, <1>10, <1>11, <1>12, <1>13

LEMMA AuxHandleInv ==
  ASSUME PauseInv, NEW a \in Aux, AuxHandle(a)
  PROVE  PauseInv'
<1> USE DEF PauseInv, CoreInv
<1>1. UNCHANGED <<owner, core, req, running, blocked, gathered, gone, mask, target, main, st, scan, OwnedThreads>>
  BY DEF AuxHandle, scanFrame, OwnedThreads
<1>2. PICK i \in Cores : /\ i = scan.i /\ aux[a] = "scan" /\ req[i] /\ lock[i] = Free /\ TakeThreads(i)
                         /\ core[i].cur \notin OwnedThreads
                         /\ lock' = [lock EXCEPT ![i] = a] /\ aux' = [aux EXCEPT ![a] = "pausing"]
  BY DEF AuxHandle, Takeable, CanHandle, SetAux
<1>3. /\ mask /\ st[a].pause /\ \A b \in Aux \ {a} : aux[b] \notin {"scan", "pausing", "scanned"}
  BY <1>2, OnlyPauser
<1>4. /\ rq' \in [Cores -> SUBSET Threads] /\ mig' \in [Cores -> SUBSET Threads]
      /\ rq'[i] = rq[i] \ OwnedThreads /\ mig'[i] = mig[i] \cup (rq[i] \cap OwnedThreads)
      /\ \A d \in Cores \ {i} : rq'[d] = rq[d] /\ mig'[d] = mig[d]
  BY <1>2, Taken
<1>5. /\ lock' \in [Cores -> Cores \cup Aux \cup {Free}] /\ lock'[i] = a
      /\ \A d \in Cores : lock[d] # Free => lock'[d] = lock[d]
  BY <1>2 DEF TypeOK, CoreTypes
<1>6. TypeOK'
  BY <1>1, <1>2, <1>4, <1>5 DEF TypeOK, CoreTypes, AuxPcs
<1>7. NoThread' /\ SourcesClear'
  BY <1>1 DEF NoThread, SourcesClear, At
<1>8. Placed'
  <2>1. \A e \in Cores : OnCore(e)' = OnCore(e)
    BY <1>1 DEF OnCore
  <2> QED
    BY <1>1, <1>2, <2>1, TakenPlaced
<1>9. Locked'
  <2>1. \A c \in Cores :
          /\ core[c].pc \in {"check", "sched", "steal", "pausing", "shed"} => lock'[c] = c
          /\ At(c, "shed") => lock'[core[c].tgt] = c
          /\ At(c, "pausing") /\ core[c].then \in {"steal", "shed"} => lock'[core[c].tgt] = c
    BY <1>5, Names DEF Locked, TypeOK, CoreTypes, CoreRec
  <2>2. \A b \in Aux : aux'[b] = "pausing" => b = a
    BY <1>2, <1>3 DEF TypeOK
  <2> QED
    BY <1>1, <1>2, <1>5, <2>1, <2>2 DEF Locked, At
<1>10. CoresClear'
  BY <1>1, <1>2, <1>4 DEF CoresClear, Clear, SwitchedOut
<1>11. VictimsClear'
  <2>1. \A c \in Cores : Victim(c)' = Victim(c)
    BY <1>1 DEF Victim
  <2>2. \A c \in Cores : At(c, "pausing") => Victim(c) # i
    BY <1>2, Names, VictimLocked
  <2> QED
    BY <1>1, <1>4, <2>1, <2>2, VictimLocked DEF VictimsClear, Clear, At
<1>12. ScanClear'
  BY <1>1, <1>2, <1>3, <1>4 DEF ScanClear, Clear, TypeOK
<1>13. Scanned'
  <2>1. \A b \in Aux : aux'[b] \in {"scan", "pausing"} => b = a
    BY <1>2, <1>3 DEF TypeOK
  <2>2. \A c \in Cores : c < (IF scan.done THEN scan.i ELSE scan.last) => Collected(c) /\ c # i
    BY <1>2 DEF Scanned, Collected
  <2> QED
    BY <1>1, <1>4, <2>1, <2>2 DEF Scanned, Collected
<1>14. Gathered'
  BY <1>1, <1>3, <1>4 DEF Gathered
<1>15. Handshake'
  BY <1>1, <1>2, <1>3, ScanHandshake
<1> QED
  BY <1>6, <1>7, <1>8, <1>9, <1>10, <1>11, <1>12, <1>13, <1>14, <1>15

LEMMA AuxHandledInv ==
  ASSUME PauseInv, NEW a \in Aux, AuxHandled(a)
  PROVE  PauseInv'
<1> USE DEF PauseInv, CoreInv
<1>1. UNCHANGED <<owner, core, rq, running, blocked, gone, mask, target, main, st, OwnedThreads>>
  BY DEF AuxHandled, scanFrame, OwnedThreads
<1>2. aux[a] = "pausing" /\ scan.i \in Cores
  BY DEF AuxHandled, Locked
<1>3. PICK i \in Cores : /\ i = scan.i /\ mig[i] \cap running = {} /\ Collect(i)
                         /\ scan' = [scan EXCEPT !.i = i + 1]
                         /\ req' = [req EXCEPT ![i] = FALSE] /\ lock' = [lock EXCEPT ![i] = Free]
                         /\ aux' = [aux EXCEPT ![a] = "scan"]
                         /\ lock[i] = a /\ Clear(i)
  BY <1>2 DEF AuxHandled, AllSwitchedOut, SetAux, Locked, ScanClear
<1>4. /\ mask /\ st[a].pause /\ \A b \in Aux \ {a} : aux[b] \notin {"scan", "pausing", "scanned"}
  BY <1>2, OnlyPauser
<1>5. /\ mig' \in [Cores -> SUBSET Threads] /\ mig'[i] = {}
      /\ \A d \in Cores \ {i} : mig'[d] = mig[d]
      /\ gathered' = gathered \cup mig[i]
      /\ Placed'
  BY <1>1, <1>3, CollectTo
<1>6. /\ scan' \in [i : Nat \ {0}, last : Cores, done : BOOLEAN]
      /\ scan'.i = i + 1 /\ scan'.last = scan.last /\ scan'.done = scan.done
  BY <1>3 DEF TypeOK, Cores
<1>7. /\ lock' \in [Cores -> Cores \cup Aux \cup {Free}]
      /\ \A d \in Cores : lock[d] # a => lock'[d] = lock[d]
      /\ req' \in [Cores -> BOOLEAN] /\ ~req'[i] /\ \A d \in Cores \ {i} : req'[d] = req[d]
  BY <1>3 DEF TypeOK, CoreTypes
<1>8. TypeOK'
  BY <1>1, <1>3, <1>5, <1>6, <1>7 DEF TypeOK, CoreTypes, AuxPcs
<1>9. NoThread'
  BY <1>1 DEF NoThread
<1>10. \A b \in Aux : aux'[b] # "pausing"
  BY <1>3, <1>4 DEF TypeOK
<1>11. Locked'
  <2>1. \A c \in Cores :
          /\ core[c].pc \in {"check", "sched", "steal", "pausing", "shed"} => lock'[c] = c
          /\ At(c, "shed") => lock'[core[c].tgt] = c
          /\ At(c, "pausing") /\ core[c].then \in {"steal", "shed"} => lock'[core[c].tgt] = c
    BY <1>7, Names DEF Locked, TypeOK, CoreTypes, CoreRec
  <2> QED
    BY <1>1, <1>10, <2>1 DEF Locked, At
<1>12. CoresClear'
  BY <1>1, <1>3, <1>5, <1>7 DEF CoresClear, Clear, SwitchedOut
<1>13. VictimsClear'
  <2>1. \A c \in Cores : Victim(c)' = Victim(c)
    BY <1>1 DEF Victim
  <2>2. \A c \in Cores : At(c, "pausing") => Victim(c) # i
    BY <1>3, Names, VictimLocked
  <2> QED
    BY <1>1, <1>7, <2>1, <2>2, VictimLocked DEF VictimsClear, Clear, At
<1>14. SourcesClear'
  <2>1. \A c \in Cores : /\ At(c, "steal") => c # i
                         /\ At(c, "shed") => core[c].tgt # i
    BY <1>3, Names DEF Locked, At
  <2> QED
    BY <1>1, <1>7, <2>1 DEF SourcesClear, At, TypeOK, CoreTypes, CoreRec
<1>15. ScanClear'
  BY <1>10 DEF ScanClear
<1>16. Scanned'
  <2>1. \A b \in Aux : aux'[b] \in {"scan", "pausing"} => b = a
    BY <1>3, <1>4 DEF TypeOK
  <2> QED
    BY <1>2, <1>3, <1>5, <1>6, <1>7, <2>1 DEF Scanned, Collected, TypeOK, Cores
<1>17. Gathered'
  BY <1>1, <1>3, <1>4, <1>5 DEF Gathered
<1>18. Handshake'
  BY <1>1, <1>3, <1>4, ScanHandshake
<1> QED
  BY <1>5, <1>8, <1>9, <1>11, <1>12, <1>13, <1>14, <1>15, <1>16, <1>17, <1>18

---------------------------------------------------------------------------
(* The request, and the end of the migration.                              *)

LEMMA MainRequestInv ==
  ASSUME PauseInv, NEW p \in Proclets, MainRequest(p)
  PROVE  PauseInv'
<1> USE DEF PauseInv, CoreInv
<1>1. UNCHANGED <<owner, core, lock, rq, mig, running, blocked, gathered, gone, aux, scan, st>>
  BY DEF MainRequest, mainFrame
<1>2. /\ main = "request" /\ main' = "signal" /\ mask' /\ target' = p
      /\ req' = [c \in Cores |-> TRUE] /\ \A t \in gone : owner[t] # p
  BY DEF MainRequest
<1>3. ~mask /\ target = None
  BY <1>2 DEF Handshake, Pausing
<1>4. gathered = {} /\ \A c \in Cores : mig[c] = {}
  <2>1. OwnedThreads = {}
    BY <1>3, ConstantsOK DEF OwnedThreads, TypeOK
  <2> QED
    BY <1>3, <2>1 DEF Gathered
<1>5. /\ \A c \in Cores : ~At(c, "pausing")
      /\ \A b \in Aux : aux[b] \notin {"scan", "pausing", "scanned"}
  BY <1>2, <1>3 DEF VictimsClear, Handshake
<1>6. TypeOK'
  BY <1>1, <1>2 DEF TypeOK, CoreTypes, MainPcs
<1>7. NoThread' /\ Locked'
  BY <1>1 DEF NoThread, Locked, At
<1>8. Placed'
  <2>1. \A e \in Cores : OnCore(e)' = OnCore(e)
    BY <1>1 DEF OnCore
  <2> QED
    BY <1>1, <2>1, NoneMoved
<1>9. CoresClear' /\ SourcesClear'
  BY <1>1, <1>2 DEF CoresClear, SourcesClear, TypeOK, CoreTypes, CoreRec
<1>10. VictimsClear' /\ ScanClear' /\ Scanned'
  BY <1>1, <1>5 DEF VictimsClear, ScanClear, Scanned, At
<1>11. Gathered'
  BY <1>1, <1>2, <1>4 DEF Gathered, OwnedThreads
<1>12. Handshake'
  BY <1>1, <1>2, <1>5, ConstantsOK DEF Handshake, Pausing
<1> QED
  BY <1>6, <1>7, <1>8, <1>9, <1>10, <1>11, <1>12

LEMMA MainTransmitInv ==
  ASSUME PauseInv, MainTransmit
  PROVE  PauseInv'
<1> USE DEF PauseInv, CoreInv
<1>1. UNCHANGED <<owner, core, lock, rq, mig, req, running, mask, aux, scan, st>>
  BY DEF MainTransmit, mainFrame
<1>2. /\ main = "transmit" /\ main' = "ready" /\ target' = None /\ \A b \in Aux : ~st[b].pending
      /\ gone' = gone \cup gathered \cup (blocked \cap OwnedThreads)
      /\ blocked' = blocked \ OwnedThreads /\ gathered' = {}
  BY DEF MainTransmit
<1>3. ~mask
  BY <1>2 DEF Handshake, Pausing
<1>4. OwnedThreads' = {}
  BY <1>1, <1>2, ConstantsOK DEF OwnedThreads, TypeOK
<1>5. \A c \in Cores : mig[c] = {}
  BY <1>3 DEF Gathered
<1>6. TypeOK'
  BY <1>1, <1>2, Names DEF TypeOK, CoreTypes, MainPcs
<1>7. NoThread' /\ Locked'
  BY <1>1 DEF NoThread, Locked, At
<1>8. Placed'
  <2> DEFINE M == gathered \cup (blocked \cap OwnedThreads)
  <2>1. /\ Held("gone", 0)' = Held("gone", 0) \cup M
        /\ Held("gathered", 0)' = Held("gathered", 0) \ M
        /\ Held("blocked", 0)' = Held("blocked", 0) \ M
    <3>1. blocked \cap gathered = {}
      BY Apart DEF TypeOK, CoreTypes
    <3> QED
      BY <1>2, <3>1, HeldAre, HeldAreNext
  <2>2. ASSUME NEW k \in Kinds, NEW c \in Spots, c \in Cores \/ k \notin {"gone", "gathered", "blocked"}
        PROVE  Held(k, c)' = Held(k, c)
    <3>1. c \in Cores => OnCore(c)' = OnCore(c)
      BY <1>1 DEF OnCore
    <3> QED
      BY <1>1, <2>2, <3>1, HeldAre, HeldAreNext DEF Kinds, Spots
  <2> SUFFICES ASSUME NEW t \in Threads
               PROVE  \E k \in Kinds, c \in Spots :
                        \A l \in Kinds, f \in Spots : t \in Held(l, f)' <=> l = k /\ f = c
    BY DEF Placed, Kinds, Spots, Cores
  <2>3. PICK kt \in Kinds, ct \in Spots : \A l \in Kinds, f \in Spots : t \in Held(l, f) <=> l = kt /\ f = ct
    BY DEF Placed
  <2>4. CASE t \in M
    <3>1. PICK k \in Kinds, c \in Spots : k = "gone" /\ c = 0
      BY DEF Kinds, Spots
    <3>2. kt \in {"gathered", "blocked"} /\ ct = 0
      BY <2>3, <2>4, HeldAre DEF Kinds, Spots
    <3>3. \A l \in Kinds, f \in Spots : t \in Held(l, f)' <=> l = k /\ f = c
      BY <2>1, <2>2, <2>3, <2>4, <3>1, <3>2, Names DEF Spots, Free
    <3> QED
      BY <3>3
  <2>5. CASE t \notin M
    <3>1. \A l \in Kinds, f \in Spots : t \in Held(l, f)' <=> t \in Held(l, f)
      BY <2>1, <2>2, <2>5 DEF Spots
    <3>2. \A l \in Kinds, f \in Spots : t \in Held(l, f)' <=> l = kt /\ f = ct
      BY <2>3, <3>1
    <3> QED
      BY <3>2
  <2> QED
    BY <2>4, <2>5
<1>9. CoresClear' /\ SourcesClear'
  BY <1>1, <1>3 DEF CoresClear, SourcesClear
<1>10. VictimsClear'
  BY <1>1, <1>3 DEF VictimsClear, At
<1>11. ScanClear' /\ Scanned'
  BY <1>1, <1>3 DEF ScanClear, Scanned, Handshake
<1>12. Gathered'
  BY <1>1, <1>2, <1>4, <1>5 DEF Gathered
<1>13. Handshake'
  BY <1>1, <1>2, <1>3 DEF Handshake, Pausing
<1> QED
  BY <1>6, <1>7, <1>8, <1>9, <1>10, <1>11, <1>12, <1>13

---------------------------------------------------------------------------
(* The invariant.                                                          *)

LEMMA InitInv ==
  ASSUME Init
  PROVE  PauseInv
<1>1. /\ 1 \in Cores /\ NumCores \in Nat /\ Idle \in CoreRec
      /\ Idle.pc = "parked" /\ Idle.cur = None
  <2>1. 1 \in Cores /\ NumCores \in Nat
    BY ConstantsOK DEF Cores
  <2> QED
    BY <2>1 DEF Idle, CoreRec, CorePcs
<1>2. \A c \in Cores : core[c] = Idle
  BY DEF Init
<1>3. \A c \in Cores : core[c].pc = "parked" /\ core[c].cur = None
  BY <1>1, <1>2
<1>4. CoreTypes
  BY <1>1 DEF Init, CoreTypes
<1>5. /\ st = [a \in Aux |-> NoTask]
      /\ NoTask \in [pending : BOOLEAN, pause : BOOLEAN, done : BOOLEAN]
      /\ ~NoTask.pending /\ ~NoTask.pause
  BY DEF Init, NoTask
<1>6. scan \in [i : Nat \ {0}, last : Cores, done : BOOLEAN]
  BY <1>1 DEF Init, NoPass
<1>7. TypeOK
  BY <1>4, <1>5, <1>6 DEF Init, TypeOK, MainPcs, AuxPcs
<1>8. NoThread
  BY <1>3, Names DEF NoThread
<1>9. Placed
  <2> SUFFICES ASSUME NEW t \in Threads
               PROVE  \E k \in Kinds, c \in Spots :
                        \A j \in Kinds, d \in Spots : t \in Held(j, d) <=> j = k /\ d = c
    BY DEF Placed
  <2>1. PICK k \in Kinds, c \in Spots : k = "rq" /\ c = 1 /\ c \in Cores
    BY <1>1 DEF Kinds, Spots
  <2>2. \A d \in Cores : OnCore(d) = {}
    BY <1>3, Names DEF OnCore
  <2>3. \A d \in Cores : mig[d] = {} /\ rq[d] = (IF d = 1 THEN Threads ELSE {})
    BY DEF Init
  <2>4. \A j \in Kinds, d \in Spots : t \in Held(j, d) <=> j = k /\ d = c
    <3>1. ASSUME NEW j \in Kinds
          PROVE  t \in Held(j, 0) <=> j = k /\ 0 = c
      BY <2>1, HeldAre, Names DEF Init, Kinds, Free
    <3>2. ASSUME NEW j \in Kinds, NEW d \in Cores
          PROVE  t \in Held(j, d) <=> j = k /\ d = c
      BY <2>1, <2>2, <2>3, HeldAre DEF Kinds
    <3> QED
      BY <3>1, <3>2 DEF Spots
  <2> QED
    BY <2>4
<1>10. Locked
  BY <1>3 DEF Locked, At, Init
<1>11. CoresClear /\ VictimsClear /\ SourcesClear /\ ScanClear /\ Scanned
  BY <1>3 DEF CoresClear, VictimsClear, SourcesClear, ScanClear, Scanned, At, Init
<1>12. Gathered
  <2>1. OwnedThreads = {}
    BY <1>7, ConstantsOK DEF OwnedThreads, TypeOK, Init
  <2> QED
    BY <2>1 DEF Gathered, Init
<1>13. Handshake
  BY <1>5 DEF Handshake, Pausing, Init
<1> QED
  BY <1>7, <1>8, <1>9, <1>10, <1>11, <1>12, <1>13 DEF PauseInv, CoreInv

LEMMA CoreStepInv ==
  ASSUME PauseInv, NEW c \in Cores, CoreStep(c)
  PROVE  PauseInv'
<1>1. ThreadStep(c) => CoreInv'
  BY YieldInv, BlockInv, CedeInv, WakeInv, QuietSteps DEF ThreadStep
<1>2. ScheduleStep(c) => CoreInv'
  BY EnterDirectInv, CheckStopInv, RunNextInv, StealHandleInv, StealTakeInv, QuietSteps DEF ScheduleStep
<1>3. UnblockStep(c) => CoreInv'
  BY UnblockHandleInv, ShedLookStopInv, ShedLookPassInv, ShedMoveInv, StoppedInv DEF UnblockStep
<1>4. CoreInv'
  BY <1>1, <1>2, <1>3 DEF CoreStep
<1>5. Handshake'
  BY CoreFrame DEF PauseInv, Handshake, Pausing, gatherVars, handlerVars
<1> QED
  BY <1>4, <1>5 DEF PauseInv

LEMMA StepInv ==
  ASSUME PauseInv, [Next]_vars
  PROVE  PauseInv'
<1>1. CASE \E c \in Cores : CoreStep(c)
  BY <1>1, CoreStepInv
<1>2. CASE \E a \in Aux : AuxStep(a)
  BY <1>2, AuxRestInv, AuxSeeRequestInv, AuxCollectInv, AuxHandleInv, AuxHandledInv, AuxPostponeInv,
     AuxPassDoneInv DEF AuxStep
<1>3. CASE Summon \/ MainStep
  BY <1>3, MainRestInv, MainRequestInv, MainTransmitInv DEF MainStep
<1>4. CASE UNCHANGED vars
  <2>1. TypeOK'
    BY <1>4 DEF PauseInv, CoreInv, TypeOK, CoreTypes, vars, threadVars, gatherVars, handlerVars
  <2>2. /\ UNCHANGED <<owner, core, lock, rq, mig, req, running, blocked, gatherVars, scan>>
        /\ UNCHANGED <<aux, st, main, mask, target>>
    BY <1>4 DEF vars, threadVars, gatherVars, handlerVars
  <2>3. Handshake'
    BY <2>2 DEF PauseInv, Handshake, Pausing
  <2> QED
    BY <2>1, <2>2, <2>3, HandlersOnly DEF PauseInv
<1> QED
  BY <1>1, <1>2, <1>3, <1>4 DEF Next

(* The steps of the cores and of the handlers keep the invariant: a thread *)
(* is in one place, whoever holds a lock that matters is known, the cores  *)
(* that have been handled are clear of the proclet and stay so, the        *)
(* handler leaves nothing behind it, and what is gathered has switched     *)
(* out.                                                                    *)
THEOREM Invariant == Spec => []PauseInv
<1>1. Init => PauseInv
  BY InitInv
<1>2. PauseInv /\ [Next]_vars => PauseInv'
  BY StepInv
<1> QED
  BY <1>1, <1>2, PTL DEF Spec

---------------------------------------------------------------------------
(* What the runs check, for any constants.                                 *)

(* The last three places, which have no core.                              *)
Lists(t, B, G, O) ==
  {<<y[1], 0>> : y \in {z \in {<<"blocked", B>>, <<"gathered", G>>, <<"gone", O>>} : t \in z[2]}}

LEMMA ThreeLists ==
  ASSUME NEW t, NEW B, NEW G, NEW O
  PROVE  \A x : x \in Lists(t, B, G, O) <=> \/ t \in B /\ x = <<"blocked", 0>>
                                            \/ t \in G /\ x = <<"gathered", 0>>
                                            \/ t \in O /\ x = <<"gone", 0>>
<1> DEFINE S == {<<"blocked", B>>, <<"gathered", G>>, <<"gone", O>>}
<1> TAKE x
<1>1. x \in Lists(t, B, G, O) <=> \E y \in S : t \in y[2] /\ x = <<y[1], 0>>
  BY Zenon DEF Lists
<1>2. (\E y \in S : t \in y[2] /\ x = <<y[1], 0>>)
      <=> \/ t \in <<"blocked", B>>[2] /\ x = <<<<"blocked", B>>[1], 0>>
          \/ t \in <<"gathered", G>>[2] /\ x = <<<<"gathered", G>>[1], 0>>
          \/ t \in <<"gone", O>>[2] /\ x = <<<<"gone", O>>[1], 0>>
  BY Zenon
<1>3. /\ <<"blocked", B>>[2] = B /\ <<"blocked", B>>[1] = "blocked"
      /\ <<"gathered", G>>[2] = G /\ <<"gathered", G>>[1] = "gathered"
      /\ <<"gone", O>>[2] = O /\ <<"gone", O>>[1] = "gone"
  OBVIOUS
<1>4. (\E y \in S : t \in y[2] /\ x = <<y[1], 0>>)
      <=> \/ t \in B /\ x = <<"blocked", 0>>
          \/ t \in G /\ x = <<"gathered", 0>>
          \/ t \in O /\ x = <<"gone", 0>>
  BY <1>2, <1>3, Zenon
<1> QED
  BY <1>1, <1>4

(* A thread is in one place.                                               *)
THEOREM ThreadIsInOnePlace == Spec => []OnePlace
<1>1. ASSUME PauseInv
      PROVE  OnePlace
  <2> SUFFICES ASSUME NEW t \in Threads
               PROVE  Cardinality(Places(t)) = 1
    BY DEF OnePlace
  <2>1. Placed
    BY <1>1 DEF PauseInv, CoreInv
  <2>2. PICK k \in Kinds, c \in Spots : \A j \in Kinds, d \in Spots : t \in Held(j, d) <=> j = k /\ d = c
    BY <2>1 DEF Placed
  <2>3. /\ {d \in Cores : core[d].cur = t /\ ~At(d, "switch")} = {d \in Cores : k = "core" /\ d = c}
        /\ {d \in Cores : t \in rq[d]} = {d \in Cores : k = "rq" /\ d = c}
        /\ {d \in Cores : t \in mig[d]} = {d \in Cores : k = "mig" /\ d = c}
    BY <2>2, HeldAre DEF OnCore, At, Kinds, Spots
  <2>4. /\ t \in blocked <=> k = "blocked" /\ c = 0
        /\ t \in gathered <=> k = "gathered" /\ c = 0
        /\ t \in gone <=> k = "gone" /\ c = 0
    BY <2>2, HeldAre DEF Kinds, Spots
  <2>5. k \in {"core", "rq", "mig"} => c \in Cores
    BY <2>2, HeldAre DEF Spots
  <2>6. Places(t) = {<<k, c>>}
    <3> DEFINE L == Lists(t, blocked, gathered, gone)
    <3>1. \A x : x \in L <=> \/ t \in blocked /\ x = <<"blocked", 0>>
                             \/ t \in gathered /\ x = <<"gathered", 0>>
                             \/ t \in gone /\ x = <<"gone", 0>>
      BY ThreeLists
    <3>2. \A x : x \in Places(t) <=>
                 \/ \E d \in Cores : k = "core" /\ d = c /\ x = <<"core", d>>
                 \/ \E d \in Cores : k = "rq" /\ d = c /\ x = <<"rq", d>>
                 \/ \E d \in Cores : k = "mig" /\ d = c /\ x = <<"mig", d>>
                 \/ x \in L
      BY <2>3 DEF Places, Lists
    <3>3. ASSUME NEW x, x \in Places(t)
          PROVE  x = <<k, c>>
      <4>1. CASE x \in L
        BY <2>4, <3>1, <4>1
      <4>2. CASE x \notin L
        BY <3>2, <3>3, <4>2
      <4> QED
        BY <4>1, <4>2
    <3>4. <<k, c>> \in Places(t)
      <4>1. CASE k \in {"core", "rq", "mig"}
        BY <2>5, <3>2, <4>1
      <4>2. CASE k \in {"blocked", "gathered", "gone"}
        <5>1. c = 0
          BY <2>2, <4>2, HeldAre DEF Spots
        <5>2. <<k, c>> \in L
          <6> HIDE DEF L
          <6>1. t \in blocked => <<"blocked", 0>> \in L
            BY <3>1, Zenon
          <6>2. t \in gathered => <<"gathered", 0>> \in L
            BY <3>1, Zenon
          <6>3. t \in gone => <<"gone", 0>> \in L
            BY <3>1, Zenon
          <6> QED
            BY <2>4, <4>2, <5>1, <6>1, <6>2, <6>3
        <5> QED
          BY <3>2, <5>2, Zenon
      <4> QED
        BY <4>1, <4>2 DEF Kinds
    <3> QED
      BY <3>3, <3>4
  <2> QED
    BY <2>6, FS_Singleton
<1> QED
  BY <1>1, Invariant, PTL

(* The threads of the proclet have stopped when the pause has returned.    *)
THEOREM PausedMeansStopped == Spec => []PausedIsStopped
<1>1. ASSUME PauseInv
      PROVE  PausedIsStopped
  BY <1>1 DEF PauseInv, CoreInv, PausedIsStopped, Gathered, Handshake, Pausing
<1> QED
  BY <1>1, Invariant, PTL

---------------------------------------------------------------------------
(* The refinement of AtomicPause.                                          *)

StoppedProclets == IF target # None /\ ~mask THEN {target} ELSE {}

LEMMA ModeIs ==
  ASSUME NEW t
  PROVE  /\ t \in gone => ModeOf(t) = "gone"
         /\ t \notin gone /\ t \in blocked => ModeOf(t) = "blocked"
         /\ t \notin gone /\ t \notin blocked /\ t \in gathered /\ ~mask => ModeOf(t) = "stopped"
         /\ t \notin gone /\ t \notin blocked /\ (t \notin gathered \/ mask) => ModeOf(t) = "active"
BY DEF ModeOf

LEMMA ModeIsNext ==
  ASSUME NEW t
  PROVE  /\ t \in gone' => ModeOf(t)' = "gone"
         /\ t \notin gone' /\ t \in blocked' => ModeOf(t)' = "blocked"
         /\ t \notin gone' /\ t \notin blocked' /\ t \in gathered' /\ ~mask' => ModeOf(t)' = "stopped"
         /\ t \notin gone' /\ t \notin blocked' /\ (t \notin gathered' \/ mask') => ModeOf(t)' = "active"
BY DEF ModeOf

(* A step that changes nobody's mode is none of AtomicPause.               *)
LEMMA Stutter ==
  ASSUME UNCHANGED <<owner, StoppedProclets>>, \A t \in Threads : ModeOf(t)' = ModeOf(t)
  PROVE  UNCHANGED Promise!vars
BY DEF Promise!vars, StoppedProclets

LEMMA BlockImplements ==
  ASSUME PauseInv, NEW c \in Cores, NEW t \in Threads, Block(c, t)
  PROVE  Promise!Block(t)
<1>1. /\ core[c].cur = t /\ core[c].pc = "run" /\ blocked' = blocked \cup {t}
      /\ UNCHANGED <<owner, gone, gathered, mask, target>>
  BY DEF Block, Runs, At, threadFrame, gatherVars
<1>2. t \notin blocked /\ t \notin gathered /\ t \notin gone
  BY <1>1, Apart DEF PauseInv, CoreInv
<1>3. ModeOf(t) = "active" /\ ModeOf(t)' = "blocked"
  BY <1>1, <1>2, ModeIs, ModeIsNext
<1>4. \A u \in Threads \ {t} : ModeOf(u)' = ModeOf(u)
  BY <1>1 DEF ModeOf
<1>5. [u \in Threads |-> ModeOf(u)]' = [[u \in Threads |-> ModeOf(u)] EXCEPT ![t] = "blocked"]
  BY <1>3, <1>4
<1> QED
  BY <1>1, <1>3, <1>5 DEF Promise!Block

LEMMA WakeImplements ==
  ASSUME PauseInv, NEW c \in Cores, NEW t \in Threads, NEW u \in Threads, Wake(c, t, u)
  PROVE  Promise!Wake(t, u)
<1>1. /\ core[c].cur = t /\ core[c].pc = "run" /\ u \in blocked /\ blocked' = blocked \ {u}
      /\ owner[u] = owner[t]
      /\ UNCHANGED <<owner, gone, gathered, mask, target>>
  BY DEF Wake, Runs, At, threadFrame, gatherVars
<1>2. /\ t \notin blocked /\ t \notin gathered /\ t \notin gone
      /\ u \notin gathered /\ u \notin gone
  BY <1>1, Apart DEF PauseInv, CoreInv
<1>3. ModeOf(t) = "active" /\ ModeOf(u) = "blocked" /\ ModeOf(u)' = "active"
  BY <1>1, <1>2, ModeIs, ModeIsNext
<1>4. \A x \in Threads \ {u} : ModeOf(x)' = ModeOf(x)
  BY <1>1 DEF ModeOf
<1>5. [x \in Threads |-> ModeOf(x)]' = [[x \in Threads |-> ModeOf(x)] EXCEPT ![u] = "active"]
  BY <1>3, <1>4
<1> QED
  BY <1>1, <1>3, <1>5 DEF Promise!Wake

(* The last pass of the auxiliary handler, which clears the mask.          *)
LEMMA PassDoneImplements ==
  ASSUME PauseInv, NEW a \in Aux, AuxPassDone(a), scan.done
  PROVE  \E p \in Proclets : Promise!Pause(p)
<1>1. /\ ~mask' /\ UNCHANGED <<owner, gone, gathered, blocked, target, OwnedThreads>>
      /\ aux[a] = "scan"
  BY DEF AuxPassDone, scanFrame, OwnedThreads
<1>2. mask /\ target \in Proclets /\ target # None
  BY <1>1, OnlyPauser DEF PauseInv, CoreInv, TypeOK, Handshake, Pausing
<1>3. gathered \subseteq OwnedThreads /\ OwnedThreads \cap gone = {} /\ OwnedThreads \subseteq gathered \cup blocked
  BY <1>1, <1>2, AuxPassDoneInv DEF PauseInv, CoreInv, Gathered
<1>4. StoppedProclets = {} /\ StoppedProclets' = {target}
  BY <1>1, <1>2 DEF StoppedProclets
<1>5. \A t \in Threads : ModeOf(t)' = IF t \in OwnedThreads /\ ModeOf(t) = "active" THEN "stopped" ELSE ModeOf(t)
  <2> TAKE t \in Threads
  <2>1. CASE t \in OwnedThreads
    BY <1>1, <1>2, <1>3, <2>1, ModeIs, ModeIsNext
  <2>2. CASE t \notin OwnedThreads
    BY <1>1, <1>2, <1>3, <2>2, ModeIs, ModeIsNext
  <2> QED
    BY <2>1, <2>2
<1>6. Promise!OwnedBy(target) = OwnedThreads
  BY DEF Promise!OwnedBy, OwnedThreads
<1>7. Promise!Pause(target)
  BY <1>1, <1>4, <1>5, <1>6 DEF Promise!Pause, StoppedProclets
<1> QED
  BY <1>2, <1>7

LEMMA TransmitImplements ==
  ASSUME PauseInv, MainTransmit
  PROVE  \E p \in Proclets : Promise!Leave(p)
<1>1. /\ gone' = gone \cup gathered \cup (blocked \cap OwnedThreads)
      /\ blocked' = blocked \ OwnedThreads /\ gathered' = {} /\ target' = None
      /\ UNCHANGED <<owner, mask>>
      /\ main = "transmit"
  BY DEF MainTransmit, mainFrame
<1>2. ~mask /\ target \in Proclets /\ target # None
  BY <1>1 DEF PauseInv, CoreInv, TypeOK, Handshake, Pausing
<1>3. gathered \subseteq OwnedThreads /\ OwnedThreads \subseteq gathered \cup blocked
  BY <1>2 DEF PauseInv, CoreInv, Gathered
<1>4. StoppedProclets = {target} /\ StoppedProclets' = {}
  BY <1>1, <1>2 DEF StoppedProclets
<1>5. \A t \in Threads : ModeOf(t)' = IF t \in OwnedThreads THEN "gone" ELSE ModeOf(t)
  <2> TAKE t \in Threads
  <2>1. CASE t \in OwnedThreads
    BY <1>1, <1>3, <2>1, ModeIsNext
  <2>2. CASE t \notin OwnedThreads
    BY <1>1, <1>2, <1>3, <2>2, ModeIs, ModeIsNext
  <2> QED
    BY <2>1, <2>2
<1>6. Promise!OwnedBy(target) = OwnedThreads
  BY DEF Promise!OwnedBy, OwnedThreads
<1>7. Promise!Leave(target)
  BY <1>1, <1>4, <1>5, <1>6 DEF Promise!Leave, StoppedProclets
<1> QED
  BY <1>2, <1>7

(* All other steps of a core leave the lists alone.                        *)
LEMMA CoreStutters ==
  ASSUME NEW c \in Cores, CoreStep(c),
         \A t \in Threads : ~Block(c, t), \A t, u \in Threads : ~Wake(c, t, u)
  PROVE  UNCHANGED Promise!vars
<1>1. UNCHANGED <<owner, gathered, gone, mask, target>>
  BY CoreFrame DEF gatherVars
<1>2. UNCHANGED blocked
  <2>1. ThreadStep(c) => UNCHANGED blocked
    BY DEF ThreadStep, Yield, Cede, GuestAttach, GuestLeave, OtherSwitch
  <2>2. ScheduleStep(c) => UNCHANGED blocked
    BY DEF ScheduleStep, EnterSchedule, EnterDirect, Unpark, Check, RunNext, RunOther, Load, StealLook,
           StealHandle, StealTake, StealFail, Again, Park
  <2>3. UnblockStep(c) => UNCHANGED blocked
    BY DEF UnblockStep, UnblockHandle, ShedLook, ShedMove, Stopped
  <2> QED
    BY <2>1, <2>2, <2>3 DEF CoreStep
<1> QED
  BY <1>1, <1>2, Stutter DEF ModeOf, StoppedProclets

(* While the mask is set, what is gathered passes for active.              *)
LEMMA AuxImplements ==
  ASSUME PauseInv, NEW a \in Aux, AuxStep(a)
  PROVE  [Promise!Next]_(Promise!vars)
<1>1. UNCHANGED <<owner, gone, blocked, target>>
  BY AuxFrame
<1>2. CASE AuxPassDone(a) /\ scan.done
  BY <1>2, PassDoneImplements DEF Promise!Next
<1>3. CASE ~(AuxPassDone(a) /\ scan.done)
  <2>1. UNCHANGED mask
    BY <1>3 DEF AuxStep, AuxStart, AuxWrite, AuxSeeRequest, AuxCollect, AuxHandle, AuxHandled, AuxPostpone,
           AuxPassDone, AuxPauseDone, AuxRelease, AuxStop, gatherVars
  <2>2. mask \/ UNCHANGED gathered
    <3>1. CASE AuxCollect(a) \/ AuxHandled(a)
      <4>1. aux[a] \in {"scan", "pausing"}
        BY <3>1 DEF AuxCollect, AuxHandled
      <4> QED
        BY <4>1, OnlyPauser
    <3> QED
      BY <3>1 DEF AuxStep, AuxStart, AuxWrite, AuxSeeRequest, AuxHandle, AuxPostpone,
             AuxPassDone, AuxPauseDone, AuxRelease, AuxStop, gatherVars, scanFrame
  <2>3. \A t \in Threads : ModeOf(t)' = ModeOf(t)
    BY <1>1, <2>1, <2>2 DEF ModeOf
  <2>4. UNCHANGED StoppedProclets
    BY <1>1, <2>1 DEF StoppedProclets
  <2> QED
    BY <1>1, <2>3, <2>4, Stutter
<1> QED
  BY <1>2, <1>3

LEMMA MainImplements ==
  ASSUME PauseInv, MainStep \/ Summon
  PROVE  [Promise!Next]_(Promise!vars)
<1>1. CASE MainTransmit
  BY <1>1, TransmitImplements DEF Promise!Next
<1>2. ASSUME NEW p \in Proclets, MainRequest(p)
      PROVE  UNCHANGED Promise!vars
  <2>1. main = "request" /\ mask' /\ UNCHANGED <<owner, gathered, gone, blocked>>
    BY <1>2 DEF MainRequest, mainFrame
  <2>2. ~mask /\ target = None
    BY <2>1 DEF PauseInv, Handshake, Pausing
  <2>3. gathered = {}
    BY <2>2, ConstantsOK DEF PauseInv, CoreInv, Gathered, OwnedThreads, TypeOK
  <2>4. \A t \in Threads : ModeOf(t)' = ModeOf(t)
    BY <2>1, <2>2, <2>3 DEF ModeOf
  <2>5. UNCHANGED StoppedProclets
    BY <2>1, <2>2 DEF StoppedProclets
  <2> QED
    BY <2>1, <2>4, <2>5, Stutter
<1>3. CASE \/ MainStart \/ MainDispatchPause \/ MainSignal \/ MainForce \/ MainPaused
           \/ MainDispatch \/ MainEnd \/ MainStop \/ Summon
  <2>1. UNCHANGED <<owner, gathered, gone, blocked, mask, target>>
    BY <1>3 DEF MainStart, MainDispatchPause, MainSignal, MainForce, MainPaused, MainDispatch, MainEnd,
           MainStop, Summon, threadVars, gatherVars, mainFrame
  <2> QED
    BY <2>1, Stutter DEF ModeOf, StoppedProclets
<1> QED
  BY <1>1, <1>2, <1>3 DEF MainStep

(* The scheduler and the handlers implement the pause that stops all the   *)
(* threads of a proclet at once: the step that does is the last pass of    *)
(* the auxiliary handler over the cores.                                   *)
THEOREM PauseIsAtomic == Spec => ImplementsAtomicPause
<1>1. Init => Promise!Init
  <2> SUFFICES ASSUME Init
               PROVE  Promise!Init
    OBVIOUS
  <2>1. gone = {} /\ blocked = {} /\ gathered = {} /\ target = None /\ owner \in [Threads -> Proclets]
    BY DEF Init
  <2>2. \A t \in Threads : ModeOf(t) = "active"
    BY <2>1, ModeIs
  <2> QED
    BY <2>1, <2>2 DEF Promise!Init
<1>2. PauseInv /\ [Next]_vars => [Promise!Next]_(Promise!vars)
  <2> SUFFICES ASSUME PauseInv, [Next]_vars
               PROVE  [Promise!Next]_(Promise!vars)
    OBVIOUS
  <2>1. ASSUME NEW c \in Cores, CoreStep(c)
        PROVE  [Promise!Next]_(Promise!vars)
    <3>1. ASSUME NEW t \in Threads, Block(c, t)
          PROVE  Promise!Next
      BY <3>1, BlockImplements DEF Promise!Next
    <3>2. ASSUME NEW t \in Threads, NEW u \in Threads, Wake(c, t, u)
          PROVE  Promise!Next
      BY <3>2, WakeImplements DEF Promise!Next
    <3> QED
      BY <2>1, <3>1, <3>2, CoreStutters
  <2>2. CASE UNCHANGED vars
    <3>1. UNCHANGED <<owner, gathered, gone, blocked, mask, target>>
      BY <2>2 DEF vars, threadVars, gatherVars
    <3>2. UNCHANGED Promise!vars
      BY <3>1, Stutter DEF ModeOf, StoppedProclets
    <3> QED
      BY <3>2
  <2> QED
    BY <2>1, <2>2, AuxImplements, MainImplements DEF Next
<1> QED
  BY <1>1, <1>2, Invariant, PTL DEF Spec, ImplementsAtomicPause, Promise!Spec

---------------------------------------------------------------------------
(* How the handlers are counted.                                           *)

(* The auxiliary handlers that the iokernel has started and that have not  *)
(* counted themselves out, and whether the main handler has told them to   *)
(* stop (or has not been started at all).                                  *)
Left == {a \in Aux : a \in summoned \/ aux[a] # "off"}
Ended == main = "ending" \/ (main = "off" /\ "main" \notin summoned)

Counted ==
  /\ summoned \subseteq Aux \cup {"main"}
  /\ "main" \in summoned => main = "off"
  /\ \A a \in Aux : a \in summoned => aux[a] = "off"
  /\ active = IF "main" \in summoned THEN 0 ELSE Cardinality(Left) + (IF main = "off" THEN 0 ELSE 1)
  /\ status # "HANDLING" => Left = {} /\ main = "off" /\ "main" \notin summoned
  /\ ~Ended => \A a \in Aux : a \in Left /\ aux[a] # "stop"
  /\ \A a \in Aux : st[a].done <=> Ended /\ a \in Left /\ aux[a] # "stop"
RestInv == PauseInv /\ Counted

LEMMA LeftSize ==
  /\ IsFiniteSet(Left) /\ Cardinality(Left) \in Nat
  /\ Cardinality(Left) = 0 <=> Left = {}
  /\ \A a \in Left : Cardinality(Left \ {a}) = Cardinality(Left) - 1
<1>1. Left \subseteq Aux /\ IsFiniteSet(Aux)
  BY ConstantsOK DEF Left
<1>2. IsFiniteSet(Left)
  BY <1>1, FS_Subset
<1>3. \A a \in Left : Cardinality(Left \ {a}) = Cardinality(Left) - 1
  BY <1>2, FS_RemoveElement
<1> QED
  BY <1>2, <1>3, FS_CardinalityType, FS_EmptySet

(* Steps that leave every handler where it counts the same.                *)
LEMMA StillCounted ==
  ASSUME Counted, UNCHANGED <<active, status, summoned>>,
         \A a \in Aux : /\ aux'[a] = "off" <=> aux[a] = "off"
                        /\ aux'[a] = "stop" <=> aux[a] = "stop"
                        /\ st'[a].done <=> st[a].done,
         main' = main \/ (main \notin {"off", "ending"} /\ main' \notin {"off", "ending"})
  PROVE  Counted'
<1>1. Left' = Left
  BY DEF Left
<1>2. Ended' = Ended
  BY DEF Ended
<1>3. main' = "off" <=> main = "off"
  OBVIOUS
<1> QED
  BY <1>1, <1>2, <1>3 DEF Counted

LEMMA AuxStartCounted ==
  ASSUME RestInv, NEW a \in Aux, AuxStart(a)
  PROVE  Counted'
<1>1. TypeOK /\ Counted
  BY DEF RestInv, PauseInv, CoreInv
<1>2. /\ a \in summoned /\ summoned' = summoned \ {a} /\ aux[a] = "off"
      /\ UNCHANGED <<main, st, active, status>>
  BY DEF AuxStart
<1>3. aux'[a] = "serve" /\ \A b \in Aux \ {a} : aux'[b] = aux[b]
  BY <1>1 DEF AuxStart, SetAux, TypeOK
<1>4. Left' = Left
  BY <1>2, <1>3 DEF Left
<1>5. "main" \in summoned' <=> "main" \in summoned
  BY <1>2, ConstantsOK
<1>6. Ended' = Ended
  BY <1>2, <1>5 DEF Ended
<1> QED
  BY <1>1, <1>2, <1>3, <1>4, <1>5, <1>6 DEF Counted

LEMMA AuxReleaseCounted ==
  ASSUME RestInv, NEW a \in Aux, AuxRelease(a)
  PROVE  Counted'
<1>1. TypeOK /\ Counted
  BY DEF RestInv, PauseInv, CoreInv
<1>2. aux[a] = "serve" /\ st[a].done /\ UNCHANGED <<main, active, status, summoned>>
  BY DEF AuxRelease
<1>3. aux'[a] = "stop" /\ \A b \in Aux \ {a} : aux'[b] = aux[b]
  BY <1>1 DEF AuxRelease, SetAux, TypeOK
<1>4. ~st'[a].done /\ \A b \in Aux \ {a} : st'[b] = st[b]
  BY <1>1, ReleaseTo DEF TaskTo
<1>5. Left' = Left /\ Ended' = Ended /\ Ended
  BY <1>1, <1>2, <1>3 DEF Left, Ended, Counted
<1> QED
  BY <1>1, <1>2, <1>3, <1>4, <1>5 DEF Counted

LEMMA AuxStopCounted ==
  ASSUME RestInv, NEW a \in Aux, AuxStop(a)
  PROVE  Counted'
<1>1. TypeOK /\ Counted
  BY DEF RestInv, PauseInv, CoreInv
<1>2. /\ aux[a] = "stop" /\ UNCHANGED <<main, st, summoned>>
      /\ active' = active - 1 /\ status' = IF active = 1 THEN "HANDLED" ELSE status
  BY DEF AuxStop, CountOut
<1>3. aux'[a] = "off" /\ \A b \in Aux \ {a} : aux'[b] = aux[b]
  BY <1>1 DEF AuxStop, SetAux, TypeOK
<1>4. a \in Left /\ a \notin summoned /\ Left' = Left \ {a}
  BY <1>1, <1>2, <1>3 DEF Left, Counted
<1>5. Ended /\ Ended' /\ "main" \notin summoned
  BY <1>1, <1>2 DEF Ended, Counted
<1>6. /\ Cardinality(Left) \in Nat /\ Cardinality(Left') = Cardinality(Left) - 1
      /\ Cardinality(Left) = 1 => Left' = {}
  <2>1. Cardinality(Left \ {a}) = Cardinality(Left) - 1 /\ Cardinality(Left) \in Nat
    BY <1>4, LeftSize
  <2>2. Cardinality(Left) = 1 => Left \ {a} = {}
    <3>1. IsFiniteSet(Left \ {a})
      BY LeftSize, FS_RemoveElement
    <3> QED
      BY <2>1, <3>1, FS_EmptySet
  <2> QED
    BY <1>4, <2>1, <2>2
<1>7. active' = Cardinality(Left') + (IF main' = "off" THEN 0 ELSE 1)
  BY <1>1, <1>2, <1>5, <1>6 DEF Counted
<1>8. status' # "HANDLING" => Left' = {} /\ main' = "off"
  <2>1. status = "HANDLING"
    BY <1>1, <1>4 DEF Counted
  <2>2. active = 1 => Cardinality(Left) = 1 /\ main = "off"
    <3>1. Cardinality(Left) # 0
      BY <1>4, LeftSize
    <3>2. active = Cardinality(Left) + (IF main = "off" THEN 0 ELSE 1)
      BY <1>1, <1>5 DEF Counted
    <3> QED
      BY <1>6, <3>1, <3>2
  <2> QED
    BY <1>2, <1>6, <2>1, <2>2
<1>9. \A b \in Aux : b \in Left' /\ aux'[b] # "stop" <=> b \in Left /\ aux[b] # "stop"
  BY <1>2, <1>3, <1>4
<1> QED
  BY <1>1, <1>2, <1>3, <1>5, <1>7, <1>8, <1>9 DEF Counted

(* The steps of an auxiliary handler between its start and its end.        *)
LEMMA AuxServesCounted ==
  ASSUME RestInv, NEW a \in Aux,
         \/ AuxWrite(a) \/ AuxSeeRequest(a) \/ AuxCollect(a) \/ AuxHandle(a) \/ AuxHandled(a)
         \/ AuxPostpone(a) \/ AuxPassDone(a) \/ AuxPauseDone(a)
  PROVE  Counted'
<1>1. TypeOK /\ Counted
  BY DEF RestInv, PauseInv, CoreInv
<1>2. UNCHANGED <<main, active, status, summoned>>
  BY DEF AuxWrite, AuxSeeRequest, AuxCollect, AuxHandle, AuxHandled, AuxPostpone, AuxPassDone,
         AuxPauseDone, scanFrame
<1>3. /\ aux[a] \notin {"off", "stop"}
      /\ aux' = aux \/ \E pc \in {"serve", "scan", "pausing", "scanned"} : SetAux(a, pc)
  BY DEF AuxWrite, AuxSeeRequest, AuxCollect, AuxHandle, AuxHandled, AuxPostpone, AuxPassDone,
         AuxPauseDone
<1>4. \A b \in Aux : /\ aux'[b] = "off" <=> aux[b] = "off"
                     /\ aux'[b] = "stop" <=> aux[b] = "stop"
  BY <1>1, <1>3 DEF SetAux, TypeOK
<1>5. \A b \in Aux : st'[b].done <=> st[b].done
  <2>1. CASE AuxWrite(a) \/ AuxPauseDone(a)
    BY <1>1, <2>1, WriteTo, PauseDoneTo DEF TaskTo
  <2>2. CASE ~(AuxWrite(a) \/ AuxPauseDone(a))
    BY <2>2 DEF AuxSeeRequest, AuxCollect, AuxHandle, AuxHandled, AuxPostpone, AuxPassDone, scanFrame
  <2> QED
    BY <2>1, <2>2
<1> QED
  BY <1>1, <1>2, <1>4, <1>5, StillCounted

LEMMA SummonCounted ==
  ASSUME RestInv, Summon
  PROVE  Counted'
<1>1. Counted
  BY DEF RestInv
<1>2. /\ status' = "HANDLING" /\ summoned' = Aux \cup {"main"}
      /\ UNCHANGED <<main, aux, st, active>>
  BY DEF Summon
<1>3. Left = {} /\ main = "off" /\ "main" \notin summoned
  BY <1>1 DEF Summon, Counted
<1>4. active = 0
  BY <1>1, <1>3, FS_EmptySet DEF Counted
<1>5. \A a \in Aux : aux[a] = "off" /\ a \in Left'
  BY <1>2, <1>3 DEF Left
<1>6. ~Ended'
  BY <1>2, <1>3 DEF Ended
<1>7. \A a \in Aux : ~st'[a].done
  BY <1>1, <1>2, <1>3 DEF Counted
<1> QED
  BY <1>2, <1>3, <1>4, <1>5, <1>6, <1>7 DEF Counted

LEMMA MainStartCounted ==
  ASSUME RestInv, MainStart
  PROVE  Counted'
<1>1. Counted
  BY DEF RestInv
<1>2. /\ "main" \in summoned /\ main = "off" /\ summoned' = summoned \ {"main"}
      /\ active' = active + Cardinality(Aux) + 1 /\ main' = "ready"
      /\ UNCHANGED <<aux, st, status>>
  BY ConstantsOK, FS_CardinalityType DEF MainStart, NumHandlers, Counted, RestInv
<1>3. ~Ended /\ ~Ended'
  BY <1>2 DEF Ended
<1>4. Left' = Left /\ Left = Aux
  <2>1. \A a \in Aux : a \in summoned' <=> a \in summoned
    BY <1>2, ConstantsOK
  <2> QED
    BY <1>1, <1>2, <1>3, <2>1 DEF Left, Counted
<1>5. active = 0 /\ Cardinality(Aux) \in Nat
  BY <1>1, <1>2, ConstantsOK, FS_CardinalityType DEF Counted
<1>6. active' = Cardinality(Left') + 1
  BY <1>2, <1>4, <1>5
<1> QED
  BY <1>1, <1>2, <1>3, <1>4, <1>6 DEF Counted

LEMMA MainEndCounted ==
  ASSUME RestInv, MainEnd
  PROVE  Counted'
<1>1. TypeOK /\ Counted
  BY DEF RestInv, PauseInv, CoreInv
<1>2. main = "ready" /\ main' = "ending" /\ UNCHANGED <<aux, active, status, summoned>>
  BY DEF MainEnd, mainFrame
<1>3. \A a \in Aux : st'[a].done
  BY <1>1, EndTo
<1>4. ~Ended /\ Ended' /\ Left' = Left
  BY <1>2 DEF Ended, Left
<1> QED
  BY <1>1, <1>2, <1>3, <1>4 DEF Counted

LEMMA MainStopCounted ==
  ASSUME RestInv, MainStop
  PROVE  Counted'
<1>1. Counted
  BY DEF RestInv
<1>2. /\ main = "ending" /\ main' = "off" /\ UNCHANGED <<aux, st, summoned>>
      /\ active' = active - 1 /\ status' = IF active = 1 THEN "HANDLED" ELSE status
  BY DEF MainStop, CountOut, mainFrame
<1>3. "main" \notin summoned /\ status = "HANDLING"
  BY <1>1, <1>2 DEF Counted
<1>4. Ended /\ Ended' /\ Left' = Left
  BY <1>2, <1>3 DEF Ended, Left
<1>5. active = Cardinality(Left) + 1
  BY <1>1, <1>2, <1>3 DEF Counted
<1>6. active' = Cardinality(Left) /\ (active = 1 => Left = {})
  BY <1>2, <1>5, LeftSize
<1>7. status' # "HANDLING" => Left = {}
  BY <1>2, <1>3, <1>6
<1> QED
  BY <1>1, <1>2, <1>3, <1>4, <1>6, <1>7 DEF Counted

(* The steps of the main handler between its start and its end.            *)
LEMMA MainWorksCounted ==
  ASSUME RestInv,
         \/ MainDispatchPause \/ (\E p \in Proclets : MainRequest(p)) \/ MainSignal \/ MainForce
         \/ MainPaused \/ MainDispatch \/ MainTransmit
  PROVE  Counted'
<1>1. TypeOK /\ Counted
  BY DEF RestInv, PauseInv, CoreInv
<1>2. /\ UNCHANGED <<aux, active, status, summoned>>
      /\ main \notin {"off", "ending"} /\ main' \notin {"off", "ending"}
  BY DEF MainDispatchPause, MainRequest, MainSignal, MainForce, MainPaused, MainDispatch, MainTransmit,
         mainFrame
<1>3. \A b \in Aux : st'[b].done <=> st[b].done
  <2>1. CASE MainDispatchPause
    BY <1>1, <2>1, DispatchPauseTo DEF TaskTo
  <2>2. CASE MainDispatch
    BY <1>1, <2>2, DispatchTo
  <2>3. CASE ~(MainDispatchPause \/ MainDispatch)
    BY <2>3 DEF MainRequest, MainSignal, MainForce, MainPaused, MainTransmit
  <2> QED
    BY <2>1, <2>2, <2>3
<1> QED
  BY <1>1, <1>2, <1>3, StillCounted

LEMMA RestStep ==
  ASSUME RestInv, [Next]_vars
  PROVE  RestInv'
<1>1. PauseInv'
  BY StepInv DEF RestInv
<1> SUFFICES Counted'
  BY <1>1 DEF RestInv
<1>2. CASE (\E c \in Cores : CoreStep(c)) \/ UNCHANGED vars
  <2>1. UNCHANGED handlerVars
    BY <1>2, CoreFrame DEF vars
  <2> QED
    BY <2>1, StillCounted DEF RestInv, handlerVars
<1>3. CASE \E a \in Aux : AuxStep(a)
  BY <1>3, AuxStartCounted, AuxReleaseCounted, AuxStopCounted, AuxServesCounted DEF AuxStep
<1>4. CASE Summon \/ MainStep
  BY <1>4, SummonCounted, MainStartCounted, MainWorksCounted, MainEndCounted, MainStopCounted
     DEF MainStep
<1> QED
  BY <1>2, <1>3, <1>4 DEF Next

(* When the iokernel may start the handlers again, all of them are at      *)
(* rest: active_handlers_ is the number of those that were started and     *)
(* have not ended (0 until the main handler adds them all), so that the    *)
(* last one alone reports; and what is left of a request or a task has its *)
(* handler still there.                                                    *)
THEOREM HandlersEndAtRest == Spec => []HandlersAtRest
<1>1. Init => RestInv
  <2> SUFFICES ASSUME Init
               PROVE  Counted
    BY InitInv DEF RestInv
  <2>1. Left = {}
    BY DEF Init, Left
  <2> QED
    BY <2>1, FS_EmptySet DEF Init, Counted, Ended, NoTask
<1>2. RestInv /\ [Next]_vars => RestInv'
  BY RestStep
<1>3. RestInv => HandlersAtRest
  <2> SUFFICES ASSUME RestInv, status # "HANDLING"
               PROVE  /\ main = "off" /\ active = 0 /\ summoned = {}
                      /\ \A a \in Aux : aux[a] = "off" /\ st[a] = NoTask
                      /\ ~mask /\ gathered = {} /\ \A c \in Cores : mig[c] = {}
    BY DEF HandlersAtRest
  <2>1. TypeOK /\ Handshake /\ Gathered /\ Counted
    BY DEF RestInv, PauseInv, CoreInv
  <2>2. Left = {} /\ main = "off" /\ "main" \notin summoned
    BY <2>1 DEF Counted
  <2>3. \A a \in Aux : aux[a] = "off" /\ a \notin summoned /\ ~st[a].done
    BY <2>1, <2>2 DEF Left, Counted
  <2>4. summoned = {} /\ active = 0
    BY <2>1, <2>2, <2>3, FS_EmptySet DEF Counted
  <2>5. \A a \in Aux : st[a] = NoTask
    <3> TAKE a \in Aux
    <3>1. ~st[a].pending /\ ~st[a].pause /\ ~st[a].done
      BY <2>1, <2>2, <2>3 DEF Handshake
    <3>2. st[a] \in [pending : BOOLEAN, pause : BOOLEAN, done : BOOLEAN]
      BY <2>1 DEF TypeOK
    <3> QED
      BY <3>1, <3>2 DEF NoTask
  <2>6. ~mask /\ target = None
    BY <2>1, <2>2 DEF Handshake, Pausing, TypeOK
  <2>7. gathered = {} /\ \A c \in Cores : mig[c] = {}
    <3>1. OwnedThreads = {}
      BY <2>1, <2>6, ConstantsOK DEF OwnedThreads, TypeOK
    <3> QED
      BY <2>1, <2>6, <3>1 DEF Gathered
  <2> QED
    BY <2>2, <2>3, <2>4, <2>5, <2>6, <2>7
<1> QED
  BY <1>1, <1>2, <1>3, PTL DEF Spec

---------------------------------------------------------------------------
(* Nobody waits in a circle.                                               *)

(* A core that holds the lock of core x: its own, that of the core whose   *)
(* threads it stops in its place, that of the core that it sheds to.       *)
Holds(c, x) ==
  \/ x = c /\ core[c].pc \in {"check", "sched", "steal", "pausing", "shed"}
  \/ x = core[c].tgt /\ At(c, "shed")
  \/ x = core[c].tgt /\ At(c, "pausing") /\ core[c].then \in {"steal", "shed"}
Holders ==
  \A x \in Cores :
    /\ lock[x] \in Cores => Holds(lock[x], x)
    /\ lock[x] \in Aux => aux[lock[x]] = "pausing" /\ scan.i = x

(* A core remembers the thread that it leaves no longer than it needs it.  *)
OldIsNone == \A c \in Cores : ~At(c, "load") => core[c].old = None

(* What core x that is leaving its thread may wait behind: the threads of  *)
(* its queue, for which others wait with its lock in their hands, and the  *)
(* threads that are being shed to it.                                      *)
Sheds(z, x) == core[z].tgt = x /\ (At(z, "shed") \/ (At(z, "pausing") /\ core[z].then = "shed"))
Ahead(x, t) ==
  \/ At(x, "switch") /\ t \in rq[x] \cup mig[x]
  \/ At(x, "load") /\ core[x].cur = t
Shed(x, t) == At(x, "switch") /\ \E z \in Cores : Sheds(z, x) /\ t \in rq[z] \cup mig[z]

(* Every core that has a thread to leave, or that waits for the next, has  *)
(* taken a number when it got there.                                       *)
Ordered(rank) ==
  \A x, y \in Cores : Leaving(y) \in Threads =>
    /\ Ahead(x, Leaving(y)) /\ y # x => rank[y] < rank[x]
    /\ Shed(x, Leaving(y)) => rank[y] < rank[x]

Stamped ==
  \E rank \in [Cores -> Nat], next \in Nat : (\A c \in Cores : rank[c] < next) /\ Ordered(rank)
WaitInv == PauseInv /\ Holders /\ OldIsNone /\ Stamped

(* A thread that a core runs or loads is nowhere else.                     *)
LEMMA RunsAlone ==
  ASSUME PauseInv, NEW c \in Cores, NEW t \in Threads, core[c].cur = t, core[c].pc # "switch"
  PROVE  /\ \A d \in Cores : t \notin rq[d] \cup mig[d]
         /\ \A d \in Cores \ {c} : core[d].cur = t => core[d].pc = "switch"
<1>1. TypeOK /\ Placed
  BY DEF PauseInv, CoreInv
<1>2. PICK k \in Kinds, e \in Spots : \A j \in Kinds, d \in Spots : t \in Held(j, d) <=> j = k /\ d = e
  BY <1>1 DEF Placed
<1>3. \A d \in Cores : core[d].cur = t /\ core[d].pc # "switch" => k = "core" /\ e = d
  BY <1>2, HeldAre DEF OnCore, Kinds, Spots
<1> QED
  BY <1>1, <1>3, Apart

(* A core's record keeps the thread that it leaves in all assignments but  *)
(* those of EnterDirect and Load.                                          *)
LEMMA KeepsOld ==
  ASSUME PauseInv, NEW c \in Cores, NEW pc, NEW th, NEW then, NEW d,
         \/ Goto(c, pc) \/ Become(c, pc, th)
         \/ core' = [core EXCEPT ![c] = [@ EXCEPT !.pc = pc, !.tgt = d]]
         \/ core' = [core EXCEPT ![c] = [@ EXCEPT !.pc = pc, !.then = then]]
         \/ core' = [core EXCEPT ![c] = [@ EXCEPT !.pc = pc, !.then = then, !.tgt = d]]
  PROVE  core'[c].old = core[c].old
<1>1. core \in [Cores -> CoreRec] /\ core[c] \in CoreRec
  BY DEF PauseInv, CoreInv, TypeOK, CoreTypes
<1> DEFINE Is(r) == core' = [core EXCEPT ![c] = r] /\ r.old = core[c].old
<1>2. \E r : Is(r)
  <2>1. CASE Goto(c, pc)
    <3>1. Is([core[c] EXCEPT !.pc = pc])
      BY <1>1, <2>1 DEF Goto, CoreRec
    <3> QED
      BY <3>1
  <2>2. CASE Become(c, pc, th)
    <3>1. Is([core[c] EXCEPT !.pc = pc, !.cur = th])
      BY <1>1, <2>2 DEF Become, CoreRec
    <3> QED
      BY <3>1
  <2>3. CASE core' = [core EXCEPT ![c] = [@ EXCEPT !.pc = pc, !.tgt = d]]
    <3>1. Is([core[c] EXCEPT !.pc = pc, !.tgt = d])
      BY <1>1, <2>3 DEF CoreRec
    <3> QED
      BY <3>1
  <2>4. CASE core' = [core EXCEPT ![c] = [@ EXCEPT !.pc = pc, !.then = then]]
    <3>1. Is([core[c] EXCEPT !.pc = pc, !.then = then])
      BY <1>1, <2>4 DEF CoreRec
    <3> QED
      BY <3>1
  <2>5. CASE core' = [core EXCEPT ![c] = [@ EXCEPT !.pc = pc, !.then = then, !.tgt = d]]
    <3>1. Is([core[c] EXCEPT !.pc = pc, !.then = then, !.tgt = d])
      BY <1>1, <2>5 DEF CoreRec
    <3> QED
      BY <3>1
  <2> QED
    BY <2>1, <2>2, <2>3, <2>4, <2>5
<1> QED
  BY <1>1, <1>2

(* The numbers stay right if no core has more to wait for.                 *)
LEMMA OrderKept ==
  ASSUME Stamped,
         \A y \in Cores : Leaving(y)' \in Threads => Leaving(y)' = Leaving(y),
         \A x \in Cores, t \in Threads : /\ Ahead(x, t)' => Ahead(x, t) \/ Shed(x, t)
                                         /\ Shed(x, t)' => Shed(x, t)
  PROVE  Stamped'
<1>1. PICK rank \in [Cores -> Nat], next \in Nat : (\A c \in Cores : rank[c] < next) /\ Ordered(rank)
  BY DEF Stamped
<1>2. Ordered(rank)'
  <2> SUFFICES ASSUME NEW x \in Cores, NEW y \in Cores, NEW t \in Threads, Leaving(y)' = t
               PROVE  /\ Ahead(x, t)' /\ y # x => rank[y] < rank[x]
                      /\ Shed(x, t)' => rank[y] < rank[x]
    BY DEF Ordered
  <2>1. Leaving(y) = t
    OBVIOUS
  <2>2. /\ Ahead(x, t) /\ y # x => rank[y] < rank[x]
        /\ Shed(x, t) => rank[y] < rank[x]
    BY <1>1, <2>1 DEF Ordered
  <2> QED
    BY <2>2
<1> QED
  BY <1>1, <1>2 DEF Stamped

(* Core c takes a number: nobody has waited for its thread before.         *)
LEMMA OrderTaken ==
  ASSUME Stamped, NEW c \in Cores,
         \A y \in Cores \ {c} : Leaving(y)' = Leaving(y),
         \A x \in Cores \ {c}, t \in Threads : /\ Ahead(x, t)' => Ahead(x, t) \/ Shed(x, t)
                                               /\ Shed(x, t)' => Shed(x, t),
         \A t \in Threads : Leaving(c)' = t =>
           /\ \A x \in Cores \ {c} : ~Ahead(x, t) /\ ~Shed(x, t)
           /\ ~Shed(c, t)'
  PROVE  Stamped'
<1>1. PICK rank \in [Cores -> Nat], next \in Nat : (\A d \in Cores : rank[d] < next) /\ Ordered(rank)
  BY DEF Stamped
<1> DEFINE new == [rank EXCEPT ![c] = next]
<1>2. new \in [Cores -> Nat] /\ new[c] = next /\ \A d \in Cores \ {c} : new[d] = rank[d]
  OBVIOUS
<1>3. \A d \in Cores : new[d] < next + 1
  <2> TAKE d \in Cores
  <2>1. rank[d] < next /\ rank[d] \in Nat /\ (d = c \/ new[d] = rank[d])
    BY <1>1, <1>2
  <2> QED
    BY <1>2, <2>1
<1> HIDE DEF new
<1>4. Ordered(new)'
  <2> SUFFICES ASSUME NEW x \in Cores, NEW y \in Cores, NEW t \in Threads, Leaving(y)' = t
               PROVE  /\ Ahead(x, t)' /\ y # x => new[y] < new[x]
                      /\ Shed(x, t)' => new[y] < new[x]
    BY DEF Ordered
  <2>1. CASE y = c
    BY <2>1
  <2>2. CASE y # c /\ x = c
    BY <1>1, <1>2, <2>2
  <2>3. CASE y # c /\ x # c
    <3>1. Leaving(y) = t
      BY <2>3
    <3>2. /\ Ahead(x, t) /\ y # x => rank[y] < rank[x]
          /\ Shed(x, t) => rank[y] < rank[x]
      BY <1>1, <3>1 DEF Ordered
    <3> QED
      BY <1>2, <2>3, <3>2
  <2> QED
    BY <2>1, <2>2, <2>3
<1> QED
  BY <1>2, <1>3, <1>4 DEF Stamped

(* The locks that a step of core c takes and lets go of.                   *)
LocksTo(c) == \A x \in Cores : lock'[x] \in {lock[x], Free, c} /\ (lock'[x] = c => Holds(c, x)')

LEMMA HoldersKept ==
  ASSUME WaitInv, NEW c \in Cores, LocksTo(c), UNCHANGED <<aux, scan>>,
         \A d \in Cores \ {c} : core'[d] = core[d]
  PROVE  Holders'
<1> SUFFICES ASSUME NEW x \in Cores
             PROVE  /\ lock'[x] \in Cores => Holds(lock[x], x)'
                    /\ lock'[x] \in Aux => aux[lock'[x]] = "pausing" /\ scan.i = x
  BY DEF Holders
<1>1. /\ lock[x] \in Cores => Holds(lock[x], x)
      /\ lock[x] \in Aux => aux[lock[x]] = "pausing" /\ scan.i = x
      /\ lock'[x] \in {lock[x], Free, c}
  BY DEF WaitInv, Holders, LocksTo
<1>2. lock'[x] \in Aux => lock'[x] = lock[x]
  BY <1>1, Names
<1>3. ASSUME lock'[x] \in Cores
      PROVE  Holds(lock[x], x)'
  <2>1. CASE lock'[x] = c
    BY <2>1 DEF LocksTo, Holds
  <2>2. CASE lock'[x] # c
    <3>1. lock'[x] = lock[x]
      BY <1>1, <1>3, <2>2, Names
    <3>2. core'[lock[x]] = core[lock[x]]
      BY <1>3, <2>2, <3>1
    <3> QED
      BY <1>1, <1>3, <3>1, <3>2 DEF Holds, At
  <2> QED
    BY <2>1, <2>2
<1> QED
  BY <1>1, <1>2, <1>3

(* Which locks core c holds, by where it is.                               *)
LEMMA HeldByCore ==
  ASSUME WaitInv, NEW c \in Cores
  PROVE  \A x \in Cores : lock[x] = c =>
           /\ core[c].pc \in {"check", "sched", "steal", "pausing", "shed"}
           /\ \/ x = c
              \/ x = core[c].tgt /\ core[c].pc = "shed"
              \/ x = core[c].tgt /\ core[c].pc = "pausing" /\ core[c].then \in {"steal", "shed"}
BY DEF WaitInv, Holders, Holds, At

(* The steps after which core c is in its scheduler, or runs a thread that *)
(* it need not wait for: it goes to pc, with then and tgt in its record.   *)
(* If it sheds threads to a core that leaves its thread, it has done so    *)
(* before.                                                                 *)
Queues(d) == rq[d] \cup mig[d]
Calm(c, pc, cur, then, tgt) ==
  /\ CoreTo(c, pc, cur, then, tgt) /\ core'[c].old = None
  /\ pc \notin {"switch", "load"}
  /\ \A d \in Cores \ {c} : Queues(d)' \subseteq Queues(d)
  /\ pc = "shed" \/ (pc = "pausing" /\ then = "shed") =>
       /\ tgt # c
       /\ At(tgt, "switch") => Sheds(c, tgt) /\ Queues(c)' \subseteq Queues(c)
  /\ LocksTo(c)

LEMMA CalmWaits ==
  ASSUME WaitInv, NEW c \in Cores, NEW pc, NEW cur, NEW then, NEW tgt, Calm(c, pc, cur, then, tgt),
         UNCHANGED <<aux, scan>>
  PROVE  Holders' /\ OldIsNone' /\ Stamped'
<1>1. /\ \A d \in Cores \ {c} : core'[d] = core[d]
      /\ core'[c].pc = pc /\ core'[c].then = then /\ core'[c].tgt = tgt /\ core'[c].old = None
      /\ pc \notin {"switch", "load"}
  BY DEF Calm, CoreTo
<1>2. OldIsNone'
  BY <1>1 DEF WaitInv, OldIsNone, At
<1>3. \A y \in Cores : Leaving(y)' \in Threads => Leaving(y)' = Leaving(y)
  <2> TAKE y \in Cores
  <2>1. CASE y = c
    <3>1. Leaving(c)' = None
      BY <1>1 DEF Leaving, At
    <3> QED
      BY <2>1, <3>1, Names
  <2>2. CASE y # c
    BY <1>1, <2>2 DEF Leaving, At
  <2> QED
    BY <2>1, <2>2
<1>4. ASSUME NEW x \in Cores, NEW t \in Threads, Ahead(x, t)'
      PROVE  Ahead(x, t)
  <2>1. x # c
    BY <1>1, <1>4 DEF Ahead, At
  <2>2. core'[x] = core[x] /\ Queues(x)' \subseteq Queues(x)
    BY <1>1, <2>1 DEF Calm
  <2> QED
    BY <1>4, <2>2 DEF Ahead, At, Queues
<1>5. ASSUME NEW x \in Cores, NEW t \in Threads, Shed(x, t)'
      PROVE  Shed(x, t)
  <2>1. x # c /\ core'[x] = core[x] /\ At(x, "switch")
    BY <1>1, <1>5 DEF Shed, At
  <2>2. PICK z \in Cores : Sheds(z, x)' /\ t \in Queues(z)'
    BY <1>5 DEF Shed, Queues
  <2>3. Sheds(z, x) /\ t \in Queues(z)
    <3>1. CASE z = c
      <4>1. tgt = x /\ (pc = "shed" \/ (pc = "pausing" /\ then = "shed"))
        BY <1>1, <2>2, <3>1 DEF Sheds, At
      <4> QED
        BY <2>1, <2>2, <3>1, <4>1 DEF Calm
    <3>2. CASE z # c
      <4>1. core'[z] = core[z] /\ Queues(z)' \subseteq Queues(z)
        BY <1>1, <3>2 DEF Calm
      <4> QED
        BY <2>2, <4>1 DEF Sheds, At
    <3> QED
      BY <3>1, <3>2
  <2> QED
    BY <2>1, <2>3 DEF Shed, Queues
<1>6. Stamped'
  BY <1>3, <1>4, <1>5, OrderKept DEF WaitInv
<1>7. Holders'
  BY <1>1, HoldersKept DEF Calm
<1> QED
  BY <1>2, <1>6, <1>7

LEMMA CalmSteps ==
  ASSUME WaitInv, PromptSwitch, NEW c \in Cores,
         \/ GuestAttach(c) \/ GuestLeave(c) \/ (\E t, u \in Threads : Wake(c, t, u))
         \/ (\E t \in Threads : Cede(c, t))
         \/ EnterSchedule(c) \/ Unpark(c) \/ Check(c) \/ RunOther(c) \/ Load(c)
         \/ (\E r \in Cores : StealLook(c, r) \/ StealHandle(c, r))
         \/ StealTake(c) \/ StealFail(c) \/ Again(c) \/ Park(c)
         \/ UnblockHandle(c) \/ (\E r \in Cores : ShedLook(c, r)) \/ Stopped(c)
  PROVE  Holders' /\ OldIsNone' /\ Stamped'
<1>1. /\ PauseInv /\ TypeOK /\ core \in [Cores -> CoreRec] /\ core[c] \in CoreRec
      /\ core[c].tgt \in Cores /\ core[c].then \in {"sched", "steal", "run", "shed"}
      /\ lock \in [Cores -> Cores \cup Aux \cup {Free}] /\ rq \in [Cores -> SUBSET Threads]
      /\ Free \notin Cores /\ c # Free
      /\ core[c].pc # "load" => core[c].old = None
      /\ core[c].pc \in {"steal", "shed"} => core[c].tgt # c
      /\ core[c].pc = "pausing" /\ core[c].then \in {"steal", "shed"} => core[c].tgt # c
  BY Names DEF WaitInv, PauseInv, CoreInv, TypeOK, CoreTypes, CoreRec, OldIsNone, At, Locked
<1>2. UNCHANGED <<aux, scan>>
  BY CoreFrame DEF CoreStep, ThreadStep, ScheduleStep, UnblockStep, handlerVars
<1>3. \A x \in Cores : lock[x] = c =>
           /\ core[c].pc \in {"check", "sched", "steal", "pausing", "shed"}
           /\ \/ x = c
              \/ x = core[c].tgt /\ core[c].pc = "shed"
              \/ x = core[c].tgt /\ core[c].pc = "pausing" /\ core[c].then \in {"steal", "shed"}
  BY HeldByCore
<1>4. ASSUME \E pc, cur, then, tgt : Calm(c, pc, cur, then, tgt)
      PROVE  Holders' /\ OldIsNone' /\ Stamped'
  BY <1>2, <1>4, CalmWaits
<1>5. CASE GuestAttach(c)
  <2>1. CoreTo(c, "run", Guest, core[c].then, core[c].tgt) /\ core'[c].old = core[c].old
    BY <1>1, <1>5, BecomeTo, KeepsOld DEF GuestAttach, CorePcs
  <2>2. Calm(c, "run", Guest, core[c].then, core[c].tgt)
    BY <1>1, <1>3, <1>5, <2>1 DEF GuestAttach, At, Calm, Queues, LocksTo
  <2> QED
    BY <1>4, <2>2
<1>6. CASE GuestLeave(c)
  <2>1. CoreTo(c, "run", Other, core[c].then, core[c].tgt) /\ core'[c].old = core[c].old
    BY <1>1, <1>6, BecomeTo, KeepsOld DEF GuestLeave, CorePcs
  <2>2. Calm(c, "run", Other, core[c].then, core[c].tgt)
    BY <1>1, <1>3, <1>6, <2>1 DEF GuestLeave, At, Calm, Queues, LocksTo
  <2> QED
    BY <1>4, <2>2
<1>7. CASE \E t, u \in Threads : Wake(c, t, u)
  <2>1. PICK u \in Threads : /\ core[c].pc = "run" /\ UNCHANGED <<core, lock, mig>>
                             /\ rq' = [rq EXCEPT ![c] = @ \cup {u}]
    BY <1>7 DEF Wake, Runs, At
  <2>2. CoreTo(c, "run", core[c].cur, core[c].then, core[c].tgt) /\ core'[c].old = core[c].old
    BY <1>1, <2>1 DEF CoreTo
  <2>3. Calm(c, "run", core[c].cur, core[c].then, core[c].tgt)
    BY <1>1, <1>3, <2>1, <2>2 DEF Calm, Queues, LocksTo
  <2> QED
    BY <1>4, <2>3
<1>8. CASE \E t \in Threads : Cede(c, t)
  <2>1. PICK t \in Threads : /\ core[c].pc = "run" /\ UNCHANGED <<lock, mig>>
                             /\ rq' = [rq EXCEPT ![c] = @ \cup {t}] /\ Become(c, "parked", None)
    BY <1>8 DEF Cede, Runs, At
  <2>2. CoreTo(c, "parked", None, core[c].then, core[c].tgt) /\ core'[c].old = core[c].old
    BY <1>1, <2>1, BecomeTo, KeepsOld DEF CorePcs
  <2>3. Calm(c, "parked", None, core[c].then, core[c].tgt)
    BY <1>1, <1>3, <2>1, <2>2 DEF Calm, Queues, LocksTo
  <2> QED
    BY <1>4, <2>3
<1>9. CASE EnterSchedule(c)
  <2>1. CoreTo(c, "check", None, core[c].then, core[c].tgt) /\ core'[c].old = core[c].old
    BY <1>1, <1>9, BecomeTo, KeepsOld DEF EnterSchedule, CorePcs
  <2>2. Calm(c, "check", None, core[c].then, core[c].tgt)
    BY <1>1, <1>3, <1>9, <2>1 DEF EnterSchedule, At, Calm, Queues, LocksTo, Holds, CoreTo
  <2> QED
    BY <1>4, <2>2
<1>10. CASE Unpark(c)
  <2>1. CoreTo(c, "check", core[c].cur, core[c].then, core[c].tgt) /\ core'[c].old = core[c].old
    BY <1>1, <1>10, GotoTo, KeepsOld DEF Unpark, CorePcs
  <2>2. Calm(c, "check", core[c].cur, core[c].then, core[c].tgt)
    BY <1>1, <1>3, <1>10, <2>1 DEF Unpark, At, Calm, Queues, LocksTo, Holds, CoreTo
  <2> QED
    BY <1>4, <2>2
<1>11. CASE Check(c) /\ ~Pending(c)
  <2>1. CoreTo(c, "sched", core[c].cur, core[c].then, core[c].tgt) /\ core'[c].old = core[c].old
    BY <1>1, <1>11, GotoTo, KeepsOld DEF Check, CorePcs
  <2>2. Calm(c, "sched", core[c].cur, core[c].then, core[c].tgt)
    BY <1>1, <1>3, <1>11, <2>1 DEF Check, At, Calm, Queues, LocksTo, Holds, CoreTo
  <2> QED
    BY <1>4, <2>2
<1>12. CASE Check(c) /\ Pending(c)
  <2>1. CoreTo(c, "pausing", core[c].cur, "sched", core[c].tgt) /\ core'[c].old = core[c].old
    BY <1>1, <1>12, PauseTo, KeepsOld DEF Check
  <2>2. /\ TakeThreads(c) /\ UNCHANGED lock /\ core[c].pc = "check"
        /\ \A d \in Cores \ {c} : Queues(d)' = Queues(d)
    BY <1>1, <1>12, Taken DEF Check, At, Queues
  <2>3. Calm(c, "pausing", core[c].cur, "sched", core[c].tgt)
    BY <1>1, <1>3, <2>1, <2>2 DEF At, Calm, LocksTo, Holds, CoreTo
  <2> QED
    BY <1>4, <2>3
<1>13. CASE RunOther(c)
  <2>1. CoreTo(c, "run", Other, core[c].then, core[c].tgt) /\ core'[c].old = core[c].old
    BY <1>1, <1>13, BecomeTo, KeepsOld DEF RunOther, CorePcs
  <2>2. Calm(c, "run", Other, core[c].then, core[c].tgt)
    BY <1>1, <1>3, <1>13, <2>1 DEF RunOther, At, Calm, Queues, LocksTo
  <2> QED
    BY <1>4, <2>2
<1>14. CASE Load(c)
  <2>1. CoreTo(c, "run", core[c].cur, core[c].then, core[c].tgt)
    BY <1>1, <1>14, LoadTo DEF Load
  <2>2. core'[c].old = None
    <3> DEFINE r == [core[c] EXCEPT !.pc = "run", !.old = None]
    <3>1. r.old = None /\ core' = [core EXCEPT ![c] = r]
      BY <1>1, <1>14 DEF Load, CoreRec
    <3> QED
      BY <1>1, <3>1
  <2>3. Calm(c, "run", core[c].cur, core[c].then, core[c].tgt)
    BY <1>1, <1>3, <1>14, <2>1, <2>2 DEF Load, At, Calm, Queues, LocksTo
  <2> QED
    BY <1>4, <2>3
<1>15. CASE \E r \in Cores : StealLook(c, r)
  <2>1. PICK r \in Cores : StealLook(c, r)
    BY <1>15
  <2>2. CoreTo(c, "steal", core[c].cur, core[c].then, r) /\ core'[c].old = core[c].old
    BY <1>1, <2>1, AimTo, KeepsOld DEF StealLook, CorePcs
  <2>3. Calm(c, "steal", core[c].cur, core[c].then, r)
    BY <1>1, <1>3, <2>1, <2>2 DEF StealLook, At, Calm, Queues, LocksTo, Holds, CoreTo
  <2> QED
    BY <1>4, <2>3
<1>16. CASE \E r \in Cores : StealHandle(c, r)
  <2>1. PICK r \in Cores : StealHandle(c, r)
    BY <1>16
  <2>2. CoreTo(c, "pausing", core[c].cur, "steal", r) /\ core'[c].old = core[c].old
    BY <1>1, <2>1, PauseAimTo, KeepsOld DEF StealHandle
  <2>3. /\ lock' = [lock EXCEPT ![r] = c] /\ core[c].pc = "sched" /\ r # c
        /\ \A d \in Cores \ {c} : Queues(d)' \subseteq Queues(d)
    BY <1>1, <2>1, Taken DEF StealHandle, At, Queues
  <2>4. Calm(c, "pausing", core[c].cur, "steal", r)
    BY <1>1, <1>3, <2>2, <2>3 DEF At, Calm, LocksTo, Holds, CoreTo
  <2> QED
    BY <1>4, <2>4
<1>17. CASE StealTake(c)
  <2>1. CoreTo(c, "sched", core[c].cur, core[c].then, core[c].tgt) /\ core'[c].old = core[c].old
    BY <1>1, <1>17, GotoTo, KeepsOld DEF StealTake, CorePcs
  <2>2. /\ core[c].pc = "steal" /\ UNCHANGED lock
        /\ \A d \in Cores \ {c} : Queues(d)' \subseteq Queues(d)
    <3>1. PICK r \in Cores : r = core[c].tgt /\ r # c
      BY <1>1, <1>17 DEF StealTake, At
    <3>2. PICK some \in SUBSET rq[r] : rq' = [rq EXCEPT ![c] = @ \cup some, ![r] = @ \ some]
      BY <1>17, <3>1 DEF StealTake
    <3>3. \A d \in Cores \ {c} : rq'[d] \subseteq rq[d]
      BY <1>1, <3>1, <3>2
    <3> QED
      BY <1>17, <3>3 DEF StealTake, At, Queues
  <2>3. Calm(c, "sched", core[c].cur, core[c].then, core[c].tgt)
    BY <1>1, <1>3, <2>1, <2>2 DEF At, Calm, LocksTo, Holds, CoreTo
  <2> QED
    BY <1>4, <2>3
<1>18. CASE StealFail(c) \/ Again(c) \/ Park(c)
  <2>1. PICK pc \in {"sched", "check", "parked"} :
          /\ Goto(c, pc)
          /\ core[c].pc \in {"steal", "sched"}
          /\ pc # "parked" => lock' = lock
          /\ pc = "parked" => lock' = [lock EXCEPT ![c] = Free]
          /\ UNCHANGED <<rq, mig>>
    BY <1>18 DEF StealFail, Again, Park, At
  <2>2. CoreTo(c, pc, core[c].cur, core[c].then, core[c].tgt) /\ core'[c].old = core[c].old
    BY <1>1, <2>1, GotoTo, KeepsOld DEF CorePcs
  <2>3. Calm(c, pc, core[c].cur, core[c].then, core[c].tgt)
    BY <1>1, <1>3, <2>1, <2>2 DEF Calm, Queues, LocksTo, Holds, CoreTo
  <2> QED
    BY <1>4, <2>3
<1>19. CASE UnblockHandle(c)
  <2>1. CoreTo(c, "pausing", core[c].cur, "run", core[c].tgt) /\ core'[c].old = core[c].old
    BY <1>1, <1>19, PauseTo, KeepsOld DEF UnblockHandle
  <2>2. /\ lock' = [lock EXCEPT ![c] = c] /\ core[c].pc = "run"
        /\ \A d \in Cores \ {c} : Queues(d)' = Queues(d)
    BY <1>1, <1>19, Taken DEF UnblockHandle, At, Queues
  <2>3. Calm(c, "pausing", core[c].cur, "run", core[c].tgt)
    BY <1>1, <1>3, <2>1, <2>2 DEF At, Calm, LocksTo, Holds, CoreTo
  <2> QED
    BY <1>4, <2>3
<1>20. CASE \E r \in Cores : ShedLook(c, r)
  <2>1. PICK r \in Cores : ShedLook(c, r)
    BY <1>20
  <2>2. /\ core[c].pc = "run" /\ r # c /\ ~At(r, "switch") /\ lock' = [lock EXCEPT ![c] = c, ![r] = c]
        /\ \A d \in Cores \ {c} : Queues(d)' = Queues(d)
    BY <1>1, <2>1, Taken DEF ShedLook, At, Queues
  <2>3. CASE Pending(c)
    <3>1. core' = [core EXCEPT ![c] = [@ EXCEPT !.pc = "pausing", !.then = "shed", !.tgt = r]]
      BY <2>1, <2>3 DEF ShedLook, MustStopFirst
    <3>2. CoreTo(c, "pausing", core[c].cur, "shed", r)
      BY <1>1, <3>1, PauseAimTo
    <3>3. core'[c].old = core[c].old
      BY <1>1, <3>1, KeepsOld
    <3>4. Calm(c, "pausing", core[c].cur, "shed", r)
      BY <1>1, <1>3, <2>2, <3>2, <3>3 DEF At, Calm, LocksTo, Holds, CoreTo
    <3> QED
      BY <1>4, <3>4
  <2>4. CASE ~Pending(c)
    <3>1. CoreTo(c, "shed", core[c].cur, core[c].then, r) /\ core'[c].old = core[c].old
      BY <1>1, <2>1, <2>4, AimTo, KeepsOld DEF ShedLook, MustStopFirst, CorePcs
    <3>2. Calm(c, "shed", core[c].cur, core[c].then, r)
      BY <1>1, <1>3, <2>2, <3>1 DEF At, Calm, LocksTo, Holds, CoreTo
    <3> QED
      BY <1>4, <3>2
  <2> QED
    BY <2>3, <2>4
<1>21. CASE Stopped(c)
  <2>1. CoreTo(c, core[c].then, core[c].cur, core[c].then, core[c].tgt) /\ core'[c].old = core[c].old
    BY <1>1, <1>21, GotoTo, KeepsOld DEF Stopped, CorePcs
  <2>2. core[c].pc = "pausing" /\ UNCHANGED <<rq, mig>> /\ lock' = Unlocked(c)
    BY <1>21 DEF Stopped, At
  <2>3. LocksTo(c)
    <3>1. CASE core[c].then = "run"
      BY <1>1, <1>3, <2>1, <2>2, <3>1 DEF LocksTo, Unlocked, Holds, CoreTo
    <3>2. CASE core[c].then = "steal"
      BY <1>1, <1>3, <2>1, <2>2, <3>2 DEF LocksTo, Unlocked, Holds, CoreTo
    <3>3. CASE core[c].then \in {"sched", "shed"}
      BY <1>1, <1>3, <2>1, <2>2, <3>3 DEF LocksTo, Unlocked, Holds, CoreTo, At
    <3> QED
      BY <1>1, <3>1, <3>2, <3>3
  <2>4. Calm(c, core[c].then, core[c].cur, core[c].then, core[c].tgt)
    BY <1>1, <2>1, <2>2, <2>3 DEF Calm, Queues, Sheds, At
  <2> QED
    BY <1>4, <2>4
<1> QED
  BY <1>5, <1>6, <1>7, <1>8, <1>9, <1>10, <1>11, <1>12, <1>13, <1>14, <1>15, <1>16, <1>17, <1>18, <1>19,
     <1>20, <1>21

(* A core that runs or leaves a thread holds no lock.                      *)
LEMMA NoLock ==
  ASSUME WaitInv, NEW c \in Cores, core[c].pc \in {"run", "switch", "load", "parked"}
  PROVE  \A x \in Cores : lock[x] # c
BY HeldByCore

LEMMA YieldWaits ==
  ASSUME WaitInv, NEW c \in Cores, NEW t \in Threads, Yield(c, t) \/ Block(c, t)
  PROVE  Holders' /\ OldIsNone' /\ Stamped'
<1>1. /\ PauseInv /\ core \in [Cores -> CoreRec] /\ rq \in [Cores -> SUBSET Threads]
      /\ core[c].pc = "run" /\ core[c].cur = t /\ core[c].old = None
      /\ UNCHANGED <<lock, mig, aux, scan>> /\ Goto(c, "switch")
  BY DEF WaitInv, PauseInv, CoreInv, TypeOK, CoreTypes, OldIsNone, At, Yield, Block, Runs, threadFrame,
         handlerVars
<1>2. CoreTo(c, "switch", t, core[c].then, core[c].tgt) /\ core'[c].old = None
  BY <1>1, GotoTo, KeepsOld DEF CorePcs
<1>3. \A d \in Cores \ {c} : core'[d] = core[d] /\ rq'[d] = rq[d] /\ mig'[d] = mig[d]
  BY <1>1, <1>2 DEF CoreTo, Yield, Block
<1>4. core'[c].pc = "switch" /\ core'[c].cur = t /\ core'[c].then = core[c].then /\ core'[c].tgt = core[c].tgt
  BY <1>2 DEF CoreTo
<1>5. /\ \A d \in Cores : t \notin rq[d] \cup mig[d]
      /\ \A d \in Cores \ {c} : core[d].cur = t => core[d].pc = "switch"
  BY <1>1, RunsAlone
<1>6. Holders'
  BY <1>1, <1>3, NoLock, HoldersKept DEF LocksTo
<1>7. OldIsNone'
  BY <1>2, <1>3 DEF WaitInv, OldIsNone, At
<1>8. \A y \in Cores \ {c} : Leaving(y)' = Leaving(y)
  BY <1>3 DEF Leaving, At
<1>9. \A z \in Cores : ~Sheds(c, z) /\ ~Sheds(c, z)'
  BY <1>1, <1>4 DEF Sheds, At
<1>10. \A x \in Cores \ {c}, u \in Threads : /\ Ahead(x, u)' => Ahead(x, u)
                                             /\ Shed(x, u)' => Shed(x, u)
  <2> TAKE x \in Cores \ {c}, u \in Threads
  <2>1. Ahead(x, u)' => Ahead(x, u)
    BY <1>3 DEF Ahead, At
  <2>2. Shed(x, u)' => Shed(x, u)
    BY <1>3, <1>9 DEF Shed, Sheds, At
  <2> QED
    BY <2>1, <2>2
<1>11. Leaving(c)' = t
  BY <1>4 DEF Leaving, At
<1>12. \A x \in Cores \ {c} : ~Ahead(x, t) /\ ~Shed(x, t)
  BY <1>5 DEF Ahead, Shed, At
<1>13. ~Shed(c, t)'
  <2> SUFFICES ASSUME NEW z \in Cores, Sheds(z, c)', t \in rq'[z] \cup mig'[z]
               PROVE  FALSE
    BY DEF Shed
  <2>1. z # c
    BY <1>9
  <2> QED
    BY <1>3, <1>5, <2>1
<1>14. Stamped'
  BY <1>8, <1>10, <1>11, <1>12, <1>13, OrderTaken DEF WaitInv
<1> QED
  BY <1>6, <1>7, <1>14

LEMMA OtherSwitchWaits ==
  ASSUME WaitInv, NEW c \in Cores, OtherSwitch(c)
  PROVE  Holders' /\ OldIsNone' /\ Stamped'
<1>1. /\ PauseInv /\ core \in [Cores -> CoreRec]
      /\ core[c].pc = "run" /\ core[c].cur = Other /\ core[c].old = None
      /\ UNCHANGED <<lock, rq, mig, aux, scan>> /\ Goto(c, "switch")
  BY DEF WaitInv, PauseInv, CoreInv, TypeOK, CoreTypes, OldIsNone, At, OtherSwitch, threadFrame, handlerVars
<1>2. CoreTo(c, "switch", Other, core[c].then, core[c].tgt) /\ core'[c].old = None
  BY <1>1, GotoTo, KeepsOld DEF CorePcs
<1>3. \A d \in Cores \ {c} : core'[d] = core[d]
  BY <1>2 DEF CoreTo
<1>4. core'[c].pc = "switch" /\ core'[c].cur = Other
  BY <1>2 DEF CoreTo
<1>5. Holders'
  BY <1>1, <1>3, NoLock, HoldersKept DEF LocksTo
<1>6. OldIsNone'
  BY <1>2, <1>3 DEF WaitInv, OldIsNone, At
<1>7. \A y \in Cores \ {c} : Leaving(y)' = Leaving(y)
  BY <1>3 DEF Leaving, At
<1>8. \A x \in Cores \ {c}, u \in Threads : /\ Ahead(x, u)' => Ahead(x, u)
                                            /\ Shed(x, u)' => Shed(x, u)
  <2> TAKE x \in Cores \ {c}, u \in Threads
  <2>1. Ahead(x, u)' => Ahead(x, u)
    BY <1>1, <1>3 DEF Ahead, At
  <2>2. \A z \in Cores : ~Sheds(c, z)'
    BY <1>4 DEF Sheds, At
  <2>3. Shed(x, u)' => Shed(x, u)
    BY <1>1, <1>3, <2>2 DEF Shed, Sheds, At
  <2> QED
    BY <2>1, <2>3
<1>9. Leaving(c)' \notin Threads
  BY <1>4, Names DEF Leaving, At
<1>10. Stamped'
  BY <1>7, <1>8, <1>9, OrderTaken DEF WaitInv
<1> QED
  BY <1>5, <1>6, <1>10

(* The scheduler takes the next thread: it waits for who leaves it.        *)
LEMMA RunNextWaits ==
  ASSUME WaitInv, NEW c \in Cores, RunNext(c)
  PROVE  Holders' /\ OldIsNone' /\ Stamped'
<1>1. PICK t \in rq[c] : rq' = [rq EXCEPT ![c] = @ \ {t}] /\ Become(c, "load", t)
  BY DEF RunNext
<1>2. /\ PauseInv /\ core \in [Cores -> CoreRec] /\ rq \in [Cores -> SUBSET Threads] /\ t \in Threads
      /\ core[c].pc = "sched" /\ core[c].old = None
      /\ lock \in [Cores -> Cores \cup Aux \cup {Free}]
      /\ lock' = [lock EXCEPT ![c] = Free] /\ UNCHANGED <<mig, aux, scan>>
  BY <1>1 DEF WaitInv, PauseInv, CoreInv, TypeOK, CoreTypes, OldIsNone, At, RunNext, threadFrame, handlerVars
<1>3. CoreTo(c, "load", t, core[c].then, core[c].tgt) /\ core'[c].old = None
  BY <1>1, <1>2, BecomeTo, KeepsOld DEF CorePcs
<1>4. \A d \in Cores \ {c} : core'[d] = core[d] /\ rq'[d] = rq[d] /\ mig'[d] = mig[d]
  BY <1>1, <1>2, <1>3 DEF CoreTo
<1>5. core'[c].pc = "load" /\ core'[c].old = None
  BY <1>3 DEF CoreTo
<1>6. Holders'
  <2>1. LocksTo(c)
    BY <1>2, HeldByCore, Names DEF LocksTo
  <2> QED
    BY <1>2, <1>4, <2>1, HoldersKept
<1>7. OldIsNone'
  BY <1>4, <1>5 DEF WaitInv, OldIsNone, At
<1>8. \A y \in Cores \ {c} : Leaving(y)' = Leaving(y)
  BY <1>4 DEF Leaving, At
<1>9. \A x \in Cores \ {c}, u \in Threads : /\ Ahead(x, u)' => Ahead(x, u)
                                            /\ Shed(x, u)' => Shed(x, u)
  <2> TAKE x \in Cores \ {c}, u \in Threads
  <2>1. Ahead(x, u)' => Ahead(x, u)
    BY <1>4 DEF Ahead, At
  <2>2. \A z \in Cores : ~Sheds(c, z)'
    BY <1>5 DEF Sheds, At
  <2>3. Shed(x, u)' => Shed(x, u)
    BY <1>4, <2>2 DEF Shed, Sheds, At
  <2> QED
    BY <2>1, <2>3
<1>10. Leaving(c)' \notin Threads
  BY <1>5, Names DEF Leaving, At
<1>11. Stamped'
  BY <1>8, <1>9, <1>10, OrderTaken DEF WaitInv
<1> QED
  BY <1>6, <1>7, <1>11

(* The fast path: the thread was in the queue that the core waited behind. *)
LEMMA EnterDirectWaits ==
  ASSUME WaitInv, NEW c \in Cores, EnterDirect(c)
  PROVE  Holders' /\ OldIsNone' /\ Stamped'
<1>1. PICK t \in rq[c] \cup {Other} :
        /\ rq' = [rq EXCEPT ![c] = @ \ {t}]
        /\ core' = [core EXCEPT ![c] = [@ EXCEPT !.pc = "load", !.cur = t, !.old = core[c].cur]]
  BY DEF EnterDirect
<1>2. /\ PauseInv /\ core \in [Cores -> CoreRec] /\ core[c] \in CoreRec /\ rq \in [Cores -> SUBSET Threads]
      /\ core[c].pc = "switch" /\ UNCHANGED <<lock, mig, aux, scan>> /\ t \in Threads \cup {None, Other, Guest}
  BY <1>1 DEF WaitInv, PauseInv, CoreInv, TypeOK, CoreTypes, At, EnterDirect, threadFrame, handlerVars
<1>3. CoreTo(c, "load", t, core[c].then, core[c].tgt)
  BY <1>1, <1>2, SwapTo
<1>4. core'[c].old = core[c].cur
  <2> DEFINE r == [core[c] EXCEPT !.pc = "load", !.cur = t, !.old = core[c].cur]
  <2>1. r.old = core[c].cur /\ core' = [core EXCEPT ![c] = r]
    BY <1>1, <1>2 DEF CoreRec
  <2> QED
    BY <1>2, <2>1
<1>5. \A d \in Cores \ {c} : core'[d] = core[d] /\ rq'[d] = rq[d] /\ mig'[d] = mig[d]
  BY <1>1, <1>2, <1>3 DEF CoreTo
<1>6. core'[c].pc = "load" /\ core'[c].cur = t
  BY <1>3 DEF CoreTo
<1>7. Holders'
  BY <1>2, <1>5, NoLock, HoldersKept DEF LocksTo
<1>8. OldIsNone'
  BY <1>5, <1>6 DEF WaitInv, OldIsNone, At
<1>9. \A y \in Cores : Leaving(y)' = Leaving(y)
  BY <1>2, <1>4, <1>5, <1>6 DEF Leaving, At
<1>10. ASSUME NEW x \in Cores, NEW u \in Threads
       PROVE  /\ Ahead(x, u)' => Ahead(x, u)
              /\ Shed(x, u)' => Shed(x, u)
  <2>1. \A z \in Cores : ~Sheds(c, z)'
    BY <1>6 DEF Sheds, At
  <2>2. CASE x = c
    <3>1. ~Shed(c, u)'
      BY <1>6 DEF Shed, At
    <3>2. Ahead(c, u)' => u \in rq[c]
      BY <1>1, <1>6, Names DEF Ahead, At
    <3> QED
      BY <1>2, <2>2, <3>1, <3>2 DEF Ahead, At
  <2>3. CASE x # c
    <3>1. Ahead(x, u)' => Ahead(x, u)
      BY <1>5, <2>3 DEF Ahead, At
    <3>2. Shed(x, u)' => Shed(x, u)
      BY <1>5, <2>1, <2>3 DEF Shed, Sheds, At
    <3> QED
      BY <3>1, <3>2
  <2> QED
    BY <2>2, <2>3
<1>11. Stamped'
  BY <1>9, <1>10, OrderKept DEF WaitInv
<1> QED
  BY <1>7, <1>8, <1>11

(* Threads that were being shed arrive.                                    *)
LEMMA ShedMoveWaits ==
  ASSUME WaitInv, NEW c \in Cores, ShedMove(c)
  PROVE  Holders' /\ OldIsNone' /\ Stamped'
<1>1. /\ PauseInv /\ core \in [Cores -> CoreRec] /\ core[c].tgt \in Cores \ {c}
      /\ rq \in [Cores -> SUBSET Threads] /\ lock \in [Cores -> Cores \cup Aux \cup {Free}]
      /\ core[c].pc = "shed" /\ core[c].old = None
      /\ UNCHANGED <<mig, aux, scan>> /\ Goto(c, "run")
  BY DEF WaitInv, PauseInv, CoreInv, TypeOK, CoreTypes, CoreRec, Locked, OldIsNone, At, ShedMove,
         threadFrame, handlerVars
<1>2. PICK r \in Cores : r = core[c].tgt /\ r # c
  BY <1>1
<1>3. PICK some \in SUBSET rq[c] : rq' = [rq EXCEPT ![c] = @ \ some, ![r] = @ \cup some]
  BY <1>2 DEF ShedMove
<1>4. CoreTo(c, "run", core[c].cur, core[c].then, core[c].tgt) /\ core'[c].old = None
  BY <1>1, GotoTo, KeepsOld DEF CorePcs
<1>5. /\ \A d \in Cores \ {c} : core'[d] = core[d]
      /\ core'[c].pc = "run"
      /\ \A d \in Cores \ {c, r} : rq'[d] = rq[d]
      /\ rq'[r] \subseteq rq[r] \cup rq[c] /\ mig' = mig
  BY <1>1, <1>2, <1>3, <1>4 DEF CoreTo
<1>6. Holders'
  <2>1. lock' = [lock EXCEPT ![c] = Free, ![r] = Free]
    BY <1>2 DEF ShedMove
  <2>2. \A x \in Cores : lock[x] = c => x = c \/ x = r
    BY <1>1, <1>2, HeldByCore
  <2>3. \A x \in Cores : lock'[x] # c /\ lock'[x] \in {lock[x], Free}
    BY <1>1, <1>2, <2>1, <2>2, Names
  <2> QED
    BY <1>1, <1>5, <2>3, HoldersKept DEF LocksTo
<1>7. OldIsNone'
  BY <1>4, <1>5 DEF WaitInv, OldIsNone, At
<1>8. \A y \in Cores : Leaving(y)' \in Threads => Leaving(y)' = Leaving(y)
  <2> TAKE y \in Cores
  <2>1. CASE y = c
    BY <1>5, <2>1, Names DEF Leaving, At
  <2>2. CASE y # c
    BY <1>5, <2>2 DEF Leaving, At
  <2> QED
    BY <2>1, <2>2
<1>9. ASSUME NEW x \in Cores, NEW u \in Threads, Ahead(x, u)'
      PROVE  Ahead(x, u) \/ Shed(x, u)
  <2>1. x # c /\ core'[x] = core[x]
    BY <1>5, <1>9 DEF Ahead, At
  <2>2. CASE x = r /\ At(x, "switch")
    <3>1. Sheds(c, r)
      BY <1>1, <1>2 DEF Sheds, At
    <3>2. u \in rq[r] \cup mig[r] \/ u \in rq[c]
      BY <1>5, <1>9, <2>1, <2>2 DEF Ahead, At
    <3> QED
      BY <2>2, <3>1, <3>2 DEF Ahead, Shed
  <2>3. CASE x # r \/ ~At(x, "switch")
    BY <1>5, <1>9, <2>1, <2>3 DEF Ahead, At
  <2> QED
    BY <2>2, <2>3
<1>10. ASSUME NEW x \in Cores, NEW u \in Threads, Shed(x, u)'
       PROVE  Shed(x, u)
  <2>1. x # c /\ core'[x] = core[x] /\ At(x, "switch")
    BY <1>5, <1>10 DEF Shed, At
  <2>2. PICK z \in Cores : Sheds(z, x)' /\ u \in rq'[z] \cup mig'[z]
    BY <1>10 DEF Shed
  <2>3. z # c /\ core'[z] = core[z] /\ Sheds(z, x)
    BY <1>5, <2>2 DEF Sheds, At
  <2>4. z # r
    <3>1. lock[r] = c /\ lock[z] = z
      BY <1>1, <1>2, <2>3 DEF PauseInv, CoreInv, Locked, Sheds, At
    <3> QED
      BY <2>3, <3>1
  <2> QED
    BY <1>5, <2>1, <2>2, <2>3, <2>4 DEF Shed
<1>11. Stamped'
  BY <1>8, <1>9, <1>10, OrderKept DEF WaitInv
<1> QED
  BY <1>6, <1>7, <1>11

LEMMA CoreWaits ==
  ASSUME WaitInv, PromptSwitch, NEW c \in Cores, CoreStep(c)
  PROVE  WaitInv'
<1>1. PauseInv'
  BY CoreStepInv DEF WaitInv
<1>2. Holders' /\ OldIsNone' /\ Stamped'
  <2>1. CASE ThreadStep(c)
    BY <2>1, CalmSteps, YieldWaits, OtherSwitchWaits DEF ThreadStep
  <2>2. CASE ScheduleStep(c)
    BY <2>2, CalmSteps, EnterDirectWaits, RunNextWaits DEF ScheduleStep
  <2>3. CASE UnblockStep(c)
    BY <2>3, CalmSteps, ShedMoveWaits DEF UnblockStep
  <2> QED
    BY <2>1, <2>2, <2>3 DEF CoreStep
<1> QED
  BY <1>1, <1>2 DEF WaitInv

(* A handler moves no thread into a queue that a core has to wait behind.  *)
LEMMA HandlerWaits ==
  ASSUME WaitInv, core' = core, Holders', \A d \in Cores : rq'[d] \cup mig'[d] \subseteq rq[d] \cup mig[d]
  PROVE  Holders' /\ OldIsNone' /\ Stamped'
<1>1. OldIsNone'
  BY DEF WaitInv, OldIsNone, At
<1>2. \A y \in Cores : Leaving(y)' = Leaving(y)
  BY DEF Leaving, At
<1>3. \A x \in Cores, t \in Threads : Ahead(x, t)' => Ahead(x, t)
  BY DEF Ahead, At
<1>4. \A x \in Cores, t \in Threads : Shed(x, t)' => Shed(x, t)
  BY DEF Shed, Sheds, At
<1>5. Stamped'
  BY <1>2, <1>3, <1>4, OrderKept DEF WaitInv
<1> QED
  BY <1>1, <1>5

LEMMA AuxWaits ==
  ASSUME WaitInv, NEW a \in Aux, AuxStep(a)
  PROVE  Holders' /\ OldIsNone' /\ Stamped'
<1>1. /\ PauseInv /\ TypeOK /\ Holders
      /\ aux \in [Aux -> AuxPcs] /\ lock \in [Cores -> Cores \cup Aux \cup {Free}]
      /\ mig \in [Cores -> SUBSET Threads]
  BY DEF WaitInv, PauseInv, CoreInv, TypeOK, CoreTypes
<1>2. core' = core
  BY AuxFrame
<1>3. CASE AuxHandle(a)
  <2>1. /\ aux[a] = "scan" /\ scan.i \in Cores /\ scan' = scan /\ lock[scan.i] = Free
        /\ lock' = [lock EXCEPT ![scan.i] = a] /\ aux' = [aux EXCEPT ![a] = "pausing"]
    BY <1>3 DEF AuxHandle, Takeable, SetAux, scanFrame
  <2>2. \A d \in Cores : rq'[d] \cup mig'[d] \subseteq rq[d] \cup mig[d]
    BY <1>1, <1>3, <2>1, Taken DEF AuxHandle
  <2>3. Holders'
    <3>1. \A b \in Aux \ {a} : aux[b] # "pausing"
      BY <1>1, <2>1, OnlyPauser
    <3>2. \A x \in Cores : lock[x] \in Aux => lock[x] \in Aux \ {a}
      BY <1>1, <2>1 DEF Holders
    <3>3. \A x \in Cores : lock[x] \notin Aux
      BY <1>1, <3>1, <3>2 DEF Holders
    <3>4. \A x \in Cores : lock'[x] \in Aux => lock'[x] = a /\ x = scan.i
      BY <1>1, <2>1, <3>3
    <3>5. \A x \in Cores : lock'[x] \in Cores => lock'[x] = lock[x]
      BY <1>1, <2>1, Names
    <3> QED
      BY <1>1, <1>2, <2>1, <3>4, <3>5 DEF Holders, Holds, At
  <2> QED
    BY <1>2, <2>2, <2>3, HandlerWaits
<1>4. CASE AuxHandled(a)
  <2>1. /\ aux[a] = "pausing" /\ UNCHANGED rq
        /\ lock' = [lock EXCEPT ![scan.i] = Free] /\ aux' = [aux EXCEPT ![a] = "scan"]
        /\ mig' = [mig EXCEPT ![scan.i] = {}]
    BY <1>4 DEF AuxHandled, Collect, SetAux
  <2>2. \A d \in Cores : rq'[d] \cup mig'[d] \subseteq rq[d] \cup mig[d]
    BY <1>1, <2>1
  <2>3. Holders'
    <3>1. \A b \in Aux \ {a} : aux[b] # "pausing"
      BY <1>1, <2>1, OnlyPauser
    <3>2. \A x \in Cores : lock[x] \in Aux => x = scan.i
      BY <1>1 DEF Holders
    <3>3. \A x \in Cores : lock'[x] \notin Aux /\ (lock'[x] \in Cores => lock'[x] = lock[x])
      BY <1>1, <2>1, <3>2, Names
    <3> QED
      BY <1>1, <1>2, <3>3 DEF Holders, Holds, At
  <2> QED
    BY <1>2, <2>2, <2>3, HandlerWaits
<1>5. CASE ~AuxHandle(a) /\ ~AuxHandled(a)
  <2>1. UNCHANGED <<lock, rq>> /\ aux[a] # "pausing"
    BY <1>5 DEF AuxStep, AuxStart, AuxWrite, AuxSeeRequest, AuxCollect, AuxPostpone, AuxPassDone,
                AuxPauseDone, AuxRelease, AuxStop, threadVars, scanFrame
  <2>2. \A d \in Cores : mig'[d] \subseteq mig[d]
    <3>1. CASE AuxCollect(a)
      BY <1>1, <3>1 DEF AuxCollect, Collect
    <3>2. CASE ~AuxCollect(a)
      BY <1>5, <3>2 DEF AuxStep, AuxStart, AuxWrite, AuxSeeRequest, AuxPostpone, AuxPassDone,
                  AuxPauseDone, AuxRelease, AuxStop, threadVars
    <3> QED
      BY <3>1, <3>2
  <2>3. \A b \in Aux \ {a} : aux'[b] = aux[b]
    BY <1>1, <1>5 DEF AuxStep, AuxStart, AuxWrite, AuxSeeRequest, AuxCollect, AuxPostpone, AuxPassDone,
                AuxPauseDone, AuxRelease, AuxStop, SetAux, scanFrame
  <2>4. ASSUME NEW b \in Aux, aux[b] = "pausing"
        PROVE  scan' = scan
    <3>1. b # a
      BY <2>1, <2>4
    <3>2. aux[a] # "scan" /\ ~AuxSeeRequest(a)
      <4>1. \A e \in Aux \ {b} : aux[e] \notin {"scan", "pausing", "scanned"}
        BY <1>1, <2>4, OnlyPauser
      <4>2. st[b].pause /\ \A e \in Aux : st[e].pause => e = Pauser
        BY <1>1, <2>4 DEF PauseInv, Handshake
      <4>3. ~st[a].pause
        BY <3>1, <4>2
      <4> QED
        BY <3>1, <4>1, <4>3 DEF AuxSeeRequest
    <3> QED
      BY <1>5, <3>2 DEF AuxStep, AuxStart, AuxWrite, AuxCollect, AuxPostpone, AuxPassDone,
                  AuxPauseDone, AuxRelease, AuxStop
  <2>5. Holders'
    <3>1. \A x \in Cores : lock[x] \in Aux => /\ aux[lock[x]] = "pausing" /\ scan.i = x
                                              /\ aux'[lock[x]] = "pausing" /\ scan' = scan
      BY <1>1, <2>1, <2>3, <2>4 DEF Holders
    <3> QED
      BY <1>1, <1>2, <2>1, <3>1 DEF Holders, Holds, At
  <2> QED
    BY <1>2, <2>1, <2>2, <2>5, HandlerWaits
<1> QED
  BY <1>3, <1>4, <1>5

LEMMA WaitStep ==
  ASSUME WaitInv, PromptSwitch, [Next]_vars
  PROVE  WaitInv'
<1>1. PauseInv'
  BY StepInv DEF WaitInv
<1>2. CASE \E c \in Cores : CoreStep(c)
  BY <1>2, CoreWaits
<1>3. CASE \E a \in Aux : AuxStep(a)
  BY <1>1, <1>3, AuxWaits DEF WaitInv
<1>4. CASE Summon \/ MainStep \/ UNCHANGED vars
  <2>1. UNCHANGED <<core, lock, rq, mig, aux, scan>>
    BY <1>4, MainFrame DEF mainFrame, vars, threadVars, handlerVars
  <2>2. Holders'
    BY <2>1 DEF WaitInv, Holders, Holds, At
  <2> QED
    BY <1>1, <2>1, <2>2, HandlerWaits DEF WaitInv
<1> QED
  BY <1>2, <1>3, <1>4 DEF Next

LEMMA InitWaits ==
  ASSUME Init
  PROVE  WaitInv
<1>1. PauseInv
  BY InitInv
<1>2. \A c \in Cores : core[c].pc = "parked" /\ core[c].old = None /\ lock[c] = Free
  BY DEF Init, Idle
<1>3. Holders /\ OldIsNone
  BY <1>2, Names DEF Holders, OldIsNone
<1>4. Stamped
  <2> DEFINE rank == [c \in Cores |-> 0]
  <2>1. rank \in [Cores -> Nat] /\ \A c \in Cores : rank[c] < 1
    OBVIOUS
  <2>2. \A c \in Cores : Leaving(c) = None
    BY <1>2 DEF Leaving, At
  <2>3. Ordered(rank)
    BY <2>2, Names DEF Ordered
  <2> HIDE DEF rank
  <2> QED
    BY <2>1, <2>3 DEF Stamped
<1> QED
  BY <1>1, <1>3, <1>4 DEF WaitInv

(* The core that has the lowest number of a set of cores.                  *)
LEMMA LowestNumber ==
  ASSUME NEW S, S \subseteq Cores, S # {}, NEW rank \in [Cores -> Nat]
  PROVE  \E x \in S : \A y \in S : ~(rank[y] < rank[x])
<1> DEFINE R == {rank[x] : x \in S}
<1>1. R \subseteq Nat /\ R # {}
  OBVIOUS
<1>2. PICK m \in R : \A k \in R : ~(<<k, m>> \in OpToRel(<, Nat))
  BY <1>1, NatLessThanWellFounded, WFMin, Zenon
<1>3. \A k \in R : ~(k < m)
  <2> SUFFICES ASSUME NEW k \in R
               PROVE  ~(k < m)
    OBVIOUS
  <2>1. ~(k < m)
    BY <1>1, <1>2 DEF OpToRel
  <2> QED
    BY <2>1
<1> QED
  BY <1>3

(* The cores and handlers that may wait for one another; of a set of them, *)
(* one waits for none.                                                     *)
Stuck ==
  {x \in Cores : At(x, "pausing") \/ At(x, "load") \/ At(x, "switch")} \cup {a \in Aux : aux[a] = "pausing"}
OneIsFree(S) ==
  \E x \in S : \A y \in S :
    /\ y \in Cores => ~WaitsFor(x, y)
    /\ x \in Cores /\ At(x, "switch") => lock[x] # y

LEMMA FirstIsFree ==
  ASSUME WaitInv, NEW S \in SUBSET Stuck, S # {}
  PROVE  OneIsFree(S)
<1>1. /\ S \subseteq Cores \cup Aux
      /\ \A x \in S \cap Cores : core[x].pc \in {"pausing", "load", "switch"}
      /\ \A a \in S \cap Aux : aux[a] = "pausing"
  BY Names DEF Stuck, At
<1>2. /\ PauseInv /\ Holders /\ OldIsNone
      /\ mig \in [Cores -> SUBSET Threads] /\ running \subseteq Threads
      /\ \A c \in Cores : mig[c] \subseteq OwnedThreads
  BY DEF WaitInv, PauseInv, CoreInv, TypeOK, CoreTypes, Gathered
<1>3. PICK rank \in [Cores -> Nat], next \in Nat : Ordered(rank)
  BY DEF WaitInv, Stamped
<1> DEFINE L == {x \in S \cap Cores : core[x].pc \in {"load", "switch"}}
<1>4. \A x, y \in S : y \in Cores /\ WaitsFor(x, y) => Leaving(y) \in Threads /\ y \in L
  <2> SUFFICES ASSUME NEW x \in S, NEW y \in S, y \in Cores, WaitsFor(x, y)
               PROVE  Leaving(y) \in Threads /\ y \in L
    OBVIOUS
  <2>1. Leaving(y) \in Threads
    BY <1>2 DEF WaitsFor
  <2>2. Leaving(y) # None
    BY <2>1, Names
  <2>3. core[y].pc \in {"load", "switch"}
    BY <2>2 DEF Leaving, At
  <2> QED
    BY <2>1, <2>3 DEF L
<1> HIDE DEF L
<1>5. CASE L = {}
  <2>1. PICK x \in S : TRUE
    OBVIOUS
  <2>2. x \in Cores => ~At(x, "switch")
    BY <1>5 DEF L, At
  <2> QED
    BY <1>4, <1>5, <2>1, <2>2 DEF OneIsFree
<1>6. CASE L # {}
  <2>1. L \subseteq Cores /\ L \subseteq S
    BY DEF L
  <2>2. PICK x \in L : \A y \in L : ~(rank[y] < rank[x])
    BY <1>6, <2>1, LowestNumber
  <2>3. x \in Cores /\ x \in S /\ x \notin Aux /\ core[x].pc \in {"load", "switch"}
    BY <2>1, Names DEF L
  <2>4. CASE core[x].pc = "load"
    <3>1. ASSUME NEW y \in S, y \in Cores, WaitsFor(x, y)
          PROVE  FALSE
      <4>1. y # x /\ Leaving(y) = core[x].cur /\ Leaving(y) \in Threads /\ y \in L
        BY <1>4, <2>3, <2>4, <3>1 DEF WaitsFor, At
      <4>2. Ahead(x, Leaving(y))
        BY <2>4, <4>1 DEF Ahead, At
      <4> QED
        BY <1>3, <2>2, <2>3, <3>1, <4>1, <4>2 DEF Ordered
    <3> QED
      BY <2>3, <2>4, <3>1 DEF OneIsFree, At
  <2>5. CASE core[x].pc = "switch" /\ lock[x] \notin S
    <3>1. \A y \in S : y \in Cores => ~WaitsFor(x, y)
      BY <2>3, <2>5 DEF WaitsFor, At
    <3> QED
      BY <2>3, <2>5, <3>1 DEF OneIsFree
  <2>6. CASE core[x].pc = "switch" /\ lock[x] \in S
    <3> DEFINE h == lock[x]
    <3>1. /\ h \in S /\ (h \in Cores => Holds(h, x)) /\ (h \in Aux => aux[h] = "pausing" /\ scan.i = x)
      BY <1>2, <2>3, <2>6 DEF Holders
    <3> HIDE DEF h
    <3>2. h \in Cores => /\ h # x /\ At(h, "pausing") /\ core[h].tgt = x
                         /\ core[h].then \in {"steal", "shed"}
      BY <1>1, <2>6, <3>1 DEF Holds, At
    <3>3. ASSUME NEW y \in S, y \in Cores, WaitsFor(h, y)
          PROVE  FALSE
      <4>1. Leaving(y) \in Threads /\ y \in L
        BY <1>4, <3>1, <3>3
      <4>2. CASE Leaving(y) \in mig[x] /\ Clear(x)
        <5>1. y # x
          <6>1. core[x].cur \notin mig[x]
            BY <1>2, <2>3, <4>2 DEF Clear
          <6> QED
            BY <2>6, <4>2, <6>1 DEF Leaving, At
        <5>2. Ahead(x, Leaving(y))
          BY <2>6, <4>2 DEF Ahead, At
        <5> QED
          BY <1>3, <2>2, <2>3, <3>3, <4>1, <5>1, <5>2 DEF Ordered
      <4>3. CASE h \in Cores /\ core[h].then = "shed"
        <5>1. Sheds(h, x) /\ Leaving(y) \in mig[h]
          BY <3>2, <3>3, <4>3, Names DEF WaitsFor, Victim, Sheds, At
        <5>2. Shed(x, Leaving(y))
          BY <2>6, <4>3, <5>1 DEF Shed, At
        <5> QED
          BY <1>3, <2>2, <2>3, <3>3, <4>1, <5>2 DEF Ordered
      <4>4. CASE h \in Cores /\ core[h].then = "steal"
        <5>1. Victim(h) = x /\ At(h, "pausing")
          BY <3>2, <4>4 DEF Victim
        <5>2. Leaving(y) \in mig[x]
          BY <3>3, <4>4, <5>1, Names DEF WaitsFor, At
        <5>3. Clear(x)
          BY <1>2, <4>4, <5>1, VictimLocked
        <5> QED
          BY <4>2, <5>2, <5>3
      <4>5. CASE h \in Aux
        <5>1. Leaving(y) \in mig[x]
          BY <3>1, <3>3, <4>5, Names DEF WaitsFor
        <5>2. Clear(x)
          BY <1>2, <3>1, <4>5 DEF PauseInv, CoreInv, ScanClear
        <5> QED
          BY <4>2, <5>1, <5>2
      <4> QED
        BY <1>1, <3>1, <3>2, <4>3, <4>4, <4>5
    <3>4. h \in Cores => ~At(h, "switch")
      BY <3>2 DEF At
    <3> QED
      BY <3>1, <3>3, <3>4 DEF OneIsFree
  <2> QED
    BY <2>3, <2>4, <2>5, <2>6
<1> QED
  BY <1>5, <1>6

(* Nobody waits in a circle, if a core that has made its thread ready gets *)
(* its own lock before that thread was stolen and shed back to it: of all  *)
(* cores that leave a thread, the one that began first waits for none of   *)
(* the others, and who has its lock waits for none that began later.       *)
THEOREM WaitsEnd ==
  ASSUME PromptSwitch
  PROVE  Spec => []NoCircularWait
<1>1. Init => WaitInv
  BY InitWaits
<1>2. WaitInv /\ [Next]_vars => WaitInv'
  BY WaitStep
<1>3. WaitInv => NoCircularWait
  <2>1. NoCircularWait <=> \A S \in (SUBSET Stuck) \ {{}} : OneIsFree(S)
    BY Zenon DEF NoCircularWait, Stuck, OneIsFree
  <2>2. WaitInv => \A S \in SUBSET Stuck : S # {} => OneIsFree(S)
    BY FirstIsFree
  <2> QED
    BY <2>1, <2>2, Zenon
<1> QED
  BY <1>1, <1>2, <1>3, PTL DEF Spec
===========================================================================
