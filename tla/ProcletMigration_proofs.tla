----------------------- MODULE ProcletMigration_proofs ----------------------
(***************************************************************************)
(* Proofs about ProcletMigration, for any sets of nodes, threads and       *)
(* auxiliary connections and any number of rounds.                         *)
(*                                                                         *)
(* At most one round is on at a time: the node that has the proclet starts *)
(* it, and until its last messages to the controller are read the          *)
(* destination is acquired and starts none.  The invariant says what holds *)
(* between rounds (Resting) and, for the source and the destination of a   *)
(* round, what they still have to say to each other (Talk), what has been  *)
(* loaded of the heap (Loading), where the proclet is (Where) and where    *)
(* its threads are (Seated).                                               *)
(***************************************************************************)
EXTENDS ProcletMigration, FiniteSetTheorems, SequenceTheorems, TLAPS

---------------------------------------------------------------------------
(* The inductive invariant.                                                *)

ThreadPcs == {"out", "attaching", "attached", "guard", "free", "relock", "towait", "parked"}
SrcPcs == {"idle", "acquire", "tasks", "mark", "sync", "syncing", "pause", "lock", "copy",
           "state", "location", "clean", "approval"}
DstPcs == {"idle", "populate", "load", "count", "spin", "blocked", "insert", "ready",
           "signal", "approve"}
ThreadRec == [node : Nodes \cup {None}, pc : ThreadPcs, paused : BOOLEAN]
SrcRec == [pc : SrcPcs, dest : Nodes \cup {None}, sent : SUBSET Parts, waitFor : SUBSET Threads]
DstRec == [pc : DstPcs, from : Nodes \cup {None}]
AuxRec == [pc : {"idle", "settle", "payload"}, from : Nodes \cup {None}]
CtlMsg == [kind : {"release", "location"}, node : Nodes]
Pairs == Nodes \X Nodes

Types ==
  /\ status \in [Nodes -> Status]
  /\ heap \in [Nodes -> SUBSET Parts]
  /\ rcu \in [Nodes -> SUBSET Threads]
  /\ loadCnt \in [Nodes -> Int]
  /\ th \in [Threads -> ThreadRec]
  /\ src \in [Nodes -> SrcRec]
  /\ dst \in [Nodes -> DstRec]
  /\ auxh \in [Nodes -> [AuxConns -> AuxRec]]
  /\ chan = [p \in Pairs |-> chan[p]]
  /\ back = [p \in Pairs |-> back[p]]
  /\ auxchan = [p \in Pairs |-> [a \in AuxConns |-> auxchan[p][a]]]
  /\ acquired \subseteq Nodes
  /\ loc \in Nodes
  /\ toCtl \in [Nodes -> Seq(CtlMsg)]
  /\ rounds \in 0..MaxRounds

(* The stages of a round.                                                  *)
Busy(n) == src[n].pc # "idle"
Paired(s, d) == src[s].pc \notin {"idle", "acquire"} /\ src[s].dest = d
Skipped(s) == src[s].pc = "approval" /\ src[s].sent = {}
Staying(s) == src[s].pc \in {"acquire", "tasks", "mark"} \/ Skipped(s)
Leaving(s) == src[s].pc \in {"sync", "syncing", "pause", "lock", "copy", "state"}
Left(s) == \/ src[s].pc \in {"location", "clean"}
           \/ src[s].pc = "approval" /\ src[s].sent # {}
Announced(s) == \/ src[s].pc \in {"mark", "sync", "syncing", "pause", "lock"}
                \/ src[s].pc = "copy" /\ Main \notin src[s].sent
Copied(s) == \/ src[s].pc = "copy" /\ Main \in src[s].sent
             \/ src[s].pc = "state"

SentSoFar ==
  \A s \in Nodes :
    /\ src[s].pc \in {"idle", "acquire", "tasks", "mark", "sync", "syncing", "pause", "lock"} =>
         src[s].sent = {}
    /\ src[s].pc = "copy" => src[s].sent # Parts
    /\ src[s].pc \in {"state", "location", "clean"} => src[s].sent = Parts
    /\ src[s].pc = "approval" => src[s].sent \in {{}, Parts}

(* A node is acquired by one round, or one release of it is on its way.    *)
Releases(m, n, i) == i \in DOMAIN toCtl[n] /\ toCtl[n][i] = [kind |-> "release", node |-> m]
Acquired ==
  /\ \A m, n \in Nodes : Busy(m) /\ Busy(n) => m = n
  /\ \A n \in Nodes : Busy(n) => n \in acquired /\ \A m \in Nodes, i \in Nat : ~Releases(n, m, i)
  /\ \A s, d \in Nodes : Paired(s, d) =>
       d # s /\ d \in acquired /\ \A m \in Nodes, i \in Nat : ~Releases(d, m, i)
  /\ \A s \in Nodes : src[s].pc \notin {"idle", "acquire"} => src[s].dest \in Nodes
  /\ \A l, m \in Nodes, i \in Nat : Releases(l, m, i) =>
       /\ l \in acquired
       /\ \A n \in Nodes, j \in Nat : Releases(l, n, j) => n = m /\ j = i

(* What is still to be read on the main connection of a round.             *)
Travelling == {t \in Threads : th[t].node = None /\ th[t].pc # "out"}
TasksMsg == [kind |-> "tasks"]
SkipMsg == [kind |-> "skip"]
CopyMsg == [kind |-> "copy", live |-> TRUE, rcu |-> Holding]
BlockedMsg == [kind |-> "blocked", ths |-> Carry({t \in Travelling : th[t].pc = "parked"})]
ReadyMsg == [kind |-> "ready", ths |-> Carry({t \in Travelling : th[t].pc # "parked"})]

Told(s, d, pcs, msgs) ==
  dst[d].pc \in pcs /\ chan[<<s, d>>] = msgs /\ back[<<d, s>>] = <<>>
Over(s, d) == dst[d].pc = "idle" /\ chan[<<s, d>>] = <<>> /\ back[<<d, s>>] = <<"approve">>

Talk(s, d) ==
  /\ src[s].pc = "tasks" => Told(s, d, {"idle"}, <<>>)
  /\ Announced(s) =>
       \/ Told(s, d, {"idle"}, <<TasksMsg>>)
       \/ Told(s, d, {"populate", "load"}, <<>>)
  /\ Skipped(s) =>
       \/ Told(s, d, {"idle"}, <<TasksMsg, SkipMsg>>)
       \/ Told(s, d, {"populate", "load"}, <<SkipMsg>>)
       \/ Told(s, d, {"approve"}, <<>>)
       \/ Over(s, d)
  /\ Copied(s) =>
       \/ Told(s, d, {"idle"}, <<TasksMsg, CopyMsg>>)
       \/ Told(s, d, {"populate", "load"}, <<CopyMsg>>)
       \/ Told(s, d, {"count", "spin", "blocked"}, <<>>)
  /\ Left(s) =>
       \/ Told(s, d, {"idle"}, <<TasksMsg, CopyMsg, BlockedMsg, ReadyMsg>>)
       \/ Told(s, d, {"populate", "load"}, <<CopyMsg, BlockedMsg, ReadyMsg>>)
       \/ Told(s, d, {"count", "spin", "blocked"}, <<BlockedMsg, ReadyMsg>>)
       \/ Told(s, d, {"insert", "ready"}, <<ReadyMsg>>)
       \/ Told(s, d, {"signal", "approve"}, <<>>)
       \/ Over(s, d)

(* What the destination has of the heap: some parts, or all.               *)
Loaded(s, d) ==
  {a \in AuxConns : a \in src[s].sent /\ auxchan[<<s, d>>][a] = <<>>}
    \cup {p \in {Main} : dst[d].pc \in {"count", "spin"}}
Finished(s, d) == Left(s) /\ (dst[d].pc = "approve" \/ back[<<d, s>>] # <<>>)
Whole(s, d) == dst[d].pc \in {"blocked", "insert", "ready", "signal"} \/ Finished(s, d)

Loading(s, d) ==
  /\ \A a \in AuxConns :
       auxchan[<<s, d>>][a] # <<>> => a \in src[s].sent /\ auxchan[<<s, d>>][a] = <<CopyMsg>>
  /\ Whole(s, d) =>
       /\ loadCnt[d] = 0 /\ heap[d] = Parts /\ rcu[d] = Holding
       /\ status[d] \notin {"cleaning", "depopulating"}
       /\ AuxConns \subseteq src[s].sent
       /\ \A a \in AuxConns : auxchan[<<s, d>>][a] = <<>>
  /\ ~Whole(s, d) =>
       /\ loadCnt[d] = (IF dst[d].pc = "spin" THEN NumChunks ELSE 0) - Cardinality(Loaded(s, d))
       /\ Loaded(s, d) \subseteq heap[d]
       /\ HeaderPart \in Loaded(s, d) => rcu[d] = Holding
       /\ Loaded(s, d) # {} \/ (\E a \in AuxConns : auxh[d][a].pc = "payload") =>
            status[d] \notin {"cleaning", "depopulating"}

(* Nothing else is on its way.                                             *)
Quiet(s, d) ==
  /\ \A x, y \in Nodes : x # s \/ y # d =>
       /\ chan[<<x, y>>] = <<>> /\ back[<<y, x>>] = <<>>
       /\ \A a \in AuxConns : auxchan[<<x, y>>][a] = <<>>
  /\ \A n \in Nodes : n # d =>
       /\ dst[n].pc = "idle" /\ loadCnt[n] = 0
       /\ \A a \in AuxConns : auxh[n][a].pc = "idle"
  /\ dst[d].pc # "idle" => dst[d].from = s
  /\ \A a \in AuxConns : auxh[d][a].pc # "idle" =>
       auxh[d][a].from = s /\ auxchan[<<s, d>>][a] # <<>>

(* Where the proclet is: at the source, on its way, or at the destination. *)
Landed(s, d) == dst[d].pc \in {"ready", "signal"} \/ Finished(s, d)
Where(s, d) ==
  /\ status[s] = "present" <=> Staying(s)
  /\ status[s] = "migrating" <=> Leaving(s) \/ src[s].pc \in {"location", "clean"}
  /\ status[d] = "present" <=> Landed(s, d)
  /\ status[d] # "migrating"
  /\ \A n \in Nodes \ {s, d} : status[n] \notin {"present", "migrating"}
  /\ Staying(s) \/ Leaving(s) => heap[s] = Parts /\ rcu[s] = Holding

(* Where its threads are.                                                  *)
Stopped(s) == src[s].pc \in {"lock", "copy", "state"}
Seated(s, d) ==
  /\ \A t \in Threads : th[t].node \in {s, d, None}
  /\ \A t \in Threads : th[t].node = s =>
       /\ Staying(s) \/ Leaving(s)
       /\ th[t].pc # "out"
       /\ th[t].paused => Stopped(s)
       /\ Stopped(s) => \/ th[t].paused /\ th[t].pc \in {"free", "relock", "towait"}
                        \/ ~th[t].paused /\ th[t].pc = "parked"
       /\ th[t].pc = "parked" => Leaving(s)
       /\ th[t].pc = "guard" =>
            \/ Staying(s) \/ src[s].pc = "sync"
            \/ src[s].pc = "syncing" /\ t \in src[s].waitFor
  /\ \A t \in Threads : th[t].node = d =>
       /\ dst[d].pc = "insert" \/ Landed(s, d)
       /\ th[t].pc # "out" /\ ~th[t].paused
       /\ dst[d].pc = "insert" => th[t].pc = "parked"
       /\ th[t].pc = "parked" => dst[d].pc \in {"insert", "ready", "signal"}
  /\ \A t \in Threads : th[t].node = None =>
       \/ th[t] = OutThread
       \/ /\ th[t].pc = "parked" /\ Left(s)
          /\ ~Landed(s, d) /\ dst[d].pc # "insert"
       \/ /\ th[t].pc \in {"free", "relock", "towait"} /\ Left(s)
          /\ ~Landed(s, d) \/ dst[d].pc = "ready"

Round(s, d) == Talk(s, d) /\ Loading(s, d) /\ Quiet(s, d) /\ Where(s, d) /\ Seated(s, d)

(* Between rounds, or before a destination is found: the proclet is at one *)
(* node with all its threads, and nothing is on its way.                   *)
Resting ==
  /\ \A x, y \in Nodes :
       /\ chan[<<x, y>>] = <<>> /\ back[<<y, x>>] = <<>>
       /\ \A a \in AuxConns : auxchan[<<x, y>>][a] = <<>>
  /\ \A n \in Nodes :
       /\ dst[n].pc = "idle" /\ loadCnt[n] = 0
       /\ \A a \in AuxConns : auxh[n][a].pc = "idle"
  /\ \A n \in Nodes : Busy(n) => status[n] = "present"
  /\ \A n \in Nodes : status[n] # "migrating"
  /\ \A m, n \in Nodes : status[m] = "present" /\ status[n] = "present" => m = n
  /\ \A n \in Nodes : status[n] = "present" => heap[n] = Parts /\ rcu[n] = Holding
  /\ \A t \in Threads :
       \/ th[t] = OutThread
       \/ /\ th[t].node \in Nodes /\ status[th[t].node] = "present"
          /\ th[t].pc \notin {"out", "parked"} /\ ~th[t].paused

MigrationInv ==
  /\ Types /\ SentSoFar /\ Acquired
  /\ \A s, d \in Nodes : Paired(s, d) => Round(s, d)
  /\ (\A s, d \in Nodes : ~Paired(s, d)) => Resting

---------------------------------------------------------------------------
(* Facts about the constants, the stages and the messages.                 *)

LEMMA NoNode == None \notin Nodes /\ Main \notin AuxConns /\ HeaderPart \in AuxConns
BY ConstantsOK

LEMMA PartsFacts ==
  /\ AuxConns \subseteq Parts /\ Main \in Parts /\ Parts # {}
  /\ IsFiniteSet(Parts) /\ NumChunks = Cardinality(Parts) /\ NumChunks \in Nat
<1>1. IsFiniteSet(AuxConns)
  BY ConstantsOK
<1>2. IsFiniteSet({Main}) /\ IsFiniteSet(AuxConns \cup {Main})
  BY <1>1, FS_EmptySet, FS_AddElement
<1> QED
  BY <1>2, FS_CardinalityType DEF Parts, NumChunks

(* A round is between two different nodes, and it is the only one.         *)
Only(s, d) ==
  /\ s # d /\ Paired(s, d) /\ Busy(s) /\ ~Busy(d)
  /\ \A x, y \in Nodes : Paired(x, y) <=> x = s /\ y = d
  /\ \A x \in Nodes : Busy(x) <=> x = s

LEMMA OnlyOne ==
  ASSUME Acquired, NEW s \in Nodes, NEW d \in Nodes, Paired(s, d)
  PROVE  Only(s, d)
BY DEF Acquired, Only, Paired, Busy

LEMMA InRound ==
  ASSUME MigrationInv, NEW s \in Nodes, NEW d \in Nodes, Paired(s, d)
  PROVE  /\ Types /\ SentSoFar /\ Acquired /\ Only(s, d)
         /\ Talk(s, d) /\ Loading(s, d) /\ Quiet(s, d) /\ Where(s, d) /\ Seated(s, d)
BY OnlyOne DEF MigrationInv, Round

LEMMA StayInRound ==
  ASSUME Types', SentSoFar', Acquired', NEW s \in Nodes, NEW d \in Nodes, Paired(s, d)',
         Talk(s, d)', Loading(s, d)', Quiet(s, d)', Where(s, d)', Seated(s, d)'
  PROVE  MigrationInv'
<1>1. \A x, y \in Nodes : Paired(x, y)' <=> x = s /\ y = d
  BY DEF Acquired, Paired, Busy
<1>2. Round(s, d)'
  BY DEF Round
<1>3. \A x, y \in Nodes : Paired(x, y)' => Round(x, y)'
  BY <1>1, <1>2
<1> QED
  BY <1>3 DEF MigrationInv

LEMMA StayAtRest ==
  ASSUME Types', SentSoFar', Acquired', \A x, y \in Nodes : ~Paired(x, y)', Resting'
  PROVE  MigrationInv'
BY DEF MigrationInv

LEMMA AppendTwo ==
  ASSUME NEW a, NEW b
  PROVE  Append(<<a>>, b) = <<a, b>>
<1>1. PICK S : S = {a, b}
  OBVIOUS
<1>2. a \in S /\ b \in S
  BY <1>1
<1>3. <<a>> \in Seq(S) /\ <<a, b>> \in Seq(S)
  BY <1>2
<1>4. Append(<<a>>, b) \in Seq(S) /\ Len(Append(<<a>>, b)) = 2
  BY <1>2, <1>3
<1>5. \A i \in 1..2 : Append(<<a>>, b)[i] = <<a, b>>[i]
  BY <1>2, <1>3
<1> QED
  BY <1>3, <1>4, <1>5, SeqEqual

LEMMA AppendThree ==
  ASSUME NEW a, NEW b, NEW c
  PROVE  Append(<<a, b>>, c) = <<a, b, c>>
<1>1. PICK S : S = {a, b, c}
  OBVIOUS
<1>2. a \in S /\ b \in S /\ c \in S
  BY <1>1
<1>3. <<a, b>> \in Seq(S) /\ <<a, b, c>> \in Seq(S)
  BY <1>2
<1>4. Append(<<a, b>>, c) \in Seq(S) /\ Len(Append(<<a, b>>, c)) = 3
  BY <1>2, <1>3
<1>5. \A i \in 1..3 : Append(<<a, b>>, c)[i] = <<a, b, c>>[i]
  BY <1>2, <1>3
<1> QED
  BY <1>3, <1>4, <1>5, SeqEqual

LEMMA AppendFour ==
  ASSUME NEW a, NEW b, NEW c, NEW d
  PROVE  Append(<<a, b, c>>, d) = <<a, b, c, d>>
<1>1. PICK S : S = {a, b, c, d}
  OBVIOUS
<1>2. a \in S /\ b \in S /\ c \in S /\ d \in S
  BY <1>1
<1>3. <<a, b, c>> \in Seq(S) /\ <<a, b, c, d>> \in Seq(S)
  BY <1>2
<1>4. Append(<<a, b, c>>, d) \in Seq(S) /\ Len(Append(<<a, b, c>>, d)) = 4
  BY <1>2, <1>3
<1>5. \A i \in 1..4 : Append(<<a, b, c>>, d)[i] = <<a, b, c, d>>[i]
  BY <1>2, <1>3
<1> QED
  BY <1>3, <1>4, <1>5, SeqEqual

LEMMA ConcatTwo ==
  ASSUME NEW S, NEW q \in Seq(S), NEW x \in S, NEW y \in S
  PROVE  q \o <<x, y>> = Append(Append(q, x), y)
<1>1. <<x>> \in Seq(S) /\ <<y>> \in Seq(S) /\ Append(q, x) \in Seq(S)
  OBVIOUS
<1>2. <<x, y>> = <<x>> \o <<y>>
  BY <1>1, AppendTwo, AppendIsConcat
<1>3. (q \o <<x>>) \o <<y>> = q \o (<<x>> \o <<y>>)
  BY <1>1, ConcatAssociative
<1>4. Append(q, x) = q \o <<x>> /\ Append(Append(q, x), y) = Append(q, x) \o <<y>>
  BY <1>1, AppendIsConcat
<1> QED
  BY <1>2, <1>3, <1>4

LEMMA Writing ==
  ASSUME NEW a, NEW b, NEW c
  PROVE  /\ Append(<<>>, a) = <<a>> /\ Append(<<a>>, b) = <<a, b>>
         /\ <<a>> \o <<b, c>> = <<a, b, c>>
         /\ <<>> \o <<a, b>> = <<a, b>>
<1>1. PICK S : S = {a, b, c}
  OBVIOUS
<1>2. a \in S /\ b \in S /\ c \in S /\ <<>> \in Seq(S) /\ <<a>> \in Seq(S)
  BY <1>1
<1>3. Append(<<a>>, b) = <<a, b>>
  BY AppendTwo
<1>4. Append(<<a, b>>, c) = <<a, b, c>>
  BY AppendThree
<1>5. Append(<<>>, a) = <<a>>
  OBVIOUS
<1>6. <<a>> \o <<b, c>> = Append(Append(<<a>>, b), c)
  BY <1>2, ConcatTwo
<1>7. <<>> \o <<a, b>> = Append(Append(<<>>, a), b)
  BY <1>2, ConcatTwo
<1> QED
  BY <1>3, <1>4, <1>5, <1>6, <1>7

LEMMA WritingMore ==
  ASSUME NEW a, NEW b, NEW c, NEW d
  PROVE  <<a, b>> \o <<c, d>> = <<a, b, c, d>>
<1>1. PICK S : S = {a, b, c, d}
  OBVIOUS
<1>2. a \in S /\ b \in S /\ c \in S /\ d \in S /\ <<a, b>> \in Seq(S)
  BY <1>1
<1>3. <<a, b>> \o <<c, d>> = Append(Append(<<a, b>>, c), d)
  BY <1>2, ConcatTwo
<1>4. Append(<<a, b>>, c) = <<a, b, c>>
  BY AppendThree
<1>5. Append(<<a, b, c>>, d) = <<a, b, c, d>>
  BY AppendFour
<1> QED
  BY <1>3, <1>4, <1>5

LEMMA Kinds ==
  /\ TasksMsg.kind = "tasks" /\ SkipMsg.kind = "skip" /\ CopyMsg.kind = "copy"
  /\ BlockedMsg.kind = "blocked" /\ ReadyMsg.kind = "ready"
BY DEF TasksMsg, SkipMsg, CopyMsg, BlockedMsg, ReadyMsg

(* What reading the main connection of a round leaves.                     *)
LEMMA ReadingOne ==
  ASSUME NEW a
  PROVE  Head(<<a>>) = a /\ Tail(<<a>>) = <<>> /\ <<a>> # <<>>
OBVIOUS

LEMMA ReadingTwo ==
  ASSUME NEW a, NEW b
  PROVE  Head(<<a, b>>) = a /\ Tail(<<a, b>>) = <<b>> /\ <<a, b>> # <<>>
OBVIOUS

LEMMA ReadingThree ==
  ASSUME NEW a, NEW b, NEW c
  PROVE  Head(<<a, b, c>>) = a /\ Tail(<<a, b, c>>) = <<b, c>> /\ <<a, b, c>> # <<>>
OBVIOUS

LEMMA ReadingFour ==
  ASSUME NEW a, NEW b, NEW c, NEW d
  PROVE  Head(<<a, b, c, d>>) = a /\ Tail(<<a, b, c, d>>) = <<b, c, d>> /\ <<a, b, c, d>> # <<>>
<1>1. Head(<<a, b, c, d>>) = a /\ <<a, b, c, d>> # <<>>
  OBVIOUS
<1>2. Tail(<<a, b, c, d>>) = <<b, c, d>>
  OBVIOUS
<1> QED
  BY <1>1, <1>2

LEMMA ReadingTalk ==
  /\ Head(<<TasksMsg>>) = TasksMsg /\ Tail(<<TasksMsg>>) = <<>>
  /\ Head(<<TasksMsg, SkipMsg>>) = TasksMsg /\ Tail(<<TasksMsg, SkipMsg>>) = <<SkipMsg>>
  /\ Head(<<TasksMsg, CopyMsg>>) = TasksMsg /\ Tail(<<TasksMsg, CopyMsg>>) = <<CopyMsg>>
  /\ Head(<<TasksMsg, CopyMsg, BlockedMsg, ReadyMsg>>) = TasksMsg
  /\ Tail(<<TasksMsg, CopyMsg, BlockedMsg, ReadyMsg>>) = <<CopyMsg, BlockedMsg, ReadyMsg>>
  /\ Head(<<SkipMsg>>) = SkipMsg /\ Tail(<<SkipMsg>>) = <<>>
  /\ Head(<<CopyMsg>>) = CopyMsg /\ Tail(<<CopyMsg>>) = <<>>
  /\ Head(<<CopyMsg, BlockedMsg, ReadyMsg>>) = CopyMsg
  /\ Tail(<<CopyMsg, BlockedMsg, ReadyMsg>>) = <<BlockedMsg, ReadyMsg>>
  /\ Head(<<BlockedMsg, ReadyMsg>>) = BlockedMsg /\ Tail(<<BlockedMsg, ReadyMsg>>) = <<ReadyMsg>>
  /\ Head(<<ReadyMsg>>) = ReadyMsg /\ Tail(<<ReadyMsg>>) = <<>>
<1>1. /\ Head(<<TasksMsg>>) = TasksMsg /\ Tail(<<TasksMsg>>) = <<>>
      /\ Head(<<SkipMsg>>) = SkipMsg /\ Tail(<<SkipMsg>>) = <<>>
      /\ Head(<<CopyMsg>>) = CopyMsg /\ Tail(<<CopyMsg>>) = <<>>
      /\ Head(<<ReadyMsg>>) = ReadyMsg /\ Tail(<<ReadyMsg>>) = <<>>
  BY ReadingOne
<1>2. /\ Head(<<TasksMsg, SkipMsg>>) = TasksMsg /\ Tail(<<TasksMsg, SkipMsg>>) = <<SkipMsg>>
      /\ Head(<<TasksMsg, CopyMsg>>) = TasksMsg /\ Tail(<<TasksMsg, CopyMsg>>) = <<CopyMsg>>
      /\ Head(<<BlockedMsg, ReadyMsg>>) = BlockedMsg /\ Tail(<<BlockedMsg, ReadyMsg>>) = <<ReadyMsg>>
  BY ReadingTwo
<1>3. /\ Head(<<CopyMsg, BlockedMsg, ReadyMsg>>) = CopyMsg
      /\ Tail(<<CopyMsg, BlockedMsg, ReadyMsg>>) = <<BlockedMsg, ReadyMsg>>
  BY ReadingThree
<1>4. /\ Head(<<TasksMsg, CopyMsg, BlockedMsg, ReadyMsg>>) = TasksMsg
      /\ Tail(<<TasksMsg, CopyMsg, BlockedMsg, ReadyMsg>>) = <<CopyMsg, BlockedMsg, ReadyMsg>>
  BY ReadingFour
<1> QED
  BY <1>1, <1>2, <1>3, <1>4

(* The messages change only with the threads that travel.                  *)
LEMMA SameMessages ==
  ASSUME \A t \in Threads : th'[t].node = th[t].node /\ th'[t].pc = th[t].pc
  PROVE  /\ Holding' = Holding /\ Travelling' = Travelling /\ CopyMsg' = CopyMsg
         /\ BlockedMsg' = BlockedMsg /\ ReadyMsg' = ReadyMsg
<1>1. Holding' = Holding /\ Travelling' = Travelling
  BY DEF Holding, Travelling
<1>2. {t \in Travelling : th[t].pc = "parked"}' = {t \in Travelling : th[t].pc = "parked"}
  BY <1>1 DEF Travelling
<1>3. {t \in Travelling : th[t].pc # "parked"}' = {t \in Travelling : th[t].pc # "parked"}
  BY <1>1 DEF Travelling
<1>4. ASSUME NEW S \in SUBSET Threads
      PROVE  [t \in S |-> th'[t].pc] = [t \in S |-> th[t].pc]
  OBVIOUS
<1>5. BlockedMsg' = BlockedMsg
  BY <1>2, <1>4 DEF BlockedMsg, Carry, Travelling
<1>6. ReadyMsg' = ReadyMsg
  BY <1>3, <1>4 DEF ReadyMsg, Carry, Travelling
<1> QED
  BY <1>1, <1>5, <1>6 DEF CopyMsg

---------------------------------------------------------------------------
(* What the steps of a round leave alone.                                  *)

SrcMoved(s, pc, sent, waitFor) ==
  /\ src' \in [Nodes -> SrcRec]
  /\ src'[s].pc = pc /\ src'[s].dest = src[s].dest
  /\ src'[s].sent = sent /\ src'[s].waitFor = waitFor
  /\ \A n \in Nodes \ {s} : src'[n] = src[n]

LEMMA SrcMove ==
  ASSUME Types, NEW s \in Nodes, NEW pc \in SrcPcs, SrcGoto(s, pc)
  PROVE  SrcMoved(s, pc, src[s].sent, src[s].waitFor)
<1> DEFINE r == [src[s] EXCEPT !.pc = pc]
<1>1. src[s] \in SrcRec /\ src \in [Nodes -> SrcRec]
  BY DEF Types
<1>2. /\ r \in SrcRec /\ r.pc = pc /\ r.dest = src[s].dest /\ r.sent = src[s].sent
      /\ r.waitFor = src[s].waitFor
  BY <1>1 DEF SrcRec, SrcPcs
<1>3. src' = [src EXCEPT ![s] = r]
  BY DEF SrcGoto
<1> HIDE DEF r
<1> QED
  BY <1>1, <1>2, <1>3 DEF SrcMoved

LEMMA SrcRound ==
  ASSUME Acquired, NEW s \in Nodes, NEW d \in Nodes, Paired(s, d),
         NEW pc \in SrcPcs, pc \notin {"idle", "acquire"}, NEW sent, NEW waitFor,
         SrcMoved(s, pc, sent, waitFor), UNCHANGED <<acquired, toCtl>>
  PROVE  Paired(s, d)' /\ Acquired'
<1>1. Only(s, d)
  BY OnlyOne
<1>2. \A n \in Nodes : Busy(n)' <=> Busy(n)
  BY <1>1 DEF Only, SrcMoved, Busy
<1>3. \A x, y \in Nodes : Paired(x, y)' <=> Paired(x, y)
  BY <1>1 DEF Only, SrcMoved, Paired
<1>4. \A n \in Nodes : src'[n].pc \notin {"idle", "acquire"} => src'[n].dest \in Nodes
  BY <1>1 DEF Only, SrcMoved, Paired, Busy
<1>5. \A n, m \in Nodes, i \in Nat : Releases(n, m, i)' <=> Releases(n, m, i)
  BY DEF Releases
<1> QED
  BY <1>2, <1>3, <1>4, <1>5 DEF Acquired

LEMMA SrcSame ==
  ASSUME Acquired, SentSoFar, NEW s \in Nodes, NEW d \in Nodes, Paired(s, d),
         UNCHANGED <<src, acquired, toCtl>>
  PROVE  Paired(s, d)' /\ Acquired' /\ SentSoFar'
<1>1. \A n, m \in Nodes, i \in Nat : Releases(n, m, i)' <=> Releases(n, m, i)
  BY DEF Releases
<1>2. \A n \in Nodes : Busy(n)' <=> Busy(n)
  BY DEF Busy
<1>3. \A x, y \in Nodes : Paired(x, y)' <=> Paired(x, y)
  BY DEF Paired
<1>4. Acquired'
  BY <1>1, <1>2, <1>3 DEF Acquired
<1> QED
  BY <1>3, <1>4 DEF SentSoFar

DstMoved(d, pc) ==
  /\ dst' \in [Nodes -> DstRec]
  /\ dst'[d].pc = pc /\ dst'[d].from = dst[d].from
  /\ \A n \in Nodes \ {d} : dst'[n] = dst[n]

LEMMA DstMove ==
  ASSUME Types, NEW d \in Nodes, NEW pc \in DstPcs, DstGoto(d, pc)
  PROVE  DstMoved(d, pc)
<1> DEFINE r == [dst[d] EXCEPT !.pc = pc]
<1>1. dst[d] \in DstRec /\ dst \in [Nodes -> DstRec]
  BY DEF Types
<1>2. r \in DstRec /\ r.pc = pc /\ r.from = dst[d].from
  BY <1>1 DEF DstRec, DstPcs
<1>3. dst' = [dst EXCEPT ![d] = r]
  BY DEF DstGoto
<1> HIDE DEF r
<1> QED
  BY <1>1, <1>2, <1>3 DEF DstMoved

(* The main connections of a round, after a message was written or read.   *)
ChanMoved(s, d, q) ==
  /\ chan' = [p \in Pairs |-> chan'[p]]
  /\ chan'[<<s, d>>] = q
  /\ \A x, y \in Nodes : x # s \/ y # d => chan'[<<x, y>>] = chan[<<x, y>>]

LEMMA ChanMove ==
  ASSUME Types, NEW s \in Nodes, NEW d \in Nodes, NEW q, chan' = [chan EXCEPT ![<<s, d>>] = q]
  PROVE  ChanMoved(s, d, q)
<1>1. chan = [p \in Pairs |-> chan[p]]
  BY DEF Types
<1>2. DOMAIN chan = Pairs
  BY <1>1
<1> QED
  BY <1>1, <1>2 DEF ChanMoved, Pairs

LEMMA QuietKept ==
  ASSUME NEW s \in Nodes, NEW d \in Nodes, Quiet(s, d),
         \A x, y \in Nodes : x # s \/ y # d =>
           /\ chan'[<<x, y>>] = chan[<<x, y>>] /\ back'[<<y, x>>] = back[<<y, x>>]
           /\ auxchan'[<<x, y>>] = auxchan[<<x, y>>],
         \A n \in Nodes \ {d} :
           dst'[n] = dst[n] /\ loadCnt'[n] = loadCnt[n] /\ auxh'[n] = auxh[n],
         dst'[d].pc # "idle" => dst'[d].from = s,
         \A a \in AuxConns : auxh'[d][a].pc # "idle" =>
           auxh'[d][a].from = s /\ auxchan'[<<s, d>>][a] # <<>>
  PROVE  Quiet(s, d)'
BY DEF Quiet

---------------------------------------------------------------------------
(* The steps of the source.                                                *)

LEMMA AtSource ==
  ASSUME MigrationInv, NEW s \in Nodes, src[s].pc \notin {"idle", "acquire"}
  PROVE  src[s].dest \in Nodes /\ Paired(s, src[s].dest)
BY DEF MigrationInv, Acquired, Paired

(* While the source only goes on, the pair has the same to say, and the    *)
(* same is loaded.                                                         *)
SameStage(s) ==
  /\ src[s].pc # "tasks" /\ src'[s].pc # "tasks"
  /\ Announced(s)' <=> Announced(s)
  /\ Skipped(s)' <=> Skipped(s)
  /\ Copied(s)' <=> Copied(s)
  /\ Left(s)' <=> Left(s)

LEMMA TalkKept ==
  ASSUME NEW s \in Nodes, NEW d \in Nodes, Talk(s, d), SameStage(s), UNCHANGED <<dst, chan, back>>,
         CopyMsg' = CopyMsg, BlockedMsg' = BlockedMsg, ReadyMsg' = ReadyMsg
  PROVE  Talk(s, d)'
<1>1. TasksMsg' = TasksMsg /\ SkipMsg' = SkipMsg
  BY DEF TasksMsg, SkipMsg
<1> QED
  BY <1>1 DEF Talk, Told, Over, SameStage

LEMMA LoadingKept ==
  ASSUME NEW s \in Nodes, NEW d \in Nodes, Loading(s, d), s # d, Left(s)' <=> Left(s), src'[s].sent = src[s].sent,
         UNCHANGED <<dst, back, auxchan, auxh, heap, rcu, loadCnt>>, status'[d] = status[d],
         CopyMsg' = CopyMsg, Holding' = Holding
  PROVE  Loading(s, d)'
<1>1. Loaded(s, d)' = Loaded(s, d)
  BY DEF Loaded
<1>2. Whole(s, d)' <=> Whole(s, d)
  BY DEF Whole, Finished
<1> QED
  BY <1>1, <1>2 DEF Loading

LEMMA SendTasksStep ==
  ASSUME MigrationInv, NEW s \in Nodes, SendTasks(s)
  PROVE  MigrationInv'
<1>1. PICK d \in Nodes : d = src[s].dest /\ src[s].pc = "tasks" /\ Paired(s, d)
  BY AtSource DEF SendTasks, SrcAt
<1>2. /\ Types /\ SentSoFar /\ Acquired /\ Only(s, d)
      /\ Talk(s, d) /\ Loading(s, d) /\ Quiet(s, d) /\ Where(s, d) /\ Seated(s, d)
  BY <1>1, InRound
<1>3. SrcMoved(s, "mark", src[s].sent, src[s].waitFor)
  BY <1>2, SrcMove DEF SendTasks, SrcPcs
<1>4. Told(s, d, {"idle"}, <<>>)
  BY <1>1, <1>2 DEF Talk
<1>5. ChanMoved(s, d, <<TasksMsg>>)
  BY <1>1, <1>2, <1>4, ChanMove, Writing DEF SendTasks, Send, TasksMsg, Told
<1>6. UNCHANGED <<status, heap, rcu, loadCnt, th, dst, auxh, auxchan, back, acquired, loc, toCtl, rounds>>
  BY DEF SendTasks, ctlVars
<1>7. CopyMsg' = CopyMsg /\ Holding' = Holding
  BY <1>6, SameMessages
<1>8. Types'
  BY <1>2, <1>3, <1>5, <1>6 DEF Types, SrcMoved, ChanMoved
<1>9. SentSoFar'
  BY <1>1, <1>2, <1>3 DEF SentSoFar, SrcMoved
<1>10. Paired(s, d)' /\ Acquired'
  BY <1>1, <1>2, <1>3, <1>6, SrcRound DEF SrcPcs
<1>11. Talk(s, d)'
  BY <1>3, <1>4, <1>5, <1>6 DEF Talk, Told, Announced, Skipped, Copied, Left, SrcMoved, ChanMoved, TasksMsg
<1>12. Loading(s, d)'
  BY <1>1, <1>2, <1>3, <1>6, <1>7, LoadingKept DEF Left, SrcMoved, Only
<1>13. Quiet(s, d)'
  BY <1>1, <1>2, <1>5, <1>6, QuietKept DEF ChanMoved, Quiet
<1>14. Where(s, d)'
  BY <1>1, <1>2, <1>3, <1>6, <1>7 DEF Where, SrcMoved, Only, Landed, Staying, Leaving, Skipped, Finished, Left
<1>15. Seated(s, d)'
  BY <1>1, <1>2, <1>3, <1>6 DEF Seated, SrcMoved, Staying, Leaving, Skipped, Stopped, Landed, Finished, Left
<1> QED
  BY <1>1, <1>8, <1>9, <1>10, <1>11, <1>12, <1>13, <1>14, <1>15, StayInRound

LEMMA SkipStep ==
  ASSUME MigrationInv, NEW s \in Nodes, Skip(s)
  PROVE  MigrationInv'
<1>1. PICK d \in Nodes : d = src[s].dest /\ src[s].pc = "mark" /\ Paired(s, d)
  BY AtSource DEF Skip, SrcAt
<1>2. /\ Types /\ SentSoFar /\ Acquired /\ Only(s, d)
      /\ Talk(s, d) /\ Loading(s, d) /\ Quiet(s, d) /\ Where(s, d) /\ Seated(s, d)
  BY <1>1, InRound
<1>3. SrcMoved(s, "approval", {}, src[s].waitFor)
  <2>1. src[s].sent = {}
    BY <1>1, <1>2 DEF SentSoFar
  <2> QED
    BY <1>2, <2>1, SrcMove DEF Skip, SrcPcs
<1>4. ChanMoved(s, d, Append(chan[<<s, d>>], SkipMsg))
  BY <1>1, <1>2, ChanMove DEF Skip, Send, SkipMsg
<1>5. UNCHANGED <<status, heap, rcu, loadCnt, th, dst, auxh, auxchan, back, acquired, loc, toCtl, rounds>>
  BY DEF Skip, ctlVars
<1>6. CopyMsg' = CopyMsg /\ Holding' = Holding
  BY <1>5, SameMessages
<1>7. Types'
  BY <1>2, <1>3, <1>4, <1>5 DEF Types, SrcMoved, ChanMoved
<1>8. SentSoFar'
  BY <1>1, <1>2, <1>3 DEF SentSoFar, SrcMoved
<1>9. Paired(s, d)' /\ Acquired'
  BY <1>1, <1>2, <1>3, <1>5, SrcRound DEF SrcPcs
<1>10. Talk(s, d)'
  <2>1. Told(s, d, {"idle"}, <<TasksMsg>>) \/ Told(s, d, {"populate", "load"}, <<>>)
    BY <1>1, <1>2 DEF Talk, Announced
  <2>2. Told(s, d, {"idle"}, <<TasksMsg, SkipMsg>>)' \/ Told(s, d, {"populate", "load"}, <<SkipMsg>>)'
    BY <2>1, <1>4, <1>5, Writing DEF Told, ChanMoved, TasksMsg, SkipMsg
  <2> QED
    BY <1>3, <2>2 DEF Talk, Announced, Skipped, Copied, Left, SrcMoved
<1>11. Loading(s, d)'
  <2>1. (Left(s)' <=> Left(s)) /\ src[s].sent = {}
    BY <1>1, <1>2, <1>3 DEF Left, SrcMoved, SentSoFar
  <2> QED
    BY <1>2, <1>3, <1>5, <1>6, <2>1, LoadingKept DEF SrcMoved, Only
<1>12. Quiet(s, d)'
  <2>1. \A x, y \in Nodes : x # s \/ y # d =>
          /\ chan'[<<x, y>>] = chan[<<x, y>>] /\ back'[<<y, x>>] = back[<<y, x>>]
          /\ auxchan'[<<x, y>>] = auxchan[<<x, y>>]
    BY <1>4, <1>5 DEF ChanMoved
  <2> QED
    BY <1>2, <1>5, <2>1, QuietKept DEF Quiet
<1>13. Where(s, d)'
  BY <1>1, <1>2, <1>3, <1>5, <1>6 DEF Where, SrcMoved, Only, Landed, Staying, Leaving, Skipped, Finished, Left
<1>14. Seated(s, d)'
  BY <1>1, <1>2, <1>3, <1>5 DEF Seated, SrcMoved, Staying, Leaving, Skipped, Stopped, Landed, Finished, Left
<1> QED
  BY <1>7, <1>8, <1>9, <1>10, <1>11, <1>12, <1>13, <1>14, StayInRound

LEMMA MarkStep ==
  ASSUME MigrationInv, NEW s \in Nodes, MarkMigrating(s)
  PROVE  MigrationInv'
<1>1. PICK d \in Nodes : d = src[s].dest /\ src[s].pc = "mark" /\ Paired(s, d)
  BY AtSource DEF MarkMigrating, SrcAt
<1>2. /\ Types /\ SentSoFar /\ Acquired /\ Only(s, d)
      /\ Talk(s, d) /\ Loading(s, d) /\ Quiet(s, d) /\ Where(s, d) /\ Seated(s, d)
  BY <1>1, InRound
<1>3. SrcMoved(s, "sync", src[s].sent, src[s].waitFor)
  BY <1>2, SrcMove DEF MarkMigrating, SrcPcs
<1>4. /\ UNCHANGED <<heap, rcu, loadCnt, th, dst, auxh, chan, auxchan, back, acquired, loc, toCtl, rounds>>
      /\ status' = [status EXCEPT ![s] = "migrating"]
  BY DEF MarkMigrating, ctlVars, chanVars
<1>5. CopyMsg' = CopyMsg /\ Holding' = Holding /\ BlockedMsg' = BlockedMsg /\ ReadyMsg' = ReadyMsg
  BY <1>4, SameMessages
<1>6. Types'
  BY <1>2, <1>3, <1>4 DEF Types, SrcMoved, Status
<1>7. SentSoFar'
  BY <1>1, <1>2, <1>3 DEF SentSoFar, SrcMoved
<1>8. Paired(s, d)' /\ Acquired'
  BY <1>1, <1>2, <1>3, <1>4, SrcRound DEF SrcPcs
<1>9. SameStage(s)
  BY <1>1, <1>3 DEF SameStage, Announced, Skipped, Copied, Left, SrcMoved
<1>10. Talk(s, d)'
  BY <1>2, <1>4, <1>5, <1>9, TalkKept
<1>11. status'[s] = "migrating" /\ \A n \in Nodes \ {s} : status'[n] = status[n]
  BY <1>2, <1>4 DEF Types
<1>12. Loading(s, d)'
  BY <1>2, <1>3, <1>4, <1>5, <1>9, <1>11, LoadingKept DEF SrcMoved, Only, SameStage
<1>13. Quiet(s, d)'
  BY <1>2, <1>4, QuietKept DEF Quiet
<1>14. Where(s, d)'
  BY <1>1, <1>2, <1>3, <1>4, <1>5, <1>11 DEF Where, SrcMoved, Only, Landed, Staying, Leaving, Skipped, Finished, Left
<1>15. Seated(s, d)'
  BY <1>1, <1>2, <1>3, <1>4 DEF Seated, SrcMoved, Staying, Leaving, Skipped, Stopped, Landed, Finished, Left
<1> QED
  BY <1>6, <1>7, <1>8, <1>10, <1>12, <1>13, <1>14, <1>15, StayInRound

(* A source that only goes on from one of these stages to the next.        *)
LEMMA SrcOn ==
  ASSUME MigrationInv, NEW s \in Nodes, NEW d \in Nodes, Paired(s, d),
         NEW pc \in SrcPcs, pc \notin {"idle", "acquire"}, NEW waitFor \in SUBSET Threads,
         SrcMoved(s, pc, src[s].sent, waitFor),
         UNCHANGED <<status, heap, rcu, loadCnt, dst, auxh, chan, auxchan, back, acquired, loc, toCtl, rounds>>,
         th' \in [Threads -> ThreadRec],
         \A t \in Threads : th'[t].node = th[t].node /\ th'[t].pc = th[t].pc,
         SameStage(s), Staying(s)' <=> Staying(s), Leaving(s)' <=> Leaving(s),
         src'[s].pc \in {"location", "clean"} <=> src[s].pc \in {"location", "clean"},
         SentSoFar', Seated(s, d)'
  PROVE  MigrationInv'
<1>1. /\ Types /\ SentSoFar /\ Acquired /\ Only(s, d)
      /\ Talk(s, d) /\ Loading(s, d) /\ Quiet(s, d) /\ Where(s, d) /\ Seated(s, d)
  BY InRound
<1>2. CopyMsg' = CopyMsg /\ Holding' = Holding /\ BlockedMsg' = BlockedMsg /\ ReadyMsg' = ReadyMsg
  BY SameMessages
<1>3. Types'
  BY <1>1 DEF Types, SrcMoved
<1>4. Paired(s, d)' /\ Acquired'
  BY <1>1, SrcRound
<1>5. Talk(s, d)'
  BY <1>1, <1>2, TalkKept
<1>6. Loading(s, d)'
  BY <1>1, <1>2, LoadingKept DEF SrcMoved, Only, SameStage
<1>7. Quiet(s, d)'
  BY <1>1, QuietKept DEF Quiet
<1>8. Landed(s, d)' <=> Landed(s, d)
  BY DEF Landed, Finished, SameStage
<1>9. Where(s, d)'
  BY <1>1, <1>2, <1>8 DEF Where
<1> QED
  BY <1>3, <1>4, <1>5, <1>6, <1>7, <1>9, StayInRound

LEMMA SyncCallStep ==
  ASSUME MigrationInv, NEW s \in Nodes, SyncCall(s)
  PROVE  MigrationInv'
<1>1. PICK d \in Nodes : d = src[s].dest /\ src[s].pc = "sync" /\ Paired(s, d)
  BY AtSource DEF SyncCall, SrcAt
<1>2. Types /\ SentSoFar /\ Where(s, d) /\ Seated(s, d)
  BY <1>1, InRound
<1>3. SrcMoved(s, "syncing", src[s].sent, rcu[s])
  <2> DEFINE r == [src[s] EXCEPT !.pc = "syncing", !.waitFor = rcu[s]]
  <2>1. src[s] \in SrcRec /\ src \in [Nodes -> SrcRec] /\ rcu[s] \in SUBSET Threads
    BY <1>2 DEF Types
  <2>2. /\ r \in SrcRec /\ r.pc = "syncing" /\ r.dest = src[s].dest /\ r.sent = src[s].sent
        /\ r.waitFor = rcu[s]
    BY <2>1 DEF SrcRec, SrcPcs
  <2>3. src' = [src EXCEPT ![s] = r]
    BY DEF SyncCall, OpenSections
  <2> HIDE DEF r
  <2> QED
    BY <2>1, <2>2, <2>3 DEF SrcMoved
<1>4. UNCHANGED <<status, heap, rcu, loadCnt, th, dst, auxh, chan, auxchan, back, acquired, loc, toCtl, rounds>>
  BY DEF SyncCall, ctlVars, chanVars
<1>5. SameStage(s) /\ (Staying(s)' <=> Staying(s)) /\ (Leaving(s)' <=> Leaving(s))
  BY <1>1, <1>3 DEF SameStage, Announced, Skipped, Copied, Left, SrcMoved, Staying, Leaving
<1>6. SentSoFar'
  BY <1>1, <1>2, <1>3 DEF SentSoFar, SrcMoved
<1>7. rcu[s] = Holding
  BY <1>1, <1>2 DEF Where, Leaving
<1>8. Seated(s, d)'
  BY <1>1, <1>2, <1>3, <1>4, <1>7 DEF Seated, SrcMoved, Staying, Leaving, Skipped, Stopped, Landed, Finished, Left, Holding
<1>9. rcu[s] \in SUBSET Threads /\ th' \in [Threads -> ThreadRec]
  BY <1>2, <1>4 DEF Types
<1>10. src'[s].pc = "syncing"
  BY <1>3 DEF SrcMoved
<1> QED
  BY <1>1, <1>3, <1>4, <1>5, <1>6, <1>8, <1>9, <1>10, SrcOn DEF SrcPcs

LEMMA SyncReturnStep ==
  ASSUME MigrationInv, NEW s \in Nodes, SyncReturn(s)
  PROVE  MigrationInv'
<1>1. PICK d \in Nodes : d = src[s].dest /\ src[s].pc = "syncing" /\ Paired(s, d)
  BY AtSource DEF SyncReturn, SrcAt
<1>2. Types /\ SentSoFar /\ Where(s, d) /\ Seated(s, d)
  BY <1>1, InRound
<1>3. SrcMoved(s, "pause", src[s].sent, src[s].waitFor) /\ src[s].waitFor \in SUBSET Threads
  BY <1>2, SrcMove DEF SyncReturn, SrcPcs, Types, SrcRec
<1>4. UNCHANGED <<status, heap, rcu, loadCnt, th, dst, auxh, chan, auxchan, back, acquired, loc, toCtl, rounds>>
  BY DEF SyncReturn, ctlVars, chanVars
<1>5. SameStage(s) /\ (Staying(s)' <=> Staying(s)) /\ (Leaving(s)' <=> Leaving(s)) /\ src'[s].pc = "pause"
  BY <1>1, <1>3 DEF SameStage, Announced, Skipped, Copied, Left, SrcMoved, Staying, Leaving
<1>6. SentSoFar'
  BY <1>1, <1>2, <1>3 DEF SentSoFar, SrcMoved
<1>7. src[s].waitFor = {}
  BY DEF SyncReturn
<1>8. Seated(s, d)'
  BY <1>1, <1>2, <1>3, <1>4, <1>7 DEF Seated, SrcMoved, Staying, Leaving, Skipped, Stopped, Landed, Finished, Left
<1>9. th' \in [Threads -> ThreadRec]
  BY <1>2, <1>4 DEF Types
<1> QED
  BY <1>1, <1>3, <1>4, <1>5, <1>6, <1>8, <1>9, SrcOn DEF SrcPcs

LEMMA PauseStep ==
  ASSUME MigrationInv, NEW s \in Nodes, PauseThreads(s)
  PROVE  MigrationInv'
<1>1. PICK d \in Nodes : d = src[s].dest /\ src[s].pc = "pause" /\ Paired(s, d)
  BY AtSource DEF PauseThreads, SrcAt
<1>2. Types /\ SentSoFar /\ Where(s, d) /\ Seated(s, d) /\ Only(s, d)
  BY <1>1, InRound
<1>3. SrcMoved(s, "lock", src[s].sent, src[s].waitFor) /\ src[s].waitFor \in SUBSET Threads
  BY <1>2, SrcMove DEF PauseThreads, SrcPcs, Types, SrcRec
<1>4. UNCHANGED <<status, heap, rcu, loadCnt, dst, auxh, chan, auxchan, back, acquired, loc, toCtl, rounds>>
  BY DEF PauseThreads, ctlVars, chanVars
<1>5. SameStage(s) /\ (Staying(s)' <=> Staying(s)) /\ (Leaving(s)' <=> Leaving(s)) /\ src'[s].pc = "lock"
  BY <1>1, <1>3 DEF SameStage, Announced, Skipped, Copied, Left, SrcMoved, Staying, Leaving
<1>6. SentSoFar'
  BY <1>1, <1>2, <1>3 DEF SentSoFar, SrcMoved
<1>7. /\ th' \in [Threads -> ThreadRec]
      /\ \A t \in Threads : th'[t].node = th[t].node /\ th'[t].pc = th[t].pc
      /\ \A t \in Threads : th[t].node = s /\ th[t].pc # "parked" => th'[t].paused
      /\ \A t \in Threads : ~(th[t].node = s /\ th[t].pc # "parked") => th'[t] = th[t]
  <2>1. \A t \in Threads : th'[t] = IF th[t].node = s /\ th[t].pc # "parked"
                                    THEN [th[t] EXCEPT !.paused = TRUE] ELSE th[t]
    BY DEF PauseThreads, Pausable, OwnersAt
  <2>2. th' = [t \in Threads |-> th'[t]]
    BY DEF PauseThreads
  <2>3. ASSUME NEW t \in Threads
        PROVE  /\ th'[t] \in ThreadRec
               /\ th'[t].node = th[t].node /\ th'[t].pc = th[t].pc
               /\ th[t].node = s /\ th[t].pc # "parked" => th'[t].paused
               /\ ~(th[t].node = s /\ th[t].pc # "parked") => th'[t] = th[t]
    <3>1. th[t] \in ThreadRec
      BY <1>2 DEF Types
    <3>2. /\ [th[t] EXCEPT !.paused = TRUE] \in ThreadRec
          /\ [th[t] EXCEPT !.paused = TRUE].node = th[t].node
          /\ [th[t] EXCEPT !.paused = TRUE].pc = th[t].pc
          /\ [th[t] EXCEPT !.paused = TRUE].paused
      BY <3>1 DEF ThreadRec
    <3> QED
      BY <2>1, <3>1, <3>2
  <2> QED
    BY <2>2, <2>3
<1>8. \A t \in Threads : th[t].node = s =>
        ~th[t].paused /\ th[t].pc \in {"free", "relock", "towait", "parked"}
  <2>1. \A t \in Threads : th[t].node = s => th[t].pc \notin {"attaching", "attached"}
    BY DEF PauseThreads, OwnersAt, NonPreemptible
  <2>2. \A t \in Threads : th[t].node = s => th[t].pc \notin {"out", "guard"} /\ ~th[t].paused
    BY <1>1, <1>2 DEF Seated, Staying, Skipped, Stopped
  <2>3. \A t \in Threads : th[t].pc \in ThreadPcs
    BY <1>2 DEF Types, ThreadRec
  <2> QED
    BY <2>1, <2>2, <2>3 DEF ThreadPcs
<1>9. Stopped(s)' /\ Leaving(s)'
  BY <1>5 DEF Stopped, Leaving
<1>10. (Landed(s, d)' <=> Landed(s, d)) /\ (Left(s)' <=> Left(s))
  BY <1>4, <1>5 DEF Landed, Finished, SameStage
<1>11. Seated(s, d)'
  <2>1. \A t \in Threads : th'[t].node = s =>
          \/ th'[t].paused /\ th'[t].pc \in {"free", "relock", "towait"}
          \/ ~th'[t].paused /\ th'[t].pc = "parked"
    BY <1>7, <1>8
  <2>2. \A t \in Threads : th'[t].node # s => th'[t] = th[t]
    BY <1>7
  <2> QED
    BY <1>2, <1>4, <1>7, <1>9, <1>10, <2>1, <2>2, NoNode DEF Seated, Only
<1>12. src'[s].pc \in {"location", "clean"} <=> src[s].pc \in {"location", "clean"}
  BY <1>1, <1>5
<1>13. \A t \in Threads : th'[t].node = th[t].node /\ th'[t].pc = th[t].pc
  BY <1>7
<1>14. th' \in [Threads -> ThreadRec] /\ "lock" \in SrcPcs
  BY <1>7 DEF SrcPcs
<1> QED
  BY <1>1, <1>3, <1>4, <1>5, <1>6, <1>11, <1>12, <1>13, <1>14, SrcOn

LEMMA LockSpinStep ==
  ASSUME MigrationInv, NEW s \in Nodes, LockSpin(s)
  PROVE  MigrationInv'
<1>1. PICK d \in Nodes : d = src[s].dest /\ src[s].pc = "lock" /\ Paired(s, d)
  BY AtSource DEF LockSpin, SrcAt
<1>2. Types /\ SentSoFar /\ Where(s, d) /\ Seated(s, d)
  BY <1>1, InRound
<1>3. SrcMoved(s, "copy", src[s].sent, src[s].waitFor) /\ src[s].waitFor \in SUBSET Threads
  BY <1>2, SrcMove DEF LockSpin, SrcPcs, Types, SrcRec
<1>4. UNCHANGED <<status, heap, rcu, loadCnt, th, dst, auxh, chan, auxchan, back, acquired, loc, toCtl, rounds>>
  BY DEF LockSpin, ctlVars, chanVars
<1>5. src[s].sent = {} /\ Parts # {}
  BY <1>1, <1>2, PartsFacts DEF SentSoFar
<1>6. SameStage(s) /\ (Staying(s)' <=> Staying(s)) /\ (Leaving(s)' <=> Leaving(s)) /\ src'[s].pc = "copy"
  BY <1>1, <1>3, <1>5 DEF SameStage, Announced, Skipped, Copied, Left, SrcMoved, Staying, Leaving
<1>7. SentSoFar'
  BY <1>1, <1>2, <1>3, <1>5 DEF SentSoFar, SrcMoved
<1>8. Seated(s, d)'
  BY <1>1, <1>2, <1>3, <1>4 DEF Seated, SrcMoved, Staying, Leaving, Skipped, Stopped, Landed, Finished, Left
<1>9. th' \in [Threads -> ThreadRec]
  BY <1>2, <1>4 DEF Types
<1> QED
  BY <1>1, <1>3, <1>4, <1>6, <1>7, <1>8, <1>9, SrcOn DEF SrcPcs

LEMMA ChunkStep ==
  ASSUME MigrationInv, NEW s \in Nodes, NEW p \in Parts, TransmitChunk(s, p)
  PROVE  MigrationInv'
<1>1. PICK d \in Nodes : d = src[s].dest /\ src[s].pc = "copy" /\ Paired(s, d)
  BY AtSource DEF TransmitChunk, SrcAt
<1>2. /\ Types /\ SentSoFar /\ Acquired /\ Only(s, d)
      /\ Talk(s, d) /\ Loading(s, d) /\ Quiet(s, d) /\ Where(s, d) /\ Seated(s, d)
  BY <1>1, InRound
<1>3. PICK pc : /\ pc = IF src[s].sent \cup {p} = Parts THEN "state" ELSE "copy"
                /\ SrcMoved(s, pc, src[s].sent \cup {p}, src[s].waitFor)
  <2> DEFINE pc == IF src[s].sent \cup {p} = Parts THEN "state" ELSE "copy"
             r == [src[s] EXCEPT !.sent = src[s].sent \cup {p}, !.pc = pc]
  <2>1. src[s] \in SrcRec /\ src \in [Nodes -> SrcRec] /\ pc \in SrcPcs
    BY <1>2 DEF Types, SrcPcs
  <2> HIDE DEF pc
  <2>2. /\ r \in SrcRec /\ r.pc = pc /\ r.dest = src[s].dest /\ r.sent = src[s].sent \cup {p}
        /\ r.waitFor = src[s].waitFor
    BY <2>1 DEF SrcRec
  <2>3. src' = [src EXCEPT ![s] = r]
    BY DEF TransmitChunk, pc
  <2> HIDE DEF r
  <2> QED
    BY <2>1, <2>2, <2>3 DEF SrcMoved, pc
<1>4. UNCHANGED <<status, heap, rcu, loadCnt, th, dst, auxh, back, acquired, loc, toCtl, rounds>>
  BY DEF TransmitChunk, ctlVars
<1>5. /\ CopyMsg' = CopyMsg /\ Holding' = Holding /\ BlockedMsg' = BlockedMsg /\ ReadyMsg' = ReadyMsg
  BY <1>4, SameMessages
<1>6. Chunk(s, p) = CopyMsg /\ p \notin src[s].sent
  BY <1>1, <1>2 DEF Chunk, CopyMsg, Where, Leaving, TransmitChunk
<1>7. pc \in {"copy", "state"} /\ (pc = "state" => Main \in src[s].sent \cup {p})
  BY <1>3, PartsFacts
<1>8. (Main \in src[s].sent => Copied(s)) /\ (Main \notin src[s].sent => Announced(s)) /\ ~Left(s)
  BY <1>1 DEF Copied, Announced, Left
<1>9. /\ ~Left(s)' /\ ~Skipped(s)' /\ src'[s].pc # "tasks" /\ ~Staying(s)' /\ Leaving(s)' /\ Stopped(s)'
      /\ Copied(s)' <=> Main \in src[s].sent \cup {p}
      /\ Announced(s)' <=> Main \notin src[s].sent \cup {p}
  BY <1>3, <1>7 DEF Copied, Announced, Left, Skipped, Staying, Leaving, Stopped, SrcMoved
<1>10. ~Whole(s, d)
  <2>1. CASE Main \notin src[s].sent
    BY <1>2, <1>8, <2>1 DEF Talk, Told, Whole, Finished
  <2>2. CASE Main \in src[s].sent
    <3>1. p \in AuxConns
      BY <1>6, <2>2 DEF Parts
    <3> QED
      BY <1>2, <1>6, <3>1 DEF Loading
  <2> QED
    BY <2>1, <2>2
<1>11. ASSUME p = Main
       PROVE  Types' /\ Talk(s, d)' /\ Loading(s, d)' /\ Quiet(s, d)'
  <2>1. ChanMoved(s, d, Append(chan[<<s, d>>], CopyMsg)) /\ auxchan' = auxchan
    BY <1>1, <1>2, <1>6, <1>11, ChanMove DEF TransmitChunk, Send
  <2>2. Talk(s, d)'
    <3>1. Told(s, d, {"idle"}, <<TasksMsg>>) \/ Told(s, d, {"populate", "load"}, <<>>)
      BY <1>2, <1>6, <1>8, <1>11 DEF Talk
    <3>2. Told(s, d, {"idle"}, <<TasksMsg, CopyMsg>>)' \/ Told(s, d, {"populate", "load"}, <<CopyMsg>>)'
      BY <1>4, <1>5, <2>1, <3>1, Writing DEF Told, ChanMoved, TasksMsg
    <3> QED
      BY <1>9, <1>11, <3>2 DEF Talk
  <2>3. Loaded(s, d)' = Loaded(s, d)
    BY <1>3, <1>4, <1>11, <2>1, NoNode DEF Loaded, SrcMoved
  <2>4. ~Whole(s, d)'
    BY <1>4, <1>9, <1>10 DEF Whole, Finished
  <2>5. Loading(s, d)'
    BY <1>2, <1>3, <1>4, <1>5, <1>10, <2>1, <2>3, <2>4 DEF Loading, SrcMoved
  <2>6. Quiet(s, d)'
    <3>1. \A x, y \in Nodes : x # s \/ y # d =>
            /\ chan'[<<x, y>>] = chan[<<x, y>>] /\ back'[<<y, x>>] = back[<<y, x>>]
            /\ auxchan'[<<x, y>>] = auxchan[<<x, y>>]
      BY <1>4, <2>1 DEF ChanMoved
    <3> QED
      BY <1>2, <1>4, <2>1, <3>1, QuietKept DEF Quiet
  <2>7. Types'
    BY <1>2, <1>3, <1>4, <2>1 DEF Types, SrcMoved, ChanMoved
  <2> QED
    BY <2>2, <2>5, <2>6, <2>7
<1>12. ASSUME p \in AuxConns
       PROVE  Types' /\ Talk(s, d)' /\ Loading(s, d)' /\ Quiet(s, d)'
  <2>1. /\ chan' = chan
        /\ auxchan' = [auxchan EXCEPT ![<<s, d>>][p] = Append(@, CopyMsg)]
    BY <1>1, <1>6, <1>12, NoNode DEF TransmitChunk
  <2>2. Talk(s, d)'
    <3>1. TasksMsg' = TasksMsg
      BY DEF TasksMsg
    <3>2. (Copied(s)' <=> Copied(s)) /\ (Announced(s)' <=> Announced(s))
      BY <1>1, <1>9, <1>12, NoNode DEF Copied, Announced
    <3> QED
      BY <1>2, <1>4, <1>5, <1>9, <2>1, <3>1, <3>2 DEF Talk, Told
  <2>3. /\ auxchan' = [x \in Pairs |-> [a \in AuxConns |-> auxchan'[x][a]]]
        /\ \A x, y \in Nodes : x # s \/ y # d => auxchan'[<<x, y>>] = auxchan[<<x, y>>]
        /\ \A a \in AuxConns \ {p} : auxchan'[<<s, d>>][a] = auxchan[<<s, d>>][a]
        /\ auxchan'[<<s, d>>][p] = Append(auxchan[<<s, d>>][p], CopyMsg)
    <3>1. PICK f : f = auxchan[<<s, d>>]
      OBVIOUS
    <3>2. PICK g : g = [f EXCEPT ![p] = Append(f[p], CopyMsg)]
      OBVIOUS
    <3>3. auxchan' = [auxchan EXCEPT ![<<s, d>>] = g]
      BY <2>1, <3>1, <3>2
    <3>4. DOMAIN auxchan = Pairs /\ f = [a \in AuxConns |-> f[a]] /\ <<s, d>> \in Pairs
      BY <1>2, <3>1 DEF Types, Pairs
    <3>5. /\ g = [a \in AuxConns |-> g[a]] /\ g[p] = Append(f[p], CopyMsg)
          /\ \A a \in AuxConns \ {p} : g[a] = f[a]
      BY <1>12, <3>2, <3>4
    <3>6. auxchan'[<<s, d>>] = g /\ \A x \in Pairs \ {<<s, d>>} : auxchan'[x] = auxchan[x]
      BY <3>3, <3>4
    <3>7. auxchan = [x \in Pairs |-> [a \in AuxConns |-> auxchan[x][a]]]
      BY <1>2 DEF Types
    <3>8. \A x \in Pairs : auxchan[x] = [a \in AuxConns |-> auxchan[x][a]]
      BY <3>7
    <3>9. \A x \in Pairs : auxchan'[x] = [a \in AuxConns |-> auxchan'[x][a]]
      BY <3>5, <3>6, <3>8
    <3>10. auxchan' = [x \in Pairs |-> auxchan'[x]]
      BY <3>3, <3>4, <3>7
    <3>11. auxchan' = [x \in Pairs |-> [a \in AuxConns |-> auxchan'[x][a]]]
      BY <3>9, <3>10
    <3>12. \A x, y \in Nodes : x # s \/ y # d => auxchan'[<<x, y>>] = auxchan[<<x, y>>]
      BY <3>6 DEF Pairs
    <3> QED
      BY <3>1, <3>5, <3>6, <3>11, <3>12
  <2>4. auxchan[<<s, d>>][p] = <<>>
    BY <1>2, <1>6, <1>12 DEF Loading
  <2>5. auxchan'[<<s, d>>][p] = <<CopyMsg>> /\ <<CopyMsg>> # <<>>
    BY <2>3, <2>4, Writing, ReadingOne
  <2>6. Loaded(s, d)' = Loaded(s, d)
    <3>1. ASSUME NEW a \in AuxConns
          PROVE  (a \in src'[s].sent /\ auxchan'[<<s, d>>][a] = <<>>) <=> (a \in src[s].sent /\ auxchan[<<s, d>>][a] = <<>>)
      BY <1>3, <1>6, <2>3, <2>5 DEF SrcMoved
    <3> QED
      BY <1>4, <3>1 DEF Loaded
  <2>7. ~Whole(s, d)'
    BY <1>4, <1>9, <1>10 DEF Whole, Finished
  <2>8. \A a \in AuxConns :
          auxchan'[<<s, d>>][a] # <<>> => a \in src'[s].sent /\ auxchan'[<<s, d>>][a] = <<CopyMsg>>
    BY <1>2, <1>3, <2>3, <2>5 DEF Loading, SrcMoved
  <2>9. Loading(s, d)'
    BY <1>2, <1>4, <1>5, <1>10, <2>6, <2>7, <2>8 DEF Loading
  <2>10. Quiet(s, d)'
    <3>1. \A a \in AuxConns : auxh'[d][a].pc # "idle" =>
            auxh'[d][a].from = s /\ auxchan'[<<s, d>>][a] # <<>>
      BY <1>2, <1>4, <2>3, <2>5 DEF Quiet
    <3>2. chan' = chan
      BY <2>1
    <3>3. \A x, y \in Nodes : x # s \/ y # d =>
            /\ chan'[<<x, y>>] = chan[<<x, y>>] /\ back'[<<y, x>>] = back[<<y, x>>]
            /\ auxchan'[<<x, y>>] = auxchan[<<x, y>>]
      BY <1>4, <2>3, <3>2
    <3> QED
      BY <1>2, <1>4, <3>1, <3>3, QuietKept DEF Quiet
  <2>11. Types'
    BY <1>2, <1>3, <1>4, <2>1, <2>3 DEF Types, SrcMoved
  <2> QED
    BY <2>2, <2>9, <2>10, <2>11
<1>13. Types' /\ Talk(s, d)' /\ Loading(s, d)' /\ Quiet(s, d)'
  BY <1>11, <1>12 DEF Parts
<1>14. SentSoFar'
  BY <1>1, <1>2, <1>3 DEF SentSoFar, SrcMoved
<1>15. Paired(s, d)' /\ Acquired'
  BY <1>1, <1>2, <1>3, <1>4, <1>7, SrcRound DEF SrcPcs
<1>16. ~Staying(s) /\ Leaving(s) /\ Stopped(s) /\ (Landed(s, d)' <=> Landed(s, d)) /\ src'[s].pc \in {"copy", "state"}
  BY <1>1, <1>3, <1>4, <1>7, <1>8, <1>9 DEF Staying, Skipped, Leaving, Stopped, Landed, Finished, SrcMoved
<1>17. Where(s, d)'
  BY <1>1, <1>2, <1>4, <1>5, <1>9, <1>16 DEF Where
<1>18. Seated(s, d)'
  BY <1>1, <1>2, <1>4, <1>8, <1>9, <1>16 DEF Seated
<1> QED
  BY <1>13, <1>14, <1>15, <1>17, <1>18, StayInRound

LEMMA TransmitStateStep ==
  ASSUME MigrationInv, NEW s \in Nodes, TransmitState(s)
  PROVE  MigrationInv'
<1>1. PICK d \in Nodes : d = src[s].dest /\ src[s].pc = "state" /\ Paired(s, d)
  BY AtSource DEF TransmitState, SrcAt
<1>2. /\ Types /\ SentSoFar /\ Acquired /\ Only(s, d)
      /\ Talk(s, d) /\ Loading(s, d) /\ Quiet(s, d) /\ Where(s, d) /\ Seated(s, d)
  BY <1>1, InRound
<1>3. SrcMoved(s, "location", src[s].sent, src[s].waitFor) /\ src[s].sent = Parts
  BY <1>1, <1>2, SrcMove DEF TransmitState, SrcPcs, SentSoFar
<1>4. /\ UNCHANGED <<status, rcu, loadCnt, dst, auxh, auxchan, back, acquired, loc, toCtl, rounds>>
      /\ heap' = [heap EXCEPT ![s] = {}]
  BY DEF TransmitState, ctlVars
<1>5. /\ Copied(s) /\ Leaving(s) /\ Stopped(s) /\ ~Staying(s) /\ ~Left(s)
      /\ Left(s)' /\ ~Copied(s)' /\ ~Announced(s)' /\ ~Skipped(s)' /\ ~Staying(s)' /\ ~Leaving(s)'
      /\ src'[s].pc = "location" /\ ~Stopped(s)'
  BY <1>1, <1>3 DEF Copied, Announced, Leaving, Staying, Left, Skipped, Stopped, SrcMoved
<1>6. /\ dst[d].pc \in {"idle", "populate", "load", "count", "spin", "blocked"} /\ back[<<d, s>>] = <<>>
      /\ ~Finished(s, d) /\ ~Finished(s, d)' /\ ~Landed(s, d) /\ ~Landed(s, d)'
      /\ Whole(s, d)' <=> Whole(s, d)
  <2>1. dst[d].pc \in {"idle", "populate", "load", "count", "spin", "blocked"} /\ back[<<d, s>>] = <<>>
    BY <1>2, <1>5 DEF Talk, Told
  <2> QED
    BY <2>1, <1>4, <1>5 DEF Finished, Landed, Whole
<1>7. \A t \in Threads : \/ th[t].node = s /\ th[t].pc # "out"
                         \/ th[t] = OutThread
  BY <1>2, <1>5, <1>6 DEF Seated
<1> DEFINE blocked == {t \in OwnersAt(s) : th[t].pc = "parked"}
           ready == {t \in OwnersAt(s) : th[t].paused}
<1>9. ready = {t \in OwnersAt(s) : th[t].pc # "parked"} /\ blocked \cup ready = OwnersAt(s)
  BY <1>2, <1>5 DEF Seated, OwnersAt
<1>10. /\ th' \in [Threads -> ThreadRec]
       /\ \A t \in Threads : th'[t].node = None /\ th'[t].pc = th[t].pc
       /\ \A t \in Threads : th[t] = OutThread => th'[t] = OutThread
  <2>1. th' = [t \in Threads |-> IF t \in OwnersAt(s) THEN [th[t] EXCEPT !.node = None] ELSE th[t]]
    BY <1>9 DEF TransmitState
  <2>2. ASSUME NEW t \in Threads
        PROVE  /\ th'[t] \in ThreadRec
               /\ th'[t].node = None /\ th'[t].pc = th[t].pc
               /\ th[t] = OutThread => th'[t] = OutThread
    <3>1. th[t] \in ThreadRec
      BY <1>2 DEF Types
    <3>2. /\ [th[t] EXCEPT !.node = None] \in ThreadRec
          /\ [th[t] EXCEPT !.node = None].node = None
          /\ [th[t] EXCEPT !.node = None].pc = th[t].pc
      BY <3>1 DEF ThreadRec
    <3>3. OutThread.node = None
      BY DEF OutThread
    <3>4. CASE th[t] = OutThread
      <4>1. t \notin OwnersAt(s)
        BY <3>3, <3>4, NoNode DEF OwnersAt
      <4> QED
        BY <2>1, <3>1, <3>3, <3>4, <4>1
    <3>5. CASE th[t] # OutThread
      <4>1. t \in OwnersAt(s)
        BY <1>7, <3>5 DEF OwnersAt
      <4> QED
        BY <2>1, <3>2, <3>5, <4>1
    <3> QED
      BY <3>4, <3>5
  <2> QED
    BY <2>1, <2>2
<1>11. Holding' = Holding /\ CopyMsg' = CopyMsg
  BY <1>10 DEF Holding, CopyMsg
<1>12. Travelling' = OwnersAt(s)
  <2>1. OutThread.pc = "out" /\ OutThread.node = None
    BY DEF OutThread
  <2>2. ASSUME NEW t \in Threads
        PROVE  (th'[t].node = None /\ th'[t].pc # "out") <=> th[t].node = s
    BY <1>7, <1>10, <2>1, NoNode
  <2> QED
    BY <2>2 DEF Travelling, OwnersAt
<1>13. BlockedMsg' = [kind |-> "blocked", ths |-> Carry(blocked)] /\ ReadyMsg' = [kind |-> "ready", ths |-> Carry(ready)]
  <2>1. {t \in Travelling : th[t].pc = "parked"}' = blocked
    BY <1>10, <1>12 DEF OwnersAt
  <2>2. {t \in Travelling : th[t].pc # "parked"}' = ready
    BY <1>9, <1>10, <1>12 DEF OwnersAt
  <2>3. [t \in blocked |-> th'[t].pc] = [t \in blocked |-> th[t].pc]
    BY <1>10 DEF OwnersAt
  <2>4. [t \in ready |-> th'[t].pc] = [t \in ready |-> th[t].pc]
    BY <1>10 DEF OwnersAt
  <2> HIDE DEF blocked, ready
  <2>5. BlockedMsg' = [kind |-> "blocked", ths |-> [t \in blocked |-> th'[t].pc]]
    BY <2>1 DEF BlockedMsg, Carry
  <2>6. ReadyMsg' = [kind |-> "ready", ths |-> [t \in ready |-> th'[t].pc]]
    BY <2>2 DEF ReadyMsg, Carry
  <2> QED
    BY <2>3, <2>4, <2>5, <2>6 DEF Carry
<1>14. ChanMoved(s, d, chan[<<s, d>>] \o <<BlockedMsg', ReadyMsg'>>)
  BY <1>1, <1>2, <1>13, ChanMove DEF TransmitState
<1>15. Types'
  <2>1. heap' \in [Nodes -> SUBSET Parts]
    BY <1>2, <1>4 DEF Types
  <2>2. /\ status' \in [Nodes -> Status] /\ rcu' \in [Nodes -> SUBSET Threads] /\ loadCnt' \in [Nodes -> Int]
        /\ dst' \in [Nodes -> DstRec] /\ auxh' \in [Nodes -> [AuxConns -> AuxRec]]
        /\ back' = [p \in Pairs |-> back'[p]] /\ acquired' \subseteq Nodes /\ loc' \in Nodes
        /\ toCtl' \in [Nodes -> Seq(CtlMsg)] /\ rounds' \in 0..MaxRounds
        /\ auxchan' = [p \in Pairs |-> [a \in AuxConns |-> auxchan'[p][a]]]
    BY <1>2, <1>4 DEF Types
  <2> QED
    BY <1>3, <1>10, <1>14, <2>1, <2>2 DEF Types, SrcMoved, ChanMoved
<1>16. SentSoFar'
  BY <1>1, <1>2, <1>3 DEF SentSoFar, SrcMoved
<1>17. Paired(s, d)' /\ Acquired'
  BY <1>1, <1>2, <1>3, <1>4, SrcRound DEF SrcPcs
<1>18. Talk(s, d)'
  <2>1. \/ Told(s, d, {"idle"}, <<TasksMsg, CopyMsg>>)
        \/ Told(s, d, {"populate", "load"}, <<CopyMsg>>)
        \/ Told(s, d, {"count", "spin", "blocked"}, <<>>)
    BY <1>2, <1>5 DEF Talk
  <2>2. chan'[<<s, d>>] = chan[<<s, d>>] \o <<BlockedMsg', ReadyMsg'>>
    BY <1>14 DEF ChanMoved
  <2>3. \/ Told(s, d, {"idle"}, <<TasksMsg, CopyMsg, BlockedMsg, ReadyMsg>>)'
        \/ Told(s, d, {"populate", "load"}, <<CopyMsg, BlockedMsg, ReadyMsg>>)'
        \/ Told(s, d, {"count", "spin", "blocked"}, <<BlockedMsg, ReadyMsg>>)'
    <3>1. TasksMsg' = TasksMsg
      BY DEF TasksMsg
    <3>2. ASSUME Told(s, d, {"idle"}, <<TasksMsg, CopyMsg>>)
          PROVE  Told(s, d, {"idle"}, <<TasksMsg, CopyMsg, BlockedMsg, ReadyMsg>>)'
      <4>1. chan'[<<s, d>>] = <<TasksMsg, CopyMsg, BlockedMsg', ReadyMsg'>>
        <5>1. <<TasksMsg, CopyMsg>> \o <<BlockedMsg', ReadyMsg'>> = <<TasksMsg, CopyMsg, BlockedMsg', ReadyMsg'>>
          BY WritingMore
        <5>2. chan[<<s, d>>] = <<TasksMsg, CopyMsg>>
          BY <3>2 DEF Told
        <5> QED
          BY <2>2, <5>1, <5>2
      <4> QED
        BY <1>4, <1>11, <3>1, <3>2, <4>1 DEF Told
    <3>3. ASSUME Told(s, d, {"populate", "load"}, <<CopyMsg>>)
          PROVE  Told(s, d, {"populate", "load"}, <<CopyMsg, BlockedMsg, ReadyMsg>>)'
      <4>1. chan'[<<s, d>>] = <<CopyMsg, BlockedMsg', ReadyMsg'>>
        BY <2>2, <3>3, Writing DEF Told
      <4> QED
        BY <1>4, <1>11, <3>3, <4>1 DEF Told
    <3>4. ASSUME Told(s, d, {"count", "spin", "blocked"}, <<>>)
          PROVE  Told(s, d, {"count", "spin", "blocked"}, <<BlockedMsg, ReadyMsg>>)'
      <4>1. chan'[<<s, d>>] = <<BlockedMsg', ReadyMsg'>>
        BY <2>2, <3>4, Writing DEF Told
      <4> QED
        BY <1>4, <3>4, <4>1 DEF Told
    <3> QED
      BY <2>1, <3>2, <3>3, <3>4
  <2> QED
    BY <1>5, <2>3 DEF Talk
<1>19. Loading(s, d)'
  <2>1. Loaded(s, d)' = Loaded(s, d)
    BY <1>3, <1>4 DEF Loaded, SrcMoved
  <2>2. heap'[d] = heap[d]
    BY <1>2, <1>4 DEF Types, Only
  <2>3. src'[s].sent = src[s].sent
    BY <1>3 DEF SrcMoved
  <2> QED
    BY <1>2, <1>4, <1>6, <1>11, <2>1, <2>2, <2>3 DEF Loading
<1>20. Quiet(s, d)'
  <2>1. \A x, y \in Nodes : x # s \/ y # d =>
          /\ chan'[<<x, y>>] = chan[<<x, y>>] /\ back'[<<y, x>>] = back[<<y, x>>]
          /\ auxchan'[<<x, y>>] = auxchan[<<x, y>>]
    BY <1>4, <1>14 DEF ChanMoved
  <2> QED
    BY <1>2, <1>4, <2>1, QuietKept DEF Quiet
<1>21. Where(s, d)'
  BY <1>2, <1>4, <1>5, <1>6 DEF Where
<1>22. Seated(s, d)'
  <2>1. ASSUME NEW t \in Threads
        PROVE  \/ th'[t] = OutThread
               \/ th'[t].pc \in {"free", "relock", "towait", "parked"}
    BY <1>2, <1>5, <1>7, <1>10 DEF Seated
  <2> QED
    BY <1>4, <1>5, <1>6, <1>10, <2>1, NoNode DEF Seated
<1> QED
  BY <1>15, <1>16, <1>17, <1>18, <1>19, <1>20, <1>21, <1>22, StayInRound

(* What is appended to the messages of a node.                             *)
LEMMA Posting ==
  ASSUME Types, NEW s \in Nodes, NEW m \in CtlMsg, NEW q \in Seq(CtlMsg)
  PROVE  /\ Append(q, m) \in Seq(CtlMsg) /\ q \o <<m>> = Append(q, m)
         /\ DOMAIN Append(q, m) = DOMAIN q \cup {Len(q) + 1} /\ Len(q) + 1 \notin DOMAIN q
         /\ Len(q) + 1 \in Nat
         /\ \A i \in DOMAIN q : Append(q, m)[i] = q[i]
         /\ Append(q, m)[Len(q) + 1] = m
<1>1. Append(q, m) \in Seq(CtlMsg) /\ Len(Append(q, m)) = Len(q) + 1
  OBVIOUS
<1>2. \A i \in 1..Len(q) : Append(q, m)[i] = q[i]
  OBVIOUS
<1>3. Append(q, m)[Len(q) + 1] = m
  OBVIOUS
<1>4. DOMAIN q = 1..Len(q) /\ DOMAIN Append(q, m) = 1..(Len(q) + 1) /\ Len(q) \in Nat
  BY <1>1
<1>5. q \o <<m>> = Append(q, m)
  BY AppendIsConcat
<1> QED
  BY <1>1, <1>2, <1>3, <1>4, <1>5

LEMMA LocationStep ==
  ASSUME MigrationInv, NEW s \in Nodes, UpdateLocation(s)
  PROVE  MigrationInv'
<1>1. PICK d \in Nodes : d = src[s].dest /\ src[s].pc = "location" /\ Paired(s, d)
  BY AtSource DEF UpdateLocation, SrcAt
<1>2. /\ Types /\ SentSoFar /\ Acquired /\ Only(s, d)
      /\ Talk(s, d) /\ Loading(s, d) /\ Quiet(s, d) /\ Where(s, d) /\ Seated(s, d)
  BY <1>1, InRound
<1>3. SrcMoved(s, "clean", src[s].sent, src[s].waitFor)
  BY <1>2, SrcMove DEF UpdateLocation, SrcPcs
<1>4. PICK m \in CtlMsg : m.kind = "location" /\ toCtl' = [toCtl EXCEPT ![s] = @ \o <<m>>]
  <2>1. [kind |-> "location", node |-> d] \in CtlMsg
    BY DEF CtlMsg
  <2> QED
    BY <1>1, <2>1 DEF UpdateLocation, Post
<1>5. UNCHANGED <<status, heap, rcu, loadCnt, th, dst, auxh, chan, auxchan, back, acquired, loc, rounds>>
  BY DEF UpdateLocation, ctlVars, chanVars
<1>6. CopyMsg' = CopyMsg /\ Holding' = Holding /\ BlockedMsg' = BlockedMsg /\ ReadyMsg' = ReadyMsg
  BY <1>5, SameMessages
<1>7. /\ toCtl \in [Nodes -> Seq(CtlMsg)] /\ toCtl[s] \in Seq(CtlMsg)
      /\ toCtl' = [toCtl EXCEPT ![s] = Append(toCtl[s], m)]
  BY <1>2, <1>4, Posting DEF Types
<1>8. toCtl' \in [Nodes -> Seq(CtlMsg)]
  BY <1>2, <1>7, Posting
<1>9. Types'
  BY <1>2, <1>3, <1>5, <1>8 DEF Types, SrcMoved
<1>10. SentSoFar'
  BY <1>1, <1>2, <1>3 DEF SentSoFar, SrcMoved
<1>11. \A l, n \in Nodes, i \in Nat : Releases(l, n, i)' <=> Releases(l, n, i)
  <2>1. \A n \in Nodes \ {s} : toCtl'[n] = toCtl[n]
    BY <1>7
  <2>2. toCtl'[s] = Append(toCtl[s], m)
    BY <1>7
  <2>3. \A l \in Nodes : m # [kind |-> "release", node |-> l]
    BY <1>4
  <2>4. \A l \in Nodes, i \in Nat : Releases(l, s, i)' <=> Releases(l, s, i)
    BY <1>2, <1>7, <2>2, <2>3, Posting DEF Releases
  <2> QED
    BY <2>1, <2>4 DEF Releases
<1>12. Paired(s, d)' /\ Acquired'
  <2>1. \A n \in Nodes : Busy(n)' <=> Busy(n)
    BY <1>1, <1>3 DEF SrcMoved, Busy
  <2>2. \A x, y \in Nodes : Paired(x, y)' <=> Paired(x, y)
    BY <1>1, <1>3 DEF SrcMoved, Paired
  <2>3. \A n \in Nodes : src'[n].pc \notin {"idle", "acquire"} => src'[n].dest \in Nodes
    BY <1>1, <1>2, <1>3 DEF SrcMoved, Acquired
  <2> QED
    BY <1>1, <1>2, <1>5, <1>11, <2>1, <2>2, <2>3 DEF Acquired
<1>13. SameStage(s) /\ (Staying(s)' <=> Staying(s)) /\ (Leaving(s)' <=> Leaving(s)) /\ src'[s].pc = "clean"
  BY <1>1, <1>3 DEF SameStage, Announced, Skipped, Copied, Left, SrcMoved, Staying, Leaving
<1>14. Talk(s, d)'
  BY <1>2, <1>5, <1>6, <1>13, TalkKept
<1>15. Loading(s, d)'
  BY <1>2, <1>3, <1>5, <1>6, <1>13, LoadingKept DEF SrcMoved, Only, SameStage
<1>16. Quiet(s, d)'
  BY <1>2, <1>5, QuietKept DEF Quiet
<1>17. (Landed(s, d)' <=> Landed(s, d)) /\ (Left(s)' <=> Left(s)) /\ Left(s)
  BY <1>1, <1>5, <1>13 DEF Landed, Finished, SameStage, Left
<1>18. Where(s, d)'
  BY <1>1, <1>2, <1>5, <1>6, <1>13, <1>17 DEF Where
<1>19. Seated(s, d)'
  BY <1>1, <1>2, <1>5, <1>13, <1>17 DEF Seated, Stopped, Staying, Leaving, Skipped
<1> QED
  BY <1>9, <1>10, <1>12, <1>14, <1>15, <1>16, <1>18, <1>19, StayInRound

LEMMA SetCleaningStep ==
  ASSUME MigrationInv, NEW s \in Nodes, SetCleaning(s)
  PROVE  MigrationInv'
<1>1. PICK d \in Nodes : d = src[s].dest /\ src[s].pc = "clean" /\ Paired(s, d)
  BY AtSource DEF SetCleaning, SrcAt
<1>2. /\ Types /\ SentSoFar /\ Acquired /\ Only(s, d)
      /\ Talk(s, d) /\ Loading(s, d) /\ Quiet(s, d) /\ Where(s, d) /\ Seated(s, d)
  BY <1>1, InRound
<1>3. SrcMoved(s, "approval", src[s].sent, src[s].waitFor) /\ src[s].sent = Parts /\ Parts # {}
  BY <1>1, <1>2, SrcMove, PartsFacts DEF SetCleaning, SrcPcs, SentSoFar
<1>4. /\ UNCHANGED <<heap, rcu, loadCnt, th, dst, auxh, chan, auxchan, back, acquired, loc, toCtl, rounds>>
      /\ status' = [status EXCEPT ![s] = "cleaning"]
  BY DEF SetCleaning, ctlVars, chanVars
<1>5. CopyMsg' = CopyMsg /\ Holding' = Holding /\ BlockedMsg' = BlockedMsg /\ ReadyMsg' = ReadyMsg
  BY <1>4, SameMessages
<1>6. Types'
  BY <1>2, <1>3, <1>4 DEF Types, SrcMoved, Status
<1>7. SentSoFar'
  BY <1>1, <1>2, <1>3 DEF SentSoFar, SrcMoved
<1>8. Paired(s, d)' /\ Acquired'
  BY <1>1, <1>2, <1>3, <1>4, SrcRound DEF SrcPcs
<1>9. /\ SameStage(s) /\ Left(s) /\ Left(s)' /\ ~Staying(s) /\ ~Leaving(s) /\ ~Staying(s)' /\ ~Leaving(s)'
      /\ src'[s].pc = "approval"
  BY <1>1, <1>3 DEF SameStage, Announced, Skipped, Copied, Left, SrcMoved, Staying, Leaving
<1>10. Talk(s, d)'
  BY <1>2, <1>4, <1>5, <1>9, TalkKept
<1>11. status'[s] = "cleaning" /\ \A n \in Nodes \ {s} : status'[n] = status[n]
  BY <1>2, <1>4 DEF Types
<1>12. Loading(s, d)'
  BY <1>2, <1>3, <1>4, <1>5, <1>9, <1>11, LoadingKept DEF SrcMoved, Only, SameStage
<1>13. Quiet(s, d)'
  BY <1>2, <1>4, QuietKept DEF Quiet
<1>14. Landed(s, d)' <=> Landed(s, d)
  BY <1>4, <1>9 DEF Landed, Finished
<1>15. Where(s, d)'
  BY <1>1, <1>2, <1>4, <1>5, <1>9, <1>11, <1>14 DEF Where, Only
<1>16. Seated(s, d)'
  BY <1>1, <1>2, <1>4, <1>9, <1>14 DEF Seated, Stopped
<1> QED
  BY <1>6, <1>7, <1>8, <1>10, <1>12, <1>13, <1>15, <1>16, StayInRound

---------------------------------------------------------------------------
(* The steps of the destination.                                           *)

LEMMA SomeRound ==
  ASSUME MigrationInv, ~Resting
  PROVE  \E s, d \in Nodes : Paired(s, d)
BY DEF MigrationInv

LEMMA AtDest ==
  ASSUME MigrationInv, NEW s \in Nodes, NEW d \in Nodes, NEW pc, pc # "idle", DstAt(d, s, pc)
  PROVE  Paired(s, d) /\ dst[d].pc = pc /\ dst[d].from = s
<1>1. dst[d].pc = pc /\ dst[d].from = s
  BY DEF DstAt
<1>2. PICK x, y \in Nodes : Paired(x, y)
  BY <1>1, SomeRound DEF Resting
<1>3. Quiet(x, y)
  BY <1>2, InRound
<1> QED
  BY <1>1, <1>2, <1>3 DEF Quiet

LEMMA AtMessage ==
  ASSUME MigrationInv, NEW s \in Nodes, NEW d \in Nodes, chan[<<s, d>>] # <<>>
  PROVE  Paired(s, d)
<1>1. PICK x, y \in Nodes : Paired(x, y)
  BY SomeRound DEF Resting
<1>2. Quiet(x, y)
  BY <1>1, InRound
<1> QED
  BY <1>1, <1>2 DEF Quiet

LEMMA QuietAtRest ==
  ASSUME Resting, NEW s \in Nodes, NEW d \in Nodes
  PROVE  \A a \in AuxConns : auxchan[<<s, d>>][a] = <<>>
BY DEF Resting

LEMMA AtAuxMessage ==
  ASSUME MigrationInv, NEW s \in Nodes, NEW d \in Nodes, NEW a \in AuxConns, auxchan[<<s, d>>][a] # <<>>
  PROVE  Paired(s, d)
<1>1. PICK x, y \in Nodes : Paired(x, y)
  <2>1. ~Resting
    BY QuietAtRest
  <2> QED
    BY <2>1, SomeRound
<1>2. Quiet(x, y)
  BY <1>1, InRound
<1> QED
  BY <1>1, <1>2 DEF Quiet

LEMMA AtAux ==
  ASSUME MigrationInv, NEW d \in Nodes, NEW a \in AuxConns, auxh[d][a].pc # "idle"
  PROVE  \E s \in Nodes : Paired(s, d) /\ auxh[d][a].from = s /\ auxchan[<<s, d>>][a] # <<>>
<1>1. PICK x, y \in Nodes : Paired(x, y)
  BY SomeRound DEF Resting
<1>2. Quiet(x, y)
  BY <1>1, InRound
<1> QED
  BY <1>1, <1>2 DEF Quiet

LEMMA DstOn ==
  ASSUME MigrationInv, NEW s \in Nodes, NEW d \in Nodes, Paired(s, d),
         UNCHANGED <<src, acquired, toCtl>>, Types',
         Talk(s, d)', Loading(s, d)', Quiet(s, d)', Where(s, d)', Seated(s, d)'
  PROVE  MigrationInv'
<1>1. SentSoFar /\ Acquired
  BY InRound
<1>2. Paired(s, d)' /\ Acquired' /\ SentSoFar'
  BY <1>1, SrcSame
<1> QED
  BY <1>2, StayInRound

LEMMA QuietDst ==
  ASSUME NEW s \in Nodes, NEW d \in Nodes, NEW pc, Quiet(s, d), DstMoved(d, pc), dst[d].pc # "idle",
         UNCHANGED <<auxh, chan, auxchan, back>>, \A n \in Nodes \ {d} : loadCnt'[n] = loadCnt[n]
  PROVE  Quiet(s, d)'
<1>1. \A n \in Nodes \ {d} : dst'[n] = dst[n] /\ loadCnt'[n] = loadCnt[n] /\ auxh'[n] = auxh[n]
  BY DEF DstMoved
<1>2. dst'[d].from = s
  BY DEF DstMoved, Quiet
<1>3. \A a \in AuxConns : auxh[d][a].pc # "idle" => auxh[d][a].from = s /\ auxchan[<<s, d>>][a] # <<>>
  BY DEF Quiet
<1> QED
  BY <1>1, <1>2, <1>3, QuietKept

LEMMA StagesKept ==
  ASSUME NEW s \in Nodes, UNCHANGED src
  PROVE  /\ (Staying(s)' <=> Staying(s)) /\ (Leaving(s)' <=> Leaving(s)) /\ (Left(s)' <=> Left(s))
         /\ (Skipped(s)' <=> Skipped(s)) /\ (Announced(s)' <=> Announced(s))
         /\ (Copied(s)' <=> Copied(s)) /\ (Stopped(s)' <=> Stopped(s))
BY DEF Staying, Leaving, Left, Skipped, Announced, Copied, Stopped

LEMMA Stages ==
  ASSUME NEW s \in Nodes, NEW d \in Nodes, Types, SentSoFar, Paired(s, d)
  PROVE  /\ src[s].pc = "tasks" \/ Announced(s) \/ Skipped(s) \/ Copied(s) \/ Left(s)
         /\ Left(s) => ~Skipped(s) /\ ~Announced(s) /\ ~Copied(s) /\ ~Staying(s) /\ ~Leaving(s) /\ ~Stopped(s)
                       /\ src[s].sent = Parts /\ src[s].pc # "tasks"
         /\ Copied(s) => ~Skipped(s) /\ ~Announced(s) /\ ~Staying(s) /\ Leaving(s) /\ Stopped(s)
                         /\ src[s].pc # "tasks" /\ Main \in src[s].sent
         /\ Skipped(s) => ~Announced(s) /\ Staying(s) /\ ~Leaving(s) /\ src[s].sent = {} /\ src[s].pc # "tasks"
         /\ Announced(s) => src[s].pc # "tasks" /\ (Staying(s) \/ Leaving(s)) /\ Main \notin src[s].sent
         /\ src[s].pc = "tasks" => Staying(s) /\ src[s].sent = {}
<1>1. src[s].pc \in SrcPcs /\ src[s].pc \notin {"idle", "acquire"}
  BY DEF Types, SrcRec, Paired
<1>2. Main \in Parts
  BY PartsFacts
<1> QED
  BY <1>1, <1>2 DEF Staying, Leaving, Left, Skipped, Announced, Copied, Stopped, SrcPcs, SentSoFar

(* The main connection of a round, after the destination read from it.     *)
LEMMA ReceiveMove ==
  ASSUME MigrationInv, NEW s \in Nodes, NEW d \in Nodes, Paired(s, d), Receive(s, d),
         UNCHANGED <<back, auxchan>>
  PROVE  /\ ChanMoved(s, d, Tail(chan[<<s, d>>]))
         /\ \A x, y \in Nodes : x # s \/ y # d =>
              /\ chan'[<<x, y>>] = chan[<<x, y>>] /\ back'[<<y, x>>] = back[<<y, x>>]
              /\ auxchan'[<<x, y>>] = auxchan[<<x, y>>]
<1>1. Types
  BY InRound
<1>2. ChanMoved(s, d, Tail(chan[<<s, d>>]))
  BY <1>1, ChanMove DEF Receive
<1> QED
  BY <1>2 DEF ChanMoved

LEMMA ReceiveTasksStep ==
  ASSUME MigrationInv, NEW s \in Nodes, NEW d \in Nodes, ReceiveTasks(d, s)
  PROVE  MigrationInv'
<1>1. chan[<<s, d>>] # <<>> /\ Head(chan[<<s, d>>]).kind = "tasks" /\ dst[d].pc = "idle" /\ Paired(s, d)
  BY AtMessage DEF ReceiveTasks, Arrived
<1>2. /\ Types /\ SentSoFar /\ Acquired /\ Only(s, d)
      /\ Talk(s, d) /\ Loading(s, d) /\ Quiet(s, d) /\ Where(s, d) /\ Seated(s, d)
  BY <1>1, InRound
<1>3. UNCHANGED <<status, heap, rcu, loadCnt, th, src, auxh, auxchan, back, acquired, loc, toCtl, rounds>>
  BY DEF ReceiveTasks, ctlVars
<1>4. /\ ChanMoved(s, d, Tail(chan[<<s, d>>]))
      /\ \A x, y \in Nodes : x # s \/ y # d =>
           /\ chan'[<<x, y>>] = chan[<<x, y>>] /\ back'[<<y, x>>] = back[<<y, x>>]
           /\ auxchan'[<<x, y>>] = auxchan[<<x, y>>]
  BY <1>1, <1>3, ReceiveMove DEF ReceiveTasks
<1>5. /\ dst' \in [Nodes -> DstRec] /\ dst'[d].pc = "populate" /\ dst'[d].from = s
      /\ \A n \in Nodes \ {d} : dst'[n] = dst[n]
  <2>1. dst \in [Nodes -> DstRec] /\ [pc |-> "populate", from |-> s] \in DstRec
    BY <1>2 DEF Types, DstRec, DstPcs
  <2> QED
    BY <2>1 DEF ReceiveTasks
<1>6. CopyMsg' = CopyMsg /\ Holding' = Holding /\ BlockedMsg' = BlockedMsg /\ ReadyMsg' = ReadyMsg
  BY <1>3, SameMessages
<1>7. Types'
  BY <1>2, <1>3, <1>4, <1>5 DEF Types, ChanMoved
<1>8. /\ src[s].pc # "tasks" /\ back[<<d, s>>] = <<>>
      /\ Announced(s) => chan[<<s, d>>] = <<TasksMsg>>
      /\ Skipped(s) => chan[<<s, d>>] = <<TasksMsg, SkipMsg>>
      /\ Copied(s) => chan[<<s, d>>] = <<TasksMsg, CopyMsg>>
      /\ Left(s) => chan[<<s, d>>] = <<TasksMsg, CopyMsg, BlockedMsg, ReadyMsg>>
  BY <1>1, <1>2, Stages DEF Talk, Told, Over
<1>9. /\ Announced(s) => chan'[<<s, d>>] = <<>>
      /\ Skipped(s) => chan'[<<s, d>>] = <<SkipMsg>>
      /\ Copied(s) => chan'[<<s, d>>] = <<CopyMsg>>
      /\ Left(s) => chan'[<<s, d>>] = <<CopyMsg, BlockedMsg, ReadyMsg>>
  BY <1>4, <1>8, ReadingTalk DEF ChanMoved
<1>10. Talk(s, d)'
  BY <1>3, <1>5, <1>6, <1>8, <1>9, StagesKept DEF Talk, Told, SkipMsg
<1>11. /\ Loaded(s, d)' = Loaded(s, d) /\ ~Whole(s, d) /\ ~Whole(s, d)'
       /\ ~Landed(s, d) /\ ~Landed(s, d)'
  BY <1>1, <1>3, <1>5, <1>8, StagesKept DEF Loaded, Whole, Finished, Landed
<1>12. Loading(s, d)'
  BY <1>1, <1>2, <1>3, <1>5, <1>6, <1>11 DEF Loading
<1>13. Quiet(s, d)'
  <2>1. \A a \in AuxConns : auxh[d][a].pc # "idle" => auxh[d][a].from = s /\ auxchan[<<s, d>>][a] # <<>>
    BY <1>2 DEF Quiet
  <2> QED
    BY <1>2, <1>3, <1>4, <1>5, <2>1, QuietKept
<1>14. Where(s, d)'
  BY <1>2, <1>3, <1>6, <1>11, StagesKept DEF Where
<1>15. Seated(s, d)'
  BY <1>1, <1>2, <1>3, <1>5, <1>11, StagesKept DEF Seated
<1> QED
  BY <1>1, <1>3, <1>7, <1>10, <1>12, <1>13, <1>14, <1>15, DstOn

LEMMA PopulateStep ==
  ASSUME MigrationInv, NEW s \in Nodes, NEW d \in Nodes, Populate(d, s)
  PROVE  MigrationInv'
<1>1. Paired(s, d) /\ dst[d].pc = "populate"
  BY AtDest DEF Populate
<1>2. /\ Types /\ SentSoFar /\ Acquired /\ Only(s, d)
      /\ Talk(s, d) /\ Loading(s, d) /\ Quiet(s, d) /\ Where(s, d) /\ Seated(s, d)
  BY <1>1, InRound
<1>3. /\ UNCHANGED <<heap, rcu, loadCnt, th, src, auxh, chan, auxchan, back, acquired, loc, toCtl, rounds>>
      /\ status' = [status EXCEPT ![d] = "populating"]
  BY DEF Populate, ctlVars, chanVars
<1>4. DstMoved(d, "load")
  BY <1>2, DstMove DEF Populate, DstPcs
<1>5. CopyMsg' = CopyMsg /\ Holding' = Holding /\ BlockedMsg' = BlockedMsg /\ ReadyMsg' = ReadyMsg
  BY <1>3, SameMessages
<1>6. Types'
  BY <1>2, <1>3, <1>4 DEF Types, Status, DstMoved
<1>7. back[<<d, s>>] = <<>> /\ src[s].pc # "tasks"
  BY <1>1, <1>2, Stages DEF Talk, Told, Over
<1>8. Talk(s, d)'
  BY <1>1, <1>2, <1>3, <1>4, <1>5, <1>7, StagesKept DEF Talk, Told, Over, SkipMsg, DstMoved
<1>9. /\ Loaded(s, d)' = Loaded(s, d) /\ ~Whole(s, d) /\ ~Whole(s, d)'
      /\ ~Landed(s, d) /\ ~Landed(s, d)'
  BY <1>1, <1>3, <1>4, <1>7, StagesKept DEF Loaded, Whole, Finished, Landed, DstMoved
<1>10. status'[d] = "populating" /\ \A n \in Nodes \ {d} : status'[n] = status[n]
  BY <1>2, <1>3 DEF Types
<1>11. Loading(s, d)'
  BY <1>1, <1>2, <1>3, <1>4, <1>5, <1>9, <1>10 DEF Loading, DstMoved
<1>12. Quiet(s, d)'
  BY <1>1, <1>2, <1>3, <1>4, QuietKept DEF Quiet, DstMoved
<1>13. Where(s, d)'
  BY <1>2, <1>3, <1>5, <1>9, <1>10, StagesKept DEF Where, Only
<1>14. Seated(s, d)'
  BY <1>1, <1>2, <1>3, <1>4, <1>9, StagesKept DEF Seated, DstMoved
<1> QED
  BY <1>1, <1>3, <1>6, <1>8, <1>11, <1>12, <1>13, <1>14, DstOn

LEMMA LoadSkippedStep ==
  ASSUME MigrationInv, NEW s \in Nodes, NEW d \in Nodes, LoadSkipped(d, s)
  PROVE  MigrationInv'
<1>1. /\ Paired(s, d) /\ dst[d].pc = "load"
      /\ chan[<<s, d>>] # <<>> /\ Head(chan[<<s, d>>]).kind = "skip"
  BY AtDest DEF LoadSkipped, Arrived
<1>2. /\ Types /\ SentSoFar /\ Acquired /\ Only(s, d)
      /\ Talk(s, d) /\ Loading(s, d) /\ Quiet(s, d) /\ Where(s, d) /\ Seated(s, d)
  BY <1>1, InRound
<1>3. /\ UNCHANGED <<heap, rcu, loadCnt, th, src, auxh, auxchan, back, acquired, loc, toCtl, rounds>>
      /\ status' = [status EXCEPT ![d] = "depopulating"]
  BY DEF LoadSkipped, ctlVars
<1>4. DstMoved(d, "approve")
  BY <1>2, DstMove DEF LoadSkipped, DstPcs
<1>5. /\ ChanMoved(s, d, Tail(chan[<<s, d>>]))
      /\ \A x, y \in Nodes : x # s \/ y # d =>
           /\ chan'[<<x, y>>] = chan[<<x, y>>] /\ back'[<<y, x>>] = back[<<y, x>>]
           /\ auxchan'[<<x, y>>] = auxchan[<<x, y>>]
  BY <1>1, <1>3, ReceiveMove DEF LoadSkipped
<1>6. CopyMsg' = CopyMsg /\ Holding' = Holding
  BY <1>3, SameMessages
<1>7. Types'
  BY <1>2, <1>3, <1>4, <1>5 DEF Types, Status, DstMoved, ChanMoved
<1>8. Skipped(s) /\ chan[<<s, d>>] = <<SkipMsg>> /\ back[<<d, s>>] = <<>>
  BY <1>1, <1>2, Stages, ReadingTalk, Kinds DEF Talk, Told, Over
<1>9. /\ src[s].pc # "tasks" /\ ~Announced(s) /\ ~Copied(s) /\ ~Left(s) /\ Staying(s) /\ ~Leaving(s)
      /\ src[s].sent = {}
  BY <1>1, <1>2, <1>8, Stages
<1>10. chan'[<<s, d>>] = <<>>
  BY <1>5, <1>8, ReadingTalk DEF ChanMoved
<1>11. Talk(s, d)'
  BY <1>3, <1>4, <1>8, <1>9, <1>10, StagesKept DEF Talk, Told, DstMoved
<1>12. /\ Loaded(s, d) = {} /\ Loaded(s, d)' = {} /\ ~Whole(s, d) /\ ~Whole(s, d)'
       /\ ~Landed(s, d) /\ ~Landed(s, d)'
  BY <1>1, <1>3, <1>4, <1>8, <1>9, StagesKept DEF Loaded, Whole, Finished, Landed, DstMoved
<1>13. status'[d] = "depopulating" /\ \A n \in Nodes \ {d} : status'[n] = status[n]
  BY <1>2, <1>3 DEF Types
<1>14. \A a \in AuxConns : auxchan[<<s, d>>][a] = <<>>
  BY <1>2, <1>9 DEF Loading
<1>15. \A a \in AuxConns : auxh[d][a].pc = "idle"
  BY <1>2, <1>14 DEF Quiet
<1>16. Loading(s, d)'
  BY <1>1, <1>2, <1>3, <1>4, <1>6, <1>12, <1>13, <1>14, <1>15 DEF Loading, DstMoved
<1>17. Quiet(s, d)'
  BY <1>1, <1>2, <1>3, <1>4, <1>5, <1>15, QuietKept DEF Quiet, DstMoved
<1>18. Where(s, d)'
  BY <1>2, <1>3, <1>6, <1>9, <1>12, <1>13, StagesKept DEF Where, Only
<1>19. Seated(s, d)'
  BY <1>1, <1>2, <1>3, <1>4, <1>9, <1>12, StagesKept DEF Seated, DstMoved
<1> QED
  BY <1>1, <1>3, <1>7, <1>11, <1>16, <1>17, <1>18, <1>19, DstOn

LEMMA ExpectChunksStep ==
  ASSUME MigrationInv, NEW s \in Nodes, NEW d \in Nodes, ExpectChunks(d, s)
  PROVE  MigrationInv'
<1>1. Paired(s, d) /\ dst[d].pc = "count"
  BY AtDest DEF ExpectChunks
<1>2. /\ Types /\ SentSoFar /\ Acquired /\ Only(s, d)
      /\ Talk(s, d) /\ Loading(s, d) /\ Quiet(s, d) /\ Where(s, d) /\ Seated(s, d)
  BY <1>1, InRound
<1>3. /\ UNCHANGED <<status, heap, rcu, th, src, auxh, chan, auxchan, back, acquired, loc, toCtl, rounds>>
      /\ loadCnt' = [loadCnt EXCEPT ![d] = @ + NumChunks]
  BY DEF ExpectChunks, ctlVars, chanVars
<1>4. DstMoved(d, "spin")
  BY <1>2, DstMove DEF ExpectChunks, DstPcs
<1>5. CopyMsg' = CopyMsg /\ Holding' = Holding /\ BlockedMsg' = BlockedMsg /\ ReadyMsg' = ReadyMsg
  BY <1>3, SameMessages
<1>6. /\ loadCnt' \in [Nodes -> Int] /\ loadCnt'[d] = loadCnt[d] + NumChunks
      /\ \A n \in Nodes \ {d} : loadCnt'[n] = loadCnt[n]
  BY <1>2, <1>3, PartsFacts DEF Types
<1>7. Types'
  BY <1>2, <1>3, <1>4, <1>6 DEF Types, DstMoved
<1>8. back[<<d, s>>] = <<>> /\ src[s].pc # "tasks" /\ ~Announced(s) /\ ~Skipped(s)
  BY <1>1, <1>2, Stages DEF Talk, Told, Over
<1>9. Talk(s, d)'
  BY <1>1, <1>2, <1>3, <1>4, <1>5, <1>8, StagesKept DEF Talk, Told, Over, DstMoved
<1>10. /\ Loaded(s, d)' = Loaded(s, d) /\ ~Whole(s, d) /\ ~Whole(s, d)'
       /\ ~Landed(s, d) /\ ~Landed(s, d)'
  BY <1>1, <1>3, <1>4, <1>8, StagesKept DEF Loaded, Whole, Finished, Landed, DstMoved
<1>11. loadCnt'[d] = NumChunks - Cardinality(Loaded(s, d))
  <2>1. loadCnt[d] = 0 - Cardinality(Loaded(s, d)) /\ loadCnt[d] \in Int
    BY <1>1, <1>2, <1>10 DEF Loading, Types
  <2>2. Cardinality(Loaded(s, d)) \in Nat
    <3>1. Loaded(s, d) \subseteq Parts
      BY PartsFacts DEF Loaded
    <3> QED
      BY <3>1, PartsFacts, FS_Subset, FS_CardinalityType
  <2> QED
    BY <1>6, <2>1, <2>2, PartsFacts
<1>12. dst'[d].pc = "spin"
  BY <1>4 DEF DstMoved
<1>13. Loading(s, d)'
  BY <1>1, <1>2, <1>3, <1>5, <1>10, <1>11, <1>12 DEF Loading
<1>14. Quiet(s, d)'
  <2>1. UNCHANGED <<auxh, chan, auxchan, back>>
    BY <1>3
  <2> QED
    BY <1>1, <1>2, <1>4, <1>6, <2>1, QuietDst
<1>15. Where(s, d)'
  BY <1>2, <1>3, <1>5, <1>10, StagesKept DEF Where
<1>16. Seated(s, d)'
  BY <1>1, <1>2, <1>3, <1>10, <1>12, StagesKept DEF Seated
<1> QED
  BY <1>1, <1>3, <1>7, <1>9, <1>13, <1>14, <1>15, <1>16, DstOn

LEMMA ChunksLoadedStep ==
  ASSUME MigrationInv, NEW s \in Nodes, NEW d \in Nodes, ChunksLoaded(d, s)
  PROVE  MigrationInv'
<1>1. Paired(s, d) /\ dst[d].pc = "spin" /\ loadCnt[d] = 0
  BY AtDest DEF ChunksLoaded, AllLoaded
<1>2. /\ Types /\ SentSoFar /\ Acquired /\ Only(s, d)
      /\ Talk(s, d) /\ Loading(s, d) /\ Quiet(s, d) /\ Where(s, d) /\ Seated(s, d)
  BY <1>1, InRound
<1>3. UNCHANGED <<status, heap, rcu, loadCnt, th, src, auxh, chan, auxchan, back, acquired, loc, toCtl, rounds>>
  BY DEF ChunksLoaded, ctlVars, chanVars
<1>4. DstMoved(d, "blocked")
  BY <1>2, DstMove DEF ChunksLoaded, DstPcs
<1>5. CopyMsg' = CopyMsg /\ Holding' = Holding /\ BlockedMsg' = BlockedMsg /\ ReadyMsg' = ReadyMsg
  BY <1>3, SameMessages
<1>6. Types'
  BY <1>2, <1>3, <1>4 DEF Types, DstMoved
<1>7. back[<<d, s>>] = <<>> /\ src[s].pc # "tasks" /\ ~Announced(s) /\ ~Skipped(s)
  BY <1>1, <1>2, Stages DEF Talk, Told, Over
<1>8. Talk(s, d)'
  BY <1>1, <1>2, <1>3, <1>4, <1>5, <1>7, StagesKept DEF Talk, Told, Over, DstMoved
<1>9. ~Whole(s, d) /\ Whole(s, d)' /\ ~Landed(s, d) /\ ~Landed(s, d)'
  BY <1>1, <1>3, <1>4, <1>7, StagesKept DEF Whole, Finished, Landed, DstMoved
<1>10. Loaded(s, d) = Parts
  <2>1. NumChunks - Cardinality(Loaded(s, d)) = 0
    BY <1>1, <1>2, <1>9 DEF Loading
  <2>2. Loaded(s, d) \subseteq Parts
    BY PartsFacts DEF Loaded
  <2>3. Cardinality(Loaded(s, d)) \in Nat
    BY <2>2, PartsFacts, FS_Subset, FS_CardinalityType
  <2>4. Cardinality(Loaded(s, d)) = Cardinality(Parts)
    BY <2>1, <2>3, PartsFacts
  <2> QED
    BY <2>2, <2>4, PartsFacts, FS_Subset
<1>11. /\ heap[d] = Parts /\ rcu[d] = Holding /\ status[d] \notin {"cleaning", "depopulating"}
  <2>1. heap[d] \subseteq Parts
    BY <1>2 DEF Types
  <2> QED
    BY <1>2, <1>9, <1>10, <2>1, PartsFacts, NoNode DEF Loading
<1>12. \A a \in AuxConns : a \in src[s].sent /\ auxchan[<<s, d>>][a] = <<>>
  <2>1. \A a \in AuxConns : a \in Loaded(s, d) /\ a # Main
    BY <1>10, PartsFacts, NoNode
  <2> QED
    BY <2>1 DEF Loaded
<1>13. Loading(s, d)'
  BY <1>1, <1>3, <1>5, <1>9, <1>11, <1>12 DEF Loading
<1>14. Quiet(s, d)'
  BY <1>1, <1>2, <1>3, <1>4, QuietKept DEF Quiet, DstMoved
<1>15. Where(s, d)'
  BY <1>2, <1>3, <1>5, <1>9, StagesKept DEF Where
<1>16. Seated(s, d)'
  BY <1>1, <1>2, <1>3, <1>4, <1>9, StagesKept DEF Seated, DstMoved
<1> QED
  BY <1>1, <1>3, <1>6, <1>8, <1>13, <1>14, <1>15, <1>16, DstOn

LEMMA InsertPresentStep ==
  ASSUME MigrationInv, NEW s \in Nodes, NEW d \in Nodes, InsertPresent(d, s)
  PROVE  MigrationInv'
<1>1. Paired(s, d) /\ dst[d].pc = "insert"
  BY AtDest DEF InsertPresent
<1>2. /\ Types /\ SentSoFar /\ Acquired /\ Only(s, d)
      /\ Talk(s, d) /\ Loading(s, d) /\ Quiet(s, d) /\ Where(s, d) /\ Seated(s, d)
  BY <1>1, InRound
<1>3. /\ UNCHANGED <<heap, rcu, loadCnt, th, src, auxh, chan, auxchan, back, acquired, loc, toCtl, rounds>>
      /\ status' = [status EXCEPT ![d] = "present"]
  BY DEF InsertPresent, ctlVars, chanVars
<1>4. DstMoved(d, "ready")
  BY <1>2, DstMove DEF InsertPresent, DstPcs
<1>5. CopyMsg' = CopyMsg /\ Holding' = Holding /\ BlockedMsg' = BlockedMsg /\ ReadyMsg' = ReadyMsg
  BY <1>3, SameMessages
<1>6. Types'
  BY <1>2, <1>3, <1>4 DEF Types, Status, DstMoved
<1>7. /\ Left(s) /\ Told(s, d, {"insert", "ready"}, <<ReadyMsg>>) /\ src[s].pc # "tasks"
      /\ ~Announced(s) /\ ~Skipped(s) /\ ~Copied(s) /\ ~Staying(s) /\ ~Leaving(s)
  BY <1>1, <1>2, Stages DEF Talk, Told, Over
<1>8. Talk(s, d)'
  BY <1>3, <1>4, <1>5, <1>7, StagesKept DEF Talk, Told, DstMoved
<1>9. /\ Whole(s, d) /\ Whole(s, d)' /\ ~Landed(s, d) /\ Landed(s, d)' /\ dst'[d].pc = "ready"
  BY <1>1, <1>3, <1>4, <1>7, StagesKept DEF Whole, Finished, Landed, DstMoved, Told
<1>10. status'[d] = "present" /\ \A n \in Nodes \ {d} : status'[n] = status[n]
  BY <1>2, <1>3 DEF Types
<1>11. Loading(s, d)'
  BY <1>1, <1>2, <1>3, <1>5, <1>9, <1>10 DEF Loading
<1>12. Quiet(s, d)'
  BY <1>1, <1>2, <1>3, <1>4, QuietDst
<1>13. Where(s, d)'
  BY <1>2, <1>3, <1>5, <1>7, <1>9, <1>10, StagesKept DEF Where, Only
<1>14. Seated(s, d)'
  BY <1>1, <1>2, <1>3, <1>9, StagesKept DEF Seated
<1> QED
  BY <1>1, <1>3, <1>6, <1>8, <1>11, <1>12, <1>13, <1>14, DstOn

LEMMA FinalApprovalStep ==
  ASSUME MigrationInv, NEW s \in Nodes, NEW d \in Nodes, FinalApproval(d, s)
  PROVE  MigrationInv'
<1>1. Paired(s, d) /\ dst[d].pc = "approve"
  BY AtDest DEF FinalApproval
<1>2. /\ Types /\ SentSoFar /\ Acquired /\ Only(s, d)
      /\ Talk(s, d) /\ Loading(s, d) /\ Quiet(s, d) /\ Where(s, d) /\ Seated(s, d)
  BY <1>1, InRound
<1>3. /\ UNCHANGED <<status, heap, rcu, loadCnt, th, src, auxh, chan, auxchan, acquired, loc, toCtl, rounds>>
      /\ back' = [back EXCEPT ![<<d, s>>] = Append(@, "approve")]
  BY DEF FinalApproval, ctlVars
<1>4. /\ dst' \in [Nodes -> DstRec] /\ dst'[d].pc = "idle" /\ \A n \in Nodes \ {d} : dst'[n] = dst[n]
  <2>1. dst \in [Nodes -> DstRec] /\ IdleDst \in DstRec /\ IdleDst.pc = "idle"
    BY <1>2 DEF Types, DstRec, DstPcs, IdleDst
  <2> QED
    BY <2>1 DEF FinalApproval
<1>5. CopyMsg' = CopyMsg /\ Holding' = Holding /\ BlockedMsg' = BlockedMsg /\ ReadyMsg' = ReadyMsg
  BY <1>3, SameMessages
<1>6. /\ back' = [p \in Pairs |-> back'[p]]
      /\ back'[<<d, s>>] = Append(back[<<d, s>>], "approve")
      /\ \A x, y \in Nodes : x # s \/ y # d => back'[<<y, x>>] = back[<<y, x>>]
  <2>1. back = [p \in Pairs |-> back[p]]
    BY <1>2 DEF Types
  <2>2. DOMAIN back = Pairs
    BY <2>1
  <2> QED
    BY <1>3, <2>1, <2>2 DEF Pairs
<1>7. Types'
  BY <1>2, <1>3, <1>4, <1>6 DEF Types
<1>8. Skipped(s) \/ Left(s)
  BY <1>1, <1>2, Stages DEF Talk, Told, Over
<1>9. chan[<<s, d>>] = <<>> /\ back[<<d, s>>] = <<>>
  BY <1>1, <1>2, <1>8 DEF Talk, Told, Over
<1>10. src[s].pc # "tasks" /\ ~Announced(s) /\ ~Copied(s) /\ ~Leaving(s)
  BY <1>1, <1>2, <1>8, Stages
<1>11. back'[<<d, s>>] = <<"approve">> /\ <<"approve">> # <<>>
  BY <1>6, <1>9, Writing, ReadingOne
<1>12. Talk(s, d)'
  BY <1>3, <1>4, <1>8, <1>9, <1>10, <1>11, StagesKept DEF Talk, Over
<1>13. /\ Whole(s, d)' <=> Whole(s, d)
       /\ Landed(s, d)' <=> Landed(s, d)
       /\ Left(s) => Landed(s, d)
       /\ Loaded(s, d)' = Loaded(s, d)
  BY <1>1, <1>3, <1>4, <1>9, <1>11, StagesKept DEF Whole, Finished, Landed, Loaded
<1>14. Loading(s, d)'
  BY <1>1, <1>2, <1>3, <1>4, <1>5, <1>13 DEF Loading
<1>15. Quiet(s, d)'
  <2>1. \A n \in Nodes \ {d} : dst'[n] = dst[n] /\ loadCnt'[n] = loadCnt[n] /\ auxh'[n] = auxh[n]
    BY <1>3, <1>4
  <2>2. \A a \in AuxConns : auxh[d][a].pc # "idle" => auxh[d][a].from = s /\ auxchan[<<s, d>>][a] # <<>>
    BY <1>2 DEF Quiet
  <2>3. \A x, y \in Nodes : x # s \/ y # d =>
          /\ chan'[<<x, y>>] = chan[<<x, y>>] /\ back'[<<y, x>>] = back[<<y, x>>]
          /\ auxchan'[<<x, y>>] = auxchan[<<x, y>>]
    BY <1>3, <1>6
  <2>4. \A a \in AuxConns : auxh'[d][a].pc # "idle" => auxh'[d][a].from = s /\ auxchan'[<<s, d>>][a] # <<>>
    BY <1>3, <2>2
  <2> QED
    BY <1>2, <1>4, <2>1, <2>3, <2>4, QuietKept
<1>16. Where(s, d)'
  BY <1>2, <1>3, <1>5, <1>13, StagesKept DEF Where
<1>17. Seated(s, d)'
  BY <1>1, <1>2, <1>3, <1>4, <1>13, StagesKept DEF Seated
<1> QED
  BY <1>1, <1>3, <1>7, <1>12, <1>14, <1>15, <1>16, <1>17, DstOn

LEMMA AuxHeaderStep ==
  ASSUME MigrationInv, NEW s \in Nodes, NEW d \in Nodes, NEW a \in AuxConns, AuxHeader(d, a, s)
  PROVE  MigrationInv'
<1>1. Paired(s, d) /\ auxchan[<<s, d>>][a] # <<>>
  BY AtAuxMessage DEF AuxHeader
<1>2. /\ Types /\ SentSoFar /\ Acquired /\ Only(s, d)
      /\ Talk(s, d) /\ Loading(s, d) /\ Quiet(s, d) /\ Where(s, d) /\ Seated(s, d)
  BY <1>1, InRound
<1>3. UNCHANGED <<status, heap, rcu, loadCnt, th, src, dst, chan, auxchan, back, acquired, loc, toCtl, rounds>>
  BY DEF AuxHeader, ctlVars, chanVars
<1>4. /\ auxh' \in [Nodes -> [AuxConns -> AuxRec]]
      /\ \A n \in Nodes \ {d} : auxh'[n] = auxh[n]
      /\ \A b \in AuxConns \ {a} : auxh'[d][b] = auxh[d][b]
      /\ auxh'[d][a].from = s
      /\ auxh'[d][a].pc = "payload" => status[d] \notin {"cleaning", "depopulating"}
  <2> DEFINE r == [pc |-> IF status[d] \in {"depopulating", "cleaning"} THEN "settle" ELSE "payload",
                   from |-> s]
  <2>1. r \in AuxRec /\ r.from = s /\ (r.pc = "payload" => status[d] \notin {"cleaning", "depopulating"})
    BY DEF AuxRec
  <2>2. auxh' = [auxh EXCEPT ![d][a] = r] /\ auxh \in [Nodes -> [AuxConns -> AuxRec]]
    BY <1>2 DEF AuxHeader, Types
  <2> HIDE DEF r
  <2> QED
    BY <2>1, <2>2
<1>5. CopyMsg' = CopyMsg /\ Holding' = Holding /\ BlockedMsg' = BlockedMsg /\ ReadyMsg' = ReadyMsg
  BY <1>3, SameMessages
<1>6. Types'
  BY <1>2, <1>3, <1>4 DEF Types
<1>7. Talk(s, d)'
  BY <1>2, <1>3, <1>5, StagesKept DEF Talk, Told, Over, TasksMsg, SkipMsg
<1>8. /\ Loaded(s, d)' = Loaded(s, d) /\ (Whole(s, d)' <=> Whole(s, d)) /\ (Landed(s, d)' <=> Landed(s, d))
  BY <1>3, StagesKept DEF Loaded, Whole, Finished, Landed
<1>9. Loading(s, d)'
  <2>1. (\E b \in AuxConns : auxh'[d][b].pc = "payload") /\ ~Whole(s, d) =>
          status[d] \notin {"cleaning", "depopulating"}
    BY <1>2, <1>4 DEF Loading
  <2> QED
    BY <1>2, <1>3, <1>5, <1>8, <2>1 DEF Loading
<1>10. Quiet(s, d)'
  <2>1. \A b \in AuxConns : auxh'[d][b].pc # "idle" => auxh'[d][b].from = s /\ auxchan[<<s, d>>][b] # <<>>
    BY <1>1, <1>2, <1>4 DEF Quiet
  <2>2. dst[d].pc # "idle" => dst[d].from = s
    BY <1>2 DEF Quiet
  <2> QED
    BY <1>2, <1>3, <1>4, <2>1, <2>2, QuietKept
<1>11. Where(s, d)'
  BY <1>2, <1>3, <1>5, <1>8, StagesKept DEF Where
<1>12. Seated(s, d)'
  BY <1>2, <1>3, <1>8, StagesKept DEF Seated
<1> QED
  BY <1>1, <1>3, <1>6, <1>7, <1>9, <1>10, <1>11, <1>12, DstOn

LEMMA AuxSettleStep ==
  ASSUME MigrationInv, NEW d \in Nodes, NEW a \in AuxConns, AuxSettle(d, a)
  PROVE  MigrationInv'
<1>1. PICK s \in Nodes : Paired(s, d) /\ auxh[d][a].from = s /\ auxchan[<<s, d>>][a] # <<>>
  BY AtAux DEF AuxSettle
<1>2. /\ Types /\ SentSoFar /\ Acquired /\ Only(s, d)
      /\ Talk(s, d) /\ Loading(s, d) /\ Quiet(s, d) /\ Where(s, d) /\ Seated(s, d)
  BY <1>1, InRound
<1>3. UNCHANGED <<heap, rcu, loadCnt, th, src, dst, chan, auxchan, back, acquired, loc, toCtl, rounds>>
  BY DEF AuxSettle, ctlVars, chanVars
<1>4. /\ auxh' \in [Nodes -> [AuxConns -> AuxRec]]
      /\ \A n \in Nodes \ {d} : auxh'[n] = auxh[n]
      /\ \A b \in AuxConns \ {a} : auxh'[d][b] = auxh[d][b]
      /\ auxh'[d][a].from = s
  <2> DEFINE r == [auxh[d][a] EXCEPT !.pc = "payload"]
  <2>1. auxh \in [Nodes -> [AuxConns -> AuxRec]] /\ auxh[d][a] \in AuxRec
    BY <1>2 DEF Types
  <2>2. r \in AuxRec /\ r.from = s
    BY <1>1, <2>1 DEF AuxRec
  <2>3. auxh' = [auxh EXCEPT ![d][a] = r]
    BY DEF AuxSettle
  <2> HIDE DEF r
  <2> QED
    BY <2>1, <2>2, <2>3
<1>5. CopyMsg' = CopyMsg /\ Holding' = Holding /\ BlockedMsg' = BlockedMsg /\ ReadyMsg' = ReadyMsg
  BY <1>3, SameMessages
<1>6. status' \in [Nodes -> Status] /\ status'[d] = "absent" /\ \A n \in Nodes \ {d} : status'[n] = status[n]
  BY <1>2 DEF Types, AuxSettle, Status
<1>7. Types'
  BY <1>2, <1>3, <1>4, <1>6 DEF Types
<1>8. Talk(s, d)'
  BY <1>2, <1>3, <1>5, StagesKept DEF Talk, Told, Over, TasksMsg, SkipMsg
<1>9. /\ Loaded(s, d)' = Loaded(s, d) /\ (Whole(s, d)' <=> Whole(s, d)) /\ (Landed(s, d)' <=> Landed(s, d))
      /\ Landed(s, d) => Whole(s, d)
  BY <1>3, StagesKept DEF Loaded, Whole, Finished, Landed
<1>10. ~Whole(s, d)
  BY <1>1, <1>2 DEF Loading
<1>11. Loading(s, d)'
  BY <1>2, <1>3, <1>5, <1>6, <1>9, <1>10 DEF Loading
<1>12. Quiet(s, d)'
  <2>1. \A b \in AuxConns : auxh'[d][b].pc # "idle" => auxh'[d][b].from = s /\ auxchan[<<s, d>>][b] # <<>>
    BY <1>1, <1>2, <1>4 DEF Quiet
  <2>2. dst[d].pc # "idle" => dst[d].from = s
    BY <1>2 DEF Quiet
  <2> QED
    BY <1>2, <1>3, <1>4, <2>1, <2>2, QuietKept
<1>13. Where(s, d)'
  BY <1>2, <1>3, <1>5, <1>6, <1>9, <1>10, StagesKept DEF Where, Only
<1>14. Seated(s, d)'
  BY <1>2, <1>3, <1>9, StagesKept DEF Seated
<1> QED
  BY <1>1, <1>3, <1>7, <1>8, <1>11, <1>12, <1>13, <1>14, DstOn

(* A live chunk of the heap is put in place.                               *)
LEMMA Installing ==
  ASSUME Types, NEW d \in Nodes, NEW p \in Parts, Install(d, p, CopyMsg)
  PROVE  /\ heap' \in [Nodes -> SUBSET Parts] /\ rcu' \in [Nodes -> SUBSET Threads]
         /\ loadCnt' \in [Nodes -> Int]
         /\ heap'[d] = heap[d] \cup {p} /\ loadCnt'[d] = loadCnt[d] - 1
         /\ rcu'[d] = IF p = HeaderPart THEN Holding ELSE rcu[d]
         /\ \A n \in Nodes \ {d} : heap'[n] = heap[n] /\ rcu'[n] = rcu[n] /\ loadCnt'[n] = loadCnt[n]
<1>1. CopyMsg.live = TRUE /\ CopyMsg.rcu = Holding /\ Holding \in SUBSET Threads
  BY DEF CopyMsg, Holding
<1>2. heap' = [heap EXCEPT ![d] = heap[d] \cup {p}] /\ heap \in [Nodes -> SUBSET Parts]
  BY <1>1 DEF Install, Types
<1>3. loadCnt' = [loadCnt EXCEPT ![d] = loadCnt[d] - 1] /\ loadCnt \in [Nodes -> Int]
  BY DEF Install, Types
<1>4. /\ rcu' = IF p = HeaderPart THEN [rcu EXCEPT ![d] = Holding] ELSE rcu
      /\ rcu \in [Nodes -> SUBSET Threads]
  BY <1>1 DEF Install, Types
<1>5. /\ rcu' \in [Nodes -> SUBSET Threads]
      /\ rcu'[d] = IF p = HeaderPart THEN Holding ELSE rcu[d]
      /\ \A n \in Nodes \ {d} : rcu'[n] = rcu[n]
  BY <1>1, <1>4
<1>6. /\ heap' \in [Nodes -> SUBSET Parts] /\ heap'[d] = heap[d] \cup {p}
      /\ \A n \in Nodes \ {d} : heap'[n] = heap[n]
  BY <1>2
<1>7. /\ loadCnt' \in [Nodes -> Int] /\ loadCnt'[d] = loadCnt[d] - 1
      /\ \A n \in Nodes \ {d} : loadCnt'[n] = loadCnt[n]
  BY <1>3
<1> QED
  BY <1>5, <1>6, <1>7

LEMMA OneMore ==
  ASSUME NEW S \in SUBSET Parts, NEW p \in Parts, p \notin S
  PROVE  Cardinality(S \cup {p}) = Cardinality(S) + 1 /\ Cardinality(S) \in Nat
BY PartsFacts, FS_Subset, FS_AddElement, FS_CardinalityType

(* Loading goes on when one more part arrives, still not the last step.    *)
LEMMA LoadingOne ==
  ASSUME Types, NEW s \in Nodes, NEW d \in Nodes, Loading(s, d), NEW p \in Parts,
         Install(d, p, CopyMsg), ~Whole(s, d), ~Whole(s, d)',
         dst'[d].pc = "spin" <=> dst[d].pc = "spin",
         p \notin Loaded(s, d), Loaded(s, d)' = Loaded(s, d) \cup {p},
         Holding' = Holding, CopyMsg' = CopyMsg, status'[d] \notin {"cleaning", "depopulating"},
         \A a \in AuxConns :
           auxchan'[<<s, d>>][a] # <<>> => a \in src'[s].sent /\ auxchan'[<<s, d>>][a] = <<CopyMsg>>
  PROVE  Loading(s, d)'
<1>1. /\ heap'[d] = heap[d] \cup {p} /\ loadCnt'[d] = loadCnt[d] - 1 /\ loadCnt[d] \in Int
      /\ rcu'[d] = IF p = HeaderPart THEN Holding ELSE rcu[d]
  BY Installing DEF Types
<1>2. Loaded(s, d) \in SUBSET Parts
  BY PartsFacts DEF Loaded
<1>3. Cardinality(Loaded(s, d)') = Cardinality(Loaded(s, d)) + 1 /\ Cardinality(Loaded(s, d)) \in Nat
  BY <1>2, OneMore
<1>4. loadCnt'[d] = (IF dst'[d].pc = "spin" THEN NumChunks ELSE 0) - Cardinality(Loaded(s, d)')
  <2>1. loadCnt[d] = (IF dst[d].pc = "spin" THEN NumChunks ELSE 0) - Cardinality(Loaded(s, d))
    BY DEF Loading
  <2> QED
    BY <1>1, <1>3, <2>1, PartsFacts
<1>5. Loaded(s, d)' \subseteq heap'[d] /\ (HeaderPart \in Loaded(s, d)' => rcu'[d] = Holding)
  BY <1>1 DEF Loading
<1> QED
  BY <1>4, <1>5 DEF Loading

LEMMA LoadMainChunkStep ==
  ASSUME MigrationInv, NEW s \in Nodes, NEW d \in Nodes, LoadMainChunk(d, s)
  PROVE  MigrationInv'
<1>1. /\ Paired(s, d) /\ dst[d].pc = "load"
      /\ chan[<<s, d>>] # <<>> /\ Head(chan[<<s, d>>]).kind = "copy"
  BY AtDest DEF LoadMainChunk, Arrived
<1>2. /\ Types /\ SentSoFar /\ Acquired /\ Only(s, d)
      /\ Talk(s, d) /\ Loading(s, d) /\ Quiet(s, d) /\ Where(s, d) /\ Seated(s, d)
  BY <1>1, InRound
<1>3. UNCHANGED <<th, src, auxh, auxchan, back, acquired, loc, toCtl, rounds>>
  BY DEF LoadMainChunk, ctlVars
<1>4. DstMoved(d, "count")
  BY <1>2, DstMove DEF LoadMainChunk, DstPcs
<1>5. /\ ChanMoved(s, d, Tail(chan[<<s, d>>]))
      /\ \A x, y \in Nodes : x # s \/ y # d =>
           /\ chan'[<<x, y>>] = chan[<<x, y>>] /\ back'[<<y, x>>] = back[<<y, x>>]
           /\ auxchan'[<<x, y>>] = auxchan[<<x, y>>]
  BY <1>1, <1>3, ReceiveMove DEF LoadMainChunk
<1>6. CopyMsg' = CopyMsg /\ Holding' = Holding /\ BlockedMsg' = BlockedMsg /\ ReadyMsg' = ReadyMsg
  BY <1>3, SameMessages
<1>7. /\ Copied(s) => chan[<<s, d>>] = <<CopyMsg>>
      /\ Left(s) => chan[<<s, d>>] = <<CopyMsg, BlockedMsg, ReadyMsg>>
      /\ Copied(s) \/ Left(s)
      /\ back[<<d, s>>] = <<>>
  BY <1>1, <1>2, Stages, ReadingTalk, Kinds DEF Talk, Told, Over
<1>8. src[s].pc # "tasks" /\ ~Announced(s) /\ ~Skipped(s)
  BY <1>1, <1>2, <1>7, Stages
<1>9. Install(d, Main, CopyMsg)
  BY <1>7, ReadingTalk DEF LoadMainChunk
<1>10. /\ heap' \in [Nodes -> SUBSET Parts] /\ rcu' \in [Nodes -> SUBSET Threads]
       /\ loadCnt' \in [Nodes -> Int]
       /\ \A n \in Nodes \ {d} : heap'[n] = heap[n] /\ rcu'[n] = rcu[n] /\ loadCnt'[n] = loadCnt[n]
  BY <1>2, <1>9, Installing, PartsFacts
<1>11. /\ status' \in [Nodes -> Status] /\ status'[d] \notin {"cleaning", "depopulating"}
       /\ status'[d] = "present" <=> status[d] = "present"
       /\ status'[d] = "migrating" <=> status[d] = "migrating"
       /\ \A n \in Nodes \ {d} : status'[n] = status[n]
  <2>1. status \in [Nodes -> Status]
    BY <1>2 DEF Types
  <2>2. status' = [status EXCEPT ![d] = IF status[d] \in {"depopulating", "cleaning"}
                                        THEN "absent" ELSE status[d]]
    BY DEF LoadMainChunk
  <2> QED
    BY <2>1, <2>2 DEF Status
<1>12. Types'
  BY <1>2, <1>3, <1>4, <1>5, <1>10, <1>11 DEF Types, DstMoved, ChanMoved
<1>13. /\ Copied(s) => chan'[<<s, d>>] = <<>>
       /\ Left(s) => chan'[<<s, d>>] = <<BlockedMsg, ReadyMsg>>
  BY <1>5, <1>7, ReadingTalk DEF ChanMoved
<1>14. dst'[d].pc = "count"
  BY <1>4 DEF DstMoved
<1>15. Talk(s, d)'
  BY <1>3, <1>6, <1>7, <1>8, <1>13, <1>14, StagesKept DEF Talk, Told
<1>16. /\ Loaded(s, d)' = Loaded(s, d) \cup {Main} /\ Main \notin Loaded(s, d)
       /\ ~Whole(s, d) /\ ~Whole(s, d)' /\ ~Landed(s, d) /\ ~Landed(s, d)'
  BY <1>1, <1>3, <1>7, <1>14, StagesKept, NoNode DEF Loaded, Whole, Finished, Landed
<1>17. Loading(s, d)'
  <2>1. \A a \in AuxConns :
          auxchan[<<s, d>>][a] # <<>> => a \in src[s].sent /\ auxchan[<<s, d>>][a] = <<CopyMsg>>
    BY <1>2 DEF Loading
  <2>2. dst'[d].pc = "spin" <=> dst[d].pc = "spin"
    BY <1>1, <1>14
  <2> QED
    BY <1>2, <1>3, <1>6, <1>9, <1>11, <1>16, <2>1, <2>2, LoadingOne, PartsFacts
<1>18. Quiet(s, d)'
  <2>1. dst'[d].from = s
    BY <1>1, <1>2, <1>4 DEF DstMoved, Quiet
  <2>2. \A n \in Nodes \ {d} : dst'[n] = dst[n] /\ loadCnt'[n] = loadCnt[n] /\ auxh'[n] = auxh[n]
    BY <1>3, <1>4, <1>10 DEF DstMoved
  <2>3. \A a \in AuxConns : auxh'[d][a].pc # "idle" => auxh'[d][a].from = s /\ auxchan'[<<s, d>>][a] # <<>>
    BY <1>2, <1>3 DEF Quiet
  <2> QED
    BY <1>2, <1>5, <2>1, <2>2, <2>3, QuietKept
<1>19. Where(s, d)'
  BY <1>2, <1>3, <1>6, <1>10, <1>11, <1>16, StagesKept DEF Where, Only
<1>20. Seated(s, d)'
  BY <1>1, <1>2, <1>3, <1>14, <1>16, StagesKept DEF Seated
<1> QED
  BY <1>1, <1>3, <1>12, <1>15, <1>17, <1>18, <1>19, <1>20, DstOn

LEMMA AuxPayloadStep ==
  ASSUME MigrationInv, NEW d \in Nodes, NEW a \in AuxConns, AuxPayload(d, a)
  PROVE  MigrationInv'
<1>1. PICK s \in Nodes : Paired(s, d) /\ auxh[d][a].from = s /\ auxchan[<<s, d>>][a] # <<>>
  BY AtAux DEF AuxPayload
<1>2. /\ Types /\ SentSoFar /\ Acquired /\ Only(s, d)
      /\ Talk(s, d) /\ Loading(s, d) /\ Quiet(s, d) /\ Where(s, d) /\ Seated(s, d)
  BY <1>1, InRound
<1>3. UNCHANGED <<status, th, src, dst, chan, back, acquired, loc, toCtl, rounds>>
  BY DEF AuxPayload, ctlVars
<1>4. CopyMsg' = CopyMsg /\ Holding' = Holding /\ BlockedMsg' = BlockedMsg /\ ReadyMsg' = ReadyMsg
  BY <1>3, SameMessages
<1>5. auxchan[<<s, d>>][a] = <<CopyMsg>> /\ a \in src[s].sent /\ ~Whole(s, d)
  BY <1>1, <1>2 DEF Loading
<1>6. Head(auxchan[<<s, d>>][a]) = CopyMsg /\ Tail(auxchan[<<s, d>>][a]) = <<>>
  BY <1>5, ReadingOne
<1>7. Install(d, a, CopyMsg)
  BY <1>1, <1>6 DEF AuxPayload
<1>8. /\ heap' \in [Nodes -> SUBSET Parts] /\ rcu' \in [Nodes -> SUBSET Threads]
      /\ loadCnt' \in [Nodes -> Int]
      /\ \A n \in Nodes \ {d} : heap'[n] = heap[n] /\ rcu'[n] = rcu[n] /\ loadCnt'[n] = loadCnt[n]
  BY <1>2, <1>7, Installing, PartsFacts
<1>9. /\ auxchan' = [p \in Pairs |-> [b \in AuxConns |-> auxchan'[p][b]]]
      /\ auxchan'[<<s, d>>][a] = <<>>
      /\ \A b \in AuxConns \ {a} : auxchan'[<<s, d>>][b] = auxchan[<<s, d>>][b]
      /\ \A x, y \in Nodes : x # s \/ y # d => auxchan'[<<x, y>>] = auxchan[<<x, y>>]
  <2>1. auxchan = [p \in Pairs |-> [b \in AuxConns |-> auxchan[p][b]]]
    BY <1>2 DEF Types
  <2>2. /\ DOMAIN auxchan = Pairs /\ <<s, d>> \in Pairs
        /\ auxchan[<<s, d>>] = [b \in AuxConns |-> auxchan[<<s, d>>][b]]
    BY <2>1 DEF Pairs
  <2>3. auxchan' = [auxchan EXCEPT ![<<s, d>>] = [auxchan[<<s, d>>] EXCEPT ![a] = <<>>]]
    BY <1>1, <1>6 DEF AuxPayload
  <2> DEFINE r == [auxchan[<<s, d>>] EXCEPT ![a] = <<>>]
  <2>4. /\ r = [b \in AuxConns |-> r[b]] /\ r[a] = <<>>
        /\ \A b \in AuxConns \ {a} : r[b] = auxchan[<<s, d>>][b]
    BY <2>2
  <2>5. auxchan' = [auxchan EXCEPT ![<<s, d>>] = r]
    BY <2>3
  <2> HIDE DEF r
  <2>6. auxchan'[<<s, d>>] = r /\ DOMAIN auxchan' = Pairs
    BY <2>2, <2>5
  <2>7. \A p \in Pairs : p # <<s, d>> => auxchan'[p] = auxchan[p]
    BY <2>2, <2>5
  <2>8. \A x, y \in Nodes : x # s \/ y # d => auxchan'[<<x, y>>] = auxchan[<<x, y>>]
    BY <2>7 DEF Pairs
  <2>9. \A p \in Pairs : auxchan'[p] = [b \in AuxConns |-> auxchan'[p][b]]
    BY <2>1, <2>4, <2>6, <2>7
  <2>10. auxchan' = [p \in Pairs |-> auxchan'[p]]
    BY <2>1, <2>5
  <2>11. auxchan' = [p \in Pairs |-> [b \in AuxConns |-> auxchan'[p][b]]]
    BY <2>9, <2>10
  <2> QED
    BY <2>4, <2>6, <2>8, <2>11
<1>10. /\ auxh' \in [Nodes -> [AuxConns -> AuxRec]]
       /\ \A n \in Nodes \ {d} : auxh'[n] = auxh[n]
       /\ \A b \in AuxConns \ {a} : auxh'[d][b] = auxh[d][b]
       /\ auxh'[d][a].pc = "idle"
  <2>1. auxh \in [Nodes -> [AuxConns -> AuxRec]] /\ IdleAux \in AuxRec /\ IdleAux.pc = "idle"
    BY <1>2 DEF Types, AuxRec, IdleAux
  <2> QED
    BY <2>1 DEF AuxPayload
<1>11. Types'
  BY <1>2, <1>3, <1>8, <1>9, <1>10 DEF Types
<1>12. Talk(s, d)'
  BY <1>2, <1>3, <1>4, StagesKept DEF Talk, Told, Over, TasksMsg, SkipMsg
<1>13. /\ (Whole(s, d)' <=> Whole(s, d)) /\ (Landed(s, d)' <=> Landed(s, d))
  BY <1>3, StagesKept DEF Whole, Finished, Landed
<1>14. Loaded(s, d)' = Loaded(s, d) \cup {a} /\ a \notin Loaded(s, d)
  <2>1. <<CopyMsg>> # <<>> /\ a # Main
    BY ReadingOne, NoNode
  <2>2. {b \in AuxConns : b \in src[s].sent /\ auxchan'[<<s, d>>][b] = <<>>} =
          {b \in AuxConns : b \in src[s].sent /\ auxchan[<<s, d>>][b] = <<>>} \cup {a}
    BY <1>5, <1>9
  <2>3. a \notin {b \in AuxConns : b \in src[s].sent /\ auxchan[<<s, d>>][b] = <<>>}
    BY <1>5, <2>1
  <2> QED
    BY <1>3, <2>1, <2>2, <2>3 DEF Loaded
<1>15. Loading(s, d)'
  <2>1. \A b \in AuxConns :
          auxchan'[<<s, d>>][b] # <<>> => b \in src[s].sent /\ auxchan'[<<s, d>>][b] = <<CopyMsg>>
    BY <1>2, <1>9 DEF Loading
  <2>2. status[d] \notin {"cleaning", "depopulating"}
    BY <1>2, <1>5 DEF Loading, AuxPayload
  <2> QED
    BY <1>2, <1>3, <1>4, <1>5, <1>7, <1>13, <1>14, <2>1, <2>2, LoadingOne, PartsFacts
<1>16. Quiet(s, d)'
  <2>1. \A n \in Nodes \ {d} : dst'[n] = dst[n] /\ loadCnt'[n] = loadCnt[n] /\ auxh'[n] = auxh[n]
    BY <1>3, <1>8, <1>10
  <2>2. \A b \in AuxConns : auxh'[d][b].pc # "idle" => auxh'[d][b].from = s /\ auxchan'[<<s, d>>][b] # <<>>
    BY <1>2, <1>9, <1>10 DEF Quiet
  <2>3. \A x, y \in Nodes : x # s \/ y # d =>
          /\ chan'[<<x, y>>] = chan[<<x, y>>] /\ back'[<<y, x>>] = back[<<y, x>>]
          /\ auxchan'[<<x, y>>] = auxchan[<<x, y>>]
    BY <1>3, <1>9
  <2>4. dst'[d].pc # "idle" => dst'[d].from = s
    BY <1>2, <1>3 DEF Quiet
  <2> QED
    BY <1>2, <2>1, <2>2, <2>3, <2>4, QuietKept
<1>17. Where(s, d)'
  BY <1>2, <1>3, <1>4, <1>8, <1>13, StagesKept DEF Where, Only
<1>18. Seated(s, d)'
  BY <1>2, <1>3, <1>13, StagesKept DEF Seated
<1> QED
  BY <1>1, <1>3, <1>11, <1>12, <1>15, <1>16, <1>17, <1>18, DstOn

(* The threads of a message are put back at the node that read it.         *)
LEMMA Restoring ==
  ASSUME Types, NEW d \in Nodes, NEW S \in SUBSET Travelling, Restore(d, Carry(S))
  PROVE  /\ th' \in [Threads -> ThreadRec]
         /\ \A t \in S : th'[t].node = d /\ th'[t].pc = th[t].pc /\ ~th'[t].paused
         /\ \A t \in Threads \ S : th'[t] = th[t]
<1>1. DOMAIN Carry(S) = S /\ \A t \in S : Carry(S)[t] = th[t].pc
  BY DEF Carry
<1>2. th' = [t \in Threads |-> IF t \in S THEN [node |-> d, pc |-> Carry(S)[t], paused |-> FALSE] ELSE th[t]]
  BY <1>1 DEF Restore
<1>3. S \subseteq Threads
  BY DEF Travelling
<1>4. \A t \in Threads : th[t] \in ThreadRec /\ th[t].pc \in ThreadPcs
  BY DEF Types, ThreadRec
<1>5. ASSUME NEW t \in S
      PROVE  /\ th'[t] \in ThreadRec
             /\ th'[t].node = d /\ th'[t].pc = th[t].pc /\ ~th'[t].paused
  <2>1. th'[t] = [node |-> d, pc |-> th[t].pc, paused |-> FALSE]
    BY <1>1, <1>2, <1>3
  <2> QED
    BY <1>3, <1>4, <2>1 DEF ThreadRec
<1>6. \A t \in Threads \ S : th'[t] = th[t]
  BY <1>2
<1>7. \A t \in Threads : th'[t] \in ThreadRec
  BY <1>4, <1>5, <1>6
<1>8. th' = [t \in Threads |-> th'[t]]
  BY <1>2
<1>9. th' \in [Threads -> ThreadRec]
  BY <1>7, <1>8
<1> QED
  BY <1>5, <1>6, <1>9

LEMMA HoldingKept ==
  ASSUME \A t \in Threads : th'[t].pc = th[t].pc
  PROVE  Holding' = Holding /\ CopyMsg' = CopyMsg
BY DEF Holding, CopyMsg

LEMMA OutAlone == OutThread.node = None /\ OutThread.pc = "out" /\ OutThread.paused = FALSE
BY DEF OutThread

LEMMA LoadBlockedStep ==
  ASSUME MigrationInv, NEW s \in Nodes, NEW d \in Nodes, LoadBlocked(d, s)
  PROVE  MigrationInv'
<1>1. /\ Paired(s, d) /\ dst[d].pc = "blocked"
      /\ chan[<<s, d>>] # <<>> /\ Head(chan[<<s, d>>]).kind = "blocked"
  BY AtDest DEF LoadBlocked, Arrived
<1>2. /\ Types /\ SentSoFar /\ Acquired /\ Only(s, d)
      /\ Talk(s, d) /\ Loading(s, d) /\ Quiet(s, d) /\ Where(s, d) /\ Seated(s, d)
  BY <1>1, InRound
<1>3. UNCHANGED <<status, heap, rcu, loadCnt, src, auxh, auxchan, back, acquired, loc, toCtl, rounds>>
  BY DEF LoadBlocked, ctlVars
<1>4. DstMoved(d, "insert")
  BY <1>2, DstMove DEF LoadBlocked, DstPcs
<1>5. /\ ChanMoved(s, d, Tail(chan[<<s, d>>]))
      /\ \A x, y \in Nodes : x # s \/ y # d =>
           /\ chan'[<<x, y>>] = chan[<<x, y>>] /\ back'[<<y, x>>] = back[<<y, x>>]
           /\ auxchan'[<<x, y>>] = auxchan[<<x, y>>]
  BY <1>1, <1>3, ReceiveMove DEF LoadBlocked
<1>6. Left(s) /\ chan[<<s, d>>] = <<BlockedMsg, ReadyMsg>> /\ back[<<d, s>>] = <<>>
  BY <1>1, <1>2, Stages, ReadingTalk, Kinds DEF Talk, Told, Over
<1>7. /\ src[s].pc # "tasks" /\ ~Announced(s) /\ ~Copied(s) /\ ~Skipped(s) /\ ~Staying(s) /\ ~Leaving(s)
  BY <1>1, <1>2, <1>6, Stages
<1>8. PICK S \in SUBSET Travelling : S = {t \in Travelling : th[t].pc = "parked"}
  OBVIOUS
<1>9. /\ th' \in [Threads -> ThreadRec]
      /\ \A t \in S : th'[t].node = d /\ th'[t].pc = th[t].pc /\ ~th'[t].paused
      /\ \A t \in Threads \ S : th'[t] = th[t]
  <2>1. Head(chan[<<s, d>>]).ths = Carry(S)
    <3>1. Head(chan[<<s, d>>]) = BlockedMsg
      BY <1>6, ReadingTalk
    <3>2. BlockedMsg.ths = Carry({t \in Travelling : th[t].pc = "parked"})
      BY DEF BlockedMsg
    <3> QED
      BY <1>8, <3>1, <3>2
  <2>2. Restore(d, Carry(S))
    BY <2>1 DEF LoadBlocked
  <2> QED
    BY <1>2, <2>2, Restoring
<1>10. \A t \in Threads : th'[t].pc = th[t].pc
  BY <1>8, <1>9 DEF Travelling
<1>11. Holding' = Holding /\ CopyMsg' = CopyMsg
  BY <1>10, HoldingKept
<1>12. ReadyMsg' = ReadyMsg
  <2>1. {t \in Travelling : th[t].pc # "parked"}' = {t \in Travelling : th[t].pc # "parked"}
    <3>1. ASSUME NEW t \in Threads
          PROVE  (th'[t].node = None /\ th'[t].pc # "out" /\ th'[t].pc # "parked")
                   <=> (th[t].node = None /\ th[t].pc # "out" /\ th[t].pc # "parked")
      BY <1>8, <1>9, <1>10 DEF Travelling
    <3> QED
      BY <3>1 DEF Travelling
  <2>2. ASSUME NEW Q \in SUBSET Threads
        PROVE  [t \in Q |-> th'[t].pc] = [t \in Q |-> th[t].pc]
    BY <1>10
  <2> QED
    BY <2>1, <2>2 DEF ReadyMsg, Carry, Travelling
<1>13. Types'
  BY <1>2, <1>3, <1>4, <1>5, <1>9 DEF Types, DstMoved, ChanMoved
<1>14. chan'[<<s, d>>] = <<ReadyMsg>> /\ dst'[d].pc = "insert"
  BY <1>4, <1>5, <1>6, ReadingTalk DEF ChanMoved, DstMoved
<1>15. Talk(s, d)'
  BY <1>3, <1>6, <1>7, <1>12, <1>14, StagesKept DEF Talk, Told
<1>16. /\ Whole(s, d) /\ Whole(s, d)' /\ ~Landed(s, d) /\ ~Landed(s, d)'
  BY <1>1, <1>3, <1>6, <1>14, StagesKept DEF Whole, Finished, Landed
<1>17. Loading(s, d)'
  BY <1>2, <1>3, <1>11, <1>16 DEF Loading
<1>18. Quiet(s, d)'
  <2>1. dst'[d].from = s
    BY <1>1, <1>2, <1>4 DEF DstMoved, Quiet
  <2>2. \A n \in Nodes \ {d} : dst'[n] = dst[n] /\ loadCnt'[n] = loadCnt[n] /\ auxh'[n] = auxh[n]
    BY <1>3, <1>4 DEF DstMoved
  <2>3. \A a \in AuxConns : auxh'[d][a].pc # "idle" => auxh'[d][a].from = s /\ auxchan'[<<s, d>>][a] # <<>>
    BY <1>2, <1>3 DEF Quiet
  <2> QED
    BY <1>2, <1>5, <2>1, <2>2, <2>3, QuietKept
<1>19. Where(s, d)'
  BY <1>2, <1>3, <1>11, <1>16, StagesKept DEF Where
<1>20. Seated(s, d)'
  <2>1. \A t \in Threads : th[t].node # s /\ th[t].node # d
    BY <1>1, <1>2, <1>7, <1>16 DEF Seated
  <2>2. \A t \in Threads :
          \/ t \in S /\ th'[t].node = d /\ th'[t].pc = "parked" /\ ~th'[t].paused
          \/ th'[t] = th[t] /\ th[t].node = None /\ th[t].pc # "parked"
    BY <1>2, <1>8, <1>9, <2>1 DEF Travelling, Seated
  <2>3. \A t \in Threads : th[t].node = None /\ th[t].pc # "parked" =>
          th[t] = OutThread \/ th[t].pc \in {"free", "relock", "towait"}
    BY <1>2 DEF Seated
  <2>4. Left(s)' /\ ~Landed(s, d)' /\ dst'[d].pc = "insert"
    BY <1>3, <1>6, <1>14, <1>16, StagesKept
  <2> QED
    BY <1>2, <2>2, <2>3, <2>4, NoNode DEF Seated, Only
<1> QED
  BY <1>1, <1>3, <1>13, <1>15, <1>17, <1>18, <1>19, <1>20, DstOn

LEMMA LoadReadyStep ==
  ASSUME MigrationInv, NEW s \in Nodes, NEW d \in Nodes, LoadReady(d, s)
  PROVE  MigrationInv'
<1>1. /\ Paired(s, d) /\ dst[d].pc = "ready"
      /\ chan[<<s, d>>] # <<>> /\ Head(chan[<<s, d>>]).kind = "ready"
  BY AtDest DEF LoadReady, Arrived
<1>2. /\ Types /\ SentSoFar /\ Acquired /\ Only(s, d)
      /\ Talk(s, d) /\ Loading(s, d) /\ Quiet(s, d) /\ Where(s, d) /\ Seated(s, d)
  BY <1>1, InRound
<1>3. UNCHANGED <<status, heap, rcu, loadCnt, src, auxh, auxchan, back, acquired, loc, toCtl, rounds>>
  BY DEF LoadReady, ctlVars
<1>4. DstMoved(d, "signal")
  BY <1>2, DstMove DEF LoadReady, DstPcs
<1>5. /\ ChanMoved(s, d, Tail(chan[<<s, d>>]))
      /\ \A x, y \in Nodes : x # s \/ y # d =>
           /\ chan'[<<x, y>>] = chan[<<x, y>>] /\ back'[<<y, x>>] = back[<<y, x>>]
           /\ auxchan'[<<x, y>>] = auxchan[<<x, y>>]
  BY <1>1, <1>3, ReceiveMove DEF LoadReady
<1>6. Left(s) /\ chan[<<s, d>>] = <<ReadyMsg>> /\ back[<<d, s>>] = <<>>
  BY <1>1, <1>2, Stages, ReadingTalk, Kinds DEF Talk, Told, Over
<1>7. /\ src[s].pc # "tasks" /\ ~Announced(s) /\ ~Copied(s) /\ ~Skipped(s) /\ ~Staying(s) /\ ~Leaving(s)
  BY <1>1, <1>2, <1>6, Stages
<1>8. PICK S \in SUBSET Travelling : S = {t \in Travelling : th[t].pc # "parked"}
  OBVIOUS
<1>9. /\ th' \in [Threads -> ThreadRec]
      /\ \A t \in S : th'[t].node = d /\ th'[t].pc = th[t].pc /\ ~th'[t].paused
      /\ \A t \in Threads \ S : th'[t] = th[t]
  <2>1. Head(chan[<<s, d>>]).ths = Carry(S)
    <3>1. Head(chan[<<s, d>>]) = ReadyMsg
      BY <1>6, ReadingTalk
    <3>2. ReadyMsg.ths = Carry({t \in Travelling : th[t].pc # "parked"})
      BY DEF ReadyMsg
    <3> QED
      BY <1>8, <3>1, <3>2
  <2>2. Restore(d, Carry(S))
    BY <2>1 DEF LoadReady
  <2> QED
    BY <1>2, <2>2, Restoring
<1>10. \A t \in Threads : th'[t].pc = th[t].pc
  BY <1>8, <1>9 DEF Travelling
<1>11. Holding' = Holding /\ CopyMsg' = CopyMsg
  BY <1>10, HoldingKept
<1>12. Types'
  BY <1>2, <1>3, <1>4, <1>5, <1>9 DEF Types, DstMoved, ChanMoved
<1>13. chan'[<<s, d>>] = <<>> /\ dst'[d].pc = "signal"
  BY <1>4, <1>5, <1>6, ReadingTalk DEF ChanMoved, DstMoved
<1>14. Talk(s, d)'
  BY <1>3, <1>6, <1>7, <1>13, StagesKept DEF Talk, Told
<1>15. /\ Whole(s, d) /\ Whole(s, d)' /\ Landed(s, d) /\ Landed(s, d)'
  BY <1>1, <1>3, <1>6, <1>13, StagesKept DEF Whole, Finished, Landed
<1>16. Loading(s, d)'
  BY <1>2, <1>3, <1>11, <1>15 DEF Loading
<1>17. Quiet(s, d)'
  <2>1. dst'[d].from = s
    BY <1>1, <1>2, <1>4 DEF DstMoved, Quiet
  <2>2. \A n \in Nodes \ {d} : dst'[n] = dst[n] /\ loadCnt'[n] = loadCnt[n] /\ auxh'[n] = auxh[n]
    BY <1>3, <1>4 DEF DstMoved
  <2>3. \A a \in AuxConns : auxh'[d][a].pc # "idle" => auxh'[d][a].from = s /\ auxchan'[<<s, d>>][a] # <<>>
    BY <1>2, <1>3 DEF Quiet
  <2> QED
    BY <1>2, <1>5, <2>1, <2>2, <2>3, QuietKept
<1>18. Where(s, d)'
  BY <1>2, <1>3, <1>11, <1>15, StagesKept DEF Where
<1>19. Seated(s, d)'
  <2>1. \A t \in Threads : th[t].node # s
    BY <1>1, <1>2, <1>7 DEF Seated
  <2>2. \A t \in Threads : th[t].node = None /\ th[t] # OutThread => th[t].pc \in {"free", "relock", "towait"}
    BY <1>1, <1>2, <1>15 DEF Seated
  <2>3. \A t \in Threads : t \in S <=> th[t].node = None /\ th[t] # OutThread
    BY <1>8, <2>2, OutAlone DEF Travelling
  <2>4. \A t \in Threads :
          \/ th'[t].node = d /\ th'[t].pc \in {"free", "relock", "towait"} /\ ~th'[t].paused
          \/ th'[t] = th[t] /\ th[t].node = d
          \/ th'[t] = th[t] /\ th[t] = OutThread
    BY <1>2, <1>9, <2>1, <2>2, <2>3 DEF Seated
  <2>5. \A t \in Threads : th'[t].node = d => th'[t].pc # "out" /\ ~th'[t].paused
    BY <1>2, <2>4, OutAlone, NoNode DEF Seated
  <2>6. \A t \in Threads : th'[t] = OutThread \/ th'[t].node = d
    BY <2>4
  <2> QED
    BY <1>2, <1>13, <1>15, <2>5, <2>6, OutAlone, NoNode DEF Seated, Only
<1> QED
  BY <1>1, <1>3, <1>12, <1>14, <1>16, <1>17, <1>18, <1>19, DstOn

LEMMA SignalAllStep ==
  ASSUME MigrationInv, NEW s \in Nodes, NEW d \in Nodes, SignalAll(d, s)
  PROVE  MigrationInv'
<1>1. Paired(s, d) /\ dst[d].pc = "signal"
  BY AtDest DEF SignalAll
<1>2. /\ Types /\ SentSoFar /\ Acquired /\ Only(s, d)
      /\ Talk(s, d) /\ Loading(s, d) /\ Quiet(s, d) /\ Where(s, d) /\ Seated(s, d)
  BY <1>1, InRound
<1>3. UNCHANGED <<status, heap, rcu, loadCnt, src, auxh, chan, auxchan, back, acquired, loc, toCtl, rounds>>
  BY DEF SignalAll, ctlVars, chanVars
<1>4. DstMoved(d, "approve")
  BY <1>2, DstMove DEF SignalAll, DstPcs
<1>5. Left(s) /\ chan[<<s, d>>] = <<>> /\ back[<<d, s>>] = <<>>
  BY <1>1, <1>2, Stages DEF Talk, Told, Over
<1>6. /\ src[s].pc # "tasks" /\ ~Announced(s) /\ ~Copied(s) /\ ~Skipped(s) /\ ~Staying(s) /\ ~Leaving(s)
  BY <1>1, <1>2, <1>5, Stages
<1>7. Whole(s, d) /\ Landed(s, d)
  BY <1>1 DEF Whole, Landed
<1>8. \A t \in Threads : th[t].node = d \/ th[t] = OutThread
  BY <1>1, <1>2, <1>6, <1>7 DEF Seated
<1>9. /\ th' \in [Threads -> ThreadRec]
      /\ \A t \in Threads : t \in Waiters(d) => th'[t].node = d /\ th'[t].pc = "towait" /\ ~th'[t].paused
      /\ \A t \in Threads \ Waiters(d) : th'[t] = th[t]
  <2>1. th' = [t \in Threads |-> IF t \in Waiters(d) THEN [th[t] EXCEPT !.pc = "towait"] ELSE th[t]]
    BY DEF SignalAll
  <2>2. ASSUME NEW t \in Threads
        PROVE  /\ th'[t] \in ThreadRec
               /\ t \in Waiters(d) => th'[t].node = d /\ th'[t].pc = "towait" /\ ~th'[t].paused
               /\ t \notin Waiters(d) => th'[t] = th[t]
    <3>1. th[t] \in ThreadRec
      BY <1>2 DEF Types
    <3>2. /\ [th[t] EXCEPT !.pc = "towait"] \in ThreadRec
          /\ [th[t] EXCEPT !.pc = "towait"].node = th[t].node
          /\ [th[t] EXCEPT !.pc = "towait"].pc = "towait"
          /\ [th[t] EXCEPT !.pc = "towait"].paused = th[t].paused
      BY <3>1 DEF ThreadRec, ThreadPcs
    <3>3. t \in Waiters(d) => th[t].node = d /\ ~th[t].paused
      BY DEF Waiters, At
    <3> QED
      BY <2>1, <3>1, <3>2, <3>3
  <2> QED
    BY <2>1, <2>2
<1>10. \A t \in Waiters(d) : th[t].pc = "parked" /\ t \in Threads
  BY DEF Waiters, At
<1>11. Holding' = Holding
  <2>1. ASSUME NEW t \in Threads
        PROVE  th'[t].pc \in {"attached", "relock", "guard"} <=> th[t].pc \in {"attached", "relock", "guard"}
    BY <1>9, <1>10
  <2> QED
    BY <2>1 DEF Holding
<1>12. Types'
  BY <1>2, <1>3, <1>4, <1>9 DEF Types, DstMoved
<1>13. dst'[d].pc = "approve"
  BY <1>4 DEF DstMoved
<1>14. Talk(s, d)'
  BY <1>3, <1>5, <1>6, <1>13, StagesKept DEF Talk, Told
<1>15. Whole(s, d)' /\ Landed(s, d)'
  BY <1>3, <1>5, <1>13, StagesKept DEF Whole, Finished, Landed
<1>16. CopyMsg' = CopyMsg
  BY <1>11 DEF CopyMsg
<1>17. Loading(s, d)'
  BY <1>2, <1>3, <1>7, <1>11, <1>15, <1>16 DEF Loading
<1>18. Quiet(s, d)'
  BY <1>1, <1>2, <1>3, <1>4, QuietDst
<1>19. Where(s, d)'
  BY <1>2, <1>3, <1>7, <1>11, <1>15, StagesKept DEF Where
<1>20. Seated(s, d)'
  <2>1. ASSUME NEW t \in Threads
        PROVE  \/ th'[t] = OutThread
               \/ th'[t].node = d /\ th'[t].pc \notin {"out", "parked"} /\ ~th'[t].paused
    <3>1. CASE t \in Waiters(d)
      BY <1>9, <3>1
    <3>2. CASE t \notin Waiters(d)
      BY <1>2, <1>8, <1>9, <3>2 DEF Seated, Waiters, At
    <3> QED
      BY <3>1, <3>2
  <2> QED
    BY <1>2, <1>13, <1>15, <2>1, OutAlone, NoNode DEF Seated, Only
<1> QED
  BY <1>1, <1>3, <1>12, <1>14, <1>17, <1>18, <1>19, <1>20, DstOn

---------------------------------------------------------------------------
(* A round starts and ends.                                                *)

LEMMA RestFacts ==
  ASSUME MigrationInv, \A x, y \in Nodes : ~Paired(x, y)
  PROVE  Types /\ SentSoFar /\ Acquired /\ Resting
BY DEF MigrationInv

LEMMA AcquireSelfStep ==
  ASSUME MigrationInv, NEW n \in Nodes, AcquireSelf(n)
  PROVE  MigrationInv'
<1>1. /\ src[n].pc = "idle" /\ status[n] = "present" /\ n \notin acquired
      /\ acquired' = acquired \cup {n} /\ rounds < MaxRounds /\ rounds' = rounds + 1
      /\ SrcGoto(n, "acquire")
      /\ UNCHANGED <<status, heap, rcu, loadCnt, th, dst, auxh, chan, auxchan, back, loc, toCtl>>
  BY DEF AcquireSelf, SrcAt, chanVars
<1>2. \A x, y \in Nodes : ~Paired(x, y)
  <2>1. SUFFICES ASSUME NEW x \in Nodes, NEW y \in Nodes, Paired(x, y) PROVE FALSE
    OBVIOUS
  <2>2. Where(x, y) /\ Acquired
    BY <2>1, InRound
  <2>3. n = x \/ n = y
    BY <1>1, <2>2 DEF Where
  <2>4. x \in acquired /\ y \in acquired
    BY <2>1, <2>2 DEF Acquired, Busy, Paired
  <2> QED
    BY <1>1, <2>3, <2>4
<1>3. Types /\ SentSoFar /\ Acquired /\ Resting
  BY <1>2, RestFacts
<1>4. SrcMoved(n, "acquire", {}, src[n].waitFor)
  <2>1. src[n].sent = {}
    BY <1>1, <1>3 DEF SentSoFar
  <2> QED
    BY <1>1, <1>3, <2>1, SrcMove DEF SrcPcs
<1>5. Types'
  <2>1. acquired' \subseteq Nodes /\ rounds' \in 0..MaxRounds
    BY <1>1, <1>3, ConstantsOK DEF Types
  <2> QED
    BY <1>1, <1>3, <1>4, <2>1 DEF Types, SrcMoved
<1>6. SentSoFar'
  BY <1>3, <1>4 DEF SentSoFar, SrcMoved
<1>7. \A x \in Nodes : ~Busy(x)
  BY <1>1, <1>3 DEF Resting, Busy
<1>8. \A x \in Nodes : Busy(x)' <=> x = n
  BY <1>4, <1>7 DEF Busy, SrcMoved
<1>9. \A x, y \in Nodes : ~Paired(x, y)'
  BY <1>4, <1>7 DEF Busy, SrcMoved, Paired
<1>10. \A l, m \in Nodes, i \in Nat : Releases(l, m, i)' <=> Releases(l, m, i)
  BY <1>1 DEF Releases
<1>11. \A m \in Nodes, i \in Nat : ~Releases(n, m, i)
  BY <1>1, <1>3 DEF Acquired
<1>12. Acquired'
  <2>1. \A x \in Nodes : src'[x].pc \in {"idle", "acquire"}
    BY <1>4, <1>7 DEF SrcMoved, Busy
  <2> QED
    BY <1>1, <1>3, <1>8, <1>9, <1>10, <1>11, <2>1 DEF Acquired
<1>13. Holding' = Holding
  BY <1>1, SameMessages
<1>14. Resting'
  BY <1>1, <1>3, <1>8, <1>13 DEF Resting
<1> QED
  BY <1>5, <1>6, <1>9, <1>12, <1>14, StayAtRest

LEMMA AcquireDestStep ==
  ASSUME MigrationInv, NEW s \in Nodes, NEW d \in Nodes, AcquireDest(s, d)
  PROVE  MigrationInv'
<1>1. /\ src[s].pc = "acquire" /\ d \notin acquired /\ d # s
      /\ acquired' = acquired \cup {d}
      /\ src' = [src EXCEPT ![s].pc = "tasks", ![s].dest = d]
      /\ UNCHANGED <<status, heap, rcu, loadCnt, th, dst, auxh, chan, auxchan, back, loc, toCtl, rounds>>
  BY DEF AcquireDest, SrcAt, chanVars, Candidates
<1>2. \A x, y \in Nodes : ~Paired(x, y)
  <2>1. Acquired /\ Busy(s)
    BY <1>1 DEF MigrationInv, Busy
  <2> QED
    BY <1>1, <2>1 DEF Acquired, Paired, Busy
<1>3. Types /\ SentSoFar /\ Acquired /\ Resting
  BY <1>2, RestFacts
<1>4. /\ src' \in [Nodes -> SrcRec] /\ src'[s].pc = "tasks" /\ src'[s].dest = d /\ src'[s].sent = {}
      /\ \A n \in Nodes \ {s} : src'[n] = src[n]
  <2> DEFINE r == [src[s] EXCEPT !.pc = "tasks", !.dest = d]
  <2>1. src[s] \in SrcRec /\ src \in [Nodes -> SrcRec] /\ src[s].sent = {}
    BY <1>1, <1>3 DEF Types, SentSoFar
  <2>2. r \in SrcRec /\ r.pc = "tasks" /\ r.dest = d /\ r.sent = {}
    BY <2>1 DEF SrcRec, SrcPcs
  <2>3. src' = [src EXCEPT ![s] = r]
    BY <1>1
  <2> HIDE DEF r
  <2> QED
    BY <2>1, <2>2, <2>3
<1>5. Types'
  BY <1>1, <1>3, <1>4 DEF Types
<1>6. SentSoFar'
  BY <1>3, <1>4 DEF SentSoFar
<1>7. (\A x \in Nodes : Busy(x) <=> x = s) /\ (\A x \in Nodes : Busy(x)' <=> x = s)
  BY <1>1, <1>3, <1>4 DEF Acquired, Busy
<1>8. \A x, y \in Nodes : Paired(x, y)' <=> x = s /\ y = d
  BY <1>4, <1>7 DEF Paired, Busy
<1>9. \A l, m \in Nodes, i \in Nat : Releases(l, m, i)' <=> Releases(l, m, i)
  BY <1>1 DEF Releases
<1>10. \A m \in Nodes, i \in Nat : ~Releases(d, m, i)
  BY <1>1, <1>3 DEF Acquired
<1>11. Acquired'
  <2>1. \A x \in Nodes : src'[x].pc \notin {"idle", "acquire"} => src'[x].dest \in Nodes
    BY <1>4, <1>7 DEF Busy
  <2>2. s \in acquired /\ \A m \in Nodes, i \in Nat : ~Releases(s, m, i)
    BY <1>3, <1>7 DEF Acquired
  <2>3. \A l, m \in Nodes, i \in Nat : Releases(l, m, i)' =>
          /\ l \in acquired'
          /\ \A n \in Nodes, j \in Nat : Releases(l, n, j)' => n = m /\ j = i
    BY <1>1, <1>3, <1>9 DEF Acquired
  <2>4. \A n \in Nodes : Busy(n)' => n \in acquired' /\ \A m \in Nodes, i \in Nat : ~Releases(n, m, i)'
    BY <1>1, <1>7, <1>9, <2>2
  <2>5. \A x, y \in Nodes : Paired(x, y)' =>
          y # x /\ y \in acquired' /\ \A m \in Nodes, i \in Nat : ~Releases(y, m, i)'
    BY <1>1, <1>8, <1>9, <1>10
  <2>6. \A m, n \in Nodes : Busy(m)' /\ Busy(n)' => m = n
    BY <1>7
  <2> QED
    BY <2>1, <2>3, <2>4, <2>5, <2>6 DEF Acquired
<1>12. Holding' = Holding
  BY <1>1, SameMessages
<1>13. Staying(s)' /\ ~Leaving(s)' /\ ~Announced(s)' /\ ~Skipped(s)' /\ ~Copied(s)' /\ ~Left(s)' /\ ~Stopped(s)'
  BY <1>4 DEF Staying, Leaving, Announced, Skipped, Copied, Left, Stopped
<1>14. /\ dst'[d].pc = "idle" /\ chan'[<<s, d>>] = <<>> /\ back'[<<d, s>>] = <<>>
       /\ \A a \in AuxConns : auxchan'[<<s, d>>][a] = <<>>
       /\ loadCnt'[d] = 0 /\ \A a \in AuxConns : auxh'[d][a].pc = "idle"
  BY <1>1, <1>3, QuietAtRest DEF Resting
<1>15. Talk(s, d)'
  BY <1>13, <1>14 DEF Talk, Told
<1>16. Loaded(s, d)' = {} /\ ~Whole(s, d)' /\ ~Landed(s, d)'
  BY <1>4, <1>13, <1>14 DEF Loaded, Whole, Finished, Landed
<1>17. Loading(s, d)'
  <2>1. Cardinality({}) = 0
    BY FS_EmptySet
  <2> QED
    BY <1>14, <1>16, <2>1 DEF Loading
<1>18. Quiet(s, d)'
  <2>1. \A x, y \in Nodes : \A a \in AuxConns : auxchan'[<<x, y>>][a] = <<>>
    BY <1>1, <1>3, QuietAtRest
  <2>2. \A x, y \in Nodes : chan'[<<x, y>>] = <<>> /\ back'[<<y, x>>] = <<>>
    BY <1>1, <1>3 DEF Resting
  <2>3. \A n \in Nodes : dst'[n].pc = "idle" /\ loadCnt'[n] = 0 /\ \A a \in AuxConns : auxh'[n][a].pc = "idle"
    BY <1>1, <1>3 DEF Resting
  <2> QED
    BY <2>1, <2>2, <2>3 DEF Quiet
<1>19. status[s] = "present" /\ heap[s] = Parts /\ rcu[s] = Holding
  BY <1>3, <1>7 DEF Resting
<1>20. Where(s, d)'
  <2>1. \A n \in Nodes : status[n] # "migrating" /\ (n # s => status[n] # "present")
    BY <1>3, <1>19 DEF Resting
  <2> QED
    BY <1>1, <1>4, <1>12, <1>13, <1>16, <1>19, <2>1 DEF Where
<1>21. Seated(s, d)'
  <2>1. \A t \in Threads :
          \/ th[t] = OutThread
          \/ th[t].node = s /\ th[t].pc \notin {"out", "parked"} /\ ~th[t].paused
    BY <1>3, <1>19 DEF Resting
  <2>2. OutThread.node = None
    BY DEF OutThread
  <2> QED
    BY <1>1, <1>13, <2>1, <2>2, NoNode DEF Seated
<1>22. Paired(s, d)'
  BY <1>8
<1> QED
  BY <1>5, <1>6, <1>11, <1>15, <1>17, <1>18, <1>20, <1>21, <1>22, StayInRound

(* The source is idle again, and a release of one node is posted.          *)
LEMMA IdleAgain ==
  ASSUME Types, NEW s \in Nodes, src' = [src EXCEPT ![s] = IdleSrc]
  PROVE  /\ src' \in [Nodes -> SrcRec] /\ src'[s].pc = "idle" /\ src'[s].sent = {}
         /\ \A n \in Nodes \ {s} : src'[n] = src[n]
<1>1. IdleSrc \in SrcRec /\ IdleSrc.pc = "idle" /\ IdleSrc.sent = {}
  BY DEF IdleSrc, SrcRec, SrcPcs
<1> QED
  BY <1>1 DEF Types

LEMMA NoDestStep ==
  ASSUME MigrationInv, NEW s \in Nodes, NoDest(s)
  PROVE  MigrationInv'
<1>1. /\ src[s].pc = "acquire" /\ src' = [src EXCEPT ![s] = IdleSrc]
      /\ UNCHANGED <<status, heap, rcu, loadCnt, th, dst, auxh, chan, auxchan, back, acquired, loc, rounds>>
  BY DEF NoDest, SrcAt, chanVars, ctlVars
<1>2. \A x, y \in Nodes : ~Paired(x, y)
  <2>1. Acquired /\ Busy(s)
    BY <1>1 DEF MigrationInv, Busy
  <2> QED
    BY <1>1, <2>1 DEF Acquired, Paired, Busy
<1>3. Types /\ SentSoFar /\ Acquired /\ Resting
  BY <1>2, RestFacts
<1>4. /\ src' \in [Nodes -> SrcRec] /\ src'[s].pc = "idle" /\ src'[s].sent = {}
      /\ \A n \in Nodes \ {s} : src'[n] = src[n]
  BY <1>1, <1>3, IdleAgain
<1>5. PICK m \in CtlMsg, q \in Seq(CtlMsg), k \in Nat :
        /\ m = [kind |-> "release", node |-> s] /\ q = toCtl[s] /\ k = Len(q) + 1
        /\ toCtl' = [toCtl EXCEPT ![s] = Append(q, m)]
  <2>1. [kind |-> "release", node |-> s] \in CtlMsg
    BY DEF CtlMsg
  <2>2. toCtl[s] \in Seq(CtlMsg) /\ Len(toCtl[s]) + 1 \in Nat
    BY <1>3 DEF Types
  <2>3. toCtl' = [toCtl EXCEPT ![s] = toCtl[s] \o <<[kind |-> "release", node |-> s]>>]
    BY DEF NoDest, Post
  <2>4. toCtl[s] \o <<[kind |-> "release", node |-> s]>> = Append(toCtl[s], [kind |-> "release", node |-> s])
    BY <1>3, <2>1, <2>2, Posting
  <2> QED
    BY <2>1, <2>2, <2>3, <2>4
<1>6. /\ toCtl' \in [Nodes -> Seq(CtlMsg)] /\ toCtl'[s] = Append(q, m)
      /\ \A n \in Nodes \ {s} : toCtl'[n] = toCtl[n]
  BY <1>3, <1>5, Posting DEF Types
<1>7. Types'
  BY <1>1, <1>3, <1>4, <1>6 DEF Types
<1>8. SentSoFar'
  BY <1>3, <1>4 DEF SentSoFar
<1>9. (\A x \in Nodes : Busy(x) <=> x = s) /\ (\A x \in Nodes : ~Busy(x)')
  BY <1>1, <1>3, <1>4 DEF Acquired, Busy
<1>10. \A x, y \in Nodes : ~Paired(x, y)'
  BY <1>9 DEF Paired, Busy
<1>11. \A l, n \in Nodes, i \in Nat :
         Releases(l, n, i)' <=> Releases(l, n, i) \/ (l = s /\ n = s /\ i = k)
  <2>1. \A l, n \in Nodes, i \in Nat : n # s => (Releases(l, n, i)' <=> Releases(l, n, i))
    BY <1>6 DEF Releases
  <2>2. ASSUME NEW l \in Nodes, NEW i \in Nat
        PROVE  Releases(l, s, i)' <=> Releases(l, s, i) \/ (l = s /\ i = k)
    <3>1. DOMAIN Append(q, m) = DOMAIN q \cup {k} /\ k \notin DOMAIN q /\ Append(q, m)[k] = m
      BY <1>3, <1>5, Posting
    <3>2. i \in DOMAIN q => Append(q, m)[i] = q[i]
      BY <1>3, <1>5, Posting
    <3>3. m = [kind |-> "release", node |-> l] <=> l = s
      BY <1>5
    <3> QED
      BY <1>5, <1>6, <3>1, <3>2, <3>3 DEF Releases
  <2> QED
    BY <2>1, <2>2
<1>12. s \in acquired /\ \A m2 \in Nodes, i \in Nat : ~Releases(s, m2, i)
  BY <1>3, <1>9 DEF Acquired
<1>13. Acquired'
  <2>1. \A l, n \in Nodes, i \in Nat : Releases(l, n, i)' =>
          /\ l \in acquired
          /\ \A n2 \in Nodes, j \in Nat : Releases(l, n2, j)' => n2 = n /\ j = i
    BY <1>3, <1>11, <1>12 DEF Acquired
  <2>2. \A x \in Nodes : src'[x].pc = "idle"
    BY <1>9 DEF Busy
  <2> QED
    BY <1>1, <1>9, <1>10, <2>1, <2>2 DEF Acquired
<1>14. Holding' = Holding
  BY <1>1, SameMessages
<1>15. Resting'
  BY <1>1, <1>3, <1>9, <1>14 DEF Resting
<1> QED
  BY <1>7, <1>8, <1>10, <1>13, <1>15, StayAtRest

LEMMA FinishRoundStep ==
  ASSUME MigrationInv, NEW s \in Nodes, FinishRound(s)
  PROVE  MigrationInv'
<1>1. PICK d \in Nodes : d = src[s].dest /\ src[s].pc = "approval" /\ Paired(s, d) /\ back[<<d, s>>] # <<>>
  BY AtSource DEF FinishRound, SrcAt
<1>2. /\ Types /\ SentSoFar /\ Acquired /\ Only(s, d)
      /\ Talk(s, d) /\ Loading(s, d) /\ Quiet(s, d) /\ Where(s, d) /\ Seated(s, d)
  BY <1>1, InRound
<1>3. /\ src' = [src EXCEPT ![s] = IdleSrc]
      /\ UNCHANGED <<status, heap, rcu, loadCnt, th, dst, auxh, chan, auxchan, acquired, loc, rounds>>
  BY DEF FinishRound, ctlVars
<1>4. /\ src' \in [Nodes -> SrcRec] /\ src'[s].pc = "idle" /\ src'[s].sent = {}
      /\ \A n \in Nodes \ {s} : src'[n] = src[n]
  BY <1>2, <1>3, IdleAgain
<1>5. Over(s, d) /\ (Skipped(s) \/ Left(s))
  BY <1>1, <1>2 DEF Talk, Told, Over, Skipped, Left
<1>6. /\ back' = [p \in Pairs |-> back'[p]] /\ back'[<<d, s>>] = <<>>
      /\ \A x, y \in Nodes : x # s \/ y # d => back'[<<y, x>>] = back[<<y, x>>]
  <2>1. back = [p \in Pairs |-> back[p]]
    BY <1>2 DEF Types
  <2>2. DOMAIN back = Pairs
    BY <2>1
  <2>3. back' = [back EXCEPT ![<<d, s>>] = Tail(back[<<d, s>>])]
    BY <1>1 DEF FinishRound, TakeApproval
  <2>4. Tail(back[<<d, s>>]) = <<>>
    BY <1>5, ReadingOne DEF Over
  <2> QED
    BY <2>1, <2>2, <2>3, <2>4 DEF Pairs
<1>7. PICK m1 \in CtlMsg, m2 \in CtlMsg, q \in Seq(CtlMsg), k \in Nat :
        /\ m1 = [kind |-> "release", node |-> d] /\ m2 = [kind |-> "release", node |-> s]
        /\ q = toCtl[s] /\ k = Len(q) + 1
        /\ toCtl' = [toCtl EXCEPT ![s] = Append(Append(q, m1), m2)]
  <2>1. [kind |-> "release", node |-> d] \in CtlMsg /\ [kind |-> "release", node |-> s] \in CtlMsg
    BY DEF CtlMsg
  <2>2. PICK m1 \in CtlMsg, m2 \in CtlMsg :
          m1 = [kind |-> "release", node |-> d] /\ m2 = [kind |-> "release", node |-> s]
    BY <2>1
  <2>3. toCtl[s] \in Seq(CtlMsg) /\ Len(toCtl[s]) + 1 \in Nat
    BY <1>2 DEF Types
  <2>4. toCtl' = [toCtl EXCEPT ![s] = toCtl[s] \o <<m1, m2>>]
    BY <1>1, <2>2 DEF FinishRound, Post
  <2>5. toCtl[s] \o <<m1, m2>> = Append(Append(toCtl[s], m1), m2)
    BY <2>3, ConcatTwo
  <2> QED
    BY <2>2, <2>3, <2>4, <2>5
<1>8. PICK r \in Seq(CtlMsg) :
        /\ r = Append(q, m1)
        /\ DOMAIN r = DOMAIN q \cup {k} /\ k \notin DOMAIN q /\ r[k] = m1
        /\ \A i \in DOMAIN q : r[i] = q[i]
  <2>1. /\ Append(q, m1) \in Seq(CtlMsg)
        /\ DOMAIN Append(q, m1) = DOMAIN q \cup {k} /\ k \notin DOMAIN q
        /\ \A i \in DOMAIN q : Append(q, m1)[i] = q[i]
        /\ Append(q, m1)[k] = m1
    BY <1>2, <1>7, Posting
  <2> QED
    BY <2>1
<1>9. Len(r) = k
  BY <1>7, <1>8
<1>10. PICK z \in Seq(CtlMsg) :
        /\ z = Append(r, m2)
        /\ DOMAIN z = DOMAIN q \cup {k, k + 1} /\ k \notin DOMAIN q /\ k + 1 \notin DOMAIN q
        /\ z[k] = m1 /\ z[k + 1] = m2
        /\ \A i \in DOMAIN q : z[i] = q[i]
  <2>1. /\ Append(r, m2) \in Seq(CtlMsg)
        /\ DOMAIN Append(r, m2) = DOMAIN r \cup {k + 1} /\ k + 1 \notin DOMAIN r
        /\ \A i \in DOMAIN r : Append(r, m2)[i] = r[i]
        /\ Append(r, m2)[k + 1] = m2
    BY <1>2, <1>9, Posting
  <2> QED
    BY <1>8, <2>1
<1>11. /\ toCtl' \in [Nodes -> Seq(CtlMsg)] /\ toCtl'[s] = z
       /\ \A n \in Nodes \ {s} : toCtl'[n] = toCtl[n]
  BY <1>2, <1>7, <1>8, <1>10 DEF Types
<1>12. Types'
  BY <1>2, <1>3, <1>4, <1>6, <1>11 DEF Types
<1>13. SentSoFar'
  BY <1>2, <1>4 DEF SentSoFar
<1>14. \A x \in Nodes : ~Busy(x)'
  BY <1>2, <1>4 DEF Only, Busy
<1>15. \A x, y \in Nodes : ~Paired(x, y)'
  BY <1>14 DEF Paired, Busy
<1>16. \A l, n \in Nodes, i \in Nat :
         Releases(l, n, i)' <=> \/ Releases(l, n, i)
                                \/ l = d /\ n = s /\ i = k
                                \/ l = s /\ n = s /\ i = k + 1
  <2>1. \A l, n \in Nodes, i \in Nat : n # s => (Releases(l, n, i)' <=> Releases(l, n, i))
    BY <1>11 DEF Releases
  <2>2. ASSUME NEW l \in Nodes, NEW i \in Nat
        PROVE  Releases(l, s, i)' <=> Releases(l, s, i) \/ (l = d /\ i = k) \/ (l = s /\ i = k + 1)
    <3>1. Releases(l, s, i)' <=> i \in DOMAIN z /\ z[i] = [kind |-> "release", node |-> l]
      BY <1>11 DEF Releases
    <3>2. Releases(l, s, i) <=> i \in DOMAIN q /\ q[i] = [kind |-> "release", node |-> l]
      BY <1>7 DEF Releases
    <3>3. /\ m1 = [kind |-> "release", node |-> l] <=> l = d
          /\ m2 = [kind |-> "release", node |-> l] <=> l = s
      BY <1>7
    <3>4. CASE i \in DOMAIN q
      BY <1>10, <3>1, <3>2, <3>4
    <3>5. CASE i \notin DOMAIN q
      BY <1>7, <1>10, <3>1, <3>2, <3>3, <3>5
    <3> QED
      BY <3>4, <3>5
  <2> QED
    BY <2>1, <2>2
<1>17. /\ s \in acquired /\ d \in acquired /\ s # d
       /\ \A n \in Nodes, i \in Nat : ~Releases(s, n, i) /\ ~Releases(d, n, i)
  BY <1>1, <1>2 DEF Acquired, Only
<1>18. Acquired'
  <2>1. \A l, n \in Nodes, i \in Nat : Releases(l, n, i)' =>
          /\ l \in acquired
          /\ \A n2 \in Nodes, j \in Nat : Releases(l, n2, j)' => n2 = n /\ j = i
    <3>1. SUFFICES ASSUME NEW l \in Nodes, NEW n \in Nodes, NEW i \in Nat, Releases(l, n, i)'
                   PROVE  /\ l \in acquired
                          /\ \A n2 \in Nodes, j \in Nat : Releases(l, n2, j)' => n2 = n /\ j = i
      OBVIOUS
    <3>2. CASE l = s \/ l = d
      BY <1>7, <1>16, <1>17, <3>1, <3>2
    <3>3. CASE l # s /\ l # d
      BY <1>2, <1>16, <3>1, <3>3 DEF Acquired
    <3> QED
      BY <3>2, <3>3
  <2>2. \A x \in Nodes : src'[x].pc = "idle"
    BY <1>14 DEF Busy
  <2> QED
    BY <1>3, <1>14, <1>15, <2>1, <2>2 DEF Acquired
<1>19. Holding' = Holding
  BY <1>3, SameMessages
<1>20. /\ dst[d].pc = "idle" /\ chan[<<s, d>>] = <<>> /\ <<"approve">> # <<>>
       /\ Landed(s, d) <=> Left(s)
  BY <1>1, <1>5, ReadingOne DEF Over, Landed, Finished
<1>21. /\ \A a \in AuxConns : auxchan[<<s, d>>][a] = <<>>
       /\ loadCnt[d] = 0
       /\ Left(s) => heap[d] = Parts /\ rcu[d] = Holding
  <2>1. CASE Left(s)
    BY <1>1, <1>2, <2>1 DEF Loading, Whole, Finished
  <2>2. CASE Skipped(s)
    <3>1. src[s].sent = {} /\ ~Left(s)
      BY <2>2 DEF Skipped, Left
    <3>2. Loaded(s, d) = {} /\ ~Whole(s, d) /\ Cardinality({}) = 0
      BY <1>20, <3>1, FS_EmptySet DEF Loaded, Whole, Finished
    <3>3. loadCnt[d] = (IF dst[d].pc = "spin" THEN NumChunks ELSE 0) - Cardinality(Loaded(s, d))
      BY <1>2, <3>2 DEF Loading
    <3>4. \A a \in AuxConns : auxchan[<<s, d>>][a] = <<>>
      BY <1>2, <3>1 DEF Loading
    <3> QED
      BY <1>20, <3>1, <3>2, <3>3, <3>4
  <2> QED
    BY <1>5, <2>1, <2>2
<1>22. \A a \in AuxConns : auxh[d][a].pc = "idle"
  BY <1>2, <1>21 DEF Quiet
<1>23. /\ \A x, y \in Nodes :
            /\ chan'[<<x, y>>] = <<>> /\ back'[<<y, x>>] = <<>>
            /\ \A a \in AuxConns : auxchan'[<<x, y>>][a] = <<>>
       /\ \A n \in Nodes :
            /\ dst'[n].pc = "idle" /\ loadCnt'[n] = 0
            /\ \A a \in AuxConns : auxh'[n][a].pc = "idle"
  <2>1. \A x, y \in Nodes :
          /\ chan'[<<x, y>>] = <<>> /\ back'[<<y, x>>] = <<>>
          /\ \A a \in AuxConns : auxchan'[<<x, y>>][a] = <<>>
    <3>1. ASSUME NEW x \in Nodes, NEW y \in Nodes, x # s \/ y # d
          PROVE  /\ chan'[<<x, y>>] = <<>> /\ back'[<<y, x>>] = <<>>
                 /\ \A a \in AuxConns : auxchan'[<<x, y>>][a] = <<>>
      BY <1>2, <1>3, <1>6, <3>1 DEF Quiet
    <3> QED
      BY <1>3, <1>6, <1>20, <1>21, <3>1
  <2>2. \A n \in Nodes :
          /\ dst'[n].pc = "idle" /\ loadCnt'[n] = 0
          /\ \A a \in AuxConns : auxh'[n][a].pc = "idle"
    BY <1>2, <1>3, <1>20, <1>21, <1>22 DEF Quiet
  <2> QED
    BY <2>1, <2>2
<1>24. /\ Staying(s) <=> Skipped(s)
       /\ ~Leaving(s) /\ src[s].pc \notin {"location", "clean"} /\ ~Stopped(s)
       /\ Left(s) <=> ~Skipped(s)
  BY <1>1, <1>2, <1>5, Stages DEF Staying, Leaving, Stopped
<1>25. /\ \A n \in Nodes : status[n] # "migrating"
       /\ \A n \in Nodes : status[n] = "present" <=> (n = s /\ Skipped(s)) \/ (n = d /\ Left(s))
  BY <1>2, <1>17, <1>20, <1>24 DEF Where
<1>26. \A n \in Nodes : status[n] = "present" => heap[n] = Parts /\ rcu[n] = Holding
  BY <1>2, <1>21, <1>24, <1>25 DEF Where
<1>27. \A t \in Threads :
         \/ th[t] = OutThread
         \/ /\ th[t].node \in Nodes /\ status[th[t].node] = "present"
            /\ th[t].pc \notin {"out", "parked"} /\ ~th[t].paused
  <2>1. SUFFICES ASSUME NEW t \in Threads, th[t] # OutThread
                 PROVE  /\ th[t].node \in Nodes /\ status[th[t].node] = "present"
                        /\ th[t].pc \notin {"out", "parked"} /\ ~th[t].paused
    OBVIOUS
  <2>2. CASE th[t].node = s
    BY <1>2, <1>24, <1>25, <2>2 DEF Seated
  <2>3. CASE th[t].node = d
    BY <1>2, <1>20, <1>24, <1>25, <2>3 DEF Seated
  <2>4. CASE th[t].node = None
    BY <1>2, <1>20, <1>24, <2>1, <2>4 DEF Seated
  <2> QED
    BY <1>2, <2>2, <2>3, <2>4 DEF Seated
<1>28. Resting'
  <2>1. \A m, n \in Nodes : status[m] = "present" /\ status[n] = "present" => m = n
    BY <1>24, <1>25
  <2> QED
    BY <1>3, <1>14, <1>19, <1>23, <1>25, <1>26, <1>27, <2>1 DEF Resting
<1> QED
  BY <1>12, <1>13, <1>15, <1>18, <1>28, StayAtRest

---------------------------------------------------------------------------
(* The controller and the clean-ups.                                       *)

LEMMA SamePlaces ==
  ASSUME MigrationInv, Types', Acquired', UNCHANGED <<status, heap, rcu, loadCnt, th, src, dst, auxh, chan, auxchan, back>>
  PROVE  MigrationInv'
<1>1. /\ CopyMsg' = CopyMsg /\ Holding' = Holding /\ BlockedMsg' = BlockedMsg /\ ReadyMsg' = ReadyMsg
      /\ TasksMsg' = TasksMsg /\ SkipMsg' = SkipMsg
  BY SameMessages DEF TasksMsg, SkipMsg
<1>2. \A x, y \in Nodes : Paired(x, y)' <=> Paired(x, y)
  BY DEF Paired
<1>3. ASSUME NEW s \in Nodes, NEW d \in Nodes, Paired(s, d)
      PROVE  Round(s, d)'
  <2>1. Talk(s, d) /\ Loading(s, d) /\ Quiet(s, d) /\ Where(s, d) /\ Seated(s, d)
    BY <1>3, InRound
  <2>2. Loaded(s, d)' = Loaded(s, d) /\ (Whole(s, d)' <=> Whole(s, d)) /\ (Landed(s, d)' <=> Landed(s, d))
    BY StagesKept DEF Loaded, Whole, Finished, Landed
  <2>3. Talk(s, d)'
    BY <1>1, <2>1, StagesKept DEF Talk, Told, Over
  <2>4. Loading(s, d)'
    BY <1>1, <2>1, <2>2 DEF Loading
  <2>5. Quiet(s, d)'
    BY <2>1, QuietKept DEF Quiet
  <2>6. Where(s, d)'
    BY <1>1, <2>1, <2>2, StagesKept DEF Where
  <2>7. Seated(s, d)'
    BY <2>1, <2>2, StagesKept DEF Seated
  <2> QED
    BY <2>3, <2>4, <2>5, <2>6, <2>7 DEF Round
<1>4. Resting => Resting'
  BY <1>1 DEF Resting, Busy
<1>5. SentSoFar'
  BY DEF MigrationInv, SentSoFar
<1> QED
  BY <1>2, <1>3, <1>4, <1>5 DEF MigrationInv

LEMMA ControllerStepKeeps ==
  ASSUME MigrationInv, NEW n \in Nodes, ControllerStep(n)
  PROVE  MigrationInv'
<1>1. /\ toCtl[n] # <<>> /\ toCtl' = [toCtl EXCEPT ![n] = Tail(toCtl[n])]
      /\ UNCHANGED <<status, heap, rcu, loadCnt, th, src, dst, auxh, chan, auxchan, back, rounds>>
  BY DEF ControllerStep, chanVars
<1>2. Types /\ SentSoFar /\ Acquired
  BY DEF MigrationInv
<1>3. PICK q \in Seq(CtlMsg), m \in CtlMsg :
        /\ q = toCtl[n] /\ q # <<>> /\ m = Head(q)
        /\ IF m.kind = "release" THEN acquired' = acquired \ {m.node} /\ loc' = loc
                                 ELSE loc' = m.node /\ acquired' = acquired
  BY <1>1, <1>2 DEF Types, ControllerStep
<1>4. /\ Tail(q) \in Seq(CtlMsg) /\ q[1] = m /\ 1 \in DOMAIN q
      /\ \A i \in Nat : i \in DOMAIN Tail(q) => i # 0 /\ i + 1 \in DOMAIN q /\ Tail(q)[i] = q[i + 1]
  BY <1>3
<1>5. /\ toCtl' \in [Nodes -> Seq(CtlMsg)] /\ toCtl'[n] = Tail(q)
      /\ \A x \in Nodes \ {n} : toCtl'[x] = toCtl[x]
  BY <1>1, <1>2, <1>3, <1>4 DEF Types
<1>6. m.node \in Nodes /\ (m.kind = "release" => m = [kind |-> "release", node |-> m.node])
  BY DEF CtlMsg
<1>7. acquired' \subseteq Nodes /\ loc' \in Nodes
  BY <1>2, <1>3, <1>6 DEF Types
<1>8. Types'
  BY <1>1, <1>2, <1>5, <1>7 DEF Types
<1>9. \A l, x \in Nodes, i \in Nat : Releases(l, x, i)' =>
        IF x = n THEN i # 0 /\ Releases(l, x, i + 1) ELSE Releases(l, x, i)
  BY <1>3, <1>4, <1>5 DEF Releases
<1>10. m.kind = "release" => Releases(m.node, n, 1)
  BY <1>3, <1>4, <1>6 DEF Releases
<1>11. \A x \in Nodes : x \in acquired /\ x \notin acquired' => m.kind = "release" /\ x = m.node /\ Releases(x, n, 1)
  BY <1>3, <1>10
<1>12. Acquired'
  <2>1. (\A x \in Nodes : Busy(x)' <=> Busy(x)) /\ (\A x, y \in Nodes : Paired(x, y)' <=> Paired(x, y))
    BY <1>1 DEF Busy, Paired
  <2>2. \A x \in Nodes : Busy(x) => x \in acquired' /\ \A y \in Nodes, i \in Nat : ~Releases(x, y, i)'
    BY <1>2, <1>9, <1>11 DEF Acquired
  <2>3. \A x, y \in Nodes : Paired(x, y) => y \in acquired' /\ \A z \in Nodes, i \in Nat : ~Releases(y, z, i)'
    BY <1>2, <1>9, <1>11 DEF Acquired
  <2>4. ASSUME NEW l \in Nodes, NEW x \in Nodes, NEW i \in Nat, Releases(l, x, i)'
        PROVE  /\ l \in acquired'
               /\ \A y \in Nodes, j \in Nat : Releases(l, y, j)' => y = x /\ j = i
    <3>1. PICK k \in Nat : Releases(l, x, k) /\ k = (IF x = n THEN i + 1 ELSE i) /\ (x = n => k # 1)
      BY <1>9, <2>4
    <3>2. l \in acquired /\ \A y \in Nodes, j \in Nat : Releases(l, y, j) => y = x /\ j = k
      BY <1>2, <3>1 DEF Acquired
    <3>3. ~Releases(l, n, 1)
      BY <3>1, <3>2
    <3>4. l \in acquired'
      BY <1>11, <3>2, <3>3
    <3>5. ASSUME NEW y \in Nodes, NEW j \in Nat, Releases(l, y, j)'
          PROVE  y = x /\ j = i
      BY <1>9, <3>1, <3>2, <3>5
    <3> QED
      BY <3>4, <3>5
  <2>5. \A x \in Nodes : src'[x].pc \notin {"idle", "acquire"} => src'[x].dest \in Nodes
    BY <1>1, <1>2 DEF Acquired
  <2> QED
    BY <1>2, <2>1, <2>2, <2>3, <2>4, <2>5 DEF Acquired
<1> QED
  BY <1>1, <1>8, <1>12, SamePlaces

LEMMA RunJobStep ==
  ASSUME MigrationInv, NEW n \in Nodes, NEW job \in Jobs, RunJob(n, job)
  PROVE  MigrationInv'
<1>1. UNCHANGED <<th, src, dst, auxh, chan, auxchan, back, acquired, loc, toCtl, rounds>>
  BY DEF RunJob, chanVars, ctlVars
<1>2. Types /\ SentSoFar /\ Acquired
  BY DEF MigrationInv
<1>3. CASE UNCHANGED <<status, heap, rcu, loadCnt>>
  <2>1. Types'
    BY <1>1, <1>2, <1>3 DEF Types
  <2>2. Acquired'
    BY <1>1, <1>2, <1>3 DEF Acquired, Busy, Paired, Releases
  <2> QED
    BY <1>1, <1>3, <2>1, <2>2, SamePlaces
<1>4. CASE status[n] \in {"cleaning", "depopulating"} /\ Wipe(n)
  <2>1. /\ status' \in [Nodes -> Status] /\ heap' \in [Nodes -> SUBSET Parts]
        /\ rcu' \in [Nodes -> SUBSET Threads] /\ loadCnt' \in [Nodes -> Int]
        /\ status'[n] = "absent" /\ heap'[n] = {} /\ rcu'[n] = {} /\ loadCnt'[n] = 0
        /\ \A x \in Nodes \ {n} :
             status'[x] = status[x] /\ heap'[x] = heap[x] /\ rcu'[x] = rcu[x] /\ loadCnt'[x] = loadCnt[x]
    BY <1>2, <1>4 DEF Types, Wipe, Status
  <2>2. Types'
    BY <1>1, <1>2, <2>1 DEF Types
  <2>3. /\ CopyMsg' = CopyMsg /\ Holding' = Holding /\ BlockedMsg' = BlockedMsg /\ ReadyMsg' = ReadyMsg
        /\ TasksMsg' = TasksMsg /\ SkipMsg' = SkipMsg
    BY <1>1, SameMessages DEF TasksMsg, SkipMsg
  <2>4. SentSoFar' /\ Acquired' /\ \A x, y \in Nodes : Paired(x, y)' <=> Paired(x, y)
    BY <1>1, <1>2 DEF Acquired, Busy, Paired, Releases, SentSoFar
  <2>5. ASSUME NEW s \in Nodes, NEW d \in Nodes, Paired(s, d)
        PROVE  Round(s, d)'
    <3>1. Talk(s, d) /\ Loading(s, d) /\ Quiet(s, d) /\ Where(s, d) /\ Seated(s, d) /\ Only(s, d)
      BY <2>5, InRound
    <3>2. Loaded(s, d)' = Loaded(s, d) /\ (Whole(s, d)' <=> Whole(s, d)) /\ (Landed(s, d)' <=> Landed(s, d))
      BY <1>1, StagesKept DEF Loaded, Whole, Finished, Landed
    <3>3. n = s => ~Staying(s) /\ ~Leaving(s) /\ src[s].pc \notin {"location", "clean"}
      BY <1>4, <3>1 DEF Where
    <3>4. n = d => ~Whole(s, d) /\ Loaded(s, d) = {} /\ ~\E a \in AuxConns : auxh[d][a].pc = "payload"
      BY <1>4, <3>1 DEF Loading
    <3>5. Landed(s, d) => Whole(s, d)
      BY DEF Landed, Whole
    <3>6. n = d => dst[d].pc # "spin"
      BY <3>4 DEF Loaded
    <3>7. Talk(s, d)'
      BY <1>1, <2>3, <3>1, StagesKept DEF Talk, Told, Over
    <3>8. Loading(s, d)'
      <4>1. CASE n = d
        <5>1. Cardinality({}) = 0
          BY FS_EmptySet
        <5>2. ~Whole(s, d)' /\ Loaded(s, d)' = {} /\ status'[d] = "absent" /\ dst'[d].pc # "spin" /\ loadCnt'[d] = 0
          BY <1>1, <2>1, <3>2, <3>4, <3>6, <4>1
        <5>3. loadCnt'[d] = (IF dst'[d].pc = "spin" THEN NumChunks ELSE 0) - Cardinality(Loaded(s, d)')
          BY <5>1, <5>2
        <5>4. \A a \in AuxConns :
                auxchan'[<<s, d>>][a] # <<>> => a \in src'[s].sent /\ auxchan'[<<s, d>>][a] = <<CopyMsg'>>
          BY <1>1, <2>3, <3>1 DEF Loading
        <5> QED
          BY <5>2, <5>3, <5>4 DEF Loading
      <4>2. CASE n # d
        BY <1>1, <2>1, <2>3, <3>1, <3>2, <4>2 DEF Loading
      <4> QED
        BY <4>1, <4>2
    <3>9. Quiet(s, d)'
      BY <1>1, <2>1, <3>1 DEF Quiet
    <3>10. Where(s, d)'
      BY <1>1, <2>1, <2>3, <3>1, <3>2, <3>3, <3>4, <3>5, StagesKept DEF Where, Only
    <3>11. Seated(s, d)'
      BY <1>1, <3>1, <3>2, StagesKept DEF Seated
    <3> QED
      BY <3>7, <3>8, <3>9, <3>10, <3>11 DEF Round
  <2>6. Resting => Resting'
    <3> SUFFICES ASSUME Resting PROVE Resting'
      OBVIOUS
    <3>1. \A x \in Nodes : status'[x] = "present" <=> status[x] = "present"
      BY <1>4, <2>1
    <3>2. \A x \in Nodes : status'[x] # "migrating" /\ loadCnt'[x] = 0
      BY <2>1 DEF Resting
    <3>3. \A x \in Nodes : status'[x] = "present" => heap'[x] = Parts /\ rcu'[x] = Holding
      BY <2>1 DEF Resting
    <3> QED
      BY <1>1, <2>3, <3>1, <3>2, <3>3 DEF Resting, Busy
  <2> QED
    BY <2>2, <2>4, <2>5, <2>6 DEF MigrationInv
<1>5. Expected(job) \in {"cleaning", "depopulating"}
  BY DEF Expected
<1> QED
  BY <1>3, <1>4, <1>5 DEF RunJob

---------------------------------------------------------------------------
(* The threads of the proclet.                                             *)

(* Where a thread runs, the proclet is, and has not stopped it.            *)
Hosting(s, d, n) ==
  \/ n = s /\ (Staying(s) \/ src[s].pc \in {"sync", "syncing", "pause"})
  \/ n = d /\ Landed(s, d)

Running(t, n) ==
  \/ th[t] = OutThread /\ Usable(n)
  \/ th[t].node = n /\ ~th[t].paused /\ th[t].pc \notin {"out", "parked"}

LEMMA RunsAtHost ==
  ASSUME MigrationInv, NEW t \in Threads, NEW n \in Nodes, Running(t, n),
         NEW s \in Nodes, NEW d \in Nodes, Paired(s, d)
  PROVE  Hosting(s, d, n)
<1>1. Types /\ Where(s, d) /\ Seated(s, d)
  BY InRound
<1>2. CASE th[t] = OutThread /\ Usable(n)
  BY <1>1, <1>2 DEF Where, Usable, Hosting
<1>3. CASE th[t].node = n /\ ~th[t].paused /\ th[t].pc \notin {"out", "parked"}
  <2>1. n = s \/ n = d
    BY <1>1, <1>3, NoNode DEF Seated
  <2>2. CASE n = s
    BY <1>1, <1>3, <2>2 DEF Seated, Hosting, Stopped, Leaving
  <2>3. CASE n = d
    BY <1>1, <1>3, <2>3 DEF Seated, Hosting
  <2> QED
    BY <2>1, <2>2, <2>3
<1> QED
  BY <1>2, <1>3 DEF Running

LEMMA RunsAtRest ==
  ASSUME MigrationInv, NEW t \in Threads, NEW n \in Nodes, Running(t, n), Resting
  PROVE  status[n] = "present"
BY OutAlone, NoNode DEF Resting, Running, Usable

(* One thread goes on; a section it ends is one less to wait for.          *)
ThreadOnly(t, n) ==
  /\ UNCHANGED <<status, heap, loadCnt, dst, auxh, chan, auxchan, back, acquired, loc, toCtl, rounds>>
  /\ th' \in [Threads -> ThreadRec]
  /\ \A x \in Threads \ {t} : th'[x] = th[x]
  /\ \/ th'[t] = OutThread
     \/ th'[t].node = n /\ ~th'[t].paused /\ th'[t].pc # "out"
  /\ th'[t].pc \in {"parked", "guard"} => (th'[t].pc = "guard" <=> status[n] = "present")
  /\ rcu' \in [Nodes -> SUBSET Threads]
  /\ \A m \in Nodes \ {n} : rcu'[m] = rcu[m]
  /\ rcu[n] = Holding => rcu'[n] = Holding'
  /\ src' \in [Nodes -> SrcRec]
  /\ \A m \in Nodes :
       /\ src'[m].pc = src[m].pc /\ src'[m].dest = src[m].dest /\ src'[m].sent = src[m].sent
       /\ src[m].waitFor \ {t} \subseteq src'[m].waitFor

LEMMA SrcAlike ==
  ASSUME SentSoFar, Acquired, NEW t, NEW n, ThreadOnly(t, n)
  PROVE  /\ SentSoFar' /\ Acquired'
         /\ \A x \in Nodes : Busy(x)' <=> Busy(x)
         /\ \A x, y \in Nodes : Paired(x, y)' <=> Paired(x, y)
<1>1. \A m \in Nodes : src'[m].pc = src[m].pc /\ src'[m].dest = src[m].dest /\ src'[m].sent = src[m].sent
  BY DEF ThreadOnly
<1>2. \A l, m \in Nodes, i \in Nat : Releases(l, m, i)' <=> Releases(l, m, i)
  BY DEF ThreadOnly, Releases
<1>3. (\A x \in Nodes : Busy(x)' <=> Busy(x)) /\ (\A x, y \in Nodes : Paired(x, y)' <=> Paired(x, y))
  BY <1>1 DEF Busy, Paired
<1>4. acquired' = acquired
  BY DEF ThreadOnly
<1> QED
  BY <1>1, <1>2, <1>3, <1>4 DEF SentSoFar, Acquired

LEMMA StagesAlike ==
  ASSUME NEW s \in Nodes, NEW t, NEW n, ThreadOnly(t, n)
  PROVE  /\ (Staying(s)' <=> Staying(s)) /\ (Leaving(s)' <=> Leaving(s)) /\ (Left(s)' <=> Left(s))
         /\ (Skipped(s)' <=> Skipped(s)) /\ (Announced(s)' <=> Announced(s))
         /\ (Copied(s)' <=> Copied(s)) /\ (Stopped(s)' <=> Stopped(s)) /\ src'[s].pc = src[s].pc
         /\ src'[s].sent = src[s].sent
BY DEF ThreadOnly, Staying, Leaving, Left, Skipped, Announced, Copied, Stopped

LEMMA ThreadInRound ==
  ASSUME MigrationInv, NEW t \in Threads, NEW n \in Nodes, Running(t, n), ThreadOnly(t, n),
         NEW s \in Nodes, NEW d \in Nodes, Paired(s, d)
  PROVE  Round(s, d)'
<1>1. /\ Types /\ SentSoFar /\ Acquired /\ Only(s, d)
      /\ Talk(s, d) /\ Loading(s, d) /\ Quiet(s, d) /\ Where(s, d) /\ Seated(s, d)
  BY InRound
<1>2. Hosting(s, d, n)
  BY RunsAtHost
<1>3. UNCHANGED <<status, heap, loadCnt, dst, auxh, chan, auxchan, back, acquired, loc, toCtl, rounds>>
  BY DEF ThreadOnly
<1>4. BlockedMsg' = BlockedMsg /\ ReadyMsg' = ReadyMsg /\ TasksMsg' = TasksMsg /\ SkipMsg' = SkipMsg
  <2>1. t \notin Travelling /\ t \notin Travelling'
    BY NoNode, OutAlone DEF Running, ThreadOnly, Travelling
  <2>2. \A x \in Threads \ {t} : th'[x] = th[x]
    BY DEF ThreadOnly
  <2>3. Travelling' = Travelling /\ \A x \in Travelling : th'[x].pc = th[x].pc
    BY <2>1, <2>2 DEF Travelling
  <2>4. {x \in Travelling : th[x].pc = "parked"}' = {x \in Travelling : th[x].pc = "parked"}
    BY <2>3
  <2>5. {x \in Travelling : th[x].pc # "parked"}' = {x \in Travelling : th[x].pc # "parked"}
    BY <2>3
  <2>6. ASSUME NEW Q \in SUBSET Travelling
        PROVE  [x \in Q |-> th'[x].pc] = [x \in Q |-> th[x].pc]
    BY <2>3
  <2> QED
    BY <2>4, <2>5, <2>6 DEF BlockedMsg, ReadyMsg, Carry, TasksMsg, SkipMsg
<1>5. /\ Loaded(s, d)' = Loaded(s, d) /\ (Whole(s, d)' <=> Whole(s, d)) /\ (Landed(s, d)' <=> Landed(s, d))
  BY <1>3, StagesAlike DEF Loaded, Whole, Finished, Landed
<1>6. Landed(s, d) => /\ Whole(s, d) /\ Left(s) /\ ~Staying(s) /\ ~Leaving(s)
                      /\ src[s].pc \notin {"sync", "syncing", "pause"}
  BY <1>1, Stages DEF Landed, Whole, Finished, Talk, Told, Over, Leaving
<1>7. src[s].pc \in {"sync", "syncing", "pause"} => Announced(s) /\ Leaving(s) /\ ~Staying(s) /\ src[s].sent = {}
  BY <1>1 DEF Announced, Leaving, Staying, Skipped, SentSoFar
<1>8. /\ ~Copied(s)
      /\ Left(s) => Landed(s, d)
      /\ n = s \/ Left(s)
      /\ n = s => ~Left(s) /\ src[s].sent = {}
  <2>1. Staying(s) => ~Copied(s) /\ ~Left(s) /\ src[s].sent = {}
    BY <1>1, Stages DEF Staying, Skipped, SentSoFar
  <2> QED
    BY <1>1, <1>2, <1>6, <1>7, <2>1, Stages DEF Hosting, Only
<1>9. Talk(s, d)'
  <2>1. Left(s) => \/ Told(s, d, {"insert", "ready"}, <<ReadyMsg>>)
                   \/ Told(s, d, {"signal", "approve"}, <<>>)
                   \/ Over(s, d)
    BY <1>1, <1>8 DEF Talk, Landed, Finished, Told
  <2> QED
    BY <1>1, <1>3, <1>4, <1>8, <2>1, StagesAlike DEF Talk, Told, Over
<1>10. Loading(s, d)'
  <2>1. CASE n = s
    <3>1. ~Whole(s, d) /\ Loaded(s, d) = {} /\ \A a \in AuxConns : auxchan[<<s, d>>][a] = <<>>
      <4>1. \A a \in AuxConns : auxchan[<<s, d>>][a] = <<>>
        BY <1>1, <1>8, <2>1 DEF Loading
      <4>2. dst[d].pc \in {"idle", "populate", "load", "approve"}
        BY <1>1, <1>8, <2>1, Stages DEF Talk, Told, Over
      <4> QED
        BY <1>8, <2>1, <4>1, <4>2 DEF Whole, Finished, Loaded
    <3> QED
      BY <1>1, <1>3, <1>5, <3>1 DEF Loading
  <2>2. CASE n = d
    <3>1. Whole(s, d) /\ \A a \in AuxConns : auxchan[<<s, d>>][a] = <<>>
      BY <1>1, <1>6, <1>8, <2>2 DEF Loading, Only
    <3>2. rcu'[d] = Holding'
      BY <1>1, <2>2, <3>1 DEF Loading, ThreadOnly
    <3>3. src'[s].sent = src[s].sent
      BY StagesAlike
    <3> QED
      BY <1>1, <1>3, <1>5, <3>1, <3>2, <3>3 DEF Loading
  <2> QED
    BY <1>2, <2>1, <2>2 DEF Hosting
<1>11. Quiet(s, d)'
  BY <1>1, <1>3, QuietKept DEF Quiet
<1>12. Where(s, d)'
  <2>1. Staying(s) \/ Leaving(s) => heap[s] = Parts /\ rcu'[s] = Holding'
    BY <1>1, <1>6, <1>8 DEF Where, ThreadOnly
  <2> QED
    BY <1>1, <1>3, <1>5, <2>1, StagesAlike DEF Where
<1>13. Seated(s, d)'
  <2>1. n = s => ~Stopped(s) /\ (Staying(s) \/ Leaving(s))
    BY <1>1, <1>2, <1>6, <1>7 DEF Hosting, Stopped, Staying, Skipped, Only
  <2>2. n = d => Landed(s, d) /\ status[d] = "present"
    BY <1>1, <1>2 DEF Hosting, Where, Only
  <2>3. n = s /\ status[s] = "present" => Staying(s)
    BY <1>1 DEF Where
  <2>4. n = s /\ status[s] # "present" => Leaving(s)
    BY <1>1, <2>1 DEF Where
  <2>5. th'[t].node = s =>
          /\ Staying(s) \/ Leaving(s)
          /\ th'[t].pc # "out" /\ ~th'[t].paused /\ ~Stopped(s)
          /\ th'[t].pc = "parked" => Leaving(s)
          /\ th'[t].pc = "guard" => Staying(s)
    BY <1>2, <2>1, <2>3, <2>4, NoNode, OutAlone DEF ThreadOnly
  <2>6. th'[t].node = d =>
          Landed(s, d) /\ th'[t].pc # "out" /\ ~th'[t].paused /\ th'[t].pc # "parked"
    BY <2>2, NoNode, OutAlone DEF ThreadOnly
  <2>7. th'[t].node \in {s, d, None} /\ (th'[t].node = None => th'[t] = OutThread)
    BY <1>2, NoNode, OutAlone DEF ThreadOnly, Hosting
  <2>8. /\ \A x \in Threads \ {t} : th'[x] = th[x]
        /\ \A x \in Threads \ {t} : x \in src[s].waitFor => x \in src'[s].waitFor
    BY DEF ThreadOnly
  <2>9. dst[d].pc = "insert" => ~Landed(s, d)
    BY <1>1 DEF Landed, Finished, Talk, Told, Over
  <2>10. /\ \A x \in Threads : th'[x].node \in {s, d, None}
         /\ \A x \in Threads : th'[x].node = s =>
              /\ Staying(s) \/ Leaving(s)
              /\ th'[x].pc # "out"
              /\ th'[x].paused => Stopped(s)
              /\ Stopped(s) => \/ th'[x].paused /\ th'[x].pc \in {"free", "relock", "towait"}
                               \/ ~th'[x].paused /\ th'[x].pc = "parked"
              /\ th'[x].pc = "parked" => Leaving(s)
              /\ th'[x].pc = "guard" =>
                   \/ Staying(s) \/ src[s].pc = "sync"
                   \/ src[s].pc = "syncing" /\ x \in src'[s].waitFor
    BY <1>1, <2>5, <2>7, <2>8 DEF Seated
  <2>11. \A x \in Threads : th'[x].node = d =>
           /\ dst[d].pc = "insert" \/ Landed(s, d)
           /\ th'[x].pc # "out" /\ ~th'[x].paused
           /\ dst[d].pc = "insert" => th'[x].pc = "parked"
           /\ th'[x].pc = "parked" => dst[d].pc \in {"insert", "ready", "signal"}
    BY <1>1, <2>6, <2>8, <2>9 DEF Seated
  <2>12. \A x \in Threads : th'[x].node = None =>
           \/ th'[x] = OutThread
           \/ /\ th'[x].pc = "parked" /\ Left(s)
              /\ ~Landed(s, d) /\ dst[d].pc # "insert"
           \/ /\ th'[x].pc \in {"free", "relock", "towait"} /\ Left(s)
              /\ ~Landed(s, d) \/ dst[d].pc = "ready"
    BY <1>1, <2>7, <2>8 DEF Seated
  <2> QED
    BY <1>3, <1>5, <2>10, <2>11, <2>12, StagesAlike, OutAlone DEF Seated, OutThread
<1> QED
  BY <1>9, <1>10, <1>11, <1>12, <1>13 DEF Round

LEMMA ThreadOn ==
  ASSUME MigrationInv, NEW t \in Threads, NEW n \in Nodes, Running(t, n), ThreadOnly(t, n)
  PROVE  MigrationInv'
<1>1. Types /\ SentSoFar /\ Acquired
  BY DEF MigrationInv
<1>2. Types'
  BY <1>1 DEF Types, ThreadOnly
<1>3. /\ SentSoFar' /\ Acquired'
      /\ \A x \in Nodes : Busy(x)' <=> Busy(x)
      /\ \A x, y \in Nodes : Paired(x, y)' <=> Paired(x, y)
  BY <1>1, SrcAlike
<1>4. ASSUME NEW s \in Nodes, NEW d \in Nodes, Paired(s, d)
      PROVE  Round(s, d)'
  BY <1>4, ThreadInRound
<1>5. ASSUME Resting
      PROVE  Resting'
  <2>1. status[n] = "present"
    BY <1>5, RunsAtRest
  <2>2. UNCHANGED <<status, heap, loadCnt, dst, auxh, chan, auxchan, back>>
    BY DEF ThreadOnly
  <2>3. \A m \in Nodes : status[m] = "present" => m = n /\ heap[m] = Parts /\ rcu'[m] = Holding'
    BY <1>5, <2>1 DEF Resting, ThreadOnly
  <2>4. ASSUME NEW x \in Threads
        PROVE  \/ th'[x] = OutThread
               \/ /\ th'[x].node \in Nodes /\ status[th'[x].node] = "present"
                  /\ th'[x].pc \notin {"out", "parked"} /\ ~th'[x].paused
    <3>1. CASE x = t
      BY <2>1, <3>1 DEF ThreadOnly
    <3>2. CASE x # t
      BY <1>5, <3>2 DEF Resting, ThreadOnly
    <3> QED
      BY <3>1, <3>2
  <2>5. OutThread' = OutThread
    BY DEF OutThread
  <2> QED
    BY <1>3, <1>5, <2>2, <2>3, <2>4, <2>5 DEF Resting
<1> QED
  BY <1>2, <1>3, <1>4, <1>5 DEF MigrationInv

LEMMA GotoOnly ==
  ASSUME Types, NEW t \in Threads, NEW pc \in ThreadPcs, Goto(t, pc)
  PROVE  /\ th' \in [Threads -> ThreadRec]
         /\ th'[t].pc = pc /\ th'[t].node = th[t].node /\ th'[t].paused = th[t].paused
         /\ \A x \in Threads \ {t} : th'[x] = th[x]
<1> DEFINE r == [th[t] EXCEPT !.pc = pc]
<1>1. th[t] \in ThreadRec /\ th \in [Threads -> ThreadRec]
  BY DEF Types
<1>2. r \in ThreadRec /\ r.pc = pc /\ r.node = th[t].node /\ r.paused = th[t].paused
  BY <1>1 DEF ThreadRec
<1>3. th' = [th EXCEPT ![t] = r]
  BY DEF Goto
<1> HIDE DEF r
<1> QED
  BY <1>1, <1>2, <1>3

LEMMA OutOnly ==
  ASSUME Types, NEW t \in Threads, th' = [th EXCEPT ![t] = OutThread]
  PROVE  /\ th' \in [Threads -> ThreadRec] /\ th'[t] = OutThread
         /\ \A x \in Threads \ {t} : th'[x] = th[x]
<1>1. OutThread \in ThreadRec
  BY DEF OutThread, ThreadRec, ThreadPcs
<1> QED
  BY <1>1 DEF Types

LEMMA LockOnly ==
  ASSUME Types, NEW t \in Threads, NEW n \in Nodes, ReaderLock(t, n)
  PROVE  /\ rcu' \in [Nodes -> SUBSET Threads] /\ rcu'[n] = rcu[n] \cup {t}
         /\ \A m \in Nodes \ {n} : rcu'[m] = rcu[m]
BY DEF Types, ReaderLock

LEMMA UnlockOnly ==
  ASSUME Types, NEW t \in Threads, NEW n \in Nodes, ReaderUnlock(t, n)
  PROVE  /\ rcu' \in [Nodes -> SUBSET Threads] /\ rcu'[n] = rcu[n] \ {t}
         /\ \A m \in Nodes \ {n} : rcu'[m] = rcu[m]
         /\ src' \in [Nodes -> SrcRec]
         /\ \A m \in Nodes :
              /\ src'[m].pc = src[m].pc /\ src'[m].dest = src[m].dest /\ src'[m].sent = src[m].sent
              /\ src[m].waitFor \ {t} \subseteq src'[m].waitFor
<1> DEFINE r == [src[n] EXCEPT !.waitFor = src[n].waitFor \ {t}]
<1>1. src[n] \in SrcRec /\ src \in [Nodes -> SrcRec]
  BY DEF Types
<1>2. /\ r \in SrcRec /\ r.pc = src[n].pc /\ r.dest = src[n].dest /\ r.sent = src[n].sent
      /\ r.waitFor = src[n].waitFor \ {t}
  BY <1>1 DEF SrcRec
<1>3. src' = [src EXCEPT ![n] = r]
  BY DEF ReaderUnlock
<1> HIDE DEF r
<1>4. src' \in [Nodes -> SrcRec] /\ src'[n] = r /\ \A m \in Nodes \ {n} : src'[m] = src[m]
  BY <1>1, <1>2, <1>3
<1>5. /\ rcu' \in [Nodes -> SUBSET Threads] /\ rcu'[n] = rcu[n] \ {t}
      /\ \A m \in Nodes \ {n} : rcu'[m] = rcu[m]
  BY DEF Types, ReaderUnlock
<1> QED
  BY <1>2, <1>4, <1>5

LEMMA HoldingOne ==
  ASSUME NEW t \in Threads, \A x \in Threads \ {t} : th'[x] = th[x]
  PROVE  Holding' = IF th'[t].pc \in {"attached", "relock", "guard"}
                    THEN Holding \cup {t} ELSE Holding \ {t}
BY DEF Holding

LEMMA SrcUntouched ==
  ASSUME Types, UNCHANGED src
  PROVE  /\ src' \in [Nodes -> SrcRec]
         /\ \A m \in Nodes : \A t :
              /\ src'[m].pc = src[m].pc /\ src'[m].dest = src[m].dest /\ src'[m].sent = src[m].sent
              /\ src[m].waitFor \ {t} \subseteq src'[m].waitFor
BY DEF Types

LEMMA Frame ==
  ASSUME UNCHANGED threadFrame
  PROVE  UNCHANGED <<status, heap, loadCnt, dst, auxh, chan, auxchan, back, acquired, loc, toCtl, rounds>>
BY DEF threadFrame, chanVars, ctlVars

LEMMA ThreadStepKeeps ==
  ASSUME MigrationInv, NEW t \in Threads, NEW n \in Nodes,
         \/ Attach(t, n) \/ AttachLock(t, n) \/ AttachRecheck(t, n) \/ Detach(t, n)
         \/ EnableFor(t, n) \/ Relock(t, n) \/ RelockCheck(t, n) \/ WaitUntilPresent(t, n)
  PROVE  MigrationInv'
<1>1. Types
  BY DEF MigrationInv
<1>2. \A pc : At(t, n, pc) => th[t].node = n /\ th[t].pc = pc /\ ~th[t].paused
  BY DEF At
<1>3. Running(t, n)
  BY <1>2 DEF Running, Attach, AttachLock, AttachRecheck, Detach, EnableFor, Relock, RelockCheck,
              WaitUntilPresent
<1>4. UNCHANGED <<status, heap, loadCnt, dst, auxh, chan, auxchan, back, acquired, loc, toCtl, rounds>>
  BY Frame DEF Attach, AttachLock, AttachRecheck, Detach, EnableFor, Relock, RelockCheck, WaitUntilPresent
<1> DEFINE H == {"attached", "relock", "guard"}
<1>5. \A x \in Threads : x \in Holding <=> th[x].pc \in H
  BY DEF Holding
<1>6. CASE Attach(t, n)
  <2>1. /\ th' \in [Threads -> ThreadRec] /\ th'[t].node = n /\ th'[t].pc = "attaching" /\ ~th'[t].paused
        /\ \A x \in Threads \ {t} : th'[x] = th[x]
    <3>1. [node |-> n, pc |-> "attaching", paused |-> FALSE] \in ThreadRec
      BY DEF ThreadRec, ThreadPcs
    <3> QED
      BY <1>1, <1>6, <3>1 DEF Attach, Types
  <2>2. Holding' = Holding
    <3>1. Holding' = Holding \ {t}
      BY <2>1, HoldingOne
    <3>2. t \notin Holding
      BY <1>6, OutAlone DEF Attach, Holding
    <3> QED
      BY <3>1, <3>2
  <2>3. UNCHANGED <<rcu, src>>
    BY <1>6 DEF Attach
  <2>4. ThreadOnly(t, n)
    BY <1>1, <1>4, <2>1, <2>2, <2>3, SrcUntouched DEF ThreadOnly, Types
  <2> QED
    BY <1>3, <2>4, ThreadOn
<1>7. ASSUME NEW pc \in ThreadPcs, Goto(t, pc), th[t].node = n, ~th[t].paused, pc # "out", UNCHANGED src,
             pc \in {"parked", "guard"} => (pc = "guard" <=> status[n] = "present"),
             \/ UNCHANGED rcu /\ (pc \in H <=> th[t].pc \in H)
             \/ ReaderLock(t, n) /\ pc \in H
      PROVE  MigrationInv'
  <2>1. /\ th' \in [Threads -> ThreadRec]
        /\ th'[t].pc = pc /\ th'[t].node = n /\ ~th'[t].paused
        /\ \A x \in Threads \ {t} : th'[x] = th[x]
    BY <1>1, <1>7, GotoOnly
  <2>2. /\ rcu' \in [Nodes -> SUBSET Threads]
        /\ \A m \in Nodes \ {n} : rcu'[m] = rcu[m]
        /\ rcu[n] = Holding => rcu'[n] = Holding'
    <3>1. CASE UNCHANGED rcu /\ (pc \in H <=> th[t].pc \in H)
      <4>1. Holding' = Holding
        BY <1>5, <2>1, <3>1, HoldingOne
      <4> QED
        BY <1>1, <3>1, <4>1 DEF Types
    <3>2. CASE ReaderLock(t, n) /\ pc \in H
      <4>1. Holding' = Holding \cup {t}
        BY <2>1, <3>2, HoldingOne
      <4> QED
        BY <1>1, <3>2, <4>1, LockOnly
    <3> QED
      BY <1>7, <3>1, <3>2
  <2>3. /\ src' \in [Nodes -> SrcRec]
        /\ \A m \in Nodes :
             /\ src'[m].pc = src[m].pc /\ src'[m].dest = src[m].dest /\ src'[m].sent = src[m].sent
             /\ src[m].waitFor \ {t} \subseteq src'[m].waitFor
    BY <1>1, <1>7, SrcUntouched
  <2>4. ThreadOnly(t, n)
    BY <1>4, <1>7, <2>1, <2>2, <2>3 DEF ThreadOnly
  <2> QED
    BY <1>3, <2>4, ThreadOn
<1>8. ASSUME ReaderUnlock(t, n), th[t].node = n, ~th[t].paused,
             \/ th' = [th EXCEPT ![t] = OutThread]
             \/ \E pc \in {"free", "towait"} : Goto(t, pc)
      PROVE  MigrationInv'
  <2>1. /\ th' \in [Threads -> ThreadRec] /\ th'[t].pc \in {"out", "free", "towait"}
        /\ th'[t] = OutThread \/ (th'[t].node = n /\ ~th'[t].paused /\ th'[t].pc # "out")
        /\ \A x \in Threads \ {t} : th'[x] = th[x]
    <3>1. CASE th' = [th EXCEPT ![t] = OutThread]
      BY <1>1, <3>1, OutOnly, OutAlone
    <3>2. CASE \E pc \in {"free", "towait"} : Goto(t, pc)
      <4>1. PICK pc \in {"free", "towait"} : Goto(t, pc)
        BY <3>2
      <4>2. pc \in ThreadPcs
        BY DEF ThreadPcs
      <4> QED
        BY <1>1, <1>8, <4>1, <4>2, GotoOnly
    <3> QED
      BY <1>8, <3>1, <3>2
  <2>2. Holding' = Holding \ {t}
    BY <2>1, HoldingOne
  <2>3. /\ rcu' \in [Nodes -> SUBSET Threads]
        /\ \A m \in Nodes \ {n} : rcu'[m] = rcu[m]
        /\ rcu[n] = Holding => rcu'[n] = Holding'
        /\ src' \in [Nodes -> SrcRec]
        /\ \A m \in Nodes :
             /\ src'[m].pc = src[m].pc /\ src'[m].dest = src[m].dest /\ src'[m].sent = src[m].sent
             /\ src[m].waitFor \ {t} \subseteq src'[m].waitFor
    BY <1>1, <1>8, <2>2, UnlockOnly
  <2>4. th'[t].pc \notin {"parked", "guard"}
    BY <2>1
  <2>5. ThreadOnly(t, n)
    BY <1>4, <2>1, <2>3, <2>4 DEF ThreadOnly
  <2> QED
    BY <1>3, <2>5, ThreadOn
<1>9. CASE AttachLock(t, n)
  BY <1>2, <1>7, <1>9 DEF AttachLock, ThreadPcs
<1>10. CASE Relock(t, n)
  BY <1>2, <1>7, <1>10 DEF Relock, ThreadPcs
<1>11. CASE AttachRecheck(t, n)
  <2>1. CASE Usable(n)
    BY <1>2, <1>7, <1>11, <2>1 DEF AttachRecheck, ThreadPcs, Usable
  <2>2. CASE ~Usable(n)
    BY <1>2, <1>8, <1>11, <2>2 DEF AttachRecheck
  <2> QED
    BY <2>1, <2>2
<1>12. CASE RelockCheck(t, n)
  <2>1. CASE Usable(n)
    BY <1>2, <1>7, <1>12, <2>1 DEF RelockCheck, ThreadPcs, Usable
  <2>2. CASE ~Usable(n)
    BY <1>2, <1>8, <1>12, <2>2 DEF RelockCheck
  <2> QED
    BY <2>1, <2>2
<1>13. CASE Detach(t, n)
  BY <1>2, <1>8, <1>13 DEF Detach
<1>14. CASE EnableFor(t, n)
  BY <1>2, <1>8, <1>14 DEF EnableFor
<1>15. CASE WaitUntilPresent(t, n)
  <2>1. CASE status[n] = "present"
    BY <1>2, <1>7, <1>15, <2>1 DEF WaitUntilPresent, ThreadPcs
  <2>2. CASE status[n] # "present"
    BY <1>2, <1>7, <1>15, <2>2 DEF WaitUntilPresent, ThreadPcs
  <2> QED
    BY <2>1, <2>2
<1> QED
  BY <1>6, <1>9, <1>10, <1>11, <1>12, <1>13, <1>14, <1>15

---------------------------------------------------------------------------
(* The invariant.                                                          *)

LEMMA MigrationInit ==
  ASSUME Init
  PROVE  MigrationInv
<1>1. Types
  <2>1. IdleSrc \in SrcRec /\ IdleDst \in DstRec /\ IdleAux \in AuxRec /\ OutThread \in ThreadRec
    BY DEF IdleSrc, IdleDst, IdleAux, OutThread, SrcRec, DstRec, AuxRec, ThreadRec, SrcPcs, DstPcs, ThreadPcs
  <2>2. status \in [Nodes -> Status] /\ heap \in [Nodes -> SUBSET Parts]
    BY DEF Init, Status
  <2>3. /\ rcu \in [Nodes -> SUBSET Threads] /\ loadCnt \in [Nodes -> Int] /\ th \in [Threads -> ThreadRec]
        /\ src \in [Nodes -> SrcRec] /\ dst \in [Nodes -> DstRec] /\ auxh \in [Nodes -> [AuxConns -> AuxRec]]
    BY <2>1 DEF Init
  <2>4. /\ chan = [p \in Pairs |-> chan[p]] /\ back = [p \in Pairs |-> back[p]]
        /\ auxchan = [p \in Pairs |-> [a \in AuxConns |-> auxchan[p][a]]]
    BY DEF Init, Pairs
  <2>5. acquired \subseteq Nodes /\ loc \in Nodes /\ toCtl \in [Nodes -> Seq(CtlMsg)] /\ rounds \in 0..MaxRounds
    BY ConstantsOK DEF Init
  <2> QED
    BY <2>2, <2>3, <2>4, <2>5 DEF Types
<1>2. \A n \in Nodes : src[n].pc = "idle" /\ src[n].sent = {}
  BY DEF Init, IdleSrc
<1>3. \A x, y \in Nodes : ~Paired(x, y)
  BY <1>2 DEF Paired
<1>4. SentSoFar
  BY <1>2 DEF SentSoFar
<1>5. Acquired
  <2>1. \A n, m \in Nodes, i \in Nat : ~Releases(m, n, i)
    <3>1. \A n \in Nodes : toCtl[n] = <<>> /\ DOMAIN toCtl[n] = {}
      BY DEF Init
    <3> QED
      BY <3>1 DEF Releases
  <2> QED
    BY <1>2, <1>3, <2>1 DEF Acquired, Busy
<1>6. Resting
  <2>1. \A x, y \in Nodes :
          /\ chan[<<x, y>>] = <<>> /\ back[<<y, x>>] = <<>>
          /\ \A a \in AuxConns : auxchan[<<x, y>>][a] = <<>>
    BY DEF Init
  <2>2. \A n \in Nodes :
          /\ dst[n].pc = "idle" /\ loadCnt[n] = 0
          /\ \A a \in AuxConns : auxh[n][a].pc = "idle"
    BY DEF Init, IdleDst, IdleAux
  <2>3. Holding = {}
    BY DEF Init, Holding, OutThread
  <2>4. /\ \A n \in Nodes : status[n] = "present" <=> n = Home
        /\ \A n \in Nodes : status[n] # "migrating" /\ (n = Home => heap[n] = Parts) /\ rcu[n] = {}
        /\ \A t \in Threads : th[t] = OutThread
    BY DEF Init
  <2> QED
    BY <1>2, <2>1, <2>2, <2>3, <2>4 DEF Resting, Busy
<1> QED
  BY <1>1, <1>3, <1>4, <1>5, <1>6 DEF MigrationInv

LEMMA SourceKeeps ==
  ASSUME MigrationInv, NEW n \in Nodes, SourceStep(n)
  PROVE  MigrationInv'
BY AcquireSelfStep, AcquireDestStep, NoDestStep, SendTasksStep, SkipStep, MarkStep, SyncCallStep,
   SyncReturnStep, PauseStep, LockSpinStep, ChunkStep, TransmitStateStep, LocationStep,
   SetCleaningStep, FinishRoundStep DEF SourceStep, RoundStep

LEMMA DestKeeps ==
  ASSUME MigrationInv, NEW n \in Nodes, DestStep(n)
  PROVE  MigrationInv'
BY ReceiveTasksStep, PopulateStep, LoadSkippedStep, LoadMainChunkStep, ExpectChunksStep,
   ChunksLoadedStep, LoadBlockedStep, InsertPresentStep, LoadReadyStep, SignalAllStep,
   FinalApprovalStep, AuxHeaderStep, AuxSettleStep, AuxPayloadStep DEF DestStep

LEMMA MigrationNext ==
  ASSUME MigrationInv, [Next]_vars
  PROVE  MigrationInv'
<1>1. CASE UNCHANGED vars
  <2>1. UNCHANGED <<status, heap, rcu, loadCnt, th, src, dst, auxh, chan, auxchan, back, acquired, loc, toCtl, rounds>>
    BY <1>1 DEF vars, chanVars, ctlVars
  <2>2. Types' /\ Acquired'
    BY <2>1 DEF MigrationInv, Types, Acquired, Busy, Paired, Releases
  <2> QED
    BY <2>1, <2>2, SamePlaces
<1>2. CASE \E t \in Threads : ThreadStep(t)
  BY <1>2, ThreadStepKeeps DEF ThreadStep
<1>3. CASE \E n \in Nodes : SourceStep(n)
  BY <1>3, SourceKeeps
<1>4. CASE \E n \in Nodes : DestStep(n)
  BY <1>4, DestKeeps
<1>5. CASE \E n \in Nodes : \E job \in Jobs : RunJob(n, job)
  BY <1>5, RunJobStep
<1>6. CASE \E n \in Nodes : ControllerStep(n)
  BY <1>6, ControllerStepKeeps
<1> QED
  BY <1>1, <1>2, <1>3, <1>4, <1>5, <1>6 DEF Next

(* The invariant of migration holds, for any nodes, threads, connections   *)
(* and number of rounds.                                                   *)
THEOREM MigrationKeepsInv == Spec => []MigrationInv
<1>1. Init => MigrationInv
  BY MigrationInit
<1>2. MigrationInv /\ [Next]_vars => MigrationInv'
  BY MigrationNext
<1> QED
  BY <1>1, <1>2, PTL DEF Spec

(* Whoever finds the proclet present finds all of it.                      *)
LEMMA InvPresent ==
  ASSUME MigrationInv
  PROVE  PresentIsWhole
<1>1. Types
  BY DEF MigrationInv
<1>2. loadCnt \in [Nodes -> (0 - Cardinality(Parts))..(Cardinality(Parts) - 1)]
  <2>1. Cardinality(Parts) \in Nat /\ Cardinality(Parts) > 0
    BY PartsFacts, FS_EmptySet
  <2>2. ASSUME NEW n \in Nodes
        PROVE  loadCnt[n] \in (0 - Cardinality(Parts))..(Cardinality(Parts) - 1)
    <3>1. CASE \E s, d \in Nodes : Paired(s, d)
      <4>1. PICK s \in Nodes, d \in Nodes : Paired(s, d)
        BY <3>1
      <4>2. Loading(s, d) /\ Quiet(s, d)
        BY <4>1, InRound
      <4>3. CASE n = d /\ ~Whole(s, d)
        <5>1. loadCnt[d] = (IF dst[d].pc = "spin" THEN NumChunks ELSE 0) - Cardinality(Loaded(s, d))
          BY <4>2, <4>3 DEF Loading
        <5>2. Loaded(s, d) \in SUBSET Parts
          BY PartsFacts DEF Loaded
        <5>3. /\ Cardinality(Loaded(s, d)) \in Nat /\ Cardinality(Loaded(s, d)) <= Cardinality(Parts)
          BY <5>2, PartsFacts, FS_Subset, FS_CardinalityType
        <5>4. dst[d].pc = "spin" => Cardinality(Loaded(s, d)) # 0
          <6>1. dst[d].pc = "spin" => Main \in Loaded(s, d)
            BY DEF Loaded
          <6>2. IsFiniteSet(Loaded(s, d))
            BY <5>2, PartsFacts, FS_Subset
          <6> QED
            BY <6>1, <6>2, FS_EmptySet
        <5> QED
          BY <2>1, <4>3, <5>1, <5>3, <5>4, PartsFacts
      <4>4. CASE n = d /\ Whole(s, d)
        BY <2>1, <4>2, <4>4 DEF Loading
      <4>5. CASE n # d
        BY <2>1, <4>2, <4>5 DEF Quiet
      <4> QED
        BY <4>3, <4>4, <4>5
    <3>2. CASE ~\E s, d \in Nodes : Paired(s, d)
      <4>1. Resting
        BY <3>2 DEF MigrationInv
      <4> QED
        BY <2>1, <4>1 DEF Resting
    <3> QED
      BY <3>1, <3>2
  <2>3. loadCnt = [n \in Nodes |-> loadCnt[n]]
    BY <1>1 DEF Types
  <2> QED
    BY <2>2, <2>3
<1>3. TypeOK
  <2>1. \A t \in Threads : th[t].node \in Nodes \cup {None}
    BY <1>1 DEF Types, ThreadRec
  <2> QED
    BY <1>1, <1>2, <2>1 DEF Types, TypeOK
<1>4. ASSUME NEW n \in Nodes, status[n] = "present"
      PROVE  heap[n] = Parts /\ loadCnt[n] = 0 /\ rcu[n] = Holding
  <2>1. CASE \E s, d \in Nodes : Paired(s, d)
    <3>1. PICK s \in Nodes, d \in Nodes : Paired(s, d)
      BY <2>1
    <3>2. Loading(s, d) /\ Quiet(s, d) /\ Where(s, d) /\ Only(s, d)
      BY <3>1, InRound
    <3>3. CASE n = s
      BY <1>4, <3>2, <3>3 DEF Where, Quiet, Only
    <3>4. CASE n = d
      BY <1>4, <3>2, <3>4 DEF Where, Loading, Landed, Whole
    <3> QED
      BY <1>4, <3>2, <3>3, <3>4 DEF Where
  <2>2. CASE ~\E s, d \in Nodes : Paired(s, d)
    BY <1>4, <2>2 DEF MigrationInv, Resting
  <2> QED
    BY <2>1, <2>2
<1> QED
  BY <1>3, <1>4 DEF PresentIsWhole

(* Threads run only where the proclet is, and guards only before it goes.  *)
LEMMA InvGuards ==
  ASSUME MigrationInv
  PROVE  GuardPins
<1> SUFFICES ASSUME NEW t \in Guarding, NEW n \in Nodes, th[t].node = n
             PROVE  /\ status[n] \in {"present", "migrating"}
                    /\ heap[n] = Parts /\ ~SpinHeld(n)
  BY DEF GuardPins
<1>1. t \in Threads /\ th[t].pc = "guard"
  BY DEF Guarding
<1>2. CASE \E s, d \in Nodes : Paired(s, d)
  <2>1. PICK s \in Nodes, d \in Nodes : Paired(s, d)
    BY <1>2
  <2>2. Loading(s, d) /\ Where(s, d) /\ Seated(s, d) /\ Only(s, d)
    BY <2>1, InRound
  <2>3. CASE n = s
    <3>1. Staying(s) \/ src[s].pc \in {"sync", "syncing"}
      BY <1>1, <2>2, <2>3 DEF Seated
    <3> QED
      BY <2>2, <2>3, <3>1 DEF Where, SpinHeld, Staying, Leaving, Skipped
  <2>4. CASE n = d
    <3>1. Landed(s, d)
      BY <1>1, <2>2, <2>4 DEF Seated
    <3>2. src[d].pc = "idle"
      BY <2>2 DEF Only, Busy
    <3> QED
      BY <2>2, <2>4, <3>1, <3>2 DEF Where, Loading, Landed, Whole, SpinHeld
  <2> QED
    BY <1>1, <2>2, <2>3, <2>4, NoNode DEF Seated
<1>3. CASE ~\E s, d \in Nodes : Paired(s, d)
  <2>1. Resting
    BY <1>3 DEF MigrationInv
  <2>2. status[n] = "present" /\ heap[n] = Parts
    BY <1>1, <2>1, OutAlone DEF Resting
  <2>3. src[n].pc \in {"idle", "acquire"}
    BY <1>3 DEF MigrationInv, Acquired, Paired
  <2> QED
    BY <2>2, <2>3 DEF SpinHeld
<1> QED
  BY <1>2, <1>3

LEMMA InvBehind ==
  ASSUME MigrationInv
  PROVE  NoThreadLeftBehind
<1> SUFFICES ASSUME NEW t \in Threads, NEW n \in Nodes, th[t].node = n
             PROVE  /\ \/ status[n] = "present"
                       \/ status[n] = "migrating" /\ src[n].pc \notin {"location", "clean"}
                       \/ dst[n].pc = "insert"
                    /\ th[t].pc = "parked" /\ status[n] = "present" => dst[n].pc \in {"ready", "signal"}
  BY DEF NoThreadLeftBehind
<1>1. CASE \E s, d \in Nodes : Paired(s, d)
  <2>1. PICK s \in Nodes, d \in Nodes : Paired(s, d)
    BY <1>1
  <2>2. Where(s, d) /\ Seated(s, d) /\ Only(s, d) /\ Talk(s, d)
    BY <2>1, InRound
  <2>3. CASE n = s
    <3>1. Staying(s) \/ (Leaving(s) /\ src[s].pc \notin {"location", "clean"} /\ ~Staying(s))
      BY <2>2, <2>3 DEF Seated, Leaving, Staying, Skipped
    <3>2. th[t].pc = "parked" => Leaving(s)
      BY <2>2, <2>3 DEF Seated
    <3>3. ~(Leaving(s) /\ Staying(s))
      BY DEF Leaving, Staying, Skipped
    <3> QED
      BY <2>2, <2>3, <3>1, <3>2, <3>3 DEF Where
  <2>4. CASE n = d
    <3>1. dst[d].pc = "insert" => ~Landed(s, d)
      BY <2>2 DEF Landed, Finished, Talk, Told, Over
    <3> QED
      BY <2>2, <2>4, <3>1 DEF Where, Seated
  <2> QED
    BY <2>2, <2>3, <2>4, NoNode DEF Seated
<1>2. CASE ~\E s, d \in Nodes : Paired(s, d)
  <2>1. Resting
    BY <1>2 DEF MigrationInv
  <2> QED
    BY <2>1, NoNode, OutAlone DEF Resting
<1> QED
  BY <1>1, <1>2

---------------------------------------------------------------------------
(* Each travelling thread is in one message.                               *)

Has(t, q, i) ==
  /\ i \in DOMAIN q
  /\ q[i].kind \in {"blocked", "ready"}
  /\ t \in DOMAIN q[i].ths

Parking(t) == t \in Travelling /\ th[t].pc = "parked"
Stirring(t) == t \in Travelling /\ th[t].pc # "parked"

LEMMA Messages ==
  ASSUME NEW t
  PROVE  /\ TasksMsg.kind \notin {"blocked", "ready"} /\ SkipMsg.kind \notin {"blocked", "ready"}
         /\ CopyMsg.kind \notin {"blocked", "ready"}
         /\ BlockedMsg.kind = "blocked" /\ (t \in DOMAIN BlockedMsg.ths <=> Parking(t))
         /\ ReadyMsg.kind = "ready" /\ (t \in DOMAIN ReadyMsg.ths <=> Stirring(t))
<1>1. /\ BlockedMsg.ths = Carry({x \in Travelling : th[x].pc = "parked"})
      /\ ReadyMsg.ths = Carry({x \in Travelling : th[x].pc # "parked"})
  BY DEF BlockedMsg, ReadyMsg
<1>2. \A S : DOMAIN Carry(S) = S
  BY DEF Carry
<1>3. /\ t \in DOMAIN BlockedMsg.ths <=> Parking(t)
      /\ t \in DOMAIN ReadyMsg.ths <=> Stirring(t)
  BY <1>1, <1>2 DEF Parking, Stirring
<1> QED
  BY <1>3, Kinds

LEMMA InOne ==
  ASSUME NEW t, NEW i, NEW a, NEW P, a.kind \in {"blocked", "ready"} /\ t \in DOMAIN a.ths <=> P
  PROVE  Has(t, <<a>>, i) <=> i = 1 /\ P
BY DEF Has

LEMMA InTwo ==
  ASSUME NEW t, NEW i, NEW a, NEW b, NEW P, NEW Q,
         a.kind \in {"blocked", "ready"} /\ t \in DOMAIN a.ths <=> P,
         b.kind \in {"blocked", "ready"} /\ t \in DOMAIN b.ths <=> Q
  PROVE  Has(t, <<a, b>>, i) <=> (i = 1 /\ P) \/ (i = 2 /\ Q)
BY DEF Has

LEMMA InThree ==
  ASSUME NEW t, NEW i, NEW a, NEW b, NEW c, NEW P, NEW Q,
         a.kind \notin {"blocked", "ready"},
         b.kind \in {"blocked", "ready"} /\ t \in DOMAIN b.ths <=> P,
         c.kind \in {"blocked", "ready"} /\ t \in DOMAIN c.ths <=> Q
  PROVE  Has(t, <<a, b, c>>, i) <=> (i = 2 /\ P) \/ (i = 3 /\ Q)
BY DEF Has

LEMMA InFour ==
  ASSUME NEW t, NEW i, NEW a, NEW b, NEW c, NEW d, NEW P, NEW Q,
         a.kind \notin {"blocked", "ready"}, b.kind \notin {"blocked", "ready"},
         c.kind \in {"blocked", "ready"} /\ t \in DOMAIN c.ths <=> P,
         d.kind \in {"blocked", "ready"} /\ t \in DOMAIN d.ths <=> Q
  PROVE  Has(t, <<a, b, c, d>>, i) <=> (i = 3 /\ P) \/ (i = 4 /\ Q)
BY DEF Has

LEMMA CarryingHas ==
  ASSUME NEW t, NEW s \in Nodes, NEW d \in Nodes,
         \A x, y \in Nodes : x # s \/ y # d => chan[<<x, y>>] = <<>>
  PROVE  Carrying(t) = {<<<<s, d>>, i>> : i \in {j \in 1..4 : Has(t, chan[<<s, d>>], j)}}
<1>1. \A p \in Nodes \X Nodes, i \in 1..4 : Has(t, chan[p], i) => p = <<s, d>>
  <2>1. \A i : i \notin DOMAIN <<>>
    OBVIOUS
  <2> QED
    BY <2>1 DEF Has
<1>2. Carrying(t) = {c \in (Nodes \X Nodes) \X (1..4) : Has(t, chan[c[1]], c[2])}
  BY DEF Carrying, Has
<1>3. ASSUME NEW c \in (Nodes \X Nodes) \X (1..4)
      PROVE  Has(t, chan[c[1]], c[2]) <=>
               \E i \in {j \in 1..4 : Has(t, chan[<<s, d>>], j)} : c = <<<<s, d>>, i>>
  BY <1>1
<1>4. \A i \in 1..4 : <<<<s, d>>, i>> \in (Nodes \X Nodes) \X (1..4)
  OBVIOUS
<1> QED
  BY <1>2, <1>3, <1>4

LEMMA InOneMessage ==
  ASSUME NEW t, NEW s \in Nodes, NEW d \in Nodes, NEW k \in 1..4,
         \A x, y \in Nodes : x # s \/ y # d => chan[<<x, y>>] = <<>>,
         \A i \in 1..4 : Has(t, chan[<<s, d>>], i) <=> i = k
  PROVE  Cardinality(Carrying(t)) = 1
<1>1. {j \in 1..4 : Has(t, chan[<<s, d>>], j)} = {k}
  OBVIOUS
<1>2. Carrying(t) = {<<<<s, d>>, k>>}
  BY <1>1, CarryingHas
<1> QED
  BY <1>2, FS_Singleton

LEMMA InNoMessage ==
  ASSUME NEW t, NEW s \in Nodes, NEW d \in Nodes,
         \A x, y \in Nodes : x # s \/ y # d => chan[<<x, y>>] = <<>>,
         \A i \in 1..4 : ~Has(t, chan[<<s, d>>], i)
  PROVE  Cardinality(Carrying(t)) = 0
<1>1. {j \in 1..4 : Has(t, chan[<<s, d>>], j)} = {}
  OBVIOUS
<1>2. Carrying(t) = {}
  BY <1>1, CarryingHas
<1> QED
  BY <1>2, FS_EmptySet

(* What a sequence of messages carries at the positions of BlockedMsg and  *)
(* ReadyMsg.                                                               *)
LEMMA Positions ==
  ASSUME NEW t, NEW i
  PROVE  /\ ~Has(t, <<>>, i)
         /\ ~Has(t, <<TasksMsg>>, i) /\ ~Has(t, <<SkipMsg>>, i) /\ ~Has(t, <<CopyMsg>>, i)
         /\ ~Has(t, <<TasksMsg, SkipMsg>>, i) /\ ~Has(t, <<TasksMsg, CopyMsg>>, i)
         /\ Has(t, <<ReadyMsg>>, i) <=> i = 1 /\ Stirring(t)
         /\ Has(t, <<BlockedMsg, ReadyMsg>>, i) <=>
              (i = 1 /\ Parking(t)) \/ (i = 2 /\ Stirring(t))
         /\ Has(t, <<CopyMsg, BlockedMsg, ReadyMsg>>, i) <=>
              (i = 2 /\ Parking(t)) \/ (i = 3 /\ Stirring(t))
         /\ Has(t, <<TasksMsg, CopyMsg, BlockedMsg, ReadyMsg>>, i) <=>
              (i = 3 /\ Parking(t)) \/ (i = 4 /\ Stirring(t))
<1>1. ~Has(t, <<>>, i)
  BY DEF Has
<1>2. ASSUME NEW a, a.kind \notin {"blocked", "ready"}
      PROVE  ~Has(t, <<a>>, i)
  BY <1>2, InOne
<1>3. ASSUME NEW a, NEW b, a.kind \notin {"blocked", "ready"}, b.kind \notin {"blocked", "ready"}
      PROVE  ~Has(t, <<a, b>>, i)
  BY <1>3, InTwo
<1>4. ~Has(t, <<TasksMsg>>, i) /\ ~Has(t, <<SkipMsg>>, i) /\ ~Has(t, <<CopyMsg>>, i)
  BY <1>2, Messages
<1>5. ~Has(t, <<TasksMsg, SkipMsg>>, i) /\ ~Has(t, <<TasksMsg, CopyMsg>>, i)
  BY <1>3, Messages
<1>6. Has(t, <<ReadyMsg>>, i) <=> i = 1 /\ Stirring(t)
  BY InOne, Messages
<1>7. Has(t, <<BlockedMsg, ReadyMsg>>, i) <=> (i = 1 /\ Parking(t)) \/ (i = 2 /\ Stirring(t))
  BY InTwo, Messages
<1>8. Has(t, <<CopyMsg, BlockedMsg, ReadyMsg>>, i) <=> (i = 2 /\ Parking(t)) \/ (i = 3 /\ Stirring(t))
  BY InThree, Messages
<1>9. Has(t, <<TasksMsg, CopyMsg, BlockedMsg, ReadyMsg>>, i) <=>
        (i = 3 /\ Parking(t)) \/ (i = 4 /\ Stirring(t))
  BY InFour, Messages
<1> QED
  BY <1>1, <1>4, <1>5, <1>6, <1>7, <1>8, <1>9

LEMMA InvLost ==
  ASSUME MigrationInv
  PROVE  NoThreadLost
<1> SUFFICES ASSUME NEW t \in Threads
             PROVE  Cardinality(Carrying(t)) = IF t \in Travelling THEN 1 ELSE 0
  BY DEF NoThreadLost, Travelling
<1>1. CASE \E s, d \in Nodes : Paired(s, d)
  <2>1. PICK s \in Nodes, d \in Nodes : Paired(s, d)
    BY <1>1
  <2>2. /\ Types /\ SentSoFar /\ Paired(s, d)
        /\ Only(s, d) /\ Talk(s, d) /\ Quiet(s, d) /\ Seated(s, d)
    BY <2>1, InRound
  <2>3. \A x, y \in Nodes : x # s \/ y # d => chan[<<x, y>>] = <<>>
    BY <2>2 DEF Quiet
  <2>4. /\ t \in Travelling => Parking(t) \/ Stirring(t)
        /\ ~(Parking(t) /\ Stirring(t))
        /\ t \notin Travelling => ~Parking(t) /\ ~Stirring(t)
    BY DEF Parking, Stirring
  <2>5. /\ Parking(t) => Left(s) /\ ~Landed(s, d) /\ dst[d].pc # "insert"
        /\ Stirring(t) => Left(s) /\ (~Landed(s, d) \/ dst[d].pc = "ready")
    BY <2>2, OutAlone DEF Parking, Stirring, Travelling, Seated
  <2>6. ASSUME NEW k \in 1..3,
               \A i \in 1..4 : Has(t, chan[<<s, d>>], i) <=> (i = k /\ Parking(t)) \/ (i = k + 1 /\ Stirring(t))
        PROVE  Cardinality(Carrying(t)) = IF t \in Travelling THEN 1 ELSE 0
    <3>1. k \in 1..4 /\ k + 1 \in 1..4
      BY <2>6
    <3>2. CASE Parking(t)
      BY <2>3, <2>4, <2>6, <3>1, <3>2, InOneMessage DEF Parking
    <3>3. CASE Stirring(t)
      BY <2>3, <2>4, <2>6, <3>1, <3>3, InOneMessage DEF Stirring
    <3>4. CASE t \notin Travelling
      BY <2>3, <2>4, <2>6, <3>4, InNoMessage
    <3> QED
      BY <2>4, <3>2, <3>3, <3>4
  <2>7. CASE ~Left(s)
    <3>1. t \notin Travelling
      BY <2>4, <2>5, <2>7
    <3>2. /\ src[s].pc = "tasks" \/ Announced(s) \/ Skipped(s) \/ Copied(s)
      BY <2>2, <2>7, Stages
    <3>3. chan[<<s, d>>] \in {<<>>, <<TasksMsg>>, <<SkipMsg>>, <<CopyMsg>>, <<TasksMsg, SkipMsg>>,
                              <<TasksMsg, CopyMsg>>}
      BY <2>2, <3>2 DEF Talk, Told, Over
    <3>4. \A i \in 1..4 : ~Has(t, chan[<<s, d>>], i)
      BY <3>3, Positions
    <3> QED
      BY <2>3, <3>1, <3>4, InNoMessage
  <2>8. CASE Left(s)
    <3>1. \/ chan[<<s, d>>] = <<TasksMsg, CopyMsg, BlockedMsg, ReadyMsg>>
          \/ chan[<<s, d>>] = <<CopyMsg, BlockedMsg, ReadyMsg>>
          \/ chan[<<s, d>>] = <<BlockedMsg, ReadyMsg>>
          \/ chan[<<s, d>>] = <<ReadyMsg>> /\ dst[d].pc \in {"insert", "ready"}
          \/ chan[<<s, d>>] = <<>> /\ Landed(s, d) /\ dst[d].pc # "ready"
      <4>1. <<"approve">> # <<>>
        BY ReadingOne
      <4>2. \/ Told(s, d, {"idle"}, <<TasksMsg, CopyMsg, BlockedMsg, ReadyMsg>>)
            \/ Told(s, d, {"populate", "load"}, <<CopyMsg, BlockedMsg, ReadyMsg>>)
            \/ Told(s, d, {"count", "spin", "blocked"}, <<BlockedMsg, ReadyMsg>>)
            \/ Told(s, d, {"insert", "ready"}, <<ReadyMsg>>)
            \/ Told(s, d, {"signal", "approve"}, <<>>)
            \/ Over(s, d)
        BY <2>2, <2>8 DEF Talk
      <4>3. Told(s, d, {"signal", "approve"}, <<>>) => Landed(s, d) /\ dst[d].pc # "ready"
        BY <2>8 DEF Told, Landed, Finished
      <4>4. Over(s, d) => Landed(s, d) /\ dst[d].pc # "ready"
        BY <2>8, <4>1 DEF Over, Landed, Finished
      <4> QED
        BY <4>2, <4>3, <4>4 DEF Told, Over
    <3>2. CASE chan[<<s, d>>] = <<TasksMsg, CopyMsg, BlockedMsg, ReadyMsg>>
      <4>1. \A i \in 1..4 : Has(t, chan[<<s, d>>], i) <=> (i = 3 /\ Parking(t)) \/ (i = 3 + 1 /\ Stirring(t))
        BY <3>2, Positions
      <4> QED
        BY <2>6, <4>1
    <3>3. CASE chan[<<s, d>>] = <<CopyMsg, BlockedMsg, ReadyMsg>>
      <4>1. \A i \in 1..4 : Has(t, chan[<<s, d>>], i) <=> (i = 2 /\ Parking(t)) \/ (i = 2 + 1 /\ Stirring(t))
        BY <3>3, Positions
      <4> QED
        BY <2>6, <4>1
    <3>4. CASE chan[<<s, d>>] = <<BlockedMsg, ReadyMsg>>
      <4>1. \A i \in 1..4 : Has(t, chan[<<s, d>>], i) <=> (i = 1 /\ Parking(t)) \/ (i = 1 + 1 /\ Stirring(t))
        BY <3>4, Positions
      <4> QED
        BY <2>6, <4>1
    <3>5. CASE chan[<<s, d>>] = <<ReadyMsg>> /\ dst[d].pc \in {"insert", "ready"}
      <4>1. ~Parking(t)
        BY <2>5, <3>5 DEF Landed
      <4>2. \A i \in 1..4 : Has(t, chan[<<s, d>>], i) <=> i = 1 /\ Stirring(t)
        BY <3>5, Positions
      <4>3. CASE Stirring(t)
        <5>1. 1 \in 1..4 /\ \A i \in 1..4 : Has(t, chan[<<s, d>>], i) <=> i = 1
          BY <4>2, <4>3
        <5>2. Cardinality(Carrying(t)) = 1
          BY <2>3, <5>1, InOneMessage
        <5> QED
          BY <4>3, <5>2 DEF Stirring
      <4>4. CASE ~Stirring(t)
        BY <2>3, <2>4, <4>1, <4>2, <4>4, InNoMessage
      <4> QED
        BY <4>3, <4>4
    <3>6. CASE chan[<<s, d>>] = <<>> /\ Landed(s, d) /\ dst[d].pc # "ready"
      <4>1. t \notin Travelling
        BY <2>4, <2>5, <3>6
      <4>2. \A i \in 1..4 : ~Has(t, chan[<<s, d>>], i)
        BY <3>6, Positions
      <4> QED
        BY <2>3, <4>1, <4>2, InNoMessage
    <3> QED
      BY <3>1, <3>2, <3>3, <3>4, <3>5, <3>6
  <2> QED
    BY <2>7, <2>8
<1>2. CASE ~\E s, d \in Nodes : Paired(s, d)
  <2>1. Resting
    BY <1>2 DEF MigrationInv
  <2>2. t \notin Travelling
    BY <2>1, NoNode, OutAlone DEF Resting, Travelling
  <2>3. \A x, y \in Nodes : chan[<<x, y>>] = <<>>
    BY <2>1 DEF Resting
  <2>4. PICK n \in Nodes : TRUE
    BY ConstantsOK
  <2>5. \A i \in 1..4 : ~Has(t, chan[<<n, n>>], i)
    BY <2>3, Positions
  <2> QED
    BY <2>2, <2>3, <2>5, InNoMessage
<1> QED
  BY <1>1, <1>2

---------------------------------------------------------------------------
(* What callers see: the steps of PinnedProclet.                           *)

Host == IF Hosts = {} THEN None ELSE CHOOSE n \in Hosts : TRUE

LEMMA HostIs ==
  ASSUME NEW h
  PROVE  /\ Hosts = {h} => Host = h
         /\ Hosts' = {h} => Host' = h
         /\ Hosts = {} => Host = None
         /\ Hosts' = {} => Host' = None
<1>1. \A n \in {h} : n = h
  OBVIOUS
<1>2. (CHOOSE n \in {h} : TRUE) = h
  OBVIOUS
<1> QED
  BY <1>1, <1>2 DEF Host

(* Where the proclet can be entered in a round, or between rounds.         *)
AtHome(s) == Staying(s) \/ src[s].pc \in {"sync", "syncing"}

LEMMA HostsInRound ==
  ASSUME MigrationInv, NEW s \in Nodes, NEW d \in Nodes, Paired(s, d)
  PROVE  /\ AtHome(s) => Hosts = {s} /\ ~Landed(s, d)
         /\ Landed(s, d) => Hosts = {d}
         /\ ~AtHome(s) /\ ~Landed(s, d) => Hosts = {}
<1>1. /\ Types /\ SentSoFar /\ Only(s, d) /\ Talk(s, d) /\ Where(s, d)
  BY InRound
<1>2. AtHome(s) => ~Left(s)
  BY <1>1, Stages DEF AtHome, Left
<1>3. Landed(s, d) => Left(s)
  BY <1>1, Stages DEF Landed, Finished, Talk, Told, Over
<1>4. \A n \in Nodes : src[n].pc \in {"sync", "syncing"} => n = s
  BY <1>1 DEF Only, Busy
<1>5. \A n \in Nodes : n \in Hosts <=> status[n] = "present" \/ src[n].pc \in {"sync", "syncing"}
  BY DEF Hosts, SrcAt
<1>6. s \in Hosts <=> AtHome(s)
  BY <1>1, <1>5 DEF Where, AtHome
<1>7. d \in Hosts <=> Landed(s, d)
  BY <1>1, <1>4, <1>5 DEF Where, Only
<1>8. \A n \in Nodes \ {s, d} : n \notin Hosts
  BY <1>1, <1>4, <1>5 DEF Where
<1>9. Hosts \subseteq Nodes
  BY DEF Hosts
<1> QED
  BY <1>2, <1>3, <1>6, <1>7, <1>8, <1>9

LEMMA HostsAtRest ==
  ASSUME MigrationInv, \A x, y \in Nodes : ~Paired(x, y), NEW n \in Nodes, status[n] = "present"
  PROVE  Hosts = {n}
<1>1. Resting /\ Acquired
  BY DEF MigrationInv
<1>2. \A m \in Nodes : src[m].pc \notin {"sync", "syncing"}
  BY <1>1 DEF Acquired, Paired
<1>3. \A m \in Nodes : status[m] = "present" <=> m = n
  BY <1>1 DEF Resting
<1> QED
  BY <1>2, <1>3 DEF Hosts, SrcAt

(* Where a thread can run outside wait_until, the proclet is.              *)
LEMMA GuardingHost ==
  ASSUME MigrationInv, NEW t \in Threads, NEW n \in Nodes, Running(t, n), status[n] = "present"
  PROVE  Hosts = {n}
<1>1. CASE \E s, d \in Nodes : Paired(s, d)
  <2>1. PICK s \in Nodes, d \in Nodes : Paired(s, d)
    BY <1>1
  <2>2. Where(s, d)
    BY <2>1, InRound
  <2> QED
    BY <2>1, <2>2, HostsInRound DEF Where, AtHome
<1>2. CASE ~\E s, d \in Nodes : Paired(s, d)
  BY <1>2, HostsAtRest
<1> QED
  BY <1>1, <1>2

---------------------------------------------------------------------------

Aside == Hosts' = Hosts /\ Guarding' = Guarding
Entering(t, n) == Hosts = {n} /\ Hosts' = {n} /\ t \notin Guarding /\ Guarding' = Guarding \cup {t}
Exiting(t) == Hosts' = Hosts /\ t \in Guarding /\ Guarding' = Guarding \ {t}
Departing(n) == Hosts = {n} /\ Hosts' = {} /\ Guarding = {} /\ Guarding' = Guarding
Arriving(n) == Hosts = {} /\ Hosts' = {n} /\ Guarding' = Guarding

LEMMA SeenAside ==
  ASSUME Aside
  PROVE  UNCHANGED Pinned!vars
<1>1. Host' = Host
  BY DEF Aside, Host
<1> QED
  BY <1>1 DEF Aside, Host, Pinned!vars

LEMMA SeenEntering ==
  ASSUME NEW t \in Threads, NEW n \in Nodes, Entering(t, n)
  PROVE  Pinned!Next
<1>1. Host = n /\ Host' = n
  BY HostIs DEF Entering
<1>2. Pinned!Enter(t)
  BY <1>1 DEF Entering, Host, Pinned!Enter
<1> QED
  BY <1>2 DEF Pinned!Next

LEMMA SeenExiting ==
  ASSUME NEW t \in Threads, Exiting(t)
  PROVE  Pinned!Next
<1>1. Host' = Host
  BY DEF Exiting, Host
<1>2. Pinned!Leave(t)
  BY <1>1 DEF Exiting, Host, Pinned!Leave
<1> QED
  BY <1>2 DEF Pinned!Next

LEMMA SeenDeparting ==
  ASSUME NEW n \in Nodes, Departing(n)
  PROVE  Pinned!Next
<1>1. Host = n /\ Host' = None
  BY HostIs DEF Departing
<1>2. Pinned!Depart
  BY <1>1 DEF Departing, Host, Pinned!Depart
<1> QED
  BY <1>2 DEF Pinned!Next

LEMMA SeenArriving ==
  ASSUME NEW n \in Nodes, Arriving(n)
  PROVE  Pinned!Next
<1>1. Host = None /\ Host' = n
  BY HostIs DEF Arriving
<1>2. Pinned!Arrive(n)
  BY <1>1 DEF Arriving, Host, Pinned!Arrive
<1> QED
  BY <1>2 DEF Pinned!Next

---------------------------------------------------------------------------

LEMMA HostsKept ==
  ASSUME \A n \in Nodes : status'[n] = "present" <=> status[n] = "present",
         \A n \in Nodes : src'[n].pc \in {"sync", "syncing"} <=> src[n].pc \in {"sync", "syncing"}
  PROVE  Hosts' = Hosts
BY DEF Hosts, SrcAt

LEMMA GuardingKept ==
  ASSUME \A t \in Threads : th'[t].pc = "guard" <=> th[t].pc = "guard"
  PROVE  Guarding' = Guarding
BY DEF Guarding

(* The threads enter and leave.                                            *)
LEMMA ThreadsSeen ==
  ASSUME MigrationInv, NEW t \in Threads, NEW n \in Nodes,
         \/ Attach(t, n) \/ AttachLock(t, n) \/ AttachRecheck(t, n) \/ Detach(t, n)
         \/ EnableFor(t, n) \/ Relock(t, n) \/ RelockCheck(t, n) \/ WaitUntilPresent(t, n)
  PROVE  [Pinned!Next]_(Pinned!vars)
<1>1. Types
  BY DEF MigrationInv
<1>2. \A pc : At(t, n, pc) => th[t].node = n /\ th[t].pc = pc /\ ~th[t].paused
  BY DEF At
<1>3. Hosts' = Hosts
  <2>1. UNCHANGED status
    BY Frame DEF Attach, AttachLock, AttachRecheck, Detach, EnableFor, Relock, RelockCheck, WaitUntilPresent
  <2>2. UNCHANGED src \/ ReaderUnlock(t, n)
    BY DEF Attach, AttachLock, AttachRecheck, Detach, EnableFor, Relock, RelockCheck, WaitUntilPresent
  <2>3. \A m \in Nodes : src'[m].pc = src[m].pc
    BY <1>1, <2>2, UnlockOnly
  <2> QED
    BY <2>1, <2>3, HostsKept
<1>4. ASSUME NEW pc \in ThreadPcs, Goto(t, pc), th[t].pc # "guard", pc # "guard"
      PROVE  [Pinned!Next]_(Pinned!vars)
  <2>1. Guarding' = Guarding
    BY <1>1, <1>4, GotoOnly, GuardingKept
  <2> QED
    BY <1>3, <2>1, SeenAside DEF Aside
<1>5. ASSUME Goto(t, "guard"), th[t].pc \in {"attached", "relock"}, th[t].node = n, ~th[t].paused, Usable(n)
      PROVE  [Pinned!Next]_(Pinned!vars)
  <2>1. Running(t, n)
    BY <1>5 DEF Running
  <2>2. Hosts = {n}
    BY <1>5, <2>1, GuardingHost DEF Usable
  <2>3. t \notin Guarding /\ Guarding' = Guarding \cup {t}
    BY <1>1, <1>5, GotoOnly DEF Guarding, ThreadPcs
  <2> QED
    BY <1>3, <2>2, <2>3, SeenEntering DEF Entering
<1>6. ASSUME th[t].pc = "guard", th'[t].pc # "guard", \A x \in Threads \ {t} : th'[x] = th[x]
      PROVE  [Pinned!Next]_(Pinned!vars)
  <2>1. t \in Guarding /\ Guarding' = Guarding \ {t}
    BY <1>6 DEF Guarding
  <2> QED
    BY <1>3, <2>1, SeenExiting DEF Exiting
<1>7. ASSUME th[t].pc # "guard", th'[t].pc # "guard", \A x \in Threads \ {t} : th'[x] = th[x]
      PROVE  [Pinned!Next]_(Pinned!vars)
  <2>1. Guarding' = Guarding
    BY <1>7, GuardingKept
  <2> QED
    BY <1>3, <2>1, SeenAside DEF Aside
<1>8. CASE Attach(t, n)
  <2>1. th'[t].pc = "attaching" /\ \A x \in Threads \ {t} : th'[x] = th[x]
    BY <1>1, <1>8 DEF Attach, Types
  <2> QED
    BY <1>7, <1>8, <2>1, OutAlone DEF Attach
<1>9. CASE AttachLock(t, n)
  BY <1>2, <1>4, <1>9 DEF AttachLock, ThreadPcs
<1>10. CASE AttachRecheck(t, n)
  <2>1. CASE Usable(n)
    BY <1>2, <1>5, <1>10, <2>1 DEF AttachRecheck
  <2>2. CASE ~Usable(n)
    <3>1. th[t].pc = "attached" /\ th' = [th EXCEPT ![t] = OutThread]
      BY <1>2, <1>10, <2>2 DEF AttachRecheck
    <3> QED
      BY <1>1, <1>7, <3>1, OutOnly, OutAlone
  <2> QED
    BY <2>1, <2>2
<1>11. CASE Detach(t, n)
  <2>1. th[t].pc = "guard" /\ th' = [th EXCEPT ![t] = OutThread]
    BY <1>2, <1>11 DEF Detach
  <2> QED
    BY <1>1, <1>6, <2>1, OutOnly, OutAlone
<1>12. CASE EnableFor(t, n)
  <2>1. th[t].pc = "guard" /\ Goto(t, "free")
    BY <1>2, <1>12 DEF EnableFor
  <2> QED
    BY <1>1, <1>6, <2>1, GotoOnly DEF ThreadPcs
<1>13. CASE Relock(t, n)
  BY <1>2, <1>4, <1>13 DEF Relock, ThreadPcs
<1>14. CASE RelockCheck(t, n)
  <2>1. CASE Usable(n)
    BY <1>2, <1>5, <1>14, <2>1 DEF RelockCheck
  <2>2. CASE ~Usable(n)
    BY <1>2, <1>4, <1>14, <2>2 DEF RelockCheck, ThreadPcs
  <2> QED
    BY <2>1, <2>2
<1>15. CASE WaitUntilPresent(t, n)
  BY <1>2, <1>4, <1>15 DEF WaitUntilPresent, ThreadPcs
<1> QED
  BY <1>8, <1>9, <1>10, <1>11, <1>12, <1>13, <1>14, <1>15

(* The source lets go of the proclet when writer_sync returns.             *)
LEMMA SourceAside ==
  ASSUME MigrationInv, NEW n \in Nodes, NEW pc, src'[n].pc = pc,
         src[n].pc \in {"sync", "syncing"} <=> pc \in {"sync", "syncing"},
         \A m \in Nodes \ {n} : src'[m] = src[m],
         status' = status, Guarding' = Guarding
  PROVE  [Pinned!Next]_(Pinned!vars)
<1>1. Hosts' = Hosts
  BY HostsKept
<1> QED
  BY <1>1, SeenAside DEF Aside

LEMMA SrcAsideGoto ==
  ASSUME MigrationInv, NEW n \in Nodes, NEW pc \in SrcPcs, SrcGoto(n, pc),
         src[n].pc \in {"sync", "syncing"} <=> pc \in {"sync", "syncing"},
         status' = status, Guarding' = Guarding
  PROVE  [Pinned!Next]_(Pinned!vars)
<1>1. SrcMoved(n, pc, src[n].sent, src[n].waitFor)
  BY SrcMove DEF MigrationInv
<1> QED
  BY <1>1, SourceAside DEF SrcMoved

LEMMA SrcAsidePut ==
  ASSUME MigrationInv, NEW n \in Nodes, NEW r, src' = [src EXCEPT ![n] = r],
         src[n].pc \in {"sync", "syncing"} <=> r.pc \in {"sync", "syncing"},
         status' = status, Guarding' = Guarding
  PROVE  [Pinned!Next]_(Pinned!vars)
<1>1. src \in [Nodes -> SrcRec]
  BY DEF MigrationInv, Types
<1>2. src'[n].pc = r.pc /\ \A m \in Nodes \ {n} : src'[m] = src[m]
  BY <1>1
<1> QED
  BY <1>2, SourceAside

LEMMA GuardingSame ==
  ASSUME th' = th
  PROVE  Guarding' = Guarding
BY DEF Guarding

LEMMA SyncReturnSeen ==
  ASSUME MigrationInv, NEW s \in Nodes, SyncReturn(s)
  PROVE  [Pinned!Next]_(Pinned!vars)
<1>1. PICK d \in Nodes : d = src[s].dest /\ src[s].pc = "syncing" /\ src[s].waitFor = {} /\ Paired(s, d)
  BY AtSource DEF SyncReturn, SrcAt
<1>2. Types /\ Only(s, d) /\ Where(s, d) /\ Seated(s, d)
  BY <1>1, InRound
<1>3. SrcMoved(s, "pause", src[s].sent, src[s].waitFor)
  BY <1>2, SrcMove DEF SyncReturn, SrcPcs
<1>4. UNCHANGED <<status, th>>
  BY DEF SyncReturn
<1>5. Hosts = {s} /\ ~Landed(s, d)
  BY <1>1, HostsInRound DEF AtHome
<1>6. Guarding = {}
  <2>1. ASSUME NEW t \in Threads, th[t].pc = "guard" PROVE FALSE
    <3>1. th[t].node # None
      BY <1>2, <2>1, OutAlone DEF Seated
    <3>2. th[t].node # s
      BY <1>1, <1>2, <2>1 DEF Seated, Staying, Skipped
    <3>3. th[t].node # d
      BY <1>2, <1>5, <2>1 DEF Seated
    <3> QED
      BY <1>2, <3>1, <3>2, <3>3 DEF Seated
  <2> QED
    BY <2>1 DEF Guarding
<1>7. Hosts' = {}
  <2>1. status[s] # "present"
    BY <1>1, <1>2 DEF Where, Staying, Skipped
  <2>2. \A n \in Nodes : n \in Hosts' => n \in Hosts /\ n # s
    BY <1>1, <1>3, <1>4, <2>1 DEF Hosts, SrcAt, SrcMoved
  <2>3. Hosts' \subseteq Nodes
    BY DEF Hosts
  <2> QED
    BY <1>5, <2>2, <2>3
<1> QED
  BY <1>4, <1>5, <1>6, <1>7, GuardingSame, SeenDeparting DEF Departing

LEMMA MarkMigratingSeen ==
  ASSUME MigrationInv, NEW s \in Nodes, MarkMigrating(s)
  PROVE  [Pinned!Next]_(Pinned!vars)
<1>1. Types /\ src[s].pc = "mark" /\ status[s] = "present" /\ th' = th
  BY DEF MigrationInv, MarkMigrating, SrcAt
<1>2. SrcMoved(s, "sync", src[s].sent, src[s].waitFor)
  BY <1>1, SrcMove DEF MarkMigrating, SrcPcs
<1>3. \A n \in Nodes \ {s} : status'[n] = status[n]
  BY <1>1 DEF MarkMigrating, Types
<1>4. \A n \in Nodes : n \in Hosts' <=> n \in Hosts
  BY <1>1, <1>2, <1>3 DEF Hosts, SrcAt, SrcMoved
<1>5. Hosts' = Hosts
  BY <1>4 DEF Hosts
<1> QED
  BY <1>1, <1>5, GuardingSame, SeenAside DEF Aside

LEMMA SetCleaningSeen ==
  ASSUME MigrationInv, NEW s \in Nodes, SetCleaning(s)
  PROVE  [Pinned!Next]_(Pinned!vars)
<1>1. PICK d \in Nodes : d = src[s].dest /\ src[s].pc = "clean" /\ Paired(s, d)
  BY AtSource DEF SetCleaning, SrcAt
<1>2. Types /\ Where(s, d) /\ th' = th /\ status' = [status EXCEPT ![s] = "cleaning"]
  BY <1>1, InRound DEF SetCleaning
<1>3. SrcMoved(s, "approval", src[s].sent, src[s].waitFor)
  BY <1>2, SrcMove DEF SetCleaning, SrcPcs
<1>4. status[s] # "present"
  BY <1>1, <1>2 DEF Where, Staying, Skipped
<1>5. \A n \in Nodes : status'[n] = "present" <=> status[n] = "present"
  BY <1>2, <1>4 DEF Types
<1>6. \A n \in Nodes : src'[n].pc \in {"sync", "syncing"} <=> src[n].pc \in {"sync", "syncing"}
  BY <1>1, <1>3 DEF SrcMoved
<1> QED
  BY <1>2, <1>5, <1>6, HostsKept, GuardingSame, SeenAside DEF Aside

LEMMA SourceSeen ==
  ASSUME MigrationInv, NEW n \in Nodes, SourceStep(n)
  PROVE  [Pinned!Next]_(Pinned!vars)
<1>1. Types
  BY DEF MigrationInv
<1>2. CASE AcquireSelf(n)
  BY <1>2, SrcAsideGoto, GuardingSame DEF AcquireSelf, SrcAt, SrcPcs
<1>3. ASSUME NEW d \in Nodes, AcquireDest(n, d)
      PROVE  [Pinned!Next]_(Pinned!vars)
  <2> DEFINE r == [src[n] EXCEPT !.pc = "tasks", !.dest = d]
  <2>1. src[n] \in SrcRec
    BY <1>1 DEF Types
  <2>2. r.pc = "tasks"
    BY <2>1 DEF SrcRec
  <2>3. /\ src' = [src EXCEPT ![n] = r] /\ src[n].pc = "acquire" /\ status' = status /\ th' = th
    BY <1>3 DEF AcquireDest, SrcAt
  <2> HIDE DEF r
  <2> QED
    BY <2>2, <2>3, SrcAsidePut, GuardingSame
<1>4. ASSUME src' = [src EXCEPT ![n] = IdleSrc], src[n].pc \notin {"sync", "syncing"}, status' = status, th' = th
      PROVE  [Pinned!Next]_(Pinned!vars)
  <2>1. IdleSrc.pc = "idle"
    BY DEF IdleSrc
  <2> QED
    BY <1>4, <2>1, SrcAsidePut, GuardingSame
<1>5. CASE NoDest(n)
  BY <1>4, <1>5 DEF NoDest, SrcAt
<1>6. CASE FinishRound(n)
  BY <1>4, <1>6 DEF FinishRound, SrcAt
<1>7. CASE SendTasks(n)
  BY <1>7, SrcAsideGoto, GuardingSame DEF SendTasks, SrcAt, SrcPcs
<1>8. CASE Skip(n)
  BY <1>8, SrcAsideGoto, GuardingSame DEF Skip, SrcAt, SrcPcs
<1>9. CASE SyncCall(n)
  <2> DEFINE r == [src[n] EXCEPT !.pc = "syncing", !.waitFor = rcu[n]]
  <2>1. src[n] \in SrcRec
    BY <1>1 DEF Types
  <2>2. r.pc = "syncing"
    BY <2>1 DEF SrcRec
  <2>3. /\ src' = [src EXCEPT ![n] = r] /\ src[n].pc = "sync" /\ status' = status /\ th' = th
    BY <1>9 DEF SyncCall, SrcAt, OpenSections
  <2> HIDE DEF r
  <2> QED
    BY <2>2, <2>3, SrcAsidePut, GuardingSame
<1>10. CASE PauseThreads(n)
  <2>1. \A t \in Threads : th'[t].pc = th[t].pc
    BY <1>1, <1>10 DEF PauseThreads, Types, ThreadRec
  <2> QED
    BY <1>10, <2>1, GuardingKept, SrcAsideGoto DEF PauseThreads, SrcAt, SrcPcs
<1>11. CASE LockSpin(n)
  BY <1>11, SrcAsideGoto, GuardingSame DEF LockSpin, SrcAt, SrcPcs
<1>12. ASSUME NEW p \in Parts, TransmitChunk(n, p)
       PROVE  [Pinned!Next]_(Pinned!vars)
  <2> DEFINE r == [src[n] EXCEPT !.sent = src[n].sent \cup {p},
                                 !.pc = IF src[n].sent \cup {p} = Parts THEN "state" ELSE "copy"]
  <2>1. src[n] \in SrcRec
    BY <1>1 DEF Types
  <2>2. r.pc \in {"state", "copy"}
    BY <2>1 DEF SrcRec
  <2>3. /\ src' = [src EXCEPT ![n] = r] /\ src[n].pc = "copy" /\ status' = status /\ th' = th
    BY <1>12 DEF TransmitChunk, SrcAt
  <2> HIDE DEF r
  <2> QED
    BY <2>2, <2>3, SrcAsidePut, GuardingSame
<1>13. CASE TransmitState(n)
  <2>1. \A t \in Threads : th'[t].pc = th[t].pc
    BY <1>1, <1>13 DEF TransmitState, Types, ThreadRec
  <2> QED
    BY <1>13, <2>1, GuardingKept, SrcAsideGoto DEF TransmitState, SrcAt, SrcPcs
<1>14. CASE UpdateLocation(n)
  BY <1>14, SrcAsideGoto, GuardingSame DEF UpdateLocation, SrcAt, SrcPcs
<1>15. SourceStep(n) =>
         \/ AcquireSelf(n) \/ NoDest(n) \/ FinishRound(n) \/ SendTasks(n) \/ Skip(n) \/ MarkMigrating(n)
         \/ SyncCall(n) \/ SyncReturn(n) \/ PauseThreads(n) \/ LockSpin(n) \/ TransmitState(n)
         \/ UpdateLocation(n) \/ SetCleaning(n)
         \/ (\E d \in Nodes : AcquireDest(n, d)) \/ (\E p \in Parts : TransmitChunk(n, p))
  BY DEF SourceStep, RoundStep
<1> QED
  BY <1>2, <1>3, <1>5, <1>6, <1>7, <1>8, <1>9, <1>10, <1>11, <1>12, <1>13, <1>14, <1>15,
     MarkMigratingSeen, SyncReturnSeen, SetCleaningSeen

(* The destination, until load_time_and_mark_proclet_present, has nothing  *)
(* present to lose.                                                        *)
LEMMA DestAside ==
  ASSUME MigrationInv, src' = src, Guarding' = Guarding,
         \A n \in Nodes : status'[n] = "present" <=> status[n] = "present"
  PROVE  [Pinned!Next]_(Pinned!vars)
<1>1. Hosts' = Hosts
  BY HostsKept
<1> QED
  BY <1>1, SeenAside DEF Aside

LEMMA DestQuiet ==
  ASSUME MigrationInv, UNCHANGED <<src, th, status>>
  PROVE  [Pinned!Next]_(Pinned!vars)
BY DestAside, GuardingSame

LEMMA DestSets ==
  ASSUME MigrationInv, UNCHANGED <<src, th>>, NEW d \in Nodes, NEW st, st # "present",
         status' = [status EXCEPT ![d] = st], status[d] # "present"
  PROVE  [Pinned!Next]_(Pinned!vars)
<1>1. status \in [Nodes -> Status]
  BY DEF MigrationInv, Types
<1>2. \A n \in Nodes : status'[n] = "present" <=> status[n] = "present"
  BY <1>1
<1> QED
  BY <1>2, DestAside, GuardingSame

LEMMA NotYetPresent ==
  ASSUME MigrationInv, NEW s \in Nodes, NEW d \in Nodes, Paired(s, d),
         dst[d].pc \in {"populate", "load", "count", "spin", "blocked", "insert"}
  PROVE  status[d] # "present" /\ ~Landed(s, d)
<1>1. /\ Types /\ SentSoFar /\ Talk(s, d) /\ Where(s, d)
  BY InRound
<1>2. Left(s) => back[<<d, s>>] = <<>>
  BY <1>1 DEF Talk, Told, Over
<1> QED
  BY <1>1, <1>2 DEF Where, Landed, Finished

(* No thread holds a guard while it travels.                               *)
LEMMA RestoredGuards ==
  ASSUME MigrationInv, NEW s \in Nodes, NEW d \in Nodes, Paired(s, d),
         NEW S \in SUBSET Travelling, Restore(d, Carry(S))
  PROVE  Guarding' = Guarding
<1>1. Types
  BY DEF MigrationInv
<1>2. \A t \in Threads : th'[t].pc = th[t].pc
  BY <1>1, Restoring DEF Travelling
<1> QED
  BY <1>2, GuardingKept

LEMMA LoadBlockedSeen ==
  ASSUME MigrationInv, NEW s \in Nodes, NEW d \in Nodes, LoadBlocked(d, s)
  PROVE  [Pinned!Next]_(Pinned!vars)
<1>1. /\ Paired(s, d) /\ dst[d].pc = "blocked"
      /\ chan[<<s, d>>] # <<>> /\ Head(chan[<<s, d>>]).kind = "blocked"
  BY AtDest DEF LoadBlocked, Arrived
<1>2. /\ Types /\ SentSoFar /\ Talk(s, d)
  BY <1>1, InRound
<1>3. chan[<<s, d>>] = <<BlockedMsg, ReadyMsg>>
  BY <1>1, <1>2, Stages, ReadingTalk, Kinds DEF Talk, Told, Over
<1>4. Restore(d, Carry({t \in Travelling : th[t].pc = "parked"}))
  BY <1>3, ReadingTalk DEF LoadBlocked, BlockedMsg
<1>5. Guarding' = Guarding
  BY <1>1, <1>4, RestoredGuards
<1> QED
  BY <1>5, DestAside DEF LoadBlocked

LEMMA LoadReadySeen ==
  ASSUME MigrationInv, NEW s \in Nodes, NEW d \in Nodes, LoadReady(d, s)
  PROVE  [Pinned!Next]_(Pinned!vars)
<1>1. /\ Paired(s, d) /\ dst[d].pc = "ready"
      /\ chan[<<s, d>>] # <<>> /\ Head(chan[<<s, d>>]).kind = "ready"
  BY AtDest DEF LoadReady, Arrived
<1>2. /\ Types /\ SentSoFar /\ Talk(s, d)
  BY <1>1, InRound
<1>3. chan[<<s, d>>] = <<ReadyMsg>>
  BY <1>1, <1>2, Stages, ReadingTalk, Kinds DEF Talk, Told, Over
<1>4. Restore(d, Carry({t \in Travelling : th[t].pc # "parked"}))
  BY <1>3, ReadingTalk DEF LoadReady, ReadyMsg
<1>5. Guarding' = Guarding
  BY <1>1, <1>4, RestoredGuards
<1> QED
  BY <1>5, DestAside DEF LoadReady

LEMMA InsertPresentSeen ==
  ASSUME MigrationInv, NEW s \in Nodes, NEW d \in Nodes, InsertPresent(d, s)
  PROVE  [Pinned!Next]_(Pinned!vars)
<1>1. Paired(s, d) /\ dst[d].pc = "insert"
  BY AtDest DEF InsertPresent
<1>2. /\ Types /\ SentSoFar /\ Talk(s, d)
  BY <1>1, InRound
<1>3. Left(s)
  BY <1>1, <1>2, Stages DEF Talk, Told, Over
<1>4. Hosts = {}
  <2>1. ~AtHome(s)
    BY <1>1, <1>2, <1>3, Stages DEF AtHome, Left
  <2> QED
    BY <1>1, <2>1, NotYetPresent, HostsInRound
<1>5. status' = [status EXCEPT ![d] = "present"] /\ src' = src /\ th' = th
  BY DEF InsertPresent
<1>6. Hosts' = {d}
  <2>1. d \in Hosts'
    BY <1>2, <1>5 DEF Hosts, Types
  <2>2. \A n \in Hosts' : n = d \/ n \in Hosts
    BY <1>2, <1>5 DEF Hosts, Types, SrcAt
  <2> QED
    BY <1>4, <2>1, <2>2
<1> QED
  BY <1>4, <1>5, <1>6, GuardingSame, SeenArriving DEF Arriving

LEMMA AuxSettleSeen ==
  ASSUME MigrationInv, NEW d \in Nodes, NEW a \in AuxConns, AuxSettle(d, a)
  PROVE  [Pinned!Next]_(Pinned!vars)
<1>1. auxh[d][a].pc = "settle"
  BY DEF AuxSettle
<1>2. PICK s \in Nodes : Paired(s, d) /\ auxchan[<<s, d>>][a] # <<>>
  BY <1>1, AtAux
<1>3. Loading(s, d) /\ Where(s, d)
  BY <1>2, InRound
<1>4. ~Landed(s, d)
  BY <1>2, <1>3 DEF Loading, Landed, Whole
<1>5. status[d] # "present"
  BY <1>3, <1>4 DEF Where
<1> QED
  BY <1>5, DestSets DEF AuxSettle

LEMMA DestSeen ==
  ASSUME MigrationInv, NEW n \in Nodes, DestStep(n)
  PROVE  [Pinned!Next]_(Pinned!vars)
<1>1. Types
  BY DEF MigrationInv
<1>2. ASSUME NEW s \in Nodes, ReceiveTasks(n, s) \/ ExpectChunks(n, s) \/ ChunksLoaded(n, s) \/ FinalApproval(n, s)
      PROVE  [Pinned!Next]_(Pinned!vars)
  BY <1>2, DestQuiet DEF ReceiveTasks, ExpectChunks, ChunksLoaded, FinalApproval
<1>3. ASSUME NEW s \in Nodes, Populate(n, s)
      PROVE  [Pinned!Next]_(Pinned!vars)
  <2>1. status[n] # "present"
    BY <1>3, AtDest, NotYetPresent DEF Populate
  <2> QED
    BY <1>3, <2>1, DestSets DEF Populate
<1>4. ASSUME NEW s \in Nodes, LoadSkipped(n, s)
      PROVE  [Pinned!Next]_(Pinned!vars)
  <2>1. status[n] # "present"
    BY <1>4, AtDest, NotYetPresent DEF LoadSkipped
  <2> QED
    BY <1>4, <2>1, DestSets DEF LoadSkipped
<1>5. ASSUME NEW s \in Nodes, LoadMainChunk(n, s)
      PROVE  [Pinned!Next]_(Pinned!vars)
  <2>1. \A m \in Nodes : status'[m] = "present" <=> status[m] = "present"
    BY <1>1, <1>5 DEF LoadMainChunk, Types
  <2> QED
    BY <1>5, <2>1, DestAside, GuardingSame DEF LoadMainChunk
<1>6. ASSUME NEW s \in Nodes, SignalAll(n, s)
      PROVE  [Pinned!Next]_(Pinned!vars)
  <2>1. \A t \in Threads : th'[t].pc = "guard" <=> th[t].pc = "guard"
    BY <1>1, <1>6 DEF SignalAll, Waiters, At, Types, ThreadRec
  <2> QED
    BY <1>6, <2>1, GuardingKept, DestAside DEF SignalAll
<1>7. ASSUME NEW a \in AuxConns, (\E s \in Nodes : AuxHeader(n, a, s)) \/ AuxPayload(n, a)
      PROVE  [Pinned!Next]_(Pinned!vars)
  BY <1>7, DestQuiet DEF AuxHeader, AuxPayload
<1> QED
  BY <1>2, <1>3, <1>4, <1>5, <1>6, <1>7, LoadBlockedSeen, LoadReadySeen, InsertPresentSeen, AuxSettleSeen
  DEF DestStep

LEMMA RunJobSeen ==
  ASSUME MigrationInv, NEW n \in Nodes, NEW job \in Jobs, RunJob(n, job)
  PROVE  [Pinned!Next]_(Pinned!vars)
<1>1. Types /\ src' = src /\ th' = th
  BY DEF MigrationInv, RunJob
<1>2. CASE status[n] = Expected(job)
  <2>1. status[n] # "present"
    BY <1>2 DEF Expected
  <2>2. status' = [status EXCEPT ![n] = "absent"]
    BY <1>2 DEF RunJob, Wipe
  <2> QED
    BY <1>1, <2>1, <2>2, DestSets
<1>3. CASE status[n] # Expected(job)
  BY <1>1, <1>3, DestQuiet DEF RunJob
<1> QED
  BY <1>2, <1>3

LEMMA PinnedInit ==
  ASSUME Init
  PROVE  Pinned!Init
<1>1. Home \in Nodes
  BY ConstantsOK
<1>2. \A n \in Nodes : n \in Hosts <=> n = Home
  BY DEF Init, Hosts, SrcAt, IdleSrc
<1>3. Hosts = {Home}
  BY <1>1, <1>2 DEF Hosts
<1>4. Host = Home
  BY <1>3, HostIs
<1>5. Guarding = {}
  BY DEF Init, Guarding, OutThread
<1> QED
  BY <1>1, <1>4, <1>5 DEF Host, Pinned!Init

LEMMA PinnedStep ==
  ASSUME MigrationInv, [Next]_vars
  PROVE  [Pinned!Next]_(Pinned!vars)
<1>1. CASE UNCHANGED vars
  BY <1>1, DestQuiet DEF vars
<1>2. CASE \E t \in Threads : ThreadStep(t)
  BY <1>2, ThreadsSeen DEF ThreadStep
<1>3. CASE \E n \in Nodes : SourceStep(n)
  BY <1>3, SourceSeen
<1>4. CASE \E n \in Nodes : DestStep(n)
  BY <1>4, DestSeen
<1>5. CASE \E n \in Nodes : \E job \in Jobs : RunJob(n, job)
  BY <1>5, RunJobSeen
<1>6. CASE \E n \in Nodes : ControllerStep(n)
  BY <1>6, DestQuiet DEF ControllerStep
<1> QED
  BY <1>1, <1>2, <1>3, <1>4, <1>5, <1>6 DEF Next

---------------------------------------------------------------------------
(* The theorems.                                                           *)

(* Whoever finds the proclet present at a node, attach_and_disable_        *)
(* migration for one, finds every chunk of its heap live there, none still *)
(* to come, and the reader counters that the heap brought along counting   *)
(* exactly the threads whose context says they are in a section.           *)
THEOREM PresentProcletIsWhole == Spec => []PresentIsWhole
BY MigrationKeepsInv, InvPresent, PTL

(* While a thread has a MigrationGuard, the proclet is at the node of that *)
(* thread, whole, and __migrate has not begun to transmit it.              *)
THEOREM GuardsPin == Spec => []GuardPins
BY MigrationKeepsInv, InvGuards, PTL

(* pause_migrating_threads and the transmission miss no thread: none stays *)
(* at a node that the proclet has left, and after cond_var.signal_all none *)
(* sleeps in wait_until where the proclet is present.                      *)
THEOREM NoThreadStaysBehind == Spec => []NoThreadLeftBehind
BY MigrationKeepsInv, InvBehind, PTL

(* A thread that has left its node is in exactly one of the messages with  *)
(* blocked and ready threads, once: none is lost, none is restored twice.  *)
THEOREM TravellersAreCarried == Spec => []NoThreadLost
BY MigrationKeepsInv, InvLost, PTL

(* Migration implements PinnedProclet: seen by the calls inside, the       *)
(* proclet is at one node or on its way, it is entered only where it is,   *)
(* and it leaves, when writer_sync returns, with no call inside.           *)
THEOREM MigrationImplementsPinned == Spec => ImplementsPinned
<1>1. Init => Pinned!Init
  BY PinnedInit
<1>2. MigrationInv /\ [Next]_vars => [Pinned!Next]_(Pinned!vars)
  BY PinnedStep
<1> QED
  BY <1>1, <1>2, MigrationKeepsInv, PTL DEF Spec, ImplementsPinned, Pinned!Spec
=============================================================================
