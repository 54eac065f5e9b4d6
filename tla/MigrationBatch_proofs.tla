----------------------- MODULE MigrationBatch_proofs -----------------------
(***************************************************************************)
(* Proofs about MigrationBatch, for any nodes, proclets, number of batches *)
(* and of constructions.  RoundInv is inductive whatever the application   *)
(* does: it says how far source and destination of a round can be apart.   *)
(* PlaceInv is inductive together with it if addresses are not used again  *)
(* too early (QuietReuse): it says where each proclet is.                  *)
(***************************************************************************)
EXTENDS MigrationBatch, FiniteSetTheorems, SequenceTheorems, TLAPS

---------------------------------------------------------------------------
(* One round, as a matter of the source's call s, the destination's load t *)
(* and the two directions c and b of their connection.                     *)

Skipping == [type |-> "skip"]
Copying(p) == [type |-> "copy", proclet |-> p]
Listing(ts) == [type |-> "tasks", tasks |-> ts]
Messages == {Skipping} \cup {Copying(p) : p \in Proclets} \cup {Listing(ts) : ts \in Seq(Proclets)}

SrcCalls ==
  [pc : {"idle", "loop", "task", "mark", "send", "sent", "last"}, tasks : Seq(Proclets),
   it : Nat, size : Nat, i : Nat, dest : Nodes \cup {None}, congested : SUBSET Nodes]
Loads ==
  [pc : {"idle", "approve", "load", "loadlast", "refuse"}, from : Nodes \cup {None},
   tasks : Seq(Proclets), i : Nat]

(* Task k of the round, the tasks it has sent off, one way or another, and *)
(* the approvals it has read.                                              *)
TaskOf(s, k) == s.tasks[s.it + k - 1]
Sent(s) == IF s.pc = "sent" THEN s.i ELSE s.i - 1
Read(s) ==
  IF s.pc = "task" THEN IF s.i = 1 THEN 0 ELSE s.i - 2
  ELSE IF s.pc = "last" /\ s.i > s.size THEN s.i - 2
  ELSE s.i - 1

(* The approvals that the load has given, the last of which may be a       *)
(* refusal.                                                                *)
Refused(t) ==
  \/ t.pc = "loadlast" /\ t.i < Len(t.tasks)
  \/ t.pc = "refuse" /\ t.i <= Len(t.tasks)
Given(t) ==
  IF t.pc = "load" \/ (t.pc = "loadlast" /\ Refused(t)) THEN t.i
  ELSE IF t.pc = "refuse" /\ ~Refused(t) THEN t.i - 2
  ELSE t.i - 1

About(s, m, k) == m \in {Skipping, Copying(TaskOf(s, k))}
Same(ts, s) == Len(ts) = s.size /\ \A k \in 1..s.size : ts[k] = TaskOf(s, k)

(* The load has not started, ...                                           *)
Before(s, t, c, b) ==
  /\ t = IdleDst /\ b = <<>> /\ Read(s) = 0
  /\ s.pc = "last" => s.i > s.size
  /\ Len(c) = Sent(s) + 1
  /\ \E ts \in Seq(Proclets) : c[1] = Listing(ts) /\ Same(ts, s)
  /\ \A k \in 1..Sent(s) : About(s, c[k + 1], k)

(* ... is at its task i, ...                                               *)
During(s, t, c, b, n) ==
  /\ t.pc # "idle" /\ t.from = n /\ Same(t.tasks, s)
  /\ t.i \in 1..s.size + 1
  /\ t.pc # "refuse" => t.i <= s.size
  /\ t.pc = "load" => t.i < s.size
  /\ Len(c) = Sent(s) + 1 - t.i
  /\ \A k \in 1..Len(c) : About(s, c[k], t.i - 1 + k)
  /\ Len(b) = Given(t) - Read(s)
  /\ \A k \in 1..Len(b) : b[k] <=> ~(Refused(t) /\ k = Len(b))
  /\ s.pc = "last" /\ s.i <= s.size <=> Refused(t) /\ b = <<>>

(* ... or has ended, and the source has not seen that.                     *)
After(s, t, c, b) ==
  /\ t = IdleDst /\ c = <<>>
  /\ \/ Len(b) = 1 /\ (s.pc = "last" \/ (s.pc = "sent" /\ s.i = s.size))
     \/ Len(b) = 2 /\ ~b[1] /\ ((s.pc = "task" /\ s.i > 1) \/ (s.pc = "sent" /\ s.i < s.size))

Talks(s, t, c, b, n) == Before(s, t, c, b) \/ During(s, t, c, b, n) \/ After(s, t, c, b)

Counted(s) ==
  /\ s.it \in 1..Len(s.tasks) + 1
  /\ \A j, k \in 1..Len(s.tasks) : s.tasks[j] = s.tasks[k] => j = k
  /\ s.dest = None <=> s.pc \in {"idle", "loop"}
  /\ s.dest = None => s.i = 1
  /\ s.dest # None => s.size \in 1..Len(s.tasks) - s.it + 1 /\ s.i \in 1..s.size + 1
  /\ s.pc \in {"task", "mark", "send", "sent"} => s.i <= s.size
  /\ s.pc = "mark" => s.i > 1

TypeInv ==
  /\ src \in [Nodes -> SrcCalls] /\ dst \in [Nodes -> Loads]
  /\ chan \in [Nodes \X Nodes -> Seq(Messages)]
  /\ back \in [Nodes \X Nodes -> Seq(BOOLEAN)]

RoundInv ==
  /\ TypeInv
  /\ \A n \in Nodes : Counted(src[n])
  /\ \A n \in Nodes : src[n].pc # "idle" => n \in acquired
  /\ \A n \in Nodes : dst[n].pc = "idle" => dst[n] = IdleDst
  /\ \A n, d \in Nodes :
       src[n].dest = d =>
         /\ d \in acquired /\ src[d].pc = "idle"
         /\ \A m \in Nodes : src[m].dest = d => m = n
         /\ Talks(src[n], dst[d], chan[<<n, d>>], back[<<n, d>>], n)
  /\ \A n, d \in Nodes : src[n].dest # d => chan[<<n, d>>] = <<>> /\ back[<<n, d>>] = <<>>
  /\ \A n \in Nodes : dst[n].pc # "idle" => dst[n].from \in Nodes /\ src[dst[n].from].dest = n

---------------------------------------------------------------------------
(* Where the proclets are.                                                 *)

(* A proclet leaves n: its contents are on a connection from there, or are *)
(* about to be.                                                            *)
Copies(n, p) == src[n].dest # None /\ Copying(p) \in Range(chan[<<n, src[n].dest>>])
Ready(n, p) == src[n].dest # None /\ src[n].pc = "send" /\ TaskOf(src[n], src[n].i) = p
Leaves(n, p) == Copies(n, p) \/ Ready(n, p)
Site(n, p) == Found(status[n][p]) \/ Leaves(n, p)

(* The proclet that n has marked, those that it has still to send, and     *)
(* those of the list that its destination has not read.                    *)
Sending(n, p) == src[n].pc \in {"send", "sent"} /\ TaskOf(src[n], src[n].i) = p
Unsent(n) == {src[n].tasks[k] : k \in src[n].it + Sent(src[n]) .. Len(src[n].tasks)}
Listed(n) ==
  {p \in Proclets : \E d \in Nodes : \E ts \in Seq(Proclets) :
     /\ src[n].dest = d /\ chan[<<n, d>>] # <<>>
     /\ chan[<<n, d>>][1] = Listing(ts) /\ p \in Range(ts)}
Pending(n) == Unsent(n) \cup Listed(n)

(* Whatever the application does.                                          *)
Making == [node : Nodes \cup {None}, pc : {"no", "setup", "attach", "insert"}]
Jobs == [kind : {"depopulating", "cleaning"}, proclet : Proclets]

MemoryTypes ==
  /\ status \in [Nodes -> [Proclets -> Statuses]]
  /\ body \in [Nodes -> SUBSET Proclets] /\ jobs \in [Nodes -> SUBSET Jobs]
  /\ alive \subseteq Proclets /\ dying \in [Proclets -> Nodes \cup {None}]
  /\ making \in [Proclets -> Making]
  /\ \A p \in Proclets : making[p].pc = "no" <=> making[p].node = None

Cleaned ==
  \A n \in Nodes, p \in Proclets :
    /\ status[n][p] = "populating" => p \in Rest(n)
    /\ status[n][p] \in {"depopulating", "cleaning"} =>
         [kind |-> status[n][p], proclet |-> p] \in jobs[n]

CleanInv == MemoryTypes /\ Cleaned

(* Under QuietReuse: its site is the only one, ...                         *)
Placed(p) ==
  /\ \A m, n \in Nodes : Site(m, p) /\ Site(n, p) => m = n
  /\ \A n \in Nodes : ~(Found(status[n][p]) /\ Leaves(n, p))
  /\ (\E n \in Nodes : Site(n, p)) <=> p \in alive /\ making[p].pc # "setup"
  /\ \A m, n \in Nodes : p \in Pending(m) /\ Site(n, p) => m = n

(* ... the status says what the rounds do with it, ...                     *)
Marks(n, p) ==
  /\ status[n][p] = "migrating" <=> Sending(n, p)
  /\ p \in Rest(n) => status[n][p] = "populating"
  /\ Found(status[n][p]) => p \in body[n]

(* ... and it is constructed and destroyed where it is, and not picked     *)
(* before.                                                                 *)
Life(p) ==
  /\ p \in Picked => making[p] = NotMaking
  /\ making[p].pc # "no" => p \in alive
  /\ making[p].pc \in {"attach", "insert"} => status[making[p].node][p] = "present"
  /\ dying[p] # None => making[p] = NotMaking /\ status[dying[p]][p] = "destructing"

Settled(p) == Placed(p) /\ Life(p) /\ \A n \in Nodes : Marks(n, p)
PlaceInv == \A p \in Proclets : Settled(p)
---------------------------------------------------------------------------
(* What each step of a round makes of it.                                  *)

LEMMA SeqTail ==
  ASSUME NEW S, NEW q \in Seq(S), q # <<>>
  PROVE  /\ Len(q) \in Nat \ {0} /\ Head(q) = q[1] /\ q[1] \in S
         /\ Tail(q) \in Seq(S) /\ Len(Tail(q)) = Len(q) - 1
         /\ \A k \in 1..Len(q) - 1 : Tail(q)[k] = q[k + 1]
  OBVIOUS

LEMMA LenZero ==
  ASSUME NEW S, NEW q \in Seq(S)
  PROVE  Len(q) \in Nat /\ (q = <<>> <=> Len(q) = 0)
  BY EmptySeq

LEMMA SeqAppend ==
  ASSUME NEW S, NEW q \in Seq(S), NEW e \in S
  PROVE  /\ Append(q, e) \in Seq(S) /\ Len(Append(q, e)) = Len(q) + 1 /\ Len(q) \in Nat
         /\ \A k \in 1..Len(q) : Append(q, e)[k] = q[k]
         /\ Append(q, e)[Len(q) + 1] = e
  OBVIOUS

(* s2 is another stage of the same round.                                  *)
SameRound(s2, s) ==
  /\ s2.tasks = s.tasks /\ s2.it = s.it /\ s2.size = s.size /\ s2.dest = s.dest

LEMMA SrcIs ==
  ASSUME NEW s \in SrcCalls
  PROVE  /\ s.size \in Nat /\ s.i \in Nat /\ s.it \in Nat /\ s.tasks \in Seq(Proclets)
         /\ s.dest \in Nodes \cup {None} /\ s.congested \subseteq Nodes
         /\ s.pc \in {"idle", "loop", "task", "mark", "send", "sent", "last"}
  BY DEF SrcCalls

LEMMA SameTasks ==
  ASSUME NEW s \in SrcCalls, NEW s2 \in SrcCalls, SameRound(s2, s)
  PROVE  /\ \A k : TaskOf(s2, k) = TaskOf(s, k)
         /\ \A ts : Same(ts, s2) <=> Same(ts, s)
         /\ \A m, k : About(s2, m, k) <=> About(s, m, k)
  BY DEF SameRound, TaskOf, Same, About

LEMMA ApprovalTalks ==
  ASSUME NEW s \in SrcCalls, NEW s2 \in SrcCalls, NEW t \in Loads, NEW c \in Seq(Messages),
         NEW b \in Seq(BOOLEAN), NEW n, SameRound(s2, s), Counted(s),
         Talks(s, t, c, b, n), s.pc = "task", s.i > 1, b # <<>>,
         s2.i = s.i, (b[1] /\ s2.pc = "mark") \/ (~b[1] /\ s2.pc = "last")
  PROVE  Counted(s2) /\ Talks(s2, t, c, Tail(b), n)
<1>1. /\ s.size \in Nat /\ s.i \in Nat /\ s.i <= s.size /\ s.i > 1 /\ s2.size = s.size
  BY SrcIs DEF Counted, SameRound
<1>2. Counted(s2)
  BY <1>1, SrcIs DEF Counted, SameRound
<1>3. /\ Sent(s) = s.i - 1 /\ Sent(s2) = s.i - 1 /\ Read(s) = s.i - 2 /\ Read(s2) = s.i - 1
  BY <1>1 DEF Sent, Read
<1>4. /\ Len(b) \in Nat \ {0} /\ Head(b) = b[1] /\ b[1] \in BOOLEAN
      /\ Tail(b) \in Seq(BOOLEAN) /\ Len(Tail(b)) = Len(b) - 1
      /\ \A k \in 1..Len(b) - 1 : Tail(b)[k] = b[k + 1]
  BY SeqTail
<1>5. ~Before(s, t, c, b)
  BY DEF Before
<1>6. CASE During(s, t, c, b, n)
  <2>1. Refused(t) \in BOOLEAN
    BY DEF Refused
  <2>2. /\ t.pc # "idle" /\ t.from = n /\ Same(t.tasks, s2)
        /\ t.i \in 1..s2.size + 1
        /\ t.pc # "refuse" => t.i <= s2.size
        /\ t.pc = "load" => t.i < s2.size
        /\ Len(c) = Sent(s2) + 1 - t.i
        /\ \A k \in 1..Len(c) : About(s2, c[k], t.i - 1 + k)
    BY <1>1, <1>3, <1>6, SameTasks DEF During
  <2>3. Given(t) \in Int
    BY DEF Given, Loads
  <2>4. Len(Tail(b)) = Given(t) - Read(s2)
    BY <1>1, <1>3, <1>4, <1>6, <2>3 DEF During
  <2>5. \A k \in 1..Len(Tail(b)) : Tail(b)[k] <=> ~(Refused(t) /\ k = Len(Tail(b)))
    BY <1>4, <1>6, <2>1 DEF During
  <2>6. b[1] <=> ~(Refused(t) /\ Len(b) = 1)
    BY <1>4, <1>6 DEF During
  <2>7. Len(b) = 1 <=> Tail(b) = <<>>
    <3>1. Tail(b) \in Seq(BOOLEAN) /\ Len(Tail(b)) = Len(b) - 1 /\ Len(b) \in Nat
      BY <1>4
    <3>2. Tail(b) = <<>> <=> Len(Tail(b)) = 0
      BY <3>1, LenZero
    <3> QED
      BY <3>1, <3>2
  <2>8. s2.pc = "last" <=> ~b[1]
    OBVIOUS
  <2>9. s2.pc = "last" /\ s2.i <= s2.size <=> Refused(t) /\ Tail(b) = <<>>
    <3>1. s.pc # "last" /\ ~(Refused(t) /\ b = <<>>)
      BY <1>6 DEF During
    <3>2. CASE b[1]
      BY <2>1, <2>6, <2>7, <2>8, <3>2
    <3>3. CASE ~b[1]
      BY <1>1, <2>1, <2>6, <2>7, <2>8, <3>3
    <3> QED
      BY <3>2, <3>3
  <2>10. During(s2, t, c, Tail(b), n)
    BY <2>2, <2>4, <2>5, <2>9 DEF During
  <2> QED
    BY <1>2, <2>10 DEF Talks
<1>7. CASE After(s, t, c, b)
  <2>1. Len(b) = 2 /\ ~b[1] /\ t = IdleDst /\ c = <<>>
    BY <1>1, <1>7 DEF After
  <2>2. After(s2, t, c, Tail(b))
    BY <1>4, <2>1 DEF After
  <2> QED
    BY <1>2, <2>2 DEF Talks
<1> QED
  BY <1>2, <1>5, <1>6, <1>7 DEF Talks

(* A task is sent off: the next, or the one that was marked.               *)
LEMMA SendTalks ==
  ASSUME NEW s \in SrcCalls, NEW s2 \in SrcCalls, NEW t \in Loads, NEW c \in Seq(Messages),
         NEW b \in Seq(BOOLEAN), NEW n, SameRound(s2, s), Counted(s), NEW m \in Messages,
         Talks(s, t, c, b, n), About(s, m, s.i), s.dest # None,
         \/ /\ s.pc = "mark" \/ (s.pc = "task" /\ s.i = 1)
            /\ s2.i = s.i + 1 /\ s2.pc = IF s.i = s.size THEN "last" ELSE "task"
         \/ s.pc = "send" /\ s2.pc = "sent" /\ s2.i = s.i
  PROVE  Counted(s2) /\ Talks(s2, t, Append(c, m), b, n)
<1>1. /\ s.size \in Nat /\ s.i \in Nat /\ s.i <= s.size /\ s.i >= 1 /\ s2.size = s.size
      /\ s.pc = "mark" => s.i > 1
      /\ s2.i \in Nat
  BY SrcIs DEF Counted, SameRound
<1>2. Counted(s2)
  BY <1>1, SrcIs DEF Counted, SameRound
<1>3. /\ Sent(s) = s.i - 1 /\ Sent(s2) = s.i /\ Read(s2) = Read(s) /\ Read(s) \in Nat
      /\ s2.pc = "last" => s2.i > s2.size
      /\ s.pc # "last" /\ s2.pc # "idle"
  <2>1. CASE s.pc = "send" /\ s2.pc = "sent" /\ s2.i = s.i
    BY <1>1, <2>1 DEF Sent, Read
  <2>2. ASSUME s.pc = "mark" \/ (s.pc = "task" /\ s.i = 1), s2.i = s.i + 1, s.i = s.size, s2.pc = "last"
        PROVE  Sent(s) = s.i - 1 /\ Sent(s2) = s.i /\ Read(s2) = Read(s) /\ Read(s) \in Nat
               /\ (s2.pc = "last" => s2.i > s2.size) /\ s.pc # "last" /\ s2.pc # "idle"
    BY <1>1, <2>2 DEF Sent, Read
  <2>3. ASSUME s.pc = "mark" \/ (s.pc = "task" /\ s.i = 1), s2.i = s.i + 1, s.i # s.size, s2.pc = "task"
        PROVE  Sent(s) = s.i - 1 /\ Sent(s2) = s.i /\ Read(s2) = Read(s) /\ Read(s) \in Nat
               /\ (s2.pc = "last" => s2.i > s2.size) /\ s.pc # "last" /\ s2.pc # "idle"
    BY <1>1, <2>3 DEF Sent, Read
  <2> QED
    BY <2>1, <2>2, <2>3
<1>4. /\ Append(c, m) \in Seq(Messages) /\ Len(Append(c, m)) = Len(c) + 1 /\ Len(c) \in Nat
      /\ \A k \in 1..Len(c) : Append(c, m)[k] = c[k]
      /\ Append(c, m)[Len(c) + 1] = m
  BY SeqAppend
<1> DEFINE cc == Append(c, m)
<1> HIDE DEF cc
<1>5. CASE Before(s, t, c, b)
  <2>1. /\ Len(c) = s.i /\ cc[1] = c[1]
    BY <1>1, <1>3, <1>4, <1>5 DEF Before, cc
  <2>2. \A k \in 1..s.i : About(s2, cc[k + 1], k)
    <3> TAKE k \in 1..s.i
    <3>1. CASE k = s.i
      BY <1>4, <2>1, <3>1, SameTasks DEF cc
    <3>2. CASE k # s.i
      <4>1. k \in 1..Sent(s) /\ k + 1 \in 1..Len(c)
        BY <1>1, <1>3, <2>1, <3>2
      <4> QED
        BY <1>4, <1>5, <4>1, SameTasks DEF cc, Before
    <3> QED
      BY <3>1, <3>2
  <2>3. \E ts \in Seq(Proclets) : cc[1] = Listing(ts) /\ Same(ts, s2)
    BY <1>5, <2>1, SameTasks DEF Before
  <2>4. Before(s2, t, cc, b)
    BY <1>1, <1>3, <1>4, <1>5, <2>1, <2>2, <2>3 DEF Before, cc
  <2> QED
    BY <1>2, <2>4 DEF Talks, cc
<1>6. CASE During(s, t, c, b, n)
  <2>1. /\ Len(c) = s.i - t.i /\ t.i \in Nat
    BY <1>1, <1>3, <1>6 DEF During, Loads
  <2>2. \A k \in 1..Len(cc) : About(s2, cc[k], t.i - 1 + k)
    <3> TAKE k \in 1..Len(cc)
    <3>1. CASE k = Len(c) + 1
      <4>1. t.i - 1 + k = s.i
        BY <1>1, <1>4, <2>1, <3>1
      <4> QED
        BY <1>4, <3>1, <4>1, SameTasks DEF cc
    <3>2. CASE k # Len(c) + 1
      <4>1. k \in 1..Len(c)
        BY <1>4, <3>2 DEF cc
      <4> QED
        BY <1>4, <1>6, <4>1, SameTasks DEF cc, During
    <3> QED
      BY <3>1, <3>2
  <2>3. Len(cc) = Sent(s2) + 1 - t.i
    BY <1>1, <1>3, <1>4, <2>1 DEF cc
  <2>4. Len(b) = Given(t) - Read(s2)
    BY <1>3, <1>6 DEF During
  <2>5. s2.pc = "last" /\ s2.i <= s2.size <=> Refused(t) /\ b = <<>>
    BY <1>1, <1>3, <1>6 DEF During
  <2>6. During(s2, t, cc, b, n)
    BY <1>1, <1>6, <2>2, <2>3, <2>4, <2>5, SameTasks DEF During
  <2> QED
    BY <1>2, <2>6 DEF Talks, cc
<1>7. ~After(s, t, c, b)
  BY <1>1 DEF After
<1> QED
  BY <1>5, <1>6, <1>7 DEF Talks

(* The marked task's turn, and the end of the task that was sent.          *)
LEMMA StayTalks ==
  ASSUME NEW s \in SrcCalls, NEW s2 \in SrcCalls, NEW t \in Loads, NEW c \in Seq(Messages),
         NEW b \in Seq(BOOLEAN), NEW n, SameRound(s2, s), Counted(s),
         Talks(s, t, c, b, n), s.dest # None,
         \/ (s.pc = "mark" \/ (s.pc = "task" /\ s.i = 1)) /\ s2.pc = "send" /\ s2.i = s.i
         \/ /\ s.pc = "sent" /\ s2.i = s.i + 1
            /\ s2.pc = IF s.i = s.size THEN "last" ELSE "task"
  PROVE  Counted(s2) /\ Talks(s2, t, c, b, n)
<1>1. /\ s.size \in Nat /\ s.i \in Nat /\ s.i <= s.size /\ s.i >= 1 /\ s2.size = s.size
      /\ s.pc = "mark" => s.i > 1
      /\ s2.i \in Nat
  BY SrcIs DEF Counted, SameRound
<1>2. Counted(s2)
  BY <1>1, SrcIs DEF Counted, SameRound
<1>3. /\ Sent(s2) = Sent(s) /\ Read(s2) = Read(s)
      /\ s2.pc = "last" => s2.i > s2.size
      /\ s.pc # "last"
  BY <1>1 DEF Sent, Read
<1>4. CASE Before(s, t, c, b)
  <2>1. Before(s2, t, c, b)
    BY <1>3, <1>4, SameTasks DEF Before
  <2> QED
    BY <1>2, <2>1 DEF Talks
<1>5. CASE During(s, t, c, b, n)
  <2>1. s2.pc = "last" /\ s2.i <= s2.size <=> Refused(t) /\ b = <<>>
    BY <1>1, <1>3, <1>5 DEF During
  <2>2. During(s2, t, c, b, n)
    BY <1>1, <1>3, <1>5, <2>1, SameTasks DEF During
  <2> QED
    BY <1>2, <2>2 DEF Talks
<1>6. CASE After(s, t, c, b)
  <2>1. After(s2, t, c, b)
    BY <1>1, <1>6 DEF After
  <2> QED
    BY <1>2, <2>1 DEF Talks
<1> QED
  BY <1>4, <1>5, <1>6 DEF Talks

(* The approval that is read at the end is the one that ends the load.     *)
LEMMA EndTalks ==
  ASSUME NEW s \in SrcCalls, NEW t \in Loads, NEW c \in Seq(Messages),
         NEW b \in Seq(BOOLEAN), NEW n, Counted(s), s.dest # None,
         Talks(s, t, c, b, n), s.pc = "last", b # <<>>
  PROVE  t = IdleDst /\ c = <<>> /\ Tail(b) = <<>>
<1>1. /\ s.size \in Nat /\ s.i \in Nat /\ s.size >= 1
      /\ s.i <= s.size + 1 /\ s.i >= 1
  BY SrcIs DEF Counted, SameRound
<1>2. ~Before(s, t, c, b)
  BY DEF Before
<1>3. ~During(s, t, c, b, n)
  <2> SUFFICES ASSUME During(s, t, c, b, n) PROVE FALSE
    OBVIOUS
  <2>1. s.i = s.size + 1 /\ Sent(s) = s.size /\ Read(s) = s.size - 1
    BY <1>1 DEF During, Sent, Read
  <2>2. /\ t.i \in Nat /\ t.i >= 1 /\ t.i <= s.size + 1 /\ Len(t.tasks) = s.size
    BY DEF During, Same, Loads
  <2>3. Given(t) >= s.size
    <3>1. Len(b) \in Nat /\ Len(b) # 0
      OBVIOUS
    <3>2. Given(t) \in Int
      BY DEF Given, Loads
    <3> QED
      BY <1>1, <2>1, <3>1, <3>2 DEF During
  <2>4. /\ t.pc # "refuse" => t.i <= s.size
        /\ t.pc = "load" => t.i < s.size
    BY DEF During
  <2> QED
    BY <1>1, <2>1, <2>2, <2>3, <2>4 DEF Given, Refused
<1>4. After(s, t, c, b)
  BY <1>2, <1>3 DEF Talks
<1>5. Len(b) = 1 /\ t = IdleDst /\ c = <<>>
  BY <1>4 DEF After
<1>6. Tail(b) = <<>>
  <2>1. Len(Tail(b)) = 0 /\ Tail(b) \in Seq(BOOLEAN)
    BY <1>5, SeqTail
  <2> QED
    BY <2>1, EmptySeq
<1> QED
  BY <1>5, <1>6

LEMMA LoadIs ==
  ASSUME NEW t \in Loads
  PROVE  /\ t.i \in Nat /\ t.tasks \in Seq(Proclets) /\ t.from \in Nodes \cup {None}
         /\ t.pc \in {"idle", "approve", "load", "loadlast", "refuse"}
         /\ Len(t.tasks) \in Nat
  BY DEF Loads

(* While a load runs.                                                      *)
LEMMA Running ==
  ASSUME NEW s \in SrcCalls, NEW t \in Loads, NEW c \in Seq(Messages),
         NEW b \in Seq(BOOLEAN), NEW n, Counted(s), s.dest # None,
         Talks(s, t, c, b, n), t.pc # "idle"
  PROVE  /\ During(s, t, c, b, n)
         /\ s.size \in Nat /\ s.i \in Nat /\ s.i >= 1 /\ s.i <= s.size + 1 /\ s.size >= 1
         /\ s.pc # "last" => s.i <= s.size
         /\ Len(t.tasks) = s.size /\ t.i \in Nat /\ t.i >= 1 /\ t.i <= s.size + 1
         /\ Sent(s) \in Nat /\ Read(s) \in Nat /\ Len(c) \in Nat /\ Len(b) \in Nat
         /\ s.pc \in {"task", "mark", "send", "sent", "last"}
<1>1. During(s, t, c, b, n)
  BY DEF Talks, Before, After, IdleDst
<1>2. /\ s.size \in Nat /\ s.i \in Nat /\ s.i >= 1 /\ s.i <= s.size + 1 /\ s.size >= 1
      /\ s.pc \in {"task", "mark", "send", "sent", "last"}
      /\ s.pc # "last" => s.i <= s.size
  BY SrcIs DEF Counted
<1>3. Len(t.tasks) = s.size /\ t.i \in Nat /\ t.i >= 1 /\ t.i <= s.size + 1
  BY <1>1, <1>2, LoadIs DEF During, Same
<1>4. Sent(s) \in Nat /\ Read(s) \in Nat
  BY <1>2 DEF Sent, Read
<1> QED
  BY <1>1, <1>2, <1>3, <1>4, LenZero

LEMMA LoadStartTalks ==
  ASSUME NEW s \in SrcCalls, NEW t \in Loads, NEW t2 \in Loads, NEW c \in Seq(Messages),
         NEW b \in Seq(BOOLEAN), NEW n, Counted(s), s.dest # None,
         Talks(s, t, c, b, n), t.pc = "idle", c # <<>>,
         t2 = [pc |-> "approve", from |-> n, tasks |-> Head(c).tasks, i |-> 1]
  PROVE  /\ Talks(s, t2, Tail(c), b, n)
         /\ Head(c).tasks \in Seq(Proclets) /\ Same(Head(c).tasks, s)
<1>1. Before(s, t, c, b)
  BY DEF Talks, During, After
<1>2. PICK ts \in Seq(Proclets) : c[1] = Listing(ts) /\ Same(ts, s)
  BY <1>1 DEF Before
<1>3. Head(c).tasks = ts
  BY <1>2, SeqTail DEF Listing
<1>4. /\ t2.pc = "approve" /\ t2.from = n /\ t2.tasks = ts /\ t2.i = 1
  BY <1>3
<1>5. /\ s.size \in Nat /\ s.i \in Nat /\ s.i >= 1 /\ s.i <= s.size + 1 /\ s.size >= 1
      /\ Sent(s) \in Nat
  BY SrcIs DEF Counted, Sent
<1>6. Len(Tail(c)) = Sent(s) /\ \A k \in 1..Sent(s) : About(s, Tail(c)[k], k)
  BY <1>1, <1>5, SeqTail DEF Before
<1>7. b = <<>> /\ Len(b) = 0 /\ Read(s) = 0 /\ (s.pc = "last" => s.i > s.size)
  BY <1>1, EmptySeq DEF Before
<1>8. Given(t2) = 0 /\ ~Refused(t2)
  BY <1>4 DEF Given, Refused
<1>9. \A k \in 1..Len(Tail(c)) : About(s, Tail(c)[k], t2.i - 1 + k)
  <2> TAKE k \in 1..Len(Tail(c))
  <2>1. t2.i - 1 + k = k /\ k \in 1..Sent(s)
    BY <1>4, <1>6
  <2> QED
    BY <1>6, <2>1
<1>10. During(s, t2, Tail(c), b, n)
  BY <1>2, <1>4, <1>5, <1>6, <1>7, <1>8, <1>9 DEF During
<1> QED
  BY <1>2, <1>3, <1>10 DEF Talks

SameLoad(t2, t) == t2.tasks = t.tasks /\ t2.from = t.from

(* An approval or a refusal of the next task, or none for the last one.    *)
LEMMA ApproveTalks ==
  ASSUME NEW s \in SrcCalls, NEW t \in Loads, NEW t2 \in Loads, NEW c \in Seq(Messages),
         NEW b \in Seq(BOOLEAN), NEW n, Counted(s), s.dest # None,
         Talks(s, t, c, b, n), t.pc = "approve", SameLoad(t2, t), t2.i = t.i, NEW b2 \in Seq(BOOLEAN),
         \/ t.i # Len(t.tasks) /\ b2 = Append(b, TRUE) /\ t2.pc = "load"
         \/ t.i # Len(t.tasks) /\ b2 = Append(b, FALSE) /\ t2.pc = "loadlast"
         \/ t.i = Len(t.tasks) /\ b2 = b /\ t2.pc = "loadlast"
  PROVE  Talks(s, t2, c, b2, n)
<1>1. /\ During(s, t, c, b, n)
      /\ s.size \in Nat /\ Len(t.tasks) = s.size /\ t.i \in Nat /\ t.i >= 1
      /\ Read(s) \in Nat /\ Len(b) \in Nat
  BY Running
<1>2. t.i <= s.size /\ t2.tasks = t.tasks /\ t2.from = t.from
  BY <1>1 DEF During, SameLoad
<1>3. ~Refused(t) /\ Given(t) = t.i - 1
  BY DEF Given, Refused
<1>4. /\ \A k \in 1..Len(b) : b[k] = TRUE
      /\ Len(b) = t.i - 1 - Read(s)
      /\ ~(s.pc = "last" /\ s.i <= s.size)
  BY <1>1, <1>3 DEF During
<1>5. /\ t2.pc # "idle" /\ t2.from = n /\ Same(t2.tasks, s)
      /\ t2.i \in 1..s.size + 1
      /\ t2.pc # "refuse" => t2.i <= s.size
      /\ t2.pc = "load" => t2.i < s.size
      /\ Len(c) = Sent(s) + 1 - t2.i
      /\ \A k \in 1..Len(c) : About(s, c[k], t2.i - 1 + k)
  <2>1. t2.pc \in {"load", "loadlast"} /\ (t2.pc = "load" => t.i # Len(t.tasks)) /\ t2.i = t.i
    OBVIOUS
  <2>2. /\ t.from = n /\ Same(t.tasks, s) /\ t.i \in 1..s.size + 1
        /\ Len(c) = Sent(s) + 1 - t.i
        /\ \A k \in 1..Len(c) : About(s, c[k], t.i - 1 + k)
    BY <1>1 DEF During
  <2> QED
    BY <1>1, <1>2, <2>1, <2>2
<1>6. ASSUME t.i # Len(t.tasks), NEW yes \in BOOLEAN, b2 = Append(b, yes),
             t2.pc = IF yes THEN "load" ELSE "loadlast"
      PROVE  During(s, t2, c, b2, n)
  <2>1. /\ Len(b2) = Len(b) + 1 /\ \A k \in 1..Len(b) : b2[k] = b[k]
        /\ b2[Len(b) + 1] = yes
    BY <1>6, SeqAppend
  <2>2. Refused(t2) <=> ~yes
    BY <1>1, <1>2, <1>6 DEF Refused
  <2>3. Given(t2) = t.i
    BY <1>6, <2>2 DEF Given
  <2>4. \A k \in 1..Len(b2) : b2[k] <=> ~(Refused(t2) /\ k = Len(b2))
    <3> TAKE k \in 1..Len(b2)
    <3>1. CASE k = Len(b) + 1
      BY <2>1, <2>2, <3>1
    <3>2. CASE k # Len(b) + 1
      <4>1. k \in 1..Len(b)
        BY <1>1, <2>1, <3>2
      <4>2. b2[k] = TRUE
        BY <1>4, <2>1, <4>1
      <4> QED
        BY <2>1, <3>2, <4>2
    <3> QED
      BY <3>1, <3>2
  <2>5. Len(b2) = Given(t2) - Read(s) /\ b2 # <<>>
    BY <1>1, <1>4, <2>1, <2>3, EmptySeq
  <2> QED
    BY <1>4, <1>5, <2>4, <2>5 DEF During
<1>7. ASSUME t.i = Len(t.tasks), b2 = b, t2.pc = "loadlast"
      PROVE  During(s, t2, c, b2, n)
  <2>1. ~Refused(t2) /\ Given(t2) = t.i - 1
    BY <1>1, <1>2, <1>7 DEF Refused, Given
  <2> QED
    BY <1>4, <1>5, <1>7, <2>1 DEF During
<1>8. During(s, t2, c, b2, n)
  BY <1>6, <1>7
<1> QED
  BY <1>8 DEF Talks

(* A task is loaded, or was skipped.                                       *)
LEMMA LoadedTalks ==
  ASSUME NEW s \in SrcCalls, NEW t \in Loads, NEW t2 \in Loads, NEW c \in Seq(Messages),
         NEW b \in Seq(BOOLEAN), NEW n, Counted(s), s.dest # None,
         Talks(s, t, c, b, n), SameLoad(t2, t), t2.i = t.i + 1, c # <<>>,
         \/ t.pc = "load" /\ t2.pc = "approve"
         \/ t.pc = "loadlast" /\ t2.pc = "refuse"
  PROVE  /\ Talks(s, t2, Tail(c), b, n)
         /\ About(s, Head(c), t.i) /\ TaskOf(s, t.i) = t.tasks[t.i]
         /\ t.i \in 1..Sent(s) /\ t.i \in 1..Len(t.tasks)
<1>1. /\ During(s, t, c, b, n)
      /\ s.size \in Nat /\ Len(t.tasks) = s.size /\ t.i \in Nat /\ t.i >= 1
      /\ Read(s) \in Nat /\ Len(b) \in Nat /\ Sent(s) \in Nat
  BY Running
<1>2. t.i <= s.size /\ t2.tasks = t.tasks /\ t2.from = t.from
  BY <1>1 DEF During, SameLoad
<1>3. /\ Len(c) \in Nat \ {0} /\ Head(c) = c[1] /\ Len(Tail(c)) = Len(c) - 1
      /\ \A k \in 1..Len(c) - 1 : Tail(c)[k] = c[k + 1]
  BY SeqTail
<1>4. Len(c) = Sent(s) + 1 - t.i /\ \A k \in 1..Len(c) : About(s, c[k], t.i - 1 + k)
  BY <1>1 DEF During
<1>5. t.i \in 1..Sent(s) /\ t.i \in 1..Len(t.tasks)
  BY <1>1, <1>2, <1>3, <1>4
<1>6. About(s, Head(c), t.i)
  <2>1. 1 \in 1..Len(c) /\ t.i - 1 + 1 = t.i
    BY <1>1, <1>3
  <2>2. About(s, c[1], t.i - 1 + 1)
    BY <1>4, <2>1
  <2> QED
    BY <1>3, <2>1, <2>2
<1>7. TaskOf(s, t.i) = t.tasks[t.i]
  BY <1>1, <1>2 DEF During, Same
<1>8. \A k \in 1..Len(Tail(c)) : About(s, Tail(c)[k], t2.i - 1 + k)
  <2> TAKE k \in 1..Len(Tail(c))
  <2>1. k + 1 \in 1..Len(c) /\ Tail(c)[k] = c[k + 1] /\ t.i - 1 + (k + 1) = t2.i - 1 + k
    BY <1>1, <1>3
  <2> QED
    BY <1>4, <2>1
<1>9. Len(Tail(c)) = Sent(s) + 1 - t2.i
  BY <1>1, <1>3, <1>4
<1>10. (Refused(t2) <=> Refused(t)) /\ Given(t2) = Given(t)
  <2>1. CASE t.pc = "load" /\ t2.pc = "approve"
    BY <1>1, <1>2, <2>1 DEF Refused, Given
  <2>2. CASE t.pc = "loadlast" /\ t2.pc = "refuse"
    <3>1. Refused(t2) <=> Refused(t)
      BY <1>1, <1>2, <2>2 DEF Refused
    <3> QED
      BY <1>1, <1>2, <2>2, <3>1 DEF Given
  <2> QED
    BY <2>1, <2>2
<1>11. /\ Len(b) = Given(t2) - Read(s)
       /\ \A k \in 1..Len(b) : b[k] <=> ~(Refused(t2) /\ k = Len(b))
       /\ s.pc = "last" /\ s.i <= s.size <=> Refused(t2) /\ b = <<>>
  BY <1>1, <1>10 DEF During
<1>12. t.pc = "load" => t.i < s.size
  BY <1>1 DEF During
<1>13. /\ t2.pc # "idle" /\ t2.from = n /\ Same(t2.tasks, s)
       /\ t2.i \in 1..s.size + 1
       /\ t2.pc # "refuse" => t2.i <= s.size
       /\ t2.pc = "load" => t2.i < s.size
  <2>1. /\ t2.i = t.i + 1 /\ t2.pc \in {"approve", "refuse"}
        /\ t2.pc = "approve" => t.pc = "load"
    OBVIOUS
  <2>2. t.from = n /\ Same(t.tasks, s)
    BY <1>1 DEF During
  <2> QED
    BY <1>1, <1>2, <1>12, <2>1, <2>2
<1>14. During(s, t2, Tail(c), b, n)
  BY <1>8, <1>9, <1>11, <1>13 DEF During
<1> QED
  BY <1>5, <1>6, <1>7, <1>14 DEF Talks

(* The load ends.                                                          *)
LEMMA RefuseTalks ==
  ASSUME NEW s \in SrcCalls, NEW t \in Loads, NEW c \in Seq(Messages),
         NEW b \in Seq(BOOLEAN), NEW n, Counted(s), s.dest # None,
         Talks(s, t, c, b, n), t.pc = "refuse"
  PROVE  Talks(s, IdleDst, c, Append(b, TRUE), n)
<1>1. /\ During(s, t, c, b, n)
      /\ s.size \in Nat /\ s.i \in Nat /\ s.i >= 1 /\ s.i <= s.size + 1 /\ s.size >= 1
      /\ Len(t.tasks) = s.size /\ t.i \in Nat /\ t.i >= 1 /\ t.i <= s.size + 1
      /\ Sent(s) \in Nat /\ Read(s) \in Nat /\ Len(c) \in Nat /\ Len(b) \in Nat
      /\ s.pc \in {"task", "mark", "send", "sent", "last"}
      /\ s.pc # "last" => s.i <= s.size
  BY Running
<1>2. /\ Len(c) = Sent(s) + 1 - t.i /\ Len(b) = Given(t) - Read(s)
      /\ \A k \in 1..Len(b) : b[k] <=> ~(Refused(t) /\ k = Len(b))
      /\ s.pc = "last" /\ s.i <= s.size <=> Refused(t) /\ b = <<>>
  BY <1>1 DEF During
<1>3. /\ Refused(t) <=> t.i <= s.size
      /\ Given(t) = IF t.i <= s.size THEN t.i - 1 ELSE t.i - 2
  BY <1>1 DEF Refused, Given
<1>4. b = <<>> <=> Len(b) = 0
  BY LenZero
<1>5. /\ Len(Append(b, TRUE)) = Len(b) + 1
      /\ Append(b, TRUE)[Len(b) + 1] = TRUE
      /\ \A k \in 1..Len(b) : Append(b, TRUE)[k] = b[k]
  BY SeqAppend
<1>6. CASE ~Refused(t)
  <2>1. Sent(s) >= s.size /\ t.i = s.size + 1
    <3>1. ~(t.i <= s.size)
      BY <1>3, <1>6
    <3>2. Len(c) = Sent(s) + 1 - t.i
      BY <1>2
    <3> QED
      BY <1>1, <3>1, <3>2
  <2>2. (s.pc = "last" /\ s.i = s.size + 1) \/ (s.pc = "sent" /\ s.i = s.size)
    BY <1>1, <1>2, <1>6, <2>1 DEF Sent
  <2>3. Sent(s) = s.size /\ Read(s) = s.size - 1
    BY <1>1, <2>2 DEF Sent, Read
  <2>4. Len(c) = 0 /\ Len(b) = 0
    BY <1>1, <1>2, <1>3, <1>6, <2>1, <2>3
  <2> QED
    BY <1>5, <2>2, <2>4, LenZero DEF Talks, After
<1>7. CASE Refused(t) /\ b = <<>>
  <2>1. s.pc = "last" /\ s.i <= s.size
    BY <1>2, <1>7
  <2>2. Sent(s) = s.i - 1 /\ Read(s) = s.i - 1
    BY <1>1, <2>1 DEF Sent, Read
  <2>3. Len(c) = 0 /\ Len(b) = 0
    BY <1>1, <1>2, <1>3, <1>4, <1>7, <2>2
  <2> QED
    BY <1>5, <2>1, <2>3, LenZero DEF Talks, After
<1>8. CASE Refused(t) /\ b # <<>>
  <2>1. Read(s) <= t.i - 2 /\ Sent(s) >= t.i - 1 /\ t.i <= s.size
    BY <1>1, <1>2, <1>3, <1>4, <1>8
  <2>2. (s.pc = "task" /\ s.i > 1 /\ s.i = t.i) \/ (s.pc = "sent" /\ s.i = t.i - 1)
    <3>1. ~(s.pc = "last" /\ s.i <= s.size)
      BY <1>2, <1>8
    <3>2. CASE s.pc = "task"
      <4>1. Sent(s) = s.i - 1 /\ Read(s) = IF s.i = 1 THEN 0 ELSE s.i - 2
        BY <3>2 DEF Sent, Read
      <4> QED
        BY <1>1, <2>1, <3>2, <4>1
    <3>3. CASE s.pc = "sent"
      <4>1. Sent(s) = s.i /\ Read(s) = s.i - 1
        BY <3>3 DEF Sent, Read
      <4> QED
        BY <1>1, <2>1, <3>3, <4>1
    <3>4. CASE s.pc \in {"mark", "send"}
      <4>1. Sent(s) = s.i - 1 /\ Read(s) = s.i - 1
        BY <3>4 DEF Sent, Read
      <4> QED
        BY <1>1, <2>1, <4>1
    <3>5. CASE s.pc = "last"
      <4>1. s.i = s.size + 1
        BY <1>1, <3>1, <3>5
      <4>2. Read(s) = s.i - 2
        BY <1>1, <3>5, <4>1 DEF Read
      <4> QED
        BY <1>1, <2>1, <4>1, <4>2
    <3> QED
      BY <1>1, <3>2, <3>3, <3>4, <3>5
  <2>3. Sent(s) = t.i - 1 /\ Read(s) = t.i - 2
    BY <1>1, <2>2 DEF Sent, Read
  <2>4. Len(c) = 0 /\ Len(b) = 1
    BY <1>1, <1>2, <1>3, <1>8, <2>3
  <2>5. ~b[1] /\ Append(b, TRUE)[1] = b[1]
    <3>1. 1 \in 1..Len(b) /\ 1 = Len(b)
      BY <2>4
    <3>2. (b[1] <=> ~(Refused(t) /\ 1 = Len(b))) /\ Append(b, TRUE)[1] = b[1]
      BY <1>2, <1>5, <3>1
    <3> QED
      BY <1>8, <3>1, <3>2
  <2>7. s.pc = "sent" => s.i < s.size
    BY <1>1, <2>1, <2>2
  <2> QED
    <3>1. c = <<>> /\ Len(Append(b, TRUE)) = 2
      BY <1>5, <2>4, LenZero
    <3>2. ~Append(b, TRUE)[1]
      BY <2>5
    <3>3. (s.pc = "task" /\ s.i > 1) \/ (s.pc = "sent" /\ s.i < s.size)
      BY <2>2, <2>7
    <3> QED
      BY <3>1, <3>2, <3>3 DEF Talks, After
<1> QED
  BY <1>6, <1>7, <1>8

---------------------------------------------------------------------------
(* The rounds of a state, and of the next.                                 *)

Typed ==
  /\ DOMAIN src = Nodes /\ DOMAIN dst = Nodes
  /\ DOMAIN chan = Nodes \X Nodes /\ DOMAIN back = Nodes \X Nodes
  /\ \A n \in Nodes : src[n] \in SrcCalls /\ dst[n] \in Loads
  /\ \A n, d \in Nodes :
       chan[<<n, d>>] \in Seq(Messages) /\ back[<<n, d>>] \in Seq(BOOLEAN)

LEMMA Types == TypeInv => Typed
  BY DEF TypeInv, Typed

(* Only one round changes.                                                 *)
OneRound(n, d) ==
  /\ TypeInv' /\ acquired' = acquired
  /\ \A m \in Nodes : m # n => src'[m] = src[m]
  /\ \A e \in Nodes : e # d => dst'[e] = dst[e]
  /\ \A m, e \in Nodes : m # n \/ e # d =>
       chan'[<<m, e>>] = chan[<<m, e>>] /\ back'[<<m, e>>] = back[<<m, e>>]

LEMMA RoundKept ==
  ASSUME RoundInv, NEW n \in Nodes, NEW d \in Nodes, src[n].dest = d, OneRound(n, d),
         Counted(src'[n]), src'[n].dest = d,
         dst'[d].pc = "idle" => dst'[d] = IdleDst,
         dst'[d].pc # "idle" => dst'[d].from = n,
         Talks(src'[n], dst'[d], chan'[<<n, d>>], back'[<<n, d>>], n)
  PROVE  RoundInv'
<1>1. /\ d \in acquired /\ src[d].pc = "idle" /\ Talks(src[n], dst[d], chan[<<n, d>>], back[<<n, d>>], n)
      /\ \A m \in Nodes : src[m].dest = d => m = n
      /\ Counted(src[n]) /\ n \in acquired /\ n # d
  <2>1. src[n].pc # "idle" /\ None \notin Nodes
    BY ConstantsOK DEF RoundInv, Counted
  <2> QED
    BY <2>1 DEF RoundInv
<1>2. src'[d] = src[d]
  BY <1>1 DEF OneRound
<1>3. \A m \in Nodes : /\ Counted(src'[m]) /\ (src'[m].pc # "idle" => m \in acquired')
                       /\ src'[m].dest = src[m].dest
  <2> TAKE m \in Nodes
  <2>1. CASE m = n
    BY <1>1, <2>1 DEF OneRound
  <2>2. CASE m # n
    <3>1. src'[m] = src[m]
      BY <2>2 DEF OneRound
    <3> QED
      BY <3>1 DEF RoundInv, OneRound
  <2> QED
    BY <2>1, <2>2
<1>4. \A e \in Nodes : dst'[e].pc = "idle" => dst'[e] = IdleDst
  <2> TAKE e \in Nodes
  <2>1. CASE e = d
    BY <2>1
  <2>2. CASE e # d
    <3>1. dst'[e] = dst[e]
      BY <2>2 DEF OneRound
    <3> QED
      BY <3>1 DEF RoundInv
  <2> QED
    BY <2>1, <2>2
<1>5. \A m, e \in Nodes :
       src'[m].dest = e =>
         /\ e \in acquired' /\ src'[e].pc = "idle"
         /\ \A k \in Nodes : src'[k].dest = e => k = m
         /\ Talks(src'[m], dst'[e], chan'[<<m, e>>], back'[<<m, e>>], m)
  <2> SUFFICES ASSUME NEW m \in Nodes, NEW e \in Nodes, src'[m].dest = e
               PROVE  /\ e \in acquired' /\ src'[e].pc = "idle"
                      /\ \A k \in Nodes : src'[k].dest = e => k = m
                      /\ Talks(src'[m], dst'[e], chan'[<<m, e>>], back'[<<m, e>>], m)
    OBVIOUS
  <2>1. src[m].dest = e
    BY <1>3
  <2>2. /\ e \in acquired /\ src[e].pc = "idle"
        /\ \A k \in Nodes : src[k].dest = e => k = m
        /\ Talks(src[m], dst[e], chan[<<m, e>>], back[<<m, e>>], m)
    BY <2>1 DEF RoundInv
  <2>3. e \in acquired' /\ \A k \in Nodes : src'[k].dest = e => k = m
    BY <1>3, <2>2 DEF OneRound
  <2>4. CASE m = n
    <3>1. e = d
      BY <2>1, <2>4
    <3> QED
      BY <1>1, <1>2, <2>3, <2>4, <3>1
  <2>5. CASE m # n
    <3>1. e # d
      BY <1>1, <2>1, <2>5
    <3>2. e # n
      <4>1. src[n].pc # "idle"
        BY ConstantsOK, <1>1 DEF Counted
      <4> QED
        BY <2>2, <4>1
    <3> QED
      BY <2>2, <2>3, <2>5, <3>1, <3>2 DEF OneRound
  <2> QED
    BY <2>4, <2>5
<1>6. \A m, e \in Nodes : src'[m].dest # e => chan'[<<m, e>>] = <<>> /\ back'[<<m, e>>] = <<>>
  <2> SUFFICES ASSUME NEW m \in Nodes, NEW e \in Nodes, src'[m].dest # e
               PROVE  chan'[<<m, e>>] = <<>> /\ back'[<<m, e>>] = <<>>
    OBVIOUS
  <2>1. src[m].dest # e /\ (m # n \/ e # d)
    BY <1>3
  <2> QED
    BY <2>1 DEF RoundInv, OneRound
<1>7. \A e \in Nodes : dst'[e].pc # "idle" => dst'[e].from \in Nodes /\ src'[dst'[e].from].dest = e
  <2> SUFFICES ASSUME NEW e \in Nodes, dst'[e].pc # "idle"
               PROVE  dst'[e].from \in Nodes /\ src'[dst'[e].from].dest = e
    OBVIOUS
  <2>1. CASE e = d
    BY <2>1
  <2>2. CASE e # d
    <3>1. dst'[e] = dst[e]
      BY <2>2 DEF OneRound
    <3>2. dst[e].from \in Nodes /\ src[dst[e].from].dest = e
      BY <3>1 DEF RoundInv
    <3> QED
      BY <1>3, <3>1, <3>2
  <2> QED
    BY <2>1, <2>2
<1> QED
  BY <1>3, <1>4, <1>5, <1>6, <1>7 DEF RoundInv, OneRound

(* A call of migrate between two rounds.                                   *)
LEMMA CallKept ==
  ASSUME RoundInv, NEW n \in Nodes, src[n].dest = None, src'[n].dest = None,
         src' = [src EXCEPT ![n] = src'[n]], src'[n] \in SrcCalls, Counted(src'[n]),
         UNCHANGED <<dst, links>>, \A m \in Nodes \ {n} : m \in acquired => m \in acquired',
         src'[n].pc # "idle" => n \in acquired',
         src[n].pc = "idle" => n \notin acquired
  PROVE  RoundInv'
<1>1. UNCHANGED dst /\ UNCHANGED chan /\ UNCHANGED back
  BY DEF links
<1>2. /\ \A m \in Nodes : m # n => src'[m] = src[m]
      /\ \A m \in Nodes : src'[m].dest = src[m].dest
  BY DEF RoundInv, TypeInv
<1>3. TypeInv'
  BY <1>1 DEF RoundInv, TypeInv
<1>4. \A m \in Nodes : Counted(src'[m]) /\ (src'[m].pc # "idle" => m \in acquired')
  BY <1>2 DEF RoundInv
<1>5. \A m, e \in Nodes :
       src'[m].dest = e =>
         /\ e \in acquired' /\ src'[e].pc = "idle"
         /\ \A k \in Nodes : src'[k].dest = e => k = m
         /\ Talks(src'[m], dst'[e], chan'[<<m, e>>], back'[<<m, e>>], m)
  <2> SUFFICES ASSUME NEW m \in Nodes, NEW e \in Nodes, src'[m].dest = e
               PROVE  /\ e \in acquired' /\ src'[e].pc = "idle"
                      /\ \A k \in Nodes : src'[k].dest = e => k = m
                      /\ Talks(src'[m], dst'[e], chan'[<<m, e>>], back'[<<m, e>>], m)
    OBVIOUS
  <2>1. src[m].dest = e /\ m # n
    BY <1>2, ConstantsOK
  <2>2. /\ e \in acquired /\ src[e].pc = "idle"
        /\ \A k \in Nodes : src[k].dest = e => k = m
        /\ Talks(src[m], dst[e], chan[<<m, e>>], back[<<m, e>>], m)
    BY <2>1 DEF RoundInv
  <2>3. e # n
    BY <2>2
  <2> QED
    BY <1>1, <1>2, <2>1, <2>2, <2>3
<1>6. \A m, e \in Nodes : src'[m].dest # e => chan'[<<m, e>>] = <<>> /\ back'[<<m, e>>] = <<>>
  BY <1>1, <1>2 DEF RoundInv
<1>7. \A e \in Nodes : dst'[e].pc # "idle" => dst'[e].from \in Nodes /\ src'[dst'[e].from].dest = e
  BY <1>1, <1>2 DEF RoundInv
<1>8. \A e \in Nodes : dst'[e].pc = "idle" => dst'[e] = IdleDst
  BY <1>1 DEF RoundInv
<1> QED
  BY <1>3, <1>4, <1>5, <1>6, <1>7, <1>8 DEF RoundInv

---------------------------------------------------------------------------
(* What the steps of the two sides do to their variables.                  *)

(* Of the source n, whose round is with d.                                 *)
SrcBecomes(n, i, pc) ==
  /\ src' = [src EXCEPT ![n] = src'[n]] /\ src'[n] \in SrcCalls
  /\ SameRound(src'[n], src[n]) /\ src'[n].i = i /\ src'[n].pc = pc
  /\ dst' = dst /\ acquired' = acquired

Puts(n, d, m) == chan' = [chan EXCEPT ![<<n, d>>] = Append(@, m)] /\ back' = back

LEMMA SrcFields ==
  ASSUME RoundInv, NEW n \in Nodes
  PROVE  /\ SrcApproval(n) =>
              /\ SrcBecomes(n, src[n].i, IF Head(back[<<n, src[n].dest>>]) THEN "mark" ELSE "last")
              /\ src[n].pc = "task" /\ src[n].i > 1
              /\ chan' = chan /\ back[<<n, src[n].dest>>] # <<>>
              /\ back' = [back EXCEPT ![<<n, src[n].dest>>] = Tail(@)]
         /\ SrcSkip(n) =>
              /\ SrcBecomes(n, src[n].i + 1, IF src[n].i = src[n].size THEN "last" ELSE "task")
              /\ src[n].pc = "mark" \/ (src[n].pc = "task" /\ src[n].i = 1)
              /\ Puts(n, src[n].dest, Skipping)
         /\ SrcMark(n) =>
              /\ SrcBecomes(n, src[n].i, "send") /\ chan' = chan /\ back' = back
              /\ src[n].pc = "mark" \/ (src[n].pc = "task" /\ src[n].i = 1)
         /\ SrcSend(n) =>
              /\ SrcBecomes(n, src[n].i, "sent") /\ src[n].pc = "send"
              /\ Puts(n, src[n].dest, Copying(TaskOf(src[n], src[n].i)))
         /\ SrcCleaning(n) =>
              /\ SrcBecomes(n, src[n].i + 1, IF src[n].i = src[n].size THEN "last" ELSE "task")
              /\ src[n].pc = "sent" /\ chan' = chan /\ back' = back
<1>1. /\ src[n] \in SrcCalls /\ DOMAIN src = Nodes /\ src[n].i \in Nat
  BY SrcIs DEF RoundInv, TypeInv
<1>2. /\ src[n].dest # None /\ src[n].pc = "task" => src[n].i >= 1
      /\ src[n].pc = "task" => src[n].dest # None
  BY DEF RoundInv, Counted
<1>3. ASSUME SrcApproval(n)
      PROVE  /\ SrcBecomes(n, src[n].i, IF Head(back[<<n, src[n].dest>>]) THEN "mark" ELSE "last")
             /\ src[n].pc = "task" /\ src[n].i > 1
             /\ chan' = chan /\ back[<<n, src[n].dest>>] # <<>>
             /\ back' = [back EXCEPT ![<<n, src[n].dest>>] = Tail(@)]
  <2> DEFINE pc == IF Head(back[<<n, src[n].dest>>]) THEN "mark" ELSE "last"
  <2>1. pc \in {"mark", "last"}
    OBVIOUS
  <2>2. src' = [src EXCEPT ![n] = [@ EXCEPT !.pc = pc]]
    BY <1>3 DEF SrcApproval
  <2> HIDE DEF pc
  <2>3. dst' = dst /\ acquired' = acquired
    BY <1>3 DEF SrcApproval
  <2>4. SrcBecomes(n, src[n].i, pc)
    BY <1>1, <2>1, <2>2, <2>3 DEF SrcBecomes, SameRound, SrcCalls
  <2> QED
    BY <1>3, <2>4 DEF SrcApproval, NeedsApproval, pc
<1>4. ASSUME AfterTask(n), dst' = dst, acquired' = acquired
      PROVE  SrcBecomes(n, src[n].i + 1, IF src[n].i = src[n].size THEN "last" ELSE "task")
  <2> DEFINE pc == IF src[n].i = src[n].size THEN "last" ELSE "task"
  <2>1. pc \in {"last", "task"}
    OBVIOUS
  <2>2. src' = [src EXCEPT ![n] = [@ EXCEPT !.i = src[n].i + 1, !.pc = pc]]
    BY <1>4 DEF AfterTask
  <2> HIDE DEF pc
  <2>3. src[n].i + 1 \in Nat
    BY <1>1
  <2>4. src'[n] \in SrcCalls /\ src'[n].i = src[n].i + 1 /\ src'[n].pc = pc
    <3>1. src'[n] = [src[n] EXCEPT !.i = src[n].i + 1, !.pc = pc]
      BY <1>1, <2>2
    <3>2. src'[n] \in SrcCalls
      BY <1>1, <2>1, <2>3, <3>1 DEF SrcCalls
    <3>3. src'[n].i = src[n].i + 1 /\ src'[n].pc = pc
      BY <1>1, <3>1 DEF SrcCalls
    <3> QED
      BY <3>2, <3>3
  <2>5. src' = [src EXCEPT ![n] = src'[n]] /\ SameRound(src'[n], src[n])
    BY <1>1, <2>2 DEF SrcCalls, SameRound
  <2>6. SrcBecomes(n, src[n].i + 1, pc)
    BY <1>4, <2>4, <2>5 DEF SrcBecomes
  <2> QED
    BY <2>6 DEF pc
<1>5. Approved(n) => src[n].pc = "mark" \/ (src[n].pc = "task" /\ src[n].i = 1)
  BY <1>1, <1>2 DEF Approved, NeedsApproval
<1>6. ASSUME SrcMark(n)
      PROVE  SrcBecomes(n, src[n].i, "send") /\ chan' = chan /\ back' = back
  BY <1>1, <1>6 DEF SrcMark, SrcBecomes, SameRound, SrcCalls, links
<1>7. ASSUME SrcSend(n)
      PROVE  /\ SrcBecomes(n, src[n].i, "sent") /\ src[n].pc = "send"
             /\ Puts(n, src[n].dest, Copying(TaskOf(src[n], src[n].i)))
  BY <1>1, <1>7 DEF SrcSend, SrcBecomes, SameRound, SrcCalls, Puts, Send, Task, TaskOf, Copying
<1>8. ASSUME SrcSkip(n)
      PROVE  /\ AfterTask(n) /\ dst' = dst /\ acquired' = acquired
             /\ Puts(n, src[n].dest, Skipping) /\ Approved(n)
  BY <1>8 DEF SrcSkip, Puts, Send, Skipping
<1>9. ASSUME SrcCleaning(n)
      PROVE  /\ AfterTask(n) /\ dst' = dst /\ acquired' = acquired
             /\ src[n].pc = "sent" /\ chan' = chan /\ back' = back
  BY <1>9 DEF SrcCleaning, links
<1>10. SrcMark(n) => Approved(n)
  BY DEF SrcMark
<1> QED
  BY <1>3, <1>4, <1>5, <1>6, <1>7, <1>8, <1>9, <1>10

LEMMA MessageIs ==
  /\ Skipping \in Messages
  /\ \A p \in Proclets : Copying(p) \in Messages
  /\ \A ts \in Seq(Proclets) : Listing(ts) \in Messages
  BY DEF Messages

LEMMA TaskIs ==
  ASSUME NEW s \in SrcCalls, Counted(s), s.dest # None, NEW k \in 1..s.size
  PROVE  s.it + k - 1 \in 1..Len(s.tasks) /\ TaskOf(s, k) \in Proclets
<1>1. s.it + k - 1 \in 1..Len(s.tasks)
  BY SrcIs DEF Counted
<1> QED
  BY <1>1, SrcIs DEF TaskOf

(* A step of the source within its round.                                  *)
SrcInner(n) == SrcApproval(n) \/ SrcSkip(n) \/ SrcMark(n) \/ SrcSend(n) \/ SrcCleaning(n)

LEMMA SrcKeepsRounds ==
  ASSUME RoundInv, NEW n \in Nodes, SrcInner(n)
  PROVE  RoundInv'
<1> DEFINE s == src[n]
           d == src[n].dest
           t == dst[d]
           c == chan[<<n, d>>]
           b == back[<<n, d>>]
           s2 == src'[n]
<1>1. \E i, pc : SrcBecomes(n, i, pc)
  BY SrcFields DEF SrcInner
<1>2. /\ s2 \in SrcCalls /\ SameRound(s2, s) /\ s2.dest = d /\ dst' = dst /\ acquired' = acquired
      /\ src' = [src EXCEPT ![n] = s2]
  BY <1>1 DEF SrcBecomes, SameRound
<1>3. s.pc \in {"task", "mark", "send", "sent"}
  BY SrcFields DEF SrcInner
<1>4. d \in Nodes /\ d # None
  BY <1>3, SrcIs DEF RoundInv, Counted, TypeInv
<1>5. Typed /\ Counted(s)
  BY Types DEF RoundInv
<1>6. s \in SrcCalls /\ t \in Loads /\ c \in Seq(Messages) /\ b \in Seq(BOOLEAN)
  BY <1>4, <1>5 DEF Typed
<1>7. Talks(s, t, c, b, n) /\ (t.pc = "idle" => t = IdleDst) /\ (t.pc # "idle" => t.from = n)
  <2>1. /\ Talks(s, t, c, b, n) /\ \A m \in Nodes : src[m].dest = d => m = n
    BY <1>4 DEF RoundInv
  <2>2. /\ t.pc = "idle" => t = IdleDst
        /\ t.pc # "idle" => t.from \in Nodes /\ src[t.from].dest = d
    BY <1>4 DEF RoundInv
  <2> QED
    BY <2>1, <2>2
<1>8. TaskOf(s, s.i) \in Proclets
  <2>1. s.i \in 1..s.size
    BY <1>3, <1>4, <1>5, <1>6, SrcIs DEF Counted
  <2> QED
    BY <1>4, <1>5, <1>6, <2>1, TaskIs
<1>9. \/ chan' = chan
      \/ \E m \in Messages : chan' = [chan EXCEPT ![<<n, d>>] = Append(@, m)]
  BY <1>8, SrcFields, MessageIs DEF SrcInner, Puts
<1>10. back' = back \/ (b # <<>> /\ back' = [back EXCEPT ![<<n, d>>] = Tail(@)])
  BY SrcFields DEF SrcInner, Puts
<1>11. Counted(s2) /\ Talks(s2, t, chan'[<<n, d>>], back'[<<n, d>>], n)
  <2>1. CASE SrcApproval(n)
    <3>1. /\ s.pc = "task" /\ s.i > 1 /\ b # <<>> /\ s2.i = s.i
          /\ s2.pc = IF Head(b) THEN "mark" ELSE "last"
          /\ chan' = chan /\ back' = [back EXCEPT ![<<n, d>>] = Tail(@)]
      BY <2>1, SrcFields DEF SrcBecomes
    <3>2. Head(b) = b[1]
      BY <1>6, <3>1, SeqTail
    <3>3. (b[1] /\ s2.pc = "mark") \/ (~b[1] /\ s2.pc = "last")
      BY <3>1, <3>2
    <3>4. Counted(s2) /\ Talks(s2, t, c, Tail(b), n)
      <4>1. s.pc = "task" /\ s.i > 1 /\ b # <<>> /\ s2.i = s.i
        BY <3>1
      <4> HIDE DEF s, s2, t, c, b
      <4> QED
        BY <1>2, <1>5, <1>6, <1>7, <3>3, <4>1, ApprovalTalks
    <3>5. back'[<<n, d>>] = Tail(b)
      BY <1>4, <1>5, <3>1 DEF Typed
    <3> QED
      BY <3>1, <3>4, <3>5
  <2>2. CASE SrcSkip(n)
    <3>1. /\ s.pc = "mark" \/ (s.pc = "task" /\ s.i = 1)
          /\ s2.i = s.i + 1
          /\ s2.pc = IF s.i = s.size THEN "last" ELSE "task"
          /\ chan' = [chan EXCEPT ![<<n, d>>] = Append(@, Skipping)] /\ back' = back
      BY <2>2, SrcFields DEF SrcBecomes, Puts
    <3>2. Counted(s2) /\ Talks(s2, t, Append(c, Skipping), b, n)
      BY <1>2, <1>4, <1>5, <1>6, <1>7, <3>1, MessageIs, SendTalks DEF About
    <3>3. chan'[<<n, d>>] = Append(c, Skipping)
      BY <1>4, <1>5, <3>1 DEF Typed
    <3> QED
      BY <3>1, <3>2, <3>3
  <2>3. CASE SrcMark(n)
    <3>1. /\ s.pc = "mark" \/ (s.pc = "task" /\ s.i = 1)
          /\ s2.i = s.i /\ s2.pc = "send" /\ chan' = chan /\ back' = back
      BY <2>3, SrcFields DEF SrcBecomes
    <3> QED
      BY <1>2, <1>4, <1>5, <1>6, <1>7, <3>1, StayTalks
  <2>4. CASE SrcSend(n)
    <3> DEFINE m == Copying(TaskOf(s, s.i))
    <3>1. /\ s.pc = "send" /\ s2.i = s.i /\ s2.pc = "sent"
          /\ chan' = [chan EXCEPT ![<<n, d>>] = Append(@, m)] /\ back' = back
      BY <2>4, SrcFields DEF SrcBecomes, Puts
    <3>2. m \in Messages /\ About(s, m, s.i)
      BY <1>8, MessageIs DEF About
    <3> HIDE DEF m
    <3>3. Counted(s2) /\ Talks(s2, t, Append(c, m), b, n)
      BY <1>2, <1>4, <1>5, <1>6, <1>7, <3>1, <3>2, SendTalks
    <3>4. chan'[<<n, d>>] = Append(c, m)
      BY <1>4, <1>5, <3>1 DEF Typed
    <3> QED
      BY <3>1, <3>3, <3>4
  <2>5. CASE SrcCleaning(n)
    <3>1. /\ s.pc = "sent" /\ s2.i = s.i + 1
          /\ s2.pc = IF s.i = s.size THEN "last" ELSE "task"
          /\ chan' = chan /\ back' = back
      BY <2>5, SrcFields DEF SrcBecomes
    <3> QED
      BY <1>2, <1>4, <1>5, <1>6, <1>7, <3>1, StayTalks
  <2> QED
    BY <2>1, <2>2, <2>3, <2>4, <2>5 DEF SrcInner
<1>12. OneRound(n, d)
  <2>1. src' \in [Nodes -> SrcCalls] /\ dst' \in [Nodes -> Loads]
    BY <1>2 DEF RoundInv, TypeInv
  <2>2. \A m \in Messages : Append(c, m) \in Seq(Messages)
    BY <1>6, SeqAppend
  <2>3. chan' \in [Nodes \X Nodes -> Seq(Messages)]
    <3>1. ASSUME NEW m \in Messages, chan' = [chan EXCEPT ![<<n, d>>] = Append(@, m)]
          PROVE  chan' \in [Nodes \X Nodes -> Seq(Messages)]
      <4>1. chan' = [chan EXCEPT ![<<n, d>>] = Append(c, m)] /\ Append(c, m) \in Seq(Messages)
        BY <2>2, <3>1
      <4> QED
        BY <4>1 DEF RoundInv, TypeInv
    <3>2. CASE chan' = chan
      BY <3>2 DEF RoundInv, TypeInv
    <3> QED
      BY <1>9, <3>1, <3>2
  <2>4. b # <<>> => Tail(b) \in Seq(BOOLEAN)
    BY <1>6, SeqTail
  <2>5. back' \in [Nodes \X Nodes -> Seq(BOOLEAN)]
    <3>1. ASSUME b # <<>>, back' = [back EXCEPT ![<<n, d>>] = Tail(@)]
          PROVE  back' \in [Nodes \X Nodes -> Seq(BOOLEAN)]
      <4>1. back' = [back EXCEPT ![<<n, d>>] = Tail(b)] /\ Tail(b) \in Seq(BOOLEAN)
        BY <2>4, <3>1
      <4> QED
        BY <4>1 DEF RoundInv, TypeInv
    <3>2. CASE back' = back
      BY <3>2 DEF RoundInv, TypeInv
    <3> QED
      BY <1>10, <3>1, <3>2
  <2>6. TypeInv'
    BY <2>1, <2>3, <2>5 DEF TypeInv
  <2>7. \A m, e \in Nodes : m # n \/ e # d => chan'[<<m, e>>] = chan[<<m, e>>]
    BY <1>4, <1>5, <1>9 DEF Typed
  <2>8. \A m, e \in Nodes : m # n \/ e # d => back'[<<m, e>>] = back[<<m, e>>]
    BY <1>4, <1>5, <1>10 DEF Typed
  <2>9. \A m \in Nodes : m # n => src'[m] = src[m]
    BY <1>2, <1>5 DEF Typed
  <2> QED
    BY <1>2, <2>6, <2>7, <2>8, <2>9 DEF OneRound
<1> QED
  BY <1>2, <1>4, <1>7, <1>11, <1>12, RoundKept

LEMMA SrcType ==
  ASSUME TypeInv, NEW n \in Nodes, src' = [src EXCEPT ![n] = src'[n]], src'[n] \in SrcCalls
  PROVE  src' \in [Nodes -> SrcCalls]
  BY DEF TypeInv

LEMMA PickFields ==
  ASSUME RoundInv, NEW n \in Nodes, NEW P \in SUBSET Proclets, NEW ts \in SetToSeqs(P), Pick(n, ts)
  PROVE  /\ ts \in Seq(Proclets) /\ \A j, k \in 1..Len(ts) : ts[j] = ts[k] => j = k
         /\ Range(ts) \subseteq Proclets
         /\ \A p \in Range(ts) : status[n][p] = "present" /\ (QuietReuse => making[p] = NotMaking)
         /\ src' = [src EXCEPT ![n] = src'[n]] /\ src'[n] \in SrcCalls
         /\ src'[n].pc = "loop" /\ src'[n].tasks = ts /\ src'[n].it = 1 /\ src'[n].i = 1
         /\ src'[n].dest = None
<1>1. ts \in [1..Cardinality(P) -> P] /\ \A j, k \in 1..Cardinality(P) : j # k => ts[j] # ts[k]
  BY DEF SetToSeqs
<1>2. Cardinality(P) \in Nat
  <2>1. IsFiniteSet(P)
    BY ConstantsOK, FS_Subset
  <2> QED
    BY <2>1, FS_CardinalityType
<1>3. ts \in Seq(Proclets) /\ Len(ts) = Cardinality(P)
  BY <1>1, <1>2
<1>4. Range(ts) \subseteq Proclets
  BY <1>1 DEF Range
<1>5. src' = [src EXCEPT ![n] = [IdleSrc EXCEPT !.pc = "loop", !.tasks = ts]]
  BY DEF Pick
<1>6. DOMAIN src = Nodes
  BY DEF RoundInv, TypeInv
<1> DEFINE r == [IdleSrc EXCEPT !.pc = "loop", !.tasks = ts]
<1>7. r \in SrcCalls /\ r.pc = "loop" /\ r.tasks = ts /\ r.it = 1 /\ r.i = 1 /\ r.dest = None
  BY <1>3 DEF IdleSrc, SrcCalls
<1>8. src'[n] = r
  BY <1>5, <1>6
<1> HIDE DEF r
<1>9. src' = [src EXCEPT ![n] = src'[n]]
  BY <1>5, <1>8 DEF r
<1>10. \A p \in Range(ts) : status[n][p] = "present" /\ (QuietReuse => making[p] = NotMaking)
  BY DEF Pick
<1> QED
  BY <1>1, <1>3, <1>4, <1>7, <1>8, <1>9, <1>10

LEMMA NewCall ==
  ASSUME NEW s \in SrcCalls, s.pc = "loop", s.it = 1, s.i = 1, s.dest = None,
         \A j, k \in 1..Len(s.tasks) : s.tasks[j] = s.tasks[k] => j = k
  PROVE  Counted(s)
<1>1. Len(s.tasks) \in Nat
  BY SrcIs
<1> QED
  BY <1>1 DEF Counted

LEMMA StartKeepsRounds ==
  ASSUME RoundInv, NEW n \in Nodes, NEW P \in SUBSET Proclets, NEW ts \in SetToSeqs(P),
         MainStart(n, ts) \/ PickAgain(n, ts)
  PROVE  RoundInv'
<1>1. Pick(n, ts) /\ UNCHANGED <<dst, links>> /\ src[n].pc \in {"idle", "loop"}
  BY DEF MainStart, PickAgain
<1>2. Counted(src'[n]) /\ src'[n].pc = "loop" /\ src'[n].dest = None /\ src'[n] \in SrcCalls
      /\ src' = [src EXCEPT ![n] = src'[n]]
  <2>1. Counted(src'[n])
    BY <1>1, PickFields, NewCall
  <2> QED
    BY <1>1, <2>1, PickFields
<1>3. src[n].dest = None
  BY <1>1 DEF RoundInv, Counted
<1>4. /\ \A m \in Nodes \ {n} : m \in acquired => m \in acquired'
      /\ n \in acquired' /\ (src[n].pc = "idle" => n \notin acquired)
  BY DEF MainStart, PickAgain, RoundInv
<1> QED
  BY <1>1, <1>2, <1>3, <1>4, CallKept

LEMMA ReturnKeepsRounds ==
  ASSUME RoundInv, NEW n \in Nodes, MigrateReturns(n)
  PROVE  RoundInv'
<1>1. src[n].pc = "loop" /\ src[n].dest = None
  BY DEF MigrateReturns, RoundInv, Counted
<1>2. IdleSrc \in SrcCalls /\ Counted(IdleSrc) /\ IdleSrc.pc = "idle" /\ IdleSrc.dest = None
  BY DEF IdleSrc, SrcCalls, Counted
<1>3. src' = [src EXCEPT ![n] = IdleSrc] /\ src'[n] = IdleSrc
  BY DEF MigrateReturns, RoundInv, TypeInv
<1>4. UNCHANGED <<dst, links>> /\ acquired' = acquired \ {n}
  BY DEF MigrateReturns
<1> QED
  BY <1>1, <1>2, <1>3, <1>4, CallKept

(* A round opens or closes; in between, its destination is acquired.       *)
LEMMA RoundStartFields ==
  ASSUME RoundInv, NEW n \in Nodes, NEW d \in Nodes, NEW size, RoundStart(n, d, size)
  PROVE  /\ src' = [src EXCEPT ![n] = src'[n]] /\ src'[n] \in SrcCalls /\ Counted(src'[n])
         /\ src'[n].pc = "task" /\ src'[n].dest = d /\ src'[n].i = 1
         /\ src'[n].it = src[n].it /\ src'[n].tasks = src[n].tasks /\ src'[n].size = size
         /\ src[n].pc = "loop" /\ src[n].dest = None /\ src[n].i = 1
         /\ \E ts \in Seq(Proclets) :
              chan' = [chan EXCEPT ![<<n, d>>] = <<Listing(ts)>>] /\ Same(ts, src'[n])
         /\ dst' = dst /\ back' = back /\ d \notin acquired /\ acquired' = acquired \cup {d}
<1> DEFINE s == src[n]
<1>1. /\ s \in SrcCalls /\ DOMAIN src = Nodes /\ Counted(s) /\ s.pc = "loop" /\ s.dest = None /\ s.i = 1
      /\ DOMAIN chan = Nodes \X Nodes
  BY DEF RoundInv, TypeInv, RoundStart, Counted
<1>2. /\ s.tasks \in Seq(Proclets) /\ Len(s.tasks) \in Nat /\ s.it \in 1..Len(s.tasks) + 1
      /\ size \in 1..(Len(s.tasks) - s.it + 1) /\ size \in Nat /\ s.it \in Nat
  BY <1>1, SrcIs DEF RoundStart, Counted
<1> DEFINE r == [s EXCEPT !.pc = "task", !.dest = d, !.size = size, !.i = 1]
<1>3. src' = [src EXCEPT ![n] = r] /\ src'[n] = r
  BY <1>1 DEF RoundStart
<1>4. r \in SrcCalls
  BY <1>1, <1>2 DEF SrcCalls
<1>5. /\ r.pc = "task" /\ r.dest = d /\ r.i = 1 /\ r.size = size
      /\ r.it = s.it /\ r.tasks = s.tasks
  BY <1>1 DEF SrcCalls
<1> HIDE DEF r
<1>6. Counted(r)
  <2>1. \A j, k \in 1..Len(s.tasks) : s.tasks[j] = s.tasks[k] => j = k
    BY <1>1 DEF Counted
  <2>2. d # None
    BY ConstantsOK
  <2> HIDE DEF s
  <2> QED
    BY <1>2, <1>5, <2>1, <2>2 DEF Counted
<1> DEFINE ts == SubSeq(s.tasks, s.it, s.it + size - 1)
<1>7. ts \in Seq(Proclets) /\ Len(ts) = size /\ \A k \in 1..size : ts[k] = s.tasks[s.it + k - 1]
  <2> HIDE DEF s
  <2>1. /\ s.it \in Int /\ s.it + size - 1 \in Int
        /\ \A i \in s.it .. s.it + size - 1 : s.tasks[i] \in Proclets
    <3>1. \A i \in s.it .. s.it + size - 1 : i \in 1..Len(s.tasks)
      BY <1>2
    <3> QED
      BY <1>2, <3>1
  <2>2. PICK q, a, z : q = s.tasks /\ a = s.it /\ z = s.it + size - 1
    OBVIOUS
  <2>3. /\ SubSeq(q, a, z) \in Seq(Proclets)
        /\ Len(SubSeq(q, a, z)) = IF a <= z THEN z - a + 1 ELSE 0
        /\ \A i \in 1 .. z - a + 1 : SubSeq(q, a, z)[i] = q[a + i - 1]
    <3>1. a \in Int /\ z \in Int /\ \A i \in a .. z : q[i] \in Proclets
      BY <2>1, <2>2
    <3> QED
      BY <3>1, SubSeqProperties
  <2>4. ts = SubSeq(q, a, z)
    BY <2>2
  <2> HIDE DEF ts
  <2>5. a <= z /\ z - a + 1 = size
    BY <1>2, <2>2
  <2> QED
    BY <2>2, <2>3, <2>4, <2>5
<1>8. Same(ts, r)
  BY <1>5, <1>7 DEF Same, TaskOf
<1>9. chan[<<n, d>>] = <<>>
  BY <1>1, ConstantsOK DEF RoundInv
<1>10. chan' = [chan EXCEPT ![<<n, d>>] = <<Listing(ts)>>]
  <2>1. chan' = [chan EXCEPT ![<<n, d>>] = Append(@, Listing(ts))]
    BY DEF RoundStart, Send, Listing
  <2>2. Append(<<>>, Listing(ts)) = <<Listing(ts)>>
    OBVIOUS
  <2> QED
    BY <1>9, <2>1, <2>2
<1>11. dst' = dst /\ back' = back /\ d \notin acquired /\ acquired' = acquired \cup {d}
  BY DEF RoundStart
<1> QED
  BY <1>1, <1>3, <1>4, <1>5, <1>6, <1>7, <1>8, <1>10, <1>11

LEMMA StartTalks ==
  ASSUME NEW s \in SrcCalls, NEW ts \in Seq(Proclets), Same(ts, s), s.pc = "task", s.i = 1, NEW n
  PROVE  Talks(s, IdleDst, <<Listing(ts)>>, <<>>, n)
<1>1. Sent(s) = 0 /\ Read(s) = 0
  BY DEF Sent, Read
<1>2. Len(<<Listing(ts)>>) = 1 /\ <<Listing(ts)>>[1] = Listing(ts)
  OBVIOUS
<1>3. Before(s, IdleDst, <<Listing(ts)>>, <<>>)
  BY <1>1, <1>2 DEF Before
<1> QED
  BY <1>3 DEF Talks

LEMMA RoundStartKeepsRounds ==
  ASSUME RoundInv, NEW n \in Nodes, NEW d \in Nodes, NEW size, RoundStart(n, d, size)
  PROVE  RoundInv'
<1>1. /\ src' = [src EXCEPT ![n] = src'[n]] /\ src'[n] \in SrcCalls /\ Counted(src'[n])
      /\ src'[n].pc = "task" /\ src'[n].dest = d /\ src'[n].i = 1
      /\ src[n].pc = "loop" /\ src[n].dest = None
      /\ dst' = dst /\ back' = back /\ d \notin acquired /\ acquired' = acquired \cup {d}
  BY RoundStartFields
<1>2. PICK ts \in Seq(Proclets) :
              chan' = [chan EXCEPT ![<<n, d>>] = <<Listing(ts)>>] /\ Same(ts, src'[n])
  BY RoundStartFields
<1>3. Typed /\ n \in acquired
  BY <1>1, Types DEF RoundInv
<1>4. /\ \A m \in Nodes : m # n => src'[m] = src[m]
      /\ \A m, e \in Nodes : m # n \/ e # d => chan'[<<m, e>>] = chan[<<m, e>>]
      /\ chan'[<<n, d>>] = <<Listing(ts)>>
  BY <1>1, <1>2, <1>3 DEF Typed
<1>5. TypeInv'
  <2>1. <<Listing(ts)>> \in Seq(Messages)
    BY MessageIs
  <2> QED
    <3>1. chan' \in [Nodes \X Nodes -> Seq(Messages)]
      BY <1>2, <2>1 DEF RoundInv, TypeInv
    <3>2. src' \in [Nodes -> SrcCalls]
      BY <1>1, SrcType DEF RoundInv
    <3> QED
      BY <1>1, <3>1, <3>2 DEF RoundInv, TypeInv
<1>6. /\ src[d].pc = "idle" /\ d # n /\ \A m \in Nodes : src[m].dest # d
      /\ \A m \in Nodes : dst[m].pc # "idle" => dst[m].from \in Nodes /\ src[dst[m].from].dest = m
      /\ dst[d] = IdleDst
  <2>1. src[d].pc = "idle" /\ d # n /\ \A m \in Nodes : src[m].dest # d
    BY <1>1, <1>3 DEF RoundInv
  <2>2. \A m \in Nodes : dst[m].pc # "idle" => dst[m].from \in Nodes /\ src[dst[m].from].dest = m
    BY DEF RoundInv
  <2>3. dst[d].pc = "idle"
    BY <2>1, <2>2
  <2> QED
    BY <2>1, <2>2, <2>3 DEF RoundInv
<1>7. \A m \in Nodes : Counted(src'[m]) /\ (src'[m].pc # "idle" => m \in acquired')
  BY <1>1, <1>3, <1>4 DEF RoundInv
<1>8. \A m, e \in Nodes :
       src'[m].dest = e =>
         /\ e \in acquired' /\ src'[e].pc = "idle"
         /\ \A k \in Nodes : src'[k].dest = e => k = m
         /\ Talks(src'[m], dst'[e], chan'[<<m, e>>], back'[<<m, e>>], m)
  <2> SUFFICES ASSUME NEW m \in Nodes, NEW e \in Nodes, src'[m].dest = e
               PROVE  /\ e \in acquired' /\ src'[e].pc = "idle"
                      /\ \A k \in Nodes : src'[k].dest = e => k = m
                      /\ Talks(src'[m], dst'[e], chan'[<<m, e>>], back'[<<m, e>>], m)
    OBVIOUS
  <2>1. CASE m = n
    <3>1. e = d /\ back[<<n, d>>] = <<>>
      BY <1>1, <1>6, <2>1 DEF RoundInv
    <3>2. Talks(src'[n], IdleDst, <<Listing(ts)>>, <<>>, n)
      BY <1>1, <1>2, StartTalks
    <3> QED
      BY <1>1, <1>4, <1>6, <2>1, <3>1, <3>2
  <2>2. CASE m # n
    <3>1. src[m].dest = e /\ e # d
      BY <1>4, <1>6, <2>2
    <3>2. /\ e \in acquired /\ src[e].pc = "idle"
          /\ \A k \in Nodes : src[k].dest = e => k = m
          /\ Talks(src[m], dst[e], chan[<<m, e>>], back[<<m, e>>], m)
      BY <3>1 DEF RoundInv
    <3>3. e # n
      BY <1>1, <3>2
    <3> QED
      BY <1>1, <1>4, <2>2, <3>1, <3>2, <3>3
  <2> QED
    BY <2>1, <2>2
<1>9. \A m, e \in Nodes : src'[m].dest # e => chan'[<<m, e>>] = <<>> /\ back'[<<m, e>>] = <<>>
  <2> SUFFICES ASSUME NEW m \in Nodes, NEW e \in Nodes, src'[m].dest # e
               PROVE  chan'[<<m, e>>] = <<>> /\ back'[<<m, e>>] = <<>>
    OBVIOUS
  <2>1. src[m].dest # e /\ (m # n \/ e # d)
    BY <1>1, <1>4, ConstantsOK
  <2> QED
    BY <1>1, <1>4, <2>1 DEF RoundInv
<1>10. \A e \in Nodes : dst'[e].pc # "idle" => dst'[e].from \in Nodes /\ src'[dst'[e].from].dest = e
  <2> SUFFICES ASSUME NEW e \in Nodes, dst[e].pc # "idle"
               PROVE  dst[e].from \in Nodes /\ src'[dst[e].from].dest = e
    BY <1>1
  <2>1. dst[e].from \in Nodes /\ src[dst[e].from].dest = e
    BY <1>6
  <2>2. dst[e].from # n
    BY <1>1, <2>1, ConstantsOK
  <2> QED
    BY <1>4, <2>1, <2>2
<1>11. \A e \in Nodes : dst'[e].pc = "idle" => dst'[e] = IdleDst
  BY <1>1 DEF RoundInv
<1> QED
  BY <1>5, <1>7, <1>8, <1>9, <1>10, <1>11 DEF RoundInv

LEMMA RoundEndFields ==
  ASSUME RoundInv, NEW n \in Nodes, RoundEnd(n)
  PROVE  /\ src' = [src EXCEPT ![n] = src'[n]] /\ src'[n] \in SrcCalls /\ Counted(src'[n])
         /\ src'[n].pc = "loop" /\ src'[n].dest = None /\ src'[n].i = 1
         /\ src'[n].it = src[n].it + (src[n].i - 1) /\ src'[n].tasks = src[n].tasks
         /\ src[n].pc = "last" /\ src[n].dest \in Nodes
         /\ dst[src[n].dest] = IdleDst /\ chan[<<n, src[n].dest>>] = <<>>
         /\ back[<<n, src[n].dest>>] # <<>>
         /\ back' = [back EXCEPT ![<<n, src[n].dest>>] = <<>>]
         /\ dst' = dst /\ chan' = chan /\ acquired' = acquired \ {src[n].dest}
<1> DEFINE s == src[n]
           d == src[n].dest
<1>1. /\ s \in SrcCalls /\ DOMAIN src = Nodes /\ Counted(s) /\ s.pc = "last" /\ Typed
  BY Types DEF RoundInv, TypeInv, RoundEnd
<1>2. d \in Nodes /\ d # None
  BY <1>1, SrcIs, ConstantsOK DEF Counted
<1>3. /\ s.tasks \in Seq(Proclets) /\ Len(s.tasks) \in Nat /\ s.it \in Nat /\ s.i \in Nat /\ s.size \in Nat
      /\ s.size \in 1..Len(s.tasks) - s.it + 1 /\ s.i \in 1..s.size + 1 /\ s.it >= 1
  BY <1>1, <1>2, SrcIs DEF Counted
<1> DEFINE b == back[<<n, d>>]
<1>4. b # <<>> /\ dst[d] = IdleDst /\ chan[<<n, d>>] = <<>> /\ Tail(b) = <<>>
  <2>1. b # <<>>
    BY DEF RoundEnd
  <2>2. Talks(s, dst[d], chan[<<n, d>>], b, n)
    BY <1>2 DEF RoundInv
  <2>3. dst[d] \in Loads /\ chan[<<n, d>>] \in Seq(Messages) /\ b \in Seq(BOOLEAN)
    BY <1>1, <1>2 DEF Typed
  <2>4. s.dest # None /\ s.pc = "last" /\ s \in SrcCalls /\ Counted(s)
    BY <1>1, <1>2
  <2> HIDE DEF s, d, b
  <2> QED
    BY <2>1, <2>2, <2>3, <2>4, EndTalks
<1> DEFINE it == s.it + (s.i - 1)
           con == IF s.i - 1 < s.size THEN s.congested \cup {d} ELSE s.congested
<1>5. src' = [src EXCEPT ![n] = [@ EXCEPT
       !.pc = "loop", !.it = it, !.dest = None, !.size = 0, !.i = 1, !.congested = con]]
  BY DEF RoundEnd
<1>6. it \in Nat /\ it \in 1..Len(s.tasks) + 1 /\ con \subseteq Nodes
  BY <1>1, <1>2, <1>3, SrcIs
<1> HIDE DEF it, con
<1> DEFINE r == [s EXCEPT !.pc = "loop", !.it = it, !.dest = None, !.size = 0, !.i = 1, !.congested = con]
<1>7. src' = [src EXCEPT ![n] = r] /\ src'[n] = r
  BY <1>1, <1>5
<1>8. r \in SrcCalls
  BY <1>1, <1>6 DEF SrcCalls
<1>9. r.pc = "loop" /\ r.dest = None /\ r.i = 1 /\ r.it = it /\ r.tasks = s.tasks
  BY <1>1 DEF SrcCalls
<1> HIDE DEF r
<1>10. Counted(r)
  <2>1. \A j, k \in 1..Len(s.tasks) : s.tasks[j] = s.tasks[k] => j = k
    BY <1>1 DEF Counted
  <2> HIDE DEF s
  <2> QED
    BY <1>6, <1>9, <2>1 DEF Counted
<1>11. back' = [back EXCEPT ![<<n, d>>] = <<>>]
  BY <1>4 DEF RoundEnd
<1>12. dst' = dst /\ chan' = chan /\ acquired' = acquired \ {d}
  BY DEF RoundEnd
<1> QED
  BY <1>1, <1>2, <1>4, <1>7, <1>8, <1>9, <1>10, <1>11, <1>12 DEF it

LEMMA RoundEndKeepsRounds ==
  ASSUME RoundInv, NEW n \in Nodes, RoundEnd(n)
  PROVE  RoundInv'
<1> DEFINE d == src[n].dest
<1>1. /\ src' = [src EXCEPT ![n] = src'[n]] /\ src'[n] \in SrcCalls /\ Counted(src'[n])
      /\ src'[n].pc = "loop" /\ src'[n].dest = None /\ src[n].pc = "last" /\ d \in Nodes
      /\ dst[d] = IdleDst /\ chan[<<n, d>>] = <<>>
      /\ back' = [back EXCEPT ![<<n, d>>] = <<>>]
      /\ dst' = dst /\ chan' = chan /\ acquired' = acquired \ {d}
  BY RoundEndFields
<1>2. Typed /\ n \in acquired /\ src[d].pc = "idle" /\ d # n
      /\ \A m \in Nodes : src[m].dest = d => m = n
  BY <1>1, Types DEF RoundInv
<1>3. /\ \A m \in Nodes : m # n => src'[m] = src[m]
      /\ \A m, e \in Nodes : m # n \/ e # d => back'[<<m, e>>] = back[<<m, e>>]
      /\ back'[<<n, d>>] = <<>>
  BY <1>1, <1>2 DEF Typed
<1>4. TypeInv'
  <2>1. <<>> \in Seq(BOOLEAN)
    BY EmptySeq
  <2>2. back' \in [Nodes \X Nodes -> Seq(BOOLEAN)]
    BY <1>1, <2>1 DEF RoundInv, TypeInv
  <2>3. src' \in [Nodes -> SrcCalls]
    BY <1>1, SrcType DEF RoundInv
  <2> QED
    BY <1>1, <2>2, <2>3 DEF RoundInv, TypeInv
<1>5. \A m \in Nodes : Counted(src'[m]) /\ (src'[m].pc # "idle" => m \in acquired')
  BY <1>1, <1>2, <1>3 DEF RoundInv
<1>6. \A m, e \in Nodes :
       src'[m].dest = e =>
         /\ e \in acquired' /\ src'[e].pc = "idle"
         /\ \A k \in Nodes : src'[k].dest = e => k = m
         /\ Talks(src'[m], dst'[e], chan'[<<m, e>>], back'[<<m, e>>], m)
  <2> SUFFICES ASSUME NEW m \in Nodes, NEW e \in Nodes, src'[m].dest = e
               PROVE  /\ e \in acquired' /\ src'[e].pc = "idle"
                      /\ \A k \in Nodes : src'[k].dest = e => k = m
                      /\ Talks(src'[m], dst'[e], chan'[<<m, e>>], back'[<<m, e>>], m)
    OBVIOUS
  <2>1. m # n
    BY <1>1, ConstantsOK
  <2>2. src[m].dest = e /\ e # d
    BY <1>2, <1>3, <2>1
  <2>3. /\ e \in acquired /\ src[e].pc = "idle"
        /\ \A k \in Nodes : src[k].dest = e => k = m
        /\ Talks(src[m], dst[e], chan[<<m, e>>], back[<<m, e>>], m)
    BY <2>2 DEF RoundInv
  <2>4. e # n
    BY <1>1, <2>3
  <2>5. \A k \in Nodes : src'[k].dest = e => k = m
    BY <1>1, <1>3, <2>3, ConstantsOK
  <2> QED
    BY <1>1, <1>3, <2>1, <2>2, <2>3, <2>4, <2>5
<1>7. \A m, e \in Nodes : src'[m].dest # e => chan'[<<m, e>>] = <<>> /\ back'[<<m, e>>] = <<>>
  <2> SUFFICES ASSUME NEW m \in Nodes, NEW e \in Nodes, src'[m].dest # e
               PROVE  chan'[<<m, e>>] = <<>> /\ back'[<<m, e>>] = <<>>
    OBVIOUS
  <2>1. CASE m = n /\ e = d
    BY <1>1, <1>3, <2>1
  <2>2. CASE ~(m = n /\ e = d)
    <3>1. src[m].dest # e
      BY <1>3, <2>2
    <3> QED
      BY <1>1, <1>3, <2>2, <3>1 DEF RoundInv
  <2> QED
    BY <2>1, <2>2
<1>8. \A e \in Nodes : dst'[e].pc # "idle" => dst'[e].from \in Nodes /\ src'[dst'[e].from].dest = e
  <2> SUFFICES ASSUME NEW e \in Nodes, dst[e].pc # "idle"
               PROVE  dst[e].from \in Nodes /\ src'[dst[e].from].dest = e
    BY <1>1
  <2>1. dst[e].from \in Nodes /\ src[dst[e].from].dest = e
    BY DEF RoundInv
  <2>2. e # d
    BY <1>1 DEF IdleDst
  <2>3. dst[e].from # n
    BY <2>1, <2>2
  <2> QED
    BY <1>3, <2>1, <2>3
<1>9. \A e \in Nodes : dst'[e].pc = "idle" => dst'[e] = IdleDst
  BY <1>1 DEF RoundInv
<1> QED
  BY <1>4, <1>5, <1>6, <1>7, <1>8, <1>9 DEF RoundInv

---------------------------------------------------------------------------
(* The destination.                                                        *)

DstBecomes(n, from, tasks, i, pc) ==
  /\ dst' = [dst EXCEPT ![n] = dst'[n]] /\ dst'[n] \in Loads
  /\ dst'[n].from = from /\ dst'[n].tasks = tasks /\ dst'[n].i = i /\ dst'[n].pc = pc
  /\ src' = src /\ acquired' = acquired

Takes(s, n) ==
  /\ chan[<<s, n>>] # <<>> /\ chan' = [chan EXCEPT ![<<s, n>>] = Tail(@)] /\ back' = back

LEMMA LoadedFields ==
  ASSUME RoundInv, NEW n \in Nodes, Loaded(n), src' = src, acquired' = acquired
  PROVE  DstBecomes(n, dst[n].from, dst[n].tasks, dst[n].i + 1,
                    IF dst[n].pc = "load" THEN "approve" ELSE "refuse")
<1>1. dst[n] \in Loads /\ DOMAIN dst = Nodes
  BY DEF RoundInv, TypeInv
<1>2. dst[n].i + 1 \in Nat
  BY <1>1, LoadIs
<1> DEFINE pc == IF dst[n].pc = "load" THEN "approve" ELSE "refuse"
<1>3. pc \in {"approve", "refuse"}
  OBVIOUS
<1>4. dst' = [dst EXCEPT ![n] = [@ EXCEPT !.i = dst[n].i + 1, !.pc = pc]]
  BY DEF Loaded
<1> HIDE DEF pc
<1> DEFINE r == [dst[n] EXCEPT !.i = dst[n].i + 1, !.pc = pc]
<1>5. dst' = [dst EXCEPT ![n] = r] /\ dst'[n] = r
  BY <1>1, <1>4
<1>6. r \in Loads
  BY <1>1, <1>2, <1>3 DEF Loads
<1>7. r.from = dst[n].from /\ r.tasks = dst[n].tasks /\ r.i = dst[n].i + 1 /\ r.pc = pc
  BY <1>1 DEF Loads
<1> HIDE DEF r
<1>8. DstBecomes(n, dst[n].from, dst[n].tasks, dst[n].i + 1, pc)
  BY <1>5, <1>6, <1>7 DEF DstBecomes
<1> QED
  BY <1>8 DEF pc

(* The source of the round whose load runs at n.                           *)
LEMMA SourceOf ==
  ASSUME RoundInv, NEW n \in Nodes, dst[n].pc # "idle"
  PROVE  /\ dst[n].from \in Nodes /\ src[dst[n].from].dest = n
         /\ src[dst[n].from] \in SrcCalls /\ Counted(src[dst[n].from])
         /\ src[dst[n].from].dest # None
         /\ dst[n] \in Loads /\ chan[<<dst[n].from, n>>] \in Seq(Messages)
         /\ back[<<dst[n].from, n>>] \in Seq(BOOLEAN)
         /\ Talks(src[dst[n].from], dst[n], chan[<<dst[n].from, n>>], back[<<dst[n].from, n>>],
                  dst[n].from)
  BY Types, ConstantsOK DEF RoundInv, Typed

LEMMA DstFields ==
  ASSUME RoundInv, NEW n \in Nodes
  PROVE  /\ LoadApprove(n) =>
              /\ dst[n].pc = "approve" /\ chan' = chan
              /\ \E pc \in {"load", "loadlast"} :
                   /\ DstBecomes(n, dst[n].from, dst[n].tasks, dst[n].i, pc)
                   /\ \/ dst[n].i # Len(dst[n].tasks) /\ pc = "load"
                         /\ back' = [back EXCEPT ![<<dst[n].from, n>>] = Append(@, TRUE)]
                      \/ dst[n].i # Len(dst[n].tasks) /\ pc = "loadlast"
                         /\ back' = [back EXCEPT ![<<dst[n].from, n>>] = Append(@, FALSE)]
                      \/ dst[n].i = Len(dst[n].tasks) /\ pc = "loadlast" /\ back' = back
         /\ LoadSkip(n) \/ LoadInsert(n) =>
              /\ dst[n].pc \in {"load", "loadlast"} /\ Takes(dst[n].from, n)
              /\ DstBecomes(n, dst[n].from, dst[n].tasks, dst[n].i + 1,
                            IF dst[n].pc = "load" THEN "approve" ELSE "refuse")
         /\ LoadRefuse(n) =>
              /\ dst[n].pc = "refuse" /\ chan' = chan
              /\ dst' = [dst EXCEPT ![n] = IdleDst] /\ src' = src /\ acquired' = acquired
              /\ back' = [back EXCEPT ![<<dst[n].from, n>>] = Append(@, TRUE)]
<1>1. dst[n] \in Loads /\ DOMAIN dst = Nodes
  BY DEF RoundInv, TypeInv
<1>2. ASSUME NEW pc \in {"load", "loadlast"}, dst' = [dst EXCEPT ![n].pc = pc], src' = src, acquired' = acquired
      PROVE  DstBecomes(n, dst[n].from, dst[n].tasks, dst[n].i, pc)
  <2> DEFINE r == [dst[n] EXCEPT !.pc = pc]
  <2>1. dst' = [dst EXCEPT ![n] = r] /\ dst'[n] = r
    BY <1>1, <1>2
  <2>2. r \in Loads /\ r.from = dst[n].from /\ r.tasks = dst[n].tasks /\ r.i = dst[n].i /\ r.pc = pc
    BY <1>1 DEF Loads
  <2> HIDE DEF r
  <2> QED
    BY <1>2, <2>1, <2>2 DEF DstBecomes
<1>3. ASSUME LoadApprove(n)
      PROVE  /\ dst[n].pc = "approve" /\ chan' = chan
             /\ \E pc \in {"load", "loadlast"} :
                  /\ DstBecomes(n, dst[n].from, dst[n].tasks, dst[n].i, pc)
                  /\ \/ dst[n].i # Len(dst[n].tasks) /\ pc = "load"
                        /\ back' = [back EXCEPT ![<<dst[n].from, n>>] = Append(@, TRUE)]
                     \/ dst[n].i # Len(dst[n].tasks) /\ pc = "loadlast"
                        /\ back' = [back EXCEPT ![<<dst[n].from, n>>] = Append(@, FALSE)]
                     \/ dst[n].i = Len(dst[n].tasks) /\ pc = "loadlast" /\ back' = back
  <2>1. dst[n].pc = "approve" /\ chan' = chan /\ src' = src /\ acquired' = acquired
    BY <1>3 DEF LoadApprove
  <2>2. CASE ~IsLast(n) /\ Approve(n, TRUE) /\ dst' = [dst EXCEPT ![n].pc = "load"]
    BY <1>2, <2>1, <2>2 DEF IsLast, Approve
  <2>3. CASE ~IsLast(n) /\ Approve(n, FALSE) /\ dst' = [dst EXCEPT ![n].pc = "loadlast"]
    BY <1>2, <2>1, <2>3 DEF IsLast, Approve
  <2>4. CASE IsLast(n) /\ dst' = [dst EXCEPT ![n].pc = "loadlast"] /\ UNCHANGED back
    BY <1>2, <2>1, <2>4 DEF IsLast
  <2>5. \/ ~IsLast(n) /\ Approve(n, TRUE) /\ dst' = [dst EXCEPT ![n].pc = "load"]
        \/ ~IsLast(n) /\ Approve(n, FALSE) /\ dst' = [dst EXCEPT ![n].pc = "loadlast"]
        \/ IsLast(n) /\ dst' = [dst EXCEPT ![n].pc = "loadlast"] /\ UNCHANGED back
    BY <1>3 DEF LoadApprove
  <2> QED
    BY <2>2, <2>3, <2>4, <2>5
<1>4. ASSUME LoadSkip(n) \/ LoadInsert(n)
      PROVE  /\ dst[n].pc \in {"load", "loadlast"} /\ Takes(dst[n].from, n)
             /\ Loaded(n) /\ src' = src /\ acquired' = acquired
  BY <1>4 DEF LoadSkip, LoadInsert, Takes, Incoming
<1>5. LoadRefuse(n) =>
              /\ dst[n].pc = "refuse" /\ chan' = chan
              /\ dst' = [dst EXCEPT ![n] = IdleDst] /\ src' = src /\ acquired' = acquired
              /\ back' = [back EXCEPT ![<<dst[n].from, n>>] = Append(@, TRUE)]
  BY DEF LoadRefuse, Approve
<1> QED
  BY <1>3, <1>4, <1>5, LoadedFields

LEMMA LoadStartFields ==
  ASSUME RoundInv, NEW n \in Nodes, NEW s \in Nodes, LoadStart(n, s)
  PROVE  /\ Takes(s, n) /\ dst[n].pc = "idle" /\ src[s].dest = n
         /\ Head(chan[<<s, n>>]).tasks \in Seq(Proclets)
         /\ Same(Head(chan[<<s, n>>]).tasks, src[s])
         /\ DstBecomes(n, s, Head(chan[<<s, n>>]).tasks, 1, "approve")
         /\ Talks(src[s], dst'[n], Tail(chan[<<s, n>>]), back[<<s, n>>], s)
<1>1. Takes(s, n) /\ dst[n].pc = "idle" /\ src' = src /\ acquired' = acquired
  BY DEF LoadStart, Takes
<1>2. src[s].dest = n
  BY <1>1 DEF RoundInv, Takes
<1>3. /\ Talks(src[s], dst[n], chan[<<s, n>>], back[<<s, n>>], s)
      /\ Counted(src[s]) /\ src[s] \in SrcCalls /\ src[s].dest # None /\ dst[n] \in Loads
      /\ chan[<<s, n>>] \in Seq(Messages) /\ back[<<s, n>>] \in Seq(BOOLEAN) /\ DOMAIN dst = Nodes
  BY <1>2, Types, ConstantsOK DEF RoundInv, Typed
<1> DEFINE c == chan[<<s, n>>]
           r == [pc |-> "approve", from |-> s, tasks |-> Head(c).tasks, i |-> 1]
<1>4. c # <<>>
  BY <1>1 DEF Takes
<1>5. Before(src[s], dst[n], c, back[<<s, n>>])
  BY <1>1, <1>3, <1>4 DEF Talks, During, After
<1>6. PICK ts \in Seq(Proclets) : c[1] = Listing(ts)
  BY <1>5 DEF Before
<1>7. Head(c).tasks = ts
  BY <1>3, <1>4, <1>6, SeqTail DEF Listing
<1>8. r \in Loads
  BY <1>7 DEF Loads
<1>9. dst' = [dst EXCEPT ![n] = r]
  BY DEF LoadStart
<1>10. r.pc = "approve" /\ r.from = s /\ r.tasks = Head(c).tasks /\ r.i = 1
  OBVIOUS
<1>11. Talks(src[s], r, Tail(c), back[<<s, n>>], s) /\ Head(c).tasks \in Seq(Proclets)
       /\ Same(Head(c).tasks, src[s])
  BY <1>1, <1>3, <1>4, <1>8, LoadStartTalks
<1> HIDE DEF r
<1>12. dst'[n] = r
  BY <1>3, <1>9
<1>13. dst' = [dst EXCEPT ![n] = dst'[n]]
  BY <1>9, <1>12
<1> QED
  BY <1>1, <1>2, <1>8, <1>10, <1>11, <1>12, <1>13 DEF DstBecomes

LEMMA DstType ==
  ASSUME TypeInv, NEW n \in Nodes, dst' = [dst EXCEPT ![n] = dst'[n]], dst'[n] \in Loads
  PROVE  /\ dst' \in [Nodes -> Loads]
         /\ \A e \in Nodes : e # n => dst'[e] = dst[e]
  BY DEF TypeInv

(* What a step of the destination makes of the round.                      *)
LEMMA DstRound ==
  ASSUME RoundInv, NEW n \in Nodes, NEW s \in Nodes, src[s].dest = n,
         dst' = [dst EXCEPT ![n] = dst'[n]], dst'[n] \in Loads,
         src' = src, acquired' = acquired,
         NEW c \in Seq(Messages), chan' = [chan EXCEPT ![<<s, n>>] = c],
         NEW b \in Seq(BOOLEAN), back' = [back EXCEPT ![<<s, n>>] = b],
         dst'[n].pc = "idle" => dst'[n] = IdleDst,
         dst'[n].pc # "idle" => dst'[n].from = s,
         Talks(src[s], dst'[n], c, b, s)
  PROVE  RoundInv'
<1>1. Typed
  BY Types DEF RoundInv
<1>2. /\ dst' \in [Nodes -> Loads]
      /\ \A e \in Nodes : e # n => dst'[e] = dst[e]
  BY DstType DEF RoundInv
<1>3. /\ chan' \in [Nodes \X Nodes -> Seq(Messages)] /\ chan'[<<s, n>>] = c
      /\ \A m, e \in Nodes : m # s \/ e # n => chan'[<<m, e>>] = chan[<<m, e>>]
  BY DEF RoundInv, TypeInv
<1>4. /\ back' \in [Nodes \X Nodes -> Seq(BOOLEAN)] /\ back'[<<s, n>>] = b
      /\ \A m, e \in Nodes : m # s \/ e # n => back'[<<m, e>>] = back[<<m, e>>]
  BY DEF RoundInv, TypeInv
<1>5. OneRound(s, n)
  BY <1>2, <1>3, <1>4 DEF OneRound, RoundInv, TypeInv
<1>6. Counted(src'[s]) /\ src'[s].dest = n
  BY DEF RoundInv
<1>7. Talks(src'[s], dst'[n], chan'[<<s, n>>], back'[<<s, n>>], s)
  BY <1>3, <1>4
<1> QED
  BY <1>5, <1>6, <1>7, RoundKept

LEMMA Untouched ==
  ASSUME TypeInv, NEW n \in Nodes, NEW s \in Nodes
  PROVE  /\ chan' = chan => chan' = [chan EXCEPT ![<<s, n>>] = chan[<<s, n>>]]
         /\ back' = back => back' = [back EXCEPT ![<<s, n>>] = back[<<s, n>>]]
  BY DEF TypeInv

LEMMA DstKeepsRounds ==
  ASSUME RoundInv, NEW n \in Nodes, DstStep(n)
  PROVE  RoundInv'
<1>1. CASE LoadCopy(n)
  <2>1. UNCHANGED <<src, dst, links, acquired>>
    BY <1>1 DEF LoadCopy
  <2>2. src' = src /\ dst' = dst /\ chan' = chan /\ back' = back /\ acquired' = acquired
    BY <2>1 DEF links
  <2> QED
    BY <2>2 DEF RoundInv, TypeInv
<1>2. ASSUME NEW s \in Nodes, LoadStart(n, s)
      PROVE  RoundInv'
  <2> DEFINE c == chan[<<s, n>>]
             b == back[<<s, n>>]
  <2>1. /\ chan' = [chan EXCEPT ![<<s, n>>] = Tail(c)] /\ back' = back /\ c # <<>>
        /\ src[s].dest = n /\ dst' = [dst EXCEPT ![n] = dst'[n]] /\ dst'[n] \in Loads
        /\ src' = src /\ acquired' = acquired /\ dst'[n].pc = "approve" /\ dst'[n].from = s
        /\ Talks(src[s], dst'[n], Tail(c), b, s)
    BY <1>2, LoadStartFields DEF Takes, DstBecomes
  <2>2. c \in Seq(Messages) /\ b \in Seq(BOOLEAN)
    BY Types DEF RoundInv, Typed
  <2>3. Tail(c) \in Seq(Messages)
    BY <2>1, <2>2, SeqTail
  <2>4. back' = [back EXCEPT ![<<s, n>>] = b]
    BY <2>1, Untouched DEF RoundInv
  <2> HIDE DEF c, b
  <2> QED
    BY <2>1, <2>2, <2>3, <2>4, DstRound
<1>3. ASSUME LoadApprove(n) \/ LoadSkip(n) \/ LoadInsert(n) \/ LoadRefuse(n)
      PROVE  RoundInv'
  <2> DEFINE s == dst[n].from
             t == dst[n]
             c == chan[<<s, n>>]
             b == back[<<s, n>>]
  <2>1. dst[n].pc # "idle"
    BY <1>3, DstFields
  <2>2. /\ s \in Nodes /\ src[s].dest = n
        /\ src[s] \in SrcCalls /\ Counted(src[s]) /\ src[s].dest # None
        /\ t \in Loads /\ c \in Seq(Messages) /\ b \in Seq(BOOLEAN)
        /\ Talks(src[s], t, c, b, s)
    BY <2>1, SourceOf
  <2>3. /\ chan' = chan => chan' = [chan EXCEPT ![<<s, n>>] = c]
        /\ back' = back => back' = [back EXCEPT ![<<s, n>>] = b]
    BY <2>2, Untouched DEF RoundInv
  <2>4. CASE LoadApprove(n)
    <3>1. PICK pc \in {"load", "loadlast"} :
                   /\ DstBecomes(n, dst[n].from, dst[n].tasks, dst[n].i, pc)
                   /\ \/ dst[n].i # Len(dst[n].tasks) /\ pc = "load"
                         /\ back' = [back EXCEPT ![<<dst[n].from, n>>] = Append(@, TRUE)]
                      \/ dst[n].i # Len(dst[n].tasks) /\ pc = "loadlast"
                         /\ back' = [back EXCEPT ![<<dst[n].from, n>>] = Append(@, FALSE)]
                      \/ dst[n].i = Len(dst[n].tasks) /\ pc = "loadlast" /\ back' = back
      BY <2>4, DstFields
    <3>2. chan' = chan /\ t.pc = "approve"
      BY <2>4, DstFields
    <3>3. /\ Append(b, TRUE) \in Seq(BOOLEAN) /\ Append(b, FALSE) \in Seq(BOOLEAN)
      BY <2>2, SeqAppend
    <3>4. PICK b2 \in Seq(BOOLEAN) :
            /\ back' = [back EXCEPT ![<<s, n>>] = b2]
            /\ \/ t.i # Len(t.tasks) /\ b2 = Append(b, TRUE) /\ pc = "load"
               \/ t.i # Len(t.tasks) /\ b2 = Append(b, FALSE) /\ pc = "loadlast"
               \/ t.i = Len(t.tasks) /\ b2 = b /\ pc = "loadlast"
      BY <2>2, <2>3, <3>1, <3>3
    <3>5. /\ dst' = [dst EXCEPT ![n] = dst'[n]] /\ dst'[n] \in Loads /\ dst'[n].pc = pc
          /\ dst'[n].from = s /\ dst'[n].i = t.i /\ SameLoad(dst'[n], t)
          /\ src' = src /\ acquired' = acquired
      BY <3>1 DEF DstBecomes, SameLoad
    <3>6. Talks(src[s], dst'[n], c, b2, s)
      <4> HIDE DEF s, t, c, b
      <4> QED
        BY <2>2, <3>2, <3>4, <3>5, ApproveTalks
    <3>7. chan' = [chan EXCEPT ![<<s, n>>] = c] /\ dst'[n].pc # "idle"
      BY <2>3, <3>2, <3>5
    <3> HIDE DEF s, t, c, b
    <3> QED
      BY <2>2, <3>4, <3>5, <3>6, <3>7, DstRound
  <2>5. CASE LoadSkip(n) \/ LoadInsert(n)
    <3>1. /\ chan' = [chan EXCEPT ![<<s, n>>] = Tail(c)] /\ back' = back /\ c # <<>>
          /\ dst' = [dst EXCEPT ![n] = dst'[n]] /\ dst'[n] \in Loads
          /\ src' = src /\ acquired' = acquired
          /\ dst'[n].i = t.i + 1 /\ dst'[n].from = s /\ SameLoad(dst'[n], t)
      BY <2>5, DstFields DEF Takes, DstBecomes, SameLoad
    <3>2. \/ t.pc = "load" /\ dst'[n].pc = "approve"
          \/ t.pc = "loadlast" /\ dst'[n].pc = "refuse"
      BY <2>5, DstFields DEF DstBecomes
    <3>3. Tail(c) \in Seq(Messages)
      BY <2>2, <3>1, SeqTail
    <3>4. back' = [back EXCEPT ![<<s, n>>] = b]
      BY <2>3, <3>1
    <3> HIDE DEF s, t, c, b
    <3>5. Talks(src[s], dst'[n], Tail(c), b, s)
      BY <2>2, <3>1, <3>2, LoadedTalks
    <3>6. dst'[n].pc # "idle"
      BY <3>2
    <3> QED
      BY <2>2, <3>1, <3>3, <3>4, <3>5, <3>6, DstRound
  <2>6. CASE LoadRefuse(n)
    <3>1. /\ t.pc = "refuse" /\ chan' = [chan EXCEPT ![<<s, n>>] = c]
          /\ dst' = [dst EXCEPT ![n] = IdleDst] /\ src' = src /\ acquired' = acquired
          /\ back' = [back EXCEPT ![<<s, n>>] = Append(b, TRUE)]
      BY <2>3, <2>6, DstFields
    <3>2. Append(b, TRUE) \in Seq(BOOLEAN)
      BY <2>2, SeqAppend
    <3>3. IdleDst \in Loads /\ IdleDst.pc = "idle"
      BY DEF IdleDst, Loads
    <3>4. dst'[n] = IdleDst
      BY <3>1 DEF RoundInv, TypeInv
    <3> HIDE DEF s, t, c, b
    <3>5. Talks(src[s], dst'[n], c, Append(b, TRUE), s)
      BY <2>2, <3>1, <3>4, RefuseTalks
    <3>6. dst' = [dst EXCEPT ![n] = dst'[n]]
      BY <3>1, <3>4
    <3> QED
      BY <2>2, <3>1, <3>2, <3>3, <3>4, <3>5, <3>6, DstRound
  <2> QED
    BY <1>3, <2>4, <2>5, <2>6
<1> QED
  BY <1>1, <1>2, <1>3 DEF DstStep

LEMMA OtherKeepsRounds ==
  ASSUME RoundInv, AppStep \/ (\E n \in Nodes : \E job \in jobs[n] : RunJob(n, job)) \/ UNCHANGED vars
  PROVE  RoundInv'
<1>1. src' = src /\ dst' = dst /\ chan' = chan /\ back' = back /\ acquired' = acquired
  BY DEF AppStep, RunJob, Setup, Construct, Insert, MakeStep, Destroy, Destroyed, Allocate, links, vars
<1> QED
  BY <1>1 DEF RoundInv, TypeInv

LEMMA InitRounds == Init => RoundInv
<1> SUFFICES ASSUME Init PROVE RoundInv
  OBVIOUS
<1>1. IdleSrc \in SrcCalls /\ IdleDst \in Loads /\ <<>> \in Seq(Messages) /\ <<>> \in Seq(BOOLEAN)
  BY DEF IdleSrc, IdleDst, SrcCalls, Loads
<1>2. TypeInv
  BY <1>1 DEF Init, TypeInv
<1>3. Counted(IdleSrc) /\ IdleSrc.pc = "idle" /\ IdleSrc.dest = None /\ IdleDst.pc = "idle"
  BY DEF IdleSrc, IdleDst, Counted
<1>4. /\ \A n \in Nodes : src[n] = IdleSrc /\ dst[n] = IdleDst
      /\ \A n, d \in Nodes : chan[<<n, d>>] = <<>> /\ back[<<n, d>>] = <<>>
  BY DEF Init
<1> QED
  BY <1>2, <1>3, <1>4, ConstantsOK DEF RoundInv

LEMMA StepRoundInv == RoundInv /\ [Next]_vars => RoundInv'
<1> SUFFICES ASSUME RoundInv, [Next]_vars PROVE RoundInv'
  OBVIOUS
<1>1. CASE Start
  <2>1. PICK n \in Nodes, P \in (SUBSET Proclets) \ {{}} :
          \E ts \in SetToSeqs(P) : MainStart(n, ts) \/ PickAgain(n, ts)
    BY <1>1 DEF Start
  <2>2. P \in SUBSET Proclets
    OBVIOUS
  <2> QED
    BY <2>1, <2>2, StartKeepsRounds
<1>2. ASSUME NEW n \in Nodes, SrcStep(n)
      PROVE  RoundInv'
  BY <1>2, SrcKeepsRounds, RoundStartKeepsRounds, ReturnKeepsRounds, RoundEndKeepsRounds DEF SrcStep, SrcInner
<1>3. ASSUME NEW n \in Nodes, DstStep(n)
      PROVE  RoundInv'
  BY <1>3, DstKeepsRounds
<1>4. CASE AppStep \/ (\E n \in Nodes : \E job \in jobs[n] : RunJob(n, job)) \/ UNCHANGED vars
  BY <1>4, OtherKeepsRounds
<1> QED
  BY <1>1, <1>2, <1>3, <1>4 DEF Next

---------------------------------------------------------------------------
(* Tasks and messages, and the proclets they are about.                    *)

LEMMA CountedFacts ==
  ASSUME RoundInv, NEW n \in Nodes
  PROVE  /\ src[n] \in SrcCalls /\ Counted(src[n]) /\ dst[n] \in Loads
         /\ src[n].it \in Nat /\ src[n].i \in Nat /\ src[n].size \in Nat
         /\ src[n].tasks \in Seq(Proclets) /\ Len(src[n].tasks) \in Nat
         /\ src[n].it \in 1..Len(src[n].tasks) + 1 /\ src[n].i >= 1
         /\ Sent(src[n]) \in Nat
         /\ src[n].dest # None => /\ src[n].dest \in Nodes
                                  /\ src[n].size \in 1..Len(src[n].tasks) - src[n].it + 1
                                  /\ src[n].i \in 1..src[n].size + 1 /\ Sent(src[n]) <= src[n].size
         /\ src[n].dest = None => Sent(src[n]) = 0 /\ src[n].i = 1
<1>1. src[n] \in SrcCalls /\ Counted(src[n]) /\ dst[n] \in Loads
  BY DEF RoundInv, TypeInv
<1>2. /\ src[n].it \in Nat /\ src[n].i \in Nat /\ src[n].size \in Nat
      /\ src[n].tasks \in Seq(Proclets) /\ Len(src[n].tasks) \in Nat
      /\ src[n].dest \in Nodes \cup {None}
  BY <1>1, SrcIs
<1>3. /\ src[n].it \in 1..Len(src[n].tasks) + 1 /\ src[n].i >= 1
      /\ src[n].dest # None => /\ src[n].size \in 1..Len(src[n].tasks) - src[n].it + 1
                               /\ src[n].i \in 1..src[n].size + 1
      /\ src[n].pc = "sent" => src[n].i <= src[n].size
      /\ src[n].dest = None => src[n].i = 1 /\ src[n].pc # "sent"
  BY <1>1, <1>2 DEF Counted
<1>4. /\ Sent(src[n]) \in Nat
      /\ src[n].dest # None => Sent(src[n]) <= src[n].size
      /\ src[n].dest = None => Sent(src[n]) = 0
  BY <1>2, <1>3 DEF Sent
<1> QED
  BY <1>1, <1>2, <1>3, <1>4

(* Tasks of a round differ.                                                *)
LEMMA TasksDiffer ==
  ASSUME NEW s \in SrcCalls, Counted(s), s.dest # None,
         NEW j \in 1..s.size, NEW k \in 1..s.size, TaskOf(s, j) = TaskOf(s, k)
  PROVE  j = k
<1>1. s.it + j - 1 \in 1..Len(s.tasks) /\ s.it + k - 1 \in 1..Len(s.tasks)
  BY TaskIs
<1>2. s.it + j - 1 = s.it + k - 1
  BY <1>1 DEF Counted, TaskOf
<1>3. s.it \in Nat
  BY SrcIs
<1> QED
  BY <1>2, <1>3

(* The proclets of a call that are not sent yet: not those that are.       *)
LEMMA SentNotUnsent ==
  ASSUME RoundInv, NEW n \in Nodes, src[n].dest # None, NEW k \in 1..Sent(src[n])
  PROVE  TaskOf(src[n], k) \notin Unsent(n) /\ TaskOf(src[n], k) \in Range(src[n].tasks)
<1> DEFINE s == src[n]
<1>1. /\ s \in SrcCalls /\ Counted(s) /\ s.it \in Nat /\ Sent(s) \in Nat /\ Sent(s) <= s.size
      /\ s.size \in Nat /\ Len(s.tasks) \in Nat /\ s.it >= 1
  BY CountedFacts
<1>2. s.it + k - 1 \in 1..Len(s.tasks) /\ TaskOf(s, k) = s.tasks[s.it + k - 1]
  BY <1>1, TaskIs DEF TaskOf
<1>3. \A j \in s.it + Sent(s) .. Len(s.tasks) : s.tasks[j] # s.tasks[s.it + k - 1]
  <2> TAKE j \in s.it + Sent(s) .. Len(s.tasks)
  <2>1. j \in 1..Len(s.tasks) /\ j # s.it + k - 1
    BY <1>1
  <2> QED
    BY <1>1, <1>2, <2>1 DEF Counted
<1>4. s.tasks \in Seq(Proclets)
  BY <1>1, SrcIs
<1> QED
  BY <1>2, <1>3, <1>4 DEF Unsent, Range

LEMMA TasksArePicked ==
  ASSUME RoundInv, NEW n \in Nodes
  PROVE  /\ Unsent(n) \subseteq Range(src[n].tasks)
         /\ Range(src[n].tasks) \subseteq Picked /\ Picked \subseteq Proclets
         /\ src[n].dest # None =>
              \A k \in 1..src[n].size :
                TaskOf(src[n], k) \in Picked /\ (k > Sent(src[n]) => TaskOf(src[n], k) \in Unsent(n))
<1>1. \A m \in Nodes : Range(src[m].tasks) \subseteq Proclets
  <2> TAKE m \in Nodes
  <2>1. src[m].tasks \in Seq(Proclets)
    BY CountedFacts
  <2> QED
    BY <2>1 DEF Range
<1>2. Range(src[n].tasks) \subseteq Picked /\ Picked \subseteq Proclets
  BY <1>1 DEF Picked
<1>3. /\ src[n].it \in 1..Len(src[n].tasks) + 1 /\ Len(src[n].tasks) \in Nat /\ Sent(src[n]) \in Nat
      /\ src[n].tasks \in Seq(Proclets) /\ src[n] \in SrcCalls /\ Counted(src[n]) /\ src[n].it \in Nat
      /\ src[n].size \in Nat
  BY CountedFacts
<1>4. Unsent(n) \subseteq Range(src[n].tasks)
  BY <1>3 DEF Unsent, Range
<1>5. ASSUME src[n].dest # None, NEW k \in 1..src[n].size
      PROVE  TaskOf(src[n], k) \in Range(src[n].tasks) /\ (k > Sent(src[n]) => TaskOf(src[n], k) \in Unsent(n))
  <2>1. src[n].it + k - 1 \in 1..Len(src[n].tasks) /\ TaskOf(src[n], k) = src[n].tasks[src[n].it + k - 1]
    BY <1>3, <1>5, TaskIs DEF TaskOf
  <2>2. k > Sent(src[n]) => src[n].it + k - 1 \in src[n].it + Sent(src[n]) .. Len(src[n].tasks)
    BY <1>3, <2>1
  <2> QED
    BY <1>3, <2>1, <2>2 DEF Unsent, Range
<1> QED
  BY <1>2, <1>4, <1>5

(* A copy on a connection is of a task that was sent and is not loaded.    *)
LEMMA CopyIs ==
  ASSUME RoundInv, NEW n \in Nodes, NEW d \in Nodes, src[n].dest = d, NEW p,
         NEW k \in 1..Len(chan[<<n, d>>]), chan[<<n, d>>][k] = Copying(p)
  PROVE  \E j \in 1..Sent(src[n]) :
           /\ p = TaskOf(src[n], j)
           /\ dst[d].pc # "idle" => j = dst[d].i - 1 + k
<1> DEFINE s == src[n]
           c == chan[<<n, d>>]
<1>1. Talks(s, dst[d], c, back[<<n, d>>], n) /\ c \in Seq(Messages) /\ Sent(s) \in Nat
      /\ s \in SrcCalls /\ dst[d] \in Loads
  BY Types, CountedFacts DEF RoundInv, Typed
<1>2. \A q, j : About(s, Copying(q), j) => q = TaskOf(s, j)
  <2> TAKE q, j
  <2>1. \A r : Copying(q) = Copying(r) => q = r
    BY DEF Copying
  <2>2. Copying(q) # Skipping
    BY DEF Copying, Skipping
  <2> QED
    BY <2>1, <2>2 DEF About
<1>3. CASE Before(s, dst[d], c, back[<<n, d>>])
  <2>1. k # 1
    <3>1. PICK ts : c[1] = Listing(ts)
      BY <1>3 DEF Before
    <3>2. Copying(p) # Listing(ts)
      BY DEF Copying, Listing
    <3> QED
      BY <3>1, <3>2
  <2>2. Len(c) = Sent(s) + 1 /\ \A j \in 1..Sent(s) : About(s, c[j + 1], j)
    BY <1>3 DEF Before
  <2>3. k - 1 \in 1..Sent(s) /\ (k - 1) + 1 = k
    BY <1>1, <2>1, <2>2
  <2>4. About(s, c[k], k - 1)
    BY <2>2, <2>3
  <2>5. dst[d].pc = "idle"
    BY <1>3 DEF Before, IdleDst
  <2> QED
    BY <1>2, <2>3, <2>4, <2>5
<1>4. CASE During(s, dst[d], c, back[<<n, d>>], n)
  <2>1. /\ Len(c) = Sent(s) + 1 - dst[d].i /\ dst[d].i \in Nat /\ dst[d].i >= 1
        /\ About(s, c[k], dst[d].i - 1 + k)
    <3>1. dst[d].i \in Nat /\ s.size \in Nat
      BY <1>1, SrcIs, LoadIs
    <3>2. Len(c) = Sent(s) + 1 - dst[d].i /\ dst[d].i \in 1..s.size + 1
      BY <1>4 DEF During
    <3>3. About(s, c[k], dst[d].i - 1 + k)
      BY <1>4 DEF During
    <3> QED
      BY <3>1, <3>2, <3>3
  <2>2. dst[d].i - 1 + k \in 1..Sent(s)
    BY <1>1, <2>1
  <2> QED
    BY <1>2, <2>1, <2>2
<1>5. ~After(s, dst[d], c, back[<<n, d>>])
  BY DEF After
<1> QED
  BY <1>1, <1>3, <1>4, <1>5 DEF Talks

LEMMA LeavingIs ==
  ASSUME NEW p
  PROVE  LeavingFrom(p) = {n \in Nodes : Leaves(n, p)}
  BY DEF LeavingFrom, Leaves, Copies, Ready, Copying, Task, TaskOf

LEMMA CopiesIs ==
  ASSUME RoundInv, NEW n \in Nodes, NEW p
  PROVE  Copies(n, p) <=> /\ src[n].dest \in Nodes
                          /\ \E k \in 1..Len(chan[<<n, src[n].dest>>]) :
                               chan[<<n, src[n].dest>>][k] = Copying(p)
<1>1. src[n].dest # None <=> src[n].dest \in Nodes
  BY CountedFacts, ConstantsOK
<1>2. src[n].dest \in Nodes => chan[<<n, src[n].dest>>] \in Seq(Messages)
  BY Types DEF RoundInv, Typed
<1>3. src[n].dest \in Nodes => Range(chan[<<n, src[n].dest>>]) =
        {chan[<<n, src[n].dest>>][k] : k \in 1..Len(chan[<<n, src[n].dest>>])}
  BY <1>2 DEF Range
<1> QED
  BY <1>1, <1>3 DEF Copies

(* What leaves has been sent or is about to be.                            *)
LEMMA LeavesIs ==
  ASSUME RoundInv, NEW n \in Nodes, NEW p, Leaves(n, p)
  PROVE  /\ src[n].dest \in Nodes /\ src[n].dest # None /\ src[n] \in SrcCalls /\ Counted(src[n])
         /\ \E k \in 1..src[n].size :
              /\ p = TaskOf(src[n], k)
              /\ k <= Sent(src[n]) \/ (src[n].pc = "send" /\ k = src[n].i /\ k = Sent(src[n]) + 1)
              /\ Copies(n, p) => k <= Sent(src[n])
         /\ p \in Picked
<1>1. /\ src[n].dest \in Nodes /\ src[n].dest # None /\ src[n] \in SrcCalls /\ Counted(src[n])
      /\ Sent(src[n]) \in Nat /\ Sent(src[n]) <= src[n].size /\ src[n].size \in Nat /\ src[n].i \in Nat
      /\ src[n].i >= 1
  BY CountedFacts DEF Leaves, Copies, Ready
<1>2. CASE Copies(n, p)
  <2>1. PICK k \in 1..Len(chan[<<n, src[n].dest>>]) : chan[<<n, src[n].dest>>][k] = Copying(p)
    BY <1>2, CopiesIs
  <2>2. PICK j \in 1..Sent(src[n]) : p = TaskOf(src[n], j)
    BY <1>1, <2>1, CopyIs
  <2>3. j \in 1..src[n].size
    BY <1>1, <2>2
  <2> QED
    BY <1>1, <2>2, <2>3, TasksArePicked
<1>3. CASE ~Copies(n, p)
  <2>1. src[n].pc = "send" /\ TaskOf(src[n], src[n].i) = p
    BY <1>3 DEF Leaves, Ready
  <2>2. src[n].i \in 1..src[n].size
    BY <1>1, <2>1 DEF Counted
  <2>3. Sent(src[n]) = src[n].i - 1
    BY <2>1 DEF Sent
  <2> QED
    BY <1>1, <1>3, <2>1, <2>2, <2>3, TasksArePicked
<1> QED
  BY <1>2, <1>3

(* What is still to be loaded is a task of the round.                      *)
LEMMA RestIs ==
  ASSUME RoundInv, NEW n \in Nodes, NEW p \in Rest(n)
  PROVE  /\ dst[n].pc # "idle" /\ p \in Range(dst[n].tasks)
         /\ \E m \in Nodes : \E k \in dst[n].i..src[m].size :
              /\ src[m].dest = n /\ m = dst[n].from /\ p = TaskOf(src[m], k)
              /\ p = dst[n].tasks[k] /\ k \in 1..src[m].size
         /\ p \in Picked
<1>1. dst[n] \in Loads /\ dst[n].tasks \in Seq(Proclets) /\ dst[n].i \in Nat /\ Len(dst[n].tasks) \in Nat
  BY CountedFacts, LoadIs
<1>2. PICK k \in dst[n].i .. Len(dst[n].tasks) : p = dst[n].tasks[k]
  BY DEF Rest
<1>3. dst[n].pc # "idle"
  <2>1. SUFFICES ASSUME dst[n].pc = "idle" PROVE FALSE
    OBVIOUS
  <2>2. dst[n] = IdleDst
    BY <2>1 DEF RoundInv
  <2>3. dst[n].tasks = <<>> /\ dst[n].i = 1
    BY <2>2 DEF IdleDst
  <2> QED
    BY <1>2, <2>3, EmptySeq
<1> DEFINE m == dst[n].from
<1>4. /\ m \in Nodes /\ src[m].dest = n /\ src[m].dest # None
      /\ Talks(src[m], dst[n], chan[<<m, n>>], back[<<m, n>>], m)
      /\ src[m] \in SrcCalls /\ Counted(src[m])
      /\ chan[<<m, n>>] \in Seq(Messages) /\ back[<<m, n>>] \in Seq(BOOLEAN)
  BY <1>3, SourceOf
<1>5. /\ During(src[m], dst[n], chan[<<m, n>>], back[<<m, n>>], m)
      /\ Len(dst[n].tasks) = src[m].size /\ dst[n].i >= 1 /\ src[m].size \in Nat
  BY <1>1, <1>3, <1>4, Running
<1>6. k \in 1..src[m].size /\ dst[n].tasks[k] = TaskOf(src[m], k)
  <2>1. k \in 1..src[m].size
    BY <1>1, <1>2, <1>5
  <2> QED
    BY <1>5, <2>1 DEF During, Same
<1>7. p \in Picked
  BY <1>2, <1>4, <1>6, TasksArePicked
<1>8. p \in Range(dst[n].tasks)
  BY <1>1, <1>2, <1>5, <1>6 DEF Range
<1> QED
  BY <1>2, <1>3, <1>4, <1>5, <1>6, <1>7, <1>8

(* While the list of the tasks is on its way no task is loaded.            *)
LEMMA ListedIs ==
  ASSUME RoundInv, NEW n \in Nodes, NEW p \in Listed(n)
  PROVE  /\ src[n].dest \in Nodes /\ src[n].dest # None /\ dst[src[n].dest].pc = "idle"
         /\ \E k \in 1..src[n].size : p = TaskOf(src[n], k)
         /\ p \in Picked
<1>1. PICK d \in Nodes, ts \in Seq(Proclets) :
        /\ src[n].dest = d /\ chan[<<n, d>>] # <<>>
        /\ chan[<<n, d>>][1] = Listing(ts) /\ p \in Range(ts)
  BY DEF Listed
<1>2. /\ Talks(src[n], dst[d], chan[<<n, d>>], back[<<n, d>>], n)
      /\ chan[<<n, d>>] \in Seq(Messages) /\ d # None
  BY <1>1, Types, ConstantsOK DEF RoundInv, Typed
<1>3. ~During(src[n], dst[d], chan[<<n, d>>], back[<<n, d>>], n)
  <2> SUFFICES ASSUME During(src[n], dst[d], chan[<<n, d>>], back[<<n, d>>], n) PROVE FALSE
    OBVIOUS
  <2>1. 1 \in 1..Len(chan[<<n, d>>])
    BY <1>1, <1>2, SeqTail
  <2>2. About(src[n], chan[<<n, d>>][1], dst[d].i - 1 + 1)
    BY <2>1 DEF During
  <2> QED
    BY <1>1, <2>2 DEF About, Listing, Skipping, Copying
<1>4. Before(src[n], dst[d], chan[<<n, d>>], back[<<n, d>>])
  BY <1>1, <1>2, <1>3 DEF Talks, After
<1>5. PICK us \in Seq(Proclets) : chan[<<n, d>>][1] = Listing(us) /\ Same(us, src[n])
  BY <1>4 DEF Before
<1>6. us = ts
  BY <1>1, <1>5 DEF Listing
<1>7. PICK k \in 1..Len(ts) : p = ts[k]
  BY <1>1 DEF Range
<1>8. k \in 1..src[n].size /\ p = TaskOf(src[n], k)
  BY <1>5, <1>6, <1>7 DEF Same
<1>9. dst[d].pc = "idle"
  BY <1>4 DEF Before, IdleDst
<1> QED
  BY <1>1, <1>2, <1>8, <1>9, TasksArePicked

---------------------------------------------------------------------------
(* How a step changes who sends what, and who loads it.                    *)

LEMMA RangeSeq ==
  ASSUME NEW S, NEW q \in Seq(S)
  PROVE  Range(q) = {q[k] : k \in 1..Len(q)}
  BY DEF Range

LEMMA RangeAppend ==
  ASSUME NEW S, NEW q \in Seq(S), NEW e \in S
  PROVE  \A x : x \in Range(Append(q, e)) <=> x \in Range(q) \/ x = e
<1>1. /\ Append(q, e) \in Seq(S) /\ Len(Append(q, e)) = Len(q) + 1 /\ Len(q) \in Nat
      /\ \A k \in 1..Len(q) : Append(q, e)[k] = q[k]
      /\ Append(q, e)[Len(q) + 1] = e
  BY SeqAppend
<1>2. Range(Append(q, e)) = {Append(q, e)[k] : k \in 1..Len(q) + 1} /\ Range(q) = {q[k] : k \in 1..Len(q)}
  <2>1. Range(Append(q, e)) = {Append(q, e)[k] : k \in 1..Len(Append(q, e))}
    BY <1>1, RangeSeq
  <2> QED
    BY <1>1, <2>1, RangeSeq
<1>3. ASSUME NEW x \in Range(Append(q, e)) PROVE x \in Range(q) \/ x = e
  <2>1. PICK k \in 1..Len(q) + 1 : x = Append(q, e)[k]
    BY <1>2, <1>3
  <2>2. CASE k = Len(q) + 1
    BY <1>1, <2>1, <2>2
  <2>3. CASE k \in 1..Len(q)
    BY <1>1, <1>2, <2>1, <2>3
  <2> QED
    BY <1>1, <2>1, <2>2, <2>3
<1>4. \A x \in Range(q) : x \in Range(Append(q, e))
  <2> TAKE x \in Range(q)
  <2>1. PICK k \in 1..Len(q) : x = q[k]
    BY <1>2
  <2>2. k \in 1..Len(q) + 1 /\ x = Append(q, e)[k]
    BY <1>1, <2>1
  <2> QED
    BY <1>2, <2>2
<1>5. e \in Range(Append(q, e))
  BY <1>1, <1>2
<1> QED
  BY <1>3, <1>4, <1>5

LEMMA RangeTail ==
  ASSUME NEW S, NEW q \in Seq(S), q # <<>>
  PROVE  \A x : x \in Range(q) <=> x = Head(q) \/ x \in Range(Tail(q))
<1>1. /\ Len(q) \in Nat \ {0} /\ Head(q) = q[1]
      /\ Tail(q) \in Seq(S) /\ Len(Tail(q)) = Len(q) - 1
      /\ \A k \in 1..Len(q) - 1 : Tail(q)[k] = q[k + 1]
  BY SeqTail
<1>2. Range(q) = {q[k] : k \in 1..Len(q)} /\ Range(Tail(q)) = {Tail(q)[k] : k \in 1..Len(q) - 1}
  <2>1. Range(Tail(q)) = {Tail(q)[k] : k \in 1..Len(Tail(q))}
    BY <1>1, RangeSeq
  <2> QED
    BY <1>1, <2>1, RangeSeq
<1>3. ASSUME NEW x \in Range(q) PROVE x = Head(q) \/ x \in Range(Tail(q))
  <2>1. PICK k \in 1..Len(q) : x = q[k]
    BY <1>2, <1>3
  <2>2. CASE k # 1
    <3>1. k - 1 \in 1..Len(q) - 1 /\ (k - 1) + 1 = k
      BY <1>1, <2>2
    <3>2. x = Tail(q)[k - 1]
      BY <1>1, <2>1, <3>1
    <3> QED
      BY <1>2, <3>1, <3>2
  <2> QED
    BY <1>1, <2>1, <2>2
<1>4. \A x \in Range(Tail(q)) : x \in Range(q)
  <2> TAKE x \in Range(Tail(q))
  <2>1. PICK k \in 1..Len(q) - 1 : x = Tail(q)[k]
    BY <1>2
  <2>2. k + 1 \in 1..Len(q) /\ x = q[k + 1]
    BY <1>1, <2>1
  <2> QED
    BY <1>2, <2>2
<1>5. Head(q) \in Range(q)
  BY <1>1, <1>2
<1> QED
  BY <1>3, <1>4, <1>5

(* Of the list of a round nothing is left when its load has started.       *)
ListIsRead ==
  \A n, d \in Nodes : src[n].dest = d /\ dst[d].pc # "idle" => Listed(n) = {}

LEMMA ListRead == RoundInv => ListIsRead
<1> SUFFICES ASSUME RoundInv, NEW n \in Nodes, NEW d \in Nodes, src[n].dest = d, dst[d].pc # "idle",
                    NEW p \in Listed(n)
             PROVE  FALSE
  BY DEF ListIsRead
<1> QED
  BY ListedIs

LEMMA ListReadNext == RoundInv' => ListIsRead'
  BY ListRead, PTL

(* What a node sends is a matter of its call and its connections.          *)
LEMMA SenderSame ==
  ASSUME NEW n \in Nodes, src'[n] = src[n], \A d \in Nodes : chan'[<<n, d>>] = chan[<<n, d>>],
         src[n].dest \in Nodes \cup {None}
  PROVE  /\ \A p : (Leaves(n, p)' <=> Leaves(n, p)) /\ (Sending(n, p)' <=> Sending(n, p))
         /\ Unsent(n)' = Unsent(n) /\ Listed(n)' = Listed(n)
<1>1. \A p : Leaves(n, p)' <=> Leaves(n, p)
  BY DEF Leaves, Copies, Ready
<1>2. \A p : Sending(n, p)' <=> Sending(n, p)
  BY DEF Sending
<1>3. Unsent(n)' = Unsent(n)
  BY DEF Unsent
<1>4. Listed(n)' = Listed(n)
  BY DEF Listed
<1> QED
  BY <1>1, <1>2, <1>3, <1>4

(* Nothing changes but that a node may have less to send.                  *)
ListsKept ==
  /\ \A n \in Nodes, p \in Proclets :
       /\ Leaves(n, p)' <=> Leaves(n, p)
       /\ Sending(n, p)' <=> Sending(n, p)
       /\ p \in Pending(n)' => p \in Pending(n)
       /\ p \in Rest(n)' <=> p \in Rest(n)
  /\ Picked' \subseteq Picked

(* A step of the call at n leaves the others alone.                        *)
LEMMA CallFrame ==
  ASSUME RoundInv, NEW n \in Nodes, src' = [src EXCEPT ![n] = src'[n]], dst' = dst,
         \A m, d \in Nodes : m # n => chan'[<<m, d>>] = chan[<<m, d>>]
  PROVE  /\ \A m \in Nodes : m # n =>
              /\ \A p : (Leaves(m, p)' <=> Leaves(m, p)) /\ (Sending(m, p)' <=> Sending(m, p))
              /\ Pending(m)' = Pending(m)
         /\ \A m \in Nodes : Rest(m)' = Rest(m)
         /\ \A p \in Picked' : p \in Picked \/ p \in Range(src'[n].tasks)
<1>1. \A m \in Nodes : m # n => src'[m] = src[m]
  BY DEF RoundInv, TypeInv
<1>2. ASSUME NEW m \in Nodes, m # n
      PROVE  /\ \A p : (Leaves(m, p)' <=> Leaves(m, p)) /\ (Sending(m, p)' <=> Sending(m, p))
             /\ Pending(m)' = Pending(m)
  <2>1. src[m].dest \in Nodes \cup {None}
    BY CountedFacts
  <2>2. src'[m] = src[m] /\ \A d \in Nodes : chan'[<<m, d>>] = chan[<<m, d>>]
    BY <1>1, <1>2
  <2>3. /\ \A p : (Leaves(m, p)' <=> Leaves(m, p)) /\ (Sending(m, p)' <=> Sending(m, p))
        /\ Unsent(m)' = Unsent(m) /\ Listed(m)' = Listed(m)
    BY <2>1, <2>2, SenderSame
  <2> QED
    BY <2>3 DEF Pending
<1>3. \A m \in Nodes : Rest(m)' = Rest(m)
  BY DEF Rest
<1>4. ASSUME NEW p \in Picked' PROVE p \in Picked \/ p \in Range(src'[n].tasks)
  <2>1. PICK m \in Nodes : p \in Range(src'[m].tasks)
    BY <1>4 DEF Picked
  <2>2. m # n => p \in Range(src[m].tasks)
    BY <1>1, <2>1
  <2> QED
    BY <2>1, <2>2 DEF Picked
<1> QED
  BY <1>2, <1>3, <1>4

(* A message after those on the connection.                                *)
LEMMA SentMessage ==
  ASSUME RoundInv, NEW n \in Nodes, src[n].dest \in Nodes, src'[n].dest = src[n].dest,
         NEW m \in Messages, chan' = [chan EXCEPT ![<<n, src[n].dest>>] = Append(@, m)],
         m.type # "tasks"
  PROVE  /\ \A p : Copies(n, p)' <=> Copies(n, p) \/ m = Copying(p)
         /\ Listed(n)' \subseteq Listed(n)
         /\ \A k, d \in Nodes : k # n => chan'[<<k, d>>] = chan[<<k, d>>]
<1> DEFINE d == src[n].dest
           c == chan[<<n, d>>]
<1>1. c \in Seq(Messages) /\ DOMAIN chan = Nodes \X Nodes /\ d # None
  BY Types, ConstantsOK DEF RoundInv, Typed
<1>2. chan'[<<n, d>>] = Append(c, m) /\ \A k, e \in Nodes : k # n => chan'[<<k, e>>] = chan[<<k, e>>]
  BY <1>1
<1>3. \A x : x \in Range(Append(c, m)) <=> x \in Range(c) \/ x = m
  BY <1>1, RangeAppend
<1>4. \A p : Copies(n, p)' <=> Copies(n, p) \/ m = Copying(p)
  <2> TAKE p
  <2>1. Copies(n, p) <=> Copying(p) \in Range(c)
    BY <1>1 DEF Copies
  <2>2. Copies(n, p)' <=> Copying(p) \in Range(chan'[<<n, d>>])
    BY <1>1 DEF Copies, Copying
  <2> QED
    BY <1>2, <1>3, <2>1, <2>2
<1>5. ASSUME NEW p \in Listed(n)' PROVE p \in Listed(n)
  <2>1. PICK e \in Nodes, ts \in Seq(Proclets) :
          /\ src'[n].dest = e /\ chan'[<<n, e>>] # <<>>
          /\ chan'[<<n, e>>][1] = Listing(ts) /\ p \in Range(ts) /\ p \in Proclets
    BY <1>5 DEF Listed, Listing
  <2>2. e = d /\ Append(c, m)[1] = Listing(ts)
    BY <1>2, <2>1
  <2>3. Listing(ts).type = "tasks"
    BY DEF Listing
  <2>4. c # <<>>
    <3> SUFFICES ASSUME c = <<>> PROVE FALSE
      OBVIOUS
    <3>1. Append(<<>>, m)[1] = m
      OBVIOUS
    <3> QED
      BY <2>2, <2>3, <3>1
  <2>5. c[1] = Listing(ts)
    <3>1. 1 \in 1..Len(c)
      BY <1>1, <2>4, SeqTail
    <3>2. Append(c, m)[1] = c[1]
      BY <1>1, <3>1, SeqAppend
    <3> QED
      BY <2>2, <3>2
  <2> QED
    BY <2>1, <2>2, <2>4, <2>5 DEF Listed
<1> QED
  BY <1>2, <1>4, <1>5

LEMMA NoMessage ==
  ASSUME NEW n \in Nodes, src'[n].dest = src[n].dest, chan' = chan
  PROVE  /\ \A p : Copies(n, p)' <=> Copies(n, p)
         /\ Listed(n)' = Listed(n)
<1>1. \A p : Copies(n, p)' <=> Copies(n, p)
  BY DEF Copies, Copying
<1>2. Listed(n)' = Listed(n)
  BY DEF Listed
<1> QED
  BY <1>1, <1>2

(* A call that has sent no less than before.                               *)
LEMMA UnsentLess ==
  ASSUME RoundInv, NEW n \in Nodes, src'[n].tasks = src[n].tasks,
         src'[n].it + Sent(src'[n]) \in Nat, src'[n].it + Sent(src'[n]) >= src[n].it + Sent(src[n])
  PROVE  Unsent(n)' \subseteq Unsent(n)
<1>1. Sent(src[n]) \in Nat /\ src[n].it \in Nat /\ Len(src[n].tasks) \in Nat
  BY CountedFacts
<1>2. Unsent(n)' = {src[n].tasks[k] : k \in src'[n].it + Sent(src'[n]) .. Len(src[n].tasks)}
  BY DEF Unsent, Sent
<1>3. \A k \in src'[n].it + Sent(src'[n]) .. Len(src[n].tasks) : k \in src[n].it + Sent(src[n]) .. Len(src[n].tasks)
  BY <1>1
<1> QED
  BY <1>2, <1>3 DEF Unsent

(* All of it, for a step of the call at n that picks no tasks.             *)
LEMMA CallLists ==
  ASSUME RoundInv, NEW n \in Nodes, src' = [src EXCEPT ![n] = src'[n]], dst' = dst,
         \A m, d \in Nodes : m # n => chan'[<<m, d>>] = chan[<<m, d>>],
         src'[n].tasks = src[n].tasks \/ src'[n].tasks = <<>>,
         \A p \in Proclets : /\ Leaves(n, p)' <=> Leaves(n, p)
                             /\ Sending(n, p)' <=> Sending(n, p)
                             /\ p \in Pending(n)' => p \in Pending(n)
  PROVE  ListsKept
<1>1. /\ \A m \in Nodes : m # n =>
              /\ \A p : (Leaves(m, p)' <=> Leaves(m, p)) /\ (Sending(m, p)' <=> Sending(m, p))
              /\ Pending(m)' = Pending(m)
      /\ \A m \in Nodes : Rest(m)' = Rest(m)
      /\ \A p \in Picked' : p \in Picked \/ p \in Range(src'[n].tasks)
  BY CallFrame
<1>2. \A p \in Range(src'[n].tasks) : p \in Picked
  <2>1. Range(<<>>) = {}
    BY DEF Range
  <2>2. src'[n].tasks = src[n].tasks => Range(src'[n].tasks) \subseteq Picked
    BY DEF Picked
  <2> QED
    BY <2>1, <2>2
<1> QED
  BY <1>1, <1>2 DEF ListsKept

(* Within a round of n: what is being sent may change, and p is that.      *)
SrcLists(n) ==
  /\ \A m \in Nodes, p \in Proclets :
       /\ m # n => (Leaves(m, p)' <=> Leaves(m, p)) /\ (Sending(m, p)' <=> Sending(m, p))
       /\ p \in Pending(m)' => p \in Pending(m)
       /\ p \in Rest(m)' <=> p \in Rest(m)
  /\ Picked' \subseteq Picked

LEMMA InnerLists ==
  ASSUME RoundInv, NEW n \in Nodes, SrcInner(n)
  PROVE  SrcLists(n)
<1> DEFINE s == src[n]
           d == src[n].dest
<1>1. PICK i, pc : SrcBecomes(n, i, pc)
  BY SrcFields DEF SrcInner
<1>2. /\ SameRound(src'[n], s) /\ dst' = dst /\ src' = [src EXCEPT ![n] = src'[n]]
      /\ src'[n].dest = d /\ src'[n].tasks = s.tasks /\ src'[n].it = s.it /\ src'[n].size = s.size
  BY <1>1 DEF SrcBecomes, SameRound
<1>3. /\ s.pc \in {"task", "mark", "send", "sent"} /\ s.dest # None /\ s.i \in Nat /\ s.i >= 1
      /\ d \in Nodes /\ Counted(s) /\ s \in SrcCalls /\ s.it \in Nat /\ s.size \in Nat /\ s.i <= s.size
  <2>1. s.pc \in {"task", "mark", "send", "sent"}
    BY SrcFields DEF SrcInner
  <2>2. s.dest # None /\ s.i <= s.size
    BY <2>1, CountedFacts DEF Counted
  <2> QED
    BY <2>1, <2>2, CountedFacts
<1>4. TaskOf(s, s.i) \in Proclets
  <2>1. s.i \in 1..s.size
    BY <1>3
  <2> QED
    BY <1>3, <2>1, TaskIs
<1>5. chan' = chan \/ \E m \in Messages : /\ m.type # "tasks"
                                         /\ chan' = [chan EXCEPT ![<<n, d>>] = Append(@, m)]
  <2>1. Skipping.type # "tasks" /\ Copying(TaskOf(s, s.i)).type # "tasks"
    BY DEF Skipping, Copying
  <2> QED
    BY <1>4, <2>1, SrcFields, MessageIs DEF SrcInner, Puts
<1>6. /\ Listed(n)' \subseteq Listed(n)
      /\ \A m, e \in Nodes : m # n => chan'[<<m, e>>] = chan[<<m, e>>]
  BY <1>2, <1>3, <1>5, SentMessage, NoMessage
<1>7. Sent(src'[n]) \in Nat /\ Sent(src'[n]) >= Sent(s) /\ Sent(s) \in Nat
  <2>1. SrcApproval(n) => s.pc = "task" /\ src'[n].i = s.i /\ src'[n].pc # "sent"
    BY SrcFields DEF SrcBecomes
  <2>2. SrcSkip(n) => s.pc # "sent" /\ src'[n].i = s.i + 1 /\ src'[n].pc # "sent"
    BY SrcFields DEF SrcBecomes
  <2>3. SrcMark(n) => s.pc # "sent" /\ src'[n].i = s.i /\ src'[n].pc # "sent"
    BY SrcFields DEF SrcBecomes
  <2>4. SrcSend(n) => s.pc # "sent" /\ src'[n].i = s.i /\ src'[n].pc = "sent"
    BY SrcFields DEF SrcBecomes
  <2>5. SrcCleaning(n) => s.pc = "sent" /\ src'[n].i = s.i + 1 /\ src'[n].pc # "sent"
    BY SrcFields DEF SrcBecomes
  <2> QED
    BY <1>3, <2>1, <2>2, <2>3, <2>4, <2>5 DEF SrcInner, Sent
<1>8. Unsent(n)' \subseteq Unsent(n)
  BY <1>2, <1>3, <1>7, UnsentLess
<1>9. Pending(n)' \subseteq Pending(n)
  BY <1>6, <1>8 DEF Pending
<1>10. /\ \A m \in Nodes : m # n =>
              /\ \A p : (Leaves(m, p)' <=> Leaves(m, p)) /\ (Sending(m, p)' <=> Sending(m, p))
              /\ Pending(m)' = Pending(m)
       /\ \A m \in Nodes : Rest(m)' = Rest(m)
       /\ \A p \in Picked' : p \in Picked \/ p \in Range(src'[n].tasks)
  BY <1>2, <1>6, CallFrame
<1>11. Picked' \subseteq Picked
  BY <1>2, <1>10, TasksArePicked
<1>12. \A m \in Nodes, p \in Proclets : p \in Pending(m)' => p \in Pending(m)
  BY <1>9, <1>10
<1> QED
  BY <1>10, <1>11, <1>12 DEF SrcLists

(* An approval, a task that is skipped or a proclet that is sent: what     *)
(* leaves, leaves.                                                         *)
LEMMA QuietLists ==
  ASSUME RoundInv, NEW n \in Nodes, SrcApproval(n) \/ SrcSkip(n) \/ SrcSend(n)
  PROVE  ListsKept
<1> DEFINE s == src[n]
           d == src[n].dest
<1>1. SrcLists(n) /\ SrcInner(n)
  BY InnerLists DEF SrcInner
<1>2. PICK i, pc : SrcBecomes(n, i, pc)
  BY SrcFields
<1>3. src'[n].dest = d /\ \A k : TaskOf(src'[n], k) = TaskOf(s, k)
  BY <1>2, SameTasks, CountedFacts DEF SrcBecomes, SameRound
<1>4. d \in Nodes /\ s.i \in Nat /\ d # None
  <2>1. s.pc \in {"task", "mark", "send"}
    BY SrcFields
  <2> QED
    BY <2>1, CountedFacts DEF Counted
<1>5. ASSUME NEW p \in Proclets
      PROVE  (Leaves(n, p)' <=> Leaves(n, p)) /\ (Sending(n, p)' <=> Sending(n, p))
  <2>1. CASE SrcApproval(n)
    <3>1. s.pc = "task" /\ src'[n].pc \notin {"send", "sent"} /\ chan' = chan
      BY <2>1, SrcFields DEF SrcBecomes
    <3>2. Copies(n, p)' <=> Copies(n, p)
      BY <1>3, <3>1, NoMessage
    <3> QED
      BY <3>1, <3>2 DEF Leaves, Ready, Sending
  <2>2. CASE SrcSkip(n)
    <3>1. s.pc \in {"task", "mark"} /\ src'[n].pc \notin {"send", "sent"}
          /\ chan' = [chan EXCEPT ![<<n, d>>] = Append(@, Skipping)]
      BY <2>2, SrcFields DEF SrcBecomes, Puts
    <3>2. Skipping \in Messages /\ Skipping.type # "tasks" /\ Skipping # Copying(p)
      BY MessageIs DEF Skipping, Copying
    <3>3. Copies(n, p)' <=> Copies(n, p)
      BY <1>3, <1>4, <3>1, <3>2, SentMessage
    <3> QED
      BY <3>1, <3>3 DEF Leaves, Ready, Sending
  <2>3. CASE SrcSend(n)
    <3> DEFINE q == TaskOf(s, s.i)
    <3>1. s.pc = "send" /\ src'[n].pc = "sent" /\ src'[n].i = s.i
          /\ chan' = [chan EXCEPT ![<<n, d>>] = Append(@, Copying(q))]
      BY <2>3, SrcFields DEF SrcBecomes, Puts
    <3>2. q \in Proclets
      <4>1. s.size \in Nat /\ s.i >= 1 /\ s \in SrcCalls /\ Counted(s)
        BY CountedFacts
      <4>2. s.i <= s.size
        BY <3>1, <4>1 DEF Counted
      <4> QED
        BY <1>4, <4>1, <4>2, TaskIs
    <3>3. Copying(q) \in Messages /\ Copying(q).type # "tasks" /\ (Copying(q) = Copying(p) <=> q = p)
      BY <3>2, MessageIs DEF Copying
    <3>4. TaskOf(src'[n], src'[n].i) = q
      BY <1>3, <3>1
    <3> HIDE DEF q
    <3>5. Copies(n, p)' <=> Copies(n, p) \/ p = q
      BY <1>3, <1>4, <3>1, <3>3, SentMessage
    <3>6. (Ready(n, p) <=> p = q) /\ ~Ready(n, p)'
      BY <1>4, <3>1 DEF Ready, q
    <3>7. (Sending(n, p) <=> p = q)
      BY <3>1 DEF Sending, q
    <3>8. Sending(n, p)' <=> p = q
      <4>1. Sending(n, p)' <=> src'[n].pc \in {"send", "sent"} /\ TaskOf(src'[n], src'[n].i) = p
        BY DEF Sending, TaskOf
      <4> QED
        BY <3>1, <3>4, <4>1
    <3> QED
      BY <3>5, <3>6, <3>7, <3>8 DEF Leaves
  <2> QED
    BY <2>1, <2>2, <2>3
<1> QED
  BY <1>1, <1>5 DEF SrcLists, ListsKept

(* The proclet of a task is marked: a node that had it among its tasks now *)
(* sends it, ...                                                           *)
LEMMA MarkLists ==
  ASSUME RoundInv, NEW n \in Nodes, SrcMark(n)
  PROVE  /\ SrcLists(n)
         /\ TaskOf(src[n], src[n].i) \in Pending(n) /\ TaskOf(src[n], src[n].i) \in Proclets
         /\ \A p \in Proclets :
              /\ Leaves(n, p)' <=> Leaves(n, p) \/ p = TaskOf(src[n], src[n].i)
              /\ Sending(n, p)' <=> p = TaskOf(src[n], src[n].i)
              /\ ~Sending(n, p)
<1> DEFINE s == src[n]
           d == src[n].dest
           q == TaskOf(src[n], src[n].i)
<1>1. SrcLists(n)
  BY InnerLists DEF SrcInner
<1>2. /\ SrcBecomes(n, s.i, "send") /\ chan' = chan
      /\ s.pc \in {"mark", "task"}
  BY SrcFields
<1>3. src'[n].dest = d /\ src'[n].pc = "send" /\ src'[n].i = s.i /\ \A k : TaskOf(src'[n], k) = TaskOf(s, k)
  BY <1>2, SameTasks, CountedFacts DEF SrcBecomes, SameRound
<1>4. /\ s.dest # None /\ s.i \in 1..s.size /\ s.i \in Nat /\ s \in SrcCalls /\ Counted(s)
      /\ Sent(s) = s.i - 1
  <2>1. s.dest # None /\ s.i \in Nat /\ s.i >= 1 /\ s.size \in Nat /\ s \in SrcCalls /\ Counted(s)
    BY <1>2, CountedFacts DEF Counted
  <2>2. s.i <= s.size
    BY <1>2, <2>1 DEF Counted
  <2>3. Sent(s) = s.i - 1
    BY <1>2 DEF Sent
  <2> QED
    BY <2>1, <2>2, <2>3
<1>5. q \in Unsent(n) /\ q \in Proclets
  <2>1. s.i > Sent(s)
    BY <1>4
  <2> QED
    BY <1>4, <2>1, TasksArePicked, TaskIs
<1>6. \A p : (Copies(n, p)' <=> Copies(n, p)) /\ ~Ready(n, p)
  BY <1>2, <1>3, NoMessage DEF Ready
<1>7. ASSUME NEW p \in Proclets
      PROVE  (Ready(n, p)' <=> p = q) /\ (Sending(n, p)' <=> p = q) /\ ~Sending(n, p)
  <2>1. TaskOf(src'[n], src'[n].i) = q
    BY <1>3
  <2>2. Ready(n, p)' <=> src'[n].dest # None /\ src'[n].pc = "send" /\ TaskOf(src'[n], src'[n].i) = p
    BY DEF Ready, TaskOf
  <2>3. Sending(n, p)' <=> src'[n].pc \in {"send", "sent"} /\ TaskOf(src'[n], src'[n].i) = p
    BY DEF Sending, TaskOf
  <2> HIDE DEF q
  <2> QED
    BY <1>2, <1>3, <1>4, <2>1, <2>2, <2>3 DEF Sending
<1> HIDE DEF q
<1>8. \A p \in Proclets : Leaves(n, p)' <=> Leaves(n, p) \/ p = q
  BY <1>6, <1>7 DEF Leaves
<1> QED
  BY <1>1, <1>5, <1>7, <1>8 DEF q, Pending

(* ... and when its contents are sent off it leaves, but is not sent.      *)
LEMMA CleaningLists ==
  ASSUME RoundInv, NEW n \in Nodes, SrcCleaning(n)
  PROVE  /\ SrcLists(n) /\ TaskOf(src[n], src[n].i) \in Proclets
         /\ \A p \in Proclets :
              /\ Leaves(n, p)' <=> Leaves(n, p)
              /\ ~Sending(n, p)'
              /\ Sending(n, p) <=> p = TaskOf(src[n], src[n].i)
<1> DEFINE s == src[n]
           q == TaskOf(src[n], src[n].i)
<1>1. SrcLists(n)
  BY InnerLists DEF SrcInner
<1>2. /\ SrcBecomes(n, s.i + 1, IF s.i = s.size THEN "last" ELSE "task") /\ chan' = chan
      /\ s.pc = "sent"
  BY SrcFields
<1>3. src'[n].dest = s.dest /\ src'[n].pc \in {"last", "task"}
  BY <1>2 DEF SrcBecomes, SameRound
<1>4. q \in Proclets
  <2>1. s.dest # None /\ s.i \in Nat /\ s.i >= 1 /\ s.size \in Nat /\ s \in SrcCalls /\ Counted(s)
    BY <1>2, CountedFacts DEF Counted
  <2>2. s.i <= s.size
    BY <1>2, <2>1 DEF Counted
  <2> QED
    BY <2>1, <2>2, TaskIs
<1>5. \A p : (Copies(n, p)' <=> Copies(n, p)) /\ ~Ready(n, p) /\ ~Ready(n, p)'
  BY <1>2, <1>3, NoMessage DEF Ready
<1>6. \A p \in Proclets : Leaves(n, p)' <=> Leaves(n, p)
  BY <1>5 DEF Leaves
<1>7. \A p \in Proclets : ~Sending(n, p)' /\ (Sending(n, p) <=> p = q)
  BY <1>2, <1>3 DEF Sending
<1> QED
  BY <1>1, <1>4, <1>6, <1>7

(* A call between rounds sends nothing; a round that opens or closes       *)
(* changes nothing of what is to be sent.                                  *)
LEMMA BetweenRounds ==
  ASSUME RoundInv, NEW n \in Nodes, src[n].dest = None
  PROVE  \A p : ~Leaves(n, p) /\ ~Sending(n, p)
  BY DEF RoundInv, Counted, Leaves, Copies, Ready, Sending

LEMMA RoundStartLists ==
  ASSUME RoundInv, NEW n \in Nodes, NEW d \in Nodes, NEW size, RoundStart(n, d, size)
  PROVE  ListsKept
<1>1. /\ src' = [src EXCEPT ![n] = src'[n]] /\ src'[n] \in SrcCalls
      /\ src'[n].pc = "task" /\ src'[n].dest = d /\ src'[n].i = 1 /\ src'[n].size = size
      /\ src'[n].it = src[n].it /\ src'[n].tasks = src[n].tasks
      /\ src[n].pc = "loop" /\ src[n].dest = None /\ src[n].i = 1
      /\ dst' = dst
  <2>1. /\ src' = [src EXCEPT ![n] = src'[n]] /\ src'[n] \in SrcCalls
        /\ src'[n].pc = "task" /\ src'[n].dest = d /\ src'[n].i = 1 /\ dst' = dst
    BY RoundStartFields
  <2>2. src'[n].it = src[n].it /\ src'[n].tasks = src[n].tasks
    BY RoundStartFields
  <2>4. src'[n].size = size
    BY DEF RoundStart, RoundInv, TypeInv, SrcCalls
  <2>3. src[n].pc = "loop" /\ src[n].dest = None /\ src[n].i = 1
    BY RoundStartFields
  <2> QED
    BY <2>1, <2>2, <2>3, <2>4
<1>2. PICK ts \in Seq(Proclets) :
              chan' = [chan EXCEPT ![<<n, d>>] = <<Listing(ts)>>] /\ Same(ts, src'[n])
  BY RoundStartFields
<1>3. /\ DOMAIN chan = Nodes \X Nodes /\ src[n].it \in Nat /\ Len(src[n].tasks) \in Nat
      /\ src[n].tasks \in Seq(Proclets) /\ src[n].it >= 1 /\ size \in 1..(Len(src[n].tasks) - src[n].it + 1)
      /\ size \in Nat
  <2>1. src[n].it \in 1..Len(src[n].tasks) + 1
    BY CountedFacts
  <2>2. size \in 1..(Len(src[n].tasks) - src[n].it + 1)
    BY DEF RoundStart
  <2> QED
    BY <2>1, <2>2, CountedFacts DEF RoundInv, TypeInv
<1>4. chan'[<<n, d>>] = <<Listing(ts)>> /\ \A m, e \in Nodes : m # n => chan'[<<m, e>>] = chan[<<m, e>>]
  BY <1>2, <1>3
<1>5. ASSUME NEW p \in Proclets
      PROVE  ~Leaves(n, p)' /\ ~Sending(n, p)'
  <2>1. Range(<<Listing(ts)>>) = {Listing(ts)} /\ Copying(p) # Listing(ts)
    BY DEF Range, Copying, Listing
  <2>2. ~Copies(n, p)'
    <3>1. Copies(n, p)' <=> src'[n].dest # None /\ Copying(p) \in Range(chan'[<<n, src'[n].dest>>])
      BY DEF Copies, Copying
    <3> QED
      BY <1>1, <1>4, <2>1, <3>1
  <2> QED
    BY <1>1, <2>2 DEF Leaves, Ready, Sending
<1>6. Sent(src[n]) = 0 /\ Sent(src'[n]) = 0
  BY <1>1 DEF Sent
<1>7. Unsent(n)' = Unsent(n)
  <2>1. Unsent(n)' = {src'[n].tasks[k] : k \in src'[n].it + Sent(src'[n]) .. Len(src'[n].tasks)}
    BY DEF Unsent, Sent
  <2> QED
    BY <1>1, <1>6, <2>1 DEF Unsent
<1>8. \A p \in Listed(n)' : p \in Unsent(n)
  <2> TAKE p \in Listed(n)'
  <2>1. PICK e \in Nodes, us \in Seq(Proclets) :
          /\ src'[n].dest = e /\ chan'[<<n, e>>][1] = Listing(us) /\ p \in Range(us)
    BY DEF Listed, Listing
  <2>2. us = ts
    <3>1. Listing(ts) = Listing(us)
      BY <1>1, <1>4, <2>1
    <3> QED
      BY <3>1 DEF Listing
  <2>3. PICK k \in 1..Len(ts) : p = ts[k]
    BY <2>1, <2>2 DEF Range
  <2>4. k \in 1..size /\ p = TaskOf(src'[n], k)
    BY <1>1, <1>2, <2>3 DEF Same
  <2>5. p = src[n].tasks[src[n].it + k - 1] /\ src[n].it + k - 1 \in src[n].it + 0 .. Len(src[n].tasks)
    <3>1. p = src[n].tasks[src[n].it + k - 1]
      BY <1>1, <2>4 DEF TaskOf
    <3> QED
      BY <1>3, <2>4, <3>1
  <2> QED
    BY <1>6, <2>5 DEF Unsent
<1>9. Pending(n)' \subseteq Pending(n)
  BY <1>7, <1>8 DEF Pending
<1>10. \A p : ~Leaves(n, p) /\ ~Sending(n, p)
  BY <1>1, BetweenRounds
<1> QED
  BY <1>1, <1>4, <1>5, <1>9, <1>10, CallLists

LEMMA ReturnLists ==
  ASSUME RoundInv, NEW n \in Nodes, MigrateReturns(n)
  PROVE  ListsKept
<1>1. src[n].pc = "loop" /\ src[n].dest = None
  BY DEF MigrateReturns, RoundInv, Counted
<1>2. src' = [src EXCEPT ![n] = IdleSrc] /\ src'[n] = IdleSrc /\ chan' = chan /\ dst' = dst
  BY DEF MigrateReturns, RoundInv, TypeInv, links
<1>3. IdleSrc.tasks = <<>> /\ IdleSrc.dest = None /\ IdleSrc.pc = "idle" /\ IdleSrc.it = 1 /\ IdleSrc.i = 1
  BY DEF IdleSrc
<1>4. \A p : ~Leaves(n, p) /\ ~Sending(n, p)
  BY <1>1, BetweenRounds
<1>5. \A p : ~Leaves(n, p)' /\ ~Sending(n, p)'
  BY <1>2, <1>3 DEF Leaves, Copies, Ready, Sending
<1>6. Listed(n)' = {}
  <2>1. None \notin Nodes
    BY ConstantsOK
  <2> QED
    BY <1>2, <1>3, <2>1 DEF Listed
<1>7. Unsent(n)' = {}
  <2>1. Unsent(n)' = {src'[n].tasks[k] : k \in src'[n].it + Sent(src'[n]) .. Len(src'[n].tasks)}
    BY DEF Unsent, Sent
  <2>2. Sent(src'[n]) = 0 /\ Len(src'[n].tasks) = 0 /\ src'[n].it = 1
    BY <1>2, <1>3 DEF Sent
  <2>3. src'[n].it + Sent(src'[n]) .. Len(src'[n].tasks) = {}
    BY <2>2
  <2> QED
    BY <2>1, <2>3
<1> QED
  BY <1>2, <1>3, <1>4, <1>5, <1>6, <1>7, CallLists DEF Pending

LEMMA RoundEndLists ==
  ASSUME RoundInv, NEW n \in Nodes, RoundEnd(n)
  PROVE  ListsKept
<1> DEFINE d == src[n].dest
<1>1. /\ src' = [src EXCEPT ![n] = src'[n]]
      /\ src'[n].pc = "loop" /\ src'[n].dest = None /\ src'[n].i = 1
      /\ src[n].pc = "last" /\ d \in Nodes
      /\ dst' = dst /\ chan' = chan
  BY RoundEndFields
<1>2. src'[n].it = src[n].it + (src[n].i - 1) /\ src'[n].tasks = src[n].tasks
  BY RoundEndFields
<1>3. chan[<<n, d>>] = <<>>
  BY RoundEndFields
<1>4. src[n].it \in Nat /\ src[n].i \in Nat /\ src[n].i >= 1 /\ Range(<<>>) = {}
  BY CountedFacts DEF Range
<1>5. Sent(src[n]) = src[n].i - 1 /\ Sent(src'[n]) = 0
  BY <1>1 DEF Sent
<1>6. Unsent(n)' \subseteq Unsent(n)
  <2>1. src'[n].it + Sent(src'[n]) = src[n].it + Sent(src[n]) /\ src'[n].it + Sent(src'[n]) \in Nat
    BY <1>2, <1>4, <1>5
  <2>2. src'[n].it + Sent(src'[n]) >= src[n].it + Sent(src[n])
    BY <1>4, <1>5, <2>1
  <2> QED
    BY <1>2, <2>1, <2>2, UnsentLess
<1>7. \A p : ~Leaves(n, p) /\ ~Sending(n, p)
  BY <1>1, <1>3, <1>4 DEF Leaves, Copies, Ready, Sending
<1>8. \A p : ~Leaves(n, p)' /\ ~Sending(n, p)'
  BY <1>1 DEF Leaves, Copies, Ready, Sending
<1>9. Listed(n)' = {}
  <2>1. None \notin Nodes
    BY ConstantsOK
  <2> QED
    BY <1>1, <2>1 DEF Listed
<1>10. Pending(n)' \subseteq Pending(n)
  BY <1>6, <1>9 DEF Pending
<1> QED
  BY <1>1, <1>2, <1>7, <1>8, <1>10, CallLists

(* A call has picked its tasks: they can be found here.                    *)
LEMMA StartLists ==
  ASSUME RoundInv, NEW n \in Nodes, NEW P \in SUBSET Proclets, NEW ts \in SetToSeqs(P),
         MainStart(n, ts) \/ PickAgain(n, ts)
  PROVE  /\ UNCHANGED <<memory, app>>
         /\ Range(ts) \subseteq Proclets
         /\ \A p \in Range(ts) : status[n][p] = "present" /\ (QuietReuse => making[p] = NotMaking)
         /\ \A m \in Nodes, p \in Proclets :
              /\ Leaves(m, p)' <=> Leaves(m, p)
              /\ Sending(m, p)' <=> Sending(m, p)
              /\ p \in Pending(m)' => p \in Pending(m) \/ (m = n /\ p \in Range(ts))
              /\ p \in Rest(m)' <=> p \in Rest(m)
         /\ \A p \in Picked' : p \in Picked \/ p \in Range(ts)
<1>1. Pick(n, ts) /\ dst' = dst /\ chan' = chan /\ src[n].pc \in {"idle", "loop"} /\ UNCHANGED <<memory, app>>
  BY DEF MainStart, PickAgain, links
<1>2. src[n].dest = None
  BY <1>1 DEF RoundInv, Counted
<1>3. /\ src' = [src EXCEPT ![n] = src'[n]]
      /\ src'[n].pc = "loop" /\ src'[n].tasks = ts /\ src'[n].it = 1 /\ src'[n].i = 1
      /\ src'[n].dest = None /\ ts \in Seq(Proclets)
      /\ Range(ts) \subseteq Proclets
  BY <1>1, PickFields
<1>4. \A p \in Range(ts) : status[n][p] = "present" /\ (QuietReuse => making[p] = NotMaking)
  BY <1>1, PickFields
<1>5. \A p : ~Leaves(n, p) /\ ~Sending(n, p)
  BY <1>2, BetweenRounds
<1>6. \A p : ~Leaves(n, p)' /\ ~Sending(n, p)'
  BY <1>3 DEF Leaves, Copies, Ready, Sending
<1>7. Listed(n)' = {}
  <2>1. None \notin Nodes
    BY ConstantsOK
  <2> QED
    BY <1>3, <2>1 DEF Listed
<1>8. Unsent(n)' = Range(ts)
  <2>1. Unsent(n)' = {src'[n].tasks[k] : k \in src'[n].it + Sent(src'[n]) .. Len(src'[n].tasks)}
    BY DEF Unsent, Sent
  <2>2. Sent(src'[n]) = 0
    BY <1>3 DEF Sent
  <2>3. src'[n].it + Sent(src'[n]) = 1
    BY <1>3, <2>2
  <2> QED
    BY <1>3, <2>1, <2>3, RangeSeq
<1>9. Pending(n)' = Range(ts)
  BY <1>7, <1>8 DEF Pending
<1>10. /\ \A m \in Nodes : m # n =>
              /\ \A p : (Leaves(m, p)' <=> Leaves(m, p)) /\ (Sending(m, p)' <=> Sending(m, p))
              /\ Pending(m)' = Pending(m)
       /\ \A m \in Nodes : Rest(m)' = Rest(m)
       /\ \A p \in Picked' : p \in Picked \/ p \in Range(src'[n].tasks)
  BY <1>1, <1>3, CallFrame
<1> QED
  BY <1>1, <1>3, <1>4, <1>5, <1>6, <1>9, <1>10

(* A step of the destination leaves the calls alone; it may take a message *)
(* from the connection of its round.                                       *)
LEMMA LoadFrame ==
  ASSUME RoundInv, NEW n \in Nodes, src' = src,
         dst' = [dst EXCEPT ![n] = dst'[n]]
  PROVE  /\ \A m \in Nodes, p \in Proclets : Sending(m, p)' <=> Sending(m, p)
         /\ \A m \in Nodes : Unsent(m)' = Unsent(m)
         /\ Picked' = Picked
         /\ \A m \in Nodes : m # n => Rest(m)' = Rest(m)
<1>1. \A m \in Nodes : m # n => dst'[m] = dst[m]
  BY DEF RoundInv, TypeInv
<1>2. \A m \in Nodes : m # n => Rest(m)' = Rest(m)
  BY <1>1 DEF Rest
<1> QED
  BY <1>2 DEF Sending, Unsent, Sent, TaskOf, Picked

LEMMA TakenMessage ==
  ASSUME RoundInv, NEW n \in Nodes, NEW s \in Nodes, Takes(s, n), src' = src, src[s].dest = n
  PROVE  /\ \A m \in Nodes : m # s =>
              /\ \A p : Leaves(m, p)' <=> Leaves(m, p)
              /\ Listed(m)' = Listed(m)
         /\ \A p : Copies(s, p) <=> Head(chan[<<s, n>>]) = Copying(p) \/ Copies(s, p)'
         /\ \A p : Ready(s, p)' <=> Ready(s, p)
<1>1. DOMAIN chan = Nodes \X Nodes /\ chan[<<s, n>>] \in Seq(Messages) /\ chan[<<s, n>>] # <<>>
      /\ src[s].dest # None
  BY Types, ConstantsOK DEF RoundInv, Typed, Takes
<1>2. chan'[<<s, n>>] = Tail(chan[<<s, n>>]) /\ \A m, e \in Nodes : m # s => chan'[<<m, e>>] = chan[<<m, e>>]
  BY <1>1 DEF Takes
<1>3. ASSUME NEW m \in Nodes, m # s
      PROVE  (\A p : Leaves(m, p)' <=> Leaves(m, p)) /\ Listed(m)' = Listed(m)
  <2>1. src'[m] = src[m] /\ (\A d \in Nodes : chan'[<<m, d>>] = chan[<<m, d>>]) /\ src[m].dest \in Nodes \cup {None}
    BY <1>2, <1>3, CountedFacts
  <2> QED
    BY <2>1, SenderSame
<1>4. \A x : x \in Range(chan[<<s, n>>]) <=> x = Head(chan[<<s, n>>]) \/ x \in Range(Tail(chan[<<s, n>>]))
  BY <1>1, RangeTail
<1>5. ASSUME NEW p
      PROVE  Copies(s, p) <=> Head(chan[<<s, n>>]) = Copying(p) \/ Copies(s, p)'
  <2>1. Copies(s, p) <=> Copying(p) \in Range(chan[<<s, n>>])
    BY <1>1 DEF Copies
  <2>2. Copies(s, p)' <=> Copying(p) \in Range(chan'[<<s, n>>])
    BY <1>1 DEF Copies, Copying
  <2> QED
    BY <1>2, <1>4, <2>1, <2>2
<1>6. \A p : Ready(s, p)' <=> Ready(s, p)
  BY DEF Ready, TaskOf
<1> QED
  BY <1>3, <1>5, <1>6

LEMMA ApproveLists ==
  ASSUME RoundInv, NEW n \in Nodes, LoadApprove(n) \/ LoadCopy(n)
  PROVE  ListsKept
<1>1. src' = src /\ chan' = chan
  BY DEF LoadApprove, LoadCopy, links
<1>2. Rest(n)' = Rest(n) /\ dst' = [dst EXCEPT ![n] = dst'[n]]
  <2>1. CASE LoadApprove(n)
    <3>1. dst'[n].tasks = dst[n].tasks /\ dst'[n].i = dst[n].i /\ dst' = [dst EXCEPT ![n] = dst'[n]]
      BY <2>1, DstFields DEF DstBecomes
    <3> QED
      BY <3>1 DEF Rest
  <2>2. CASE LoadCopy(n)
    <3>1. dst' = dst
      BY <2>2 DEF LoadCopy
    <3> QED
      BY <3>1 DEF Rest, RoundInv, TypeInv
  <2> QED
    BY <2>1, <2>2
<1>3. /\ \A m \in Nodes, p \in Proclets : Sending(m, p)' <=> Sending(m, p)
      /\ \A m \in Nodes : Unsent(m)' = Unsent(m)
      /\ Picked' = Picked
      /\ \A m \in Nodes : m # n => Rest(m)' = Rest(m)
  BY <1>1, <1>2, LoadFrame
<1>4. \A m \in Nodes : Listed(m)' = Listed(m) /\ \A p : Leaves(m, p)' <=> Leaves(m, p)
  <2> TAKE m \in Nodes
  <2>1. src'[m] = src[m] /\ (\A d \in Nodes : chan'[<<m, d>>] = chan[<<m, d>>]) /\ src[m].dest \in Nodes \cup {None}
    BY <1>1, CountedFacts
  <2> QED
    BY <2>1, SenderSame
<1> QED
  BY <1>2, <1>3, <1>4 DEF ListsKept, Pending

LEMMA RefuseLists ==
  ASSUME RoundInv, NEW n \in Nodes, LoadRefuse(n)
  PROVE  /\ \A m \in Nodes, p \in Proclets :
              /\ Leaves(m, p)' <=> Leaves(m, p)
              /\ Sending(m, p)' <=> Sending(m, p)
              /\ p \in Pending(m)' => p \in Pending(m)
              /\ p \in Rest(m)' <=> p \in Rest(m) /\ m # n
         /\ Picked' \subseteq Picked
<1>1. src' = src /\ chan' = chan /\ dst' = [dst EXCEPT ![n] = IdleDst] /\ dst'[n] = IdleDst
  BY DEF LoadRefuse, RoundInv, TypeInv
<1>2. Rest(n)' = {}
  <2>1. IdleDst.tasks = <<>> /\ IdleDst.i = 1
    BY DEF IdleDst
  <2>2. IdleDst.i .. Len(IdleDst.tasks) = {}
    BY <2>1
  <2> QED
    BY <1>1, <2>2 DEF Rest
<1>3. dst' = [dst EXCEPT ![n] = dst'[n]]
  BY <1>1
<1>4. /\ \A m \in Nodes, p \in Proclets : Sending(m, p)' <=> Sending(m, p)
      /\ \A m \in Nodes : Unsent(m)' = Unsent(m)
      /\ Picked' = Picked
      /\ \A m \in Nodes : m # n => Rest(m)' = Rest(m)
  BY <1>1, <1>3, LoadFrame
<1>5. \A m \in Nodes : Listed(m)' = Listed(m) /\ \A p : Leaves(m, p)' <=> Leaves(m, p)
  <2> TAKE m \in Nodes
  <2>1. src'[m] = src[m] /\ (\A d \in Nodes : chan'[<<m, d>>] = chan[<<m, d>>]) /\ src[m].dest \in Nodes \cup {None}
    BY <1>1, CountedFacts
  <2> QED
    BY <2>1, SenderSame
<1> QED
  BY <1>2, <1>4, <1>5 DEF Pending

(* The tasks that are still to be loaded, after the one that was.          *)
LEMMA RestButFirst ==
  ASSUME NEW t \in Loads, NEW i \in Nat, i = t.i, i \in 1..Len(t.tasks),
         \A j, k \in 1..Len(t.tasks) : t.tasks[j] = t.tasks[k] => j = k
  PROVE  {t.tasks[k] : k \in i + 1 .. Len(t.tasks)} =
         {t.tasks[k] : k \in i .. Len(t.tasks)} \ {t.tasks[i]}
<1>1. Len(t.tasks) \in Nat
  BY LoadIs
<1>2. \A k \in i .. Len(t.tasks) : k \in 1..Len(t.tasks) /\ (k # i => k \in i + 1 .. Len(t.tasks))
  BY <1>1
<1>3. \A k \in i + 1 .. Len(t.tasks) : k \in 1..Len(t.tasks) /\ k # i /\ k \in i .. Len(t.tasks)
  BY <1>1
<1>4. \A k \in i + 1 .. Len(t.tasks) : t.tasks[k] # t.tasks[i]
  BY <1>3
<1> QED
  BY <1>2, <1>3, <1>4

(* The task that is being loaded.                                          *)
LEMMA TaskAt ==
  ASSUME RoundInv, NEW n \in Nodes, dst[n].pc \in {"load", "loadlast"}
  PROVE  /\ dst[n].tasks[dst[n].i] \in Rest(n) /\ dst[n].tasks[dst[n].i] \in Proclets
         /\ dst[n].i \in Nat /\ dst[n].i \in 1..Len(dst[n].tasks)
         /\ dst[n].tasks[dst[n].i] = TaskOf(src[dst[n].from], dst[n].i)
         /\ dst[n].i \in 1..src[dst[n].from].size
         /\ \A j, k \in 1..Len(dst[n].tasks) : dst[n].tasks[j] = dst[n].tasks[k] => j = k
<1> DEFINE t == dst[n]
           s == dst[n].from
           p0 == t.tasks[t.i]
<1>2. /\ s \in Nodes /\ src[s].dest = n /\ src[s] \in SrcCalls /\ Counted(src[s]) /\ src[s].dest # None
      /\ t \in Loads /\ Talks(src[s], t, chan[<<s, n>>], back[<<s, n>>], s)
      /\ chan[<<s, n>>] \in Seq(Messages) /\ back[<<s, n>>] \in Seq(BOOLEAN)
  BY SourceOf
<1>3. /\ Len(t.tasks) = src[s].size /\ t.i \in 1..src[s].size /\ t.i \in Nat
      /\ \A k \in 1..src[s].size : t.tasks[k] = TaskOf(src[s], k)
      /\ src[s].size \in Nat
  <2>1. t.i \in Nat /\ src[s].size \in Nat
    BY <1>2, LoadIs, SrcIs
  <2>2. During(src[s], t, chan[<<s, n>>], back[<<s, n>>], s)
    BY <1>2, Running
  <2>3. t.i <= src[s].size /\ t.i \in 1..src[s].size + 1 /\ Same(t.tasks, src[s])
    BY <2>2 DEF During
  <2> QED
    BY <2>1, <2>3 DEF Same
<1>4. \A j, k \in 1..Len(t.tasks) : t.tasks[j] = t.tasks[k] => j = k
  <2> TAKE j, k \in 1..Len(t.tasks)
  <2>1. j \in 1..src[s].size /\ k \in 1..src[s].size /\ t.tasks[j] = TaskOf(src[s], j) /\ t.tasks[k] = TaskOf(src[s], k)
    BY <1>3
  <2> QED
    BY <1>2, <2>1, TasksDiffer
<1>5. p0 \in Rest(n) /\ p0 \in Proclets
  <2>1. t.i \in t.i .. Len(t.tasks)
    BY <1>3
  <2>2. p0 = TaskOf(src[s], t.i)
    BY <1>3
  <2> QED
    BY <1>2, <1>3, <2>1, <2>2, TaskIs DEF Rest
<1> QED
  BY <1>3, <1>4, <1>5

LEMMA LoadedLists ==
  ASSUME RoundInv, NEW n \in Nodes, LoadSkip(n) \/ LoadInsert(n), NEW p0, p0 = dst[n].tasks[dst[n].i]
  PROVE  /\ p0 \in Rest(n) /\ p0 \in Proclets
         /\ \A m \in Nodes, p \in Proclets :
              /\ Sending(m, p)' <=> Sending(m, p)
              /\ p \in Pending(m)' => p \in Pending(m)
              /\ p \in Rest(m)' <=> p \in Rest(m) /\ (m # n \/ p # p0)
         /\ Picked' \subseteq Picked
<1> DEFINE t == dst[n]
<1>0. dst[n].from \in Nodes
  BY DstFields, SourceOf
<1> PICK s \in Nodes : s = dst[n].from
  BY <1>0
<1>1. /\ t.pc \in {"load", "loadlast"} /\ Takes(s, n)
      /\ DstBecomes(n, s, t.tasks, t.i + 1, IF t.pc = "load" THEN "approve" ELSE "refuse")
  BY DstFields
<1>2. src[s].dest = n /\ t \in Loads
  BY <1>1, SourceOf
<1>3. /\ p0 \in Rest(n) /\ p0 \in Proclets /\ t.i \in Nat /\ t.i \in 1..Len(t.tasks)
      /\ \A j, k \in 1..Len(t.tasks) : t.tasks[j] = t.tasks[k] => j = k
  BY <1>1, TaskAt
<1>6. Rest(n)' = Rest(n) \ {p0}
  <2>1. Rest(n)' = {t.tasks[k] : k \in t.i + 1 .. Len(t.tasks)}
    BY <1>1 DEF DstBecomes, Rest
  <2>2. Rest(n) = {t.tasks[k] : k \in t.i .. Len(t.tasks)}
    BY DEF Rest
  <2>4. {t.tasks[k] : k \in t.i + 1 .. Len(t.tasks)} =
        {t.tasks[k] : k \in t.i .. Len(t.tasks)} \ {t.tasks[t.i]}
    BY <1>2, <1>3, RestButFirst
  <2> QED
    BY <2>1, <2>2, <2>4
<1>7. /\ \A m \in Nodes, p \in Proclets : Sending(m, p)' <=> Sending(m, p)
      /\ \A m \in Nodes : Unsent(m)' = Unsent(m)
      /\ Picked' = Picked
      /\ \A m \in Nodes : m # n => Rest(m)' = Rest(m)
  BY <1>1, LoadFrame DEF DstBecomes
<1>8. \A m \in Nodes : m # s => Listed(m)' = Listed(m)
  BY <1>1, <1>2, TakenMessage DEF DstBecomes
<1>9. Listed(s)' = {}
  <2>1. RoundInv'
    BY DstKeepsRounds DEF DstStep
  <2>2. src'[s].dest = n /\ dst'[n].pc # "idle"
    BY <1>1, <1>2 DEF DstBecomes
  <2> QED
    BY <1>2, <2>1, <2>2, ListReadNext DEF ListIsRead
<1>10. \A m \in Nodes, p \in Proclets : p \in Pending(m)' => p \in Pending(m)
  BY <1>7, <1>8, <1>9 DEF Pending
<1> QED
  BY <1>3, <1>6, <1>7, <1>10

LEMMA HeadIs ==
  ASSUME RoundInv, NEW n \in Nodes, NEW s \in Nodes, src[s].dest = n, chan[<<s, n>>] # <<>>
  PROVE  \/ Head(chan[<<s, n>>]) = Skipping
         \/ \E p \in Proclets : Head(chan[<<s, n>>]) = Copying(p)
         \/ \E ts \in Seq(Proclets) : Head(chan[<<s, n>>]) = Listing(ts)
<1>1. chan[<<s, n>>] \in Seq(Messages)
  BY Types DEF RoundInv, Typed
<1>2. Head(chan[<<s, n>>]) \in Messages
  BY <1>1, SeqTail
<1> QED
  BY <1>2 DEF Messages

LEMMA SkipLeaves ==
  ASSUME RoundInv, NEW n \in Nodes, LoadSkip(n)
  PROVE  \A m \in Nodes, p \in Proclets : Leaves(m, p)' <=> Leaves(m, p)
<1>0. dst[n].from \in Nodes
  BY DstFields, SourceOf
<1> PICK s \in Nodes : s = dst[n].from
  BY <1>0
<1>1. dst[n].pc # "idle" /\ Takes(s, n) /\ src' = src
  BY DstFields DEF DstBecomes
<1>2. src[s].dest = n /\ chan[<<s, n>>] # <<>> /\ Head(chan[<<s, n>>]).type = "skip"
  BY <1>1, SourceOf DEF LoadSkip, Incoming, Takes
<1>3. \A p : Head(chan[<<s, n>>]) # Copying(p)
  BY <1>2 DEF Copying
<1>4. \A p : (Copies(s, p)' <=> Copies(s, p)) /\ (Ready(s, p)' <=> Ready(s, p))
  BY <1>1, <1>2, <1>3, TakenMessage
<1>5. \A p : Leaves(s, p)' <=> Leaves(s, p)
  BY <1>4 DEF Leaves
<1>6. \A m \in Nodes : m # s => \A p : Leaves(m, p)' <=> Leaves(m, p)
  BY <1>1, <1>2, TakenMessage
<1> QED
  BY <1>5, <1>6

(* A copy that arrives is the one of the task that is being loaded.        *)
LEMMA CopyHead ==
  ASSUME RoundInv, NEW n \in Nodes, dst[n].pc \in {"load", "loadlast"},
         Incoming(n) # <<>>, Head(Incoming(n)).type = "copy"
  PROVE  /\ Head(Incoming(n)) = Copying(dst[n].tasks[dst[n].i])
         /\ Head(Incoming(n)).proclet = dst[n].tasks[dst[n].i]
         /\ dst[n].i \in 1..Sent(src[dst[n].from])
<1>0. dst[n].from \in Nodes
  BY SourceOf
<1> PICK s \in Nodes : s = dst[n].from
  BY <1>0
<1> DEFINE c == chan[<<s, n>>]
<1>2. /\ src[s].dest = n /\ c # <<>> /\ Head(c).type = "copy" /\ c \in Seq(Messages)
  BY SourceOf DEF Incoming
<1>3. PICK p \in Proclets : Head(c) = Copying(p)
  <2>1. Skipping.type # "copy" /\ \A ts : Listing(ts).type # "copy"
    BY DEF Skipping, Listing
  <2> QED
    BY <1>2, <2>1, HeadIs
<1>4. Len(c) \in Nat \ {0} /\ c[1] = Copying(p)
  BY <1>2, <1>3, SeqTail
<1>5. dst[n].i \in 1..Sent(src[s]) /\ p = TaskOf(src[s], dst[n].i)
  <2>1. 1 \in 1..Len(c) /\ dst[n].i - 1 + 1 = dst[n].i
    BY <1>4, TaskAt
  <2>2. PICK j \in 1..Sent(src[s]) : p = TaskOf(src[s], j) /\ j = dst[n].i - 1 + 1
    BY <1>2, <1>4, <2>1, CopyIs
  <2> QED
    BY <2>1, <2>2
<1>6. p = dst[n].tasks[dst[n].i]
  BY <1>5, TaskAt
<1> QED
  BY <1>3, <1>5, <1>6 DEF Incoming, Copying

(* The proclet that is inserted has left the source, and is not among      *)
(* those it has still to send.                                             *)
LEMMA InsertLeaves ==
  ASSUME RoundInv, NEW n \in Nodes, LoadInsert(n), NEW p0, p0 = dst[n].tasks[dst[n].i]
  PROVE  /\ Head(Incoming(n)).proclet = p0
         /\ \E s \in Nodes :
              /\ Leaves(s, p0) /\ ~Leaves(s, p0)' /\ p0 \notin Pending(s)
              /\ \A m \in Nodes, p \in Proclets :
                   m # s \/ p # p0 => (Leaves(m, p)' <=> Leaves(m, p))
<1>0. dst[n].from \in Nodes
  BY DstFields, SourceOf
<1> PICK s \in Nodes : s = dst[n].from
  BY <1>0
<1> DEFINE c == chan[<<s, n>>]
<1>1. dst[n].pc \in {"load", "loadlast"} /\ Takes(s, n) /\ src' = src
  BY DstFields DEF DstBecomes
<1>2. /\ src[s].dest = n /\ c # <<>> /\ Head(c).type = "copy" /\ src[s] \in SrcCalls /\ Counted(src[s])
      /\ src[s].dest # None /\ dst[n] \in Loads /\ c \in Seq(Messages)
      /\ Talks(src[s], dst[n], c, back[<<s, n>>], s) /\ back[<<s, n>>] \in Seq(BOOLEAN)
  BY <1>1, SourceOf DEF LoadInsert, Incoming, Takes
<1>3. Head(c) = Copying(p0) /\ Head(Incoming(n)).proclet = p0 /\ dst[n].i \in 1..Sent(src[s])
  BY <1>1, <1>2, CopyHead DEF Incoming
<1>4. Len(c) \in Nat \ {0} /\ c[1] = Copying(p0)
  BY <1>2, <1>3, SeqTail
<1>5. /\ Sent(src[s]) \in Nat /\ Sent(src[s]) <= src[s].size /\ src[s].size \in Nat
      /\ src[s].i \in Nat /\ src[s].i >= 1 /\ dst[n].i \in Nat
  BY <1>2, CountedFacts, LoadIs
<1>6. \A k \in 1..Len(c) : \A q : c[k] = Copying(q) =>
        dst[n].i - 1 + k \in 1..Sent(src[s]) /\ q = TaskOf(src[s], dst[n].i - 1 + k)
  BY <1>1, <1>2, CopyIs
<1>7. p0 = TaskOf(src[s], dst[n].i)
  BY <1>1, TaskAt
<1>10. \A k \in 1..Len(c) : c[k] = Copying(p0) => k = 1
  <2> SUFFICES ASSUME NEW k \in 1..Len(c), c[k] = Copying(p0) PROVE k = 1
    OBVIOUS
  <2>1. /\ dst[n].i - 1 + k \in 1..src[s].size /\ dst[n].i \in 1..src[s].size
        /\ TaskOf(src[s], dst[n].i - 1 + k) = TaskOf(src[s], dst[n].i)
    <3>1. dst[n].i - 1 + k \in 1..Sent(src[s]) /\ p0 = TaskOf(src[s], dst[n].i - 1 + k)
      BY <1>6
    <3>2. p0 = TaskOf(src[s], dst[n].i)
      BY <1>7
    <3>3. \A j \in 1..Sent(src[s]) : j \in 1..src[s].size
      BY <1>5
    <3> QED
      BY <1>3, <3>1, <3>2, <3>3
  <2>2. dst[n].i - 1 + k = dst[n].i
    BY <1>2, <2>1, TasksDiffer
  <2> QED
    BY <1>5, <2>2
<1>11. Copies(s, p0) /\ ~Copies(s, p0)'
  <2>1. Copies(s, p0)
    BY <1>1, <1>2, <1>3, TakenMessage
  <2>2. Len(Tail(c)) = Len(c) - 1 /\ Tail(c) \in Seq(Messages) /\ \A k \in 1..Len(c) - 1 : Tail(c)[k] = c[k + 1]
    BY <1>2, SeqTail
  <2>3. \A k \in 1..Len(Tail(c)) : Tail(c)[k] # Copying(p0)
    <3> TAKE k \in 1..Len(Tail(c))
    <3>1. k + 1 \in 1..Len(c) /\ k + 1 # 1 /\ Tail(c)[k] = c[k + 1]
      BY <1>4, <2>2
    <3> QED
      BY <1>10, <3>1
  <2>4. Copying(p0) \notin Range(Tail(c))
    <3> HIDE DEF c
    <3> QED
      BY <2>2, <2>3, RangeSeq
  <2>5. chan'[<<s, n>>] = Tail(c)
    BY <1>1, Types DEF Takes, RoundInv, Typed
  <2>6. Copies(s, p0)' <=> src'[s].dest # None /\ Copying(p0) \in Range(chan'[<<s, src'[s].dest>>])
    BY DEF Copies, Copying
  <2> QED
    BY <1>1, <1>2, <2>1, <2>4, <2>5, <2>6
<1>12. ~Ready(s, p0)
  <2> SUFFICES ASSUME Ready(s, p0) PROVE FALSE
    OBVIOUS
  <2>1. src[s].pc = "send" /\ TaskOf(src[s], src[s].i) = p0
    BY DEF Ready
  <2>2. src[s].i <= src[s].size /\ Sent(src[s]) = src[s].i - 1
    BY <1>2, <2>1 DEF Counted, Sent
  <2>3. src[s].i \in 1..src[s].size /\ dst[n].i \in 1..src[s].size /\ src[s].i # dst[n].i
    BY <1>3, <1>5, <2>2
  <2> QED
    BY <1>2, <1>7, <2>1, <2>3, TasksDiffer
<1>13. Leaves(s, p0) /\ ~Leaves(s, p0)'
  <2>1. ~Ready(s, p0)'
    BY <1>1, <1>2, <1>12, TakenMessage
  <2> QED
    BY <1>11, <2>1 DEF Leaves
<1>14. p0 \notin Pending(s)
  <2>1. p0 \notin Unsent(s)
    BY <1>2, <1>3, <1>7, SentNotUnsent
  <2>2. p0 \notin Listed(s)
    BY <1>1, <1>2, ListedIs
  <2> QED
    BY <2>1, <2>2 DEF Pending
<1>15. \A q \in Proclets : q # p0 => (Leaves(s, q)' <=> Leaves(s, q))
  <2> SUFFICES ASSUME NEW q \in Proclets, q # p0 PROVE Leaves(s, q)' <=> Leaves(s, q)
    OBVIOUS
  <2>1. Head(c) # Copying(q)
    BY <1>3 DEF Copying
  <2>2. (Copies(s, q)' <=> Copies(s, q)) /\ (Ready(s, q)' <=> Ready(s, q))
    BY <1>1, <1>2, <2>1, TakenMessage
  <2> QED
    BY <2>2 DEF Leaves
<1>16. \A m \in Nodes : m # s => \A q : Leaves(m, q)' <=> Leaves(m, q)
  BY <1>1, <1>2, TakenMessage
<1> QED
  BY <1>3, <1>13, <1>14, <1>15, <1>16

(* The load has read its tasks: they were on the list.                     *)
LEMMA LoadStartLists ==
  ASSUME RoundInv, NEW n \in Nodes, NEW s \in Nodes, LoadStart(n, s)
  PROVE  /\ \A m \in Nodes, p \in Proclets :
              /\ Leaves(m, p)' <=> Leaves(m, p)
              /\ Sending(m, p)' <=> Sending(m, p)
              /\ p \in Pending(m)' => p \in Pending(m)
              /\ m # n => (p \in Rest(m)' <=> p \in Rest(m))
              /\ p \notin Rest(n)
              /\ p \in Rest(n)' <=> p \in Range(Head(chan[<<s, n>>]).tasks)
              /\ p \in Rest(n)' => p \in Pending(s)
         /\ Picked' \subseteq Picked
<1> DEFINE c == chan[<<s, n>>]
<1>1. /\ Takes(s, n) /\ dst[n].pc = "idle" /\ src[s].dest = n /\ src' = src
      /\ Head(c).tasks \in Seq(Proclets) /\ c # <<>>
      /\ dst' = [dst EXCEPT ![n] = dst'[n]] /\ dst'[n].tasks = Head(c).tasks /\ dst'[n].i = 1
      /\ dst'[n].pc = "approve"
  BY LoadStartFields DEF DstBecomes, Takes
<1>2. Head(c).type = "tasks"
  BY DEF LoadStart
<1>3. \A p : Head(c) # Copying(p)
  BY <1>2 DEF Copying
<1>4. /\ \A m \in Nodes, p \in Proclets : Sending(m, p)' <=> Sending(m, p)
      /\ \A m \in Nodes : Unsent(m)' = Unsent(m)
      /\ Picked' = Picked
      /\ \A m \in Nodes : m # n => Rest(m)' = Rest(m)
  BY <1>1, LoadFrame
<1>5. /\ \A m \in Nodes : m # s =>
              /\ \A p : Leaves(m, p)' <=> Leaves(m, p)
              /\ Listed(m)' = Listed(m)
      /\ \A p : (Copies(s, p)' <=> Copies(s, p)) /\ (Ready(s, p)' <=> Ready(s, p))
  BY <1>1, <1>3, TakenMessage
<1>6. \A m \in Nodes, p \in Proclets : Leaves(m, p)' <=> Leaves(m, p)
  <2>1. \A p : Leaves(s, p)' <=> Leaves(s, p)
    BY <1>5 DEF Leaves
  <2> QED
    BY <1>5, <2>1
<1>7. Listed(s)' = {}
  <2>1. RoundInv'
    BY DstKeepsRounds DEF DstStep
  <2>2. src'[s].dest = n /\ dst'[n].pc # "idle"
    BY <1>1
  <2> QED
    BY <2>1, <2>2, ListReadNext DEF ListIsRead
<1>8. Rest(n) = {}
  BY <1>1, RestIs
<1>9. Rest(n)' = Range(Head(c).tasks)
  <2>1. Rest(n)' = {dst'[n].tasks[k] : k \in dst'[n].i .. Len(dst'[n].tasks)}
    BY DEF Rest
  <2> QED
    BY <1>1, <2>1, RangeSeq
<1>10. \A p \in Proclets : p \in Range(Head(c).tasks) => p \in Listed(s)
  <2>1. c \in Seq(Messages) /\ c[1] = Head(c)
    BY <1>1, Types, SeqTail DEF RoundInv, Typed
  <2>2. PICK ts \in Seq(Proclets) : c[1] = Listing(ts)
    <3>1. Skipping.type # "tasks" /\ \A p : Copying(p).type # "tasks"
      BY DEF Skipping, Copying
    <3> QED
      BY <1>1, <1>2, <2>1, <3>1, HeadIs
  <2>3. Head(c).tasks = ts
    BY <2>1, <2>2 DEF Listing
  <2> QED
    BY <1>1, <2>2, <2>3 DEF Listed
<1> QED
  BY <1>4, <1>5, <1>6, <1>7, <1>8, <1>9, <1>10 DEF Pending

LEMMA StillLists ==
  ASSUME src' = src, dst' = dst, chan' = chan
  PROVE  ListsKept
<1>1. \A n \in Nodes, p \in Proclets : (Leaves(n, p)' <=> Leaves(n, p)) /\ (Sending(n, p)' <=> Sending(n, p))
  BY DEF Leaves, Copies, Ready, Sending, TaskOf
<1>2. \A n \in Nodes : Unsent(n)' = Unsent(n) /\ Listed(n)' = Listed(n) /\ Rest(n)' = Rest(n)
  BY DEF Unsent, Sent, Listed, Rest
<1>3. Picked' = Picked
  BY DEF Picked
<1> QED
  BY <1>1, <1>2, <1>3 DEF ListsKept, Pending

---------------------------------------------------------------------------
(* Statuses and clean-ups.                                                 *)

Becomes(n, p, st) ==
  \A m \in Nodes, q \in Proclets : status'[m][q] = IF m = n /\ q = p THEN st ELSE status[m][q]

LEMMA StatusSet ==
  ASSUME MemoryTypes, NEW n \in Nodes, NEW p \in Proclets, NEW st \in Statuses, SetStatus(n, p, st)
  PROVE  status' \in [Nodes -> [Proclets -> Statuses]] /\ Becomes(n, p, st)
  BY DEF MemoryTypes, SetStatus, Becomes

LEMMA StatusMap ==
  ASSUME MemoryTypes, NEW n \in Nodes, NEW f \in [Proclets -> Statuses], status' = [status EXCEPT ![n] = f]
  PROVE  /\ status' \in [Nodes -> [Proclets -> Statuses]]
         /\ \A m \in Nodes, q \in Proclets : status'[m][q] = IF m = n THEN f[q] ELSE status[m][q]
  BY DEF MemoryTypes

(* What the steps of source and destination do to the memory.              *)
LEMMA MarkStatus ==
  ASSUME RoundInv, MemoryTypes, NEW n \in Nodes, SrcMark(n), NEW q, q = TaskOf(src[n], src[n].i)
  PROVE  /\ status[n][q] = "present" /\ Becomes(n, q, "migrating") /\ UNCHANGED <<body, jobs, app>>
         /\ MemoryTypes'
<1>1. q \in Proclets
  BY MarkLists
<1>2. SetStatus(n, q, "migrating") /\ status[n][q] = "present" /\ UNCHANGED <<body, jobs, app>>
  BY DEF SrcMark, Markable, Task, TaskOf
<1>3. status' \in [Nodes -> [Proclets -> Statuses]] /\ Becomes(n, q, "migrating")
  BY <1>1, <1>2, StatusSet DEF Statuses
<1> QED
  BY <1>2, <1>3 DEF MemoryTypes, app

LEMMA JobAdded ==
  ASSUME MemoryTypes, NEW n \in Nodes, NEW J \in SUBSET Jobs, jobs' = [jobs EXCEPT ![n] = @ \cup J]
  PROVE  /\ jobs' \in [Nodes -> SUBSET Jobs]
         /\ \A m \in Nodes : jobs[m] \subseteq jobs'[m]
         /\ J \subseteq jobs'[n]
  BY DEF MemoryTypes

LEMMA CleaningStatus ==
  ASSUME RoundInv, MemoryTypes, NEW n \in Nodes, SrcCleaning(n), NEW q, q = TaskOf(src[n], src[n].i)
  PROVE  /\ Becomes(n, q, "cleaning") /\ UNCHANGED <<body, app>>
         /\ \A m \in Nodes : jobs[m] \subseteq jobs'[m]
         /\ [kind |-> "cleaning", proclet |-> q] \in jobs'[n]
         /\ MemoryTypes'
<1>1. q \in Proclets
  BY CleaningLists
<1> DEFINE j == [kind |-> "cleaning", proclet |-> q]
<1>2. SetStatus(n, q, "cleaning") /\ jobs' = [jobs EXCEPT ![n] = @ \cup {j}] /\ UNCHANGED <<body, app>>
  BY DEF SrcCleaning, Task, TaskOf, Spawn
<1>3. status' \in [Nodes -> [Proclets -> Statuses]] /\ Becomes(n, q, "cleaning")
  BY <1>1, <1>2, StatusSet DEF Statuses
<1>4. {j} \in SUBSET Jobs
  BY <1>1 DEF Jobs
<1> HIDE DEF j
<1>5. /\ jobs' \in [Nodes -> SUBSET Jobs]
      /\ \A m \in Nodes : jobs[m] \subseteq jobs'[m]
      /\ j \in jobs'[n]
  BY <1>2, <1>4, JobAdded
<1> QED
  BY <1>2, <1>3, <1>5 DEF MemoryTypes, app, j

LEMMA LoadStartStatus ==
  ASSUME RoundInv, MemoryTypes, NEW n \in Nodes, NEW s \in Nodes, LoadStart(n, s)
  PROVE  /\ \A m \in Nodes, q \in Proclets :
              status'[m][q] = IF m = n /\ q \in Range(Head(chan[<<s, n>>]).tasks)
                              THEN "populating" ELSE status[m][q]
         /\ UNCHANGED <<body, jobs, app>> /\ MemoryTypes'
<1>1. UNCHANGED <<body, jobs, app>>
  BY DEF LoadStart
<1> PICK P : P = Range(Head(chan[<<s, n>>]).tasks)
  OBVIOUS
<1> DEFINE f == [p \in Proclets |-> IF p \in P THEN "populating" ELSE status[n][p]]
<1>2. status' = [status EXCEPT ![n] = f]
  BY DEF LoadStart
<1>3. f \in [Proclets -> Statuses] /\ \A q \in Proclets : f[q] = IF q \in P THEN "populating" ELSE status[n][q]
  BY DEF MemoryTypes, Statuses
<1> HIDE DEF f
<1>4. /\ status' \in [Nodes -> [Proclets -> Statuses]]
      /\ \A m \in Nodes, q \in Proclets :
           status'[m][q] = IF m = n /\ q \in P THEN "populating" ELSE status[m][q]
  BY <1>2, <1>3, StatusMap
<1> QED
  BY <1>1, <1>4 DEF MemoryTypes, app

LEMMA SkipStatus ==
  ASSUME RoundInv, MemoryTypes, NEW n \in Nodes, LoadSkip(n), NEW q, q = dst[n].tasks[dst[n].i]
  PROVE  /\ Becomes(n, q, "depopulating") /\ UNCHANGED <<body, app>>
         /\ \A m \in Nodes : jobs[m] \subseteq jobs'[m]
         /\ [kind |-> "depopulating", proclet |-> q] \in jobs'[n]
         /\ MemoryTypes'
<1>1. q \in Proclets
  BY LoadedLists
<1> DEFINE j == [kind |-> "depopulating", proclet |-> q]
<1>2. SetStatus(n, q, "depopulating") /\ jobs' = [jobs EXCEPT ![n] = @ \cup {j}] /\ UNCHANGED <<body, app>>
  BY DEF LoadSkip, Spawn
<1>3. status' \in [Nodes -> [Proclets -> Statuses]] /\ Becomes(n, q, "depopulating")
  BY <1>1, <1>2, StatusSet DEF Statuses
<1>4. {j} \in SUBSET Jobs
  BY <1>1 DEF Jobs
<1> HIDE DEF j
<1>5. /\ jobs' \in [Nodes -> SUBSET Jobs]
      /\ \A m \in Nodes : jobs[m] \subseteq jobs'[m]
      /\ j \in jobs'[n]
  BY <1>2, <1>4, JobAdded
<1> QED
  BY <1>2, <1>3, <1>5 DEF MemoryTypes, app, j

LEMMA InsertStatus ==
  ASSUME RoundInv, MemoryTypes, NEW n \in Nodes, LoadInsert(n), NEW q, q = dst[n].tasks[dst[n].i]
  PROVE  /\ Becomes(n, q, "present") /\ q \in body[n] /\ UNCHANGED <<body, jobs, app>>
         /\ MemoryTypes'
<1>1. q \in Proclets /\ Head(Incoming(n)).proclet = q
  BY LoadedLists, InsertLeaves
<1>2. SetStatus(n, q, "present") /\ q \in body[n] /\ UNCHANGED <<body, jobs, app>>
  BY <1>1 DEF LoadInsert
<1>3. status' \in [Nodes -> [Proclets -> Statuses]] /\ Becomes(n, q, "present")
  BY <1>1, <1>2, StatusSet DEF Statuses
<1> QED
  BY <1>2, <1>3 DEF MemoryTypes, app

(* The copy that arrives is of a proclet that this load has still to load. *)
LEMMA CopyStatus ==
  ASSUME RoundInv, MemoryTypes, NEW n \in Nodes, LoadCopy(n), NEW q, q = dst[n].tasks[dst[n].i]
  PROVE  /\ q \in Rest(n) /\ q \in Proclets
         /\ status' = status \/ (Becomes(n, q, "absent") /\ status[n][q] \in {"depopulating", "cleaning"})
         /\ UNCHANGED <<jobs, app>> /\ MemoryTypes'
         /\ \A m \in Nodes : body[m] \subseteq body'[m]
<1>1. q = Head(Incoming(n)).proclet /\ q \in Rest(n) /\ q \in Proclets
  BY CopyHead, TaskAt DEF LoadCopy
<1>2. /\ UNCHANGED <<jobs, app>> /\ body' = [body EXCEPT ![n] = @ \cup {q}]
      /\ status' = status \/ (SetStatus(n, q, "absent") /\ status[n][q] \in {"depopulating", "cleaning"})
  BY <1>1 DEF LoadCopy
<1>3. /\ status' = status \/ (Becomes(n, q, "absent") /\ status[n][q] \in {"depopulating", "cleaning"})
      /\ status' \in [Nodes -> [Proclets -> Statuses]]
  <2>1. "absent" \in Statuses
    BY DEF Statuses
  <2>2. SetStatus(n, q, "absent") => Becomes(n, q, "absent") /\ status' \in [Nodes -> [Proclets -> Statuses]]
    BY <1>1, <2>1, StatusSet
  <2>3. status' = status => status' \in [Nodes -> [Proclets -> Statuses]]
    BY DEF MemoryTypes
  <2> QED
    BY <1>2, <2>2, <2>3
<1>4. body' \in [Nodes -> SUBSET Proclets] /\ \A m \in Nodes : body[m] \subseteq body'[m]
  BY <1>1, <1>2 DEF MemoryTypes
<1> QED
  BY <1>1, <1>2, <1>3, <1>4 DEF MemoryTypes, app

LEMMA RefuseStatus ==
  ASSUME RoundInv, MemoryTypes, NEW n \in Nodes, LoadRefuse(n)
  PROVE  /\ \A m \in Nodes, q \in Proclets :
              status'[m][q] = IF m = n /\ q \in Rest(n) THEN "depopulating" ELSE status[m][q]
         /\ UNCHANGED <<body, app>>
         /\ \A m \in Nodes : jobs[m] \subseteq jobs'[m]
         /\ \A q \in Rest(n) : [kind |-> "depopulating", proclet |-> q] \in jobs'[n]
         /\ MemoryTypes'
<1> DEFINE f == [p \in Proclets |-> IF p \in Rest(n) THEN "depopulating" ELSE status[n][p]]
           J == {[kind |-> "depopulating", proclet |-> p] : p \in Rest(n)}
<1>1. status' = [status EXCEPT ![n] = f] /\ jobs' = [jobs EXCEPT ![n] = @ \cup J] /\ UNCHANGED <<body, app>>
  BY DEF LoadRefuse
<1>2. /\ f \in [Proclets -> Statuses]
      /\ \A q \in Proclets : f[q] = IF q \in Rest(n) THEN "depopulating" ELSE status[n][q]
  BY DEF MemoryTypes, Statuses
<1>3. J \in SUBSET Jobs /\ \A q \in Rest(n) : [kind |-> "depopulating", proclet |-> q] \in J
  BY RestIs, TasksArePicked DEF Jobs
<1> HIDE DEF f, J
<1>4. /\ status' \in [Nodes -> [Proclets -> Statuses]]
      /\ \A m \in Nodes, q \in Proclets :
           status'[m][q] = IF m = n /\ q \in Rest(n) THEN "depopulating" ELSE status[m][q]
  BY <1>1, <1>2, StatusMap
<1>5. /\ jobs' \in [Nodes -> SUBSET Jobs]
      /\ \A m \in Nodes : jobs[m] \subseteq jobs'[m]
      /\ J \subseteq jobs'[n]
  BY <1>1, <1>3, JobAdded
<1> QED
  BY <1>1, <1>3, <1>4, <1>5 DEF MemoryTypes, app

LEMMA JobStatus ==
  ASSUME MemoryTypes, NEW n \in Nodes, NEW job \in jobs[n], RunJob(n, job), NEW q, q = job.proclet
  PROVE  /\ q \in Proclets
         /\ \/ status' = status /\ body' = body /\ status[n][q] # job.kind
            \/ /\ Becomes(n, q, "absent") /\ status[n][q] = job.kind
               /\ body' = [body EXCEPT ![n] = @ \ {q}]
         /\ status[n][q] = job.kind => job.kind \in {"depopulating", "cleaning"}
         /\ job \in Jobs
         /\ \A m \in Nodes : \A j \in jobs[m] : (m = n /\ j = job) \/ j \in jobs'[m]
         /\ UNCHANGED app /\ MemoryTypes'
<1>1. job \in Jobs /\ q \in Proclets /\ job.kind \in {"depopulating", "cleaning"}
  BY DEF MemoryTypes, Jobs
<1>2. /\ jobs' = [jobs EXCEPT ![n] = @ \ {job}] /\ UNCHANGED app
      /\ \/ status' = status /\ body' = body /\ status[n][q] # job.kind
         \/ SetStatus(n, q, "absent") /\ status[n][q] = job.kind /\ body' = [body EXCEPT ![n] = @ \ {q}]
  BY DEF RunJob, StillDue, Wipe
<1>3. SetStatus(n, q, "absent") => status' \in [Nodes -> [Proclets -> Statuses]] /\ Becomes(n, q, "absent")
  <2>1. "absent" \in Statuses
    BY DEF Statuses
  <2> QED
    BY <1>1, <2>1, StatusSet
<1>4. body' \in [Nodes -> SUBSET Proclets] /\ status' \in [Nodes -> [Proclets -> Statuses]]
  <2>1. body' = [body EXCEPT ![n] = @ \ {q}] => body' \in [Nodes -> SUBSET Proclets]
    BY DEF MemoryTypes
  <2>2. body' = body => body' \in [Nodes -> SUBSET Proclets]
    BY DEF MemoryTypes
  <2>3. status' = status => status' \in [Nodes -> [Proclets -> Statuses]]
    BY DEF MemoryTypes
  <2> QED
    BY <1>2, <1>3, <2>1, <2>2, <2>3
<1>5. /\ jobs' \in [Nodes -> SUBSET Jobs]
      /\ \A m \in Nodes : \A j \in jobs[m] : (m = n /\ j = job) \/ j \in jobs'[m]
  BY <1>2 DEF MemoryTypes
<1> QED
  BY <1>1, <1>2, <1>3, <1>4, <1>5 DEF MemoryTypes, app

(* The application: what one step does to p, at node n.                    *)
Makes(p, r) == making' = [making EXCEPT ![p] = r] /\ r \in Making /\ (r.pc = "no" <=> r.node = None)

LEMMA MakeTypes ==
  ASSUME MemoryTypes, NEW p \in Proclets, NEW r, Makes(p, r)
  PROVE  /\ making' \in [Proclets -> Making] /\ making'[p] = r
         /\ \A q \in Proclets : q # p => making'[q] = making[q]
         /\ \A q \in Proclets : making'[q].pc = "no" <=> making'[q].node = None
<1>1. /\ making' \in [Proclets -> Making] /\ making'[p] = r
      /\ \A q \in Proclets : q # p => making'[q] = making[q]
  BY DEF MemoryTypes, Makes
<1> QED
  BY <1>1 DEF MemoryTypes, Makes

LEMMA AppFields ==
  ASSUME MemoryTypes, NEW p \in Proclets, NEW n \in Nodes
  PROVE  /\ Setup(p) =>
              /\ making[p].pc = "setup" /\ making[p].node \in Nodes
              /\ Becomes(making[p].node, p, "present")
              /\ body' = [body EXCEPT ![making[p].node] = @ \cup {p}]
              /\ Makes(p, [node |-> making[p].node, pc |-> "attach"])
              /\ alive' = alive /\ dying' = dying
         /\ Construct(p) =>
              /\ making[p].pc = "attach" /\ making[p].node \in Nodes
              /\ status' = status /\ body' = body
              /\ Makes(p, [node |-> making[p].node, pc |-> "insert"])
              /\ alive' = alive /\ dying' = dying
         /\ Insert(p) =>
              /\ making[p].pc = "insert" /\ making[p].node \in Nodes
              /\ \/ Becomes(making[p].node, p, "present")
                 \/ status' = status /\ ~Found(status[making[p].node][p])
              /\ body' = body /\ Makes(p, NotMaking)
              /\ alive' = alive /\ dying' = dying
         /\ Destroy(n, p) =>
              /\ status[n][p] = "present" /\ dying[p] = None
              /\ QuietReuse => making[p] = NotMaking
              /\ Becomes(n, p, "destructing") /\ body' = body
              /\ making' = making /\ alive' = alive
              /\ dying' = [dying EXCEPT ![p] = n]
         /\ Destroyed(n, p) =>
              /\ dying[p] = n
              /\ Becomes(n, p, "absent") /\ body' = [body EXCEPT ![n] = @ \ {p}]
              /\ making' = making /\ alive' = alive \ {p}
              /\ dying' = [dying EXCEPT ![p] = None]
         /\ Allocate(n, p) =>
              /\ p \notin alive /\ making[p] = NotMaking /\ (QuietReuse => p \notin Picked)
              /\ status' = status /\ body' = body /\ alive' = alive \cup {p} /\ dying' = dying
              /\ Makes(p, [node |-> n, pc |-> "setup"])
<1> DEFINE at == making[p].node
<1>1. making[p] \in Making /\ DOMAIN making = Proclets
  BY DEF MemoryTypes
<1>2. making[p].pc # "no" => at \in Nodes /\ at # None
  BY <1>1, ConstantsOK DEF MemoryTypes, Making
<1>3. /\ {"present", "destructing", "absent"} \subseteq Statuses
      /\ \A r \in Making : \A x \in {"attach", "insert"} :
           r.node \in Nodes => [node |-> r.node, pc |-> x] \in Making
  BY DEF Statuses, Making
<1>4. ASSUME NEW from \in {"setup", "attach"}, NEW to \in {"attach", "insert"}, MakeStep(p, from, to)
      PROVE  /\ making[p].pc = from /\ at \in Nodes /\ alive' = alive /\ dying' = dying
             /\ Makes(p, [node |-> at, pc |-> to])
  <2>1. /\ making[p].pc = from /\ alive' = alive /\ dying' = dying
        /\ making' = [making EXCEPT ![p] = [making[p] EXCEPT !.pc = to]]
    BY <1>4 DEF MakeStep
  <2>2. at \in Nodes /\ at # None
    BY <1>2, <2>1
  <2>3. [making[p] EXCEPT !.pc = to] = [node |-> at, pc |-> to]
    BY <1>1 DEF Making
  <2> QED
    BY <1>1, <1>3, <2>1, <2>2, <2>3 DEF Makes
<1>5. ASSUME Setup(p)
      PROVE  /\ making[p].pc = "setup" /\ at \in Nodes
             /\ Becomes(at, p, "present")
             /\ body' = [body EXCEPT ![at] = @ \cup {p}]
             /\ Makes(p, [node |-> at, pc |-> "attach"])
             /\ alive' = alive /\ dying' = dying
  <2>1. MakeStep(p, "setup", "attach") /\ SetStatus(at, p, "present") /\ body' = [body EXCEPT ![at] = @ \cup {p}]
    BY <1>5 DEF Setup
  <2>2. /\ making[p].pc = "setup" /\ at \in Nodes /\ alive' = alive /\ dying' = dying
        /\ Makes(p, [node |-> at, pc |-> "attach"])
    BY <1>4, <2>1
  <2> QED
    BY <1>3, <2>1, <2>2, StatusSet
<1>6. ASSUME Construct(p)
      PROVE  /\ making[p].pc = "attach" /\ at \in Nodes
             /\ status' = status /\ body' = body
             /\ Makes(p, [node |-> at, pc |-> "insert"])
             /\ alive' = alive /\ dying' = dying
  BY <1>4, <1>6 DEF Construct
<1>7. ASSUME Insert(p)
      PROVE  /\ making[p].pc = "insert" /\ at \in Nodes
             /\ \/ Becomes(at, p, "present")
                \/ status' = status /\ ~Found(status[at][p])
             /\ body' = body /\ Makes(p, NotMaking)
             /\ alive' = alive /\ dying' = dying
  <2>1. /\ making[p].pc = "insert" /\ making' = [making EXCEPT ![p] = NotMaking]
        /\ alive' = alive /\ dying' = dying /\ body' = body
        /\ SetStatus(at, p, "present") \/ (status' = status /\ ~Found(status[at][p]))
    BY <1>7 DEF Insert, MakeStep
  <2>2. NotMaking \in Making /\ NotMaking.pc = "no" /\ NotMaking.node = None
    BY DEF NotMaking, Making
  <2>3. at \in Nodes
    BY <1>2, <2>1
  <2>4. SetStatus(at, p, "present") => Becomes(at, p, "present")
    BY <1>3, <2>3, StatusSet
  <2> QED
    BY <2>1, <2>2, <2>3, <2>4 DEF Makes
<1>8. ASSUME Destroy(n, p)
      PROVE  /\ status[n][p] = "present" /\ dying[p] = None
             /\ QuietReuse => making[p] = NotMaking
             /\ Becomes(n, p, "destructing") /\ body' = body
             /\ making' = making /\ alive' = alive
             /\ dying' = [dying EXCEPT ![p] = n]
  <2>1. SetStatus(n, p, "destructing")
    BY <1>8 DEF Destroy
  <2>2. Becomes(n, p, "destructing")
    BY <1>3, <2>1, StatusSet
  <2> QED
    BY <1>8, <2>2 DEF Destroy
<1>9. ASSUME Destroyed(n, p)
      PROVE  /\ dying[p] = n
             /\ Becomes(n, p, "absent") /\ body' = [body EXCEPT ![n] = @ \ {p}]
             /\ making' = making /\ alive' = alive \ {p}
             /\ dying' = [dying EXCEPT ![p] = None]
  <2>1. SetStatus(n, p, "absent")
    BY <1>9 DEF Destroyed
  <2>2. Becomes(n, p, "absent")
    BY <1>3, <2>1, StatusSet
  <2> QED
    BY <1>9, <2>2 DEF Destroyed, Wipe
<1>10. ASSUME Allocate(n, p)
       PROVE  /\ p \notin alive /\ making[p] = NotMaking /\ (QuietReuse => p \notin Picked)
              /\ status' = status /\ body' = body /\ alive' = alive \cup {p} /\ dying' = dying
              /\ Makes(p, [node |-> n, pc |-> "setup"])
  <2>1. Makes(p, [node |-> n, pc |-> "setup"])
    BY <1>10, ConstantsOK DEF Allocate, Makes, Making
  <2> QED
    BY <1>10, <2>1 DEF Allocate, memory
<1> QED
  BY <1>5, <1>6, <1>7, <1>8, <1>9, <1>10

OneApp(p, n) == Setup(p) \/ Construct(p) \/ Insert(p) \/ Destroy(n, p) \/ Destroyed(n, p) \/ Allocate(n, p)

LEMMA AppStill ==
  ASSUME NEW p, NEW n, OneApp(p, n)
  PROVE  src' = src /\ dst' = dst /\ chan' = chan /\ jobs' = jobs
  BY DEF OneApp, Setup, Construct, Insert, MakeStep, Destroy, Destroyed, Allocate, links, memory

LEMMA AppTypes ==
  ASSUME MemoryTypes, NEW p \in Proclets, NEW n \in Nodes, OneApp(p, n)
  PROVE  MemoryTypes'
<1> DEFINE at == making[p].node
<1>1. jobs' = jobs
  BY AppStill
<1>2. \/ status' = status
      \/ \E m \in Nodes : \E st \in {"present", "destructing", "absent"} : Becomes(m, p, st)
  BY AppFields DEF OneApp
<1>3. status' \in [Nodes -> [Proclets -> Statuses]]
  <2>1. status' = status \/ \E m \in Nodes : \E st \in Statuses : SetStatus(m, p, st)
    <3>1. Setup(p) => SetStatus(at, p, "present") /\ at \in Nodes
      BY AppFields DEF Setup
    <3>2. Construct(p) \/ Allocate(n, p) => status' = status
      BY AppFields
    <3>3. Insert(p) => (SetStatus(at, p, "present") \/ status' = status) /\ at \in Nodes
      BY AppFields DEF Insert
    <3>4. Destroy(n, p) => SetStatus(n, p, "destructing")
      BY DEF Destroy
    <3>5. Destroyed(n, p) => SetStatus(n, p, "absent")
      BY DEF Destroyed
    <3> QED
      BY <3>1, <3>2, <3>3, <3>4, <3>5 DEF OneApp, Statuses
  <2> QED
    BY <2>1, StatusSet DEF MemoryTypes
<1>4. body' \in [Nodes -> SUBSET Proclets]
  <2>1. \/ body' = body \/ body' = [body EXCEPT ![n] = @ \ {p}]
        \/ at \in Nodes /\ body' = [body EXCEPT ![at] = @ \cup {p}]
    BY AppFields DEF OneApp
  <2> QED
    BY <2>1 DEF MemoryTypes
<1>5. alive' \subseteq Proclets /\ dying' \in [Proclets -> Nodes \cup {None}]
  <2>1. \/ alive' = alive \/ alive' = alive \ {p} \/ alive' = alive \cup {p}
    BY AppFields DEF OneApp
  <2>2. \/ dying' = dying \/ dying' = [dying EXCEPT ![p] = n] \/ dying' = [dying EXCEPT ![p] = None]
    BY AppFields DEF OneApp
  <2> QED
    BY <2>1, <2>2 DEF MemoryTypes
<1>6. /\ making' \in [Proclets -> Making]
      /\ \A q \in Proclets : making'[q].pc = "no" <=> making'[q].node = None
  <2>1. making' = making \/ \E r : Makes(p, r)
    BY AppFields DEF OneApp
  <2> QED
    BY <2>1, MakeTypes DEF MemoryTypes
<1> QED
  BY <1>1, <1>3, <1>4, <1>5, <1>6 DEF MemoryTypes

(* What waits to be loaded has a load, what is to be cleaned up a clean-up. *)
LEMMA CleanKept ==
  ASSUME CleanInv, MemoryTypes',
         \A m \in Nodes, q \in Proclets :
           \/ /\ status'[m][q] = status[m][q] /\ (q \in Rest(m) => q \in Rest(m)')
              /\ \A j \in jobs[m] : j.proclet = q /\ j.kind = status[m][q] => j \in jobs'[m]
           \/ status'[m][q] \in {"absent", "migrating", "present", "destructing"}
           \/ status'[m][q] = "populating" /\ q \in Rest(m)'
           \/ /\ status'[m][q] \in {"depopulating", "cleaning"}
              /\ [kind |-> status'[m][q], proclet |-> q] \in jobs'[m]
           \/ status'[m][q] = status[m][q] /\ q \notin Rest(m) /\ jobs[m] \subseteq jobs'[m]
  PROVE  CleanInv'
<1>1. ASSUME NEW m \in Nodes, NEW q \in Proclets
      PROVE  /\ status'[m][q] = "populating" => q \in Rest(m)'
             /\ status'[m][q] \in {"depopulating", "cleaning"} =>
                  [kind |-> status'[m][q], proclet |-> q] \in jobs'[m]
  <2>1. /\ status[m][q] = "populating" => q \in Rest(m)
        /\ status[m][q] \in {"depopulating", "cleaning"} =>
             [kind |-> status[m][q], proclet |-> q] \in jobs[m]
    BY DEF CleanInv, Cleaned
  <2> DEFINE j == [kind |-> status[m][q], proclet |-> q]
  <2>2. j.proclet = q /\ j.kind = status[m][q]
    OBVIOUS
  <2> HIDE DEF j
  <2>3. CASE /\ status'[m][q] = status[m][q] /\ (q \in Rest(m) => q \in Rest(m)')
             /\ \A k \in jobs[m] : k.proclet = q /\ k.kind = status[m][q] => k \in jobs'[m]
    BY <2>1, <2>2, <2>3 DEF j
  <2>4. CASE status'[m][q] = status[m][q] /\ q \notin Rest(m) /\ jobs[m] \subseteq jobs'[m]
    BY <2>1, <2>4
  <2> QED
    BY <1>1, <2>3, <2>4
<1>2. Cleaned'
  BY <1>1 DEF Cleaned
<1> QED
  BY <1>2 DEF CleanInv

LEMMA AppClean ==
  ASSUME CleanInv, NEW p \in Proclets, NEW n \in Nodes, OneApp(p, n)
  PROVE  CleanInv'
<1>1. MemoryTypes /\ MemoryTypes' /\ jobs' = jobs
  BY AppTypes, AppStill DEF CleanInv
<1>2. \A m \in Nodes, q \in Proclets : q \in Rest(m)' <=> q \in Rest(m)
  BY AppStill, StillLists DEF ListsKept
<1>3. \/ status' = status
      \/ \E m \in Nodes : \E st \in {"present", "destructing", "absent"} : Becomes(m, p, st)
  BY <1>1, AppFields DEF OneApp
<1>4. \A m \in Nodes, q \in Proclets :
        status'[m][q] = status[m][q] \/ status'[m][q] \in {"present", "destructing", "absent"}
  BY <1>3 DEF Becomes
<1> QED
  BY <1>1, <1>2, <1>4, CleanKept

LEMMA JobClean ==
  ASSUME CleanInv, NEW n \in Nodes, NEW job \in jobs[n], RunJob(n, job)
  PROVE  CleanInv'
<1>1. MemoryTypes
  BY DEF CleanInv
<1> PICK q : q = job.proclet
  OBVIOUS
<1>2. /\ q \in Proclets
      /\ \/ status' = status /\ body' = body /\ status[n][q] # job.kind
         \/ Becomes(n, q, "absent") /\ status[n][q] = job.kind
      /\ \A m \in Nodes : \A j \in jobs[m] : (m = n /\ j = job) \/ j \in jobs'[m]
      /\ MemoryTypes'
  BY <1>1, JobStatus
<1>3. src' = src /\ dst' = dst /\ chan' = chan
  BY DEF RunJob, links
<1>4. \A m \in Nodes, r \in Proclets : r \in Rest(m)' <=> r \in Rest(m)
  BY <1>3, StillLists DEF ListsKept
<1>5. ASSUME NEW m \in Nodes, NEW r \in Proclets, status'[m][r] # "absent"
      PROVE  /\ status'[m][r] = status[m][r]
             /\ \A j \in jobs[m] : j.proclet = r /\ j.kind = status[m][r] => j \in jobs'[m]
  <2>1. status'[m][r] = status[m][r] /\ (m # n \/ r # q \/ status[n][q] # job.kind)
    BY <1>2, <1>5 DEF Becomes
  <2> QED
    BY <1>2, <2>1
<1> QED
  BY <1>2, <1>4, <1>5, CleanKept

LEMMA StillClean ==
  ASSUME CleanInv, UNCHANGED <<memory, app>>, \A m \in Nodes, q \in Proclets : q \in Rest(m) => q \in Rest(m)'
  PROVE  CleanInv'
<1>1. MemoryTypes' /\ status' = status /\ jobs' = jobs
  BY DEF CleanInv, MemoryTypes, memory, app
<1> QED
  BY <1>1, CleanKept

(* A step that neither marks nor loads.                                    *)
Talk(n) ==
  \/ \E d \in Nodes, size \in 1..Cardinality(Proclets) : RoundStart(n, d, size)
  \/ MigrateReturns(n) \/ SrcApproval(n) \/ SrcSkip(n) \/ SrcSend(n) \/ RoundEnd(n)
  \/ LoadApprove(n)

LEMMA TalkKept ==
  ASSUME RoundInv, NEW n \in Nodes, Talk(n)
  PROVE  ListsKept /\ UNCHANGED <<memory, app>>
<1>1. ListsKept
  BY RoundStartLists, ReturnLists, QuietLists, RoundEndLists, ApproveLists DEF Talk
<1>2. UNCHANGED <<memory, app>>
  BY DEF Talk, RoundStart, MigrateReturns, SrcApproval, SrcSkip, SrcSend, RoundEnd, LoadApprove
<1> QED
  BY <1>1, <1>2

LEMMA SrcClean ==
  ASSUME RoundInv, CleanInv, NEW n \in Nodes, SrcMark(n) \/ SrcCleaning(n)
  PROVE  CleanInv'
<1>1. MemoryTypes
  BY DEF CleanInv
<1> PICK q : q = TaskOf(src[n], src[n].i)
  OBVIOUS
<1>2. q \in Proclets /\ \A m \in Nodes, r \in Proclets : r \in Rest(m)' <=> r \in Rest(m)
  BY MarkLists, CleaningLists DEF SrcLists
<1>3. CASE SrcMark(n)
  <2>1. Becomes(n, q, "migrating") /\ jobs' = jobs /\ MemoryTypes'
    BY <1>1, <1>3, MarkStatus
  <2>2. \A m \in Nodes, r \in Proclets : status'[m][r] = status[m][r] \/ status'[m][r] = "migrating"
    BY <2>1 DEF Becomes
  <2> QED
    BY <1>2, <2>1, <2>2, CleanKept
<1>4. CASE SrcCleaning(n)
  <2>1. /\ Becomes(n, q, "cleaning") /\ MemoryTypes' /\ \A m \in Nodes : jobs[m] \subseteq jobs'[m]
        /\ [kind |-> "cleaning", proclet |-> q] \in jobs'[n]
    BY <1>1, <1>4, CleaningStatus
  <2>2. \A m \in Nodes, r \in Proclets :
          \/ status'[m][r] = status[m][r]
          \/ status'[m][r] = "cleaning" /\ [kind |-> status'[m][r], proclet |-> r] \in jobs'[m]
    BY <2>1 DEF Becomes
  <2> QED
    BY <1>2, <2>1, <2>2, CleanKept
<1> QED
  BY <1>3, <1>4

LEMMA DstClean ==
  ASSUME RoundInv, CleanInv, NEW n \in Nodes,
         (\E s \in Nodes : LoadStart(n, s)) \/ LoadSkip(n) \/ LoadCopy(n) \/ LoadInsert(n) \/ LoadRefuse(n)
  PROVE  CleanInv'
<1>1. MemoryTypes
  BY DEF CleanInv
<1> PICK q : q = dst[n].tasks[dst[n].i]
  OBVIOUS
<1>2. ASSUME NEW s \in Nodes, LoadStart(n, s)
      PROVE  CleanInv'
  <2> PICK P : P = Range(Head(chan[<<s, n>>]).tasks)
    OBVIOUS
  <2>1. /\ \A m \in Nodes, r \in Proclets :
             status'[m][r] = IF m = n /\ r \in P THEN "populating" ELSE status[m][r]
        /\ jobs' = jobs /\ MemoryTypes'
    BY <1>1, <1>2, LoadStartStatus
  <2>2. \A m \in Nodes, r \in Proclets :
          /\ m # n => (r \in Rest(m)' <=> r \in Rest(m))
          /\ r \notin Rest(n)
          /\ r \in Rest(n)' <=> r \in P
    BY <1>2, LoadStartLists
  <2>3. \A m \in Nodes, r \in Proclets :
          \/ status'[m][r] = "populating" /\ r \in Rest(m)'
          \/ status'[m][r] = status[m][r] /\ (r \in Rest(m) => r \in Rest(m)')
    BY <2>1, <2>2
  <2> QED
    BY <2>1, <2>3, CleanKept
<1>3. CASE LoadSkip(n)
  <2>1. /\ Becomes(n, q, "depopulating") /\ MemoryTypes' /\ \A m \in Nodes : jobs[m] \subseteq jobs'[m]
        /\ [kind |-> "depopulating", proclet |-> q] \in jobs'[n]
    BY <1>1, <1>3, SkipStatus
  <2>2. \A m \in Nodes, r \in Proclets : r \in Rest(m)' <=> r \in Rest(m) /\ (m # n \/ r # q)
    BY <1>3, LoadedLists
  <2>3. \A m \in Nodes, r \in Proclets :
          \/ status'[m][r] = status[m][r] /\ (r \in Rest(m) => r \in Rest(m)')
          \/ status'[m][r] = "depopulating" /\ [kind |-> status'[m][r], proclet |-> r] \in jobs'[m]
    BY <2>1, <2>2 DEF Becomes
  <2> QED
    BY <2>1, <2>3, CleanKept
<1>4. CASE LoadInsert(n)
  <2>1. Becomes(n, q, "present") /\ MemoryTypes' /\ jobs' = jobs
    BY <1>1, <1>4, InsertStatus
  <2>2. \A m \in Nodes, r \in Proclets : r \in Rest(m)' <=> r \in Rest(m) /\ (m # n \/ r # q)
    BY <1>4, LoadedLists
  <2>3. \A m \in Nodes, r \in Proclets :
          (status'[m][r] = status[m][r] /\ (r \in Rest(m) => r \in Rest(m)')) \/ status'[m][r] = "present"
    BY <2>1, <2>2 DEF Becomes
  <2> QED
    BY <2>1, <2>3, CleanKept
<1>5. CASE LoadCopy(n)
  <2>1. /\ status' = status \/ Becomes(n, q, "absent")
        /\ jobs' = jobs /\ MemoryTypes'
    BY <1>1, <1>5, CopyStatus
  <2>2. \A m \in Nodes, r \in Proclets : r \in Rest(m)' <=> r \in Rest(m)
    BY <1>5, ApproveLists DEF ListsKept
  <2>3. \A m \in Nodes, r \in Proclets : status'[m][r] = status[m][r] \/ status'[m][r] = "absent"
    BY <2>1 DEF Becomes
  <2> QED
    BY <2>1, <2>2, <2>3, CleanKept
<1>6. CASE LoadRefuse(n)
  <2>1. /\ \A m \in Nodes, r \in Proclets :
             status'[m][r] = IF m = n /\ r \in Rest(n) THEN "depopulating" ELSE status[m][r]
        /\ MemoryTypes' /\ \A m \in Nodes : jobs[m] \subseteq jobs'[m]
        /\ \A r \in Rest(n) : [kind |-> "depopulating", proclet |-> r] \in jobs'[n]
    BY <1>1, <1>6, RefuseStatus
  <2>2. \A m \in Nodes, r \in Proclets : r \in Rest(m)' <=> r \in Rest(m) /\ m # n
    BY <1>6, RefuseLists
  <2>3. \A m \in Nodes, r \in Proclets :
          \/ status'[m][r] = "depopulating" /\ [kind |-> status'[m][r], proclet |-> r] \in jobs'[m]
          \/ status'[m][r] = status[m][r] /\ (r \in Rest(m) => r \in Rest(m)')
    BY <2>1, <2>2
  <2> QED
    BY <2>1, <2>3, CleanKept
<1> QED
  BY <1>2, <1>3, <1>4, <1>5, <1>6

(* The steps of the system, sorted by what they do to the memory.          *)
LEMMA Steps ==
  ASSUME [Next]_vars
  PROVE  \/ \E n \in Nodes : \E P \in SUBSET Proclets : \E ts \in SetToSeqs(P) :
              MainStart(n, ts) \/ PickAgain(n, ts)
         \/ \E n \in Nodes : Talk(n) \/ SrcMark(n) \/ SrcCleaning(n)
         \/ \E n \in Nodes : (\E s \in Nodes : LoadStart(n, s)) \/ LoadSkip(n) \/ LoadCopy(n)
                             \/ LoadInsert(n) \/ LoadRefuse(n)
         \/ \E n \in Nodes : \E job \in jobs[n] : RunJob(n, job)
         \/ \E p \in Proclets : \E n \in Nodes : OneApp(p, n)
         \/ UNCHANGED vars
<1>1. CASE UNCHANGED vars
  BY <1>1
<1>2. CASE Start
  <2>1. PICK n \in Nodes, P \in (SUBSET Proclets) \ {{}} :
          \E ts \in SetToSeqs(P) : MainStart(n, ts) \/ PickAgain(n, ts)
    BY <1>2 DEF Start
  <2>2. P \in SUBSET Proclets
    OBVIOUS
  <2> QED
    BY <2>1, <2>2
<1>3. ASSUME NEW n \in Nodes, SrcStep(n) \/ DstStep(n)
      PROVE  \/ Talk(n) \/ SrcMark(n) \/ SrcCleaning(n)
             \/ (\E s \in Nodes : LoadStart(n, s)) \/ LoadSkip(n) \/ LoadCopy(n)
             \/ LoadInsert(n) \/ LoadRefuse(n)
  BY <1>3 DEF SrcStep, DstStep, Talk
<1>4. CASE AppStep
  <2>1. Home \in Nodes
    BY ConstantsOK
  <2> QED
    BY <1>4, <2>1 DEF AppStep, OneApp
<1> QED
  BY <1>1, <1>2, <1>3, <1>4 DEF Next

LEMMA StepClean == RoundInv /\ CleanInv /\ [Next]_vars => CleanInv'
<1> SUFFICES ASSUME RoundInv, CleanInv, [Next]_vars PROVE CleanInv'
  OBVIOUS
<1>1. ASSUME NEW n \in Nodes, NEW P \in SUBSET Proclets, NEW ts \in SetToSeqs(P),
             MainStart(n, ts) \/ PickAgain(n, ts)
      PROVE  CleanInv'
  BY <1>1, StartLists, StillClean
<1>2. ASSUME NEW n \in Nodes, Talk(n)
      PROVE  CleanInv'
  BY <1>2, TalkKept, StillClean DEF ListsKept
<1>3. CASE UNCHANGED vars
  BY <1>3, StillLists, StillClean DEF vars, links, ListsKept
<1> QED
  BY <1>1, <1>2, <1>3, Steps, SrcClean, DstClean, JobClean, AppClean

LEMMA InitClean == Init => CleanInv
<1> SUFFICES ASSUME Init PROVE CleanInv
  OBVIOUS
<1>1. MemoryTypes
  <2>1. NotMaking \in Making /\ NotMaking.pc = "no" /\ NotMaking.node = None
    BY DEF NotMaking, Making
  <2> QED
    BY <2>1 DEF Init, MemoryTypes, Statuses
<1>2. Cleaned
  BY DEF Init, Cleaned
<1> QED
  BY <1>1, <1>2 DEF CleanInv

(* Source and destination of every round agree on where they are in it,    *)
(* whatever the application does, and no proclet waits for a load or a     *)
(* clean-up that does not run.                                             *)
LEMMA AgreesFrom == RoundInv /\ CleanInv => RoundsAgree
<1> SUFFICES ASSUME RoundInv, CleanInv, NEW n \in Nodes
             PROVE  /\ src[n].pc \in {"idle", "loop"} =>
                         \A d \in Nodes : chan[<<n, d>>] = <<>> /\ back[<<n, d>>] = <<>>
                    /\ dst[n].pc # "idle" => src[dst[n].from].dest = n
                    /\ \A p \in Proclets :
                         /\ status[n][p] = "populating" => dst[n].pc # "idle" /\ p \in Range(dst[n].tasks)
                         /\ status[n][p] \in {"depopulating", "cleaning"} =>
                              [kind |-> status[n][p], proclet |-> p] \in jobs[n]
  BY DEF RoundsAgree
<1>1. src[n].pc \in {"idle", "loop"} => \A d \in Nodes : chan[<<n, d>>] = <<>> /\ back[<<n, d>>] = <<>>
  <2> SUFFICES ASSUME src[n].pc \in {"idle", "loop"}, NEW d \in Nodes
               PROVE  chan[<<n, d>>] = <<>> /\ back[<<n, d>>] = <<>>
    OBVIOUS
  <2>1. src[n].dest # d
    BY ConstantsOK DEF RoundInv, Counted
  <2> QED
    BY <2>1 DEF RoundInv
<1>2. dst[n].pc # "idle" => src[dst[n].from].dest = n
  BY DEF RoundInv
<1>3. \A p \in Proclets : status[n][p] = "populating" => dst[n].pc # "idle" /\ p \in Range(dst[n].tasks)
  BY RestIs DEF CleanInv, Cleaned
<1> QED
  BY <1>1, <1>2, <1>3 DEF CleanInv, Cleaned

THEOREM RoundsAlwaysAgree == Spec => []RoundsAgree
<1>1. Init => RoundInv /\ CleanInv
  BY InitRounds, InitClean
<1>2. RoundInv /\ CleanInv /\ [Next]_vars => RoundInv' /\ CleanInv'
  BY StepRoundInv, StepClean
<1> QED
  BY <1>1, <1>2, AgreesFrom, PTL DEF Spec

---------------------------------------------------------------------------
(* Where a proclet is, under QuietReuse.                                   *)

Off(st) == st \notin {"present", "destructing", "migrating"}

(* A step does not move q, nor change what n may do with it.               *)
Undisturbed(q) ==
  /\ \A m \in Nodes :
       /\ status'[m][q] = status[m][q] \/ (Off(status[m][q]) /\ Off(status'[m][q]))
       /\ Leaves(m, q)' <=> Leaves(m, q)
       /\ Sending(m, q)' <=> Sending(m, q)
       /\ q \in Pending(m)' => q \in Pending(m)
       /\ q \in Rest(m)' => status'[m][q] = "populating"
       /\ Found(status[m][q]) /\ q \in body[m] => q \in body'[m]
  /\ q \in alive' <=> q \in alive
  /\ making'[q] = making[q] /\ dying'[q] = dying[q]
  /\ q \in Picked' => q \in Picked

(* A step leaves q where it is.                                           *)
Stays(q) == \A m \in Nodes : Site(m, q)' <=> Site(m, q)
AllStay == \A q \in Proclets : Stays(q)

LEMMA SettledKept ==
  ASSUME MemoryTypes, NEW q \in Proclets, Settled(q), Undisturbed(q)
  PROVE  Settled(q)' /\ Stays(q)
<1>1. \A m \in Nodes :
        /\ Found(status'[m][q]) <=> Found(status[m][q])
        /\ status'[m][q] = "migrating" <=> status[m][q] = "migrating"
        /\ Found(status[m][q]) => status'[m][q] = status[m][q]
  BY DEF Undisturbed, Off, Found
<1>2. Placed(q)'
  BY <1>1 DEF Settled, Placed, Site, Undisturbed
<1>3. /\ making[q].node \in Nodes \cup {None} /\ dying[q] \in Nodes \cup {None}
      /\ making[q].pc # "no" => making[q].node # None
  BY DEF MemoryTypes, Making
<1>4. Life(q)'
  <2>1. \A m \in Nodes : status[m][q] \in {"present", "destructing"} => status'[m][q] = status[m][q]
    BY <1>1 DEF Found
  <2>2. making[q].pc \in {"attach", "insert"} => status'[making[q].node][q] = "present"
    BY <1>3, <2>1 DEF Settled, Life
  <2>3. dying[q] # None => making[q] = NotMaking /\ status'[dying[q]][q] = "destructing"
    BY <1>3, <2>1 DEF Settled, Life
  <2> QED
    BY <2>2, <2>3 DEF Settled, Life, Undisturbed, NotMaking
<1>5. \A n \in Nodes : Marks(n, q)'
  BY <1>1 DEF Settled, Marks, Undisturbed
<1>6. Stays(q)
  BY <1>1 DEF Stays, Site, Undisturbed
<1> QED
  BY <1>2, <1>4, <1>5, <1>6 DEF Settled

LEMMA PendingPicked ==
  ASSUME RoundInv, NEW n \in Nodes, NEW p \in Pending(n)
  PROVE  p \in Picked
  BY TasksArePicked, ListedIs DEF Pending

(* What the rounds do to a proclet that they do not move.                  *)
LEMMA TalkPlaces ==
  ASSUME RoundInv, MemoryTypes, PlaceInv, ListsKept, UNCHANGED <<memory, app>>
  PROVE  PlaceInv' /\ AllStay
<1> SUFFICES ASSUME NEW q \in Proclets PROVE Settled(q)' /\ Stays(q)
  BY DEF PlaceInv, AllStay
<1>1. status' = status /\ body' = body /\ alive' = alive /\ making' = making /\ dying' = dying
  BY DEF memory, app
<1>2. Settled(q)
  BY DEF PlaceInv
<1>3. Undisturbed(q)
  BY <1>1, <1>2 DEF Undisturbed, ListsKept, Settled, Marks
<1> QED
  BY <1>2, <1>3, SettledKept

LEMMA LoadPlaces ==
  ASSUME RoundInv, MemoryTypes, PlaceInv, UNCHANGED app,
         \A m \in Nodes, q \in Proclets :
           /\ status'[m][q] = status[m][q] \/ (Off(status[m][q]) /\ Off(status'[m][q]))
           /\ Leaves(m, q)' <=> Leaves(m, q)
           /\ Sending(m, q)' <=> Sending(m, q)
           /\ q \in Pending(m)' => q \in Pending(m)
           /\ q \in Rest(m)' => status'[m][q] = "populating"
           /\ Found(status[m][q]) /\ q \in body[m] => q \in body'[m],
         Picked' \subseteq Picked
  PROVE  PlaceInv' /\ AllStay
<1> SUFFICES ASSUME NEW q \in Proclets PROVE Settled(q)' /\ Stays(q)
  BY DEF PlaceInv, AllStay
<1>1. alive' = alive /\ making' = making /\ dying' = dying
  BY DEF app
<1>2. Settled(q)
  BY DEF PlaceInv
<1>3. Undisturbed(q)
  BY <1>1 DEF Undisturbed
<1> QED
  BY <1>2, <1>3, SettledKept

LEMMA RestPopulating ==
  ASSUME PlaceInv, NEW n \in Nodes, NEW p \in Proclets
  PROVE  /\ p \in Rest(n) => status[n][p] = "populating"
         /\ status[n][p] = "migrating" <=> Sending(n, p)
         /\ Found(status[n][p]) => p \in body[n]
  BY DEF PlaceInv, Settled, Marks

LEMMA LoadStartPlaces ==
  ASSUME RoundInv, MemoryTypes, PlaceInv, NEW n \in Nodes, NEW s \in Nodes, LoadStart(n, s)
  PROVE  PlaceInv' /\ AllStay
<1> PICK P : P = Range(Head(chan[<<s, n>>]).tasks)
  OBVIOUS
<1>1. /\ \A m \in Nodes, q \in Proclets :
           status'[m][q] = IF m = n /\ q \in P THEN "populating" ELSE status[m][q]
      /\ UNCHANGED app /\ body' = body
  BY LoadStartStatus
<1>2. \A m \in Nodes, p \in Proclets :
        /\ Leaves(m, p)' <=> Leaves(m, p)
        /\ Sending(m, p)' <=> Sending(m, p)
        /\ p \in Pending(m)' => p \in Pending(m)
        /\ m # n => (p \in Rest(m)' <=> p \in Rest(m))
        /\ p \in Rest(n)' <=> p \in P
        /\ p \in P => p \in Pending(s)
  BY LoadStartLists
<1>3. Picked' \subseteq Picked
  BY LoadStartLists
<1>4. src[s].dest = n /\ src[n].pc = "idle" /\ n # s /\ ~\E p : Sending(n, p)
  <2>1. src[s].dest = n
    BY LoadStartFields
  <2>2. src[n].pc = "idle" /\ src[s].pc # "idle"
    BY <2>1, ConstantsOK DEF RoundInv, Counted
  <2> QED
    BY <2>1, <2>2 DEF Sending
<1>5. \A q \in Proclets : q \in P => Off(status[n][q])
  <2> SUFFICES ASSUME NEW q \in Proclets, q \in P PROVE Off(status[n][q])
    OBVIOUS
  <2>1. ~Found(status[n][q])
    BY <1>2, <1>4 DEF PlaceInv, Settled, Placed, Site
  <2>2. status[n][q] # "migrating"
    BY <1>4, RestPopulating
  <2> QED
    BY <2>1, <2>2 DEF Off, Found
<1>6. Off("populating")
  BY DEF Off
<1>7. \A m \in Nodes, q \in Proclets :
        /\ status'[m][q] = status[m][q] \/ (Off(status[m][q]) /\ Off(status'[m][q]))
        /\ q \in Rest(m)' => status'[m][q] = "populating"
  BY <1>1, <1>2, <1>5, <1>6, RestPopulating
<1> QED
  BY <1>1, <1>2, <1>3, <1>7, LoadPlaces

LEMMA DepopulatePlaces ==
  ASSUME RoundInv, MemoryTypes, PlaceInv, NEW n \in Nodes, LoadSkip(n) \/ LoadCopy(n) \/ LoadRefuse(n)
  PROVE  PlaceInv' /\ AllStay
<1> PICK q0 : q0 = dst[n].tasks[dst[n].i]
  OBVIOUS
<1>1. Off("depopulating") /\ Off("populating")
  BY DEF Off
<1>2. CASE LoadSkip(n)
  <2>1. Becomes(n, q0, "depopulating") /\ UNCHANGED app /\ body' = body
    BY <1>2, SkipStatus
  <2>2. /\ q0 \in Rest(n) /\ q0 \in Proclets
        /\ \A m \in Nodes, p \in Proclets :
             /\ Sending(m, p)' <=> Sending(m, p)
             /\ p \in Pending(m)' => p \in Pending(m)
             /\ p \in Rest(m)' <=> p \in Rest(m) /\ (m # n \/ p # q0)
        /\ Picked' \subseteq Picked
    BY <1>2, LoadedLists
  <2>3. \A m \in Nodes, p \in Proclets : Leaves(m, p)' <=> Leaves(m, p)
    BY <1>2, SkipLeaves
  <2>4. status[n][q0] = "populating"
    BY <2>2, RestPopulating
  <2>5. \A m \in Nodes, q \in Proclets :
          /\ status'[m][q] = status[m][q] \/ (Off(status[m][q]) /\ Off(status'[m][q]))
          /\ q \in Rest(m)' => status'[m][q] = "populating"
    BY <1>1, <2>1, <2>2, <2>4, RestPopulating DEF Becomes
  <2> QED
    BY <2>1, <2>2, <2>3, <2>5, LoadPlaces
<1>3. CASE LoadCopy(n)
  <2>1. /\ q0 \in Rest(n) /\ q0 \in Proclets
        /\ status' = status \/ status[n][q0] \in {"depopulating", "cleaning"}
        /\ UNCHANGED app /\ \A m \in Nodes : body[m] \subseteq body'[m]
    BY <1>3, CopyStatus
  <2>2. status' = status
    BY <2>1, RestPopulating
  <2>3. ListsKept
    BY <1>3, ApproveLists
  <2>4. \A m \in Nodes, q \in Proclets :
          /\ status'[m][q] = status[m][q]
          /\ Leaves(m, q)' <=> Leaves(m, q)
          /\ Sending(m, q)' <=> Sending(m, q)
          /\ q \in Pending(m)' => q \in Pending(m)
          /\ q \in Rest(m)' => status'[m][q] = "populating"
          /\ Found(status[m][q]) /\ q \in body[m] => q \in body'[m]
    BY <2>1, <2>2, <2>3, RestPopulating DEF ListsKept
  <2>5. Picked' \subseteq Picked
    BY <2>3 DEF ListsKept
  <2> QED
    BY <2>1, <2>4, <2>5, LoadPlaces
<1>4. CASE LoadRefuse(n)
  <2>1. /\ \A m \in Nodes, q \in Proclets :
             status'[m][q] = IF m = n /\ q \in Rest(n) THEN "depopulating" ELSE status[m][q]
        /\ UNCHANGED app /\ body' = body
    BY <1>4, RefuseStatus
  <2>2. /\ \A m \in Nodes, p \in Proclets :
             /\ Leaves(m, p)' <=> Leaves(m, p)
             /\ Sending(m, p)' <=> Sending(m, p)
             /\ p \in Pending(m)' => p \in Pending(m)
             /\ p \in Rest(m)' <=> p \in Rest(m) /\ m # n
        /\ Picked' \subseteq Picked
    BY <1>4, RefuseLists
  <2>3. \A m \in Nodes, q \in Proclets :
          /\ status'[m][q] = status[m][q] \/ (Off(status[m][q]) /\ Off(status'[m][q]))
          /\ q \in Rest(m)' => status'[m][q] = "populating"
    BY <1>1, <2>1, <2>2, RestPopulating
  <2> QED
    BY <2>1, <2>2, <2>3, LoadPlaces
<1> QED
  BY <1>2, <1>3, <1>4

LEMMA JobPlaces ==
  ASSUME RoundInv, MemoryTypes, PlaceInv, NEW n \in Nodes, NEW job \in jobs[n], RunJob(n, job)
  PROVE  PlaceInv' /\ AllStay
<1> PICK q0 : q0 = job.proclet
  OBVIOUS
<1>1. /\ q0 \in Proclets
      /\ \/ status' = status /\ body' = body
         \/ /\ Becomes(n, q0, "absent") /\ status[n][q0] \in {"depopulating", "cleaning"}
            /\ body' = [body EXCEPT ![n] = @ \ {q0}]
      /\ UNCHANGED app
  BY JobStatus
<1>2. ListsKept
  BY StillLists DEF RunJob, links
<1>3. /\ \A m \in Nodes, q \in Proclets :
           /\ Leaves(m, q)' <=> Leaves(m, q)
           /\ Sending(m, q)' <=> Sending(m, q)
           /\ q \in Pending(m)' => q \in Pending(m)
           /\ q \in Rest(m)' <=> q \in Rest(m)
      /\ Picked' \subseteq Picked
  BY <1>2 DEF ListsKept
<1>4. CASE status' = status /\ body' = body
  BY <1>1, <1>3, <1>4, RestPopulating, LoadPlaces
<1>5. CASE /\ Becomes(n, q0, "absent") /\ status[n][q0] \in {"depopulating", "cleaning"}
           /\ body' = [body EXCEPT ![n] = @ \ {q0}]
  <2>1. Off(status[n][q0]) /\ Off("absent") /\ ~Found(status[n][q0]) /\ q0 \notin Rest(n)
    BY <1>1, <1>5, RestPopulating DEF Off, Found
  <2>2. \A m \in Nodes, q \in Proclets : m # n \/ q # q0 => (q \in body[m] => q \in body'[m])
    BY <1>5 DEF MemoryTypes
  <2>3. \A m \in Nodes, q \in Proclets :
          /\ status'[m][q] = status[m][q] \/ (Off(status[m][q]) /\ Off(status'[m][q]))
          /\ q \in Rest(m)' => status'[m][q] = "populating"
          /\ Found(status[m][q]) /\ q \in body[m] => q \in body'[m]
    BY <1>3, <1>5, <2>1, <2>2, RestPopulating DEF Becomes
  <2> QED
    BY <1>1, <1>3, <2>3, LoadPlaces
<1> QED
  BY <1>1, <1>4, <1>5

(* What the rounds do to the proclet that they mark and move.              *)
LEMMA StartPlaces ==
  ASSUME QuietReuse, RoundInv, MemoryTypes, PlaceInv, NEW n \in Nodes, NEW P \in SUBSET Proclets,
         NEW ts \in SetToSeqs(P), MainStart(n, ts) \/ PickAgain(n, ts)
  PROVE  PlaceInv' /\ AllStay
<1> PICK T : T = Range(ts)
  OBVIOUS
<1>1. /\ UNCHANGED <<memory, app>>
      /\ \A p \in T : status[n][p] = "present" /\ making[p] = NotMaking
      /\ \A m \in Nodes, p \in Proclets :
           /\ Leaves(m, p)' <=> Leaves(m, p)
           /\ Sending(m, p)' <=> Sending(m, p)
           /\ p \in Pending(m)' => p \in Pending(m) \/ (m = n /\ p \in T)
           /\ p \in Rest(m)' <=> p \in Rest(m)
      /\ \A p \in Picked' : p \in Picked \/ p \in T
  BY StartLists
<1>2. status' = status /\ body' = body /\ alive' = alive /\ making' = making /\ dying' = dying
  BY <1>1 DEF memory, app
<1>3. ASSUME NEW q \in Proclets
      PROVE  Settled(q)' /\ Stays(q)
  <2>1. Placed(q) /\ Life(q) /\ \A m \in Nodes : Marks(m, q)
    BY DEF PlaceInv, Settled
  <2>2. \A m \in Nodes : Site(m, q)' <=> Site(m, q)
    BY <1>1, <1>2 DEF Site
  <2>3. q \in T => Site(n, q)
    BY <1>1 DEF Site, Found
  <2>4. Placed(q)'
    BY <1>1, <1>2, <2>1, <2>2, <2>3 DEF Placed
  <2>5. Life(q)'
    BY <1>1, <1>2, <2>1 DEF Life, NotMaking
  <2>6. \A m \in Nodes : Marks(m, q)'
    BY <1>1, <1>2, <2>1 DEF Marks
  <2> QED
    BY <2>2, <2>4, <2>5, <2>6 DEF Settled, Stays
<1> QED
  BY <1>3 DEF PlaceInv, AllStay

(* A step that changes the status of q0 at n, and no other.                *)
LEMMA OthersSettled ==
  ASSUME RoundInv, MemoryTypes, PlaceInv, NEW q0, NEW q \in Proclets, q # q0,
         UNCHANGED app, Picked' \subseteq Picked,
         \A m \in Nodes :
           /\ status'[m][q] = status[m][q]
           /\ Leaves(m, q)' <=> Leaves(m, q)
           /\ Sending(m, q)' <=> Sending(m, q)
           /\ q \in Pending(m)' => q \in Pending(m)
           /\ q \in Rest(m)' => q \in Rest(m)
           /\ body'[m] = body[m]
  PROVE  Settled(q)' /\ Stays(q)
<1>1. Settled(q) /\ \A m \in Nodes : q \in Rest(m) => status[m][q] = "populating"
  BY RestPopulating DEF PlaceInv
<1>2. Undisturbed(q)
  BY <1>1 DEF Undisturbed, app
<1> QED
  BY <1>1, <1>2, SettledKept

LEMMA MarkPlaces ==
  ASSUME QuietReuse, RoundInv, MemoryTypes, PlaceInv, NEW n \in Nodes, SrcMark(n)
  PROVE  PlaceInv' /\ AllStay
<1> PICK q0 : q0 = TaskOf(src[n], src[n].i)
  OBVIOUS
<1>1. status[n][q0] = "present" /\ Becomes(n, q0, "migrating") /\ UNCHANGED <<body, jobs, app>>
  BY MarkStatus
<1>2. /\ \A m \in Nodes, p \in Proclets :
           /\ m # n => (Leaves(m, p)' <=> Leaves(m, p)) /\ (Sending(m, p)' <=> Sending(m, p))
           /\ p \in Pending(m)' => p \in Pending(m)
           /\ p \in Rest(m)' <=> p \in Rest(m)
      /\ Picked' \subseteq Picked
  BY MarkLists DEF SrcLists
<1>3. /\ q0 \in Pending(n) /\ q0 \in Proclets
      /\ \A p \in Proclets :
           /\ Leaves(n, p)' <=> Leaves(n, p) \/ p = q0
           /\ Sending(n, p)' <=> p = q0
           /\ ~Sending(n, p)
  BY MarkLists
<1>4. Placed(q0) /\ Life(q0) /\ (\A m \in Nodes : Marks(m, q0)) /\ q0 \in Picked
  BY <1>3, PendingPicked DEF PlaceInv, Settled
<1>5. /\ alive' = alive /\ making' = making /\ dying' = dying /\ body' = body
      /\ making[q0] = NotMaking
  BY <1>1, <1>4 DEF app, Life
<1>6. Site(n, q0) /\ Site(n, q0)' /\ \A m \in Nodes : Site(m, q0)' <=> Site(m, q0)
  BY <1>1, <1>2, <1>3 DEF Site, Found, Becomes
<1>7. Placed(q0)'
  <2>1. \A m \in Nodes : ~(Found(status'[m][q0]) /\ Leaves(m, q0)')
    BY <1>1, <1>2, <1>3, <1>4 DEF Placed, Becomes, Found
  <2>2. \A k, m \in Nodes : Site(k, q0) /\ Site(m, q0) => k = m
    BY <1>4 DEF Placed
  <2>3. (\E m \in Nodes : Site(m, q0)') <=> q0 \in alive' /\ making'[q0].pc # "setup"
    BY <1>4, <1>5, <1>6 DEF Placed
  <2>4. \A k, m \in Nodes : q0 \in Pending(k)' /\ Site(m, q0)' => k = m
    BY <1>2, <1>3, <1>4, <1>6 DEF Placed
  <2> QED
    BY <1>6, <2>1, <2>2, <2>3, <2>4 DEF Placed
<1>8. Life(q0)'
  <2>1. dying[q0] = None
    <3>1. dying[q0] \in Nodes \cup {None}
      BY <1>3 DEF MemoryTypes
    <3>2. dying[q0] # None => Site(dying[q0], q0) /\ status[dying[q0]][q0] = "destructing"
      BY <1>4 DEF Life, Site, Found
    <3> QED
      BY <1>1, <1>4, <1>6, <3>1, <3>2 DEF Placed
  <2> QED
    BY <1>4, <1>5, <2>1 DEF Life, NotMaking
<1>9. \A m \in Nodes : Marks(m, q0)'
  BY <1>1, <1>2, <1>3, <1>4, <1>5 DEF Marks, Becomes, Found
<1>10. ASSUME NEW q \in Proclets, q # q0
       PROVE  Settled(q)' /\ Stays(q)
  <2>1. ~Sending(n, q) /\ ~Sending(n, q)' /\ (Leaves(n, q)' <=> Leaves(n, q))
    BY <1>3, <1>10
  <2>2. \A m \in Nodes :
           /\ status'[m][q] = status[m][q]
           /\ Leaves(m, q)' <=> Leaves(m, q)
           /\ Sending(m, q)' <=> Sending(m, q)
           /\ q \in Pending(m)' => q \in Pending(m)
           /\ q \in Rest(m)' => q \in Rest(m)
           /\ body'[m] = body[m]
    BY <1>1, <1>2, <1>5, <1>10, <2>1 DEF Becomes
  <2> QED
    BY <1>1, <1>2, <1>10, <2>2, OthersSettled
<1> QED
  BY <1>6, <1>7, <1>8, <1>9, <1>10 DEF PlaceInv, Settled, AllStay, Stays

LEMMA CleaningPlaces ==
  ASSUME RoundInv, MemoryTypes, PlaceInv, NEW n \in Nodes, SrcCleaning(n)
  PROVE  PlaceInv' /\ AllStay
<1> PICK q0 : q0 = TaskOf(src[n], src[n].i)
  OBVIOUS
<1>1. Becomes(n, q0, "cleaning") /\ UNCHANGED <<body, app>>
  BY CleaningStatus
<1>2. /\ \A m \in Nodes, p \in Proclets :
           /\ m # n => (Leaves(m, p)' <=> Leaves(m, p)) /\ (Sending(m, p)' <=> Sending(m, p))
           /\ p \in Pending(m)' => p \in Pending(m)
           /\ p \in Rest(m)' <=> p \in Rest(m)
      /\ Picked' \subseteq Picked
  BY CleaningLists DEF SrcLists
<1>3. /\ q0 \in Proclets
      /\ \A p \in Proclets :
           /\ Leaves(n, p)' <=> Leaves(n, p)
           /\ ~Sending(n, p)'
           /\ Sending(n, p) <=> p = q0
  BY CleaningLists
<1>4. Placed(q0) /\ Life(q0) /\ (\A m \in Nodes : Marks(m, q0))
  BY <1>3 DEF PlaceInv, Settled
<1>5. alive' = alive /\ making' = making /\ dying' = dying /\ body' = body
  BY <1>1 DEF app
<1>6. status[n][q0] = "migrating" /\ q0 \notin Rest(n)
  BY <1>3, <1>4 DEF Marks
<1>7. /\ \A m \in Nodes : Found(status'[m][q0]) <=> Found(status[m][q0])
      /\ \A m \in Nodes : Found(status[m][q0]) => status'[m][q0] = status[m][q0]
      /\ \A m \in Nodes : Leaves(m, q0)' <=> Leaves(m, q0)
  BY <1>1, <1>2, <1>3, <1>6 DEF Becomes, Found
<1>8. Placed(q0)'
  <2>1. \A m \in Nodes : Site(m, q0)' <=> Site(m, q0)
    BY <1>7 DEF Site
  <2>2. \A k, m \in Nodes : Site(k, q0) /\ Site(m, q0) => k = m
    BY <1>4 DEF Placed
  <2>3. (\E m \in Nodes : Site(m, q0)') <=> q0 \in alive' /\ making'[q0].pc # "setup"
    BY <1>4, <1>5, <2>1 DEF Placed
  <2>4. \A k, m \in Nodes : q0 \in Pending(k)' /\ Site(m, q0)' => k = m
    BY <1>2, <1>3, <1>4, <2>1 DEF Placed
  <2>5. \A m \in Nodes : ~(Found(status'[m][q0]) /\ Leaves(m, q0)')
    BY <1>4, <1>7 DEF Placed
  <2> QED
    BY <2>1, <2>2, <2>3, <2>4, <2>5 DEF Placed
<1>9. Life(q0)'
  <2>1. /\ making[q0].node \in Nodes \cup {None} /\ dying[q0] \in Nodes \cup {None}
        /\ making[q0].pc # "no" => making[q0].node # None
    BY <1>3 DEF MemoryTypes, Making
  <2>2. making[q0].pc \in {"attach", "insert"} => status'[making[q0].node][q0] = "present"
    BY <1>4, <1>7, <2>1 DEF Life, Found
  <2>3. dying[q0] # None => status'[dying[q0]][q0] = "destructing"
    BY <1>4, <1>7, <2>1 DEF Life, Found
  <2> QED
    BY <1>2, <1>4, <1>5, <2>2, <2>3 DEF Life, NotMaking
<1>10. \A m \in Nodes : Marks(m, q0)'
  BY <1>1, <1>2, <1>3, <1>4, <1>5, <1>6 DEF Marks, Becomes, Found
<1>11. ASSUME NEW q \in Proclets, q # q0
       PROVE  Settled(q)' /\ Stays(q)
  <2>1. ~Sending(n, q) /\ ~Sending(n, q)' /\ (Leaves(n, q)' <=> Leaves(n, q))
    BY <1>3, <1>11
  <2>2. \A m \in Nodes :
           /\ status'[m][q] = status[m][q]
           /\ Leaves(m, q)' <=> Leaves(m, q)
           /\ Sending(m, q)' <=> Sending(m, q)
           /\ q \in Pending(m)' => q \in Pending(m)
           /\ q \in Rest(m)' => q \in Rest(m)
           /\ body'[m] = body[m]
    BY <1>1, <1>2, <1>5, <1>11, <2>1 DEF Becomes
  <2> QED
    BY <1>1, <1>2, <1>11, <2>2, OthersSettled
<1> QED
  <2>1. Stays(q0)
    BY <1>7 DEF Stays, Site
  <2> QED
    BY <1>8, <1>9, <1>10, <1>11, <2>1 DEF PlaceInv, Settled, AllStay

(* The site of a proclet becomes the node that inserts it.                 *)
LEMMA InsertPlaces ==
  ASSUME RoundInv, MemoryTypes, PlaceInv, NEW n \in Nodes, LoadInsert(n)
  PROVE  /\ PlaceInv'
         /\ \A q \in Proclets : q # dst[n].tasks[dst[n].i] => Stays(q)
<1> PICK q0 : q0 = dst[n].tasks[dst[n].i]
  OBVIOUS
<1>1. Becomes(n, q0, "present") /\ q0 \in body[n] /\ UNCHANGED <<body, jobs, app>>
  BY InsertStatus
<1>2. /\ q0 \in Rest(n) /\ q0 \in Proclets
      /\ \A m \in Nodes, p \in Proclets :
           /\ Sending(m, p)' <=> Sending(m, p)
           /\ p \in Pending(m)' => p \in Pending(m)
           /\ p \in Rest(m)' <=> p \in Rest(m) /\ (m # n \/ p # q0)
      /\ Picked' \subseteq Picked
  BY LoadedLists
<1>3. PICK s \in Nodes :
        /\ Leaves(s, q0) /\ ~Leaves(s, q0)' /\ q0 \notin Pending(s)
        /\ \A m \in Nodes, p \in Proclets :
             m # s \/ p # q0 => (Leaves(m, p)' <=> Leaves(m, p))
  BY InsertLeaves
<1>4. Placed(q0) /\ Life(q0) /\ (\A m \in Nodes : Marks(m, q0)) /\ q0 \in Picked
  BY <1>2, RestIs DEF PlaceInv, Settled
<1>5. /\ alive' = alive /\ making' = making /\ dying' = dying /\ body' = body
      /\ making[q0] = NotMaking
  BY <1>1, <1>4 DEF app, Life
<1>6. /\ status[n][q0] = "populating" /\ ~Sending(n, q0)
      /\ Site(s, q0) /\ \A m \in Nodes : Site(m, q0) => m = s
  BY <1>2, <1>3, <1>4 DEF Marks, Placed, Site
<1>7. /\ \A m \in Nodes : ~Leaves(m, q0)' /\ q0 \notin Pending(m)
      /\ \A m \in Nodes : ~Found(status[m][q0])
  BY <1>2, <1>3, <1>4, <1>6 DEF Placed, Site
<1>8. \A m \in Nodes : Site(m, q0)' <=> m = n
  BY <1>1, <1>2, <1>7 DEF Site, Becomes, Found
<1>9. Placed(q0)'
  <2>1. (\E m \in Nodes : Site(m, q0)') <=> q0 \in alive' /\ making'[q0].pc # "setup"
    BY <1>4, <1>5, <1>6, <1>8 DEF Placed
  <2> QED
    BY <1>2, <1>7, <1>8, <2>1 DEF Placed
<1>10. Life(q0)'
  <2>1. dying[q0] \in Nodes \cup {None}
    BY <1>2 DEF MemoryTypes
  <2>2. dying[q0] = None
    BY <1>4, <1>7, <2>1 DEF Life, Found
  <2> QED
    BY <1>4, <1>5, <2>2 DEF Life, NotMaking
<1>11. \A m \in Nodes : Marks(m, q0)'
  BY <1>1, <1>2, <1>4, <1>5, <1>6, <1>7 DEF Marks, Becomes, Found
<1>12. ASSUME NEW q \in Proclets, q # q0
       PROVE  Settled(q)' /\ Stays(q)
  <2>1. \A m \in Nodes :
           /\ status'[m][q] = status[m][q]
           /\ Leaves(m, q)' <=> Leaves(m, q)
           /\ Sending(m, q)' <=> Sending(m, q)
           /\ q \in Pending(m)' => q \in Pending(m)
           /\ q \in Rest(m)' => q \in Rest(m)
           /\ body'[m] = body[m]
    BY <1>1, <1>2, <1>3, <1>5, <1>12 DEF Becomes
  <2> QED
    BY <1>1, <1>2, <1>12, <2>1, OthersSettled
<1> QED
  BY <1>9, <1>10, <1>11, <1>12 DEF PlaceInv, Settled

(* What the application does to p.                                         *)
LEMMA AppOthers ==
  ASSUME RoundInv, MemoryTypes, PlaceInv, NEW p \in Proclets, NEW n \in Nodes, OneApp(p, n),
         NEW q \in Proclets, q # p
  PROVE  Settled(q)' /\ Stays(q)
<1>1. ListsKept
  BY AppStill, StillLists
<1>2. \/ status' = status
      \/ \E m \in Nodes : \E st : Becomes(m, p, st)
  BY AppFields DEF OneApp
<1>3. \A m \in Nodes : status'[m][q] = status[m][q]
  BY <1>2 DEF Becomes
<1>4. \A m \in Nodes : q \in body[m] => q \in body'[m]
  <2> DEFINE at == making[p].node
  <2>1. \/ body' = body \/ body' = [body EXCEPT ![n] = @ \ {p}]
        \/ at \in Nodes /\ body' = [body EXCEPT ![at] = @ \cup {p}]
    BY AppFields DEF OneApp
  <2> QED
    BY <2>1 DEF MemoryTypes
<1>5. q \in alive' <=> q \in alive
  <2>1. \/ alive' = alive \/ alive' = alive \ {p} \/ alive' = alive \cup {p}
    BY AppFields DEF OneApp
  <2> QED
    BY <2>1
<1>6. dying'[q] = dying[q]
  <2>1. \/ dying' = dying \/ dying' = [dying EXCEPT ![p] = n] \/ dying' = [dying EXCEPT ![p] = None]
    BY AppFields DEF OneApp
  <2> QED
    BY <2>1 DEF MemoryTypes
<1>7. making'[q] = making[q]
  <2>1. making' = making \/ \E r : Makes(p, r)
    BY AppFields DEF OneApp
  <2> QED
    BY <2>1, MakeTypes
<1>8. Settled(q) /\ \A m \in Nodes : q \in Rest(m) => status[m][q] = "populating"
  BY RestPopulating DEF PlaceInv
<1>9. Undisturbed(q)
  BY <1>1, <1>3, <1>4, <1>5, <1>6, <1>7, <1>8 DEF Undisturbed, ListsKept
<1> QED
  BY <1>8, <1>9, SettledKept

(* As long as p is constructed no handler has it among its tasks.          *)
LEMMA NotAmongTasks ==
  ASSUME RoundInv, PlaceInv, NEW p \in Proclets, making[p] # NotMaking \/ p \notin Picked
  PROVE  /\ p \notin Picked
         /\ \A m \in Nodes : ~Leaves(m, p) /\ ~Sending(m, p) /\ p \notin Pending(m) /\ p \notin Rest(m)
<1>1. p \notin Picked
  BY DEF PlaceInv, Settled, Life
<1>2. ASSUME NEW m \in Nodes, Sending(m, p)
      PROVE  p \in Picked
  <2>1. src[m].dest # None /\ src[m].i \in 1..src[m].size
    BY <1>2, CountedFacts, ConstantsOK DEF Sending, Counted
  <2> QED
    BY <1>2, <2>1, TasksArePicked DEF Sending
<1> QED
  BY <1>1, <1>2, LeavesIs, PendingPicked, RestIs

(* The lists after a step of the application are those before.             *)
LEMMA AppLists ==
  ASSUME NEW p \in Proclets, NEW n \in Nodes, OneApp(p, n)
  PROVE  /\ \A m \in Nodes, q \in Proclets :
              /\ Leaves(m, q)' <=> Leaves(m, q)
              /\ Sending(m, q)' <=> Sending(m, q)
              /\ q \in Pending(m)' => q \in Pending(m)
              /\ q \in Rest(m)' <=> q \in Rest(m)
         /\ Picked' \subseteq Picked
  BY AppStill, StillLists DEF ListsKept

LEMMA MakePlaces ==
  ASSUME RoundInv, MemoryTypes, PlaceInv, NEW p \in Proclets, NEW n \in Nodes,
         Setup(p) \/ Construct(p) \/ Insert(p)
  PROVE  Settled(p)'
<1>1. OneApp(p, n)
  BY DEF OneApp
<1>2. making[p].pc # "no" /\ making[p].node \in Nodes /\ making[p] # NotMaking
  <2>1. making[p].pc \in {"setup", "attach", "insert"} /\ making[p].node \in Nodes
    BY AppFields
  <2> QED
    BY <2>1 DEF NotMaking
<1> PICK at \in Nodes : at = making[p].node
  BY <1>2
<1>3. /\ p \notin Picked
      /\ \A m \in Nodes : ~Leaves(m, p) /\ ~Sending(m, p) /\ p \notin Pending(m) /\ p \notin Rest(m)
  BY <1>2, NotAmongTasks
<1>4. /\ p \notin Picked'
      /\ \A m \in Nodes :
           /\ ~Leaves(m, p)' /\ ~Sending(m, p)' /\ p \notin Pending(m)' /\ p \notin Rest(m)'
  BY <1>1, <1>3, AppLists
<1>5. Placed(p) /\ Life(p) /\ (\A m \in Nodes : Marks(m, p)) /\ p \in alive /\ dying[p] = None
  BY <1>2 DEF PlaceInv, Settled, Life
<1>6. CASE Setup(p)
  <2>1. /\ making[p].pc = "setup" /\ Becomes(at, p, "present")
        /\ body' = [body EXCEPT ![at] = @ \cup {p}]
        /\ Makes(p, [node |-> at, pc |-> "attach"]) /\ alive' = alive /\ dying' = dying
    BY <1>6, AppFields
  <2>2. making'[p] = [node |-> at, pc |-> "attach"]
    BY <2>1, MakeTypes
  <2>3. making'[p].pc = "attach" /\ making'[p].node = at
    BY <2>2
  <2>4. \A m \in Nodes : status'[m][p] = IF m = at THEN "present" ELSE status[m][p]
    BY <2>1 DEF Becomes
  <2>5. p \in body'[at] /\ \A m \in Nodes : body[m] \subseteq body'[m]
    BY <2>1 DEF MemoryTypes
  <2>6. \A m \in Nodes : ~Found(status[m][p])
    BY <1>5, <2>1 DEF Placed, Site
  <2>7. \A m \in Nodes : Found(status'[m][p]) <=> m = at
    BY <2>4, <2>6 DEF Found
  <2>8. Placed(p)'
    BY <1>4, <1>5, <2>1, <2>3, <2>7 DEF Placed, Site
  <2>9. Life(p)'
    BY <1>4, <1>5, <2>1, <2>3, <2>4 DEF Life
  <2>10. \A m \in Nodes : Marks(m, p)'
    BY <1>3, <1>4, <1>5, <2>4, <2>5, <2>7 DEF Marks
  <2> QED
    BY <2>8, <2>9, <2>10 DEF Settled
<1>7. CASE Construct(p) \/ Insert(p)
  <2>1. making[p].pc \in {"attach", "insert"}
    BY <1>7, AppFields
  <2>2. status[at][p] = "present"
    BY <1>5, <2>1 DEF Life
  <2>3. /\ body' = body /\ alive' = alive /\ dying' = dying
        /\ Becomes(at, p, "present") \/ status' = status
        /\ Makes(p, [node |-> at, pc |-> "insert"]) \/ Makes(p, NotMaking)
    BY <1>7, AppFields
  <2>4. \A m \in Nodes : status'[m][p] = status[m][p]
    BY <2>2, <2>3 DEF Becomes
  <2>5. making'[p] = [node |-> at, pc |-> "insert"] \/ making'[p] = NotMaking
    BY <2>3, MakeTypes
  <2>6. /\ making'[p].pc \in {"insert", "no"}
        /\ making'[p].pc = "insert" => making'[p].node = at
    BY <2>5 DEF NotMaking
  <2>7. Placed(p)'
    <3>1. \A m \in Nodes : Site(m, p)' <=> Site(m, p)
      BY <1>3, <1>4, <2>4 DEF Site
    <3>2. (\E m \in Nodes : Site(m, p)) <=> p \in alive
      BY <1>5, <2>1 DEF Placed
    <3>3. \A k, m \in Nodes : Site(k, p) /\ Site(m, p) => k = m
      BY <1>5 DEF Placed
    <3> QED
      BY <1>4, <2>3, <2>6, <3>1, <3>2, <3>3 DEF Placed
  <2>8. Life(p)'
    BY <1>4, <1>5, <2>2, <2>3, <2>4, <2>6 DEF Life
  <2>9. \A m \in Nodes : Marks(m, p)'
    BY <1>3, <1>4, <1>5, <2>3, <2>4 DEF Marks
  <2> QED
    BY <2>7, <2>8, <2>9 DEF Settled
<1> QED
  BY <1>6, <1>7

LEMMA DestroyIs ==
  ASSUME QuietReuse, MemoryTypes, NEW p \in Proclets, NEW n \in Nodes, Destroy(n, p)
  PROVE  /\ status[n][p] = "present" /\ dying[p] = None /\ making[p] = NotMaking
         /\ Becomes(n, p, "destructing") /\ body' = body /\ making' = making /\ alive' = alive
         /\ dying' = [dying EXCEPT ![p] = n]
<1>1. "destructing" \in Statuses
  BY DEF Statuses
<1>2. Becomes(n, p, "destructing")
  BY <1>1, StatusSet DEF Destroy
<1> QED
  BY <1>2 DEF Destroy

LEMMA DestroyPlaces ==
  ASSUME QuietReuse, RoundInv, MemoryTypes, PlaceInv, NEW p \in Proclets, NEW n \in Nodes, Destroy(n, p)
  PROVE  Settled(p)'
<1>1. OneApp(p, n)
  BY DEF OneApp
<1>2. /\ status[n][p] = "present" /\ dying[p] = None /\ making[p] = NotMaking
      /\ Becomes(n, p, "destructing") /\ body' = body /\ making' = making /\ alive' = alive
      /\ dying' = [dying EXCEPT ![p] = n]
  BY DestroyIs
<1>3. /\ \A m \in Nodes :
           /\ Leaves(m, p)' <=> Leaves(m, p)
           /\ Sending(m, p)' <=> Sending(m, p)
           /\ p \in Pending(m)' => p \in Pending(m)
           /\ p \in Rest(m)' <=> p \in Rest(m)
      /\ Picked' \subseteq Picked
  BY <1>1, AppLists
<1>4. Placed(p) /\ Life(p) /\ (\A m \in Nodes : Marks(m, p))
  BY DEF PlaceInv, Settled
<1>5. \A m \in Nodes : status'[m][p] = IF m = n THEN "destructing" ELSE status[m][p]
  BY <1>2 DEF Becomes
<1>6. \A m \in Nodes : Found(status'[m][p]) <=> Found(status[m][p])
  BY <1>2, <1>5 DEF Found
<1>7. Placed(p)'
  <2>1. \A m \in Nodes : Site(m, p)' <=> Site(m, p)
    BY <1>3, <1>6 DEF Site
  <2>2. \A k, m \in Nodes : Site(k, p) /\ Site(m, p) => k = m
    BY <1>4 DEF Placed
  <2>3. (\E m \in Nodes : Site(m, p)') <=> p \in alive' /\ making'[p].pc # "setup"
    BY <1>2, <1>4, <2>1 DEF Placed
  <2>4. \A k, m \in Nodes : p \in Pending(k)' /\ Site(m, p)' => k = m
    BY <1>3, <1>4, <2>1 DEF Placed
  <2>5. \A m \in Nodes : ~(Found(status'[m][p]) /\ Leaves(m, p)')
    BY <1>3, <1>4, <1>6 DEF Placed
  <2> QED
    BY <2>1, <2>2, <2>3, <2>4, <2>5 DEF Placed
<1>8. Life(p)'
  <2>1. dying'[p] = n
    BY <1>2 DEF MemoryTypes
  <2> QED
    BY <1>2, <1>5, <2>1 DEF Life, NotMaking
<1>9. \A m \in Nodes : Marks(m, p)'
  BY <1>2, <1>3, <1>4, <1>5, <1>6 DEF Marks
<1> QED
  BY <1>7, <1>8, <1>9 DEF Settled

LEMMA DestroyedPlaces ==
  ASSUME RoundInv, MemoryTypes, PlaceInv, NEW p \in Proclets, NEW n \in Nodes, Destroyed(n, p)
  PROVE  Settled(p)'
<1>1. OneApp(p, n)
  BY DEF OneApp
<1>2. /\ dying[p] = n /\ Becomes(n, p, "absent") /\ body' = [body EXCEPT ![n] = @ \ {p}]
      /\ making' = making /\ alive' = alive \ {p} /\ dying' = [dying EXCEPT ![p] = None]
  BY AppFields
<1>3. /\ \A m \in Nodes :
           /\ Leaves(m, p)' <=> Leaves(m, p)
           /\ Sending(m, p)' <=> Sending(m, p)
           /\ p \in Rest(m)' <=> p \in Rest(m)
      /\ Picked' \subseteq Picked
  BY <1>1, AppLists
<1>4. Placed(p) /\ Life(p) /\ (\A m \in Nodes : Marks(m, p))
  BY DEF PlaceInv, Settled
<1>5. making[p] = NotMaking /\ status[n][p] = "destructing"
  BY <1>2, <1>4, ConstantsOK DEF Life
<1>6. \A m \in Nodes : status'[m][p] = IF m = n THEN "absent" ELSE status[m][p]
  BY <1>2 DEF Becomes
<1>7. Site(n, p) /\ Found(status[n][p])
  BY <1>5 DEF Site, Found
<1>8. \A m \in Nodes : ~Found(status'[m][p]) /\ ~Leaves(m, p)'
  BY <1>3, <1>4, <1>6, <1>7 DEF Placed, Site, Found
<1>9. Placed(p)'
  BY <1>2, <1>8 DEF Placed, Site
<1>10. Life(p)'
  <2>1. dying'[p] = None
    BY <1>2 DEF MemoryTypes
  <2> QED
    BY <1>2, <1>5, <2>1 DEF Life, NotMaking
<1>11. \A m \in Nodes : Marks(m, p)'
  BY <1>3, <1>4, <1>5, <1>6, <1>8 DEF Marks
<1> QED
  BY <1>9, <1>10, <1>11 DEF Settled

LEMMA AllocatePlaces ==
  ASSUME QuietReuse, RoundInv, MemoryTypes, PlaceInv, NEW p \in Proclets, NEW n \in Nodes, Allocate(n, p)
  PROVE  Settled(p)'
<1>1. OneApp(p, n)
  BY DEF OneApp
<1>2. /\ p \notin alive /\ making[p] = NotMaking /\ p \notin Picked
      /\ status' = status /\ body' = body /\ alive' = alive \cup {p} /\ dying' = dying
      /\ Makes(p, [node |-> n, pc |-> "setup"])
  BY AppFields
<1>3. making'[p] = [node |-> n, pc |-> "setup"]
  BY <1>2, MakeTypes
<1>4. /\ \A m \in Nodes :
           /\ ~Leaves(m, p)' /\ ~Sending(m, p)' /\ p \notin Pending(m)' /\ p \notin Rest(m)'
           /\ ~Sending(m, p)
      /\ p \notin Picked'
  BY <1>1, <1>2, AppLists, NotAmongTasks
<1>5. Placed(p) /\ Life(p) /\ (\A m \in Nodes : Marks(m, p))
  BY DEF PlaceInv, Settled
<1>6. \A m \in Nodes : ~Found(status[m][p])
  BY <1>2, <1>5 DEF Placed, Site
<1>7. Placed(p)'
  BY <1>2, <1>3, <1>4, <1>6 DEF Placed, Site
<1>8. Life(p)'
  <2>1. dying[p] \in Nodes \cup {None}
    BY DEF MemoryTypes
  <2>2. dying[p] = None
    BY <1>5, <1>6, <2>1 DEF Life, Found
  <2> QED
    BY <1>2, <1>3, <1>4, <2>2 DEF Life
<1>9. \A m \in Nodes : Marks(m, p)'
  BY <1>2, <1>4, <1>5, <1>6 DEF Marks
<1> QED
  BY <1>7, <1>8, <1>9 DEF Settled

LEMMA StepPlace == QuietReuse /\ RoundInv /\ CleanInv /\ PlaceInv /\ [Next]_vars => PlaceInv'
<1> SUFFICES ASSUME QuietReuse, RoundInv, MemoryTypes, PlaceInv, [Next]_vars PROVE PlaceInv'
  BY DEF CleanInv
<1>1. ASSUME NEW n \in Nodes, Talk(n)
      PROVE  PlaceInv'
  BY <1>1, TalkKept, TalkPlaces
<1>2. CASE UNCHANGED vars
  <2>1. ListsKept /\ UNCHANGED <<memory, app>>
    BY <1>2, StillLists DEF vars, links
  <2> QED
    BY <2>1, TalkPlaces
<1>3. ASSUME NEW p \in Proclets, NEW n \in Nodes, OneApp(p, n)
      PROVE  PlaceInv'
  <2>1. Settled(p)'
    BY <1>3, MakePlaces, DestroyPlaces, DestroyedPlaces, AllocatePlaces DEF OneApp
  <2>2. \A q \in Proclets : q # p => Settled(q)'
    BY <1>3, AppOthers
  <2> QED
    BY <2>1, <2>2 DEF PlaceInv
<1> QED
  BY <1>1, <1>2, <1>3, Steps, StartPlaces, MarkPlaces, CleaningPlaces, LoadStartPlaces,
     DepopulatePlaces, InsertPlaces, JobPlaces

LEMMA InitPlace == Init => PlaceInv
<1> SUFFICES ASSUME Init, NEW p \in Proclets PROVE Settled(p)
  BY DEF PlaceInv
<1>1. \A n \in Nodes :
        /\ status[n][p] = IF n = Home THEN "present" ELSE "absent"
        /\ body[n] = IF n = Home THEN Proclets ELSE {}
        /\ src[n] = IdleSrc /\ dst[n] = IdleDst
  BY DEF Init
<1>2. alive = Proclets /\ making[p] = NotMaking /\ dying[p] = None
  BY DEF Init
<1>3. \A n \in Nodes : src[n].pc = "idle" /\ src[n].dest = None /\ src[n].tasks = <<>> /\ src[n].it = 1
                       /\ src[n].i = 1 /\ dst[n].tasks = <<>> /\ dst[n].i = 1
  BY <1>1 DEF IdleSrc, IdleDst
<1>4. \A n \in Nodes : ~Leaves(n, p) /\ ~Sending(n, p)
  BY <1>3 DEF Leaves, Copies, Ready, Sending
<1>5. \A n \in Nodes : Rest(n) = {}
  BY <1>3 DEF Rest
<1>6. \A n \in Nodes : Pending(n) = {}
  <2> TAKE n \in Nodes
  <2>1. Unsent(n) = {}
    BY <1>3 DEF Unsent, Sent
  <2>2. Listed(n) = {}
    BY <1>3, ConstantsOK DEF Listed
  <2> QED
    BY <2>1, <2>2 DEF Pending
<1>7. \A n \in Nodes : Found(status[n][p]) <=> n = Home
  BY <1>1 DEF Found
<1>8. Placed(p)
  BY <1>2, <1>4, <1>6, <1>7, ConstantsOK DEF Placed, Site, NotMaking
<1>9. Life(p)
  BY <1>2 DEF Life, NotMaking
<1>10. \A n \in Nodes : Marks(n, p)
  BY <1>1, <1>4, <1>5, <1>7 DEF Marks
<1> QED
  BY <1>8, <1>9, <1>10 DEF Settled

(* The three invariants together, ...                                      *)
LEMMA AlwaysPlaced ==
  ASSUME QuietReuse
  PROVE  Spec => [](RoundInv /\ CleanInv /\ PlaceInv)
<1>1. Init => RoundInv /\ CleanInv /\ PlaceInv
  BY InitRounds, InitClean, InitPlace
<1>2. QuietReuse /\ RoundInv /\ CleanInv /\ PlaceInv /\ [Next]_vars => RoundInv' /\ CleanInv' /\ PlaceInv'
  BY StepRoundInv, StepClean, StepPlace
<1> QED
  BY <1>1, <1>2, PTL DEF Spec

(* ... and what they give.                                                 *)
LEMMA HomeFrom == CleanInv /\ PlaceInv => OneHome
<1> SUFFICES ASSUME CleanInv, PlaceInv, NEW p \in Proclets
             PROVE  /\ Cardinality(FoundAt(p)) <= 1
                    /\ \A n \in FoundAt(p) : p \in body[n]
                    /\ (FoundAt(p) \cup LeavingFrom(p) # {}) <=> (p \in alive /\ making[p].pc # "setup")
  BY DEF OneHome
<1>1. Placed(p) /\ \A n \in Nodes : Marks(n, p)
  BY DEF PlaceInv, Settled
<1>2. \A n : n \in FoundAt(p) <=> n \in Nodes /\ Found(status[n][p])
  BY DEF FoundAt
<1>3. \A n : n \in LeavingFrom(p) <=> n \in Nodes /\ Leaves(n, p)
  BY LeavingIs
<1>4. Cardinality(FoundAt(p)) <= 1
  <2>1. CASE FoundAt(p) = {}
    BY <2>1, FS_EmptySet
  <2>2. CASE FoundAt(p) # {}
    <3>1. PICK n : n \in FoundAt(p)
      BY <2>2
    <3>2. FoundAt(p) = {n}
      BY <1>1, <1>2, <3>1 DEF Placed, Site
    <3> QED
      BY <3>2, FS_Singleton
  <2> QED
    BY <2>1, <2>2
<1>5. \A n \in FoundAt(p) : p \in body[n]
  BY <1>1, <1>2 DEF Marks
<1>6. (FoundAt(p) \cup LeavingFrom(p) # {}) <=> (\E n \in Nodes : Site(n, p))
  BY <1>2, <1>3 DEF Site
<1> QED
  BY <1>1, <1>4, <1>5, <1>6 DEF Placed

(* A proclet that exists is usable at one node or on its way from one, and *)
(* one that was destroyed is usable nowhere, unless addresses are used     *)
(* again while a handler still has them.                                   *)
THEOREM AlwaysOneHome ==
  ASSUME QuietReuse
  PROVE  Spec => []OneHome
<1> QED
  BY AlwaysPlaced, HomeFrom, PTL

(* construct_proclet finds the proclet that it has set up, as no handler   *)
(* has picked its address before.                                          *)
THEOREM CreatedIsAlwaysFound ==
  ASSUME QuietReuse
  PROVE  Spec => []CreatedIsFound
<1>1. PlaceInv => CreatedIsFound
  BY DEF PlaceInv, Settled, Life, CreatedIsFound, Found
<1> QED
  BY <1>1, AlwaysPlaced, PTL

(* A proclet whose destructor runs is not marked, moved nor created anew   *)
(* under it.                                                               *)
THEOREM DyingAlwaysStays ==
  ASSUME QuietReuse
  PROVE  Spec => []DyingStays
<1>1. PlaceInv => DyingStays
  BY DEF PlaceInv, Settled, Life, DyingStays
<1> QED
  BY <1>1, AlwaysPlaced, PTL

---------------------------------------------------------------------------
(* The batches implement ProcletHomes.                                     *)

(* The home of a proclet is its site.                                      *)
HomesAreSites ==
  \A p \in Proclets :
    /\ \A n \in Nodes : Site(n, p) => HomeOf(p) = n
    /\ (\A n \in Nodes : ~Site(n, p)) => HomeOf(p) = None

LEMMA HomeIs == PlaceInv => HomesAreSites
<1> SUFFICES ASSUME PlaceInv, NEW p \in Proclets
             PROVE  /\ \A n \in Nodes : Site(n, p) => HomeOf(p) = n
                    /\ (\A n \in Nodes : ~Site(n, p)) => HomeOf(p) = None
  BY DEF HomesAreSites
<1>1. \A m, n \in Nodes : Site(m, p) /\ Site(n, p) => m = n
  BY DEF PlaceInv, Settled, Placed
<1> DEFINE at == FoundAt(p)
           from == LeavingFrom(p)
<1>2. \A n : n \in at <=> n \in Nodes /\ Found(status[n][p])
  BY DEF FoundAt
<1>3. \A n : n \in from <=> n \in Nodes /\ Leaves(n, p)
  BY LeavingIs
<1>4. HomeOf(p) = CASE at # {} -> CHOOSE n \in at : TRUE
                    [] at = {} /\ from # {} -> CHOOSE n \in from : TRUE
                    [] OTHER -> None
  BY DEF HomeOf
<1> HIDE DEF at, from
<1>5. ASSUME NEW n \in Nodes, Site(n, p)
      PROVE  HomeOf(p) = n
  <2>1. \A m : m \in at \/ m \in from => m = n
    BY <1>1, <1>2, <1>3, <1>5 DEF Site
  <2>2. n \in at \/ n \in from
    BY <1>2, <1>3, <1>5 DEF Site
  <2>3. CASE at # {}
    <3>1. (CHOOSE m \in at : TRUE) \in at
      BY <2>3
    <3> QED
      BY <1>4, <2>1, <2>3, <3>1
  <2>4. CASE at = {}
    <3>1. from # {}
      BY <2>2, <2>4
    <3>2. (CHOOSE m \in from : TRUE) \in from
      BY <3>1
    <3> QED
      BY <1>4, <2>1, <2>4, <3>1, <3>2
  <2> QED
    BY <2>3, <2>4
<1>6. ASSUME \A n \in Nodes : ~Site(n, p)
      PROVE  HomeOf(p) = None
  <2>1. at = {} /\ from = {}
    BY <1>2, <1>3, <1>6 DEF Site
  <2> QED
    BY <1>4, <2>1
<1> QED
  BY <1>5, <1>6

LEMMA HomeIsNext == PlaceInv' => HomesAreSites'
  BY HomeIs, PTL

LEMMA StaysHome ==
  ASSUME PlaceInv, PlaceInv', NEW q \in Proclets, Stays(q)
  PROVE  HomeOf(q)' = HomeOf(q)
<1>1. CASE \E n \in Nodes : Site(n, q)
  <2>1. PICK n \in Nodes : Site(n, q)
    BY <1>1
  <2> QED
    BY <2>1, HomeIs, HomeIsNext DEF HomesAreSites, Stays
<1>2. CASE ~\E n \in Nodes : Site(n, q)
  BY <1>2, HomeIs, HomeIsNext DEF HomesAreSites, Stays
<1> QED
  BY <1>1, <1>2

(* p is found at n after the step, or nowhere.                             *)
LEMMA HomeAfter ==
  ASSUME PlaceInv', NEW p \in Proclets
  PROVE  /\ \A n \in Nodes : Found(status'[n][p]) => HomeOf(p)' = n
         /\ p \notin alive' \/ making'[p].pc = "setup" => HomeOf(p)' = None
<1>1. HomesAreSites'
  BY HomeIsNext
<1>2. \A n \in Nodes : Found(status'[n][p]) => Site(n, p)'
  BY DEF Site
<1>3. (\E n \in Nodes : Site(n, p)') <=> p \in alive' /\ making'[p].pc # "setup"
  BY DEF PlaceInv, Settled, Placed
<1> QED
  BY <1>1, <1>2, <1>3 DEF HomesAreSites

LEMMA HomeBefore ==
  ASSUME PlaceInv, NEW p \in Proclets
  PROVE  /\ \A n \in Nodes : Found(status[n][p]) => HomeOf(p) = n
         /\ p \notin alive \/ making[p].pc = "setup" => HomeOf(p) = None
<1>1. HomesAreSites
  BY HomeIs
<1>2. \A n \in Nodes : Found(status[n][p]) => Site(n, p)
  BY DEF Site
<1>3. (\E n \in Nodes : Site(n, p)) <=> p \in alive /\ making[p].pc # "setup"
  BY DEF PlaceInv, Settled, Placed
<1> QED
  BY <1>1, <1>2, <1>3 DEF HomesAreSites

(* The abstract state, and a step of it that is about one proclet.         *)
HomeMap == [p \in Proclets |-> HomeOf(p)]
LifeMap == [p \in Proclets |-> LifeOf(p)]

LEMMA OneMoves ==
  ASSUME NEW p \in Proclets,
         \A q \in Proclets : q # p => HomeOf(q)' = HomeOf(q) /\ LifeOf(q)' = LifeOf(q)
  PROVE  /\ HomeMap' = [HomeMap EXCEPT ![p] = HomeOf(p)']
         /\ LifeMap' = [LifeMap EXCEPT ![p] = LifeOf(p)']
         /\ HomeMap[p] = HomeOf(p) /\ LifeMap[p] = LifeOf(p)
         /\ HomeOf(p)' = HomeOf(p) => HomeMap' = HomeMap
         /\ LifeOf(p)' = LifeOf(p) => LifeMap' = LifeMap
<1>1. HomeMap' = [q \in Proclets |-> HomeOf(q)'] /\ LifeMap' = [q \in Proclets |-> LifeOf(q)']
  BY DEF HomeMap, LifeMap
<1> QED
  BY <1>1 DEF HomeMap, LifeMap

AbstractStep(p) ==
  \/ UNCHANGED <<HomeMap, LifeMap>>
  \/ Homes!Allocate(p) \/ Homes!Destroy(p) \/ Homes!Free(p)
  \/ \E n \in Nodes : Homes!Create(p, n) \/ Homes!Move(p, n)

LEMMA AbstractCases ==
  ASSUME NEW p \in Proclets,
         \A q \in Proclets : q # p => HomeOf(q)' = HomeOf(q) /\ LifeOf(q)' = LifeOf(q),
         \/ HomeOf(p)' = HomeOf(p) /\ LifeOf(p)' = LifeOf(p)
         \/ LifeOf(p) = "free" /\ LifeOf(p)' = "allocated" /\ HomeOf(p)' = HomeOf(p)
         \/ LifeOf(p) = "allocated" /\ LifeOf(p)' = "alive" /\ HomeOf(p)' \in Nodes
         \/ LifeOf(p) = "alive" /\ LifeOf(p)' = "alive" /\ HomeOf(p)' \in Nodes
         \/ LifeOf(p) = "alive" /\ LifeOf(p)' = "dying" /\ HomeOf(p)' = HomeOf(p)
         \/ LifeOf(p) = "dying" /\ LifeOf(p)' = "free" /\ HomeOf(p)' = None
  PROVE  AbstractStep(p)
<1>1. /\ HomeMap' = [HomeMap EXCEPT ![p] = HomeOf(p)']
      /\ LifeMap' = [LifeMap EXCEPT ![p] = LifeOf(p)']
      /\ HomeMap[p] = HomeOf(p) /\ LifeMap[p] = LifeOf(p)
      /\ HomeOf(p)' = HomeOf(p) => HomeMap' = HomeMap
      /\ LifeOf(p)' = LifeOf(p) => LifeMap' = LifeMap
  BY OneMoves
<1>2. CASE HomeOf(p)' = HomeOf(p) /\ LifeOf(p)' = LifeOf(p)
  BY <1>1, <1>2 DEF AbstractStep
<1>3. CASE LifeOf(p) = "free" /\ LifeOf(p)' = "allocated" /\ HomeOf(p)' = HomeOf(p)
  <2>1. LifeMap[p] = "free" /\ LifeMap' = [LifeMap EXCEPT ![p] = "allocated"] /\ HomeMap' = HomeMap
    BY <1>1, <1>3
  <2>2. Homes!Allocate(p)
    BY <2>1 DEF Homes!Allocate, Homes!Turns, HomeMap, LifeMap
  <2> QED
    BY <2>2 DEF AbstractStep
<1>4. CASE LifeOf(p) = "allocated" /\ LifeOf(p)' = "alive" /\ HomeOf(p)' \in Nodes
  <2> PICK n \in Nodes : n = HomeOf(p)'
    BY <1>4
  <2>1. /\ LifeMap[p] = "allocated" /\ LifeMap' = [LifeMap EXCEPT ![p] = "alive"]
        /\ HomeMap' = [HomeMap EXCEPT ![p] = n]
    BY <1>1, <1>4
  <2>2. Homes!Create(p, n)
    BY <2>1 DEF Homes!Create, Homes!Turns, HomeMap, LifeMap
  <2> QED
    BY <2>2 DEF AbstractStep
<1>5. CASE LifeOf(p) = "alive" /\ LifeOf(p)' = "alive" /\ HomeOf(p)' \in Nodes
  <2> PICK n \in Nodes : n = HomeOf(p)'
    BY <1>5
  <2>1. LifeMap[p] = "alive" /\ LifeMap' = LifeMap /\ HomeMap' = [HomeMap EXCEPT ![p] = n]
    BY <1>1, <1>5
  <2>2. Homes!Move(p, n)
    BY <2>1 DEF Homes!Move, HomeMap, LifeMap
  <2> QED
    BY <2>2 DEF AbstractStep
<1>6. CASE LifeOf(p) = "alive" /\ LifeOf(p)' = "dying" /\ HomeOf(p)' = HomeOf(p)
  <2>1. LifeMap[p] = "alive" /\ LifeMap' = [LifeMap EXCEPT ![p] = "dying"] /\ HomeMap' = HomeMap
    BY <1>1, <1>6
  <2>2. Homes!Destroy(p)
    BY <2>1 DEF Homes!Destroy, Homes!Turns, HomeMap, LifeMap
  <2> QED
    BY <2>2 DEF AbstractStep
<1>7. CASE LifeOf(p) = "dying" /\ LifeOf(p)' = "free" /\ HomeOf(p)' = None
  <2>1. /\ LifeMap[p] = "dying" /\ LifeMap' = [LifeMap EXCEPT ![p] = "free"]
        /\ HomeMap' = [HomeMap EXCEPT ![p] = None]
    BY <1>1, <1>7
  <2>2. Homes!Free(p)
    BY <2>1 DEF Homes!Free, Homes!Turns, HomeMap, LifeMap
  <2> QED
    BY <2>2 DEF AbstractStep
<1> QED
  BY <1>2, <1>3, <1>4, <1>5, <1>6, <1>7

(* A step of the rounds, but for LoadInsert, is none of the abstract one.  *)
LEMMA RoundsStutter ==
  ASSUME PlaceInv, PlaceInv', AllStay, UNCHANGED app
  PROVE  UNCHANGED <<HomeMap, LifeMap>>
<1>1. \A q \in Proclets : HomeOf(q)' = HomeOf(q)
  BY StaysHome DEF AllStay
<1>2. \A q \in Proclets : LifeOf(q)' = LifeOf(q)
  BY DEF LifeOf, app
<1> QED
  BY <1>1, <1>2 DEF HomeMap, LifeMap

LEMMA InsertMoves ==
  ASSUME RoundInv, MemoryTypes, PlaceInv, PlaceInv', NEW n \in Nodes, LoadInsert(n)
  PROVE  \E p \in Proclets : AbstractStep(p)
<1> PICK q0 : q0 = dst[n].tasks[dst[n].i]
  OBVIOUS
<1>1. q0 \in Proclets /\ q0 \in Rest(n)
  BY LoadedLists
<1>2. Becomes(n, q0, "present") /\ UNCHANGED app
  BY InsertStatus
<1>3. \A q \in Proclets : q # q0 => HomeOf(q)' = HomeOf(q) /\ LifeOf(q)' = LifeOf(q)
  <2>1. \A q \in Proclets : q # q0 => Stays(q)
    BY InsertPlaces
  <2>2. \A q \in Proclets : LifeOf(q)' = LifeOf(q)
    BY <1>2 DEF LifeOf, app
  <2> QED
    BY <2>1, <2>2, StaysHome
<1>4. HomeOf(q0)' = n
  <2>1. Found(status'[n][q0])
    BY <1>1, <1>2 DEF Becomes, Found
  <2> QED
    BY <1>1, <2>1, HomeAfter
<1>5. LifeOf(q0) = "alive" /\ LifeOf(q0)' = "alive"
  <2>1. making[q0] = NotMaking /\ dying[q0] \in Nodes \cup {None}
    BY <1>1, RestIs DEF PlaceInv, Settled, Life, MemoryTypes
  <2>2. PICK s \in Nodes : Leaves(s, q0)
    BY InsertLeaves
  <2>3. q0 \in alive /\ \A m \in Nodes : ~Found(status[m][q0])
    <3>1. Site(s, q0) /\ Placed(q0)
      BY <1>1, <2>2 DEF Site, PlaceInv, Settled
    <3>2. q0 \in alive /\ \A m \in Nodes : Found(status[m][q0]) => m = s
      BY <3>1 DEF Placed, Site
    <3> QED
      BY <2>2, <3>1, <3>2 DEF Placed
  <2>4. dying[q0] = None
    BY <1>1, <2>1, <2>3 DEF PlaceInv, Settled, Life, Found
  <2>5. LifeOf(q0) = "alive"
    BY <2>1, <2>3, <2>4 DEF LifeOf, NotMaking
  <2> QED
    BY <1>2, <2>5 DEF LifeOf, app
<1>6. AbstractStep(q0)
  BY <1>1, <1>3, <1>4, <1>5, AbstractCases
<1> QED
  BY <1>1, <1>6

LEMMA AppMoves ==
  ASSUME QuietReuse, RoundInv, MemoryTypes, MemoryTypes', PlaceInv, PlaceInv',
         NEW p \in Proclets, NEW n \in Nodes, OneApp(p, n)
  PROVE  AbstractStep(p)
<1>1. ASSUME NEW q \in Proclets, q # p
      PROVE  HomeOf(q)' = HomeOf(q) /\ LifeOf(q)' = LifeOf(q)
  <2>1. HomeOf(q)' = HomeOf(q)
    BY <1>1, AppOthers, StaysHome
  <2>2. q \in alive' <=> q \in alive
    <3>1. \/ alive' = alive \/ alive' = alive \ {p} \/ alive' = alive \cup {p}
      BY AppFields DEF OneApp
    <3> QED
      BY <1>1, <3>1
  <2>3. dying'[q] = dying[q]
    <3>1. \/ dying' = dying \/ dying' = [dying EXCEPT ![p] = n] \/ dying' = [dying EXCEPT ![p] = None]
      BY AppFields DEF OneApp
    <3> QED
      BY <1>1, <3>1 DEF MemoryTypes
  <2>4. making'[q] = making[q]
    <3>1. making' = making \/ \E r : Makes(p, r)
      BY AppFields DEF OneApp
    <3> QED
      BY <1>1, <3>1, MakeTypes
  <2> QED
    BY <2>1, <2>2, <2>3, <2>4 DEF LifeOf
<1>2. Life(p) /\ (p \in alive /\ making[p].pc # "setup" <=> \E m \in Nodes : Site(m, p))
  BY DEF PlaceInv, Settled, Placed
<1>3. making[p] = NotMaking => making[p].pc = "no"
  BY DEF NotMaking
<1>4. CASE Setup(p)
  <2>1. /\ making[p].pc = "setup" /\ making[p].node \in Nodes /\ Becomes(making[p].node, p, "present")
        /\ Makes(p, [node |-> making[p].node, pc |-> "attach"]) /\ alive' = alive /\ dying' = dying
    BY <1>4, AppFields
  <2>2. making'[p].pc = "attach"
    BY <2>1, MakeTypes
  <2>3. HomeOf(p)' \in Nodes
    <3>1. Found(status'[making[p].node][p])
      BY <2>1 DEF Becomes, Found
    <3> QED
      BY <2>1, <3>1, HomeAfter
  <2>4. p \in alive /\ dying[p] = None
    BY <1>2, <1>3, <2>1 DEF Life
  <2>5. LifeOf(p) = "allocated"
    BY <2>1, <2>4 DEF LifeOf
  <2>6. LifeOf(p)' = "alive"
    BY <2>1, <2>2, <2>4 DEF LifeOf
  <2> QED
    BY <1>1, <2>3, <2>5, <2>6, AbstractCases
<1>5. CASE Construct(p) \/ Insert(p)
  <2>1. /\ making[p].pc \in {"attach", "insert"} /\ making[p].node \in Nodes
        /\ Becomes(making[p].node, p, "present") \/ status' = status
        /\ alive' = alive /\ dying' = dying
        /\ Makes(p, [node |-> making[p].node, pc |-> "insert"]) \/ Makes(p, NotMaking)
    BY <1>5, AppFields
  <2>2. making'[p].pc \in {"insert", "no"}
    BY <2>1, MakeTypes DEF NotMaking
  <2>3. status[making[p].node][p] = "present" /\ status'[making[p].node][p] = "present"
    BY <1>2, <2>1 DEF Life, Becomes
  <2>4. HomeOf(p)' = HomeOf(p)
    BY <2>1, <2>3, HomeBefore, HomeAfter DEF Found
  <2>5. LifeOf(p)' = LifeOf(p)
    <3>1. p \in alive /\ dying[p] = None /\ making[p].pc # "setup" /\ making'[p].pc # "setup"
      BY <1>2, <1>3, <2>1, <2>2 DEF Life
    <3>2. LifeOf(p) = "alive"
      BY <3>1 DEF LifeOf
    <3>3. LifeOf(p)' = "alive"
      BY <2>1, <3>1 DEF LifeOf
    <3> QED
      BY <3>2, <3>3
  <2> QED
    BY <1>1, <2>4, <2>5, AbstractCases
<1>6. CASE Destroy(n, p)
  <2>1. /\ status[n][p] = "present" /\ dying[p] = None /\ making[p] = NotMaking
        /\ Becomes(n, p, "destructing") /\ making' = making /\ alive' = alive
        /\ dying' = [dying EXCEPT ![p] = n]
    BY <1>6, DestroyIs
  <2>2. HomeOf(p) = n /\ HomeOf(p)' = n
    BY <2>1, HomeBefore, HomeAfter DEF Found, Becomes
  <2>3. dying'[p] = n /\ n # None
    BY <2>1, ConstantsOK DEF MemoryTypes
  <2>4. p \in alive /\ making[p].pc = "no"
    BY <1>2, <1>3, <2>1 DEF Site, Found
  <2>5. LifeOf(p) = "alive" /\ LifeOf(p)' = "dying"
    BY <2>1, <2>3, <2>4 DEF LifeOf
  <2> QED
    BY <1>1, <2>2, <2>5, AbstractCases
<1>7. CASE Destroyed(n, p)
  <2>1. /\ dying[p] = n /\ making' = making /\ alive' = alive \ {p}
        /\ dying' = [dying EXCEPT ![p] = None]
    BY <1>7, AppFields
  <2>2. making[p] = NotMaking /\ status[n][p] = "destructing" /\ n # None
    BY <1>2, <2>1, ConstantsOK DEF Life
  <2>3. p \in alive
    BY <1>2, <2>2 DEF Site, Found
  <2>4. p \notin alive' /\ HomeOf(p)' = None
    BY <2>1, HomeAfter
  <2>5. LifeOf(p) = "dying" /\ LifeOf(p)' = "free"
    BY <1>3, <2>1, <2>2, <2>3, <2>4 DEF LifeOf
  <2> QED
    BY <1>1, <2>4, <2>5, AbstractCases
<1>8. CASE Allocate(n, p)
  <2>1. /\ p \notin alive /\ alive' = alive \cup {p} /\ Makes(p, [node |-> n, pc |-> "setup"])
    BY <1>8, AppFields
  <2>2. making'[p].pc = "setup"
    BY <2>1, MakeTypes
  <2>3. HomeOf(p) = None /\ HomeOf(p)' = None
    BY <2>1, <2>2, HomeBefore, HomeAfter
  <2>4. LifeOf(p) = "free"
    BY <2>1 DEF LifeOf
  <2>5. p \in alive' /\ dying'[p] = None
    BY <2>1, <2>2 DEF PlaceInv, Settled, Life, NotMaking
  <2>6. LifeOf(p)' = "allocated"
    BY <2>2, <2>5 DEF LifeOf
  <2> QED
    BY <1>1, <2>3, <2>4, <2>6, AbstractCases
<1> QED
  BY <1>4, <1>5, <1>6, <1>7, <1>8 DEF OneApp

LEMMA StepAbstract ==
  ASSUME QuietReuse, RoundInv, CleanInv, CleanInv', PlaceInv, PlaceInv', [Next]_vars
  PROVE  UNCHANGED <<HomeMap, LifeMap>> \/ \E p \in Proclets : AbstractStep(p)
<1>1. MemoryTypes /\ MemoryTypes'
  BY DEF CleanInv
<1>2. ASSUME NEW n \in Nodes, Talk(n) \/ SrcMark(n) \/ SrcCleaning(n)
      PROVE  UNCHANGED <<HomeMap, LifeMap>>
  <2>1. CASE Talk(n)
    <3>1. AllStay /\ UNCHANGED app
      BY <1>1, <2>1, TalkKept, TalkPlaces
    <3> QED
      BY <3>1, RoundsStutter
  <2>2. CASE SrcMark(n) \/ SrcCleaning(n)
    <3>1. AllStay /\ UNCHANGED app
      BY <1>1, <2>2, MarkPlaces, CleaningPlaces DEF SrcMark, SrcCleaning
    <3> QED
      BY <3>1, RoundsStutter
  <2> QED
    BY <1>2, <2>1, <2>2
<1>3. ASSUME NEW n \in Nodes, (\E s \in Nodes : LoadStart(n, s)) \/ LoadSkip(n) \/ LoadCopy(n) \/ LoadRefuse(n)
      PROVE  UNCHANGED <<HomeMap, LifeMap>>
  <2>1. AllStay
    BY <1>1, <1>3, LoadStartPlaces, DepopulatePlaces
  <2>2. UNCHANGED app
    BY <1>3 DEF LoadStart, LoadSkip, LoadCopy, LoadRefuse
  <2> QED
    BY <2>1, <2>2, RoundsStutter
<1>4. ASSUME NEW n \in Nodes, NEW job \in jobs[n], RunJob(n, job)
      PROVE  UNCHANGED <<HomeMap, LifeMap>>
  <2>1. AllStay /\ UNCHANGED app
    BY <1>1, <1>4, JobPlaces DEF RunJob
  <2> QED
    BY <2>1, RoundsStutter
<1>5. ASSUME NEW n \in Nodes, NEW P \in SUBSET Proclets, NEW ts \in SetToSeqs(P),
             MainStart(n, ts) \/ PickAgain(n, ts)
      PROVE  UNCHANGED <<HomeMap, LifeMap>>
  <2>1. AllStay /\ UNCHANGED app
    BY <1>1, <1>5, StartPlaces, StartLists
  <2> QED
    BY <2>1, RoundsStutter
<1>6. CASE UNCHANGED vars
  <2>1. ListsKept /\ UNCHANGED <<memory, app>>
    BY <1>6, StillLists DEF vars, links
  <2>2. AllStay /\ UNCHANGED app
    BY <1>1, <2>1, TalkPlaces
  <2> QED
    BY <2>2, RoundsStutter
<1>7. ASSUME NEW n \in Nodes, LoadInsert(n)
      PROVE  \E p \in Proclets : AbstractStep(p)
  BY <1>1, <1>7, InsertMoves
<1>8. ASSUME NEW p \in Proclets, NEW n \in Nodes, OneApp(p, n)
      PROVE  AbstractStep(p)
  BY <1>1, <1>8, AppMoves
<1> QED
  BY <1>2, <1>3, <1>4, <1>5, <1>6, <1>7, <1>8, Steps

LEMMA InitAbstract == Init => Homes!Init
<1> SUFFICES ASSUME Init PROVE Homes!Init
  OBVIOUS
<1>1. PlaceInv
  BY InitPlace
<1>2. \A p \in Proclets : HomeOf(p) = Home /\ Home \in Nodes
  <2>1. \A p \in Proclets : Found(status[Home][p])
    BY ConstantsOK DEF Init, Found
  <2> QED
    BY <1>1, <2>1, HomeBefore, ConstantsOK
<1>3. \A p \in Proclets : LifeOf(p) = "alive"
  BY DEF Init, LifeOf, NotMaking
<1>4. HomeMap \in [Proclets -> Nodes] /\ LifeMap = [p \in Proclets |-> "alive"]
  BY <1>2, <1>3 DEF HomeMap, LifeMap
<1> QED
  BY <1>4 DEF Homes!Init, HomeMap, LifeMap

(* Whatever batches do, to the application a proclet is at one node until  *)
(* it moves as a whole, is created once where it is allocated, and dies    *)
(* where its destructor runs.                                              *)
THEOREM BatchesImplementHomes ==
  ASSUME QuietReuse
  PROVE  Spec => ImplementsHomes
<1>1. Init => Homes!Init
  BY InitAbstract
<1>2. RoundInv /\ (CleanInv /\ CleanInv') /\ (PlaceInv /\ PlaceInv') /\ [Next]_vars =>
        [Homes!Next]_(Homes!vars)
  <2> SUFFICES ASSUME RoundInv, CleanInv, CleanInv', PlaceInv, PlaceInv', [Next]_vars
               PROVE  [Homes!Next]_(Homes!vars)
    OBVIOUS
  <2>1. UNCHANGED <<HomeMap, LifeMap>> \/ \E p \in Proclets : AbstractStep(p)
    BY StepAbstract
  <2>2. UNCHANGED <<HomeMap, LifeMap>> => UNCHANGED Homes!vars
    BY DEF Homes!vars, HomeMap, LifeMap
  <2>3. ASSUME NEW p \in Proclets, AbstractStep(p)
        PROVE  Homes!Next \/ UNCHANGED <<HomeMap, LifeMap>>
    BY <2>3 DEF AbstractStep, Homes!Next
  <2> QED
    BY <2>1, <2>2, <2>3
<1> QED
  BY <1>1, <1>2, AlwaysPlaced, PTL DEF Spec, ImplementsHomes, Homes!Spec
=============================================================================
