----------------------- MODULE ProcletCallees_proofs -----------------------
(***************************************************************************)
(* Proof that the callee of ProcletCalls is there for everybody who works  *)
(* within it or still has a reference to it, and that the server of a node *)
(* outlives the handlers it has to answer for, for any nodes, threads,     *)
(* callers and number of migrations.  PlaceInv is inductive: it says where *)
(* each proclet is and its threads with it, who still owes a drop of the   *)
(* reference, and who is counted at which node.                            *)
(***************************************************************************)
EXTENDS ProcletCalls_proofs

---------------------------------------------------------------------------
(* Who is counted in ref_cnt_ of a node's server.                          *)

Counted(n) == {x \in Agents : ag[x].birth = n /\ ~(ag[x].pc = "end" /\ ag[x].migrated)}

Born(x) ==
  /\ ag[x].birth # None <=> x[2] # "caller" /\ ag[x].pc # "idle"
  /\ ag[x].birth # None /\ ~ag[x].migrated /\ ag[x].at # None => ag[x].at = ag[x].birth
  /\ x[2] = "caller" => ~ag[x].migrated
  /\ ag[x].pc = "sync" => ~ag[x].migrated
  /\ ag[x].pc = "idle" => ag[x].own = None
  /\ ag[x].pc = "run" => ag[x].own = "A"

(* Each job has a handler at most once.                                    *)
Once(t, j) ==
  ag[<<t, j>>].pc # "idle" =>
    j \notin todo[t] /\ (job[t] = j => Thread(t).pc = "wait" \/ did[t] = 1)

CountInv ==
  /\ \A x \in Agents : Born(x)
  /\ \A t \in Threads, j \in Jobs : Once(t, j)
  /\ \A t \in Threads : job[t] \notin todo[t]
  /\ \A n \in Nodes : refs[n] = Cardinality(Counted(n))

(* Where proclets are, and their threads.                                  *)

Moving(p) == mig.pc = "moving" /\ mig.p = p
Gone == ~Moving("B") /\ \A n \in Nodes : status[n]["B"] = "absent"

Owing(t) == "drop" \in todo[t] \/ (job[t] = "drop" /\ did[t] = 0)
JobOf(x) == IF x[2] = "caller" THEN job[x[1]] ELSE x[2]
Killers == {x \in Agents : ag[x].pc \in {"kill", "again", "dtor"}}
In(p) == {x \in Agents : ag[x].own = p}

Moves ==
  /\ \A p \in Proclets, m, n \in Nodes : status[m][p] # "absent" /\ status[n][p] # "absent" => m = n
  /\ \A p \in Proclets, n \in Nodes :
       status[n][p] = "migrating" <=> mig.pc = "marked" /\ mig.p = p /\ mig.from = n
  /\ \A p \in Proclets, n \in Nodes : Moving(p) => status[n][p] = "absent"
  /\ mig.pc = "arrived" /\ mig.p = "A" => status[mig.to]["A"] # "absent"
  /\ mig.pc = "arrived" /\ mig.p = "B" /\ ~Gone => status[mig.to]["B"] # "absent"
  /\ \A n \in Nodes : status[n]["A"] # "destructing"

Drops ==
  /\ \A t \in Threads :
       /\ job[t] = "run" => "drop" \in todo[t]
       /\ job[t] = "drop" => todo[t] = {}
       /\ todo[t] # {} => "drop" \in todo[t]
  /\ \A x \in Agents :
       /\ ag[x].pc \in {"body", "ran"} => JobOf(x) = "run"
       /\ ag[x].pc \in {"count", "kill", "again", "dtor"} => JobOf(x) = "drop"
  /\ ref_cnt = Cardinality({t \in Threads : Owing(t)})
  /\ Gone => ref_cnt = 0
  /\ \A x \in Killers : ref_cnt = 0 /\ ~Gone /\ \A y \in Killers : y = x

Stand(x, p) ==
  /\ ag[x].at = None => mig.p = p /\ mig.pc \in {"moving", "arrived"}
  /\ ag[x].at # None => status[ag[x].at][p] # "absent" \/ (p = "B" /\ Gone)
  /\ p = "B" /\ Gone => ag[x].at # None
  /\ p = "A" => x[2] = "caller" /\ ag[x].pc = "run"

Stands ==
  /\ \A p \in Proclets : \A x \in In(p) : Stand(x, p)
  /\ \A x \in Agents : ag[x].pc = "dtor" => ag[x].at # None /\ status[ag[x].at]["B"] = "destructing"
  /\ \A x \in Agents :
       /\ ag[x].pc = "sync" => ag[x].destructed
       /\ ag[x].destructed => Gone
       /\ ag[x].destructed /\ (ag[x].own = "B" \/ ag[x].pc = "sync") =>
            \A y \in In("B") : ag[y].at = ag[x].at

(* What the controller still lists.                                        *)
Listed ==
  /\ ctl["A"] # None
  /\ ctl["B"] = None => Gone /\ \A x \in In("B") : ag[x].destructed

PlaceInv == CallInv /\ CountInv /\ Moves /\ Drops /\ Stands /\ Listed

---------------------------------------------------------------------------
(* What a step does to the fields of the agents, for the proofs below to   *)
(* build on.                                                               *)

(* Everybody but those named is as before.                                 *)
Alone(x) == \A y \in Agents \ {x} : ag'[y] = ag[y]

(* Where it comes from and has been is not lost.                           *)
SameOrigin(x) ==
  /\ ag'[x].birth = ag[x].birth
  /\ ag'[x].migrated = ag[x].migrated
  /\ ag'[x].destructed = ag[x].destructed

(* A call begins within B, or outside of any proclet.                      *)
LEMMA CallFields ==
  ASSUME CallInv, NEW t \in Threads, NEW j \in Jobs, Call(t, j), NEW c, c = <<t, "caller">>
  PROVE  /\ c \in Agents /\ Alone(c) /\ SameOrigin(c) /\ Thread(t).pc = "run"
         /\ ag'[c].at = ag[c].at /\ ag[c].at # None
         /\ \/ /\ ag'[c].own = "B" /\ Usable(ag[c].at, "B")
               /\ ag'[c].pc = (IF j = "run" THEN "body" ELSE "count")
            \/ ag'[c].own = None /\ ag'[c].pc = "look"
         /\ j \in todo[t] /\ (j = "drop" => todo[t] = {"drop"})
         /\ todo' = [todo EXCEPT ![t] = @ \ {j}] /\ job' = [job EXCEPT ![t] = j]
         /\ UNCHANGED <<places, ref_cnt, refs, did>>
<1>1. c \in Agents /\ Thread(t) = ag[c] /\ Thread(t) \in AgentRec /\ TypeOK
  BY AgentsOf, CallerKnown
<1>2. Thread(t).pc = "run" /\ Thread(t).at # None
  BY DEF Call, Usable
<1>3. CASE SetThread(t, Enter(Thread(t), j)) /\ Usable(Thread(t).at, "B")
  <2> DEFINE r == Enter(Thread(t), j)
  <2>1. /\ r \in AgentRec /\ r.own = "B" /\ r.at = Thread(t).at
        /\ r.pc = (IF j = "run" THEN "body" ELSE "count")
        /\ r.birth = Thread(t).birth /\ r.migrated = Thread(t).migrated
        /\ r.destructed = Thread(t).destructed
    BY <1>1 DEF Enter, AgentRec, AgentPcs, Proclets
  <2>2. ag'[c] = r /\ Alone(c)
    BY <1>1, <1>3, <2>1, OneAgent DEF SetThread, Alone
  <2> HIDE DEF r
  <2> QED
    BY <1>1, <1>2, <1>3, <2>1, <2>2 DEF Call, SameOrigin
<1>4. CASE Ask(t, "B")
  <2> DEFINE r == [Thread(t) EXCEPT !.pc = "look", !.own = None, !.guard = None]
  <2>1. /\ r \in AgentRec /\ r.own = None /\ r.at = Thread(t).at /\ r.pc = "look"
        /\ r.birth = Thread(t).birth /\ r.migrated = Thread(t).migrated
        /\ r.destructed = Thread(t).destructed
    BY <1>1 DEF AgentRec, AgentPcs
  <2>2. ag'[c] = r /\ Alone(c)
    BY <1>1, <1>4, <2>1, OneAgent DEF Ask, SetThread, Alone
  <2> HIDE DEF r
  <2> QED
    BY <1>1, <1>2, <2>1, <2>2 DEF Call, SameOrigin
<1> QED
  BY <1>3, <1>4 DEF Call

(* While the caller looks for a proclet only its pc changes.               *)
LEMMA LookFields ==
  ASSUME CallInv, NEW t \in Threads, NEW c, c = <<t, "caller">>,
         \/ LookCached(t) \/ Resolve(t) \/ Store(t) \/ WrongClient(t)
         \/ HandlerStart(t) /\ ~Usable(rpc[t].to, "B")
         \/ LoadThread(t) /\ ~Usable(rpc[t].to, "A")
  PROVE  /\ c \in Agents /\ Alone(c) /\ SameOrigin(c) /\ Asking(Thread(t).pc)
         /\ ag'[c].at = ag[c].at /\ ag'[c].own = None /\ Asking(ag'[c].pc)
         /\ ag[c].own = None
         /\ UNCHANGED <<places, ref_cnt, refs, work>>
<1>1. /\ c \in Agents /\ Thread(t) = ag[c] /\ Thread(t) \in AgentRec /\ TypeOK
      /\ Settled(c)
  BY AgentsOf, CallerKnown
<1>2. PICK pc \in {"look", "store", "sent", "wrong"} :
        /\ SetThread(t, [Thread(t) EXCEPT !.pc = pc]) /\ Asking(Thread(t).pc)
        /\ UNCHANGED <<places, ref_cnt, refs, work>>
  BY DEF LookCached, Resolve, Store, WrongClient, HandlerStart, LoadThread, Asking
<1> DEFINE r == [Thread(t) EXCEPT !.pc = pc]
<1>3. /\ r \in AgentRec /\ r.own = Thread(t).own /\ r.at = Thread(t).at /\ r.pc = pc
      /\ r.birth = Thread(t).birth /\ r.migrated = Thread(t).migrated
      /\ r.destructed = Thread(t).destructed
  BY <1>1 DEF AgentRec, AgentPcs
<1>4. ag'[c] = r /\ Alone(c)
  BY <1>1, <1>2, <1>3, OneAgent DEF SetThread, Alone
<1> HIDE DEF r
<1>5. Thread(t).own = None
  BY <1>1, <1>2 DEF Settled
<1> QED
  BY <1>1, <1>2, <1>3, <1>4, <1>5 DEF SameOrigin, Asking

(* After its call it is in A again, or asks for it.                        *)
LEMMA ReturnFields ==
  ASSUME CallInv, NEW t \in Threads, NEW c, c = <<t, "caller">>,
         Back(t) \/ (LoadThread(t) /\ Usable(rpc[t].to, "A"))
  PROVE  /\ c \in Agents /\ Alone(c) /\ SameOrigin(c)
         /\ Thread(t).pc \in {"answered", "done", "sent"}
         /\ did[t] = 1 /\ ag[c].at # None
         /\ \/ ag'[c].own = "A" /\ ag'[c].pc = "run" /\ Usable(ag'[c].at, "A") /\ Finish(t)
            \/ ag'[c].own = None /\ ag'[c].pc = "look" /\ ag'[c].at = ag[c].at /\ UNCHANGED work
         /\ UNCHANGED <<places, ref_cnt, refs>>
<1>1. /\ c \in Agents /\ Thread(t) = ag[c] /\ Thread(t) \in AgentRec /\ TypeOK
      /\ Settled(c) /\ CallerPhase(t)
  BY AgentsOf, CallerKnown
<1>2. /\ Thread(t).pc \in {"answered", "done", "sent"} /\ did[t] = 1
      /\ Thread(t).at # None
  BY <1>1 DEF Back, LoadThread, CallerPhase, Already, Asking, Settled
<1>3. ASSUME NEW n \in Nodes, SetThread(t, HomeAgain(Thread(t), n)), Usable(n, "A"), Finish(t)
      PROVE  /\ Alone(c) /\ SameOrigin(c)
             /\ ag'[c].own = "A" /\ ag'[c].pc = "run" /\ Usable(ag'[c].at, "A") /\ Finish(t)
  <2> DEFINE r == HomeAgain(Thread(t), n)
  <2>1. /\ r \in AgentRec /\ r.own = "A" /\ r.at = n /\ r.pc = "run"
        /\ r.birth = Thread(t).birth /\ r.migrated = Thread(t).migrated
        /\ r.destructed = Thread(t).destructed
    BY <1>1 DEF HomeAgain, AgentRec, AgentPcs, Proclets, Places
  <2>2. ag'[c] = r /\ Alone(c)
    BY <1>1, <1>3, <2>1, OneAgent DEF SetThread, Alone
  <2> HIDE DEF r
  <2> QED
    BY <1>1, <1>3, <2>1, <2>2 DEF SameOrigin
<1>4. CASE Ask(t, "A") /\ UNCHANGED work
  <2> DEFINE r == [Thread(t) EXCEPT !.pc = "look", !.own = None, !.guard = None]
  <2>1. /\ r \in AgentRec /\ r.own = None /\ r.at = Thread(t).at /\ r.pc = "look"
        /\ r.birth = Thread(t).birth /\ r.migrated = Thread(t).migrated
        /\ r.destructed = Thread(t).destructed
    BY <1>1 DEF AgentRec, AgentPcs
  <2>2. ag'[c] = r /\ Alone(c)
    BY <1>1, <1>4, <2>1, OneAgent DEF Ask, SetThread, Alone
  <2> HIDE DEF r
  <2>3. UNCHANGED <<places, ref_cnt, refs>>
    BY DEF Back, LoadThread
  <2> QED
    BY <1>1, <1>2, <1>4, <2>1, <2>2, <2>3 DEF SameOrigin
<1>5. CASE ~(Ask(t, "A") /\ UNCHANGED work)
  <2>1. PICK n \in Places : SetThread(t, HomeAgain(Thread(t), n)) /\ Usable(n, "A") /\ Finish(t)
    BY <1>1, <1>5 DEF Back, LoadThread, AgentRec, TypeOK, RpcRec
  <2>2. n \in Nodes
    BY <2>1 DEF Usable, Places
  <2>3. UNCHANGED <<places, ref_cnt, refs>>
    BY DEF Back, LoadThread
  <2> QED
    BY <1>1, <1>2, <1>3, <2>1, <2>2, <2>3
<1> QED
  BY <1>4, <1>5

(* A handler begins within B, while its caller waits.                      *)
LEMMA StartFields ==
  ASSUME CallInv, NEW t \in Threads, HandlerStart(t), Usable(rpc[t].to, "B"),
         NEW c, c = <<t, "caller">>, NEW h, h = <<t, job[t]>>
  PROVE  /\ c \in Agents /\ h \in Agents /\ h # c
         /\ \A y \in Agents \ {c, h} : ag'[y] = ag[y]
         /\ SameOrigin(c) /\ ag[c].pc = "sent" /\ ag'[c].pc = "wait"
         /\ ag'[c].at = ag[c].at /\ ag[c].own = None /\ ag'[c].own = None
         /\ job[t] \in Jobs /\ did[t] = 0 /\ rpc[t].to \in Nodes
         /\ ag'[h].own = "B" /\ ag'[h].at = rpc[t].to /\ ag'[h].birth = rpc[t].to
         /\ ag'[h].pc = (IF job[t] = "run" THEN "body" ELSE "count")
         /\ ag'[h].migrated = FALSE /\ ag'[h].destructed = FALSE
         /\ refs' = [refs EXCEPT ![rpc[t].to] = @ + 1]
         /\ UNCHANGED <<places, ref_cnt, work>>
<1> DEFINE n == rpc[t].to
           r == Enter([Idle EXCEPT !.at = n, !.birth = n], job[t])
           w == [ag[c] EXCEPT !.pc = "wait"]
<1>1. c \in Agents /\ Thread(t) = ag[c] /\ Thread(t) \in AgentRec /\ CallerPhase(t)
      /\ TypeOK /\ Settled(c)
  BY AgentsOf, CallerKnown
<1>2. Thread(t).pc = "sent" /\ rpc[t].goal = "B" /\ did[t] = 0 /\ job[t] \in Jobs
      /\ Thread(t).own = None
  BY <1>1 DEF HandlerStart, CallerPhase, Asking, TypeOK, Settled
<1>3. h \in Agents /\ h # c /\ n \in Nodes
  BY <1>1, <1>2, AgentsOf DEF Jobs, Usable, TypeOK, RpcRec, Places
<1>4. /\ r \in AgentRec /\ r.own = "B" /\ r.at = n /\ r.birth = n
      /\ r.pc = (IF job[t] = "run" THEN "body" ELSE "count")
      /\ r.migrated = FALSE /\ r.destructed = FALSE
  BY <1>2, <1>3 DEF Enter, Idle, AgentRec, AgentPcs, Proclets, Places, Jobs
<1>5. /\ w \in AgentRec /\ w.pc = "wait" /\ w.at = ag[c].at /\ w.own = ag[c].own
      /\ w.birth = ag[c].birth /\ w.migrated = ag[c].migrated
      /\ w.destructed = ag[c].destructed
  BY <1>1 DEF AgentRec, AgentPcs
<1>6. ag' = [ag EXCEPT ![h] = r, ![c] = w]
  BY <1>1, <1>3 DEF HandlerStart
<1> HIDE DEF r, w
<1>7. ag'[h] = r /\ ag'[c] = w /\ \A y \in Agents \ {c, h} : ag'[y] = ag[y]
  BY <1>1, <1>3, <1>4, <1>5, <1>6 DEF TypeOK
<1> QED
  BY <1>1, <1>2, <1>3, <1>4, <1>5, <1>7 DEF HandlerStart, SameOrigin

(* Its job is that of its caller, which waits for it.                      *)
LEMMA JobIs ==
  ASSUME CallInv, NEW x \in Agents, NotYet(ag[x].pc) \/ Already(ag[x].pc)
  PROVE  JobOf(x) = job[x[1]] /\ job[x[1]] \in Jobs /\ x[1] \in Threads
<1>1. x[1] \in Threads /\ job[x[1]] \in Jobs
  BY WorkerKnown
<1>2. CASE x = <<x[1], "caller">>
  BY <1>1, <1>2 DEF JobOf
<1>3. ASSUME NEW j \in Jobs, x = <<x[1], j>> PROVE JobOf(x) = job[x[1]]
  <2>1. HandlerPhase(x[1], j)
    BY <1>1 DEF CallInv
  <2> QED
    BY <1>3, <2>1 DEF HandlerPhase, JobOf, Jobs
<1> QED
  BY <1>1, <1>2, <1>3, AgentIs

(* Who works within B has a job there, and goes on with it where it is.    *)
LEMMA WorkFields ==
  ASSUME CallInv, NEW x \in Agents,
         \/ RunBody(x) \/ Count(x) \/ Kill(x) \/ Destruct(x)
         \/ Reguard(x, "ran", "done") \/ Reguard(x, "again", "kill")
  PROVE  /\ Alone(x) /\ x[1] \in Threads /\ job[x[1]] \in Jobs /\ JobOf(x) = job[x[1]]
         /\ ag[x].pc \in {"body", "count", "ran", "kill", "again", "dtor"}
         /\ ag'[x].pc \in {"ran", "kill", "again", "dtor", "done"}
         /\ ag[x].own = "B" /\ ag'[x].own = "B" /\ ag'[x].at = ag[x].at /\ ag[x].at \in Nodes
         /\ ag'[x].birth = ag[x].birth /\ ag'[x].migrated = ag[x].migrated
         /\ Destruct(x) \/ ag'[x].destructed = ag[x].destructed
         /\ RunBody(x) => ag'[x].pc = "ran"
         /\ Count(x) => ag'[x].pc = (IF ref_cnt' = 0 THEN "kill" ELSE "done")
         /\ Kill(x) => ag'[x].pc = (IF status[ag[x].at]["B"] = "present" THEN "dtor" ELSE "again")
         /\ Destruct(x) => ag'[x].pc = "done" /\ ag'[x].destructed = TRUE
         /\ Reguard(x, "ran", "done") => ag'[x].pc = "done"
         /\ Reguard(x, "again", "kill") => ag'[x].pc = "kill"
         /\ UNCHANGED <<refs, todo, job>>
<1>1. /\ ag[x] \in AgentRec /\ TypeOK /\ Settled(x) /\ x[1] \in Threads
      /\ NotYet(ag[x].pc) => job[x[1]] \in Jobs
      /\ Already(ag[x].pc) => job[x[1]] \in Jobs
  BY WorkerKnown
<1>2. /\ ag[x].pc \in {"body", "count", "ran", "kill", "again", "dtor"}
      /\ UNCHANGED <<refs, todo, job>>
  BY DEF RunBody, Count, Kill, Destruct, Reguard, work
<1>3. NotYet(ag[x].pc) \/ Already(ag[x].pc)
  BY <1>2 DEF NotYet, Already
<1>4. ag[x].own = "B" /\ ag[x].at # None
  BY <1>1, <1>2 DEF Settled, RunBody, Count, Kill, Destruct, Reguard, Usable
<1>5. ag[x].at \in Nodes /\ job[x[1]] \in Jobs
  BY <1>1, <1>3, <1>4 DEF AgentRec, Places
<1>6. JobOf(x) = job[x[1]]
  BY <1>3, JobIs
<1>7. /\ RunBody(x) => ag[x].pc = "body"
      /\ Count(x) => ag[x].pc = "count"
      /\ Kill(x) => ag[x].pc = "kill"
      /\ Destruct(x) => ag[x].pc = "dtor"
      /\ Reguard(x, "ran", "done") => ag[x].pc = "ran"
      /\ Reguard(x, "again", "kill") => ag[x].pc = "again"
  BY DEF RunBody, Count, Kill, Destruct, Reguard
<1>8. PICK r \in AgentRec :
        /\ ag' = [ag EXCEPT ![x] = r]
        /\ r.pc \in {"ran", "kill", "again", "dtor", "done"}
        /\ r.own = ag[x].own /\ r.at = ag[x].at /\ r.birth = ag[x].birth
        /\ r.migrated = ag[x].migrated
        /\ Destruct(x) \/ r.destructed = ag[x].destructed
        /\ RunBody(x) => r.pc = "ran"
        /\ Count(x) => r.pc = (IF ref_cnt' = 0 THEN "kill" ELSE "done")
        /\ Kill(x) => r.pc = (IF status[ag[x].at]["B"] = "present" THEN "dtor" ELSE "again")
        /\ Destruct(x) => r.pc = "done" /\ r.destructed = TRUE
        /\ Reguard(x, "ran", "done") => r.pc = "done"
        /\ Reguard(x, "again", "kill") => r.pc = "kill"
  <2> DEFINE Kept(r) == /\ r.own = ag[x].own /\ r.at = ag[x].at /\ r.birth = ag[x].birth
                        /\ r.migrated = ag[x].migrated
  <2>1. CASE RunBody(x)
    <3> DEFINE r == [ag[x] EXCEPT !.pc = "ran"]
    <3>1. r \in AgentRec /\ Kept(r) /\ r.pc = "ran" /\ r.destructed = ag[x].destructed
      BY <1>1 DEF AgentRec, AgentPcs, Proclets
    <3>2. ag' = [ag EXCEPT ![x] = r]
      BY <2>1 DEF RunBody
    <3> HIDE DEF r
    <3> QED
      BY <2>1, <3>1, <3>2, <1>7
  <2>2. CASE Count(x)
    <3> DEFINE r == [ag[x] EXCEPT !.pc = IF IsLast(ref_cnt') THEN "kill" ELSE "done"]
    <3>1. r \in AgentRec /\ Kept(r) /\ r.pc = (IF ref_cnt' = 0 THEN "kill" ELSE "done")
          /\ r.destructed = ag[x].destructed
      BY <1>1 DEF AgentRec, AgentPcs, Proclets, IsLast
    <3>2. ag' = [ag EXCEPT ![x] = r]
      BY <2>2 DEF Count
    <3> HIDE DEF r
    <3> QED
      BY <2>2, <3>1, <3>2, <1>7
  <2>3. CASE Kill(x) /\ status[ag[x].at]["B"] = "present"
    <3> DEFINE r == [ag[x] EXCEPT !.pc = "dtor", !.guard = None]
    <3>1. r \in AgentRec /\ Kept(r) /\ r.pc = "dtor" /\ r.destructed = ag[x].destructed
      BY <1>1 DEF AgentRec, AgentPcs, Proclets
    <3>2. ag' = [ag EXCEPT ![x] = r]
      BY <2>3 DEF Kill
    <3> HIDE DEF r
    <3> QED
      BY <2>3, <3>1, <3>2, <1>7
  <2>4. CASE Kill(x) /\ status[ag[x].at]["B"] # "present"
    <3> DEFINE r == [ag[x] EXCEPT !.pc = "again", !.guard = None]
    <3>1. r \in AgentRec /\ Kept(r) /\ r.pc = "again" /\ r.destructed = ag[x].destructed
      BY <1>1 DEF AgentRec, AgentPcs, Proclets
    <3>2. ag' = [ag EXCEPT ![x] = r]
      BY <2>4 DEF Kill
    <3> HIDE DEF r
    <3> QED
      BY <2>4, <3>1, <3>2, <1>7
  <2>5. CASE Destruct(x)
    <3> DEFINE r == [ag[x] EXCEPT !.pc = "done", !.guard = "B", !.destructed = TRUE]
    <3>1. r \in AgentRec /\ Kept(r) /\ r.pc = "done" /\ r.destructed = TRUE
      BY <1>1 DEF AgentRec, AgentPcs, Proclets
    <3>2. ag' = [ag EXCEPT ![x] = r]
      BY <2>5 DEF Destruct
    <3> HIDE DEF r
    <3> QED
      BY <2>5, <3>1, <3>2, <1>7
  <2>6. CASE Reguard(x, "ran", "done")
    <3> DEFINE r == [ag[x] EXCEPT !.pc = "done", !.guard = "B"]
    <3>1. r \in AgentRec /\ Kept(r) /\ r.pc = "done" /\ r.destructed = ag[x].destructed
      BY <1>1 DEF AgentRec, AgentPcs, Proclets
    <3>2. ag' = [ag EXCEPT ![x] = r]
      BY <2>6 DEF Reguard
    <3> HIDE DEF r
    <3> QED
      BY <2>6, <3>1, <3>2, <1>7
  <2>7. CASE Reguard(x, "again", "kill")
    <3> DEFINE r == [ag[x] EXCEPT !.pc = "kill", !.guard = "B"]
    <3>1. r \in AgentRec /\ Kept(r) /\ r.pc = "kill" /\ r.destructed = ag[x].destructed
      BY <1>1 DEF AgentRec, AgentPcs, Proclets
    <3>2. ag' = [ag EXCEPT ![x] = r]
      BY <2>7 DEF Reguard
    <3> HIDE DEF r
    <3> QED
      BY <2>7, <3>1, <3>2, <1>7
  <2> QED
    BY <2>1, <2>2, <2>3, <2>4, <2>5, <2>6, <2>7
<1>9. ag'[x] = r /\ Alone(x)
  BY <1>1, <1>8, OneAgent DEF Alone
<1> QED
  BY <1>1, <1>2, <1>4, <1>5, <1>6, <1>8, <1>9

(* A handler answers its caller, which waits outside of any proclet.       *)
LEMMA RespondFields ==
  ASSUME CallInv, NEW x \in Agents, Respond(x), NEW c, c = <<x[1], "caller">>
  PROVE  /\ c \in Agents /\ x # c /\ x[1] \in Threads
         /\ \A y \in Agents \ {c, x} : ag'[y] = ag[y]
         /\ SameOrigin(c) /\ ag[c].pc = "wait" /\ ag'[c].pc = "answered"
         /\ ag'[c].at = ag[c].at /\ ag[c].own = None /\ ag'[c].own = None
         /\ SameOrigin(x) /\ ag[x].pc = "done" /\ ag'[x].pc = "end"
         /\ ag'[x].at = ag[x].at /\ ag[x].own = "B" /\ ag'[x].own = "B"
         /\ did[x[1]] = 1 /\ ag[x].birth \in Places
         /\ refs' = IF ag[x].migrated THEN [refs EXCEPT ![ag[x].birth] = @ - 1] ELSE refs
         /\ UNCHANGED <<places, ref_cnt, work>>
<1> DEFINE t == x[1]
           r == [ag[x] EXCEPT !.pc = "end"]
           w == [ag[c] EXCEPT !.pc = "answered"]
<1>1. /\ ag[x] \in AgentRec /\ TypeOK /\ Settled(x) /\ t \in Threads /\ did[t] = 1
      /\ ag[x].own = "B"
  BY WorkerKnown DEF Respond, Already, Settled
<1>2. PICK j \in Jobs : x = <<t, j>>
  BY AgentIs DEF Respond
<1>3. c \in Agents /\ c # x /\ Thread(t) = ag[c] /\ ag[c] \in AgentRec /\ Settled(c)
  <2>1. c # x
    BY <1>1, <1>2, AgentIs
  <2>2. Thread(t) = ag[c] /\ Thread(t) \in AgentRec /\ Settled(c)
    BY <1>1, CallerKnown
  <2>3. c \in Agents
    BY <1>1, AgentsOf
  <2> QED
    BY <2>1, <2>2, <2>3
<1>4. ag[c].pc = "wait"
  BY <1>1, <1>2, <1>3 DEF CallInv, HandlerPhase, Respond, Already
<1>5. /\ r \in AgentRec /\ r.pc = "end" /\ r.at = ag[x].at /\ r.own = ag[x].own
      /\ r.birth = ag[x].birth /\ r.migrated = ag[x].migrated
      /\ r.destructed = ag[x].destructed
  BY <1>1 DEF AgentRec, AgentPcs
<1>6. /\ w \in AgentRec /\ w.pc = "answered" /\ w.at = ag[c].at /\ w.own = ag[c].own
      /\ w.birth = ag[c].birth /\ w.migrated = ag[c].migrated
      /\ w.destructed = ag[c].destructed
  BY <1>3 DEF AgentRec, AgentPcs
<1>7. ag' = [ag EXCEPT ![x] = r, ![c] = w]
  BY <1>1, <1>3 DEF Respond, Answer
<1> HIDE DEF r, w
<1>8. ag'[x] = r /\ ag'[c] = w /\ \A y \in Agents \ {c, x} : ag'[y] = ag[y]
  BY <1>1, <1>3, <1>5, <1>6, <1>7 DEF TypeOK
<1>9. ag[c].own = None /\ ag[x].birth \in Places
  BY <1>1, <1>3, <1>4 DEF Settled, AgentRec
<1> QED
  BY <1>1, <1>3, <1>4, <1>5, <1>6, <1>8, <1>9 DEF Respond, SameOrigin, CountedOut

(* Then it ends, or cleans up after B first.                               *)
LEMMA EndFields ==
  ASSUME CallInv, NEW x \in Agents, End(x) \/ Cleanup(x)
  PROVE  /\ Alone(x) /\ ag[x].at # None /\ ag'[x].own = None
         /\ ag'[x].migrated \in {ag[x].migrated, FALSE}
         /\ \/ /\ End(x) /\ ag[x].pc = "end" /\ ag[x].own = "B" /\ ag'[x].pc = "sync"
               /\ ag'[x].at = ag[x].at /\ SameOrigin(x)
               /\ ~ag[x].migrated /\ ag[x].destructed /\ refs' = refs
            \/ /\ End(x) /\ ag[x].pc = "end" /\ ag[x].own = "B" /\ ag'[x].pc = "idle"
               /\ ag'[x].birth = None /\ ag'[x].at = None
               /\ ag'[x].destructed = ag[x].destructed
               /\ refs' = IF ag[x].migrated THEN refs ELSE [refs EXCEPT ![ag[x].at] = @ - 1]
            \/ /\ Cleanup(x) /\ ag[x].pc = "sync" /\ ag'[x].pc = "idle"
               /\ ag'[x].birth = None /\ ag'[x].at = None /\ ag'[x].destructed = TRUE
               /\ ag'[x].migrated = FALSE
               /\ refs' = [refs EXCEPT ![ag[x].at] = @ - 1]
         /\ UNCHANGED <<status, news, mig, ref_cnt, work>>
<1>1. ag[x] \in AgentRec /\ TypeOK /\ Settled(x)
  BY WorkerKnown
<1>2. ag[x].at # None
  BY <1>1 DEF End, Cleanup, Settled
<1>3. UNCHANGED <<status, news, mig, ref_cnt, work>>
  BY DEF End, Cleanup, places
<1>4. CASE End(x) /\ ~ag[x].migrated /\ ag[x].destructed
  <2> DEFINE r == [ag[x] EXCEPT !.pc = "sync", !.own = None, !.guard = None]
  <2>1. /\ r \in AgentRec /\ r.pc = "sync" /\ r.own = None /\ r.at = ag[x].at
        /\ r.birth = ag[x].birth /\ r.migrated = ag[x].migrated
        /\ r.destructed = ag[x].destructed
    BY <1>1 DEF AgentRec, AgentPcs
  <2>2. ag'[x] = r /\ Alone(x)
    BY <1>1, <1>4, <2>1, OneAgent DEF End, Alone
  <2> HIDE DEF r
  <2>3. ag[x].pc = "end" /\ ag[x].own = "B" /\ refs' = refs
    BY <1>1, <1>4 DEF End, Settled
  <2> QED
    BY <1>2, <1>3, <1>4, <2>1, <2>2, <2>3 DEF SameOrigin
<1>5. CASE End(x) /\ ~(~ag[x].migrated /\ ag[x].destructed)
  <2> DEFINE r == [Idle EXCEPT !.destructed = ag[x].destructed, !.migrated = ag[x].migrated]
  <2>1. /\ r \in AgentRec /\ r.pc = "idle" /\ r.own = None /\ r.at = None
        /\ r.birth = None /\ r.migrated = ag[x].migrated
        /\ r.destructed = ag[x].destructed
    BY <1>1 DEF AgentRec, AgentPcs, Idle, Places, Proclets
  <2>2. ag'[x] = r /\ Alone(x)
    BY <1>1, <1>5, <2>1, OneAgent DEF End, Alone
  <2> HIDE DEF r
  <2>3. /\ ag[x].pc = "end" /\ ag[x].own = "B"
        /\ refs' = IF ag[x].migrated THEN refs ELSE [refs EXCEPT ![ag[x].at] = @ - 1]
    BY <1>1, <1>5 DEF End, Settled
  <2> QED
    BY <1>2, <1>3, <1>5, <2>1, <2>2, <2>3
<1>6. CASE Cleanup(x)
  <2> DEFINE r == [Idle EXCEPT !.destructed = TRUE]
  <2>1. /\ r \in AgentRec /\ r.pc = "idle" /\ r.own = None /\ r.at = None
        /\ r.birth = None /\ r.migrated = FALSE /\ r.destructed = TRUE
    BY DEF AgentRec, AgentPcs, Idle, Places, Proclets
  <2>2. ag'[x] = r /\ Alone(x)
    BY <1>1, <1>6, <2>1, OneAgent DEF Cleanup, Alone
  <2> HIDE DEF r
  <2>3. ag[x].pc = "sync" /\ refs' = [refs EXCEPT ![ag[x].at] = @ - 1]
    BY <1>6 DEF Cleanup
  <2> QED
    BY <1>2, <1>3, <1>6, <2>1, <2>2, <2>3
<1> QED
  BY <1>4, <1>5, <1>6

(* A migration takes the threads of its proclet along.                     *)
LEMMA LeaveFields ==
  ASSUME CallInv, Leave, NEW x \in Agents
  PROVE  /\ ag'[x].pc = ag[x].pc /\ ag'[x].own = ag[x].own /\ SameOrigin(x)
         /\ ag'[x].at = (IF Passengers(x) THEN None ELSE ag[x].at)
         /\ UNCHANGED <<refs, ref_cnt, work, ctl>>
<1>1. ag[x] \in AgentRec
  BY WorkerKnown
<1>2. CASE Passengers(x)
  <2> DEFINE r == [ag[x] EXCEPT !.at = None]
  <2>1. /\ r.pc = ag[x].pc /\ r.own = ag[x].own /\ r.at = None /\ r.birth = ag[x].birth
        /\ r.migrated = ag[x].migrated /\ r.destructed = ag[x].destructed
    BY <1>1 DEF AgentRec
  <2>2. ag'[x] = r
    BY <1>2 DEF Leave
  <2> HIDE DEF r
  <2> QED
    BY <1>2, <2>1, <2>2 DEF Leave, SameOrigin
<1>3. CASE ~Passengers(x)
  BY <1>3 DEF Leave, SameOrigin
<1> QED
  BY <1>2, <1>3

LEMMA LoadFields ==
  ASSUME CallInv, LoadThreads, NEW x \in Agents
  PROVE  /\ ag'[x].pc = ag[x].pc /\ ag'[x].own = ag[x].own /\ ag'[x].birth = ag[x].birth
         /\ ag'[x].destructed = ag[x].destructed
         /\ IF ag[x].own = mig.p /\ ag[x].at = None
            THEN ag'[x].at = mig.to /\ ag'[x].migrated = (ag[x].birth # None)
            ELSE ag'[x].at = ag[x].at /\ ag'[x].migrated = ag[x].migrated
         /\ UNCHANGED <<refs, ref_cnt, work, status, ctl>>
<1>1. ag[x] \in AgentRec
  BY WorkerKnown
<1>2. CASE ag[x].own = mig.p /\ ag[x].at = None
  <2> DEFINE r == [ag[x] EXCEPT !.at = mig.to, !.migrated = ag[x].birth # None]
  <2>1. /\ r.pc = ag[x].pc /\ r.own = ag[x].own /\ r.at = mig.to /\ r.birth = ag[x].birth
        /\ r.migrated = (ag[x].birth # None) /\ r.destructed = ag[x].destructed
    BY <1>1 DEF AgentRec
  <2>2. ag'[x] = r
    BY <1>2 DEF LoadThreads
  <2> HIDE DEF r
  <2> QED
    BY <1>2, <2>1, <2>2 DEF LoadThreads
<1>3. CASE ~(ag[x].own = mig.p /\ ag[x].at = None)
  BY <1>3 DEF LoadThreads
<1> QED
  BY <1>2, <1>3

---------------------------------------------------------------------------
(* Who is counted where.                                                   *)

(* Its answer has gone out for it, where it was counted.                   *)
Left(x) == ag[x].pc = "end" /\ ag[x].migrated

LEMMA CountedFinite ==
  ASSUME NEW n
  PROVE  IsFiniteSet(Counted(n)) /\ IsFiniteSet(Counted(n))' /\ Cardinality(Counted(n)) \in Nat
<1>1. IsFiniteSet({"caller", "run", "drop"})
  <2>1. IsFiniteSet({"caller"})
    BY FS_Singleton
  <2>2. IsFiniteSet({"caller"} \cup {"run"})
    BY <2>1, FS_AddElement
  <2>3. IsFiniteSet(({"caller"} \cup {"run"}) \cup {"drop"})
    BY <2>2, FS_AddElement
  <2>4. ({"caller"} \cup {"run"}) \cup {"drop"} = {"caller", "run", "drop"}
    OBVIOUS
  <2> QED
    BY <2>3, <2>4
<1>2. IsFiniteSet(Agents)
  BY <1>1, FS_Product, ConstantsOK DEF Agents
<1>3. Counted(n) \subseteq Agents /\ Counted(n)' \subseteq Agents
  BY DEF Counted
<1> QED
  BY <1>2, <1>3, FS_Subset, FS_CardinalityType

(* Nobody is counted in or out.                                            *)
LEMMA CountsStay ==
  ASSUME CountInv, UNCHANGED refs,
         \A x \in Agents : ag'[x].birth = ag[x].birth
                           /\ (ag[x].birth # None => (Left(x)' <=> Left(x)))
  PROVE  \A n \in Nodes : refs'[n] = Cardinality(Counted(n)')
<1> SUFFICES ASSUME NEW n \in Nodes PROVE Counted(n)' = Counted(n)
  BY DEF CountInv
<1>1. n # None
  BY ConstantsOK
<1> QED
  BY <1>1 DEF Counted, Left

(* One handler is counted out.                                             *)
LEMMA CountsLess ==
  ASSUME CallInv, CountInv, NEW x \in Agents, NEW m \in Nodes,
         ag[x].birth = m, ~Left(x),
         ag'[x].birth = None \/ (ag'[x].birth = m /\ Left(x)'),
         refs' = [refs EXCEPT ![m] = @ - 1],
         \A y \in Agents \ {x} : ag'[y].birth = ag[y].birth
                                 /\ (ag[y].birth # None => (Left(y)' <=> Left(y)))
  PROVE  \A n \in Nodes : refs'[n] = Cardinality(Counted(n)')
<1> TAKE n \in Nodes
<1>1. n # None /\ m # None /\ refs \in [Nodes -> Int]
  BY ConstantsOK DEF CallInv, TypeOK
<1>2. refs[n] = Cardinality(Counted(n)) /\ Cardinality(Counted(n)) \in Nat
  BY CountedFinite DEF CountInv
<1>3. CASE n = m
  <2>1. x \in Counted(m)
    BY DEF Counted, Left
  <2>2. Counted(m)' = Counted(m) \ {x}
    BY <1>1 DEF Counted, Left
  <2>3. Cardinality(Counted(m) \ {x}) = Cardinality(Counted(m)) - 1
    BY <2>1, FS_RemoveElement, CountedFinite
  <2>4. refs'[n] = refs[n] - 1
    BY <1>1, <1>3
  <2> QED
    BY <1>2, <1>3, <2>2, <2>3, <2>4
<1>4. CASE n # m
  <2>1. Counted(n)' = Counted(n)
    BY <1>1, <1>4 DEF Counted, Left
  <2> QED
    BY <1>1, <1>2, <1>4, <2>1
<1> QED
  BY <1>3, <1>4

(* One handler is counted in.                                              *)
LEMMA CountsMore ==
  ASSUME CallInv, CountInv, NEW x \in Agents, NEW m \in Nodes,
         ag[x].birth = None, ag'[x].birth = m, ~Left(x)',
         refs' = [refs EXCEPT ![m] = @ + 1],
         \A y \in Agents \ {x} : ag'[y].birth = ag[y].birth
                                 /\ (ag[y].birth # None => (Left(y)' <=> Left(y)))
  PROVE  \A n \in Nodes : refs'[n] = Cardinality(Counted(n)')
<1> TAKE n \in Nodes
<1>1. n # None /\ m # None /\ refs \in [Nodes -> Int]
  BY ConstantsOK DEF CallInv, TypeOK
<1>2. refs[n] = Cardinality(Counted(n)) /\ Cardinality(Counted(n)) \in Nat
  BY CountedFinite DEF CountInv
<1>3. CASE n = m
  <2>1. x \notin Counted(m)
    BY <1>1 DEF Counted, Left
  <2>2. Counted(m)' = Counted(m) \cup {x}
    BY <1>1 DEF Counted, Left
  <2>3. Cardinality(Counted(m) \cup {x}) = Cardinality(Counted(m)) + 1
    BY <2>1, FS_AddElement, CountedFinite
  <2>4. refs'[n] = refs[n] + 1
    BY <1>1, <1>3
  <2> QED
    BY <1>2, <1>3, <2>2, <2>3, <2>4
<1>4. CASE n # m
  <2>1. Counted(n)' = Counted(n)
    BY <1>1, <1>4 DEF Counted, Left
  <2> QED
    BY <1>1, <1>2, <1>4, <2>1
<1> QED
  BY <1>3, <1>4

(* Where the fields that Born names are as they were.                      *)
LEMMA BornStays ==
  ASSUME NEW x \in Agents, Born(x), ag'[x] = ag[x]
  PROVE  Born(x)' /\ (Left(x)' <=> Left(x)) /\ ag'[x].birth = ag[x].birth
BY DEF Born, Left

(* At first nobody is asked.                                               *)
LEMMA InitCounts == Init => CountInv
<1> SUFFICES ASSUME Init PROVE CountInv
  OBVIOUS
<1>1. ASSUME NEW x \in Agents
      PROVE  /\ ag[x].birth = None /\ ag[x].migrated = FALSE
             /\ IF x[2] = "caller" THEN ag[x].pc = "run" /\ ag[x].own = "A"
                                   ELSE ag[x].pc = "idle" /\ ag[x].own = None
  BY DEF Init, Idle
<1>2. \A x \in Agents : Born(x)
  BY <1>1 DEF Born
<1>3. ASSUME NEW t \in Threads, NEW j \in Jobs PROVE Once(t, j)
  <2>1. <<t, j>> \in Agents /\ <<t, j>>[2] # "caller"
    BY AgentsOf DEF Jobs
  <2> QED
    BY <2>1, <1>1 DEF Once
<1>4. ASSUME NEW n \in Nodes PROVE refs[n] = Cardinality(Counted(n))
  <2>1. n # None
    BY ConstantsOK
  <2>2. Counted(n) = {}
    BY <1>1, <2>1 DEF Counted
  <2> QED
    BY <2>2, FS_EmptySet DEF Init
<1>5. \A t \in Threads : job[t] \notin todo[t]
  BY DEF Init, Jobs, None
<1> QED
  BY <1>2, <1>3, <1>4, <1>5 DEF CountInv

(* The caller's own steps.                                                 *)
LEMMA CallerCounts ==
  ASSUME CallInv, CallInv', CountInv, NEW t \in Threads, NEW c, c = <<t, "caller">>,
         c \in Agents, Alone(c), SameOrigin(c), ag[c].pc # "wait", UNCHANGED refs,
         ag'[c].pc = "run" => ag'[c].own = "A",
         \A u \in Threads \ {t} : todo'[u] = todo[u] /\ job'[u] = job[u] /\ did'[u] = did[u],
         todo'[t] \subseteq todo[t], job'[t] \notin todo'[t],
         \/ job'[t] = job[t] /\ did'[t] = did[t]
         \/ job'[t] = None
         \/ job'[t] \in todo[t]
  PROVE  CountInv'
<1>1. CallerPhase(t) /\ CallerPhase(t)'
  BY DEF CallInv
<1>2. Thread(t) = ag[c] /\ Thread(t)' = ag'[c]
  BY DEF Thread
<1>3. ag[c].pc \notin {"idle", "end", "sync"} /\ ag'[c].pc \notin {"idle", "end", "sync"}
  BY <1>1, <1>2 DEF CallerPhase
<1>4. Born(c) /\ c[2] = "caller"
  BY DEF CountInv
<1>5. ag[c].birth = None
  BY <1>4 DEF Born
<1>6. Born(c)'
  BY <1>3, <1>4, <1>5 DEF Born, SameOrigin
<1>7. ASSUME NEW x \in Agents \ {c}
      PROVE  Born(x)' /\ (Left(x)' <=> Left(x)) /\ ag'[x].birth = ag[x].birth
  BY BornStays DEF CountInv, Alone
<1>8. ASSUME NEW u \in Threads, NEW j \in Jobs PROVE Once(u, j)'
  <2>1. Once(u, j) /\ <<u, j>> \in Agents \ {c}
    BY AgentIs, AgentsOf DEF CountInv
  <2>2. ag'[<<u, j>>] = ag[<<u, j>>]
    BY <2>1 DEF Alone
  <2>3. CASE u # t
    <3>1. <<u, "caller">> \in Agents \ {c}
      BY <2>3, AgentsOf
    <3>2. Thread(u)' = Thread(u)
      BY <3>1 DEF Thread, Alone
    <3> QED
      BY <2>1, <2>2, <2>3, <3>2 DEF Once
  <2>4. CASE u = t
    <3>1. Thread(t).pc # "wait"
      BY <1>2
    <3>2. j # None
      BY DEF Jobs, None
    <3> QED
      BY <2>1, <2>2, <2>4, <3>1, <3>2 DEF Once
  <2> QED
    BY <2>3, <2>4
<1>9. \A n \in Nodes : refs'[n] = Cardinality(Counted(n)')
  <2>1. \A x \in Agents : ag'[x].birth = ag[x].birth
                          /\ (ag[x].birth # None => (Left(x)' <=> Left(x)))
    BY <1>5, <1>7 DEF SameOrigin
  <2> QED
    BY <2>1, CountsStay
<1>10. \A u \in Threads : job'[u] \notin todo'[u]
  BY DEF CountInv
<1> QED
  BY <1>6, <1>7, <1>8, <1>9, <1>10 DEF CountInv

(* The steps of who works within B.                                        *)
LEMMA WorkCounts ==
  ASSUME CallInv, CallInv', CountInv, NEW x \in Agents,
         \/ RunBody(x) \/ Count(x) \/ Kill(x) \/ Destruct(x)
         \/ Reguard(x, "ran", "done") \/ Reguard(x, "again", "kill")
  PROVE  CountInv'
<1>1. /\ Alone(x) /\ x[1] \in Threads
      /\ ag[x].pc \in {"body", "count", "ran", "kill", "again", "dtor"}
      /\ ag'[x].pc \in {"ran", "kill", "again", "dtor", "done"}
      /\ ag'[x].at = ag[x].at /\ ag'[x].birth = ag[x].birth /\ ag'[x].migrated = ag[x].migrated
      /\ UNCHANGED <<refs, todo, job>>
  BY WorkFields
<1>2. \A u \in Threads : did'[u] = did[u] \/ did'[u] = 1
  <2>1. did \in [Threads -> {0, 1}] /\ did' \in [Threads -> {0, 1}]
    BY DEF CallInv, TypeOK
  <2>2. CASE did' = [did EXCEPT ![x[1]] = @ + 1]
    BY <2>1, <2>2
  <2>3. CASE UNCHANGED did
    BY <2>3
  <2> QED
    BY <2>2, <2>3 DEF RunBody, Count, Kill, Destruct, Reguard, work
<1>3. Born(x)' /\ (Left(x)' <=> Left(x))
  <2>1. Born(x)
    BY DEF CountInv
  <2> QED
    BY <1>1, <2>1 DEF Born, Left
<1>4. ASSUME NEW y \in Agents \ {x}
      PROVE  Born(y)' /\ (Left(y)' <=> Left(y)) /\ ag'[y].birth = ag[y].birth
  BY <1>1, BornStays DEF CountInv, Alone
<1>5. ASSUME NEW u \in Threads, NEW j \in Jobs PROVE Once(u, j)'
  <2>1. Once(u, j) /\ <<u, j>> \in Agents /\ <<u, "caller">> \in Agents
    BY AgentsOf DEF CountInv
  <2>2. ag'[<<u, j>>].pc # "idle" => ag[<<u, j>>].pc # "idle"
    BY <1>1, <2>1 DEF Alone
  <2>3. Thread(u).pc = "wait" => Thread(u)'.pc = "wait"
    BY <1>1, <2>1 DEF Alone, Thread
  <2> QED
    BY <1>1, <1>2, <2>1, <2>2, <2>3 DEF Once
<1>6. \A n \in Nodes : refs'[n] = Cardinality(Counted(n)')
  <2>1. \A y \in Agents : ag'[y].birth = ag[y].birth
                          /\ (ag[y].birth # None => (Left(y)' <=> Left(y)))
    BY <1>1, <1>3, <1>4
  <2> QED
    BY <1>1, <2>1, CountsStay
<1>7. \A u \in Threads : job'[u] \notin todo'[u]
  BY <1>1 DEF CountInv
<1> QED
  BY <1>3, <1>4, <1>5, <1>6, <1>7 DEF CountInv

LEMMA StartCounts ==
  ASSUME CallInv, CallInv', CountInv, NEW t \in Threads, HandlerStart(t), Usable(rpc[t].to, "B")
  PROVE  CountInv'
<1>1. PICK c : c = <<t, "caller">>
  OBVIOUS
<1>2. PICK h : h = <<t, job[t]>>
  OBVIOUS
<1>3. /\ c \in Agents /\ h \in Agents /\ h # c
      /\ \A y \in Agents \ {c, h} : ag'[y] = ag[y]
      /\ SameOrigin(c) /\ ag[c].pc = "sent" /\ ag'[c].pc = "wait"
      /\ job[t] \in Jobs /\ did[t] = 0 /\ rpc[t].to \in Nodes
      /\ ag'[h].own = "B" /\ ag'[h].at = rpc[t].to /\ ag'[h].birth = rpc[t].to
      /\ ag'[h].pc \in {"body", "count"} /\ ag'[h].migrated = FALSE
      /\ refs' = [refs EXCEPT ![rpc[t].to] = @ + 1]
      /\ todo' = todo /\ job' = job /\ did' = did
  <2>1. c \in Agents /\ h \in Agents /\ h # c
    BY <1>1, <1>2, StartFields
  <2>6. SameOrigin(c) /\ ag[c].pc = "sent" /\ ag'[c].pc = "wait"
    BY <1>1, <1>2, StartFields
  <2>7. job[t] \in Jobs /\ did[t] = 0 /\ rpc[t].to \in Nodes
    BY <1>1, <1>2, StartFields
  <2>5. \A y \in Agents \ {c, h} : ag'[y] = ag[y]
    BY <1>1, <1>2, StartFields
  <2>2. /\ ag'[h].own = "B" /\ ag'[h].at = rpc[t].to /\ ag'[h].birth = rpc[t].to
        /\ ag'[h].pc = (IF job[t] = "run" THEN "body" ELSE "count")
        /\ ag'[h].migrated = FALSE
    BY <1>1, <1>2, StartFields
  <2>3. refs' = [refs EXCEPT ![rpc[t].to] = @ + 1] /\ UNCHANGED work
    BY <1>1, <1>2, StartFields
  <2>4. ag'[h].pc \in {"body", "count"}
    BY <2>2
  <2> QED
    BY <2>1, <2>2, <2>3, <2>4, <2>5, <2>6, <2>7 DEF work
<1>4. c[2] = "caller" /\ h[2] # "caller"
  BY <1>1, <1>2, <1>3 DEF Jobs
<1>5. rpc[t].to # None
  BY <1>3, ConstantsOK
<1>6. Once(t, job[t]) /\ Thread(t) = ag[c] /\ Thread(t)' = ag'[c]
  BY <1>1, <1>3 DEF CountInv, Thread
<1>7. ag[h].pc = "idle"
  BY <1>2, <1>3, <1>6 DEF Once
<1>8. Born(c) /\ Born(h)
  BY <1>3 DEF CountInv
<1>9. ag[c].birth = None /\ ag[h].birth = None
  BY <1>4, <1>7, <1>8 DEF Born
<1>10. Born(c)' /\ Born(h)'
  BY <1>3, <1>4, <1>5, <1>8, <1>9 DEF Born, SameOrigin
<1>11. ASSUME NEW x \in Agents \ {c, h}
       PROVE  Born(x)' /\ (Left(x)' <=> Left(x)) /\ ag'[x].birth = ag[x].birth
  BY <1>3, BornStays DEF CountInv
<1>12. ASSUME NEW u \in Threads, NEW j \in Jobs PROVE Once(u, j)'
  <2>1. Once(u, j) /\ <<u, j>> \in Agents /\ <<u, j>> # c
    BY <1>1, AgentIs, AgentsOf DEF CountInv
  <2>2. CASE u # t
    <3>1. ag'[<<u, j>>] = ag[<<u, j>>]
      BY <1>2, <1>3, <2>1, <2>2
    <3>2. <<u, "caller">> \in Agents \ {c, h}
      BY <1>1, <1>2, <2>2, AgentsOf
    <3>3. Thread(u)' = Thread(u)
      BY <1>3, <3>2 DEF Thread
    <3> QED
      BY <1>3, <2>1, <3>1, <3>3 DEF Once
  <2>3. CASE u = t /\ j # job[t]
    <3>1. ag'[<<u, j>>] = ag[<<u, j>>]
      BY <1>2, <1>3, <2>1, <2>3
    <3> QED
      BY <1>3, <2>1, <2>3, <3>1 DEF Once
  <2>4. CASE u = t /\ j = job[t]
    <3>1. j \notin todo[t]
      BY <2>4 DEF CountInv
    <3> QED
      BY <1>3, <1>6, <2>4, <3>1 DEF Once
  <2> QED
    BY <2>2, <2>3, <2>4
<1>13. \A n \in Nodes : refs'[n] = Cardinality(Counted(n)')
  <2>1. ~Left(h)'
    BY <1>3 DEF Left
  <2>2. \A y \in Agents \ {h} : ag'[y].birth = ag[y].birth
                                /\ (ag[y].birth # None => (Left(y)' <=> Left(y)))
    BY <1>3, <1>9, <1>11 DEF SameOrigin
  <2> QED
    BY <1>3, <1>9, <2>1, <2>2, CountsMore
<1>14. \A u \in Threads : job'[u] \notin todo'[u]
  BY <1>3 DEF CountInv
<1> QED
  BY <1>10, <1>11, <1>12, <1>13, <1>14 DEF CountInv

(* Who answers after a migration is counted out by that, ...               *)
LEMMA RespondCounts ==
  ASSUME CallInv, CallInv', CountInv, NEW x \in Agents, Respond(x)
  PROVE  CountInv'
<1>1. PICK c : c = <<x[1], "caller">>
  OBVIOUS
<1>2. /\ c \in Agents /\ x # c /\ x[1] \in Threads
      /\ \A y \in Agents \ {c, x} : ag'[y] = ag[y]
      /\ SameOrigin(c) /\ ag[c].pc = "wait" /\ ag'[c].pc = "answered"
      /\ ag'[c].at = ag[c].at
      /\ SameOrigin(x) /\ ag[x].pc = "done" /\ ag'[x].pc = "end"
      /\ ag'[x].at = ag[x].at /\ did[x[1]] = 1 /\ ag[x].birth \in Places
  BY <1>1, RespondFields
<1>3. /\ refs' = IF ag[x].migrated THEN [refs EXCEPT ![ag[x].birth] = @ - 1] ELSE refs
      /\ todo' = todo /\ job' = job /\ did' = did
  BY <1>1, RespondFields DEF work
<1>4. c[2] = "caller" /\ x[2] # "caller"
  BY <1>1 DEF Respond
<1>5. Born(c) /\ Born(x)
  BY <1>2 DEF CountInv
<1>6. ag[c].birth = None /\ ag[x].birth # None
  BY <1>2, <1>4, <1>5 DEF Born
<1>7. Born(c)' /\ Born(x)'
  BY <1>2, <1>4, <1>5, <1>6 DEF Born, SameOrigin
<1>8. ASSUME NEW y \in Agents \ {c, x}
      PROVE  Born(y)' /\ (Left(y)' <=> Left(y)) /\ ag'[y].birth = ag[y].birth
  BY <1>2, BornStays DEF CountInv
<1>9. ASSUME NEW u \in Threads, NEW j \in Jobs PROVE Once(u, j)'
  <2>1. Once(u, j) /\ <<u, j>> \in Agents /\ <<u, "caller">> \in Agents /\ <<u, j>> # c
    BY <1>1, <1>2, AgentIs, AgentsOf DEF CountInv
  <2>2. ag'[<<u, j>>].pc # "idle" => ag[<<u, j>>].pc # "idle"
    BY <1>2, <2>1
  <2>3. CASE u # x[1]
    <3>1. <<u, "caller">> \notin {c, x}
      BY <1>1, <1>4, <2>3
    <3>2. Thread(u)' = Thread(u)
      BY <1>2, <2>1, <3>1 DEF Thread
    <3> QED
      BY <1>3, <2>1, <2>2, <3>2 DEF Once
  <2>4. CASE u = x[1]
    BY <1>2, <1>3, <2>1, <2>2, <2>4 DEF Once
  <2> QED
    BY <2>3, <2>4
<1>10. \A n \in Nodes : refs'[n] = Cardinality(Counted(n)')
  <2>1. CASE ag[x].migrated
    <3>1. ag[x].birth \in Nodes
      BY <1>2, <1>6 DEF Places
    <3>2. ~Left(x) /\ Left(x)' /\ ag'[x].birth = ag[x].birth
      BY <1>2, <2>1 DEF Left, SameOrigin
    <3>3. \A y \in Agents \ {x} : ag'[y].birth = ag[y].birth
                                  /\ (ag[y].birth # None => (Left(y)' <=> Left(y)))
      BY <1>2, <1>6, <1>8 DEF SameOrigin
    <3>4. refs' = [refs EXCEPT ![ag[x].birth] = @ - 1]
      BY <1>3, <2>1
    <3> QED
      BY <3>1, <3>2, <3>3, <3>4, CountsLess
  <2>2. CASE ~ag[x].migrated
    <3>1. \A y \in Agents : ag'[y].birth = ag[y].birth
                            /\ (ag[y].birth # None => (Left(y)' <=> Left(y)))
      BY <1>2, <1>6, <1>8, <2>2 DEF SameOrigin, Left
    <3>2. UNCHANGED refs
      BY <1>3, <2>2
    <3> QED
      BY <3>1, <3>2, CountsStay
  <2> QED
    BY <2>1, <2>2
<1>11. \A u \in Threads : job'[u] \notin todo'[u]
  BY <1>3 DEF CountInv
<1> QED
  BY <1>7, <1>8, <1>9, <1>10, <1>11 DEF CountInv

(* ... and who does not, when it ends.                                     *)
LEMMA EndCounts ==
  ASSUME CallInv, CallInv', CountInv, NEW x \in Agents, End(x) \/ Cleanup(x)
  PROVE  CountInv'
<1>1. /\ Alone(x) /\ ag[x].at # None /\ ag'[x].own = None
      /\ \/ /\ ag[x].pc = "end" /\ ag'[x].pc = "sync"
            /\ ag'[x].at = ag[x].at /\ SameOrigin(x) /\ ~ag[x].migrated /\ refs' = refs
         \/ /\ ag[x].pc \in {"end", "sync"} /\ ag'[x].pc = "idle"
            /\ ag'[x].birth = None /\ ag'[x].at = None
            /\ ag'[x].migrated \in {ag[x].migrated, FALSE}
            /\ \/ ag[x].migrated /\ ag[x].pc = "end" /\ refs' = refs
               \/ /\ ag[x].migrated => ag[x].pc = "sync"
                  /\ refs' = [refs EXCEPT ![ag[x].at] = @ - 1]
      /\ todo' = todo /\ job' = job /\ did' = did
  <2>1. Alone(x) /\ ag[x].at # None /\ ag'[x].own = None /\ UNCHANGED work
        /\ ag'[x].migrated \in {ag[x].migrated, FALSE}
    BY EndFields
  <2>2. \/ /\ ag[x].pc = "end" /\ ag'[x].pc = "sync"
           /\ ag'[x].at = ag[x].at /\ SameOrigin(x) /\ ~ag[x].migrated /\ refs' = refs
        \/ /\ ag[x].pc = "end" /\ ag'[x].pc = "idle"
           /\ ag'[x].birth = None /\ ag'[x].at = None
           /\ refs' = IF ag[x].migrated THEN refs ELSE [refs EXCEPT ![ag[x].at] = @ - 1]
        \/ /\ ag[x].pc = "sync" /\ ag'[x].pc = "idle"
           /\ ag'[x].birth = None /\ ag'[x].at = None
           /\ refs' = [refs EXCEPT ![ag[x].at] = @ - 1]
    BY EndFields
  <2> QED
    BY <2>1, <2>2 DEF work
<1>2. Born(x) /\ x[1] \in Threads
  BY AgentIs DEF CountInv
<1>3. x[2] # "caller"
  <2>1. CASE x[2] = "caller"
    <3>1. CallerPhase(x[1]) /\ x = <<x[1], "caller">>
      BY <1>2, <2>1, AgentIs DEF CallInv, Jobs
    <3> QED
      BY <1>1, <3>1 DEF CallerPhase, Thread
  <2> QED
    BY <2>1
<1>4. ag[x].birth # None /\ ag[x].birth \in Places /\ ag[x].at \in Places
  <2>1. ag[x] \in AgentRec
    BY WorkerKnown
  <2> QED
    BY <1>1, <1>2, <1>3, <2>1 DEF Born, AgentRec
<1>5. Born(x)'
  BY <1>1, <1>2, <1>3 DEF Born, SameOrigin
<1>6. ASSUME NEW y \in Agents \ {x}
      PROVE  Born(y)' /\ (Left(y)' <=> Left(y)) /\ ag'[y].birth = ag[y].birth
  BY <1>1, BornStays DEF CountInv, Alone
<1>7. ASSUME NEW u \in Threads, NEW j \in Jobs PROVE Once(u, j)'
  <2>1. Once(u, j) /\ <<u, j>> \in Agents /\ <<u, "caller">> \in Agents \ {x}
    BY <1>3, AgentsOf DEF CountInv
  <2>2. Thread(u)' = Thread(u)
    BY <1>1, <2>1 DEF Thread, Alone
  <2>3. ag'[<<u, j>>].pc # "idle" => ag[<<u, j>>].pc # "idle"
    BY <1>1, <2>1 DEF Alone
  <2> QED
    BY <1>1, <2>1, <2>2, <2>3 DEF Once
<1>8. \A n \in Nodes : refs'[n] = Cardinality(Counted(n)')
  <2>1. CASE ag'[x].pc = "sync"
    <3>1. \A y \in Agents : ag'[y].birth = ag[y].birth
                            /\ (ag[y].birth # None => (Left(y)' <=> Left(y)))
      BY <1>1, <1>6, <2>1 DEF SameOrigin, Left
    <3> QED
      BY <1>1, <2>1, <3>1, CountsStay
  <2>2. CASE ag'[x].birth = None /\ ag[x].migrated /\ ag[x].pc = "end" /\ refs' = refs
    <3> TAKE n \in Nodes
    <3>1. n # None
      BY ConstantsOK
    <3>2. Counted(n)' = Counted(n)
      BY <1>6, <2>2, <3>1 DEF Counted, Left
    <3> QED
      BY <2>2, <3>2 DEF CountInv
  <2>3. CASE /\ ag'[x].birth = None
             /\ ag[x].migrated => ag[x].pc = "sync"
             /\ refs' = [refs EXCEPT ![ag[x].at] = @ - 1]
    <3>1. ~ag[x].migrated /\ ag[x].at = ag[x].birth /\ ag[x].birth \in Nodes
      BY <1>1, <1>2, <1>4, <2>3 DEF Born, Places
    <3>2. ~Left(x)
      BY <3>1 DEF Left
    <3>3. refs' = [refs EXCEPT ![ag[x].birth] = @ - 1]
      BY <2>3, <3>1
    <3>4. \A y \in Agents \ {x} : ag'[y].birth = ag[y].birth
                                  /\ (ag[y].birth # None => (Left(y)' <=> Left(y)))
      BY <1>6
    <3> QED
      BY <2>3, <3>1, <3>2, <3>3, <3>4, CountsLess
  <2> QED
    BY <1>1, <2>1, <2>2, <2>3
<1>9. \A u \in Threads : job'[u] \notin todo'[u]
  BY <1>1 DEF CountInv
<1> QED
  BY <1>5, <1>6, <1>7, <1>8, <1>9 DEF CountInv

(* Threads move with their proclet, and those that have left are marked.   *)
LEMMA MoveCounts ==
  ASSUME CallInv, CallInv', CountInv, Leave \/ LoadThreads
  PROVE  CountInv'
<1>1. UNCHANGED <<refs, todo, job, did>>
  BY DEF Leave, LoadThreads, work
<1>2. ASSUME NEW x \in Agents
      PROVE  /\ ag'[x].pc = ag[x].pc /\ ag'[x].birth = ag[x].birth
             /\ Born(x)' /\ (Left(x)' <=> Left(x))
  <2>1. Born(x) /\ Settled(x)
    BY DEF CountInv, CallInv
  <2>2. CASE Leave
    <3>1. /\ ag'[x].pc = ag[x].pc /\ ag'[x].own = ag[x].own /\ SameOrigin(x)
          /\ ag'[x].at = (IF Passengers(x) THEN None ELSE ag[x].at)
      BY <2>2, LeaveFields
    <3> QED
      BY <2>1, <3>1 DEF Born, Left, SameOrigin
  <2>3. CASE LoadThreads
    <3>1. /\ ag'[x].pc = ag[x].pc /\ ag'[x].own = ag[x].own /\ ag'[x].birth = ag[x].birth
          /\ \/ ag[x].at = None /\ ag'[x].migrated = (ag[x].birth # None)
             \/ ag'[x].at = ag[x].at /\ ag'[x].migrated = ag[x].migrated
      BY <2>3, LoadFields
    <3> QED
      BY <2>1, <3>1 DEF Born, Left, Settled
  <2> QED
    BY <2>2, <2>3
<1>3. ASSUME NEW u \in Threads, NEW j \in Jobs PROVE Once(u, j)'
  <2>1. Once(u, j) /\ <<u, j>> \in Agents /\ <<u, "caller">> \in Agents
    BY AgentsOf DEF CountInv
  <2>2. Thread(u)'.pc = Thread(u).pc /\ ag'[<<u, j>>].pc = ag[<<u, j>>].pc
    BY <1>2, <2>1 DEF Thread
  <2> QED
    BY <1>1, <2>1, <2>2 DEF Once
<1>4. \A n \in Nodes : refs'[n] = Cardinality(Counted(n)')
  BY <1>1, <1>2, CountsStay
<1>5. \A u \in Threads : job'[u] \notin todo'[u]
  BY <1>1 DEF CountInv
<1> QED
  BY <1>2, <1>3, <1>4, <1>5 DEF CountInv

LEMMA RestCounts ==
  ASSUME CountInv, UNCHANGED <<ag, refs, todo, job, did>>
  PROVE  CountInv'
<1>1. \A n : Counted(n)' = Counted(n)
  BY DEF Counted
<1>2. \A x \in Agents : Born(x)'
  BY DEF CountInv, Born
<1>3. \A t \in Threads, j \in Jobs : Once(t, j)'
  BY DEF CountInv, Once, Thread
<1> QED
  BY <1>1, <1>2, <1>3 DEF CountInv

LEMMA CallCounts ==
  ASSUME CallInv, CallInv', CountInv, NEW t \in Threads, NEW j \in Jobs, Call(t, j)
  PROVE  CountInv'
<1>1. PICK c : c = <<t, "caller">>
  OBVIOUS
<1>2. /\ c \in Agents /\ Alone(c) /\ SameOrigin(c) /\ Thread(t).pc = "run"
      /\ ag'[c].pc # "run" /\ j \in todo[t]
      /\ todo' = [todo EXCEPT ![t] = @ \ {j}] /\ job' = [job EXCEPT ![t] = j]
      /\ UNCHANGED <<refs, did>>
  <2>1. /\ c \in Agents /\ Alone(c) /\ SameOrigin(c) /\ Thread(t).pc = "run"
        /\ \/ ag'[c].pc = (IF j = "run" THEN "body" ELSE "count")
           \/ ag'[c].pc = "look"
    BY <1>1, CallFields
  <2>2. /\ j \in todo[t] /\ todo' = [todo EXCEPT ![t] = @ \ {j}] /\ job' = [job EXCEPT ![t] = j]
        /\ UNCHANGED <<refs, did>>
    BY <1>1, CallFields
  <2> QED
    BY <2>1, <2>2
<1>3. ag[c].pc # "wait"
  BY <1>1, <1>2 DEF Thread
<1>4. /\ \A u \in Threads \ {t} : todo'[u] = todo[u] /\ job'[u] = job[u] /\ did'[u] = did[u]
      /\ todo'[t] = todo[t] \ {j} /\ job'[t] = j
  BY <1>2 DEF CallInv, TypeOK
<1> QED
  BY <1>1, <1>2, <1>3, <1>4, CallerCounts

LEMMA LookCounts ==
  ASSUME CallInv, CallInv', CountInv, NEW t \in Threads,
         \/ LookCached(t) \/ Resolve(t) \/ Store(t) \/ WrongClient(t)
         \/ HandlerStart(t) /\ ~Usable(rpc[t].to, "B")
         \/ LoadThread(t) /\ ~Usable(rpc[t].to, "A")
  PROVE  CountInv'
<1>1. PICK c : c = <<t, "caller">>
  OBVIOUS
<1>2. /\ c \in Agents /\ Alone(c) /\ SameOrigin(c) /\ Asking(Thread(t).pc)
      /\ Asking(ag'[c].pc) /\ UNCHANGED <<refs, work>>
  BY <1>1, LookFields
<1>3. ag[c].pc # "wait" /\ ag'[c].pc # "run"
  BY <1>1, <1>2 DEF Thread, Asking
<1>4. UNCHANGED <<refs, todo, job, did>> /\ job[t] \notin todo[t]
  BY <1>2 DEF work, CountInv
<1> QED
  BY <1>1, <1>2, <1>3, <1>4, CallerCounts

LEMMA ReturnCounts ==
  ASSUME CallInv, CallInv', CountInv, NEW t \in Threads,
         Back(t) \/ (LoadThread(t) /\ Usable(rpc[t].to, "A"))
  PROVE  CountInv'
<1>1. PICK c : c = <<t, "caller">>
  OBVIOUS
<1>2. /\ c \in Agents /\ Alone(c) /\ SameOrigin(c)
      /\ Thread(t).pc \in {"answered", "done", "sent"}
      /\ \/ ag'[c].own = "A" /\ ag'[c].pc = "run" /\ Finish(t)
         \/ ag'[c].pc = "look" /\ UNCHANGED work
      /\ UNCHANGED refs
  BY <1>1, ReturnFields
<1>3. ag[c].pc # "wait" /\ (ag'[c].pc = "run" => ag'[c].own = "A")
  BY <1>1, <1>2 DEF Thread
<1>4. /\ \A u \in Threads \ {t} : todo'[u] = todo[u] /\ job'[u] = job[u] /\ did'[u] = did[u]
      /\ todo'[t] \subseteq todo[t] /\ job'[t] \notin todo'[t]
      /\ job'[t] = None \/ (job'[t] = job[t] /\ did'[t] = did[t])
  <2>1. CASE Finish(t)
    BY <2>1 DEF Finish, CallInv, TypeOK, Jobs, None
  <2>2. CASE UNCHANGED work
    BY <2>2 DEF work, CountInv
  <2> QED
    BY <1>2, <2>1, <2>2
<1> QED
  BY <1>1, <1>2, <1>3, <1>4, CallerCounts

LEMMA StepCountInv ==
  ASSUME CallInv, CountInv, [Next]_vars
  PROVE  CountInv'
<1>1. CallInv'
  BY StepCallInv
<1>2. ASSUME NEW t \in Threads,
             \/ HandlerStart(t) \/ LoadThread(t) \/ CallerStep(t) \/ \E j \in Jobs : Call(t, j)
      PROVE  CountInv'
  <2>1. CASE HandlerStart(t) /\ Usable(rpc[t].to, "B")
    BY <2>1, <1>1, StartCounts
  <2>2. CASE \/ LookCached(t) \/ Resolve(t) \/ Store(t) \/ WrongClient(t)
             \/ HandlerStart(t) /\ ~Usable(rpc[t].to, "B")
             \/ LoadThread(t) /\ ~Usable(rpc[t].to, "A")
    BY <2>2, <1>1, LookCounts
  <2>3. CASE Back(t) \/ (LoadThread(t) /\ Usable(rpc[t].to, "A"))
    BY <2>3, <1>1, ReturnCounts
  <2>4. CASE \E j \in Jobs : Call(t, j)
    BY <2>4, <1>1, CallCounts
  <2> QED
    BY <1>2, <2>1, <2>2, <2>3, <2>4 DEF CallerStep
<1>3. ASSUME NEW x \in Agents, InnerStep(x)
      PROVE  CountInv'
  <2>1. CASE Respond(x)
    BY <2>1, <1>1, RespondCounts
  <2>2. CASE End(x) \/ Cleanup(x)
    BY <2>2, <1>1, EndCounts
  <2>3. CASE \/ RunBody(x) \/ Count(x) \/ Kill(x) \/ Destruct(x)
             \/ Reguard(x, "ran", "done") \/ Reguard(x, "again", "kill")
    BY <2>3, <1>1, WorkCounts
  <2> QED
    BY <1>3, <2>1, <2>2, <2>3 DEF InnerStep
<1>4. CASE Leave \/ LoadThreads
  BY <1>4, <1>1, MoveCounts
<1>5. ASSUME \/ Arrive \/ UNCHANGED vars
             \/ \E p \in Proclets : UpdateLocation(p)
             \/ \E p \in Proclets, n, d \in Nodes : Mark(p, n, d)
      PROVE  CountInv'
  <2>1. UNCHANGED <<ag, refs, todo, job, did>>
    BY <1>5 DEF Arrive, UpdateLocation, Mark, vars, work
  <2> QED
    BY <2>1, RestCounts
<1> QED
  BY <1>2, <1>3, <1>4, <1>5 DEF Next, MigrationStep, Terminated

(* The server of a node lives as long as somebody there waits for an       *)
(* answer of it, also when the handler has moved away with B and another   *)
(* node forwards its result; and no handler is counted for ever            *)
(* (ProcletServer::ref_cnt_, forward_to_client).                           *)
THEOREM ReturnersAreKept == Spec => []ReturnerKept
<1>1. CallInv /\ [Next]_vars => CallInv'
  BY StepCallInv
<1>2. CallInv /\ CountInv /\ [Next]_vars => CountInv'
  BY StepCountInv
<1>3. CountInv => ReturnerKept
  BY DEF CountInv, ReturnerKept, Counted
<1> QED
  BY <1>1, <1>2, <1>3, InitCallInv, InitCounts, PTL DEF Spec

---------------------------------------------------------------------------
(* Where the proclets are, and their threads.                              *)

LEMMA GoneStays ==
  ASSUME UNCHANGED <<status, mig>>
  PROVE  (Gone' <=> Gone) /\ \A p \in Proclets : (Moving(p)' <=> Moving(p))
BY DEF Gone, Moving

(* While a drop is owed, B is not destroyed.                               *)
LEMMA OwingKeeps ==
  ASSUME PlaceInv, NEW t \in Threads, Owing(t)
  PROVE  ref_cnt # 0 /\ ~Gone /\ Killers = {}
<1> DEFINE O == {u \in Threads : Owing(u)}
<1>1. IsFiniteSet(O)
  BY FS_Subset, ConstantsOK
<1>2. O # {}
  OBVIOUS
<1>3. Cardinality(O) # 0
  BY <1>1, <1>2, FS_EmptySet
<1>4. ref_cnt = Cardinality(O)
  BY DEF PlaceInv, Drops
<1> HIDE DEF O
<1>5. ref_cnt # 0
  BY <1>3, <1>4
<1>6. (Gone => ref_cnt = 0) /\ \A x \in Killers : ref_cnt = 0
  BY DEF PlaceInv, Drops
<1> QED
  BY <1>5, <1>6

(* Who runs a method or is to drop owes a drop, then or later.             *)
LEMMA WorkersOwe ==
  ASSUME PlaceInv, NEW x \in Agents, ag[x].pc \in {"body", "ran", "count"}
  PROVE  Owing(x[1]) /\ x[1] \in Threads
<1>1. NotYet(ag[x].pc) \/ Already(ag[x].pc)
  BY DEF NotYet, Already
<1>2. JobOf(x) = job[x[1]] /\ x[1] \in Threads
  BY <1>1, JobIs DEF PlaceInv
<1>3. CASE ag[x].pc = "count"
  <2>1. did[x[1]] = 0
    BY <1>3, WorkerKnown DEF PlaceInv, NotYet
  <2> QED
    BY <1>2, <1>3, <2>1 DEF PlaceInv, Drops, Owing
<1>4. CASE ag[x].pc \in {"body", "ran"}
  BY <1>2, <1>4 DEF PlaceInv, Drops, Owing
<1> QED
  BY <1>2, <1>3, <1>4

(* What somebody within B can be at.                                       *)
LEMMA WithinB ==
  ASSUME PlaceInv, NEW x \in In("B")
  PROVE  /\ x \in Agents
         /\ ag[x].pc \in {"body", "ran", "count", "kill", "again", "dtor", "done", "end"}
<1>1. x \in Agents /\ ag[x].own = "B"
  BY DEF In
<1>2. ag[x] \in AgentRec /\ Settled(x) /\ Born(x)
  BY <1>1, WorkerKnown DEF PlaceInv, CountInv
<1> QED
  BY <1>1, <1>2, ConstantsOK DEF AgentRec, AgentPcs, Settled, Born, Asking, None

(* Once the last reference is dropped, who does not hold a guard of B is   *)
(* the one that destroys it.                                               *)
LEMMA LastOnes ==
  ASSUME PlaceInv, NEW x \in In("B"), ref_cnt = 0
  PROVE  x \in Killers \/ (ag[x].guard = "B" /\ ag[x].at # None)
<1>1. x \in Agents /\ ag[x].pc \in {"body", "ran", "count", "kill", "again", "dtor", "done", "end"}
  BY WithinB
<1>2. ag[x].pc \notin {"body", "ran", "count"}
  BY <1>1, WorkersOwe, OwingKeeps
<1>3. Settled(x)
  BY <1>1 DEF PlaceInv, CallInv
<1> QED
  BY <1>1, <1>2, <1>3 DEF Settled, Killers

(* Who stands in a proclet that is somewhere stands there.                 *)
LEMMA StandsThere ==
  ASSUME PlaceInv, NEW p \in Proclets, NEW x \in In(p), NEW n \in Nodes,
         status[n][p] # "absent", ag[x].at # None
  PROVE  ag[x].at = n
<1>1. Stand(x, p) /\ x \in Agents
  BY DEF PlaceInv, Stands, In
<1>2. ag[x].at \in Nodes
  BY <1>1, WorkerKnown DEF PlaceInv, AgentRec, Places
<1>3. ~(p = "B" /\ Gone)
  BY DEF Gone
<1>4. status[ag[x].at][p] # "absent"
  BY <1>1, <1>3 DEF Stand
<1> QED
  BY <1>2, <1>4 DEF PlaceInv, Moves

(* At first every caller is in A, and has a reference.                     *)
LEMMA InitPlaces == Init => Moves /\ Drops /\ Stands /\ Listed
<1> SUFFICES ASSUME Init PROVE Moves /\ Drops /\ Stands /\ Listed
  OBVIOUS
<1>1. PICK b \in Nodes :
        /\ ctl = [p \in Proclets |-> IF p = "A" THEN Home ELSE b]
        /\ status = [n \in Nodes |-> [p \in Proclets |-> IF ctl[p] = n THEN "present" ELSE "absent"]]
        /\ ag = [x \in Agents |-> IF x[2] = "caller"
                              THEN [Idle EXCEPT !.pc = "run", !.at = Home, !.own = "A"] ELSE Idle]
  BY DEF Init
<1>2. "A" \in Proclets /\ "B" \in Proclets /\ Home \in Nodes /\ b # None /\ Home # None
  BY ConstantsOK DEF Proclets
<1>3. \A n \in Nodes, p \in Proclets : status[n][p] = (IF ctl[p] = n THEN "present" ELSE "absent")
  BY <1>1
<1>4. ctl["A"] = Home /\ ctl["B"] = b
  BY <1>1, <1>2
<1>5. ASSUME NEW x \in Agents
      PROVE  /\ ag[x].destructed = FALSE
             /\ \/ /\ x[2] = "caller" /\ ag[x].pc = "run" /\ ag[x].own = "A" /\ ag[x].at = Home
                \/ ag[x].pc = "idle" /\ ag[x].own = None
  BY <1>1 DEF Idle
<1>6. ~Gone
  BY <1>1, <1>2, <1>3, <1>4 DEF Gone
<1>7. Moves
  <2>1. mig.pc = "idle"
    BY DEF Init
  <2>2. \A n \in Nodes, p \in Proclets :
          /\ status[n][p] \in {"present", "absent"}
          /\ status[n][p] # "absent" => n = ctl[p]
    BY <1>3
  <2>3. \A n \in Nodes : status[n]["A"] # "destructing"
    BY <1>2, <2>2
  <2>4. \A n \in Nodes, p \in Proclets : status[n][p] # "migrating"
    BY <2>2
  <2> QED
    BY <2>1, <2>2, <2>3, <2>4 DEF Moves, Moving
<1>8. Drops
  <2>1. \A x \in Agents : ag[x].pc \in {"idle", "run"}
    BY <1>5
  <2>2. {t \in Threads : Owing(t)} = Threads
    BY DEF Owing, Init, Jobs
  <2>3. ref_cnt = Cardinality({t \in Threads : Owing(t)})
    BY <2>2 DEF Init
  <2>4. \A t \in Threads : job[t] = None /\ "drop" \in todo[t]
    BY DEF Init, Jobs
  <2> QED
    BY <1>6, <2>1, <2>3, <2>4 DEF Drops, Killers, None
<1>9. Stands
  <2>1. ASSUME NEW p \in Proclets, NEW x \in In(p) PROVE Stand(x, p)
    <3>1. p = "A" /\ x[2] = "caller" /\ ag[x].pc = "run" /\ ag[x].at = Home
      BY <1>5 DEF In, Proclets, None
    <3> QED
      BY <3>1, <1>2, <1>3, <1>4 DEF Stand
  <2> QED
    BY <1>5, <2>1 DEF Stands
<1>10. Listed
  BY <1>2, <1>4 DEF Listed
<1> QED
  BY <1>7, <1>8, <1>9, <1>10

(* No proclet is moved.                                                    *)
LEMMA MovesKept ==
  ASSUME Moves, UNCHANGED <<status, mig>>
  PROVE  Moves'
BY DEF Moves, Moving, Gone

(* Nobody drops a reference, and B does not disappear.                     *)
LEMMA DropsKept ==
  ASSUME Drops, UNCHANGED ref_cnt, Gone' <=> Gone,
         \A t \in Threads :
           /\ Owing(t)' <=> Owing(t)
           /\ job'[t] = "run" => "drop" \in todo'[t]
           /\ job'[t] = "drop" => todo'[t] = {}
           /\ todo'[t] # {} => "drop" \in todo'[t],
         \A x \in Agents :
           /\ ag'[x].pc \in {"body", "ran"} => JobOf(x)' = "run"
           /\ ag'[x].pc \in {"count", "kill", "again", "dtor"} => JobOf(x)' = "drop"
           /\ ag'[x].pc \in {"kill", "again", "dtor"} => ag[x].pc \in {"kill", "again", "dtor"}
  PROVE  Drops'
<1>1. Killers' \subseteq Killers
  BY DEF Killers
<1>2. {t \in Threads : Owing(t)'} = {t \in Threads : Owing(t)}
  OBVIOUS
<1>3. ref_cnt' = Cardinality({t \in Threads : Owing(t)'})
  BY <1>2 DEF Drops
<1>4. \A x \in Killers' : ref_cnt' = 0 /\ ~Gone' /\ \A y \in Killers' : y = x
  BY <1>1 DEF Drops
<1> QED
  BY <1>3, <1>4 DEF Drops

(* How an agent goes while no proclet moves or disappears: it stays where  *)
(* it is, or comes to where a proclet is, or leaves the proclets.          *)
Goes(x) ==
  \/ /\ ag'[x].own = ag[x].own /\ ag'[x].at = ag[x].at
     /\ ag'[x].destructed = ag[x].destructed
     /\ ag'[x].pc = "sync" => ag[x].pc = "sync"
     /\ ag[x].pc = "run" => ag'[x].pc = "run"
  \/ /\ ag'[x].own = "B" /\ Usable(ag'[x].at, "B") /\ ag'[x].at \in Nodes
     /\ ag'[x].pc \in {"body", "count"}
     /\ ag'[x].destructed => ag[x].destructed
  \/ /\ ag'[x].own = None /\ ag'[x].pc \notin {"dtor", "sync"}
     /\ ag'[x].destructed => ag[x].destructed
  \/ /\ ag'[x].own = "A" /\ Usable(ag'[x].at, "A") /\ ag'[x].at \in Nodes
     /\ x[2] = "caller" /\ ag'[x].pc = "run"
     /\ ag'[x].destructed => ag[x].destructed
  \/ /\ ag[x].own = "B" /\ ag'[x].own = None /\ ag'[x].at = ag[x].at /\ ag'[x].pc = "sync"
     /\ ag[x].destructed /\ ag'[x].destructed

LEMMA StandsKept ==
  ASSUME PlaceInv, \A x \in Agents : Goes(x), Gone' <=> Gone,
         \A n \in Nodes, p \in Proclets : status[n][p] # "absent" => status'[n][p] # "absent",
         \A p \in Proclets : mig.p = p /\ mig.pc \in {"moving", "arrived"} =>
                             mig'.p = p /\ mig'.pc \in {"moving", "arrived"},
         \A x \in Agents : ag'[x].pc = "dtor" =>
                             ag'[x].at # None /\ status'[ag'[x].at]["B"] = "destructing"
  PROVE  Stands'
<1>1. "A" \in Proclets /\ "B" \in Proclets
  BY DEF Proclets
<1>2. \A x \in Agents : Goes(x) /\ Born(x) /\ ag[x].at \in Places
  BY WorkerKnown DEF PlaceInv, CountInv, AgentRec
<1>3. ASSUME NEW p \in Proclets, NEW x \in Agents, ag'[x].own = p PROVE Stand(x, p)'
  <2>1. CASE x \in In(p) /\ ag'[x].at = ag[x].at /\ (ag[x].pc = "run" => ag'[x].pc = "run")
    <3>1. Stand(x, p)
      BY <2>1 DEF PlaceInv, Stands
    <3> QED
      BY <1>2, <2>1, <3>1 DEF Stand, Places
  <2>2. CASE /\ ag'[x].own = "B" /\ Usable(ag'[x].at, "B") /\ ag'[x].at \in Nodes
    <3>1. status[ag'[x].at]["B"] # "absent" /\ ag'[x].at # None
      BY <2>2 DEF Usable
    <3>2. ~Gone /\ p = "B"
      BY <1>3, <2>2, <3>1 DEF Gone
    <3> QED
      BY <1>1, <2>2, <3>1, <3>2 DEF Stand
  <2>3. CASE /\ ag'[x].own = "A" /\ Usable(ag'[x].at, "A") /\ ag'[x].at \in Nodes
             /\ x[2] = "caller" /\ ag'[x].pc = "run"
    <3>1. status[ag'[x].at]["A"] # "absent" /\ ag'[x].at # None /\ p = "A"
      BY <1>3, <2>3 DEF Usable
    <3> QED
      BY <1>1, <2>3, <3>1 DEF Stand
  <2> QED
    BY <1>2, <1>3, <2>1, <2>2, <2>3, ConstantsOK DEF Goes, In, Proclets, None
<1>4. Gone => \A x \in Agents : ~Usable(ag'[x].at, "B") \/ ag'[x].at \notin Nodes
  BY DEF Gone, Usable
<1>5. ASSUME NEW x \in Agents
      PROVE  /\ ag'[x].pc = "sync" => ag'[x].destructed
             /\ ag'[x].destructed => Gone'
  BY <1>2 DEF PlaceInv, Stands, Goes
<1>6. ASSUME NEW x \in Agents, ag'[x].destructed, ag'[x].own = "B" \/ ag'[x].pc = "sync",
             NEW y \in Agents, ag'[y].own = "B"
      PROVE  ag'[y].at = ag'[x].at
  <2>1. Gone
    BY <1>5, <1>6
  <2>2. ag[y].own = "B" /\ ag'[y].at = ag[y].at
    BY <1>2, <1>4, <1>6, <2>1 DEF Goes, None
  <2>3. ag[x].destructed /\ (ag[x].own = "B" \/ ag[x].pc = "sync") /\ ag'[x].at = ag[x].at
    BY <1>2, <1>4, <1>6, <2>1 DEF Goes, None
  <2> QED
    BY <2>2, <2>3 DEF PlaceInv, Stands, In
<1> QED
  BY <1>3, <1>5, <1>6 DEF Stands, In

LEMMA ListedKept ==
  ASSUME Listed, UNCHANGED ctl, Gone => Gone', \A x \in Agents : Goes(x)
  PROVE  Listed'
<1>1. CASE ctl["B"] # None
  BY <1>1 DEF Listed
<1>2. CASE ctl["B"] = None
  <2>1. Gone
    BY <1>2 DEF Listed
  <2>2. \A x \in Agents : ~Usable(ag'[x].at, "B") \/ ag'[x].at \notin Nodes
    BY <2>1 DEF Gone, Usable
  <2>3. ASSUME NEW x \in Agents, ag'[x].own = "B" PROVE ag'[x].destructed
    BY <1>2, <2>2, <2>3 DEF Goes, Listed, In, None
  <2> QED
    BY <2>1, <2>3 DEF Listed, In
<1> QED
  BY <1>1, <1>2

(* Only agents move.                                                       *)
LEMMA AgentsMove ==
  ASSUME PlaceInv, UNCHANGED <<status, mig, ctl>>, \A x \in Agents : Goes(x),
         \A x \in Agents : ag'[x].pc = "dtor" => ag[x].pc = "dtor" /\ ag'[x].at = ag[x].at
  PROVE  Moves' /\ Stands' /\ Listed'
<1>1. Moves'
  BY MovesKept DEF PlaceInv
<1>2. Gone' <=> Gone
  BY GoneStays
<1>3. \A x \in Agents : ag'[x].pc = "dtor" =>
                          ag'[x].at # None /\ status'[ag'[x].at]["B"] = "destructing"
  BY DEF PlaceInv, Stands
<1>4. Stands'
  BY <1>2, <1>3, StandsKept
<1>5. Listed'
  BY <1>2, ListedKept DEF PlaceInv
<1> QED
  BY <1>1, <1>4, <1>5

Placed == Moves /\ Drops /\ Stands /\ Listed

LEMMA CallPlaces ==
  ASSUME PlaceInv, NEW t \in Threads, NEW j \in Jobs, Call(t, j)
  PROVE  Placed'
<1>1. PICK c : c = <<t, "caller">>
  OBVIOUS
<1>2. /\ c \in Agents /\ Alone(c) /\ SameOrigin(c) /\ Thread(t).pc = "run"
      /\ ag'[c].at = ag[c].at /\ ag[c].at # None
      /\ \/ /\ ag'[c].own = "B" /\ Usable(ag[c].at, "B")
            /\ ag'[c].pc = (IF j = "run" THEN "body" ELSE "count")
         \/ ag'[c].own = None /\ ag'[c].pc = "look"
  BY <1>1, CallFields DEF PlaceInv
<1>3. /\ j \in todo[t] /\ (j = "drop" => todo[t] = {"drop"})
      /\ todo' = [todo EXCEPT ![t] = @ \ {j}] /\ job' = [job EXCEPT ![t] = j]
      /\ UNCHANGED <<places, ref_cnt, refs, did>>
  BY <1>1, CallFields DEF PlaceInv
<1>4. /\ TypeOK /\ CallerPhase(t) /\ ag[c].at \in Places /\ Thread(t) = ag[c]
  BY <1>1, <1>2, WorkerKnown, CallerKnown DEF PlaceInv, AgentRec
<1>5. did[t] = 0 /\ job[t] = None
  BY <1>2, <1>4 DEF CallerPhase
<1>6. /\ todo'[t] = todo[t] \ {j} /\ job'[t] = j
      /\ \A u \in Threads \ {t} : todo'[u] = todo[u] /\ job'[u] = job[u]
  BY <1>3, <1>4 DEF TypeOK
<1>7. UNCHANGED <<status, ctl, news, mig, ref_cnt, did>>
  BY <1>3 DEF places
<1>8. Gone' <=> Gone
  BY <1>7, GoneStays
<1>9. \A x \in Agents : Goes(x)
  <2>1. Goes(c)
    BY <1>2, <1>4 DEF Goes, SameOrigin, Places
  <2> QED
    BY <2>1, <1>2 DEF Alone, Goes
<1>10. \A x \in Agents : ag'[x].pc = "dtor" => ag[x].pc = "dtor" /\ ag'[x].at = ag[x].at
  BY <1>2 DEF Alone
<1>11. Moves' /\ Stands' /\ Listed'
  BY <1>7, <1>9, <1>10, AgentsMove
<1>12. \A u \in Threads :
         /\ Owing(u)' <=> Owing(u)
         /\ job'[u] = "run" => "drop" \in todo'[u]
         /\ job'[u] = "drop" => todo'[u] = {}
         /\ todo'[u] # {} => "drop" \in todo'[u]
  <2>1. ASSUME NEW u \in Threads, u # t
        PROVE  /\ Owing(u)' <=> Owing(u)
               /\ job'[u] = "run" => "drop" \in todo'[u]
               /\ job'[u] = "drop" => todo'[u] = {}
               /\ todo'[u] # {} => "drop" \in todo'[u]
    BY <1>6, <1>7, <2>1 DEF PlaceInv, Drops, Owing
  <2>2. "drop" \in todo[t] /\ todo[t] \subseteq Jobs
    BY <1>3, <1>4 DEF PlaceInv, Drops, TypeOK
  <2>3. CASE j = "run"
    BY <1>5, <1>6, <1>7, <2>1, <2>2, <2>3 DEF Owing, Jobs
  <2>4. CASE j = "drop"
    BY <1>3, <1>5, <1>6, <1>7, <2>1, <2>2, <2>4 DEF Owing, Jobs
  <2> QED
    BY <2>3, <2>4 DEF Jobs
<1>13. ASSUME NEW x \in Agents
       PROVE  /\ ag'[x].pc \in {"body", "ran"} => JobOf(x)' = "run"
              /\ ag'[x].pc \in {"count", "kill", "again", "dtor"} => JobOf(x)' = "drop"
              /\ ag'[x].pc \in {"kill", "again", "dtor"} => ag[x].pc \in {"kill", "again", "dtor"}
  <2>1. CASE x = c
    <3>1. JobOf(x)' = j
      BY <1>1, <1>6, <2>1 DEF JobOf
    <3> QED
      BY <1>2, <2>1, <3>1 DEF Jobs
  <2>2. CASE x # c
    <3>1. x[2] = "caller" => x[1] # t
      BY <1>1, <2>2, AgentIs DEF Jobs
    <3>2. JobOf(x)' = JobOf(x) /\ ag'[x] = ag[x]
      BY <1>2, <1>6, <2>2, <3>1, AgentIs DEF Alone, JobOf
    <3> QED
      BY <3>2 DEF PlaceInv, Drops
  <2> QED
    BY <2>1, <2>2
<1>14. Drops'
  BY <1>7, <1>8, <1>12, <1>13, DropsKept DEF PlaceInv
<1> QED
  BY <1>11, <1>14 DEF Placed

(* What nobody drops and nobody begins leaves the drops as they are.       *)
LEMMA WorkKeeps ==
  ASSUME PlaceInv, UNCHANGED <<ref_cnt, todo, job>>, Gone' <=> Gone,
         \A t \in Threads : job[t] = "drop" => (did'[t] = 0 <=> did[t] = 0),
         \A x \in Agents :
           \/ ag'[x].pc = ag[x].pc
           \/ ag[x].pc = "body" /\ ag'[x].pc = "ran"
           \/ ag[x].pc \in {"kill", "again"} /\ ag'[x].pc \in {"kill", "again", "dtor"}
           \/ ag'[x].pc \notin {"body", "ran", "count", "kill", "again", "dtor"}
  PROVE  Drops'
<1>1. \A t \in Threads :
        /\ Owing(t)' <=> Owing(t)
        /\ job'[t] = "run" => "drop" \in todo'[t]
        /\ job'[t] = "drop" => todo'[t] = {}
        /\ todo'[t] # {} => "drop" \in todo'[t]
  BY DEF PlaceInv, Drops, Owing
<1>2. ASSUME NEW x \in Agents
      PROVE  /\ ag'[x].pc \in {"body", "ran"} => JobOf(x)' = "run"
             /\ ag'[x].pc \in {"count", "kill", "again", "dtor"} => JobOf(x)' = "drop"
             /\ ag'[x].pc \in {"kill", "again", "dtor"} => ag[x].pc \in {"kill", "again", "dtor"}
  <2>1. JobOf(x)' = JobOf(x)
    BY DEF JobOf
  <2> QED
    BY <2>1 DEF PlaceInv, Drops
<1> QED
  BY <1>1, <1>2, DropsKept DEF PlaceInv

LEMMA LookPlaces ==
  ASSUME PlaceInv, NEW t \in Threads,
         \/ LookCached(t) \/ Resolve(t) \/ Store(t) \/ WrongClient(t)
         \/ HandlerStart(t) /\ ~Usable(rpc[t].to, "B")
         \/ LoadThread(t) /\ ~Usable(rpc[t].to, "A")
  PROVE  Placed'
<1>1. PICK c : c = <<t, "caller">>
  OBVIOUS
<1>2. /\ c \in Agents /\ Alone(c) /\ SameOrigin(c) /\ Asking(Thread(t).pc)
      /\ ag'[c].at = ag[c].at /\ ag'[c].own = None /\ Asking(ag'[c].pc)
      /\ UNCHANGED <<places, ref_cnt, refs, work>>
  BY <1>1, LookFields DEF PlaceInv
<1>3. UNCHANGED <<status, ctl, mig, ref_cnt, todo, job, did>>
  BY <1>2 DEF places, work
<1>4. \A x \in Agents : Goes(x)
  <2>1. Goes(c)
    BY <1>2 DEF Goes, SameOrigin, Asking
  <2> QED
    BY <2>1, <1>2 DEF Alone, Goes
<1>5. \A x \in Agents : ag'[x].pc = ag[x].pc \/ Asking(ag'[x].pc)
  BY <1>2 DEF Alone
<1>6. Moves' /\ Stands' /\ Listed'
  <2>1. \A x \in Agents : ag'[x].pc = "dtor" => ag[x].pc = "dtor" /\ ag'[x].at = ag[x].at
    BY <1>2 DEF Alone, Asking
  <2> QED
    BY <1>3, <1>4, <2>1, AgentsMove
<1>7. Drops'
  <2>1. Gone' <=> Gone
    BY <1>3, GoneStays
  <2> QED
    BY <1>3, <1>5, <2>1, WorkKeeps DEF Asking
<1> QED
  BY <1>6, <1>7 DEF Placed

LEMMA ReturnPlaces ==
  ASSUME PlaceInv, NEW t \in Threads,
         Back(t) \/ (LoadThread(t) /\ Usable(rpc[t].to, "A"))
  PROVE  Placed'
<1>1. PICK c : c = <<t, "caller">>
  OBVIOUS
<1>2. /\ c \in Agents /\ Alone(c) /\ SameOrigin(c) /\ did[t] = 1
      /\ \/ ag'[c].own = "A" /\ ag'[c].pc = "run" /\ Usable(ag'[c].at, "A") /\ Finish(t)
         \/ ag'[c].own = None /\ ag'[c].pc = "look" /\ ag'[c].at = ag[c].at /\ UNCHANGED work
      /\ UNCHANGED <<places, ref_cnt>>
  BY <1>1, ReturnFields DEF PlaceInv
<1>3. UNCHANGED <<status, ctl, mig, ref_cnt>> /\ (Gone' <=> Gone)
  BY <1>2, GoneStays DEF places
<1>4. ag'[c].at \in Places
  <2>1. CallInv'
    BY StepCallInv DEF PlaceInv, Next, CallerStep
  <2> QED
    BY <1>2, <2>1 DEF CallInv, TypeOK, AgentRec
<1>5. \A x \in Agents : Goes(x)
  <2>1. Goes(c)
    BY <1>1, <1>2, <1>4 DEF Goes, SameOrigin, Usable, Places
  <2> QED
    BY <2>1, <1>2 DEF Alone, Goes
<1>6. \A x \in Agents : ag'[x].pc = ag[x].pc \/ ag'[x].pc \in {"run", "look"}
  BY <1>2 DEF Alone
<1>7. Moves' /\ Stands' /\ Listed'
  <2>1. \A x \in Agents : ag'[x].pc = "dtor" => ag[x].pc = "dtor" /\ ag'[x].at = ag[x].at
    BY <1>2 DEF Alone
  <2> QED
    BY <1>3, <1>5, <2>1, AgentsMove
<1>8. CASE UNCHANGED work
  <2>1. Drops'
    BY <1>3, <1>6, <1>8, WorkKeeps DEF work
  <2> QED
    BY <1>7, <2>1 DEF Placed
<1>9. CASE Finish(t) /\ ag'[c].pc = "run"
  <2>1. /\ job'[t] = None /\ UNCHANGED todo
        /\ \A u \in Threads \ {t} : job'[u] = job[u] /\ did'[u] = did[u]
    BY <1>9 DEF Finish, PlaceInv, CallInv, TypeOK
  <2>2. \A u \in Threads :
          /\ Owing(u)' <=> Owing(u)
          /\ job'[u] = "run" => "drop" \in todo'[u]
          /\ job'[u] = "drop" => todo'[u] = {}
          /\ todo'[u] # {} => "drop" \in todo'[u]
    BY <1>2, <2>1 DEF PlaceInv, Drops, Owing, None
  <2>3. ASSUME NEW x \in Agents
        PROVE  /\ ag'[x].pc \in {"body", "ran"} => JobOf(x)' = "run"
               /\ ag'[x].pc \in {"count", "kill", "again", "dtor"} => JobOf(x)' = "drop"
               /\ ag'[x].pc \in {"kill", "again", "dtor"} => ag[x].pc \in {"kill", "again", "dtor"}
    <3>1. CASE x = c
      BY <1>9, <3>1
    <3>2. CASE x # c
      <4>1. x[2] = "caller" => x[1] # t
        BY <1>1, <3>2, AgentIs DEF Jobs
      <4>2. JobOf(x)' = JobOf(x) /\ ag'[x] = ag[x]
        BY <1>2, <2>1, <3>2, <4>1, AgentIs DEF Alone, JobOf
      <4> QED
        BY <4>2 DEF PlaceInv, Drops
    <3> QED
      BY <3>1, <3>2
  <2>4. Drops'
    BY <1>3, <2>2, <2>3, DropsKept DEF PlaceInv
  <2> QED
    BY <1>7, <2>4 DEF Placed
<1> QED
  BY <1>2, <1>8, <1>9

LEMMA StartPlaces ==
  ASSUME PlaceInv, NEW t \in Threads, HandlerStart(t), Usable(rpc[t].to, "B")
  PROVE  Placed'
<1>0. CallInv
  BY DEF PlaceInv
<1>1. PICK c : c = <<t, "caller">>
  OBVIOUS
<1>2. PICK h : h = <<t, job[t]>>
  OBVIOUS
<1>3. c \in Agents /\ h \in Agents /\ h # c
  BY <1>0, <1>1, <1>2, StartFields
<1>4. \A y \in Agents \ {c, h} : ag'[y] = ag[y]
  BY <1>0, <1>1, <1>2, StartFields
<1>5. SameOrigin(c) /\ ag'[c].pc = "wait" /\ ag'[c].own = None
  <2>1. SameOrigin(c)
    BY <1>0, <1>1, <1>2, StartFields
  <2>2. ag'[c].pc = "wait"
    BY <1>0, <1>1, <1>2, StartFields
  <2>3. ag'[c].own = None
    <3>1. CallInv'
      BY <1>0, StepCallInv DEF Next
    <3> QED
      BY <1>3, <2>2, <3>1 DEF CallInv, Settled
  <2> QED
    BY <2>1, <2>2, <2>3
<1>6. /\ ag'[h].own = "B" /\ ag'[h].at = rpc[t].to /\ ag'[h].destructed = FALSE
      /\ ag'[h].pc = (IF job[t] = "run" THEN "body" ELSE "count")
  BY <1>0, <1>1, <1>2, StartFields
<1>7. job[t] \in Jobs /\ did[t] = 0 /\ rpc[t].to \in Nodes
  BY <1>0, <1>1, <1>2, StartFields
<1>8. UNCHANGED <<status, ctl, mig, ref_cnt, todo, job, did>>
  BY <1>0, <1>1, <1>2, StartFields DEF places, work
<1>9. \A x \in Agents : Goes(x)
  <2>1. Goes(c)
    BY <1>5 DEF Goes, SameOrigin
  <2>2. Goes(h)
    BY <1>6, <1>7 DEF Goes
  <2> QED
    BY <2>1, <2>2, <1>4 DEF Goes
<1>10. Moves' /\ Stands' /\ Listed'
  <2>1. \A x \in Agents : ag'[x].pc = "dtor" => ag[x].pc = "dtor" /\ ag'[x].at = ag[x].at
    BY <1>4, <1>5, <1>6
  <2> QED
    BY <1>8, <1>9, <2>1, AgentsMove
<1>11. \A u \in Threads :
         /\ Owing(u)' <=> Owing(u)
         /\ job'[u] = "run" => "drop" \in todo'[u]
         /\ job'[u] = "drop" => todo'[u] = {}
         /\ todo'[u] # {} => "drop" \in todo'[u]
  BY <1>8 DEF PlaceInv, Drops, Owing
<1>12. ASSUME NEW x \in Agents
       PROVE  /\ ag'[x].pc \in {"body", "ran"} => JobOf(x)' = "run"
              /\ ag'[x].pc \in {"count", "kill", "again", "dtor"} => JobOf(x)' = "drop"
              /\ ag'[x].pc \in {"kill", "again", "dtor"} => ag[x].pc \in {"kill", "again", "dtor"}
  <2>1. CASE x = h
    <3>1. JobOf(x)' = job[t]
      BY <1>2, <1>7, <2>1 DEF JobOf, Jobs
    <3> QED
      BY <1>6, <1>7, <2>1, <3>1 DEF Jobs
  <2>2. CASE x = c
    BY <1>5, <2>2
  <2>3. CASE x \notin {c, h}
    <3>1. JobOf(x)' = JobOf(x) /\ ag'[x] = ag[x]
      BY <1>4, <1>8, <2>3 DEF JobOf
    <3> QED
      BY <3>1 DEF PlaceInv, Drops
  <2> QED
    BY <2>1, <2>2, <2>3
<1>13. Drops'
  <2>1. Gone' <=> Gone
    BY <1>8, GoneStays
  <2> QED
    BY <1>8, <1>11, <1>12, <2>1, DropsKept DEF PlaceInv
<1> QED
  BY <1>10, <1>13 DEF Placed

LEMMA RespondPlaces ==
  ASSUME PlaceInv, NEW x \in Agents, Respond(x)
  PROVE  Placed'
<1>1. PICK c : c = <<x[1], "caller">>
  OBVIOUS
<1>2. /\ c \in Agents /\ x # c
      /\ \A y \in Agents \ {c, x} : ag'[y] = ag[y]
      /\ SameOrigin(c) /\ ag[c].pc = "wait" /\ ag'[c].pc = "answered"
      /\ ag'[c].at = ag[c].at /\ ag[c].own = None /\ ag'[c].own = None
      /\ SameOrigin(x) /\ ag[x].pc = "done" /\ ag'[x].pc = "end"
      /\ ag'[x].at = ag[x].at /\ ag[x].own = "B" /\ ag'[x].own = "B"
  BY <1>1, RespondFields DEF PlaceInv
<1>3. UNCHANGED <<status, ctl, mig, ref_cnt, todo, job, did>>
  BY DEF Respond, places, work
<1>4. \A y \in Agents : Goes(y)
  <2>1. Goes(c) /\ Goes(x)
    BY <1>2 DEF Goes, SameOrigin
  <2> QED
    BY <2>1, <1>2 DEF Goes
<1>5. \A y \in Agents : ag'[y].pc = ag[y].pc \/ ag'[y].pc \in {"answered", "end"}
  BY <1>2
<1>6. Moves' /\ Stands' /\ Listed'
  <2>1. \A y \in Agents : ag'[y].pc = "dtor" => ag[y].pc = "dtor" /\ ag'[y].at = ag[y].at
    BY <1>2
  <2> QED
    BY <1>3, <1>4, <2>1, AgentsMove
<1>7. Drops'
  <2>1. Gone' <=> Gone
    BY <1>3, GoneStays
  <2> QED
    BY <1>3, <1>5, <2>1, WorkKeeps
<1> QED
  BY <1>6, <1>7 DEF Placed

(* A method is run, or a guard taken again.                                *)
LEMMA RunPlaces ==
  ASSUME PlaceInv, NEW x \in Agents,
         RunBody(x) \/ Reguard(x, "ran", "done") \/ Reguard(x, "again", "kill")
  PROVE  Placed'
<1>1. /\ Alone(x) /\ x[1] \in Threads /\ JobOf(x) = job[x[1]]
      /\ ag'[x].own = ag[x].own /\ ag'[x].at = ag[x].at
      /\ UNCHANGED <<todo, job>>
      /\ RunBody(x) => ag'[x].pc = "ran"
      /\ Reguard(x, "ran", "done") => ag'[x].pc = "done"
      /\ Reguard(x, "again", "kill") => ag'[x].pc = "kill"
      /\ Destruct(x) \/ ag'[x].destructed = ag[x].destructed
  BY WorkFields DEF PlaceInv
<1>2. /\ RunBody(x) => ag[x].pc = "body"
      /\ Reguard(x, "ran", "done") => ag[x].pc = "ran"
      /\ Reguard(x, "again", "kill") => ag[x].pc = "again"
      /\ ~Destruct(x)
      /\ UNCHANGED <<status, ctl, mig, ref_cnt>>
  BY DEF RunBody, Reguard, Destruct, places
<1>3. \A y \in Agents : Goes(y)
  <2>1. Goes(x)
    BY <1>1, <1>2 DEF Goes
  <2> QED
    BY <2>1, <1>1 DEF Alone, Goes
<1>4. \A t \in Threads : job[t] = "drop" => (did'[t] = 0 <=> did[t] = 0)
  <2>1. CASE RunBody(x)
    <3>1. job[x[1]] = "run"
      BY <1>1, <1>2, <2>1 DEF PlaceInv, Drops
    <3>2. \A t \in Threads \ {x[1]} : did'[t] = did[t]
      BY <2>1 DEF RunBody, PlaceInv, CallInv, TypeOK
    <3> QED
      BY <3>1, <3>2
  <2>2. CASE ~RunBody(x)
    BY <2>2 DEF Reguard, work
  <2> QED
    BY <2>1, <2>2
<1>5. Moves' /\ Stands' /\ Listed'
  <2>1. \A y \in Agents : ag'[y].pc = "dtor" => ag[y].pc = "dtor" /\ ag'[y].at = ag[y].at
    BY <1>1, <1>2 DEF Alone
  <2> QED
    BY <1>2, <1>3, <2>1, AgentsMove
<1>6. Drops'
  <2>1. Gone' <=> Gone
    BY <1>2, GoneStays
  <2>2. \A y \in Agents :
           \/ ag'[y].pc = ag[y].pc
           \/ ag[y].pc = "body" /\ ag'[y].pc = "ran"
           \/ ag[y].pc \in {"kill", "again"} /\ ag'[y].pc \in {"kill", "again", "dtor"}
           \/ ag'[y].pc \notin {"body", "ran", "count", "kill", "again", "dtor"}
    BY <1>1, <1>2 DEF Alone
  <2> QED
    BY <1>1, <1>2, <1>4, <2>1, <2>2, WorkKeeps
<1> QED
  BY <1>5, <1>6 DEF Placed

(* A reference is dropped, and whose is the last one destroys B.           *)
LEMMA CountPlaces ==
  ASSUME PlaceInv, NEW x \in Agents, Count(x)
  PROVE  Placed'
<1> DEFINE t == x[1]
           O == {u \in Threads : Owing(u)}
<1>1. /\ Alone(x) /\ t \in Threads
      /\ ag'[x].own = ag[x].own /\ ag'[x].at = ag[x].at
      /\ UNCHANGED <<todo, job>> /\ JobOf(x) = job[t]
      /\ ag'[x].pc = (IF ref_cnt' = 0 THEN "kill" ELSE "done")
      /\ Destruct(x) \/ ag'[x].destructed = ag[x].destructed
  BY WorkFields DEF PlaceInv
<1>2. /\ ag[x].pc = "count" /\ ~Destruct(x) /\ ref_cnt' = ref_cnt - 1
      /\ did' = [did EXCEPT ![t] = @ + 1] /\ UNCHANGED <<status, ctl, mig>>
  BY DEF Count, Destruct, places
<1>3. Owing(t) /\ ref_cnt # 0 /\ ~Gone /\ Killers = {}
  BY <1>1, <1>2, WorkersOwe, OwingKeeps
<1>4. job[t] = "drop" /\ todo[t] = {}
  BY <1>1, <1>2 DEF PlaceInv, Drops
<1>5. did[t] = 0 /\ did'[t] = 1 /\ \A u \in Threads \ {t} : did'[u] = did[u]
  <2>1. did[t] = 0 /\ did \in [Threads -> {0, 1}]
    BY <1>2, WorkerKnown DEF PlaceInv, NotYet, CallInv, TypeOK
  <2> QED
    BY <1>1, <1>2, <2>1
<1>6. {u \in Threads : Owing(u)'} = O \ {t}
  BY <1>1, <1>4, <1>5 DEF Owing
<1>7. Cardinality(O \ {t}) = Cardinality(O) - 1
  <2>1. IsFiniteSet(O)
    BY FS_Subset, ConstantsOK
  <2>2. t \in O
    BY <1>1, <1>3
  <2> HIDE DEF O
  <2> QED
    BY <2>1, <2>2, FS_RemoveElement
<1>8. ref_cnt' = Cardinality({u \in Threads : Owing(u)'})
  BY <1>2, <1>6, <1>7 DEF PlaceInv, Drops
<1>9. Gone' <=> Gone
  BY <1>2, GoneStays
<1>10. Drops'
  <2>1. \A u \in Threads :
          /\ job'[u] = "run" => "drop" \in todo'[u]
          /\ job'[u] = "drop" => todo'[u] = {}
          /\ todo'[u] # {} => "drop" \in todo'[u]
    BY <1>1 DEF PlaceInv, Drops
  <2>2. ASSUME NEW y \in Agents
        PROVE  /\ ag'[y].pc \in {"body", "ran"} => JobOf(y)' = "run"
               /\ ag'[y].pc \in {"count", "kill", "again", "dtor"} => JobOf(y)' = "drop"
    <3>1. JobOf(y)' = JobOf(y)
      BY <1>1 DEF JobOf
    <3>2. CASE y = x
      BY <1>1, <1>4, <3>1, <3>2
    <3>3. CASE y # x
      <4>1. ag'[y] = ag[y]
        BY <1>1, <3>3 DEF Alone
      <4> QED
        BY <3>1, <4>1 DEF PlaceInv, Drops
    <3> QED
      BY <3>2, <3>3
  <2>3. ASSUME NEW y \in Killers' PROVE y = x /\ ref_cnt' = 0
    <3>1. y = x
      BY <1>1, <1>3 DEF Killers, Alone
    <3> QED
      BY <1>1, <3>1 DEF Killers
  <2> QED
    BY <1>3, <1>8, <1>9, <2>1, <2>2, <2>3 DEF Drops
<1>11. \A y \in Agents : Goes(y)
  <2>1. Goes(x)
    BY <1>1, <1>2 DEF Goes
  <2> QED
    BY <2>1, <1>1 DEF Alone, Goes
<1>12. Moves' /\ Stands' /\ Listed'
  <2>1. \A y \in Agents : ag'[y].pc = "dtor" => ag[y].pc = "dtor" /\ ag'[y].at = ag[y].at
    BY <1>1 DEF Alone
  <2> QED
    BY <1>2, <1>11, <2>1, AgentsMove
<1> QED
  BY <1>10, <1>12 DEF Placed

(* B cannot be moved any more, or else it is, and has to be waited for.    *)
LEMMA KillPlaces ==
  ASSUME PlaceInv, NEW x \in Agents, Kill(x)
  PROVE  Placed'
<1>1. PICK n \in Nodes : n = ag[x].at
  BY WorkFields DEF PlaceInv
<1>2. /\ Alone(x)
      /\ ag'[x].own = "B" /\ ag[x].own = "B" /\ ag'[x].at = n
      /\ ag'[x].pc = (IF status[n]["B"] = "present" THEN "dtor" ELSE "again")
      /\ Destruct(x) \/ ag'[x].destructed = ag[x].destructed
      /\ UNCHANGED <<todo, job>>
  BY <1>1, WorkFields DEF PlaceInv
<1>3. ag[x].pc = "kill" /\ ~Destruct(x) /\ UNCHANGED <<ctl, mig, ref_cnt, todo, job, did>>
  BY DEF Kill, Destruct, work
<1>4. "B" \in Proclets /\ status \in [Nodes -> [Proclets -> {"present", "migrating", "destructing", "absent"}]]
  BY DEF PlaceInv, CallInv, TypeOK, Proclets
<1>5. \A m \in Nodes, p \in Proclets :
        \/ status'[m][p] = status[m][p]
        \/ p = "B" /\ m = n /\ status[m][p] = "present" /\ status'[m][p] = "destructing"
  BY <1>1, <1>4 DEF Kill, SetStatus
<1>6. status[n]["B"] = "present" => status'[n]["B"] = "destructing"
  BY <1>1, <1>4 DEF Kill, SetStatus
<1>7. \A m \in Nodes, p \in Proclets : status'[m][p] = "absent" <=> status[m][p] = "absent"
  BY <1>5
<1>8. Gone' <=> Gone
  BY <1>3, <1>4, <1>7 DEF Gone, Moving
<1>9. Moves'
  <2>1. \A p \in Proclets, i, m \in Nodes :
          status'[i][p] # "absent" /\ status'[m][p] # "absent" => i = m
    BY <1>7 DEF PlaceInv, Moves
  <2>2. \A p \in Proclets, m \in Nodes : status'[m][p] = "migrating" <=> status[m][p] = "migrating"
    BY <1>5
  <2>3. mig.pc = "arrived" => mig.to \in Nodes
    BY DEF PlaceInv, CallInv, TypeOK, Places
  <2>4. \A m \in Nodes : status'[m]["A"] = status[m]["A"]
    BY <1>5 DEF Proclets
  <2> QED
    BY <1>3, <1>4, <1>7, <1>8, <2>1, <2>2, <2>3, <2>4 DEF PlaceInv, Moves, Moving
<1>10. \A y \in Agents : Goes(y)
  <2>1. Goes(x)
    BY <1>1, <1>2, <1>3 DEF Goes
  <2> QED
    BY <2>1, <1>2 DEF Alone, Goes
<1>11. Stands'
  <2>1. ASSUME NEW y \in Agents, ag'[y].pc = "dtor"
        PROVE  ag'[y].at # None /\ status'[ag'[y].at]["B"] = "destructing"
    <3>1. CASE y = x
      BY <1>2, <1>6, <2>1, <3>1, ConstantsOK
    <3>2. CASE y # x
      <4>1. ag'[y] = ag[y] /\ ag[y].at # None /\ status[ag[y].at]["B"] = "destructing"
        BY <1>2, <2>1, <3>2 DEF Alone, PlaceInv, Stands
      <4>2. ag[y].at \in Nodes
        BY <4>1, WorkerKnown DEF PlaceInv, AgentRec, Places
      <4> QED
        BY <1>4, <1>5, <4>1, <4>2
    <3> QED
      BY <3>1, <3>2
  <2> QED
    BY <1>3, <1>7, <1>8, <1>10, <2>1, StandsKept
<1>12. Listed'
  BY <1>3, <1>8, <1>10, ListedKept DEF PlaceInv
<1>13. Drops'
  <2>1. \A y \in Agents :
           \/ ag'[y].pc = ag[y].pc
           \/ ag[y].pc = "body" /\ ag'[y].pc = "ran"
           \/ ag[y].pc \in {"kill", "again"} /\ ag'[y].pc \in {"kill", "again", "dtor"}
           \/ ag'[y].pc \notin {"body", "ran", "count", "kill", "again", "dtor"}
    BY <1>2, <1>3 DEF Alone
  <2> QED
    BY <1>3, <1>8, <2>1, WorkKeeps
<1> QED
  BY <1>9, <1>11, <1>12, <1>13 DEF Placed

(* Who destroys B is where all are that are still within it; and if they   *)
(* are to leave first, the last of them.                                   *)
LEMMA AllAreThere ==
  ASSUME PlaceInv, NEW x \in Agents, ag[x].pc = "dtor", ag[x].own = "B", NEW y \in In("B")
  PROVE  /\ ag[y].at = ag[x].at /\ ag[x].at \in Nodes
         /\ ~Guarded(ag[x].at, "B") => y = x
<1>1. /\ ag[x].at # None /\ status[ag[x].at]["B"] = "destructing"
      /\ "B" \in Proclets /\ x \in In("B") /\ x \in Killers /\ ref_cnt = 0
  BY DEF PlaceInv, Stands, Drops, In, Killers, Proclets
<1>2. ag[x].at \in Nodes
  BY <1>1, WorkerKnown DEF PlaceInv, AgentRec, Places
<1>3. y \in Agents /\ (y \in Killers \/ (ag[y].guard = "B" /\ ag[y].at # None))
  BY <1>1, LastOnes DEF In
<1>4. CASE y \in Killers
  <2>1. y = x
    BY <1>1, <1>4 DEF PlaceInv, Drops
  <2> QED
    BY <1>2, <2>1
<1>5. CASE ag[y].guard = "B" /\ ag[y].at # None
  <2>1. ag[y].at = ag[x].at
    BY <1>1, <1>2, <1>5, StandsThere
  <2> QED
    BY <1>2, <1>3, <1>5, <2>1 DEF Guarded
<1> QED
  BY <1>3, <1>4, <1>5

(* B is destroyed: it is nowhere from then on.                             *)
LEMMA DestructPlaces ==
  ASSUME PlaceInv, NEW x \in Agents, Destruct(x)
  PROVE  Placed'
<1>1. PICK n \in Nodes : n = ag[x].at
  BY WorkFields DEF PlaceInv
<1>2. /\ Alone(x) /\ ag[x].own = "B" /\ ag'[x].own = "B" /\ ag'[x].at = n
      /\ ag'[x].pc = "done" /\ ag'[x].destructed = TRUE /\ UNCHANGED <<todo, job>>
  BY <1>1, WorkFields DEF PlaceInv
<1>3. ag[x].pc = "dtor" /\ UNCHANGED <<mig, ref_cnt, todo, job, did>>
  BY DEF Destruct, work
<1>4. /\ "A" \in Proclets /\ "B" \in Proclets /\ n # None
      /\ status \in [Nodes -> [Proclets -> {"present", "migrating", "destructing", "absent"}]]
  BY ConstantsOK DEF PlaceInv, CallInv, TypeOK, Proclets
<1>5. /\ status'[n]["B"] = "absent"
      /\ \A m \in Nodes, p \in Proclets : status'[m][p] = status[m][p] \/ (m = n /\ p = "B")
  BY <1>1, <1>4 DEF Destruct, SetStatus
<1>6. status[n]["B"] = "destructing" /\ x \in Killers /\ ref_cnt = 0 /\ ~Gone
  BY <1>1, <1>3 DEF PlaceInv, Stands, Drops, Killers
<1>7. \A m \in Nodes : m # n => status[m]["B"] = "absent"
  BY <1>4, <1>6 DEF PlaceInv, Moves
<1>8. ~Moving("B") /\ ~Moving("B")'
  BY <1>3, <1>4, <1>6 DEF PlaceInv, Moves, Moving
<1>9. Gone'
  BY <1>4, <1>5, <1>7, <1>8 DEF Gone
<1>10. \A m \in Nodes : status'[m]["A"] = status[m]["A"] /\ status'[m]["B"] = "absent"
  BY <1>4, <1>5, <1>7, <1>9 DEF Gone
<1>11. Moves'
  <2>1. \A p \in Proclets : p = "A" \/ p = "B"
    BY DEF Proclets
  <2>2. \A m \in Nodes : status[m]["B"] # "migrating"
    BY <1>6, <1>7
  <2>3. mig.pc = "arrived" => mig.to \in Nodes
    BY DEF PlaceInv, CallInv, TypeOK, Places
  <2> QED
    BY <1>3, <1>4, <1>9, <1>10, <2>1, <2>2, <2>3 DEF PlaceInv, Moves, Moving
<1>12. Drops'
  <2>1. \A t \in Threads : Owing(t)' <=> Owing(t)
    BY <1>3 DEF Owing
  <2>2. {t \in Threads : Owing(t)'} = {t \in Threads : Owing(t)}
    BY <2>1
  <2>3. ref_cnt' = Cardinality({t \in Threads : Owing(t)'})
    BY <1>3, <2>2 DEF PlaceInv, Drops
  <2>4. Killers' = {}
    <3>1. \A y \in Killers : y = x
      BY <1>6 DEF PlaceInv, Drops
    <3> QED
      BY <1>2, <3>1 DEF Killers, Alone
  <2>5. ASSUME NEW y \in Agents
        PROVE  /\ ag'[y].pc \in {"body", "ran"} => JobOf(y)' = "run"
               /\ ag'[y].pc \in {"count", "kill", "again", "dtor"} => JobOf(y)' = "drop"
    <3>1. JobOf(y)' = JobOf(y)
      BY <1>3 DEF JobOf
    <3>2. ag'[y] = ag[y] \/ ag'[y].pc = "done"
      BY <1>2 DEF Alone
    <3> QED
      BY <3>1, <3>2 DEF PlaceInv, Drops
  <2>6. \A t \in Threads :
          /\ job'[t] = "run" => "drop" \in todo'[t]
          /\ job'[t] = "drop" => todo'[t] = {}
          /\ todo'[t] # {} => "drop" \in todo'[t]
    BY <1>3 DEF PlaceInv, Drops
  <2> QED
    BY <1>3, <1>6, <2>3, <2>4, <2>5, <2>6 DEF Drops
<1>13. ASSUME NEW y \in In("B")
       PROVE  ag[y].at = n /\ (~Guarded(n, "B") => y = x)
  BY <1>1, <1>2, <1>3, AllAreThere
<1>14. ASSUME NEW y \in Agents, ag'[y].own = "B"
       PROVE  y \in In("B") /\ ag'[y].at = n
  BY <1>2, <1>13, <1>14 DEF Alone, In
<1>15. Stands'
  <2>1. ASSUME NEW p \in Proclets, NEW y \in Agents, ag'[y].own = p PROVE Stand(y, p)'
    <3>1. CASE p = "B"
      BY <1>4, <1>9, <1>14, <2>1, <3>1 DEF Stand, Proclets
    <3>2. CASE p = "A"
      <4>1. ag'[y] = ag[y] /\ y \in In("A")
        BY <1>2, <2>1, <3>2 DEF Alone, In
      <4>2. Stand(y, "A") /\ ag[y].at \in Places
        BY <1>4, <4>1, WorkerKnown DEF PlaceInv, Stands, AgentRec
      <4> QED
        BY <1>3, <1>4, <1>10, <3>2, <4>1, <4>2 DEF Stand, Places
    <3> QED
      BY <3>1, <3>2 DEF Proclets
  <2>2. ASSUME NEW y \in Agents, ag'[y].pc = "dtor" PROVE FALSE
    <3>1. y # x /\ ag'[y] = ag[y]
      BY <1>2, <2>2 DEF Alone
    <3>2. y \in Killers
      BY <2>2, <3>1 DEF Killers
    <3> QED
      BY <1>6, <3>1, <3>2 DEF PlaceInv, Drops
  <2>3. ASSUME NEW y \in Agents
        PROVE  /\ ag'[y].pc = "sync" => ag'[y].destructed
               /\ ag'[y].destructed => y = x
    BY <1>2, <1>6 DEF PlaceInv, Stands, Alone
  <2> QED
    BY <1>2, <1>9, <1>14, <2>1, <2>2, <2>3 DEF Stands, In
<1>16. Listed'
  <2>1. ctl \in [Proclets -> Places]
    BY DEF PlaceInv, CallInv, TypeOK
  <2>2. ctl'["A"] = ctl["A"] /\ (ctl' = ctl \/ ~Guarded(n, "B"))
    BY <1>1, <1>4, <2>1 DEF Destruct, Freed
  <2>3. ctl["A"] # None /\ ctl["B"] # None
    BY <1>6 DEF PlaceInv, Listed
  <2>4. ASSUME ctl'["B"] = None, NEW y \in Agents, ag'[y].own = "B" PROVE ag'[y].destructed
    <3>1. ~Guarded(n, "B")
      BY <2>2, <2>3, <2>4
    <3> QED
      BY <1>2, <1>13, <1>14, <2>4, <3>1
  <2> QED
    BY <1>9, <2>2, <2>3, <2>4 DEF Listed, In
<1> QED
  BY <1>11, <1>12, <1>15, <1>16 DEF Placed

(* Who ends is in no proclet any more, and cleans up behind the last.      *)
LEMMA EndPlaces ==
  ASSUME PlaceInv, NEW x \in Agents, End(x) \/ Cleanup(x)
  PROVE  Placed'
<1>1. /\ Alone(x) /\ ag'[x].own = None
      /\ \/ /\ ag[x].own = "B" /\ ag'[x].pc = "sync"
            /\ ag'[x].at = ag[x].at /\ SameOrigin(x) /\ ag[x].destructed
         \/ End(x) /\ ag'[x].pc = "idle" /\ ag'[x].destructed = ag[x].destructed
         \/ /\ Cleanup(x) /\ ag[x].pc = "sync" /\ ag'[x].pc = "idle"
            /\ ag'[x].destructed = TRUE
      /\ UNCHANGED <<status, mig, ref_cnt, work>>
  BY EndFields DEF PlaceInv
<1>2. UNCHANGED <<status, mig, ref_cnt, todo, job, did>>
  BY <1>1 DEF work
<1>3. Gone' <=> Gone
  BY <1>2, GoneStays
<1>4. ag[x].pc = "sync" => ag[x].destructed
  BY DEF PlaceInv, Stands
<1>5. \A y \in Agents : Goes(y)
  <2>1. Goes(x)
    BY <1>1, <1>4 DEF Goes, SameOrigin
  <2> QED
    BY <2>1, <1>1 DEF Alone, Goes
<1>6. \A y \in Agents : ag'[y] = ag[y] \/ ag'[y].pc \in {"sync", "idle"}
  BY <1>1 DEF Alone
<1>7. Moves'
  BY <1>2, MovesKept DEF PlaceInv
<1>8. Stands'
  <2>1. ASSUME NEW y \in Agents, ag'[y].pc = "dtor"
        PROVE  ag'[y].at # None /\ status'[ag'[y].at]["B"] = "destructing"
    BY <1>2, <1>6, <2>1 DEF PlaceInv, Stands
  <2> QED
    BY <1>2, <1>3, <1>5, <2>1, StandsKept
<1>9. Drops'
  BY <1>2, <1>3, <1>6, WorkKeeps
<1>10. Listed'
  <2>1. CASE End(x)
    <3>1. UNCHANGED ctl
      BY <2>1 DEF End, places
    <3> QED
      BY <1>3, <1>5, <3>1, ListedKept DEF PlaceInv
  <2>2. CASE Cleanup(x)
    <3>1. ag[x].pc = "sync" /\ ~Guarded(ag[x].at, "B") /\ ctl'["A"] = ctl["A"]
      BY <2>2 DEF Cleanup, Freed, PlaceInv, CallInv, TypeOK, Proclets
    <3>2. ag[x].destructed /\ Gone /\ \A y \in In("B") : ag[y].at = ag[x].at
      BY <3>1 DEF PlaceInv, Stands
    <3>3. ref_cnt = 0 /\ Killers = {}
      BY <3>2 DEF PlaceInv, Drops
    <3>4. In("B") = {}
      <4> SUFFICES ASSUME NEW y \in In("B") PROVE FALSE
        OBVIOUS
      <4>1. ag[y].guard = "B" /\ ag[y].at = ag[x].at /\ y \in Agents
        BY <3>2, <3>3, LastOnes, WithinB
      <4> QED
        BY <3>1, <4>1 DEF Guarded
    <3>5. \A y \in Agents : ag'[y].own # "B"
      BY <1>1, <3>4 DEF Alone, In, None
    <3> QED
      BY <1>3, <3>1, <3>2, <3>5 DEF PlaceInv, Listed, In
  <2> QED
    BY <2>1, <2>2
<1> QED
  BY <1>7, <1>8, <1>9, <1>10 DEF Placed

---------------------------------------------------------------------------
(* Migrations.                                                             *)

LEMMA StillGoes ==
  ASSUME UNCHANGED ag
  PROVE  \A x \in Agents : Goes(x)
BY DEF Goes

LEMMA MarkPlaces ==
  ASSUME PlaceInv, NEW p \in Proclets, NEW n \in Nodes, NEW d \in Nodes, Mark(p, n, d)
  PROVE  Placed'
<1>1. /\ mig.pc = "idle" /\ status[n][p] = "present"
      /\ mig' = [pc |-> "marked", p |-> p, from |-> n, to |-> d]
      /\ UNCHANGED <<ctl, ref_cnt, ag, todo, job, did>>
  BY DEF Mark, work
<1>2. /\ mig'.pc = "marked" /\ mig'.p = p /\ mig'.from = n
  BY <1>1
<1>3. status \in [Nodes -> [Proclets -> {"present", "migrating", "destructing", "absent"}]]
  BY DEF PlaceInv, CallInv, TypeOK
<1>4. /\ status'[n][p] = "migrating"
      /\ \A m \in Nodes, q \in Proclets : status'[m][q] = status[m][q] \/ (m = n /\ q = p)
  BY <1>3 DEF Mark, SetStatus
<1>5. \A m \in Nodes, q \in Proclets : status'[m][q] = "absent" <=> status[m][q] = "absent"
  BY <1>1, <1>4
<1>6. "A" \in Proclets /\ "B" \in Proclets
  BY DEF Proclets
<1>7. Gone' <=> Gone
  BY <1>1, <1>2, <1>5, <1>6 DEF Gone, Moving
<1>8. Moves'
  <2>1. \A q \in Proclets, i, m \in Nodes :
          status'[i][q] # "absent" /\ status'[m][q] # "absent" => i = m
    BY <1>5 DEF PlaceInv, Moves
  <2>2. \A q \in Proclets, m \in Nodes : status[m][q] # "migrating"
    BY <1>1 DEF PlaceInv, Moves
  <2>3. \A q \in Proclets, m \in Nodes : status'[m][q] = "migrating" <=> p = q /\ n = m
    BY <1>4, <2>2
  <2>4. \A m \in Nodes : status'[m]["A"] # "destructing"
    BY <1>4, <1>6 DEF PlaceInv, Moves
  <2> QED
    BY <1>2, <2>1, <2>3, <2>4 DEF Moves, Moving
<1>9. Stands'
  <2>1. ASSUME NEW y \in Agents, ag'[y].pc = "dtor"
        PROVE  ag'[y].at # None /\ status'[ag'[y].at]["B"] = "destructing"
    <3>1. ag[y].at # None /\ status[ag[y].at]["B"] = "destructing"
      BY <1>1, <2>1 DEF PlaceInv, Stands
    <3>2. ag[y].at \in Nodes
      BY <3>1, WorkerKnown DEF PlaceInv, AgentRec, Places
    <3> QED
      BY <1>1, <1>4, <1>6, <3>1, <3>2
  <2>2. \A x \in Agents : Goes(x)
    BY <1>1, StillGoes
  <2> QED
    BY <1>1, <1>5, <1>7, <2>1, <2>2, StandsKept
<1>10. Drops'
  BY <1>1, <1>7, WorkKeeps
<1>11. Listed'
  BY <1>1, <1>7, StillGoes, ListedKept DEF PlaceInv
<1> QED
  BY <1>8, <1>9, <1>10, <1>11 DEF Placed

LEMMA ArrivePlaces ==
  ASSUME PlaceInv, Arrive
  PROVE  Placed'
<1>1. PICK p : p = mig.p
  OBVIOUS
<1>2. PICK d : d = mig.to
  OBVIOUS
<1>3. /\ mig.pc = "moving" /\ p \in Proclets /\ d \in Nodes
      /\ UNCHANGED <<ctl, ref_cnt, ag, todo, job, did>>
  BY <1>1, <1>2 DEF Arrive, work, PlaceInv, CallInv, TypeOK, Places
<1>4. mig'.pc = "arrived" /\ mig'.p = p /\ mig'.to = d
  BY <1>1, <1>2 DEF Arrive, PlaceInv, CallInv, TypeOK
<1>5. status \in [Nodes -> [Proclets -> {"present", "migrating", "destructing", "absent"}]]
  BY DEF PlaceInv, CallInv, TypeOK
<1>6. /\ status'[d][p] = "present"
      /\ \A m \in Nodes, q \in Proclets : status'[m][q] = status[m][q] \/ (m = d /\ q = p)
  BY <1>1, <1>2, <1>3, <1>5 DEF Arrive, SetStatus
<1>7. \A m \in Nodes : status[m][p] = "absent"
  BY <1>1, <1>3 DEF PlaceInv, Moves, Moving
<1>8. "A" \in Proclets /\ "B" \in Proclets
  BY DEF Proclets
<1>9. \A m \in Nodes, q \in Proclets : status[m][q] # "absent" => status'[m][q] # "absent"
  BY <1>6, <1>7
<1>10. Gone' <=> Gone
  <2>1. CASE p = "B"
    <3>1. ~Gone /\ ~Gone'
      BY <1>1, <1>3, <1>6, <2>1 DEF Gone, Moving
    <3> QED
      BY <3>1
  <2>2. CASE p # "B"
    BY <1>1, <1>3, <1>4, <1>6, <1>8, <2>2 DEF Gone, Moving
  <2> QED
    BY <2>1, <2>2
<1>11. Moves'
  <2>1. \A q \in Proclets, i, m \in Nodes :
          status'[i][q] # "absent" /\ status'[m][q] # "absent" => i = m
    BY <1>6, <1>7 DEF PlaceInv, Moves
  <2>2. \A q \in Proclets, m \in Nodes : status[m][q] # "migrating"
    BY <1>3 DEF PlaceInv, Moves
  <2>3. \A q \in Proclets, m \in Nodes : status'[m][q] # "migrating"
    BY <1>6, <2>2
  <2>4. \A m \in Nodes : status'[m]["A"] # "destructing"
    BY <1>6, <1>8 DEF PlaceInv, Moves
  <2> QED
    BY <1>4, <1>6, <2>1, <2>3, <2>4 DEF Moves, Moving
<1>12. Stands'
  <2>1. ASSUME NEW y \in Agents, ag'[y].pc = "dtor"
        PROVE  ag'[y].at # None /\ status'[ag'[y].at]["B"] = "destructing"
    <3>1. ag[y].at # None /\ status[ag[y].at]["B"] = "destructing"
      BY <1>3, <2>1 DEF PlaceInv, Stands
    <3>2. ag[y].at \in Nodes
      BY <3>1, WorkerKnown DEF PlaceInv, AgentRec, Places
    <3> QED
      BY <1>3, <1>6, <1>7, <1>8, <3>1, <3>2
  <2>2. \A x \in Agents : Goes(x)
    BY <1>3, StillGoes
  <2>3. \A q \in Proclets : mig.p = q /\ mig.pc \in {"moving", "arrived"} =>
                            mig'.p = q /\ mig'.pc \in {"moving", "arrived"}
    BY <1>1, <1>4
  <2> QED
    BY <1>9, <1>10, <2>1, <2>2, <2>3, StandsKept
<1>13. Drops'
  BY <1>3, <1>10, WorkKeeps
<1>14. Listed'
  BY <1>3, <1>10, StillGoes, ListedKept DEF PlaceInv
<1> QED
  BY <1>11, <1>12, <1>13, <1>14 DEF Placed

(* B or A leaves, and whoever is within it.                                *)
LEMMA LeavePlaces ==
  ASSUME PlaceInv, Leave
  PROVE  Placed'
<1>1. PICK p : p = mig.p
  OBVIOUS
<1>2. PICK n : n = mig.from
  OBVIOUS
<1>3. /\ mig.pc = "marked" /\ p \in Proclets /\ n \in Nodes /\ n # None
      /\ UNCHANGED <<ctl, ref_cnt, todo, job, did>>
  BY <1>1, <1>2 DEF Leave, work, PlaceInv, CallInv, TypeOK, Places
<1>4. mig'.pc = "moving" /\ mig'.p = p
  BY <1>1, <1>2 DEF Leave, PlaceInv, CallInv, TypeOK
<1>5. status \in [Nodes -> [Proclets -> {"present", "migrating", "destructing", "absent"}]]
  BY DEF PlaceInv, CallInv, TypeOK
<1>6. /\ status'[n][p] = "absent"
      /\ \A m \in Nodes, q \in Proclets : status'[m][q] = status[m][q] \/ (m = n /\ q = p)
  BY <1>1, <1>2, <1>3, <1>5 DEF Leave, SetStatus
<1>7. status[n][p] = "migrating"
  BY <1>1, <1>2, <1>3 DEF PlaceInv, Moves
<1>8. "A" \in Proclets /\ "B" \in Proclets
  BY DEF Proclets
<1>9. \A m \in Nodes : status'[m][p] = "absent"
  BY <1>3, <1>6, <1>7 DEF PlaceInv, Moves
<1>10. (Gone' <=> Gone) /\ (p = "B" => ~Gone)
  <2>1. CASE p = "B"
    <3>1. ~Gone /\ ~Gone'
      BY <1>3, <1>4, <1>7, <2>1 DEF Gone, Moving
    <3> QED
      BY <3>1
  <2>2. CASE p # "B"
    BY <1>1, <1>3, <1>4, <1>6, <1>8, <2>2 DEF Gone, Moving
  <2> QED
    BY <2>1, <2>2
<1>11. ASSUME NEW x \in Agents
       PROVE  /\ ag'[x].pc = ag[x].pc /\ ag'[x].own = ag[x].own
              /\ ag'[x].destructed = ag[x].destructed
              /\ ag'[x].at = (IF ag[x].own = p /\ ag[x].at = n THEN None ELSE ag[x].at)
  <2>1. /\ ag'[x].pc = ag[x].pc /\ ag'[x].own = ag[x].own /\ SameOrigin(x)
        /\ ag'[x].at = (IF Passengers(x) THEN None ELSE ag[x].at)
    BY LeaveFields DEF PlaceInv
  <2> QED
    BY <1>1, <1>2, <2>1 DEF Passengers, SameOrigin
<1>12. ASSUME NEW q \in Proclets, NEW x \in In(q)
       PROVE  x \in Agents /\ Stand(x, q) /\ ag[x].at # None /\ (q = p => ag[x].at = n)
  <2>1. x \in Agents /\ Stand(x, q)
    BY DEF In, PlaceInv, Stands
  <2>2. ag[x].at # None
    BY <1>3, <2>1 DEF Stand
  <2> QED
    BY <1>3, <1>7, <2>1, <2>2, StandsThere
<1>13. Moves'
  <2>1. \A q \in Proclets, i, m \in Nodes :
          status'[i][q] # "absent" /\ status'[m][q] # "absent" => i = m
    BY <1>6 DEF PlaceInv, Moves
  <2>2. \A q \in Proclets, m \in Nodes : status'[m][q] # "migrating"
    BY <1>1, <1>2, <1>3, <1>6 DEF PlaceInv, Moves
  <2>3. \A m \in Nodes : status'[m]["A"] # "destructing"
    BY <1>6, <1>8 DEF PlaceInv, Moves
  <2> QED
    BY <1>4, <1>9, <2>1, <2>2, <2>3 DEF Moves, Moving
<1>14. Stands'
  <2>1. ASSUME NEW q \in Proclets, NEW x \in Agents, ag'[x].own = q PROVE Stand(x, q)'
    <3>1. x \in In(q)
      BY <1>11, <2>1 DEF In
    <3>2. Stand(x, q) /\ ag[x].at # None /\ (q = p => ag[x].at = n)
      BY <1>12, <3>1
    <3>3. CASE q = p
      <4>1. ag'[x].at = None
        BY <1>11, <2>1, <3>2, <3>3
      <4> QED
        BY <1>4, <1>8, <1>10, <1>11, <3>2, <3>3, <4>1 DEF Stand
    <3>4. CASE q # p
      <4>1. ag'[x].at = ag[x].at /\ ag[x].at \in Nodes
        BY <1>11, <2>1, <3>2, <3>4, WorkerKnown DEF PlaceInv, AgentRec, Places
      <4> QED
        BY <1>6, <1>8, <1>10, <1>11, <3>2, <3>4, <4>1 DEF Stand
    <3> QED
      BY <3>3, <3>4
  <2>2. ASSUME NEW x \in Agents, ag'[x].pc = "dtor"
        PROVE  ag'[x].at # None /\ status'[ag'[x].at]["B"] = "destructing"
    <3>1. ag[x].pc = "dtor" /\ ag[x].at # None /\ status[ag[x].at]["B"] = "destructing"
      BY <1>11, <2>2 DEF PlaceInv, Stands
    <3>2. ag[x].at \in Nodes /\ ag[x].own = "B"
      BY <3>1, WorkerKnown DEF PlaceInv, AgentRec, Places, Settled
    <3>3. p # "B"
      BY <1>3, <1>7, <1>8, <3>1, <3>2 DEF PlaceInv, Moves
    <3> QED
      BY <1>6, <1>8, <1>11, <3>1, <3>2, <3>3
  <2>3. ASSUME NEW x \in Agents
        PROVE  /\ ag'[x].pc = "sync" => ag'[x].destructed
               /\ ag'[x].destructed => Gone'
    BY <1>10, <1>11 DEF PlaceInv, Stands
  <2>4. ASSUME NEW x \in Agents, ag'[x].destructed, ag'[x].own = "B" \/ ag'[x].pc = "sync",
               NEW y \in Agents, ag'[y].own = "B"
        PROVE  ag'[y].at = ag'[x].at
    <3>1. Gone /\ p # "B"
      BY <1>10, <1>11, <2>4 DEF PlaceInv, Stands
    <3>2. ag[x].destructed /\ (ag[x].own = "B" \/ ag[x].pc = "sync") /\ y \in In("B")
      BY <1>11, <2>4 DEF In
    <3>3. ag[y].at = ag[x].at
      BY <3>2 DEF PlaceInv, Stands
    <3>4. ag[x].own # p
      <4>1. Settled(x)
        BY DEF PlaceInv, CallInv
      <4> QED
        BY <1>3, <3>1, <3>2, <4>1, ConstantsOK DEF Settled, Proclets, None
    <3>5. ag[y].own # p
      BY <3>1, <3>2 DEF In
    <3> QED
      BY <1>11, <3>3, <3>4, <3>5
  <2> QED
    BY <2>1, <2>2, <2>3, <2>4 DEF Stands, In
<1>15. Drops'
  BY <1>3, <1>10, <1>11, WorkKeeps
<1>16. Listed'
  BY <1>3, <1>10, <1>11 DEF PlaceInv, Listed, In
<1> QED
  BY <1>13, <1>14, <1>15, <1>16 DEF Placed

(* They go on where the proclet has arrived.                               *)
LEMMA LoadPlaces ==
  ASSUME PlaceInv, LoadThreads
  PROVE  Placed'
<1>1. PICK p : p = mig.p
  OBVIOUS
<1>2. PICK d : d = mig.to
  OBVIOUS
<1>3. /\ mig.pc = "arrived" /\ p \in Proclets /\ d \in Nodes /\ d # None
      /\ UNCHANGED <<status, ctl, ref_cnt, todo, job, did>>
  BY <1>1, <1>2 DEF LoadThreads, work, PlaceInv, CallInv, TypeOK, Places
<1>4. mig' = [pc |-> "idle", p |-> None, from |-> None, to |-> None]
  BY DEF LoadThreads
<1>5. mig'.pc = "idle" /\ mig'.p = None
  BY <1>4
<1>6. "A" \in Proclets /\ "B" \in Proclets
  BY DEF Proclets
<1>7. Gone' <=> Gone
  BY <1>3, <1>5 DEF Gone, Moving
<1>8. status[d][p] # "absent" \/ (p = "B" /\ Gone)
  BY <1>1, <1>2, <1>3 DEF PlaceInv, Moves, Proclets
<1>9. ASSUME NEW x \in Agents
      PROVE  /\ ag'[x].pc = ag[x].pc /\ ag'[x].own = ag[x].own
             /\ ag'[x].destructed = ag[x].destructed
             /\ ag'[x].at = (IF ag[x].own = p /\ ag[x].at = None THEN d ELSE ag[x].at)
  BY <1>1, <1>2, LoadFields DEF PlaceInv
<1>10. Moves'
  <2>1. \A q \in Proclets, m \in Nodes : status[m][q] # "migrating"
    BY <1>3 DEF PlaceInv, Moves
  <2> QED
    BY <1>3, <1>5, <2>1 DEF PlaceInv, Moves, Moving
<1>11. Stands'
  <2>1. ASSUME NEW q \in Proclets, NEW x \in Agents, ag'[x].own = q PROVE Stand(x, q)'
    <3>1. Stand(x, q) /\ ag[x].own = q
      BY <1>9, <2>1 DEF PlaceInv, Stands, In
    <3>2. CASE ag[x].at = None
      <4>1. q = p /\ ag'[x].at = d
        BY <1>1, <1>9, <3>1, <3>2 DEF Stand
      <4> QED
        BY <1>3, <1>6, <1>7, <1>8, <1>9, <3>1, <3>2, <4>1 DEF Stand
    <3>3. CASE ag[x].at # None
      BY <1>3, <1>6, <1>7, <1>9, <3>1, <3>3 DEF Stand
    <3> QED
      BY <3>2, <3>3
  <2>2. ASSUME NEW x \in Agents, ag'[x].pc = "dtor"
        PROVE  ag'[x].at # None /\ status'[ag'[x].at]["B"] = "destructing"
    BY <1>3, <1>9, <2>2 DEF PlaceInv, Stands
  <2>3. ASSUME NEW x \in Agents
        PROVE  /\ ag'[x].pc = "sync" => ag'[x].destructed
               /\ ag'[x].destructed => Gone'
    BY <1>7, <1>9 DEF PlaceInv, Stands
  <2>4. ASSUME NEW x \in Agents, ag'[x].destructed, ag'[x].own = "B" \/ ag'[x].pc = "sync",
               NEW y \in Agents, ag'[y].own = "B"
        PROVE  ag'[y].at = ag'[x].at
    <3>1. Gone
      BY <1>9, <2>4 DEF PlaceInv, Stands
    <3>2. ag[x].destructed /\ (ag[x].own = "B" \/ ag[x].pc = "sync") /\ y \in In("B")
      BY <1>9, <2>4 DEF In
    <3>3. ag[y].at = ag[x].at /\ Stand(y, "B")
      BY <1>6, <3>2 DEF PlaceInv, Stands
    <3>4. ag[y].at # None
      BY <3>1, <3>3 DEF Stand
    <3> QED
      BY <1>9, <3>3, <3>4
  <2> QED
    BY <2>1, <2>2, <2>3, <2>4 DEF Stands, In
<1>12. Drops'
  BY <1>3, <1>7, <1>9, WorkKeeps
<1>13. Listed'
  BY <1>3, <1>7, <1>9 DEF PlaceInv, Listed, In
<1> QED
  BY <1>10, <1>11, <1>12, <1>13 DEF Placed

LEMMA UpdatePlaces ==
  ASSUME PlaceInv, NEW p \in Proclets, UpdateLocation(p)
  PROVE  Placed'
<1>1. UNCHANGED <<status, mig, ref_cnt, ag, todo, job, did>>
  BY DEF UpdateLocation, work
<1>2. (Gone' <=> Gone) /\ Moves'
  BY <1>1, GoneStays, MovesKept DEF PlaceInv
<1>3. \A x \in Agents : Goes(x)
  BY <1>1, StillGoes
<1>4. Stands'
  BY <1>1, <1>2, <1>3, StandsKept DEF PlaceInv, Stands
<1>5. Drops'
  BY <1>1, <1>2, WorkKeeps
<1>6. Listed'
  <2>1. /\ ctl'[p] = news[p] /\ news[p] # None
        /\ \A q \in Proclets : q # p => ctl'[q] = ctl[q]
        /\ "A" \in Proclets /\ "B" \in Proclets
    BY DEF UpdateLocation, PlaceInv, CallInv, TypeOK, Proclets
  <2>2. ctl'["A"] # None /\ (ctl'["B"] = None => ctl["B"] = None)
    BY <2>1 DEF PlaceInv, Listed
  <2> QED
    BY <1>1, <1>2, <2>2 DEF PlaceInv, Listed, In
<1> QED
  BY <1>2, <1>4, <1>5, <1>6 DEF Placed

LEMMA StutterPlaces ==
  ASSUME PlaceInv, UNCHANGED vars
  PROVE  Placed'
<1>1. UNCHANGED <<status, ctl, mig, ref_cnt, ag, todo, job, did>>
  BY DEF vars, places, work
<1>2. Gone' <=> Gone
  BY <1>1, GoneStays
<1>3. Moves' /\ Stands' /\ Listed'
  BY <1>1, StillGoes, AgentsMove
<1>4. Drops'
  BY <1>1, <1>2, WorkKeeps
<1> QED
  BY <1>3, <1>4 DEF Placed

---------------------------------------------------------------------------
(* Every step keeps PlaceInv.                                              *)
LEMMA StepPlaceInv ==
  ASSUME PlaceInv, [Next]_vars
  PROVE  PlaceInv'
<1>1. ASSUME NEW t \in Threads,
             \/ HandlerStart(t) \/ LoadThread(t) \/ CallerStep(t) \/ \E j \in Jobs : Call(t, j)
      PROVE  Placed'
  <2>1. CASE HandlerStart(t) /\ Usable(rpc[t].to, "B")
    BY <2>1, StartPlaces
  <2>2. CASE \/ LookCached(t) \/ Resolve(t) \/ Store(t) \/ WrongClient(t)
             \/ HandlerStart(t) /\ ~Usable(rpc[t].to, "B")
             \/ LoadThread(t) /\ ~Usable(rpc[t].to, "A")
    BY <2>2, LookPlaces
  <2>3. CASE Back(t) \/ (LoadThread(t) /\ Usable(rpc[t].to, "A"))
    BY <2>3, ReturnPlaces
  <2>4. CASE \E j \in Jobs : Call(t, j)
    BY <2>4, CallPlaces
  <2> QED
    BY <1>1, <2>1, <2>2, <2>3, <2>4 DEF CallerStep
<1>2. ASSUME NEW x \in Agents, InnerStep(x)
      PROVE  Placed'
  <2>1. CASE Respond(x) \/ Count(x) \/ Kill(x) \/ Destruct(x)
    BY <2>1, RespondPlaces, CountPlaces, KillPlaces, DestructPlaces
  <2>2. CASE End(x) \/ Cleanup(x)
    BY <2>2, EndPlaces
  <2>3. CASE RunBody(x) \/ Reguard(x, "ran", "done") \/ Reguard(x, "again", "kill")
    BY <2>3, RunPlaces
  <2> QED
    BY <1>2, <2>1, <2>2, <2>3 DEF InnerStep
<1>3. ASSUME MigrationStep PROVE Placed'
  BY <1>3, LeavePlaces, ArrivePlaces, LoadPlaces, UpdatePlaces DEF MigrationStep
<1>4. ASSUME \E p \in Proclets, n, d \in Nodes : Mark(p, n, d) PROVE Placed'
  BY <1>4, MarkPlaces
<1>5. ASSUME UNCHANGED vars PROVE Placed'
  BY <1>5, StutterPlaces
<1>6. Placed'
  BY <1>1, <1>2, <1>3, <1>4, <1>5 DEF Next, Terminated
<1>7. CallInv' /\ CountInv'
  BY StepCallInv, StepCountInv DEF PlaceInv
<1> QED
  BY <1>6, <1>7 DEF PlaceInv, Placed

(* Where the proclets are says who finds them: who looks up B still owes a *)
(* drop, so that it is listed; who is within it stands with it.            *)
LEMMA PlacedIsThere == PlaceInv => CalleeIsThere
<1> SUFFICES ASSUME PlaceInv PROVE CalleeIsThere
  OBVIOUS
<1>1. ASSUME NEW x \in Agents, ag[x].own \in Proclets, ag[x].at # None
      PROVE  \/ status[ag[x].at][ag[x].own] # "absent"
             \/ ag[x].own = "B" /\ (ag[x].destructed \/ (ref_cnt = 0 /\ ctl["B"] # None))
  <2>1. x \in In(ag[x].own) /\ Stand(x, ag[x].own)
    BY <1>1 DEF In, PlaceInv, Stands
  <2>2. CASE status[ag[x].at][ag[x].own] # "absent"
    BY <2>2
  <2>3. CASE ag[x].own = "B" /\ Gone
    BY <2>1, <2>3 DEF PlaceInv, Drops, Listed
  <2> QED
    BY <1>1, <2>1, <2>2, <2>3 DEF Stand
<1>2. ASSUME NEW t \in Threads, Thread(t).pc = "look" PROVE ctl[rpc[t].goal] # None
  <2>1. CallerPhase(t) /\ job[t] \in Jobs \cup {None}
    BY CallerKnown DEF PlaceInv
  <2>2. CASE rpc[t].goal = "A"
    BY <2>2 DEF PlaceInv, Listed
  <2>3. CASE rpc[t].goal = "B" /\ did[t] = 0
    <3>1. job[t] \in Jobs
      BY <1>2, <2>1 DEF CallerPhase
    <3>2. Owing(t)
      BY <2>3, <3>1 DEF PlaceInv, Drops, Owing, Jobs
    <3>3. ~Gone
      BY <3>2, OwingKeeps
    <3> QED
      BY <2>3, <3>3 DEF PlaceInv, Listed
  <2> QED
    BY <1>2, <2>1, <2>2, <2>3 DEF CallerPhase, Asking
<1> QED
  BY <1>1, <1>2 DEF CalleeIsThere

(* A thread that works within a proclet is where the proclet is, or still  *)
(* where it was destroyed and before its memory is given back; and who     *)
(* still has a reference to B finds it at the controller (BUG_ON(!ip) of   *)
(* get_info), wherever B has moved and however late it asks.               *)
THEOREM CalleesAreThere == Spec => []CalleeIsThere
<1>1. Init => PlaceInv
  BY InitCallInv, InitCounts, InitPlaces DEF PlaceInv
<1>2. PlaceInv /\ [Next]_vars => PlaceInv'
  BY StepPlaceInv
<1> QED
  BY <1>1, <1>2, PlacedIsThere, PTL DEF Spec
=============================================================================
