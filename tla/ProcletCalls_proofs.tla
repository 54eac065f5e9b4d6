------------------------ MODULE ProcletCalls_proofs ------------------------
(***************************************************************************)
(* Proof that the calls of ProcletCalls are done once, and before they     *)
(* return, for any nodes, threads, callers and number of migrations.       *)
(* CallInv is inductive: it says of each place where a call can be whether *)
(* it has been done.                                                       *)
(***************************************************************************)
EXTENDS ProcletCalls, FiniteSetTheorems, TLAPS

(* The caller and the handlers of a thread are agents, and different ones. *)
LEMMA AgentsOf ==
  ASSUME NEW t \in Threads
  PROVE  <<t, "caller">> \in Agents /\ \A j \in Jobs : <<t, j>> \in Agents
BY DEF Agents, Jobs

(* An agent that is changed stays an agent.                                *)
LEMMA OneAgent ==
  ASSUME TypeOK, NEW x \in Agents, NEW r \in AgentRec, ag' = [ag EXCEPT ![x] = r]
  PROVE  ag' \in [Agents -> AgentRec] /\ ag'[x] = r /\ \A y \in Agents \ {x} : ag'[y] = ag[y]
BY DEF TypeOK

(* All callers begin in A.                                                 *)
LEMMA InitCallInv == Init => CallInv
<1> SUFFICES ASSUME Init PROVE CallInv
  OBVIOUS
<1>1. PICK b \in Nodes :
        /\ ctl = [p \in Proclets |-> IF p = "A" THEN Home ELSE b]
        /\ status = [n \in Nodes |-> [p \in Proclets |-> IF ctl[p] = n THEN "present" ELSE "absent"]]
        /\ ag = [x \in Agents |-> IF x[2] = "caller"
                              THEN [Idle EXCEPT !.pc = "run", !.at = Home, !.own = "A"] ELSE Idle]
  BY DEF Init
<1>2. Idle \in AgentRec /\ [Idle EXCEPT !.pc = "run", !.at = Home, !.own = "A"] \in AgentRec
  BY ConstantsOK DEF Idle, AgentRec, AgentPcs, Places, Proclets
<1>3. ref_cnt \in Int
  BY ConstantsOK, FS_CardinalityType DEF Init
<1>4. TypeOK
  <2>1. status \in [Nodes -> [Proclets -> {"present", "migrating", "destructing", "absent"}]]
    BY <1>1
  <2>2. ctl \in [Proclets -> Places]
    BY <1>1, ConstantsOK DEF Places
  <2>3. ag \in [Agents -> AgentRec]
    BY <1>1, <1>2
  <2>4. todo \in [Threads -> SUBSET Jobs] /\ job \in [Threads -> Jobs \cup {None}]
    BY DEF Init, Jobs
  <2> QED
    BY <2>1, <2>2, <2>3, <2>4, <1>3 DEF Init, TypeOK, Places, NoRpc, RpcRec
<1>5. \A t \in Threads : CallerPhase(t)
  <2> TAKE t \in Threads
  <2>1. Thread(t).pc = "run"
    BY <1>1, AgentsOf DEF Thread, Idle
  <2> QED
    BY <2>1 DEF Init, CallerPhase, NotYet, Already, Asking
<1>6. \A t \in Threads, j \in Jobs : HandlerPhase(t, j)
  <2> TAKE t \in Threads, j \in Jobs
  <2>1. ag[<<t, j>>].pc = "idle"
    BY <1>1, AgentsOf DEF Idle, Jobs
  <2> QED
    BY <2>1 DEF HandlerPhase, NotYet, Already
<1>7. \A x \in Agents : Settled(x)
  <2> TAKE x \in Agents
  <2>1. ag[x].pc \in {"idle", "run"}
    BY <1>1 DEF Idle
  <2> QED
    BY <2>1 DEF Settled, Asking
<1> QED
  BY <1>4, <1>5, <1>6, <1>7 DEF CallInv, Init

---------------------------------------------------------------------------
(* What the phases need of a step, by who has moved.                       *)

Phases ==
  /\ \A t \in Threads : CallerPhase(t) /\ \A j \in Jobs : HandlerPhase(t, j)
  /\ \A x \in Agents : Settled(x)

(* An agent is its caller's thread or one of its handlers.                 *)
LEMMA AgentIs ==
  ASSUME NEW x \in Agents
  PROVE  /\ x[1] \in Threads
         /\ x = <<x[1], "caller">> \/ \E j \in Jobs : x = <<x[1], j>>
         /\ \A t \in Threads, k \in Jobs : <<t, k>> # <<t, "caller">>
BY DEF Agents, Jobs

(* Nobody has moved from where a call is to where it is not.               *)
LEMMA StayPhases ==
  ASSUME CallInv, UNCHANGED <<job, did>>, \A t \in Threads : rpc'[t].goal = rpc[t].goal,
         \A x \in Agents : ag'[x].pc = ag[x].pc,
         \A x \in Agents : Settled(x)'
  PROVE  Phases'
<1>1. \A t \in Threads : CallerPhase(t)'
  <2> TAKE t \in Threads
  <2>1. CallerPhase(t)
    BY DEF CallInv
  <2>2. Thread(t)'.pc = Thread(t).pc
    BY AgentsOf DEF Thread
  <2>3. ASSUME job[t] \in Jobs PROVE ag'[<<t, job[t]>>].pc = ag[<<t, job[t]>>].pc
    BY <2>3, AgentsOf
  <2>4. job[t] \in Jobs \/ Thread(t).pc = "run"
    BY <2>1 DEF CallInv, TypeOK, CallerPhase
  <2> QED
    BY <2>1, <2>2, <2>3, <2>4 DEF CallerPhase, NotYet, Already, Asking
<1>2. \A t \in Threads, j \in Jobs : HandlerPhase(t, j)'
  BY AgentsOf DEF CallInv, HandlerPhase, Thread
<1> QED
  BY <1>1, <1>2 DEF Phases

(* The caller moves while no handler works for it.                         *)
LEMMA CallerPhases ==
  ASSUME CallInv, NEW t \in Threads, NEW r \in AgentRec,
         ag' = [ag EXCEPT ![<<t, "caller">>] = r],
         Thread(t).pc # "wait",
         \A u \in Threads \ {t} : job'[u] = job[u] /\ did'[u] = did[u] /\ rpc'[u] = rpc[u],
         CallerPhase(t)', Settled(<<t, "caller">>)'
  PROVE  Phases'
<1> DEFINE c == <<t, "caller">>
<1>1. c \in Agents /\ ag'[c] = r /\ \A y \in Agents \ {c} : ag'[y] = ag[y]
  BY OneAgent, AgentsOf DEF CallInv
<1>2. ASSUME NEW u \in Threads \ {t} PROVE CallerPhase(u)'
  <2>1. CallerPhase(u)
    BY DEF CallInv
  <2>2. Thread(u)' = Thread(u)
    BY <1>1, AgentsOf DEF Thread
  <2>3. ASSUME job[u] \in Jobs PROVE ag'[<<u, job[u]>>] = ag[<<u, job[u]>>]
    BY <2>3, <1>1, AgentsOf
  <2>4. job[u] \in Jobs \/ Thread(u).pc = "run"
    BY <2>1 DEF CallInv, TypeOK, CallerPhase
  <2> QED
    BY <2>1, <2>2, <2>3, <2>4 DEF CallerPhase, NotYet, Already, Asking
<1>3. ASSUME NEW u \in Threads, NEW j \in Jobs PROVE HandlerPhase(u, j)'
  <2>1. HandlerPhase(u, j)
    BY DEF CallInv
  <2>2. ag'[<<u, j>>] = ag[<<u, j>>]
    BY <1>1, AgentsOf DEF Jobs
  <2>3. CASE u = t
    BY <2>1, <2>2, <2>3 DEF HandlerPhase
  <2>4. CASE u # t
    BY <2>1, <2>2, <2>4, <1>1, AgentsOf DEF HandlerPhase, Thread
  <2> QED
    BY <2>3, <2>4
<1>4. ASSUME NEW x \in Agents PROVE Settled(x)'
  BY <1>1 DEF CallInv, Settled
<1> QED
  BY <1>2, <1>3, <1>4 DEF Phases

(* Who works on a call goes on with it.                                    *)
LEMMA WorkPhases ==
  ASSUME CallInv, NEW x \in Agents, NEW r \in AgentRec, ag' = [ag EXCEPT ![x] = r],
         NotYet(ag[x].pc) \/ Already(ag[x].pc),
         UNCHANGED <<job, rpc>>,
         \A u \in Threads \ {x[1]} : did'[u] = did[u],
         \/ NotYet(r.pc) /\ did'[x[1]] = 0
         \/ Already(r.pc) /\ did'[x[1]] = 1,
         Settled(x)'
  PROVE  Phases'
<1> DEFINE t == x[1]
<1>1. ag'[x] = r /\ \A y \in Agents \ {x} : ag'[y] = ag[y]
  BY OneAgent DEF CallInv
<1>2. t \in Threads
  BY AgentIs
<1>3. ASSUME NEW u \in Threads PROVE CallerPhase(u)'
  <2>1. CallerPhase(u)
    BY DEF CallInv
  <2>2. job[u] \in Jobs \/ Thread(u).pc = "run"
    BY <2>1 DEF CallInv, TypeOK, CallerPhase
  <2>3. CASE u # t
    <3>1. Thread(u)' = Thread(u)
      BY <2>3, <1>1, AgentsOf DEF Thread
    <3>2. ASSUME job[u] \in Jobs PROVE ag'[<<u, job[u]>>] = ag[<<u, job[u]>>]
      BY <3>2, <2>3, <1>1, AgentsOf
    <3> QED
      BY <2>1, <2>2, <2>3, <3>1, <3>2 DEF CallerPhase, NotYet, Already, Asking
  <2>4. CASE u = t /\ x = <<t, "caller">>
    <3>1. Thread(u) = ag[x] /\ Thread(u)' = r
      BY <2>4, <1>1 DEF Thread
    <3> QED
      BY <2>1, <2>2, <2>4, <3>1 DEF CallerPhase, NotYet, Already, Asking
  <2>5. ASSUME u = t, NEW j \in Jobs, x = <<t, j>> PROVE CallerPhase(u)'
    <3>1. Thread(t).pc = "wait" /\ job[t] = j
      BY <2>5, <1>2 DEF CallInv, HandlerPhase
    <3>2. Thread(t)' = Thread(t)
      BY <2>5, <1>1, <1>2, AgentsOf DEF Thread, Jobs
    <3> QED
      BY <2>5, <1>1, <3>1, <3>2 DEF CallerPhase, NotYet, Already, Asking, Jobs, None
  <2> QED
    BY <2>3, <2>4, <2>5, AgentIs
<1>4. ASSUME NEW u \in Threads, NEW j \in Jobs PROVE HandlerPhase(u, j)'
  <2>1. HandlerPhase(u, j)
    BY DEF CallInv
  <2>2. CASE x = <<t, "caller">>
    <3>1. ag'[<<u, j>>] = ag[<<u, j>>]
      BY <2>2, <1>1, AgentsOf DEF Jobs
    <3>2. u # t => Thread(u)' = Thread(u)
      BY <2>2, <1>1, AgentsOf DEF Thread
    <3>3. Thread(t).pc # "wait"
      BY <2>2 DEF Thread, NotYet, Already
    <3> QED
      BY <2>1, <3>1, <3>2, <3>3 DEF HandlerPhase
  <2>3. ASSUME NEW k \in Jobs, x = <<t, k>> PROVE HandlerPhase(u, j)'
    <3>1. Thread(u)' = Thread(u)
      BY <2>3, <1>1, AgentsOf DEF Thread, Jobs
    <3>2. CASE <<u, j>> = x
      BY <2>1, <3>1, <3>2 DEF HandlerPhase
    <3>3. CASE <<u, j>> # x
      BY <2>1, <3>1, <3>3, <1>1, AgentsOf DEF HandlerPhase
    <3> QED
      BY <3>2, <3>3
  <2> QED
    BY <2>2, <2>3, AgentIs
<1>5. ASSUME NEW y \in Agents PROVE Settled(y)'
  BY <1>1 DEF CallInv, Settled
<1> QED
  BY <1>3, <1>4, <1>5 DEF Phases

---------------------------------------------------------------------------
(* The caller's steps.                                                     *)

(* Who is outside of any proclet, or works without a guard, is as types    *)
(* and Settled have it; abbreviates the steps below.                       *)
LEMMA CallerKnown ==
  ASSUME CallInv, NEW t \in Threads
  PROVE  /\ Thread(t) \in AgentRec /\ Thread(t) = ag[<<t, "caller">>]
         /\ CallerPhase(t) /\ Settled(<<t, "caller">>) /\ TypeOK
         /\ job[t] \in Jobs \cup {None} /\ did[t] \in {0, 1}
BY AgentsOf DEF CallInv, TypeOK, Thread

LEMMA CallCallInv ==
  ASSUME CallInv, NEW t \in Threads, NEW j \in Jobs, Call(t, j)
  PROVE  CallInv'
<1> DEFINE c == <<t, "caller">>
           enter == Enter(Thread(t), j)
           ask == [Thread(t) EXCEPT !.pc = "look", !.own = None, !.guard = None]
<1>1. c \in Agents /\ Thread(t) = ag[c] /\ Thread(t) \in AgentRec /\ CallerPhase(t) /\ TypeOK
  BY AgentsOf, CallerKnown
<1>2. Thread(t).pc = "run" /\ Thread(t).at # None /\ did[t] = 0
  BY <1>1 DEF Call, Usable, CallerPhase
<1>3. job' = [job EXCEPT ![t] = j] /\ job' \in [Threads -> Jobs \cup {None}] /\ did' = did
  BY <1>1 DEF Call, TypeOK
<1>4. todo' \in [Threads -> SUBSET Jobs]
  BY <1>1 DEF Call, TypeOK
<1>5. UNCHANGED <<places, ref_cnt, cache, refs>>
  BY DEF Call
<1>6. CASE ag' = [ag EXCEPT ![c] = enter] /\ rpc' = rpc
  <2>1. enter \in AgentRec /\ enter.pc \in {"body", "count"} /\ enter.own = "B"
        /\ enter.at = Thread(t).at /\ (enter.pc = "count" => enter.guard = "B")
    BY <1>1 DEF Enter, AgentRec, AgentPcs, Proclets
  <2>2. ag' \in [Agents -> AgentRec] /\ ag'[c] = enter
    BY <1>1, <1>6, <2>1, OneAgent
  <2>3. CallerPhase(t)'
    BY <2>1, <2>2, <1>2, <1>3, <1>1 DEF CallerPhase, Thread, NotYet, Already, Asking, TypeOK, None, Jobs
  <2>4. Settled(c)'
    BY <2>1, <2>2, <1>2 DEF Settled, Asking
  <2>5. Phases'
    BY <2>1, <2>3, <2>4, <1>1, <1>2, <1>3, <1>6, CallerPhases DEF TypeOK
  <2> QED
    BY <2>2, <2>5, <1>1, <1>3, <1>4, <1>5, <1>6 DEF CallInv, Phases, TypeOK, places
<1>7. CASE ag' = [ag EXCEPT ![c] = ask] /\ rpc' = [rpc EXCEPT ![t] = [NoRpc EXCEPT !.goal = "B"]]
  <2>1. ask \in AgentRec /\ ask.pc = "look" /\ ask.own = None /\ ask.at = Thread(t).at
    BY <1>1 DEF AgentRec, AgentPcs
  <2>2. ag' \in [Agents -> AgentRec] /\ ag'[c] = ask
    BY <1>1, <1>7, <2>1, OneAgent
  <2>3. /\ rpc' \in [Threads -> RpcRec]
        /\ rpc'[t].goal = "B"
    BY <1>1, <1>7 DEF TypeOK, NoRpc, Proclets, Places, RpcRec
  <2>4. CallerPhase(t)'
    BY <2>1, <2>2, <2>3, <1>2, <1>3, <1>1 DEF CallerPhase, Thread, NotYet, Already, Asking, TypeOK, None, Jobs
  <2>5. Settled(c)'
    BY <2>1, <2>2, <1>2 DEF Settled, Asking
  <2>6. Phases'
    BY <2>1, <2>4, <2>5, <1>1, <1>2, <1>3, <1>7, CallerPhases DEF TypeOK
  <2> QED
    BY <2>2, <2>3, <2>6, <1>1, <1>3, <1>4, <1>5 DEF CallInv, Phases, TypeOK, places
<1> QED
  BY <1>6, <1>7 DEF Call, SetThread, Ask

(* An RPC is sent, or its address is known or forgotten.                   *)
LEMMA RpcFields ==
  ASSUME TypeOK, NEW t \in Threads, NEW n \in Places,
         rpc' = [rpc EXCEPT ![t].to = n] \/ rpc' = [rpc EXCEPT ![t].addr = n]
  PROVE  /\ rpc' \in [Threads -> RpcRec]
         /\ \A u \in Threads : rpc'[u].goal = rpc[u].goal
         /\ \A u \in Threads \ {t} : rpc'[u] = rpc[u]
<1>1. rpc[t] \in RpcRec /\ rpc \in [Threads -> RpcRec]
  BY DEF TypeOK
<1>2. \A r \in RpcRec : [r EXCEPT !.to = n] \in RpcRec /\ [r EXCEPT !.addr = n] \in RpcRec
                         /\ [r EXCEPT !.to = n].goal = r.goal /\ [r EXCEPT !.addr = n].goal = r.goal
  BY DEF RpcRec
<1>3. PICK r \in RpcRec : rpc' = [rpc EXCEPT ![t] = r] /\ r.goal = rpc[t].goal
  BY <1>1, <1>2
<1> QED
  BY <1>1, <1>3

(* The look-up and the retry: only where the caller is, the cache and the  *)
(* rest of the RPC change.                                                 *)
LEMMA AskingStep ==
  ASSUME CallInv, NEW t \in Threads, NEW pc \in {"look", "store", "sent", "wrong"},
         Asking(Thread(t).pc),
         SetThread(t, [Thread(t) EXCEPT !.pc = pc]),
         rpc' \in [Threads -> RpcRec],
         \A u \in Threads : rpc'[u].goal = rpc[u].goal,
         \A u \in Threads \ {t} : rpc'[u] = rpc[u],
         cache' \in [Nodes -> [Proclets -> Places]],
         UNCHANGED <<places, ref_cnt, refs, work>>
  PROVE  CallInv'
<1> DEFINE c == <<t, "caller">>
           r == [Thread(t) EXCEPT !.pc = pc]
<1>1. c \in Agents /\ Thread(t) = ag[c] /\ Thread(t) \in AgentRec /\ CallerPhase(t)
      /\ TypeOK /\ Settled(c)
  BY AgentsOf, CallerKnown
<1>2. r \in AgentRec /\ r.pc = pc /\ r.at = Thread(t).at /\ r.own = Thread(t).own
  BY <1>1 DEF AgentRec, AgentPcs
<1>3. ag' = [ag EXCEPT ![c] = r] /\ ag' \in [Agents -> AgentRec] /\ ag'[c] = r
  BY <1>1, <1>2, OneAgent DEF SetThread
<1>4. CallerPhase(t)'
  BY <1>1, <1>2, <1>3 DEF CallerPhase, Thread, NotYet, Already, Asking, work
<1>5. Settled(c)'
  BY <1>1, <1>2, <1>3 DEF Settled, Asking
<1>6. Phases'
  BY <1>1, <1>2, <1>3, <1>4, <1>5, CallerPhases DEF Asking, work
<1> QED
  BY <1>1, <1>3, <1>6 DEF CallInv, Phases, TypeOK, places, work

LEMMA LookCallInv ==
  ASSUME CallInv, NEW t \in Threads,
         LookCached(t) \/ Resolve(t) \/ Store(t) \/ WrongClient(t)
  PROVE  CallInv'
<1>1. Thread(t) \in AgentRec /\ CallerPhase(t) /\ Settled(<<t, "caller">>) /\ TypeOK
      /\ Thread(t) = ag[<<t, "caller">>]
  BY CallerKnown
<1>2. Asking(Thread(t).pc)
  BY DEF LookCached, Resolve, Store, WrongClient, Asking
<1>3. rpc[t].goal \in Proclets /\ Thread(t).at \in Nodes
  BY <1>1, <1>2 DEF CallerPhase, Settled, Asking, Proclets, AgentRec, Places
<1>4. CASE LookCached(t)
  <2>1. Known(t) \in Places /\ cache' = cache
    BY <1>1, <1>3, <1>4 DEF Known, TypeOK, LookCached
  <2>2. /\ rpc' \in [Threads -> RpcRec]
        /\ \A u \in Threads : rpc'[u].goal = rpc[u].goal
        /\ \A u \in Threads \ {t} : rpc'[u] = rpc[u]
    BY <1>1, <1>4, <2>1, RpcFields DEF LookCached, TypeOK, Places
  <2>3. SetThread(t, [Thread(t) EXCEPT !.pc = "sent"]) /\ UNCHANGED <<places, ref_cnt, refs, work>>
    BY <1>4 DEF LookCached
  <2> QED
    BY <2>1, <2>2, <2>3, <1>1, <1>2, AskingStep DEF TypeOK
<1>5. CASE Resolve(t)
  <2>1. ctl[rpc[t].goal] \in Places /\ cache' = cache
    BY <1>1, <1>3, <1>5 DEF TypeOK, Resolve
  <2>2. /\ rpc' \in [Threads -> RpcRec]
        /\ \A u \in Threads : rpc'[u].goal = rpc[u].goal
        /\ \A u \in Threads \ {t} : rpc'[u] = rpc[u]
    BY <1>1, <1>5, <2>1, RpcFields DEF Resolve, TypeOK, Places
  <2>3. SetThread(t, [Thread(t) EXCEPT !.pc = "store"]) /\ UNCHANGED <<places, ref_cnt, refs, work>>
    BY <1>5 DEF Resolve
  <2> QED
    BY <2>1, <2>2, <2>3, <1>1, <1>2, AskingStep DEF TypeOK
<1>6. CASE Store(t)
  <2>1. cache' \in [Nodes -> [Proclets -> Places]]
    BY <1>1, <1>3, <1>6 DEF Store, TypeOK, RpcRec
  <2>2. /\ rpc' \in [Threads -> RpcRec]
        /\ \A u \in Threads : rpc'[u].goal = rpc[u].goal
        /\ \A u \in Threads \ {t} : rpc'[u] = rpc[u]
    BY <1>1, <1>6, <2>1, RpcFields DEF Store, TypeOK, Places
  <2>3. SetThread(t, [Thread(t) EXCEPT !.pc = "look"]) /\ UNCHANGED <<places, ref_cnt, refs, work>>
    BY <1>6 DEF Store
  <2> QED
    BY <2>1, <2>2, <2>3, <1>1, <1>2, AskingStep DEF TypeOK
<1>7. CASE WrongClient(t)
  <2>1. cache' \in [Nodes -> [Proclets -> Places]]
    BY <1>1, <1>3, <1>7 DEF WrongClient, TypeOK, Places
  <2>2. /\ rpc' \in [Threads -> RpcRec]
        /\ \A u \in Threads : rpc'[u].goal = rpc[u].goal
        /\ \A u \in Threads \ {t} : rpc'[u] = rpc[u]
    BY <1>1, <1>7, <2>1, RpcFields DEF WrongClient, TypeOK, Places
  <2>3. SetThread(t, [Thread(t) EXCEPT !.pc = "look"]) /\ UNCHANGED <<places, ref_cnt, refs, work>>
    BY <1>7 DEF WrongClient
  <2> QED
    BY <2>1, <2>2, <2>3, <1>1, <1>2, AskingStep DEF TypeOK
<1> QED
  BY <1>4, <1>5, <1>6, <1>7

(* The end of a call, in A, and the way there.                             *)
LEMMA ReturnCallInv ==
  ASSUME CallInv, NEW t \in Threads, NEW n \in Nodes, did[t] = 1, Thread(t).pc # "wait",
         SetThread(t, HomeAgain(Thread(t), n)),
         rpc' = [rpc EXCEPT ![t] = NoRpc], Finish(t),
         UNCHANGED <<places, ref_cnt, cache, refs>>
  PROVE  CallInv'
<1> DEFINE c == <<t, "caller">>
           r == HomeAgain(Thread(t), n)
<1>1. c \in Agents /\ Thread(t) = ag[c] /\ Thread(t) \in AgentRec /\ TypeOK
  BY AgentsOf, CallerKnown
<1>2. r \in AgentRec /\ r.pc = "run" /\ r.at = n
  BY <1>1 DEF HomeAgain, AgentRec, AgentPcs, Proclets, Places
<1>3. ag' = [ag EXCEPT ![c] = r] /\ ag' \in [Agents -> AgentRec] /\ ag'[c] = r
  BY <1>1, <1>2, OneAgent DEF SetThread
<1>4. /\ rpc' \in [Threads -> RpcRec] /\ job' \in [Threads -> Jobs \cup {None}]
      /\ did' \in [Threads -> {0, 1}] /\ todo' = todo
      /\ job'[t] = None /\ did'[t] = 0
      /\ \A u \in Threads \ {t} : job'[u] = job[u] /\ did'[u] = did[u] /\ rpc'[u] = rpc[u]
  BY <1>1 DEF Finish, TypeOK, NoRpc, RpcRec, Places
<1>5. CallerPhase(t)' /\ Settled(c)'
  BY <1>2, <1>3, <1>4, ConstantsOK DEF CallerPhase, Settled, Thread, NotYet, Already, Asking
<1>6. Phases'
  BY <1>1, <1>2, <1>3, <1>4, <1>5, CallerPhases
<1> QED
  BY <1>1, <1>3, <1>4, <1>6 DEF CallInv, Phases, TypeOK, places

LEMMA BackCallInv ==
  ASSUME CallInv, NEW t \in Threads, Back(t)
  PROVE  CallInv'
<1> DEFINE c == <<t, "caller">>
           ask == [Thread(t) EXCEPT !.pc = "look", !.own = None, !.guard = None]
<1>1. c \in Agents /\ Thread(t) = ag[c] /\ Thread(t) \in AgentRec /\ CallerPhase(t)
      /\ TypeOK /\ Settled(c)
  BY AgentsOf, CallerKnown
<1>2. Thread(t).pc \in {"answered", "done"} /\ did[t] = 1 /\ Thread(t).at \in Nodes
  BY <1>1 DEF Back, CallerPhase, Already, Settled, AgentRec, Places
<1>3. CASE Usable(Thread(t).at, "A")
  BY <1>2, <1>3, ReturnCallInv DEF Back
<1>4. CASE ~Usable(Thread(t).at, "A")
  <2>1. ask \in AgentRec /\ ask.pc = "look" /\ ask.own = None /\ ask.at = Thread(t).at
    BY <1>1 DEF AgentRec, AgentPcs
  <2>2. ag' = [ag EXCEPT ![c] = ask] /\ ag' \in [Agents -> AgentRec] /\ ag'[c] = ask
    BY <1>1, <1>4, <2>1, OneAgent DEF Back, Ask, SetThread
  <2>3. /\ rpc' \in [Threads -> RpcRec] /\ rpc'[t].goal = "A"
        /\ \A u \in Threads \ {t} : rpc'[u] = rpc[u]
        /\ UNCHANGED work
    <3>1. rpc' = [rpc EXCEPT ![t] = [NoRpc EXCEPT !.goal = "A"]] /\ UNCHANGED work
      BY <1>4 DEF Back, Ask
    <3>2. [NoRpc EXCEPT !.goal = "A"] \in RpcRec /\ [NoRpc EXCEPT !.goal = "A"].goal = "A"
      BY DEF NoRpc, RpcRec, Proclets, Places
    <3> QED
      BY <1>1, <3>1, <3>2 DEF TypeOK
  <2>4. CallerPhase(t)'
    BY <1>1, <1>2, <2>1, <2>2, <2>3 DEF CallerPhase, Thread, NotYet, Already, Asking, work
  <2>5. Settled(c)'
    BY <1>2, <2>1, <2>2, ConstantsOK DEF Settled, Asking
  <2>6. Phases'
    BY <1>1, <1>2, <2>1, <2>2, <2>3, <2>4, <2>5, CallerPhases DEF work
  <2> QED
    BY <1>1, <2>2, <2>3, <2>6 DEF Back, CallInv, Phases, TypeOK, places, work
<1> QED
  BY <1>3, <1>4

LEMMA LoadCallInv ==
  ASSUME CallInv, NEW t \in Threads, LoadThread(t)
  PROVE  CallInv'
<1>1. Thread(t) \in AgentRec /\ CallerPhase(t) /\ TypeOK
  BY CallerKnown
<1>2. Thread(t).pc = "sent" /\ did[t] = 1
  BY <1>1 DEF LoadThread, CallerPhase, Asking
<1>3. CASE Usable(rpc[t].to, "A")
  <2>1. rpc[t].to \in Nodes
    BY <1>1, <1>3 DEF Usable, TypeOK, RpcRec, Places
  <2> QED
    BY <2>1, <1>2, <1>3, ReturnCallInv DEF LoadThread
<1>4. CASE ~Usable(rpc[t].to, "A")
  <2>1. SetThread(t, [Thread(t) EXCEPT !.pc = "wrong"])
        /\ UNCHANGED <<rpc, cache, places, ref_cnt, refs, work>>
    BY <1>4 DEF LoadThread
  <2>2. rpc' \in [Threads -> RpcRec] /\ cache' \in [Nodes -> [Proclets -> Places]]
    BY <2>1, <1>1 DEF TypeOK
  <2> QED
    BY <2>1, <2>2, <1>2, AskingStep DEF Asking
<1> QED
  BY <1>3, <1>4

LEMMA StartCallInv ==
  ASSUME CallInv, NEW t \in Threads, HandlerStart(t)
  PROVE  CallInv'
<1> DEFINE c == <<t, "caller">>
           n == rpc[t].to
           h == <<t, job[t]>>
           r == Enter([Idle EXCEPT !.at = n, !.birth = n], job[t])
           w == [ag[c] EXCEPT !.pc = "wait"]
<1>1. c \in Agents /\ Thread(t) = ag[c] /\ Thread(t) \in AgentRec /\ CallerPhase(t)
      /\ TypeOK /\ Settled(c)
  BY AgentsOf, CallerKnown
<1>2. Thread(t).pc = "sent" /\ rpc[t].goal = "B" /\ did[t] = 0 /\ job[t] \in Jobs
      /\ Thread(t).at # None /\ Thread(t).own = None
  BY <1>1 DEF HandlerStart, CallerPhase, Asking, TypeOK, Settled
<1>3. CASE ~Usable(n, "B")
  <2>1. SetThread(t, [Thread(t) EXCEPT !.pc = "wrong"])
        /\ UNCHANGED <<rpc, cache, places, ref_cnt, refs, work>>
    BY <1>3 DEF HandlerStart
  <2> QED
    BY <2>1, <1>1, <1>2, AskingStep DEF TypeOK, Asking
<1>4. CASE Usable(n, "B")
  <2>1. h \in Agents /\ h # c /\ n \in Nodes
    BY <1>1, <1>2, <1>4, AgentsOf DEF Jobs, Usable, TypeOK, RpcRec, Places
  <2>2. r \in AgentRec /\ NotYet(r.pc) /\ r.own = "B" /\ r.at = n
        /\ (r.pc = "count" => r.guard = "B")
    BY <2>1, <1>2 DEF Enter, Idle, AgentRec, AgentPcs, Proclets, Places, NotYet, Jobs
  <2>3. w \in AgentRec /\ w.pc = "wait" /\ w.at = ag[c].at /\ w.own = ag[c].own
    BY <1>1 DEF AgentRec, AgentPcs
  <2>4. ag' = [ag EXCEPT ![h] = r, ![c] = w]
    BY <1>1, <1>4, <2>1 DEF HandlerStart
  <2>5. ag' \in [Agents -> AgentRec] /\ ag'[h] = r /\ ag'[c] = w
        /\ \A y \in Agents \ {h, c} : ag'[y] = ag[y]
    BY <1>1, <2>1, <2>2, <2>3, <2>4 DEF TypeOK
  <2>6. refs' \in [Nodes -> Int] /\ UNCHANGED <<places, ref_cnt, cache, rpc, work>>
    BY <1>1, <1>4, <2>1 DEF HandlerStart, TypeOK
  <2>7. ASSUME NEW u \in Threads PROVE CallerPhase(u)'
    <3>1. CallerPhase(u)
      BY DEF CallInv
    <3>2. CASE u = t
      BY <1>1, <1>2, <2>2, <2>3, <2>5, <2>6, <3>2 DEF CallerPhase, Thread, NotYet, Already, Asking,
         work, Jobs, None
    <3>3. CASE u # t
      <4>1. Thread(u)' = Thread(u)
        BY <2>1, <2>5, <3>3, AgentsOf DEF Thread, Jobs
      <4>2. job[u] \in Jobs => ag'[<<u, job[u]>>] = ag[<<u, job[u]>>]
        BY <2>5, <3>3, AgentsOf
      <4>3. job[u] \in Jobs \/ Thread(u).pc = "run"
        BY <1>1, <3>1 DEF TypeOK, CallerPhase
      <4> QED
        BY <2>6, <3>1, <4>1, <4>2, <4>3 DEF CallerPhase, NotYet, Already, Asking, work
    <3> QED
      BY <3>2, <3>3
  <2>8. ASSUME NEW u \in Threads, NEW j \in Jobs PROVE HandlerPhase(u, j)'
    <3>1. HandlerPhase(u, j)
      BY DEF CallInv
    <3>2. CASE u = t
      <4>1. Thread(t)' = w /\ job' = job
        BY <2>5, <2>6 DEF Thread, work
      <4>2. CASE j = job[t]
        BY <2>3, <3>2, <4>1, <4>2 DEF HandlerPhase
      <4>3. CASE j # job[t]
        <5>1. ag'[<<t, j>>] = ag[<<t, j>>]
          BY <2>5, <4>3, AgentsOf DEF Jobs
        <5> QED
          BY <1>2, <3>1, <3>2, <5>1 DEF HandlerPhase
      <4> QED
        BY <4>2, <4>3
    <3>3. CASE u # t
      <4>1. Thread(u)' = Thread(u) /\ ag'[<<u, j>>] = ag[<<u, j>>]
        BY <2>1, <2>5, <3>3, AgentsOf DEF Thread, Jobs
      <4> QED
        BY <2>6, <3>1, <4>1 DEF HandlerPhase, work
    <3> QED
      BY <3>2, <3>3
  <2>9. ASSUME NEW x \in Agents PROVE Settled(x)'
    <3>1. Settled(x)
      BY DEF CallInv
    <3>2. CASE x = h
      BY <3>2, <2>1, <2>2, <2>5, ConstantsOK DEF Settled, NotYet, Asking
    <3>3. CASE x = c
      BY <3>3, <1>1, <1>2, <2>3, <2>5 DEF Settled, Asking
    <3>4. CASE x \notin {h, c}
      BY <3>1, <3>4, <2>5 DEF Settled
    <3> QED
      BY <3>2, <3>3, <3>4
  <2> QED
    BY <1>1, <2>5, <2>6, <2>7, <2>8, <2>9 DEF CallInv, TypeOK, places, work
<1> QED
  BY <1>3, <1>4

---------------------------------------------------------------------------
(* The steps of who works on a call.                                       *)

LEMMA WorkerKnown ==
  ASSUME CallInv, NEW x \in Agents
  PROVE  /\ ag[x] \in AgentRec /\ TypeOK /\ Settled(x) /\ x[1] \in Threads
         /\ NotYet(ag[x].pc) => did[x[1]] = 0 /\ job[x[1]] \in Jobs
         /\ Already(ag[x].pc) => did[x[1]] = 1 /\ job[x[1]] \in Jobs
<1> DEFINE t == x[1]
<1>1. ag[x] \in AgentRec /\ TypeOK /\ Settled(x) /\ t \in Threads /\ CallerPhase(t)
      /\ job[t] \in Jobs \cup {None}
  BY AgentIs DEF CallInv, TypeOK
<1>2. CASE x = <<t, "caller">>
  BY <1>1, <1>2 DEF CallerPhase, Thread, NotYet, Already
<1>3. ASSUME NEW j \in Jobs, x = <<t, j>>, NotYet(ag[x].pc) \/ Already(ag[x].pc)
      PROVE  /\ NotYet(ag[x].pc) => did[t] = 0 /\ job[t] \in Jobs
             /\ Already(ag[x].pc) => did[t] = 1 /\ job[t] \in Jobs
  <2>1. Thread(t).pc = "wait" /\ job[t] = j
    BY <1>1, <1>3 DEF CallInv, HandlerPhase
  <2> QED
    BY <1>1, <1>3, <2>1 DEF CallerPhase, NotYet, Already
<1> QED
  BY <1>1, <1>2, <1>3, AgentIs

LEMMA RunBodyCallInv ==
  ASSUME CallInv, NEW x \in Agents, RunBody(x)
  PROVE  CallInv'
<1> DEFINE r == [ag[x] EXCEPT !.pc = "ran"]
<1>1. ag[x] \in AgentRec /\ TypeOK /\ Settled(x) /\ x[1] \in Threads /\ did[x[1]] = 0
      /\ ag[x].own = "B"
  BY WorkerKnown DEF RunBody, NotYet, Settled
<1>2. r \in AgentRec /\ r.pc = "ran" /\ r.at = ag[x].at /\ r.own = "B"
  BY <1>1 DEF AgentRec, AgentPcs
<1>3. ag' = [ag EXCEPT ![x] = r] /\ ag' \in [Agents -> AgentRec] /\ ag'[x] = r
  BY <1>1, <1>2, OneAgent DEF RunBody
<1>4. did' \in [Threads -> {0, 1}] /\ did'[x[1]] = 1 /\ \A u \in Threads \ {x[1]} : did'[u] = did[u]
  BY <1>1 DEF RunBody, TypeOK
<1>5. Phases'
  <2>1. Already(r.pc) /\ (NotYet(ag[x].pc) \/ Already(ag[x].pc)) /\ UNCHANGED <<job, rpc>>
    BY <1>1, <1>2, <1>3, <1>4 DEF RunBody, NotYet, Already, work
  <2>2. Settled(x)'
    BY <1>1, <1>2, <1>3, <1>4 DEF RunBody, Settled, Asking
  <2> QED
    BY <1>1, <1>2, <1>3, <1>4, <2>1, <2>2, WorkPhases
<1> QED
  BY <1>1, <1>3, <1>4, <1>5 DEF RunBody, CallInv, Phases, TypeOK, places

LEMMA ReguardCallInv ==
  ASSUME CallInv, NEW x \in Agents, Reguard(x, "ran", "done") \/ Reguard(x, "again", "kill")
  PROVE  CallInv'
<1>1. ag[x] \in AgentRec /\ TypeOK /\ Settled(x) /\ x[1] \in Threads
      /\ Already(ag[x].pc) /\ did[x[1]] = 1 /\ ag[x].at # None /\ ag[x].own = "B"
  BY WorkerKnown DEF Reguard, Already, Usable, Settled
<1>2. PICK pc \in {"done", "kill"} : ag' = [ag EXCEPT ![x] = [@ EXCEPT !.pc = pc, !.guard = "B"]]
  BY DEF Reguard
<1> DEFINE r == [ag[x] EXCEPT !.pc = pc, !.guard = "B"]
<1>3. r \in AgentRec /\ r.pc = pc /\ r.at = ag[x].at /\ r.guard = "B" /\ r.own = "B"
  BY <1>1 DEF AgentRec, AgentPcs, Proclets
<1>4. ag' = [ag EXCEPT ![x] = r] /\ ag' \in [Agents -> AgentRec] /\ ag'[x] = r
  BY <1>1, <1>2, <1>3, OneAgent
<1>5. UNCHANGED <<places, ref_cnt, cache, rpc, refs, work>>
  BY DEF Reguard
<1>6. Phases'
  BY <1>1, <1>3, <1>4, <1>5, WorkPhases DEF Already, Settled, Asking, work
<1> QED
  BY <1>1, <1>4, <1>5, <1>6 DEF CallInv, Phases, TypeOK, places, work

LEMMA CountCallInv ==
  ASSUME CallInv, NEW x \in Agents, Count(x)
  PROVE  CallInv'
<1>1. ag[x] \in AgentRec /\ TypeOK /\ Settled(x) /\ x[1] \in Threads /\ did[x[1]] = 0
      /\ ag[x].at # None /\ ag[x].own = "B" /\ ag[x].guard = "B"
  BY WorkerKnown DEF Count, NotYet, Settled
<1>2. PICK pc \in {"kill", "done"} : ag' = [ag EXCEPT ![x].pc = pc]
  BY DEF Count
<1> DEFINE r == [ag[x] EXCEPT !.pc = pc]
<1>3. r \in AgentRec /\ r.pc = pc /\ r.at = ag[x].at /\ r.guard = "B" /\ r.own = "B"
  BY <1>1 DEF AgentRec, AgentPcs
<1>4. ag' = [ag EXCEPT ![x] = r] /\ ag' \in [Agents -> AgentRec] /\ ag'[x] = r
  BY <1>1, <1>2, <1>3, OneAgent
<1>5. did' \in [Threads -> {0, 1}] /\ did'[x[1]] = 1 /\ \A u \in Threads \ {x[1]} : did'[u] = did[u]
  BY <1>1 DEF Count, TypeOK
<1>6. ref_cnt' \in Int
  BY <1>1 DEF Count, TypeOK
<1>7. Phases'
  <2>1. Already(r.pc) /\ (NotYet(ag[x].pc) \/ Already(ag[x].pc)) /\ UNCHANGED <<job, rpc>>
    BY <1>1, <1>3, <1>4, <1>5 DEF Count, NotYet, Already, work
  <2>2. Settled(x)'
    BY <1>1, <1>3, <1>4, <1>5 DEF Count, Settled, Asking
  <2> QED
    BY <1>1, <1>3, <1>4, <1>5, <2>1, <2>2, WorkPhases
<1> QED
  BY <1>1, <1>4, <1>5, <1>6, <1>7 DEF Count, CallInv, Phases, TypeOK, places

LEMMA KillCallInv ==
  ASSUME CallInv, NEW x \in Agents, Kill(x)
  PROVE  CallInv'
<1>1. ag[x] \in AgentRec /\ TypeOK /\ Settled(x) /\ x[1] \in Threads /\ did[x[1]] = 1
      /\ ag[x].at # None /\ ag[x].own = "B"
  BY WorkerKnown DEF Kill, Already, Settled
<1>2. PICK pc \in {"dtor", "again"} : ag' = [ag EXCEPT ![x] = [@ EXCEPT !.pc = pc, !.guard = None]]
  BY DEF Kill
<1> DEFINE r == [ag[x] EXCEPT !.pc = pc, !.guard = None]
<1>3. r \in AgentRec /\ r.pc = pc /\ r.at = ag[x].at /\ r.own = "B"
  BY <1>1 DEF AgentRec, AgentPcs
<1>4. ag' = [ag EXCEPT ![x] = r] /\ ag' \in [Agents -> AgentRec] /\ ag'[x] = r
  BY <1>1, <1>2, <1>3, OneAgent
<1>5. status' \in [Nodes -> [Proclets -> {"present", "migrating", "destructing", "absent"}]]
  <2>1. CASE status' = status
    BY <1>1, <2>1 DEF TypeOK
  <2>2. CASE status' = [status EXCEPT ![ag[x].at]["B"] = "destructing"]
    BY <1>1, <2>2 DEF TypeOK
  <2> QED
    BY <2>1, <2>2 DEF Kill, SetStatus
<1>6. UNCHANGED <<ctl, news, mig, moves, ref_cnt, cache, rpc, refs, work>>
  BY DEF Kill
<1>7. Phases'
  BY <1>1, <1>3, <1>4, <1>6, WorkPhases DEF Kill, Already, Settled, Asking, work
<1> QED
  BY <1>1, <1>4, <1>5, <1>6, <1>7 DEF CallInv, Phases, TypeOK, work

LEMMA DestructCallInv ==
  ASSUME CallInv, NEW x \in Agents, Destruct(x)
  PROVE  CallInv'
<1> DEFINE r == [ag[x] EXCEPT !.pc = "done", !.guard = "B", !.destructed = TRUE]
<1>1. ag[x] \in AgentRec /\ TypeOK /\ Settled(x) /\ x[1] \in Threads /\ did[x[1]] = 1
      /\ ag[x].at # None /\ ag[x].own = "B"
  BY WorkerKnown DEF Destruct, Already, Settled, Usable
<1>2. r \in AgentRec /\ r.pc = "done" /\ r.at = ag[x].at /\ r.guard = "B" /\ r.own = "B"
  BY <1>1 DEF AgentRec, AgentPcs, Proclets
<1>3. ag' = [ag EXCEPT ![x] = r] /\ ag' \in [Agents -> AgentRec] /\ ag'[x] = r
  BY <1>1, <1>2, OneAgent DEF Destruct
<1>4. status' \in [Nodes -> [Proclets -> {"present", "migrating", "destructing", "absent"}]]
  BY <1>1 DEF Destruct, SetStatus, TypeOK
<1>5. ctl' \in [Proclets -> Places]
  BY <1>1 DEF Destruct, Freed, TypeOK, Places
<1>6. UNCHANGED <<news, mig, moves, ref_cnt, cache, rpc, refs, work>>
  BY DEF Destruct
<1>7. Phases'
  <2>1. Already(r.pc) /\ (NotYet(ag[x].pc) \/ Already(ag[x].pc)) /\ UNCHANGED <<job, rpc>>
    BY <1>1, <1>2, <1>3, <1>6 DEF Destruct, NotYet, Already, work
  <2>2. Settled(x)'
    BY <1>1, <1>2, <1>3, <1>6 DEF Destruct, Settled, Asking
  <2> QED
    BY <1>1, <1>2, <1>3, <1>6, <2>1, <2>2, WorkPhases DEF work
<1> QED
  BY <1>1, <1>3, <1>4, <1>5, <1>6, <1>7 DEF CallInv, Phases, TypeOK, work

LEMMA CountedOutOnce ==
  ASSUME refs \in [Nodes -> Int], NEW n, refs' = [refs EXCEPT ![n] = @ - 1]
  PROVE  refs' \in [Nodes -> Int]
<1>1. CASE n \in Nodes
  BY <1>1
<1>2. CASE n \notin Nodes
  BY <1>2
<1> QED
  BY <1>1, <1>2

(* A handler answers: its caller goes on.                                  *)
LEMMA RespondCallInv ==
  ASSUME CallInv, NEW x \in Agents, Respond(x)
  PROVE  CallInv'
<1>1. PICK t \in Threads, j \in Jobs : x = <<t, j>>
  BY AgentIs DEF Respond
<1> DEFINE c == <<t, "caller">>
           r == [ag[x] EXCEPT !.pc = "end"]
           w == [ag[c] EXCEPT !.pc = "answered"]
<1>2. /\ ag[x] \in AgentRec /\ TypeOK /\ Settled(x) /\ t \in Threads
      /\ ag[x].own = "B" /\ ag[x].guard = "B" /\ ag[x].at # None
  BY WorkerKnown DEF Respond, Settled
<1>3. Thread(t).pc = "wait" /\ job[t] = j /\ did[t] = 1
  <2>1. HandlerPhase(t, j) /\ CallerPhase(t)
    BY <1>2 DEF CallInv
  <2> QED
    BY <2>1, <1>1 DEF Respond, HandlerPhase, CallerPhase, NotYet, Already
<1>4. c \in Agents /\ x # c /\ Thread(t) = ag[c] /\ ag[c] \in AgentRec /\ Settled(c)
  BY <1>1, <1>2, AgentsOf, CallerKnown DEF Jobs
<1>5. r \in AgentRec /\ r.pc = "end" /\ r.own = "B" /\ r.guard = "B" /\ r.at = ag[x].at
  BY <1>2 DEF AgentRec, AgentPcs
<1>6. w \in AgentRec /\ w.pc = "answered" /\ w.own = None /\ w.at # None
  BY <1>3, <1>4 DEF AgentRec, AgentPcs, Settled
<1>7. ag' = [ag EXCEPT ![x] = r, ![c] = w]
  BY <1>1, <1>2, <1>4 DEF Respond, Answer, TypeOK
<1>8. /\ ag' \in [Agents -> AgentRec] /\ ag'[x] = r /\ ag'[c] = w
      /\ \A y \in Agents \ {x, c} : ag'[y] = ag[y]
  BY <1>2, <1>4, <1>5, <1>6, <1>7 DEF TypeOK
<1>9. refs' \in [Nodes -> Int]
  <2>1. refs' = refs \/ refs' = [refs EXCEPT ![ag[x].birth] = @ - 1]
    BY DEF Respond
  <2> QED
    BY <1>2, <2>1, CountedOutOnce DEF TypeOK
<1>10. UNCHANGED <<places, ref_cnt, cache, rpc, work>>
  BY DEF Respond
<1>11. ASSUME NEW u \in Threads PROVE CallerPhase(u)'
  <2>1. CallerPhase(u)
    BY DEF CallInv
  <2>2. CASE u = t
    BY <2>1, <2>2, <1>3, <1>6, <1>8, <1>10 DEF CallerPhase, Thread, NotYet, Already, Asking, work, Jobs, None
  <2>3. CASE u # t
    <3>1. Thread(u)' = Thread(u)
      BY <1>1, <1>8, <2>3, AgentsOf DEF Thread, Jobs
    <3>2. job[u] \in Jobs => ag'[<<u, job[u]>>] = ag[<<u, job[u]>>]
      BY <1>1, <1>8, <2>3, AgentsOf
    <3>3. job[u] \in Jobs \/ Thread(u).pc = "run"
      BY <1>2, <2>1 DEF TypeOK, CallerPhase
    <3> QED
      BY <1>10, <2>1, <3>1, <3>2, <3>3 DEF CallerPhase, NotYet, Already, Asking, work
  <2> QED
    BY <2>2, <2>3
<1>12. ASSUME NEW u \in Threads, NEW k \in Jobs PROVE HandlerPhase(u, k)'
  <2>1. HandlerPhase(u, k)
    BY DEF CallInv
  <2>2. CASE u = t /\ k = j
    BY <2>2, <1>1, <1>5, <1>8 DEF HandlerPhase, NotYet, Already
  <2>3. CASE u = t /\ k # j
    <3>1. ag'[<<u, k>>] = ag[<<u, k>>]
      BY <2>3, <1>1, <1>8, AgentsOf DEF Jobs
    <3> QED
      BY <2>1, <2>3, <3>1, <1>3 DEF HandlerPhase
  <2>4. CASE u # t
    <3>1. Thread(u)' = Thread(u) /\ ag'[<<u, k>>] = ag[<<u, k>>]
      BY <2>4, <1>1, <1>8, AgentsOf DEF Thread, Jobs
    <3> QED
      BY <2>1, <3>1, <1>10 DEF HandlerPhase, work
  <2> QED
    BY <2>2, <2>3, <2>4
<1>13. ASSUME NEW y \in Agents PROVE Settled(y)'
  <2>1. Settled(y)
    BY DEF CallInv
  <2>2. CASE y = x
    BY <2>2, <1>2, <1>5, <1>8 DEF Settled, Asking
  <2>3. CASE y = c
    BY <2>3, <1>6, <1>8 DEF Settled, Asking
  <2>4. CASE y \notin {x, c}
    BY <2>1, <2>4, <1>8 DEF Settled
  <2> QED
    BY <2>2, <2>3, <2>4
<1> QED
  BY <1>2, <1>8, <1>9, <1>10, <1>11, <1>12, <1>13 DEF CallInv, TypeOK, places, work

(* A handler that has answered is nobody's business any more.              *)
LEMMA RestCallInv ==
  ASSUME CallInv, NEW x \in Agents, NEW r \in AgentRec, ag' = [ag EXCEPT ![x] = r],
         ag[x].pc \in {"end", "sync"}, r.pc \in {"idle", "sync"},
         r.pc = "sync" => r.own = None /\ r.at # None,
         refs' \in [Nodes -> Int], ctl' \in [Proclets -> Places],
         UNCHANGED <<status, news, mig, moves, ref_cnt, cache, rpc, work>>
  PROVE  CallInv'
<1>1. /\ ag' \in [Agents -> AgentRec] /\ ag'[x] = r
      /\ \A y \in Agents \ {x} : ag'[y] = ag[y]
      /\ TypeOK
  BY OneAgent DEF CallInv
<1>2. ASSUME NEW u \in Threads PROVE CallerPhase(u)' /\ <<u, "caller">> # x
  <2>1. CallerPhase(u) /\ Thread(u) = ag[<<u, "caller">>] /\ <<u, "caller">> \in Agents
    BY CallerKnown, AgentsOf
  <2>2. <<u, "caller">> # x /\ Thread(u)' = Thread(u)
    BY <2>1, <1>1 DEF CallerPhase, Thread
  <2>3. job[u] \in Jobs => /\ ag'[<<u, job[u]>>] = ag[<<u, job[u]>>]
                           \/ ~(NotYet(ag[<<u, job[u]>>].pc) \/ Already(ag[<<u, job[u]>>].pc))
    BY <1>1, AgentsOf DEF NotYet, Already
  <2>4. job[u] \in Jobs \/ Thread(u).pc = "run"
    BY <1>1, <2>1 DEF TypeOK, CallerPhase
  <2> QED
    BY <2>1, <2>2, <2>3, <2>4 DEF CallerPhase, NotYet, Already, Asking, work
<1>3. ASSUME NEW u \in Threads, NEW k \in Jobs PROVE HandlerPhase(u, k)'
  <2>1. HandlerPhase(u, k) /\ <<u, k>> \in Agents
    BY AgentsOf DEF CallInv
  <2>2. Thread(u)' = Thread(u)
    BY <1>1, <1>2, AgentsOf DEF Thread
  <2>3. CASE <<u, k>> = x
    BY <2>3, <1>1 DEF HandlerPhase, NotYet, Already
  <2>4. CASE <<u, k>> # x
    BY <2>1, <2>2, <2>4, <1>1 DEF HandlerPhase, work
  <2> QED
    BY <2>3, <2>4
<1>4. ASSUME NEW y \in Agents PROVE Settled(y)'
  <2>1. CASE y = x
    BY <2>1, <1>1 DEF Settled, Asking
  <2>2. CASE y # x
    BY <2>2, <1>1 DEF CallInv, Settled
  <2> QED
    BY <2>1, <2>2
<1> QED
  BY <1>1, <1>2, <1>3, <1>4 DEF CallInv, TypeOK, work

LEMMA EndCallInv ==
  ASSUME CallInv, NEW x \in Agents, End(x) \/ Cleanup(x)
  PROVE  CallInv'
<1>1. ag[x] \in AgentRec /\ TypeOK /\ Settled(x)
  BY WorkerKnown
<1>2. CASE Cleanup(x)
  <2> DEFINE r == [Idle EXCEPT !.destructed = TRUE]
  <2>1. r \in AgentRec /\ r.pc = "idle"
    BY DEF Idle, AgentRec, AgentPcs, Proclets, Places
  <2>2. ctl' \in [Proclets -> Places]
    BY <1>1, <1>2 DEF Cleanup, Freed, TypeOK, Places
  <2>3. refs' \in [Nodes -> Int]
    BY <1>1, <1>2, CountedOutOnce DEF Cleanup, TypeOK
  <2> QED
    BY <1>2, <2>1, <2>2, <2>3, RestCallInv DEF Cleanup
<1>3. CASE End(x)
  <2> DEFINE s == [ag[x] EXCEPT !.pc = "sync", !.own = None, !.guard = None]
             r == [Idle EXCEPT !.destructed = ag[x].destructed, !.migrated = ag[x].migrated]
  <2>1. s \in AgentRec /\ s.pc = "sync" /\ s.own = None /\ s.at = ag[x].at /\ ag[x].at # None
    BY <1>1, <1>3 DEF AgentRec, AgentPcs, End, Settled
  <2>2. r \in AgentRec /\ r.pc = "idle"
    BY <1>1 DEF Idle, AgentRec, AgentPcs, Proclets, Places
  <2>3. ctl' \in [Proclets -> Places] /\ refs' \in [Nodes -> Int]
        /\ UNCHANGED <<status, news, mig, moves, ref_cnt, cache, rpc, work>>
    <3>1. UNCHANGED <<places, ref_cnt, cache, rpc, work>>
      BY <1>3 DEF End
    <3>2. refs' = refs \/ refs' = [refs EXCEPT ![ag[x].at] = @ - 1]
      BY <1>3 DEF End
    <3> QED
      BY <1>1, <3>1, <3>2, CountedOutOnce DEF TypeOK, places
  <2>4. CASE ag' = [ag EXCEPT ![x] = s]
    BY <1>3, <2>1, <2>3, <2>4, RestCallInv DEF End
  <2>5. CASE ag' = [ag EXCEPT ![x] = r]
    BY <1>3, <2>2, <2>3, <2>5, RestCallInv DEF End
  <2> QED
    BY <1>3, <2>4, <2>5 DEF End
<1> QED
  BY <1>2, <1>3

---------------------------------------------------------------------------
(* Migrations move threads, and no call goes on by it.                     *)

LEMMA MarkCallInv ==
  ASSUME CallInv, NEW p \in Proclets, NEW n \in Nodes, NEW d \in Nodes, Mark(p, n, d)
  PROVE  CallInv'
<1>1. TypeOK /\ mig' = [pc |-> "marked", p |-> p, from |-> n, to |-> d] /\ moves' = moves + 1
      /\ UNCHANGED <<ctl, news, ref_cnt, cache, ag, rpc, refs, work>>
  BY DEF CallInv, Mark
<1>2. status' \in [Nodes -> [Proclets -> {"present", "migrating", "destructing", "absent"}]]
  BY <1>1 DEF Mark, SetStatus, TypeOK
<1>3. mig'.p # None /\ mig'.from # None /\ mig'.to # None
  BY <1>1, ConstantsOK DEF Proclets, None
<1>4. Phases'
  BY <1>1, StayPhases DEF CallInv, Settled, work
<1> QED
  BY <1>1, <1>2, <1>3, <1>4 DEF CallInv, Phases, TypeOK, work, Places

(* Only those leave that hold no guard.                                    *)
LEMMA LeaveCallInv ==
  ASSUME CallInv, Leave
  PROVE  CallInv'
<1>1. TypeOK /\ mig.p \in Proclets \cup {None} /\ mig.p # None
      /\ mig.from \in Nodes /\ mig.to \in Places
  BY DEF CallInv, Leave, TypeOK, Places
<1>2. UNCHANGED <<ctl, moves, ref_cnt, cache, rpc, refs, work>>
  BY DEF Leave
<1>3. status' \in [Nodes -> [Proclets -> {"present", "migrating", "destructing", "absent"}]]
  BY <1>1 DEF Leave, SetStatus, TypeOK
<1>4. news' \in [Proclets -> Places]
  BY <1>1 DEF Leave, TypeOK
<1>5. mig' = [mig EXCEPT !.pc = "moving"] /\ mig' \in [pc : {"idle", "marked", "moving", "arrived"},
        p : Proclets \cup {None}, from : Places, to : Places]
      /\ mig'.p = mig.p /\ mig'.from = mig.from /\ mig'.to = mig.to /\ mig.pc # "idle"
  BY <1>1 DEF Leave, TypeOK
<1>6. ASSUME NEW x \in Agents
      PROVE  ag'[x] \in AgentRec /\ ag'[x].pc = ag[x].pc /\ Settled(x)'
  <2>1. ag[x] \in AgentRec /\ Settled(x)
    BY WorkerKnown
  <2>2. CASE ~Passengers(x)
    <3>1. ag'[x] = ag[x]
      BY <2>2 DEF Leave
    <3> QED
      BY <2>1, <3>1 DEF Settled
  <2>3. CASE Passengers(x)
    <3> DEFINE r == [ag[x] EXCEPT !.at = None]
    <3>1. ag'[x] = r
      BY <2>3 DEF Leave
    <3>2. r \in AgentRec /\ r.pc = ag[x].pc /\ r.own = ag[x].own /\ r.guard = ag[x].guard
      BY <2>1 DEF AgentRec, Places
    <3>3. ag[x].pc \notin {"count", "kill", "done", "end"}
      BY <2>1, <2>3 DEF Leave, Passengers, Guarded, Settled
    <3>4. ~Asking(ag[x].pc) /\ ag[x].pc \notin {"wait", "answered", "sync"}
      BY <1>1, <2>1, <2>3 DEF Passengers, Settled
    <3>5. ag[x].pc \in {"idle", "run", "body", "ran", "again", "dtor"}
      BY <2>1, <3>3, <3>4 DEF AgentRec, AgentPcs, Asking
    <3> QED
      BY <2>1, <3>1, <3>2, <3>3, <3>4, <3>5 DEF Settled, Asking
  <2> QED
    BY <2>2, <2>3
<1>7. ag' \in [Agents -> AgentRec]
  BY <1>6 DEF Leave
<1>8. Phases'
  BY <1>2, <1>6, StayPhases DEF work
<1> QED
  BY <1>1, <1>2, <1>3, <1>4, <1>5, <1>7, <1>8 DEF CallInv, Phases, TypeOK, work

LEMMA ArriveCallInv ==
  ASSUME CallInv, Arrive
  PROVE  CallInv'
<1>1. TypeOK /\ UNCHANGED <<ctl, news, moves, ref_cnt, cache, ag, rpc, refs, work>>
  BY DEF CallInv, Arrive
<1>2. status' \in [Nodes -> [Proclets -> {"present", "migrating", "destructing", "absent"}]]
  BY <1>1 DEF Arrive, SetStatus, TypeOK
<1>3. mig' = [mig EXCEPT !.pc = "arrived"] /\ mig' \in [pc : {"idle", "marked", "moving", "arrived"},
        p : Proclets \cup {None}, from : Places, to : Places]
      /\ mig'.p = mig.p /\ mig'.from = mig.from /\ mig'.to = mig.to /\ mig.pc # "idle"
  BY <1>1 DEF Arrive, TypeOK
<1>4. Phases'
  BY <1>1, StayPhases DEF CallInv, Settled, work
<1> QED
  BY <1>1, <1>2, <1>3, <1>4 DEF CallInv, Phases, TypeOK, work

LEMMA LoadThreadsCallInv ==
  ASSUME CallInv, LoadThreads
  PROVE  CallInv'
<1>1. TypeOK /\ mig.to \in Nodes /\ mig.to # None
      /\ UNCHANGED <<status, ctl, news, moves, ref_cnt, cache, rpc, refs, work>>
  BY DEF CallInv, LoadThreads, TypeOK, Places
<1>2. mig' = [pc |-> "idle", p |-> None, from |-> None, to |-> None]
  BY DEF LoadThreads
<1>3. ASSUME NEW x \in Agents
      PROVE  ag'[x] \in AgentRec /\ ag'[x].pc = ag[x].pc /\ Settled(x)'
  <2>1. ag[x] \in AgentRec /\ Settled(x)
    BY WorkerKnown
  <2>2. CASE ag'[x] = ag[x]
    BY <2>1, <2>2 DEF Settled
  <2>3. CASE ag'[x] = [ag[x] EXCEPT !.at = mig.to, !.migrated = ag[x].birth # None]
    <3> DEFINE r == [ag[x] EXCEPT !.at = mig.to, !.migrated = ag[x].birth # None]
    <3>1. (ag[x].birth # None) \in BOOLEAN
      OBVIOUS
    <3>2. r \in AgentRec /\ r.pc = ag[x].pc /\ r.own = ag[x].own /\ r.guard = ag[x].guard
          /\ r.at = mig.to
      BY <1>1, <2>1, <3>1 DEF AgentRec, Places
    <3> QED
      BY <1>1, <2>1, <2>3, <3>2 DEF Settled, Asking
  <2> QED
    BY <2>2, <2>3 DEF LoadThreads
<1>4. ag' \in [Agents -> AgentRec]
  BY <1>3 DEF LoadThreads
<1>5. Phases'
  BY <1>1, <1>3, StayPhases DEF work
<1> QED
  BY <1>1, <1>2, <1>4, <1>5 DEF CallInv, Phases, TypeOK, work, Places

LEMMA UpdateLocationCallInv ==
  ASSUME CallInv, NEW p \in Proclets, UpdateLocation(p)
  PROVE  CallInv'
<1>1. TypeOK /\ UNCHANGED <<status, mig, moves, ref_cnt, cache, ag, rpc, refs, work>>
  BY DEF CallInv, UpdateLocation
<1>2. ctl' \in [Proclets -> Places] /\ news' \in [Proclets -> Places]
  BY <1>1 DEF UpdateLocation, TypeOK, Places
<1>3. Phases'
  BY <1>1, StayPhases DEF CallInv, Settled, work
<1> QED
  BY <1>1, <1>2, <1>3 DEF CallInv, Phases, TypeOK, work

LEMMA StutterCallInv ==
  ASSUME CallInv, UNCHANGED vars
  PROVE  CallInv'
<1>1. UNCHANGED <<status, ctl, news, mig, moves, ref_cnt, cache, ag, rpc, refs, todo, job, did>>
  BY DEF vars, places, work
<1>2. Phases'
  BY <1>1, StayPhases DEF CallInv, Settled
<1> QED
  BY <1>1, <1>2 DEF CallInv, Phases, TypeOK

---------------------------------------------------------------------------
(* Every step keeps CallInv.                                               *)
LEMMA StepCallInv ==
  ASSUME CallInv, [Next]_vars
  PROVE  CallInv'
<1>1. ASSUME NEW t \in Threads,
             \/ HandlerStart(t) \/ LoadThread(t) \/ CallerStep(t) \/ \E j \in Jobs : Call(t, j)
      PROVE  CallInv'
  <2>1. CASE HandlerStart(t)
    BY <2>1, StartCallInv
  <2>2. CASE LoadThread(t)
    BY <2>2, LoadCallInv
  <2>3. CASE CallerStep(t)
    BY <2>3, LookCallInv, BackCallInv DEF CallerStep
  <2>4. CASE \E j \in Jobs : Call(t, j)
    BY <2>4, CallCallInv
  <2> QED
    BY <1>1, <2>1, <2>2, <2>3, <2>4
<1>2. ASSUME NEW x \in Agents, InnerStep(x)
      PROVE  CallInv'
  <2>1. CASE RunBody(x) \/ Count(x)
    BY <2>1, RunBodyCallInv, CountCallInv
  <2>2. CASE Kill(x) \/ Destruct(x)
    BY <2>2, KillCallInv, DestructCallInv
  <2>3. CASE Reguard(x, "ran", "done") \/ Reguard(x, "again", "kill")
    BY <2>3, ReguardCallInv
  <2>4. CASE Respond(x) \/ End(x) \/ Cleanup(x)
    BY <2>4, RespondCallInv, EndCallInv
  <2> QED
    BY <1>2, <2>1, <2>2, <2>3, <2>4 DEF InnerStep
<1>3. CASE MigrationStep
  BY <1>3, LeaveCallInv, ArriveCallInv, LoadThreadsCallInv, UpdateLocationCallInv
     DEF MigrationStep
<1>4. CASE \E p \in Proclets, n, d \in Nodes : Mark(p, n, d)
  BY <1>4, MarkCallInv
<1>5. CASE UNCHANGED vars
  BY <1>5, StutterCallInv
<1> QED
  BY <1>1, <1>2, <1>3, <1>4, <1>5 DEF Next, Terminated

(* Where a call is says whether it has been done, wherever both proclets   *)
(* are: the retries after kErrWrongClient come before the method is run,   *)
(* the looks for the caller's proclet after it.                            *)
THEOREM CallInvariant == Spec => []CallInv
<1>1. CallInv /\ [Next]_vars => CallInv'
  BY StepCallInv
<1> QED
  BY <1>1, InitCallInv, PTL DEF Spec

(* The caller's steps outside of B are invisible, but for the return.      *)
LEMMA ReturnImplements ==
  ASSUME CallInv, NEW t \in Threads, LoadThread(t) \/ Back(t)
  PROVE  Promise!Return(t) \/ UNCHANGED <<job, did>>
<1>1. CallerPhase(t) /\ TypeOK
  BY DEF CallInv
<1>2. (job[t] # None /\ did[t] = 1) \/ UNCHANGED <<job, did>>
  <2>1. CASE Back(t)
    BY <1>1, <2>1 DEF Back, CallerPhase, Already
  <2>2. CASE LoadThread(t)
    BY <1>1, <2>2 DEF LoadThread, CallerPhase, Asking, work
  <2> QED
    BY <2>1, <2>2
<1>3. Finish(t) \/ UNCHANGED <<job, did>>
  BY DEF LoadThread, Back, work
<1> QED
  BY <1>2, <1>3 DEF Finish, Promise!Return

(* The method is run, or the reference counted, once.                      *)
LEMMA DoImplements ==
  ASSUME CallInv, NEW x \in Agents, RunBody(x) \/ Count(x)
  PROVE  Promise!Do(x[1])
<1>1. x[1] \in Threads /\ did[x[1]] = 0 /\ job[x[1]] \in Jobs /\ TypeOK
  BY WorkerKnown DEF RunBody, Count, NotYet
<1>2. job[x[1]] # None
  BY <1>1 DEF Jobs, None
<1>3. did' = [did EXCEPT ![x[1]] = 1] /\ UNCHANGED job
  BY <1>1 DEF RunBody, Count, TypeOK
<1> QED
  BY <1>1, <1>2, <1>3 DEF Promise!Do

(* A call is made once the one before it has returned.                     *)
LEMMA CallImplements ==
  ASSUME CallInv, NEW t \in Threads, NEW j \in Jobs, Call(t, j)
  PROVE  Promise!Call(t, j)
<1>1. CallerPhase(t)
  BY DEF CallInv
<1> QED
  BY <1>1 DEF CallerPhase, Call, Promise!Call

(* ProcletCalls implements RemoteCall: a method that is called is run      *)
(* once, and before the call returns, although an RPC may be sent to many  *)
(* nodes and the caller's proclet, the callee and its handler may move at  *)
(* any time.                                                               *)
THEOREM CallsImplementPromise == Spec => ImplementsCalls
<1>1. Init => Promise!Init
  BY DEF Init, Promise!Init
<1>2. CallInv /\ [Next]_vars => [Promise!Next]_(Promise!vars)
  <2> SUFFICES ASSUME CallInv, [Next]_vars
               PROVE  (\E t \in Threads : Promise!Do(t) \/ Promise!Return(t)
                                          \/ \E j \in Jobs : Promise!Call(t, j))
                      \/ UNCHANGED <<job, did>>
    BY DEF Promise!Next, Promise!vars
  <2>1. ASSUME NEW t \in Threads, HandlerStart(t) \/ LookCached(t) \/ Resolve(t)
                                  \/ Store(t) \/ WrongClient(t)
        PROVE  UNCHANGED <<job, did>>
    BY <2>1 DEF HandlerStart, LookCached, Resolve, Store, WrongClient, work
  <2>2. ASSUME NEW t \in Threads, LoadThread(t) \/ Back(t)
        PROVE  Promise!Return(t) \/ UNCHANGED <<job, did>>
    BY <2>2, ReturnImplements
  <2>3. ASSUME NEW t \in Threads, NEW j \in Jobs, Call(t, j)
        PROVE  Promise!Call(t, j)
    BY <2>3, CallImplements
  <2>4. ASSUME NEW x \in Agents, RunBody(x) \/ Count(x)
        PROVE  x[1] \in Threads /\ Promise!Do(x[1])
    BY <2>4, DoImplements, AgentIs
  <2>5. ASSUME NEW x \in Agents,
               \/ Kill(x) \/ Destruct(x) \/ Respond(x) \/ End(x) \/ Cleanup(x)
               \/ Reguard(x, "ran", "done") \/ Reguard(x, "again", "kill")
        PROVE  UNCHANGED <<job, did>>
    BY <2>5 DEF Kill, Destruct, Respond, End, Cleanup, Reguard, work
  <2>6. CASE MigrationStep \/ \E p \in Proclets, n, d \in Nodes : Mark(p, n, d)
    BY <2>6 DEF MigrationStep, Leave, Arrive, LoadThreads, UpdateLocation, Mark, work
  <2>7. CASE UNCHANGED vars
    BY <2>7 DEF vars, work
  <2>8. ASSUME NEW t \in Threads,
               HandlerStart(t) \/ LoadThread(t) \/ CallerStep(t) \/ \E j \in Jobs : Call(t, j)
        PROVE  Promise!Do(t) \/ Promise!Return(t)
               \/ (\E j \in Jobs : Promise!Call(t, j)) \/ UNCHANGED <<job, did>>
    BY <2>1, <2>2, <2>3, <2>8 DEF CallerStep
  <2>9. ASSUME NEW x \in Agents, InnerStep(x)
        PROVE  (x[1] \in Threads /\ Promise!Do(x[1])) \/ UNCHANGED <<job, did>>
    BY <2>4, <2>5, <2>9 DEF InnerStep
  <2> QED
    BY <2>6, <2>7, <2>8, <2>9 DEF Next, Terminated
<1> QED
  BY <1>1, <1>2, CallInvariant, PTL DEF Spec, ImplementsCalls, Promise!Spec
=============================================================================
