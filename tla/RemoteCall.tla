----------------------------- MODULE RemoteCall -----------------------------
(***************************************************************************)
(* What a thread may take for granted when it calls a method of a proclet, *)
(* wherever the two are and wherever they go meanwhile: the method is run  *)
(* once, and then the call returns.  ProcletCalls implements this.         *)
(***************************************************************************)
EXTENDS Naturals

CONSTANTS Threads, Jobs, NoJob

VARIABLES
  job,     (* per thread, what it has called, or NoJob                     *)
  did      (* per thread, how often that has been done                     *)

vars == <<job, did>>

Init == job = [t \in Threads |-> NoJob] /\ did = [t \in Threads |-> 0]

Call(t, j) ==
  /\ job[t] = NoJob
  /\ job' = [job EXCEPT ![t] = j]
  /\ UNCHANGED did

Do(t) ==
  /\ job[t] # NoJob /\ did[t] = 0
  /\ did' = [did EXCEPT ![t] = 1]
  /\ UNCHANGED job

Return(t) ==
  /\ job[t] # NoJob /\ did[t] = 1
  /\ job' = [job EXCEPT ![t] = NoJob]
  /\ did' = [did EXCEPT ![t] = 0]

Next == \E t \in Threads : Do(t) \/ Return(t) \/ \E j \in Jobs : Call(t, j)

Spec == Init /\ [][Next]_vars
=============================================================================
