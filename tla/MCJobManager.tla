---------------------------- MODULE MCJobManager ----------------------------
(***************************************************************************)
(* One job, whose master is created at most twice:                         *)
(*   - twice under one leader, if the job is not paused;                   *)
(*   - under two leaders, with a second master under the second leader     *)
(*     until the job is paused or one of its masters exits.                *)
(***************************************************************************)
EXTENDS JobManager, TLC

CONSTANTS j1, e1, e2

MCWorkerID == {j1}
MCEntry == {e1, e2}
MCIdOf == [e \in MCEntry |-> j1]
Incarnations == Permutations(MCEntry)

\* The job has been neither paused nor, once it was stopped, cancelled.
NoPause ==
  /\ pauseSent = {} /\ jobMeta[j1] # "Stopped"
  /\ jobMeta[j1] = "none" => submitPC[j1] \in {"new", "failed"}

OneUnderEachLeader ==
  \/ Cardinality({e \in Entry : cpc[e] # "idle"}) <= 1
  \/ /\ epoch = 2 /\ submitPC[j1] = "done" /\ errs = {} /\ Up
     /\ NoPause /\ exited = {} /\ jobMeta[j1] \in {"Uninit", "Init"}

ReuseOrFailover == (epoch = 1 /\ NoPause /\ Up) \/ OneUnderEachLeader
=============================================================================
