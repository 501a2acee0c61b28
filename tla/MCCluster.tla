----------------------------- MODULE MCCluster -----------------------------
(***************************************************************************)
(* The server masters, in three parts side by side:                        *)
(*   election   two servers that campaign;                                 *)
(*   failover   one executor and two servers that lead in turn, with       *)
(*              checkAlive goroutines left over from earlier terms;        *)
(*   placement  two executors, two resources and a request, under one      *)
(*              leader.                                                    *)
(***************************************************************************)
EXTENDS ServerElection, ExecutorPool, TLC

CONSTANTS s1, s2, e1, e2
VARIABLE part

mcVars == <<electionVars, poolVars, part>>

\* What the two parts about executors see of the election, and what the
\* election sees of the executors: one where nothing is left to do.
Elections == part = "election" /\ ElectionInit
Settled ==
  /\ part # "election"
  /\ pc = (s1 :> "ready" @@ s2 :> "watch")
  /\ view = [s \in Server |-> s1]
  /\ cli = (s1 :> NoServer @@ s2 :> s1)
  /\ initialized = [s \in Server |-> s = s1]
  /\ session = [s \in Server |-> TRUE]
  /\ keys = {[srv |-> s1, st |-> "live", rev |-> 0]}
  /\ deleted = {}
  /\ etcdLeader = s1
  /\ faults = 0

MCInit ==
  /\ part \in {"election", "failover", "placement"}
  /\ Elections \/ Settled
  /\ PoolInitWith(IF part = "election" THEN MaxTerms ELSE 0)

OneExecutor == ex'[e2] = "new" /\ UNCHANGED <<at, task>>
OneTerm == /\ terms'[s2] = 0 /\ terms'[s1] < 2 /\ lost' = 0
           /\ s1 \in leaders => s1 \in leaders'

MCNext ==
  \/ part = "election" /\ ElectionNext /\ UNCHANGED <<poolVars, part>>
  \/ part = "failover" /\ PoolNext /\ OneExecutor /\ UNCHANGED <<electionVars, part>>
  \/ part = "placement" /\ PoolNext /\ OneTerm /\ UNCHANGED <<electionVars, part>>

MCSpec == MCInit /\ [][MCNext]_mcVars /\ ElectionFairness /\ PoolFairness
=============================================================================
