-------------------------- MODULE MCMasterWorkers --------------------------
(***************************************************************************)
(* Two starting points.                                                    *)
(*   Init        one worker through its whole life, with a failover of its *)
(*               master at any point;                                      *)
(*   TakenOver   InitAfterRecover with two workers, from the moment a      *)
(*               second master has taken over: both workers of the first   *)
(*               one run, heartbeats addressed to the first one are still  *)
(*               on their way, and neither worker knows of the failover.   *)
(***************************************************************************)
EXTENDS MasterWorkers

CONSTANTS w1, w2, e1, e2

MCWorkerID == {w1, w2}
MCEntry == {e1, e2}
MCIdOf == [e \in MCEntry |-> IF e = e1 THEN w1 ELSE w2]

TakenOver ==
  /\ wmState = "LoadingMeta" /\ epoch = 2
  /\ workerEntries = [w \in WorkerID |-> NoEntry]
  /\ entryState = [e \in Entry |-> "Unused"]
  /\ finished = {} /\ expired = {}
  /\ status = [e \in Entry |-> "Created"]
  /\ eventQueue = <<>> /\ handling = <<>> /\ ticking = FALSE
  /\ sweep = {} /\ readyClosed = FALSE /\ errs = {}
  /\ panicked = {}
  /\ told = [w \in WorkerID |-> "unknown"]
  /\ cpc = [e \in Entry |-> "dispatched"]
  /\ life = [e \in Entry |-> "running"]
  /\ workerEpoch = [e \in Entry |-> 1]
  /\ pings = [from : Entry, epoch : {1}, fin : {FALSE}]
  /\ statusMsgs = [e \in Entry |-> <<>>]
  /\ workerMeta = [w \in WorkerID |-> "Init"]
  /\ workerStatus = [e \in Entry |-> "Init"]
  /\ lastStatus = [e \in Entry |-> e]

\* The second worker is never created, or was before; it does not exit.
MCNext == Next /\ cpc'[e2] = cpc[e2] /\ life'[e2] # "exiting"

MCSpec == (Init \/ TakenOver) /\ [][MCNext]_vars /\ Fairness
=============================================================================
