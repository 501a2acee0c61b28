----------------------------- MODULE JobManager -----------------------------
(***************************************************************************)
(* The job manager of the server master (servermaster/jobmanager.go and    *)
(* job_fsm.go) over its WorkerManager.  A job is named by the worker ID of *)
(* its job master, which all incarnations of that job master share: an     *)
(* entry names one call of CreateWorker and the incarnation it launches.   *)
(* The workers are those of MasterWorkers, reduced to what a job manager   *)
(* can see of them; a heartbeat may be delivered at any time after it was  *)
(* sent, so the heartbeats in flight are determined by the state of their  *)
(* sender.                                                                 *)
(***************************************************************************)
EXTENDS WorkerManager

CONSTANT MaxEpoch   \* bounds the number of leaders

ASSUME EpochAssumption == MaxEpoch \in Nat \ {0}

VARIABLES
  pendingJobs, waitAckJobs, onlineJobs,   \* the maps of JobFsm
  addFromFailover,   \* jobs in waitAckJobs that a new leader found
  tombstoneCleaned,
  mainPC,            \* where the main goroutine is
  offlineArg,        \* the arguments of the OnWorkerOffline being run
  toVisit,           \* workers Tick got from GetWorkers and has to visit
  submitPC,          \* the call of SubmitJob for each job
  pauseSent,         \* jobs whose master was sent a StatusChangeRequest
  cancelling,        \* jobs between the check and the deletion of CancelJob
  jobMeta,           \* status in the job table, "none" where there is no row
  cpc,               \* goroutines of CreateWorker
  life,              \* incarnations of job masters
  exited,            \* those whose Exit has returned
  workerEpoch,       \* the epoch each one sends heartbeats with
  statusMsg,         \* the final status message of each one, in flight
  workerMeta         \* rows of the worker table

fsmVars == <<pendingJobs, waitAckJobs, onlineJobs, addFromFailover>>
rpcVars == <<submitPC, pauseSent, cancelling>>
mainVars == <<tombstoneCleaned, mainPC, offlineArg, toVisit>>
workerVars == <<cpc, life, exited, workerEpoch, statusMsg, workerMeta>>
vars == <<managerVars, fsmVars, rpcVars, mainVars, jobMeta, workerVars>>

Final == {"Finished", "Stopped"}
Up == mainPC \notin {"init", "down"}

JobTypeOK ==
  /\ ManagerTypeOK
  /\ pendingJobs \subseteq WorkerID
  /\ waitAckJobs \subseteq WorkerID
  /\ onlineJobs \subseteq WorkerID
  /\ addFromFailover \subseteq waitAckJobs
  /\ tombstoneCleaned \in BOOLEAN
  /\ mainPC \in {"init", "poll", "clean", "offline", "pending", "get",
                 "scan", "down"}
  /\ offlineArg \in Seq([worker : WorkerID, reason : Reasons])
  /\ toVisit \subseteq [worker : WorkerID, tombstone : BOOLEAN]
  /\ submitPC \in [WorkerID -> {"new", "stored", "created", "done", "failed"}]
  /\ pauseSent \subseteq WorkerID
  /\ cancelling \subseteq WorkerID
  /\ jobMeta \in [WorkerID -> {"none", "Uninit", "Init"} \cup Final]
  /\ cpc \in [Entry -> {"idle", "dispatching", "confirming", "dispatched",
                        "failed", "silent"}]
  /\ life \in [Entry -> {"none", "launched", "first", "running", "exiting",
                         "dead"}]
  /\ exited \subseteq Entry
  /\ workerEpoch \in [Entry -> 0 .. MaxEpoch]
  /\ statusMsg \in [Entry -> Seq([epoch : 0 .. MaxEpoch, code : Final \cup {"Error"}])]
  /\ workerMeta \in [WorkerID -> {"none", "Init"}]

\* The first leader starts: NewJobManagerImplV2 stores its metadata as
\* initialised, so that every leader, the first included, recovers.
Init ==
  /\ wmState = "LoadingMeta" /\ epoch = 1
  /\ workerEntries = [w \in WorkerID |-> NoEntry]
  /\ entryState = [e \in Entry |-> "Unused"]
  /\ finished = {} /\ expired = {}
  /\ status = [e \in Entry |-> "Created"]
  /\ eventQueue = <<>> /\ handling = <<>> /\ ticking = FALSE
  /\ sweep = {} /\ readyClosed = FALSE /\ errs = {} /\ panicked = {}
  /\ told = [w \in WorkerID |-> "unknown"]
  /\ pendingJobs = {} /\ waitAckJobs = {} /\ onlineJobs = {}
  /\ addFromFailover = {}
  /\ tombstoneCleaned = FALSE /\ mainPC = "init"
  /\ offlineArg = <<>> /\ toVisit = {}
  /\ submitPC = [j \in WorkerID |-> "new"]
  /\ pauseSent = {} /\ cancelling = {}
  /\ jobMeta = [j \in WorkerID |-> "none"]
  /\ cpc = [e \in Entry |-> "idle"]
  /\ life = [e \in Entry |-> "none"]
  /\ exited = {}
  /\ workerEpoch = [e \in Entry |-> 0]
  /\ statusMsg = [e \in Entry |-> <<>>]
  /\ workerMeta = [w \in WorkerID |-> "none"]

-----------------------------------------------------------------------------
(* CreateWorker for the jobs in S, and its goroutines.  Every creation     *)
(* uses a new entry.                                                       *)

CreateWorkers(S) ==
  /\ \E pick \in [S -> {e \in Entry : cpc[e] = "idle" /\ entryState[e] = "Unused"}] :
       /\ \A j \in S : IdOf[pick[j]] = j
       /\ cpc' = [e \in Entry |->
            IF IdOf[e] \in S /\ pick[IdOf[e]] = e THEN "dispatching" ELSE cpc[e]]
  /\ told' = [w \in WorkerID |-> IF w \in S THEN "creating" ELSE told[w]]
  /\ UNCHANGED <<wmState, epoch, workerEntries, entryState, finished, expired,
                 status, eventQueue, ticking, handling, sweep, readyClosed,
                 errs, panicked, life, exited, workerEpoch, statusMsg,
                 workerMeta>>

\* Scheduling failed, or the executor refused for certain.
CreateAborted(e) ==
  /\ Up /\ cpc[e] \in {"dispatching", "confirming"} /\ life[e] = "none"
  /\ cpc' = [cpc EXCEPT ![e] = "failed"]
  /\ AbortCreatingWorker(IdOf[e])
  /\ UNCHANGED <<fsmVars, rpcVars, mainVars, jobMeta, life, exited, workerEpoch,
                 statusMsg, workerMeta>>

\* The first phase of the dispatch fails: nothing is reported.
CreateFailedSilently(e) ==
  /\ Up /\ cpc[e] = "dispatching"
  /\ cpc' = [cpc EXCEPT ![e] = "silent"]
  /\ UNCHANGED <<managerVars, fsmVars, rpcVars, mainVars, jobMeta, life, exited,
                 workerEpoch, statusMsg, workerMeta>>

StartTimer(e) ==
  /\ Up /\ cpc[e] = "dispatching"
  /\ cpc' = [cpc EXCEPT ![e] = "confirming"]
  /\ BeforeStartingWorker(e)
  /\ UNCHANGED <<fsmVars, rpcVars, mainVars, jobMeta, life, exited, workerEpoch,
                 statusMsg, workerMeta>>

ConfirmReturned(e) ==
  /\ cpc[e] = "confirming"
  /\ cpc' = [cpc EXCEPT ![e] = "dispatched"]
  /\ UNCHANGED <<managerVars, fsmVars, rpcVars, mainVars, jobMeta, life, exited,
                 workerEpoch, statusMsg, workerMeta>>

Creation(e) ==
  \/ CreateAborted(e) \/ CreateFailedSilently(e) \/ StartTimer(e)
  \/ ConfirmReturned(e)

-----------------------------------------------------------------------------
(* The gRPC handlers.                                                      *)

\* SubmitJob stores the job, creates its master, and only then records it.
SubmitStore(j) ==
  /\ Up /\ submitPC[j] = "new"
  /\ submitPC' = [submitPC EXCEPT ![j] = "stored"]
  /\ jobMeta' = [jobMeta EXCEPT ![j] = "Uninit"]
  /\ UNCHANGED <<managerVars, fsmVars, mainVars, workerVars, pauseSent,
                 cancelling>>

SubmitCreate(j) ==
  /\ Up /\ submitPC[j] = "stored"
  /\ submitPC' = [submitPC EXCEPT ![j] = "created"]
  /\ CreateWorkers({j})
  /\ UNCHANGED <<fsmVars, mainVars, jobMeta, pauseSent, cancelling>>

\* CreateWorker exceeds its quota.
SubmitFails(j) ==
  /\ Up /\ submitPC[j] = "stored"
  /\ submitPC' = [submitPC EXCEPT ![j] = "failed"]
  /\ jobMeta' = [jobMeta EXCEPT ![j] = "none"]
  /\ UNCHANGED <<managerVars, fsmVars, mainVars, workerVars, pauseSent,
                 cancelling>>

SubmitDispatched(j) ==
  /\ Up /\ submitPC[j] = "created"
  /\ submitPC' = [submitPC EXCEPT ![j] = "done"]
  /\ waitAckJobs' = waitAckJobs \cup {j}
  /\ addFromFailover' = addFromFailover \ {j}
  /\ UNCHANGED <<managerVars, pendingJobs, onlineJobs, mainVars, workerVars,
                 jobMeta, pauseSent, cancelling>>

\* QueryJob of an online job asks its running handle for the status, which
\* panics when the entry is gone.  Other queries only read.
QueryJobPanics(j) ==
  /\ Up /\ MuFree
  /\ j \in onlineJobs /\ workerEntries[j] = NoEntry
  /\ PanicIf("query", TRUE)
  /\ mainPC' = "down"
  /\ UNCHANGED <<wmState, epoch, workerEntries, entryState, finished, expired,
                 status, eventQueue, ticking, handling, sweep, readyClosed,
                 errs, told, fsmVars, rpcVars, workerVars, jobMeta,
                 tombstoneCleaned, offlineArg, toVisit>>

PauseJob(j) ==
  /\ Up /\ j \in onlineJobs
  /\ pauseSent' = pauseSent \cup {j}
  /\ UNCHANGED <<managerVars, fsmVars, mainVars, workerVars, jobMeta, submitPC,
                 cancelling>>

CancelJobCheck(j) ==
  /\ Up /\ jobMeta[j] = "Stopped"
  /\ cancelling' = cancelling \cup {j}
  /\ UNCHANGED <<managerVars, fsmVars, mainVars, workerVars, jobMeta, submitPC,
                 pauseSent>>

CancelJobDelete(j) ==
  /\ j \in cancelling
  /\ cancelling' = cancelling \ {j}
  /\ jobMeta' = [jobMeta EXCEPT ![j] = "none"]
  /\ UNCHANGED <<managerVars, fsmVars, mainVars, workerVars, submitPC,
                 pauseSent>>

Rpc(j) ==
  \/ SubmitStore(j) \/ SubmitCreate(j) \/ SubmitFails(j) \/ SubmitDispatched(j)
  \/ QueryJobPanics(j) \/ PauseJob(j) \/ CancelJobCheck(j) \/ CancelJobDelete(j)

-----------------------------------------------------------------------------
(* The main goroutine: recovery, then Poll for ever.                       *)

\* Mutant: only jobs whose master was initialised are recovered.
OnMasterRecovered_OnlyInit ==
  /\ mainPC = "init" /\ wmState = "Ready"
  /\ waitAckJobs' = {j \in WorkerID : jobMeta[j] = "Init"}
  /\ addFromFailover' = waitAckJobs'
  /\ mainPC' = "poll"
  /\ UNCHANGED <<managerVars, pendingJobs, onlineJobs, rpcVars, workerVars,
                 jobMeta, tombstoneCleaned, offlineArg, toVisit>>

\* OnMasterRecovered: every job that has not ended waits for its master.
OnMasterRecovered ==
  /\ mainPC = "init" /\ wmState = "Ready"
  /\ waitAckJobs' = {j \in WorkerID : jobMeta[j] \notin {"none"} \cup Final}
  /\ addFromFailover' = waitAckJobs'
  /\ mainPC' = "poll"
  /\ UNCHANGED <<managerVars, pendingJobs, onlineJobs, rpcVars, workerVars,
                 jobMeta, tombstoneCleaned, offlineArg, toVisit>>

\* An error was reported, or Tick's five seconds are over: Poll fails, and with
\* it the leader's service.
PollFails ==
  /\ mainPC = "poll" /\ handling = <<>> /\ (errs # {} \/ ticking)
  /\ mainPC' = "down"
  /\ UNCHANGED <<managerVars, fsmVars, rpcVars, workerVars, jobMeta,
                 tombstoneCleaned, offlineArg, toVisit>>

PollTick ==
  /\ mainPC = "poll"
  /\ TickBegin \/ TickReceive
  /\ UNCHANGED <<fsmVars, rpcVars, mainVars, workerVars, jobMeta>>

\* OnWorkerStatusUpdated only logs; its argument may panic before.
OnWorkerStatusUpdated ==
  /\ mainPC = "poll" /\ TickStatus
  /\ mainPC' = IF ~Cancelled(handling[1]) /\ workerEntries[handling[1].worker] = NoEntry
               THEN "down" ELSE "poll"
  /\ UNCHANGED <<fsmVars, rpcVars, workerVars, jobMeta, tombstoneCleaned,
                 offlineArg, toVisit>>

PollTickReturn ==
  /\ mainPC = "poll"
  /\ TickReturn
  /\ mainPC' = "pending"
  /\ UNCHANGED <<fsmVars, rpcVars, workerVars, jobMeta, tombstoneCleaned,
                 offlineArg, toVisit>>

\* Mutant: the job is not taken out of waitAckJobs.
JobOnline_KeepsWaiting(j) ==
  /\ onlineJobs' = onlineJobs \cup {j}
  /\ UNCHANGED <<pendingJobs, waitAckJobs, addFromFailover>>

\* JobFsm.JobOnline for a job that waits; for any other it is an error.
JobOnline(j) ==
  /\ onlineJobs' = onlineJobs \cup {j}
  /\ waitAckJobs' = waitAckJobs \ {j}
  /\ addFromFailover' = addFromFailover \ {j}
  /\ UNCHANGED pendingJobs

OnWorkerOnline ==
  /\ mainPC = "poll" /\ TickOnline
  /\ LET j == handling[1].worker
     IN  \/ j \in waitAckJobs /\ JobOnline(j) /\ UNCHANGED mainPC
         \/ j \notin waitAckJobs /\ mainPC' = "down" /\ UNCHANGED fsmVars
  /\ UNCHANGED <<rpcVars, workerVars, jobMeta, tombstoneCleaned, offlineArg,
                 toVisit>>

\* OnWorkerDispatched with an error: JobDispatchFailed.
OnWorkerDispatched ==
  /\ mainPC = "poll" /\ TickDispatchFailed
  /\ LET j == handling[1].worker
     IN  \/ /\ j \in waitAckJobs
            /\ pendingJobs' = pendingJobs \cup {j}
            /\ waitAckJobs' = waitAckJobs \ {j}
            /\ addFromFailover' = addFromFailover \ {j}
            /\ UNCHANGED <<onlineJobs, mainPC>>
         \/ j \notin waitAckJobs /\ mainPC' = "down" /\ UNCHANGED fsmVars
  /\ UNCHANGED <<rpcVars, workerVars, jobMeta, tombstoneCleaned, offlineArg,
                 toVisit>>

\* OnWorkerOffline: the hook of the event has run, CleanTombstone removes the
\* row and the entry, and JobOffline moves the job.
OnWorkerOffline ==
  /\ mainPC = "poll" /\ TickOffline
  /\ offlineArg' = <<[worker |-> handling[1].worker, reason |-> handling[1].arg]>>
  /\ mainPC' = "clean"
  /\ UNCHANGED <<fsmVars, rpcVars, workerVars, jobMeta, tombstoneCleaned, toVisit>>

CleanTombstone(w) ==
  /\ removeTombstoneEntry(w)
  /\ workerMeta' = [workerMeta EXCEPT ![w] = "none"]
  /\ UNCHANGED <<cpc, life, exited, workerEpoch, statusMsg>>

OfflineClean ==
  /\ mainPC = "clean"
  /\ CleanTombstone(offlineArg[1].worker)
  /\ mainPC' = "offline"
  /\ UNCHANGED <<fsmVars, rpcVars, jobMeta, tombstoneCleaned, offlineArg, toVisit>>

\* Mutant: an online job is not taken out of its map.
JobOffline_KeepsOnline ==
  /\ mainPC = "offline"
  /\ LET j == offlineArg[1].worker
     IN  /\ waitAckJobs' = waitAckJobs \ {j}
         /\ addFromFailover' = addFromFailover \ {j}
         /\ pendingJobs' = pendingJobs \cup (waitAckJobs \cap {j})
  /\ offlineArg' = <<>> /\ mainPC' = "poll"
  /\ UNCHANGED <<managerVars, onlineJobs, rpcVars, workerVars, jobMeta,
                 tombstoneCleaned, toVisit>>

JobOffline ==
  /\ mainPC = "offline"
  /\ LET j == offlineArg[1].worker
         needFailover == offlineArg[1].reason = "ErrWorkerOffline"
         unacked == IF j \in onlineJobs THEN {} ELSE {j}
     IN  /\ onlineJobs' = onlineJobs \ {j}
         /\ waitAckJobs' = waitAckJobs \ unacked
         /\ addFromFailover' = addFromFailover \ unacked
         /\ pendingJobs' = IF needFailover /\ j \in onlineJobs \cup waitAckJobs
                           THEN pendingJobs \cup {j} ELSE pendingJobs
  /\ offlineArg' = <<>> /\ mainPC' = "poll"
  /\ UNCHANGED <<managerVars, rpcVars, workerVars, jobMeta, tombstoneCleaned,
                 toVisit>>

\* Mutant: a job is moved although its job master could not be created.
IterPendingJobs_IgnoresQuota ==
  /\ mainPC = "pending"
  /\ \E S \in SUBSET pendingJobs : CreateWorkers(S)
  /\ pendingJobs' = {}
  /\ waitAckJobs' = waitAckJobs \cup pendingJobs
  /\ addFromFailover' = addFromFailover \ pendingJobs
  /\ mainPC' = IF tombstoneCleaned THEN "poll" ELSE "get"
  /\ UNCHANGED <<onlineJobs, rpcVars, jobMeta, tombstoneCleaned, offlineArg,
                 toVisit>>

\* Tick, first part: IterPendingJobs creates job masters until CreateWorker
\* exceeds its quota.  The rest of Tick is done until it has succeeded once.
IterPendingJobs ==
  /\ mainPC = "pending"
  /\ \E S \in SUBSET pendingJobs :
       /\ CreateWorkers(S)
       /\ pendingJobs' = pendingJobs \ S
       /\ waitAckJobs' = waitAckJobs \cup S
       /\ addFromFailover' = addFromFailover \ S
  /\ mainPC' = IF tombstoneCleaned THEN "poll" ELSE "get"
  /\ UNCHANGED <<onlineJobs, rpcVars, jobMeta, tombstoneCleaned, offlineArg,
                 toVisit>>

GetWorkers ==
  /\ mainPC = "get" /\ MuFree
  /\ toVisit' =
       {[worker |-> w, tombstone |-> entryState[workerEntries[w]] = "Tombstone"] :
          w \in {v \in WorkerID : workerEntries[v] # NoEntry}}
  /\ mainPC' = "scan"
  /\ UNCHANGED <<managerVars, fsmVars, rpcVars, workerVars, jobMeta,
                 tombstoneCleaned, offlineArg>>

\* Tick, second part: visit the workers in any order.
VisitTombstone(v) ==
  /\ mainPC = "scan" /\ v \in toVisit /\ v.tombstone
  /\ CleanTombstone(v.worker)
  /\ toVisit' = toVisit \ {v}
  /\ UNCHANGED <<fsmVars, rpcVars, jobMeta, tombstoneCleaned, mainPC, offlineArg>>

VisitRunning(v) ==
  /\ mainPC = "scan" /\ v \in toVisit /\ ~v.tombstone
  /\ \/ v.worker \in waitAckJobs /\ JobOnline(v.worker)
     \/ v.worker \notin waitAckJobs /\ UNCHANGED fsmVars
  /\ toVisit' = toVisit \ {v}
  /\ UNCHANGED <<managerVars, rpcVars, workerVars, jobMeta, tombstoneCleaned,
                 mainPC, offlineArg>>

\* Mutant: the Tick counts as complete although the quota was exceeded.
IterWaitAckJobs_IgnoresQuota ==
  /\ mainPC = "scan" /\ toVisit = {}
  /\ \E S \in SUBSET addFromFailover :
       /\ CreateWorkers(S)
       /\ addFromFailover' = addFromFailover \ S
  /\ tombstoneCleaned' = TRUE
  /\ mainPC' = "poll"
  /\ UNCHANGED <<pendingJobs, waitAckJobs, onlineJobs, rpcVars, jobMeta,
                 offlineArg, toVisit>>

\* Tick, third part: job masters a new leader has not found again are created.
IterWaitAckJobs ==
  /\ mainPC = "scan" /\ toVisit = {}
  /\ \E S \in SUBSET addFromFailover :
       /\ CreateWorkers(S)
       /\ addFromFailover' = addFromFailover \ S
       /\ tombstoneCleaned' = (S = addFromFailover)
  /\ mainPC' = "poll"
  /\ UNCHANGED <<pendingJobs, waitAckJobs, onlineJobs, rpcVars, jobMeta,
                 offlineArg, toVisit>>

Main ==
  \/ OnMasterRecovered \/ PollFails \/ PollTick \/ PollTickReturn
  \/ OnWorkerStatusUpdated \/ OnWorkerOnline \/ OnWorkerDispatched
  \/ OnWorkerOffline \/ OfflineClean \/ JobOffline
  \/ IterPendingJobs \/ GetWorkers \/ IterWaitAckJobs
  \/ \E v \in toVisit : VisitTombstone(v) \/ VisitRunning(v)

-----------------------------------------------------------------------------
(* Job masters, the network, the clock and the election.                   *)

Alive(e) == life[e] \notin {"none", "dead"}

\* What the worker and the network do to everything else: nothing.
JobManagerUntouched == UNCHANGED <<managerVars, fsmVars, rpcVars, mainVars>>

Launch(e) ==
  /\ cpc[e] \in {"confirming", "dispatched"} /\ life[e] = "none"
  /\ life' = [life EXCEPT ![e] = "launched"]
  /\ workerEpoch' = [workerEpoch EXCEPT ![e] = epoch]
  /\ JobManagerUntouched
  /\ UNCHANGED <<jobMeta, cpc, exited, statusMsg, workerMeta>>

\* DefaultBaseJobMaster.Init.  A master whose job has never been initialised
\* (or has no row) starts it, marks it and inserts its own row in the worker
\* table; UpdateJob does not bring a deleted row back.  Any other master
\* recovers the job and leaves its status alone.
JobMasterFirstStartUp(e) ==
  /\ life[e] = "launched" /\ jobMeta[IdOf[e]] \in {"none", "Uninit"}
  /\ life' = [life EXCEPT ![e] = "first"]
  /\ JobManagerUntouched
  /\ UNCHANGED <<jobMeta, cpc, exited, workerEpoch, statusMsg, workerMeta>>

JobMasterInit(e) ==
  /\ life[e] = "first"
  /\ life' = [life EXCEPT ![e] = "running"]
  /\ jobMeta' = [jobMeta EXCEPT ![IdOf[e]] = IF @ = "none" THEN "none" ELSE "Init"]
  /\ workerMeta' = [workerMeta EXCEPT ![IdOf[e]] = "Init"]
  /\ JobManagerUntouched
  /\ UNCHANGED <<cpc, exited, workerEpoch, statusMsg>>

JobMasterRecovers(e) ==
  /\ life[e] = "launched" /\ jobMeta[IdOf[e]] \notin {"none", "Uninit"}
  /\ life' = [life EXCEPT ![e] = "running"]
  /\ workerMeta' = [workerMeta EXCEPT ![IdOf[e]] = "Init"]
  /\ JobManagerUntouched
  /\ UNCHANGED <<jobMeta, cpc, exited, workerEpoch, statusMsg>>

\* DefaultBaseJobMaster.Exit marks a job that has ended, then sends the final
\* status.  It is Stopped when the StatusChangeRequest has reached the master.
JobMasterExit(e, s) ==
  /\ life[e] = "running"
  /\ s = "Stopped" => IdOf[e] \in pauseSent
  /\ life' = [life EXCEPT ![e] = "exiting"]
  /\ exited' = exited \cup {e}
  /\ jobMeta' = [jobMeta EXCEPT ![IdOf[e]] = IF @ = "none" \/ s = "Error" THEN @ ELSE s]
  /\ statusMsg' = [statusMsg EXCEPT ![e] = <<[epoch |-> workerEpoch[e], code |-> s]>>]
  /\ pauseSent' = IF s = "Stopped" THEN pauseSent \ {IdOf[e]} ELSE pauseSent
  /\ UNCHANGED <<managerVars, fsmVars, submitPC, cancelling, mainVars, cpc,
                 workerEpoch, workerMeta>>

JobMasterStops(e) ==
  /\ Alive(e)
  /\ life' = [life EXCEPT ![e] = "dead"]
  /\ JobManagerUntouched
  /\ UNCHANGED <<jobMeta, cpc, exited, workerEpoch, statusMsg, workerMeta>>

RefreshMasterInfo(e) ==
  /\ Alive(e) /\ workerEpoch[e] < epoch
  /\ workerEpoch' = [workerEpoch EXCEPT ![e] = epoch]
  /\ JobManagerUntouched
  /\ UNCHANGED <<jobMeta, cpc, life, exited, statusMsg, workerMeta>>

DeliverPing(e, isFinished) ==
  /\ mainPC # "down" /\ life[e] # "none"
  /\ isFinished => e \in exited
  /\ HandleHeartbeat(IdOf[e], workerEpoch[e], isFinished)
  /\ UNCHANGED <<fsmVars, rpcVars, mainVars, jobMeta, workerVars>>

DeliverStatus(e) ==
  /\ mainPC # "down" /\ statusMsg[e] # <<>>
  /\ OnWorkerStatusUpdateMessage(IdOf[e], statusMsg[e][1].epoch, statusMsg[e][1].code)
  /\ statusMsg' = [statusMsg EXCEPT ![e] = <<>>]
  /\ UNCHANGED <<fsmVars, rpcVars, mainVars, jobMeta, cpc, life, exited,
                 workerEpoch, workerMeta>>

\* Lost on the way, or dropped: of an earlier leader's epoch, or of a job that
\* is not in the map. (A heartbeat that is dropped changes nothing; MasterWorkers
\* has the branch for a larger epoch, RefuseStatus and RefusePing.)
LoseStatus(e) ==
  /\ statusMsg[e] # <<>>
  /\ statusMsg' = [statusMsg EXCEPT ![e] = <<>>]
  /\ JobManagerUntouched
  /\ UNCHANGED <<jobMeta, cpc, life, exited, workerEpoch, workerMeta>>

\* An entry's first lease (20s) outlasts the dispatch that created it and the
\* last statements of the SubmitJob that asked for it.
Expire(e) ==
  /\ mainPC # "down" /\ cpc[e] # "confirming" /\ submitPC[IdOf[e]] # "created"
  /\ LeaseExpires(e)
  /\ UNCHANGED <<fsmVars, rpcVars, mainVars, jobMeta, workerVars>>

Checker ==
  /\ mainPC # "down"
  /\ SweepBegin \/ \E e \in Entry : SweepVisit(e)
  /\ UNCHANGED <<fsmVars, rpcVars, mainVars, jobMeta, workerVars>>

\* InitAfterRecover; the entry of a worker found in the metastore is named
\* after one of its incarnations.
Recovery ==
  /\ \/ /\ InitAfterRecoverLoad(workerMeta)
        /\ \A e \in Entry : entryState'[e] = "Wait" => cpc[e] # "idle"
     \/ InitAfterRecoverFinish
  /\ UNCHANGED <<fsmVars, rpcVars, mainVars, jobMeta, workerVars>>

\* Another leader is elected; the former one and its goroutines are gone, but
\* a confirmation it has sent may still arrive.
NewLeader ==
  /\ epoch < MaxEpoch
  /\ epoch' = epoch + 1
  /\ NewManager("LoadingMeta")
  /\ pendingJobs' = {} /\ waitAckJobs' = {} /\ onlineJobs' = {}
  /\ addFromFailover' = {} /\ tombstoneCleaned' = FALSE
  /\ mainPC' = "init" /\ offlineArg' = <<>> /\ toVisit' = {}
  /\ submitPC' = [j \in WorkerID |->
       IF submitPC[j] \in {"stored", "created"} THEN "failed" ELSE submitPC[j]]
  /\ cancelling' = {}
  /\ cpc' = [e \in Entry |->
       CASE cpc[e] = "dispatching" -> "failed"
         [] cpc[e] = "confirming" -> "dispatched"
         [] OTHER -> cpc[e]]
  /\ UNCHANGED <<pauseSent, jobMeta, life, exited, workerEpoch,
                 statusMsg, workerMeta>>

Environment(e) ==
  \/ Launch(e) \/ JobMasterFirstStartUp(e) \/ JobMasterInit(e)
  \/ JobMasterRecovers(e) \/ JobMasterStops(e) \/ RefreshMasterInfo(e)
  \/ \E s \in Final \cup {"Error"} : JobMasterExit(e, s)
  \/ \E f \in BOOLEAN : DeliverPing(e, f)
  \/ DeliverStatus(e) \/ LoseStatus(e) \/ Expire(e)

Next ==
  \/ \E j \in WorkerID : Rpc(j)
  \/ \E e \in Entry : Creation(e) \/ Environment(e)
  \/ Main \/ Checker \/ Recovery \/ NewLeader

Spec == Init /\ [][Next]_vars

-----------------------------------------------------------------------------
(* Properties.                                                             *)

\* JobFsm keeps a job in one state: never in two of its maps.
OneMap ==
  /\ pendingJobs \cap waitAckJobs = {}
  /\ pendingJobs \cap onlineJobs = {}
  /\ waitAckJobs \cap onlineJobs = {}

\* One master of j has ended the job while another one runs or has run: a job
\* master that was given up too early outlives the decision to replace it.
Rivals(j) ==
  \E e \in exited, f \in Entry :
    e # f /\ IdOf[e] = j /\ IdOf[f] = j /\ life[f] # "none"

\* No job is forgotten: a job whose submission was acknowledged and that the
\* job table does not show as finished, stopped or deleted is in one of the
\* maps of every leader that has recovered, unless two masters of the job
\* contend.
JobTracked ==
  Up => \A j \in WorkerID :
    submitPC[j] = "done" /\ jobMeta[j] \notin {"none"} \cup Final /\ ~Rivals(j)
      => j \in pendingJobs \cup waitAckJobs \cup onlineJobs

\* The handle of an online job is good: its entry is in the WorkerManager,
\* except while OnWorkerOffline is moving the job.
OnlineHasEntry ==
  Up => \A j \in onlineJobs :
    \/ workerEntries[j] # NoEntry
    \/ offlineArg # <<>> /\ offlineArg[1].worker = j

\* A job waits for its master only while there is something that can end the
\* wait: its creation is under way, or failed and about to be reported, or the
\* manager has an entry that will come online or expire.  Exceptions are a
\* dispatch whose failure is not reported and a leader that has not finished
\* its first Tick.
WaitHasCause ==
  Up => \A j \in waitAckJobs \ addFromFailover :
    \/ \E e \in Entry : IdOf[e] = j /\ cpc[e] \in {"dispatching", "silent"}
    \/ workerEntries[j] # NoEntry
    \/ FailedEvent(j) \in Pending
    \/ offlineArg # <<>> /\ offlineArg[1].worker = j
    \/ errs # {}

\* After the first complete Tick of a leader no job is left that it took over
\* and neither found nor created again.
FailoverComplete ==
  tombstoneCleaned => addFromFailover = {}

\* Although the incarnations of a job master share one worker ID, no entry
\* makes a forbidden move (the log.Panic calls of worker_entry.go) and
\* allWorkersReady is closed once.
EntriesMoveInOrder == panicked \cap {"state", "closed"} = {}

\* "job master is just timeout but have not call OnOffline." (job_fsm.go):
\* a query in that moment gets no status; it does not panic.
QueryNeverPanics == "query" \notin panicked

\* "Note job master managed in JobFsm is in running status, which means the
\* job is not terminated or finished" (job_fsm.go): a job is not scheduled
\* again when the manager has recorded that its master finished it.
FinishedNotPending ==
  mainPC = "clean" /\ offlineArg[1].reason = "ErrWorkerOffline" =>
    LET e == workerEntries[offlineArg[1].worker]
    IN  e # NoEntry => status[e] \notin Final
=============================================================================
