-------------------------- MODULE JobManager_proofs --------------------------
(***************************************************************************)
(* The job manager, for any number of jobs, of incarnations of their       *)
(* masters and of leaders: no job is forgotten, the handle of an online    *)
(* job is good, and a job that waits for its master waits for something.   *)
(* This module has the steps of the main goroutine and the theorems.       *)
(***************************************************************************)
EXTENDS JobWaits_proofs

USE ManagerAssumption

-----------------------------------------------------------------------------
(* Steps of the main goroutine that leave the manager's entries alone.     *)

\* What such a step must see to.
CalmStep ==
  /\ UNCHANGED <<submitPC, cpc, workerEntries, entryState, finished, expired, errs>>
  /\ mainPC \notin {"clean", "down"} /\ mainPC' \notin {"clean", "offline", "down"}
  /\ offlineArg' = <<>> /\ Pending' \subseteq Pending
  /\ \A ev \in Pending \ Pending' :
       ev.tp # "failed" /\ (ev.tp = "online" => ev.worker \in waitAckJobs)
  /\ \A w \in WorkerID : IsTombstone(w) /\ Recovered(w) =>
       /\ w \notin pendingJobs' /\ w \notin onlineJobs'
       /\ w \in waitAckJobs' => w \in addFromFailover'
  /\ \A w \in waitAckJobs' \ addFromFailover' : w \in waitAckJobs \ addFromFailover /\ ~Moving(w)
  /\ \A w \in onlineJobs' : workerEntries[w] # NoEntry \/ (w \in onlineJobs /\ ~Moving(w))
  /\ \A w \in WorkerID :
       OnlinePending(w)' /\ workerEntries[w] = NoEntry /\ submitPC[w] # "created" =>
         \/ mainPC \in {"pending", "get", "scan"}
         \/ mainPC' = "poll" /\ w \notin waitAckJobs'

\* A calm step keeps the part of the waiting invariant that is about the tables.
LEMMA CalmKeeps ==
  ASSUME TablesInv, EventsInv, WaitInv, CalmStep
  PROVE  /\ ArgInv' /\ TombstoneInv' /\ OnlineInv' /\ SubmittedInv'
         /\ OnlineHasEntry' /\ WaitHasCause'
  <1> USE DEF WaitInv
  <1>1. /\ UNCHANGED <<submitPC, cpc, workerEntries, entryState, finished, expired, errs>>
        /\ mainPC \notin {"clean", "down"} /\ mainPC' \notin {"clean", "offline", "down"}
        /\ offlineArg' = <<>> /\ Pending' \subseteq Pending
    BY Zenon DEF CalmStep
  <1>2. \A w : (IsTombstone(w)' <=> IsTombstone(w)) /\ ~Moving(w)'
    BY <1>1, Zenon DEF IsTombstone, Moving
  <1>3. \A w : OnlinePending(w)' => OnlinePending(w)
    BY <1>1, Zenon DEF OnlinePending
  <1>4. ArgInv'
    BY <1>1, Zenon DEF ArgInv
  <1>5. TombstoneInv'
    <2>1. ASSUME NEW w \in WorkerID, IsTombstone(w), Recovered(w) PROVE Recovered(w)'
      BY <1>1, <1>2, <2>1, Zenon DEF CalmStep, Recovered
    <2>2. ASSUME NEW w \in WorkerID, IsTombstone(w) PROVE Recovered(w)
      BY <1>1, <2>2, Zenon DEF TombstoneInv
    <2> QED
      BY <1>2, <2>1, <2>2, Zenon DEF TombstoneInv
  <1>6. OnlineInv'
    <2> SUFFICES ASSUME NEW j \in WorkerID, OnlinePending(j)', workerEntries'[j] = NoEntry,
                        submitPC'[j] # "created"
                 PROVE  mainPC' = "poll" /\ j \notin waitAckJobs'
      BY Zenon DEF OnlineInv
    <2>1. OnlinePending(j) /\ workerEntries[j] = NoEntry /\ submitPC[j] # "created"
      BY <1>1, <1>3, Zenon
    <2>2. mainPC \notin {"pending", "get", "scan"}
      BY <2>1, Zenon DEF OnlineInv, Up
    <2> QED
      BY <2>1, <2>2, Zenon DEF CalmStep
  <1>7. SubmittedInv'
    <2> SUFFICES ASSUME NEW k \in WorkerID, submitPC[k] = "created"
                 PROVE  \E f \in Entry : OnlyMaster(k, f)' /\ Dispatched(k, f)'
      BY <1>1, Zenon DEF SubmittedInv
    <2>1. Up
      BY <1>1, Zenon DEF Up, TablesInv, StartInv
    <2>2. PICK f \in Entry : OnlyMaster(k, f) /\ Dispatched(k, f)
      BY <2>1, Zenon DEF SubmittedInv
    <2>3. k \notin waitAckJobs
      BY Zenon DEF TablesInv, SubmitInv, Submitting
    <2>4. FailedEvent(k) \in Pending => FailedEvent(k) \in Pending'
      BY DEF CalmStep, FailedEvent
    <2>5. OnlineEvent(f) \in Pending => OnlineEvent(f) \in Pending'
      <3>1. OnlineEvent(f).tp = "online" /\ OnlineEvent(f).worker = k
        BY <2>2, Zenon DEF OnlineEvent, OnlyMaster
      <3> QED
        BY <2>3, <3>1, Zenon DEF CalmStep
    <2>6. OnlyMaster(k, f)'
      BY <1>1, <2>2, Zenon DEF OnlyMaster
    <2>7. Unknown(k, f) => Unknown(k, f)'
      BY <1>1, <1>2, <2>4, Zenon DEF Unknown, FailedEvent
    <2>8. Silent(k, f) => Silent(k, f)'
      BY <1>1, <1>2, Zenon DEF Silent
    <2>9. Reported(k, f) => Reported(k, f)'
      BY <1>1, <1>2, <2>5, Zenon DEF Reported, OnlineEvent
    <2>10. Unreported(k, f) => Unreported(k, f)'
      BY <1>1, <1>3, Zenon DEF Unreported
    <2> QED
      BY <2>2, <2>6, <2>7, <2>8, <2>9, <2>10, Zenon DEF Dispatched
  <1>8. ASSUME NEW w, offlineArg # <<>>, offlineArg[1].worker = w PROVE Moving(w)
    BY <1>1, <1>8, Zenon DEF ArgInv, Moving
  <1>9. OnlineHasEntry'
    <2> SUFFICES ASSUME NEW w \in onlineJobs' PROVE workerEntries'[w] # NoEntry
      BY Zenon DEF OnlineHasEntry
    <2>1. CASE w \in onlineJobs /\ ~Moving(w)
      <3>1. Up
        BY <1>1, <2>1, Zenon DEF Up, TablesInv, StartInv
      <3> QED
        BY <1>1, <1>8, <2>1, <3>1, Zenon DEF OnlineHasEntry
    <2> QED
      BY <1>1, <2>1, Zenon DEF CalmStep
  <1>10. WaitHasCause'
    <2> SUFFICES ASSUME NEW w \in waitAckJobs' \ addFromFailover' PROVE HasCause(w)'
      BY Zenon DEF WaitHasCause, HasCause
    <2>1. w \in waitAckJobs \ addFromFailover /\ ~Moving(w)
      BY Zenon DEF CalmStep
    <2>2. Up
      BY <1>1, <2>1, Zenon DEF Up, TablesInv, StartInv
    <2>3. HasCause(w)
      BY <2>1, <2>2, Zenon DEF WaitHasCause, HasCause
    <2>4. FailedEvent(w) \in Pending => FailedEvent(w) \in Pending'
      BY DEF CalmStep, FailedEvent
    <2> QED
      BY <1>1, <1>8, <2>1, <2>3, <2>4, Zenon DEF HasCause, FailedEvent
  <1> QED
    BY <1>4, <1>5, <1>6, <1>7, <1>9, <1>10, Zenon

\* OnMasterRecovered.
LEMMA RecoveredWait ==
  ASSUME TablesInv, EventsInv, WaitInv, OnMasterRecovered
  PROVE  WaitInv'
  <1> USE DEF WaitInv
  <1>1. /\ mainPC = "init" /\ mainPC' = "poll" /\ addFromFailover' = waitAckJobs'
        /\ UNCHANGED <<pendingJobs, onlineJobs, submitPC, cpc, workerEntries, entryState,
                       finished, expired, errs, offlineArg, handling, eventQueue>>
    BY Zenon DEF OnMasterRecovered, managerVars, rpcVars, workerVars
  <1>2. Pending' = Pending /\ offlineArg = <<>> /\ onlineJobs = {}
    BY <1>1, Zenon DEF Pending, ArgInv, TablesInv, StartInv
  <1>3. \A w \in WorkerID : ~OnlinePending(w)'
    BY <1>1, <1>2, PendingOK, Zenon DEF OnlinePending, EventOK
  <1>4. CalmStep
    <2>1. mainPC \notin {"clean", "down"} /\ mainPC' \notin {"clean", "offline", "down"}
      BY <1>1, Zenon
    <2> QED
      BY <1>1, <1>2, <1>3, <2>1, Zenon DEF CalmStep, Recovered
  <1>5. VisitInv'
    BY <1>1, Zenon DEF VisitInv
  <1> QED
    BY <1>4, <1>5, CalmKeeps, Zenon

\* A step from where no worker is being moved has no argument to keep.
LEMMA NotMoving ==
  ASSUME WaitInv, mainPC \notin {"clean", "offline", "down"}
  PROVE  offlineArg = <<>> /\ \A w : ~Moving(w)
  BY Zenon DEF WaitInv, ArgInv, Moving

\* Tick ends with nothing left in the queue.
LEMMA TickedWait ==
  ASSUME TablesInv, EventsInv, WaitInv, PollTickReturn
  PROVE  WaitInv'
  <1> USE DEF WaitInv
  <1>1. /\ mainPC = "poll" /\ mainPC' = "pending" /\ handling = <<>> /\ eventQueue = <<>>
        /\ UNCHANGED <<fsmVars, submitPC, cpc, workerEntries, entryState,
                       finished, expired, errs, offlineArg, handling, eventQueue>>
    BY Zenon DEF PollTickReturn, TickReturn, rpcVars, workerVars
  <1>2. Pending' = Pending /\ Pending = {}
    BY <1>1 DEF Pending
  <1>3. offlineArg = <<>> /\ \A w : ~Moving(w)
    BY <1>1, NotMoving, Zenon
  <1>4. \A w \in WorkerID : ~OnlinePending(w)'
    BY <1>2, Zenon DEF OnlinePending
  <1>5. CalmStep
    <2>1. mainPC \notin {"clean", "down"} /\ mainPC' \notin {"clean", "offline", "down"} /\ Up
      BY <1>1, Zenon DEF Up
    <2>2. \A w \in onlineJobs : workerEntries[w] # NoEntry
      BY <1>3, <2>1, Zenon DEF OnlineHasEntry
    <2> QED
      BY <1>1, <1>2, <1>3, <1>4, <2>1, <2>2, Zenon DEF CalmStep, Recovered, fsmVars
  <1>6. VisitInv'
    BY <1>1, Zenon DEF VisitInv
  <1> QED
    BY <1>5, <1>6, CalmKeeps, Zenon

\* OnWorkerStatusUpdated.
LEMMA StatusHandledWait ==
  ASSUME TablesInv, EventsInv, WaitInv, OnWorkerStatusUpdated
  PROVE  WaitInv'
  <1> USE DEF WaitInv
  <1>1. /\ mainPC = "poll" /\ mainPC' \in {"poll", "down"}
        /\ handling # <<>> /\ handling[1].tp = "status" /\ handling' = <<>>
        /\ UNCHANGED <<fsmVars, submitPC, cpc, workerEntries, entryState,
                       finished, expired, errs, offlineArg, eventQueue>>
    BY Zenon DEF OnWorkerStatusUpdated, TickStatus, rpcVars, workerVars
  <1>2. Pending = Pending' \cup {handling[1]}
    BY <1>1, PendingHandled, Zenon
  <1>3. offlineArg = <<>> /\ \A w : ~Moving(w)
    BY <1>1, NotMoving, Zenon
  <1>4. CASE mainPC' = "down"
    BY <1>4, WaitDown, Zenon
  <1>5. CASE mainPC' = "poll"
    <2>1. mainPC \notin {"clean", "down"} /\ mainPC' \notin {"clean", "offline", "down"} /\ Up
      BY <1>1, <1>5, ZenonT(40) DEF Up
    <2>2. \A w \in onlineJobs : workerEntries[w] # NoEntry
      BY <1>3, <2>1, Zenon DEF OnlineHasEntry
    <2>3. Pending' \subseteq Pending /\ \A ev \in Pending \ Pending' : ev.tp = "status"
      BY <1>1, <1>2, Zenon
    <2>4. \A ev \in Pending \ Pending' : ev.tp # "failed" /\ ev.tp # "online"
      BY <2>3, Zenon
    <2>5. \A w \in WorkerID :
            OnlinePending(w)' /\ workerEntries[w] = NoEntry /\ submitPC[w] # "created"
              => w \notin waitAckJobs
      BY <1>1, <1>3, <2>1, <2>3, Zenon DEF OnlineInv, OnlinePending
    <2>6. CalmStep
      BY <1>1, <1>3, <1>5, <2>1, <2>2, <2>3, <2>4, <2>5, Zenon DEF CalmStep,
         Recovered, fsmVars
    <2>7. VisitInv'
      BY <1>5, Zenon DEF VisitInv
    <2> QED
      BY <2>6, <2>7, CalmKeeps, Zenon
  <1> QED
    BY <1>1, <1>4, <1>5, Zenon

\* No event that a worker is online is left when its entry is a tombstone of
\* the former leader's.
LEMMA RecoveredOffline ==
  ASSUME EventsInv, NEW w \in WorkerID, IsTombstone(w), Recovered(w)
  PROVE  ~OnlinePending(w)
  <1> SUFFICES ASSUME OnlinePending(w) PROVE FALSE
    BY Zenon
  <1>1. PICK g \in Entry : IdOf[g] = w /\ entryState[g] \in {"Normal", "Offline"}
    BY OnlineEntry, Zenon
  <1>2. g # workerEntries[w]
    BY <1>1, Zenon DEF IsTombstone
  <1> QED
    BY <1>1, <1>2, Zenon DEF Recovered

\* OnWorkerOnline.
LEMMA OnlineWait ==
  ASSUME TablesInv, EventsInv, WaitInv, OnWorkerOnline
  PROVE  WaitInv'
  <1> USE DEF WaitInv
  <1>1. PICK j : /\ j = handling[1].worker
                 /\ \/ j \in waitAckJobs /\ JobOnline(j) /\ UNCHANGED mainPC
                    \/ j \notin waitAckJobs /\ mainPC' = "down"
    BY Zenon DEF OnWorkerOnline
  <1>2. /\ mainPC = "poll" /\ handling # <<>> /\ handling[1].tp = "online" /\ handling' = <<>>
        /\ UNCHANGED <<submitPC, cpc, workerEntries, entryState,
                       finished, expired, errs, offlineArg, eventQueue>>
    BY Zenon DEF OnWorkerOnline, TickOnline, rpcVars, workerVars
  <1>3. CASE mainPC' = "down"
    BY <1>3, WaitDown, Zenon
  <1>4. CASE j \in waitAckJobs /\ JobOnline(j) /\ UNCHANGED mainPC
    <2>0. /\ Pending = Pending' \cup {handling[1]} /\ offlineArg = <<>> /\ \A w : ~Moving(w)
          /\ mainPC \notin {"clean", "down"} /\ mainPC' \notin {"clean", "offline", "down"} /\ Up
      BY <1>2, <1>4, PendingHandled, NotMoving, Zenon DEF Up
    <2>1. /\ Pending' \subseteq Pending /\ j \in WorkerID /\ OnlinePending(j)
          /\ \A ev \in Pending \ Pending' : ev.tp = "online" /\ ev.worker = j
      BY <1>1, <1>2, <1>4, <2>0, Zenon DEF OnlinePending, TablesInv, TableTypes
    <2>2. \A ev \in Pending \ Pending' : ev.tp # "failed" /\ ev.worker \in waitAckJobs
      BY <1>4, <2>1, Zenon
    <2>3. /\ onlineJobs' = onlineJobs \cup {j} /\ waitAckJobs' = waitAckJobs \ {j}
          /\ addFromFailover' = addFromFailover \ {j} /\ UNCHANGED pendingJobs
      BY <1>4, Zenon DEF JobOnline
    <2>4. \A w \in WorkerID : IsTombstone(w) /\ Recovered(w) => w # j
      BY <2>1, RecoveredOffline, Zenon
    <2>5. \A w \in WorkerID : IsTombstone(w) /\ Recovered(w) =>
            /\ w \notin pendingJobs' /\ w \notin onlineJobs'
            /\ w \in waitAckJobs' => w \in addFromFailover'
      BY <2>3, <2>4, Zenon DEF Recovered
    <2>6. \A w \in WorkerID :
            OnlinePending(w) /\ workerEntries[w] = NoEntry /\ submitPC[w] # "created"
              => w \notin waitAckJobs
      BY <1>2, <2>0, Zenon DEF OnlineInv
    <2>7. workerEntries[j] # NoEntry
      <3>1. submitPC[j] # "created"
        BY <1>4, <2>1, Zenon DEF TablesInv, SubmitInv, Submitting
      <3> QED
        BY <1>4, <2>1, <2>6, <3>1, Zenon
    <2>8. \A w \in onlineJobs' : workerEntries[w] # NoEntry
      BY <2>0, <2>3, <2>7, Zenon DEF OnlineHasEntry
    <2>9. \A w \in WorkerID :
            OnlinePending(w)' /\ workerEntries[w] = NoEntry /\ submitPC[w] # "created"
              => w \notin waitAckJobs'
      BY <2>1, <2>3, <2>6, Zenon DEF OnlinePending
    <2>10. \A w \in waitAckJobs' \ addFromFailover' : w \in waitAckJobs \ addFromFailover
      BY <2>3, Zenon
    <2>11. CalmStep
      BY <1>2, <1>4, <2>0, <2>1, <2>2, <2>5, <2>8, <2>9, <2>10, Zenon DEF CalmStep
    <2>12. VisitInv'
      BY <1>2, <1>4, Zenon DEF VisitInv
    <2> QED
      BY <2>11, <2>12, CalmKeeps, Zenon
  <1> QED
    BY <1>1, <1>3, <1>4, Zenon

\* JobFsm.JobOffline.
LEMMA JobOfflineWait ==
  ASSUME TablesInv, EventsInv, WaitInv, JobOffline
  PROVE  WaitInv'
  <1> USE DEF WaitInv
  <1>1. PICK j : j = offlineArg[1].worker
    BY Zenon
  <1>2. /\ mainPC = "offline" /\ mainPC' = "poll" /\ offlineArg' = <<>>
        /\ onlineJobs' = onlineJobs \ {j} /\ waitAckJobs' \subseteq waitAckJobs
        /\ pendingJobs' \subseteq pendingJobs \cup {j}
        /\ UNCHANGED <<submitPC, cpc, workerEntries, entryState,
                       finished, expired, errs, handling, eventQueue>>
    BY <1>1, Zenon DEF JobOffline, managerVars, rpcVars, workerVars
  <1>3. /\ j \notin waitAckJobs'
        /\ \A w : w # j => /\ w \in waitAckJobs' <=> w \in waitAckJobs
                           /\ w \in addFromFailover' <=> w \in addFromFailover
    BY <1>1, Zenon DEF JobOffline, TablesInv, OneMap
  <1>4. Pending' = Pending
    BY <1>2, Zenon DEF Pending
  <1>5. \A w : Moving(w) <=> w = j
    BY <1>1, <1>2, Zenon DEF Moving
  <1>6. mainPC \notin {"clean", "down"} /\ mainPC' \notin {"clean", "offline", "down"} /\ Up
    BY <1>2, Zenon DEF Up
  <1>7. \A w \in WorkerID : IsTombstone(w) /\ Recovered(w) =>
          /\ w \notin pendingJobs' /\ w \notin onlineJobs'
          /\ w \in waitAckJobs' => w \in addFromFailover'
    BY <1>2, <1>3, <1>5, Zenon DEF Recovered
  <1>8. \A w \in WorkerID :
          OnlinePending(w)' /\ workerEntries[w] = NoEntry /\ submitPC[w] # "created"
            => w \notin waitAckJobs'
    BY <1>2, <1>3, <1>4, <1>5, <1>6, Zenon DEF OnlineInv, OnlinePending
  <1>9. CalmStep
    <2>1. \A w \in waitAckJobs' \ addFromFailover' : w \in waitAckJobs \ addFromFailover /\ ~Moving(w)
      BY <1>3, <1>5, Zenon
    <2>2. \A w \in onlineJobs' : w \in onlineJobs /\ ~Moving(w)
      BY <1>2, <1>5, Zenon
    <2> QED
      BY <1>2, <1>4, <1>6, <1>7, <1>8, <2>1, <2>2, Zenon DEF CalmStep
  <1>10. VisitInv'
    BY <1>2, Zenon DEF VisitInv
  <1> QED
    BY <1>9, <1>10, CalmKeeps, Zenon

\* GetWorkers.
LEMMA GetWait ==
  ASSUME TablesInv, EventsInv, WaitInv, GetWorkers
  PROVE  WaitInv'
  <1> USE DEF WaitInv
  <1>1. /\ mainPC = "get" /\ mainPC' = "scan"
        /\ toVisit' = {[worker |-> w, tombstone |-> entryState[workerEntries[w]] = "Tombstone"] :
                         w \in {v \in WorkerID : workerEntries[v] # NoEntry}}
        /\ UNCHANGED <<fsmVars, submitPC, cpc, workerEntries, entryState, finished, expired,
                       errs, offlineArg, handling, eventQueue>>
    BY Zenon DEF GetWorkers, managerVars, rpcVars, workerVars
  <1>2. Pending' = Pending
    BY <1>1, Zenon DEF Pending
  <1>3. offlineArg = <<>> /\ \A w : ~Moving(w)
    BY <1>1, NotMoving, Zenon
  <1>4. mainPC \notin {"clean", "down"} /\ mainPC' \notin {"clean", "offline", "down"} /\ Up
    BY <1>1, Zenon DEF Up
  <1>5. CalmStep
    <2>1. \A w \in onlineJobs : workerEntries[w] # NoEntry
      BY <1>3, <1>4, Zenon DEF OnlineHasEntry
    <2>2. mainPC \in {"pending", "get", "scan"}
      BY <1>1, Zenon
    <2> QED
      BY <1>1, <1>2, <1>3, <1>4, <2>1, <2>2, Zenon DEF CalmStep, Recovered, fsmVars
  <1>6. VisitInv'
    <2>1. ASSUME NEW w \in WorkerID, workerEntries[w] # NoEntry
          PROVE  \E v \in toVisit' : v.worker = w
      <3>1. [worker |-> w, tombstone |-> entryState[workerEntries[w]] = "Tombstone"] \in toVisit'
        BY <1>1, <2>1, Zenon
      <3>2. [worker |-> w, tombstone |-> entryState[workerEntries[w]] = "Tombstone"].worker = w
        OBVIOUS
      <3> QED
        BY <3>1, <3>2, Zenon
    <2>2. ASSUME NEW v \in toVisit'
          PROVE  /\ v.worker \in WorkerID /\ workerEntries[v.worker] # NoEntry
                 /\ v.tombstone <=> entryState[workerEntries[v.worker]] = "Tombstone"
                 /\ v = [worker |-> v.worker,
                         tombstone |-> entryState[workerEntries[v.worker]] = "Tombstone"]
      <3>1. PICK w \in WorkerID :
              /\ workerEntries[w] # NoEntry
              /\ v = [worker |-> w, tombstone |-> entryState[workerEntries[w]] = "Tombstone"]
        BY <1>1, <2>2, Zenon
      <3>2. v.worker = w /\ v.tombstone = (entryState[workerEntries[w]] = "Tombstone")
        BY <3>1, Zenon
      <3> QED
        BY <3>1, <3>2, Zenon
    <2>3. \A u, v \in toVisit' : u.worker = v.worker => u = v
      <3> SUFFICES ASSUME NEW u \in toVisit', NEW v \in toVisit', u.worker = v.worker
                   PROVE  u = v
        BY Zenon
      <3>1. /\ u = [worker |-> u.worker,
                    tombstone |-> entryState[workerEntries[u.worker]] = "Tombstone"]
            /\ v = [worker |-> u.worker,
                    tombstone |-> entryState[workerEntries[u.worker]] = "Tombstone"]
        BY <2>2, Zenon
      <3> QED
        BY <3>1, Zenon
    <2> QED
      BY <1>1, <2>1, <2>2, <2>3, Zenon DEF VisitInv, IsTombstone
  <1> QED
    BY <1>5, <1>6, CalmKeeps, Zenon

\* Tick finds a worker that runs.
LEMMA RunningWait ==
  ASSUME TablesInv, EventsInv, WaitInv, NEW v \in toVisit, VisitRunning(v)
  PROVE  WaitInv'
  <1> USE DEF WaitInv
  <1>1. /\ mainPC = "scan" /\ mainPC' = "scan" /\ ~v.tombstone /\ toVisit' = toVisit \ {v}
        /\ UNCHANGED <<submitPC, cpc, workerEntries, entryState, finished, expired,
                       errs, offlineArg, handling, eventQueue>>
    BY Zenon DEF VisitRunning, managerVars, rpcVars, workerVars
  <1>2. PICK j \in WorkerID : /\ j = v.worker /\ workerEntries[j] # NoEntry /\ ~IsTombstone(j)
    BY <1>1, Zenon DEF VisitInv
  <1>3. /\ onlineJobs' \subseteq onlineJobs \cup {j} /\ UNCHANGED pendingJobs
        /\ \A w : w # j => /\ w \in waitAckJobs' <=> w \in waitAckJobs
                           /\ w \in addFromFailover' <=> w \in addFromFailover
        /\ \A w \in waitAckJobs' \ addFromFailover' : w \in waitAckJobs \ addFromFailover
    BY <1>2, Zenon DEF VisitRunning, JobOnline, fsmVars
  <1>4. Pending' = Pending
    BY <1>1, Zenon DEF Pending
  <1>5. offlineArg = <<>> /\ \A w : ~Moving(w)
    BY <1>1, NotMoving, Zenon
  <1>6. mainPC \notin {"clean", "down"} /\ mainPC' \notin {"clean", "offline", "down"} /\ Up
    BY <1>1, Zenon DEF Up
  <1>7. CalmStep
    <2>1. \A w \in onlineJobs' : workerEntries[w] # NoEntry
      BY <1>2, <1>3, <1>5, <1>6, Zenon DEF OnlineHasEntry
    <2>2. \A w \in WorkerID : IsTombstone(w) /\ Recovered(w) =>
            /\ w \notin pendingJobs' /\ w \notin onlineJobs'
            /\ w \in waitAckJobs' => w \in addFromFailover'
      BY <1>2, <1>3, Zenon DEF Recovered
    <2>3. mainPC \in {"pending", "get", "scan"}
      BY <1>1, Zenon
    <2> QED
      BY <1>1, <1>3, <1>4, <1>5, <1>6, <2>1, <2>2, <2>3, Zenon DEF CalmStep
  <1>8. VisitInv'
    <2>1. \A w : IsTombstone(w)' <=> IsTombstone(w)
      BY <1>1, Zenon DEF IsTombstone
    <2>2. \A w \in WorkerID : IsTombstone(w) => \E u \in toVisit \ {v} : u.worker = w
      BY <1>1, <1>2, Zenon DEF VisitInv
    <2> QED
      BY <1>1, <2>1, <2>2, Zenon DEF VisitInv
  <1> QED
    BY <1>7, <1>8, CalmKeeps, Zenon

-----------------------------------------------------------------------------
(* Steps of the main goroutine that change the manager's entries.          *)

\* A phase of the master of a job being submitted outlasts any event about
\* another worker.
LEMMA DispatchedHandled ==
  ASSUME NEW j \in WorkerID, NEW e \in Entry, OnlyMaster(j, e), Dispatched(j, e),
         ~Moving(j)', UNCHANGED <<cpc, expired, finished, errs>>,
         workerEntries'[j] = workerEntries[j], entryState'[e] = entryState[e],
         Pending' \subseteq Pending,
         \A ev \in Pending \ Pending' : ev.worker # j
  PROVE  OnlyMaster(j, e)' /\ Dispatched(j, e)'
  <1>1. OnlyMaster(j, e)'
    BY Zenon DEF OnlyMaster
  <1>2. ~OnlinePending(j) => ~OnlinePending(j)'
    BY Zenon DEF OnlinePending
  <1>3. FailedEvent(j).worker = j /\ OnlineEvent(e).worker = j
    BY Zenon DEF FailedEvent, OnlineEvent, OnlyMaster
  <1>4. Unknown(j, e) => Unknown(j, e)'
    BY <1>3, Zenon DEF Unknown, FailedEvent
  <1>5. Silent(j, e) => Silent(j, e)'
    BY Zenon DEF Silent
  <1>6. Reported(j, e) => Reported(j, e)'
    BY <1>3, Zenon DEF Reported, OnlineEvent
  <1>7. Unreported(j, e) => Unreported(j, e)'
    BY <1>2, Zenon DEF Unreported
  <1> QED
    BY <1>1, <1>4, <1>5, <1>6, <1>7, Zenon DEF Dispatched

\* OnWorkerDispatched with an error.
LEMMA DispatchFailedWait ==
  ASSUME TablesInv, EventsInv, WaitInv, OnWorkerDispatched
  PROVE  WaitInv'
  <1> USE DEF WaitInv
  <1>1. PICK j : /\ j = handling[1].worker
                 /\ \/ /\ j \in waitAckJobs /\ UNCHANGED mainPC
                       /\ pendingJobs' = pendingJobs \cup {j} /\ waitAckJobs' = waitAckJobs \ {j}
                       /\ addFromFailover' = addFromFailover \ {j} /\ UNCHANGED onlineJobs
                    \/ j \notin waitAckJobs /\ mainPC' = "down"
    BY Zenon DEF OnWorkerDispatched
  <1>2. /\ mainPC = "poll" /\ handling # <<>> /\ handling[1].tp = "failed" /\ handling' = <<>>
        /\ workerEntries' = [workerEntries EXCEPT ![j] = NoEntry]
        /\ UNCHANGED <<submitPC, cpc, entryState, finished, expired, errs, offlineArg, eventQueue>>
    BY <1>1, Zenon DEF OnWorkerDispatched, TickDispatchFailed, rpcVars, workerVars
  <1>3. CASE mainPC' = "down"
    BY <1>3, WaitDown, Zenon
  <1>4. CASE j \in waitAckJobs /\ UNCHANGED mainPC
    <2>0. /\ Pending = Pending' \cup {handling[1]} /\ offlineArg = <<>> /\ \A w : ~Moving(w)
          /\ \A w : ~Moving(w)' /\ mainPC \notin {"clean", "down"} /\ Up /\ Up' /\ mainPC' = "poll"
      BY <1>2, <1>4, PendingHandled, NotMoving, Zenon DEF Up, Moving
    <2>1. /\ pendingJobs' = pendingJobs \cup {j} /\ waitAckJobs' = waitAckJobs \ {j}
          /\ addFromFailover' = addFromFailover \ {j} /\ UNCHANGED onlineJobs
      BY <1>1, <1>4, <2>0, Zenon
    <2>2. /\ Pending' \subseteq Pending /\ j \in WorkerID /\ handling[1] \in Pending
          /\ \A ev \in Pending \ Pending' : ev.worker = j
      BY <1>1, <1>4, <2>0, Zenon DEF TablesInv, TableTypes
    <2>3. workerEntries'[j] = NoEntry /\ \A w \in WorkerID \ {j} : workerEntries'[w] = workerEntries[w]
      BY <1>2, <2>2, Zenon DEF EventsInv, ManagerTypes
    <2>4. submitPC[j] \notin Submitting /\ j \notin onlineJobs
      BY <1>4, <2>2, Zenon DEF TablesInv, SubmitInv, OneMap
    <2>5. ArgInv' /\ VisitInv'
      BY <1>2, <2>0, Zenon DEF ArgInv, VisitInv
    <2>6. TombstoneInv'
      <3>1. ASSUME NEW w \in WorkerID, IsTombstone(w)' PROVE w # j /\ IsTombstone(w)
        BY <1>2, <2>3, <3>1, Zenon DEF IsTombstone
      <3>2. ASSUME NEW w \in WorkerID, IsTombstone(w) PROVE Recovered(w)
        BY <2>0, <3>2, Zenon DEF TombstoneInv
      <3>3. ASSUME NEW w \in WorkerID, w # j, Recovered(w) PROVE Recovered(w)'
        BY <1>2, <2>0, <2>1, <2>2, <2>3, <3>3, Zenon DEF Recovered
      <3> QED
        BY <3>1, <3>2, <3>3, Zenon DEF TombstoneInv
    <2>7. OnlineInv'
      <3>1. \A w \in WorkerID : OnlinePending(w)' => OnlinePending(w)
        BY <2>2, Zenon DEF OnlinePending
      <3>2. \A w \in WorkerID :
              OnlinePending(w)' /\ workerEntries'[w] = NoEntry /\ submitPC[w] # "created"
                => w \notin waitAckJobs'
        BY <1>2, <2>0, <2>1, <2>3, <3>1, Zenon DEF OnlineInv
      <3>3. mainPC' \in {"poll", "clean", "offline"}
        BY <2>0, Zenon
      <3> QED
        BY <1>2, <3>2, <3>3, Zenon DEF OnlineInv
    <2>8. SubmittedInv'
      <3> SUFFICES ASSUME NEW k \in WorkerID, submitPC'[k] = "created"
                   PROVE  \E f \in Entry : OnlyMaster(k, f)' /\ Dispatched(k, f)'
        BY Zenon DEF SubmittedInv
      <3>1. PICK f \in Entry : OnlyMaster(k, f) /\ Dispatched(k, f)
        BY <1>2, <2>0, Zenon DEF SubmittedInv
      <3>2. k # j
        BY <1>2, <2>4, Zenon DEF Submitting
      <3>3. OnlyMaster(k, f)' /\ Dispatched(k, f)'
        BY <1>2, <2>0, <2>2, <2>3, <3>1, <3>2, DispatchedHandled, Zenon
      <3> QED
        BY <3>3, Zenon
    <2>9. OnlineHasEntry'
      <3>1. onlineJobs \subseteq WorkerID
        BY Zenon DEF TablesInv, TableTypes
      <3> QED
        BY <2>0, <2>1, <2>3, <2>4, <3>1, Zenon DEF OnlineHasEntry
    <2>10. WaitHasCause'
      <3> SUFFICES ASSUME NEW w \in waitAckJobs' \ addFromFailover' PROVE HasCause(w)'
        BY Zenon DEF WaitHasCause, HasCause
      <3>1. w \in waitAckJobs \ addFromFailover /\ w # j /\ w \in WorkerID
        BY <2>1, Zenon DEF TablesInv, TableTypes
      <3>2. HasCause(w)
        BY <2>0, <3>1, Zenon DEF WaitHasCause, HasCause
      <3>3. FailedEvent(w) \in Pending => FailedEvent(w) \in Pending'
        BY <2>2, <3>1 DEF FailedEvent
      <3> QED
        BY <1>2, <2>0, <2>3, <3>1, <3>2, <3>3, Zenon DEF HasCause, FailedEvent
    <2> QED
      BY <2>5, <2>6, <2>7, <2>8, <2>9, <2>10, Zenon
  <1> QED
    BY <1>1, <1>3, <1>4, Zenon

\* OnWorkerOffline: the entry becomes a tombstone.
LEMMA OfflineWait ==
  ASSUME TablesInv, EventsInv, WaitInv, OnWorkerOffline
  PROVE  WaitInv'
  <1> USE DEF WaitInv
  <1>1. PICK e, j, arg : /\ e = handling[1].entry /\ j = handling[1].worker
                         /\ arg = [worker |-> handling[1].worker, reason |-> handling[1].arg]
    BY Zenon
  <1>2. /\ mainPC = "poll" /\ mainPC' = "clean" /\ offlineArg' = <<arg>>
        /\ handling # <<>> /\ handling[1].tp = "offline" /\ handling' = <<>>
        /\ entryState' = [entryState EXCEPT ![e] = "Tombstone"]
        /\ UNCHANGED <<fsmVars, submitPC, cpc, workerEntries, finished, expired, errs, eventQueue>>
    BY <1>1, Zenon DEF OnWorkerOffline, TickOffline, rpcVars, workerVars
  <1>3. /\ Pending = Pending' \cup {handling[1]}
        /\ \A ev \in Pending' : MayPrecede(handling[1], ev)
    BY <1>2, PendingHandled, Zenon
  <1>4. /\ Pending' \subseteq Pending /\ handling[1] \in Pending
        /\ \A ev \in Pending \ Pending' : ev = handling[1]
    BY <1>3, ZenonT(40)
  <1>5. e \in Entry /\ j = IdOf[e] /\ entryState[e] = "Offline"
    BY <1>1, <1>2, <1>4, PendingOK, Zenon DEF EventOK
  <1>6. j \in WorkerID /\ cpc[e] # "idle" /\ offlineArg'[1].worker = j
    <2>1. offlineArg'[1] = arg
      BY <1>2, SMTT(40)
    <2>2. cpc[e] # "idle"
      BY <1>5, Zenon DEF EventsInv, EntryInv
    <2>3. arg.worker = handling[1].worker
      BY <1>1, Zenon
    <2>4. j \in WorkerID
      BY <1>5, Zenon
    <2> QED
      BY <1>1, <2>1, <2>2, <2>3, <2>4, Zenon
  <1>7. /\ entryState'[e] = "Tombstone"
        /\ \A f \in Entry \ {e} : entryState'[f] = entryState[f]
    BY <1>2, <1>5, Zenon DEF EventsInv, ManagerTypes
  <1>8. offlineArg = <<>> /\ Up /\ Up' /\ \A w : (Moving(w)' <=> w = j)
    BY <1>2, <1>6, NotMoving, Zenon DEF Up, Moving
  <1>9. \A w : OnlinePending(w)' => OnlinePending(w)
    BY <1>4, Zenon DEF OnlinePending
  <1>10. ArgInv'
    <2>1. submitPC[j] \notin {"new", "stored"}
      BY <1>5, <1>6, Zenon DEF TablesInv, MasterInv
    <2> QED
      BY <1>2, <1>6, <2>1, SMTT(40) DEF ArgInv
  <1>11. TombstoneInv'
    <2> SUFFICES ASSUME NEW w \in WorkerID, IsTombstone(w)', w # j PROVE Recovered(w)'
      BY <1>2, <1>8, Zenon DEF TombstoneInv
    <2>0. workerEntries[w] # NoEntry
      BY <1>2, ZenonT(40) DEF IsTombstone
    <2>1. /\ workerEntries[w] \in Entry /\ IdOf[workerEntries[w]] = w
      BY <2>0 DEF EventsInv, ManagerTypes, EntryInv
    <2>2. IsTombstone(w)
      BY <1>2, <1>5, <1>7, <2>1, Zenon DEF IsTombstone
    <2>3. Recovered(w)
      BY <1>2, <2>2, Zenon DEF TombstoneInv
    <2>4. \A f \in Entry : IdOf[f] = w => entryState'[f] = entryState[f]
      BY <1>5, <1>7, Zenon
    <2> QED
      BY <1>2, <1>4, <1>8, <2>3, <2>4, Zenon DEF Recovered, fsmVars
  <1>12. ASSUME IsTombstone(j) PROVE workerEntries[j] # e
    BY <1>5, <1>12, SMTT(40) DEF IsTombstone
  <1>13. VisitInv'
    BY <1>2, Zenon DEF VisitInv
  <1>14. OnlineInv'
    <2>1. \A w \in WorkerID :
            OnlinePending(w)' /\ workerEntries[w] = NoEntry /\ submitPC[w] # "created"
              => w \notin waitAckJobs
      BY <1>2, <1>8, <1>9, Zenon DEF OnlineInv
    <2>2. mainPC' \in {"poll", "clean", "offline"} /\ UNCHANGED waitAckJobs
      BY <1>2, Zenon DEF fsmVars
    <2> QED
      BY <1>2, <2>1, <2>2, Zenon DEF OnlineInv
  <1>15. SubmittedInv'
    <2> SUFFICES ASSUME NEW k \in WorkerID, submitPC'[k] = "created"
                 PROVE  \E f \in Entry : OnlyMaster(k, f)' /\ Dispatched(k, f)'
      BY Zenon DEF SubmittedInv
    <2>1. PICK f \in Entry : OnlyMaster(k, f) /\ Dispatched(k, f)
      BY <1>2, <1>8, Zenon DEF SubmittedInv
    <2>2. CASE k # j
      <3>1. f # e
        BY <1>5, <2>1, <2>2, Zenon DEF OnlyMaster
      <3>2. \A ev \in Pending \ Pending' : ev.worker # k
        BY <1>1, <1>4, <2>2, Zenon
      <3>3. OnlyMaster(k, f)' /\ Dispatched(k, f)'
        BY <1>2, <1>4, <1>7, <1>8, <2>1, <2>2, <3>1, <3>2, DispatchedHandled, Zenon
      <3> QED
        BY <3>3, Zenon
    <2>3. CASE k = j
      <3>1. f = e
        BY <1>5, <1>6, <2>1, <2>3, Zenon DEF OnlyMaster
      <3>2. ~Reported(k, e)
        <4>1. ASSUME Reported(k, e) PROVE FALSE
          <5>1. OnlineEvent(e) \in Pending
            BY <4>1, Zenon DEF Reported
          <5>2. OnlineEvent(e).tp = "online" /\ OnlineEvent(e).entry = e
            BY Zenon DEF OnlineEvent
          <5>3. OnlineEvent(e) \in Pending'
            BY <1>2, <1>4, <5>1, <5>2, ZenonT(40)
          <5> QED
            BY <1>1, <1>2, <1>3, <5>2, <5>3, Zenon DEF MayPrecede
        <4> QED
          BY <4>1, Zenon
      <3>3. Unreported(k, e)
        BY <1>5, <2>1, <3>1, <3>2, SMTT(40) DEF Dispatched, Unknown, Silent
      <3>4. Unreported(k, e)'
        BY <1>2, <1>7, <1>9, <3>3, Zenon DEF Unreported
      <3>5. OnlyMaster(k, e)'
        BY <1>2, <2>1, <3>1, Zenon DEF OnlyMaster
      <3> QED
        BY <1>5, <3>4, <3>5, Zenon DEF Dispatched
    <2> QED
      BY <2>2, <2>3, Zenon
  <1>16. OnlineHasEntry'
    BY <1>2, <1>8, Zenon DEF OnlineHasEntry, fsmVars
  <1>17. WaitHasCause'
    <2> SUFFICES ASSUME NEW w \in waitAckJobs' \ addFromFailover' PROVE HasCause(w)'
      BY Zenon DEF WaitHasCause, HasCause
    <2>1. HasCause(w)
      BY <1>2, <1>8, Zenon DEF WaitHasCause, HasCause, fsmVars
    <2>2. FailedEvent(w) \in Pending => FailedEvent(w) \in Pending'
      BY <1>2, <1>4, SMTT(40) DEF FailedEvent
    <2> QED
      BY <1>2, <1>8, <2>1, <2>2, Zenon DEF HasCause, FailedEvent
  <1> QED
    BY <1>10, <1>11, <1>13, <1>14, <1>15, <1>16, <1>17, Zenon

\* CleanTombstone removes the entry of a worker of which there was no other.
LEMMA CleanWait ==
  ASSUME TablesInv, EventsInv, WaitInv, OfflineClean
  PROVE  WaitInv'
  <1> USE DEF WaitInv
  <1>1. PICK j : j = offlineArg[1].worker
    BY Zenon
  <1>2. /\ mainPC = "clean" /\ mainPC' = "offline"
        /\ workerEntries' = [workerEntries EXCEPT ![j] = NoEntry]
        /\ UNCHANGED <<fsmVars, submitPC, cpc, entryState, finished, expired, errs, offlineArg,
                       handling, eventQueue>>
    BY <1>1, Zenon DEF OfflineClean, CleanTombstone, removeTombstoneEntry, rpcVars
  <1>3. /\ j \in WorkerID /\ offlineArg # <<>> /\ Up /\ Up'
        /\ \A w : (Moving(w)' <=> w = j) /\ (Moving(w) <=> w = j)
    BY <1>1, <1>2 DEF EventsInv, EndedInv, Moving, Up
  <1>4. workerEntries'[j] = NoEntry /\ \A w \in WorkerID \ {j} : workerEntries'[w] = workerEntries[w]
    BY <1>2, <1>3, Zenon DEF EventsInv, ManagerTypes
  <1>5. Pending' = Pending
    BY <1>2, Zenon DEF Pending
  <1>6. ArgInv' /\ VisitInv'
    BY <1>2, Zenon DEF ArgInv, VisitInv
  <1>7. TombstoneInv'
    <2> SUFFICES ASSUME NEW w \in WorkerID, IsTombstone(w)' PROVE Recovered(w)'
      BY Zenon DEF TombstoneInv
    <2>1. w # j /\ IsTombstone(w)
      BY <1>2, <1>4, Zenon DEF IsTombstone
    <2>2. Recovered(w)
      BY <1>2, <1>3, <2>1, Zenon DEF TombstoneInv
    <2> QED
      BY <1>2, <1>3, <1>4, <1>5, <2>1, <2>2, Zenon DEF Recovered, fsmVars
  <1>8. OnlineInv'
    <2> SUFFICES ASSUME NEW w \in WorkerID, OnlinePending(w)', workerEntries'[w] = NoEntry,
                        submitPC'[w] # "created", w # j
                 PROVE  w \notin waitAckJobs'
      <3>1. mainPC' \in {"poll", "clean", "offline"}
        BY <1>2, Zenon
      <3> QED
        BY <1>2, <1>3, <3>1, Zenon DEF OnlineInv
    <2>1. OnlinePending(w) /\ workerEntries[w] = NoEntry
      BY <1>4, <1>5, Zenon DEF OnlinePending
    <2> QED
      BY <1>2, <1>3, <2>1, Zenon DEF OnlineInv, fsmVars
  <1>9. SubmittedInv'
    <2> SUFFICES ASSUME NEW k \in WorkerID, submitPC'[k] = "created"
                 PROVE  \E f \in Entry : OnlyMaster(k, f)' /\ Dispatched(k, f)'
      BY Zenon DEF SubmittedInv
    <2>1. PICK f \in Entry : OnlyMaster(k, f) /\ Dispatched(k, f)
      BY <1>2, <1>3, Zenon DEF SubmittedInv
    <2>2. CASE k # j
      <3>1. OnlyMaster(k, f)' /\ Dispatched(k, f)'
        BY <1>2, <1>3, <1>4, <1>5, <2>1, <2>2, DispatchedKept, Zenon
      <3> QED
        BY <3>1, Zenon
    <2>3. CASE k = j
      <3>1. Unreported(k, f)
        BY <1>3, <2>1, <2>3, Zenon DEF Dispatched, Unknown, Silent, Reported
      <3>2. Unreported(k, f)'
        BY <1>2, <1>5, <3>1, Zenon DEF Unreported, OnlinePending
      <3>3. OnlyMaster(k, f)'
        BY <1>2, <2>1, Zenon DEF OnlyMaster
      <3> QED
        BY <3>2, <3>3, Zenon DEF Dispatched
    <2> QED
      BY <2>2, <2>3, Zenon
  <1>10. onlineJobs \subseteq WorkerID /\ waitAckJobs \subseteq WorkerID
    BY Zenon DEF TablesInv, TableTypes
  <1>11. OnlineHasEntry'
    BY <1>1, <1>2, <1>3, <1>4, <1>10, Zenon DEF OnlineHasEntry, fsmVars
  <1>12. WaitHasCause'
    <2> SUFFICES ASSUME NEW w \in waitAckJobs' \ addFromFailover' PROVE HasCause(w)'
      BY Zenon DEF WaitHasCause, HasCause
    <2>1. HasCause(w) /\ w \in WorkerID
      BY <1>2, <1>3, <1>10, Zenon DEF WaitHasCause, HasCause, fsmVars
    <2> QED
      BY <1>1, <1>2, <1>3, <1>4, <1>5, <2>1, Zenon DEF HasCause
  <1> QED
    BY <1>6, <1>7, <1>8, <1>9, <1>11, <1>12, Zenon

\* CreateWorker for the jobs in S, which were recorded before.
LEMMA CreatesWait ==
  ASSUME TablesInv, EventsInv, WaitInv, NEW S, CreateWorkers(S),
         mainPC \in {"pending", "scan"}, mainPC' \in {"poll", "get"},
         \A w \in S : w \in pendingJobs \/ w \in waitAckJobs,
         waitAckJobs' = waitAckJobs \cup S, addFromFailover' = addFromFailover \ S,
         pendingJobs' \subseteq pendingJobs,
         \A w \in WorkerID : IsTombstone(w) => w \notin S,
         UNCHANGED <<onlineJobs, submitPC, offlineArg>>
  PROVE  WaitInv'
  <1> USE DEF WaitInv
  <1>1. UNCHANGED <<workerEntries, entryState, finished, expired, errs, handling, eventQueue>>
    BY Zenon DEF CreateWorkers
  <1>2. /\ \A e \in Entry : \/ cpc'[e] = cpc[e]
                            \/ /\ cpc'[e] = "dispatching" /\ cpc[e] = "idle"
                               /\ entryState[e] = "Unused" /\ IdOf[e] \in S
        /\ \A j \in S : \E e \in Entry : IdOf[e] = j /\ cpc'[e] = "dispatching"
    BY CreateWorkersFact
  <1>2a. \A e \in Entry : IdOf[e] \notin S => cpc'[e] = cpc[e]
    BY <1>2, Zenon
  <1>3. Pending' = Pending
    BY <1>1, Zenon DEF Pending
  <1>4. offlineArg = <<>> /\ \A w : ~Moving(w)
    BY NotMoving, Zenon
  <1>5. Up /\ Up' /\ mainPC' \notin {"clean", "offline", "scan"} /\ \A w : ~Moving(w)'
    BY Zenon DEF Up, Moving
  <1>6. /\ \A w : (IsTombstone(w)' <=> IsTombstone(w)) /\ (OnlinePending(w)' <=> OnlinePending(w))
    BY <1>1, <1>3, Zenon DEF IsTombstone, OnlinePending
  <1>7. ArgInv' /\ VisitInv'
    BY <1>4, <1>5, Zenon DEF ArgInv, VisitInv
  <1>8. TombstoneInv'
    <2> SUFFICES ASSUME NEW w \in WorkerID, IsTombstone(w) PROVE Recovered(w)'
      BY <1>6, Zenon DEF TombstoneInv
    <2>1. Recovered(w) /\ w \notin S
      BY Zenon DEF TombstoneInv
    <2>2. \A f \in Entry : IdOf[f] = w => cpc'[f] = cpc[f]
      BY <1>2a, <2>1, Zenon
    <2> QED
      BY <1>1, <1>3, <1>5, <2>1, <2>2, Zenon DEF Recovered
  <1>9. OnlineInv'
    <2>1. \A w \in WorkerID : OnlinePending(w) /\ submitPC[w] # "created" => workerEntries[w] # NoEntry
      BY <1>5, Zenon DEF OnlineInv
    <2> QED
      BY <1>1, <1>6, <2>1, Zenon DEF OnlineInv
  <1>10. SubmittedInv'
    <2> SUFFICES ASSUME NEW k \in WorkerID, submitPC'[k] = "created"
                 PROVE  \E f \in Entry : OnlyMaster(k, f)' /\ Dispatched(k, f)'
      BY Zenon DEF SubmittedInv
    <2>1. PICK f \in Entry : OnlyMaster(k, f) /\ Dispatched(k, f)
      BY <1>5, Zenon DEF SubmittedInv
    <2>2. k \notin S
      BY Zenon DEF TablesInv, SubmitInv, Submitting
    <2>3. \A g \in Entry : IdOf[g] = k => cpc'[g] = cpc[g]
      BY <1>2a, <2>2, Zenon
    <2>4. cpc'[f] = cpc[f]
      BY <2>1, <2>3, Zenon DEF OnlyMaster
    <2>5. OnlyMaster(k, f)' /\ Dispatched(k, f)'
      BY <1>1, <1>3, <1>5, <2>1, <2>3, <2>4, DispatchedKept, Zenon
    <2> QED
      BY <2>5, Zenon
  <1>11. OnlineHasEntry'
    BY <1>1, <1>4, <1>5, Zenon DEF OnlineHasEntry
  <1>12. WaitHasCause'
    <2> SUFFICES ASSUME NEW w \in waitAckJobs' \ addFromFailover' PROVE HasCause(w)'
      BY Zenon DEF WaitHasCause, HasCause
    <2>1. CASE w \in S
      <3>1. PICK e \in Entry : IdOf[e] = w /\ cpc'[e] = "dispatching"
        BY <1>2, <2>1, Zenon
      <3>2. cpc'[e] \in {"dispatching", "silent"}
        BY <3>1
      <3> QED
        BY <3>1, <3>2, Zenon DEF HasCause
    <2>2. CASE w \notin S
      <3>1. HasCause(w)
        BY <1>5, <2>2, Zenon DEF WaitHasCause, HasCause
      <3>2. \A e \in Entry : IdOf[e] = w => cpc'[e] = cpc[e]
        BY <1>2a, <2>2, Zenon
      <3> QED
        BY <1>1, <1>3, <3>1, <3>2, Zenon DEF HasCause
    <2> QED
      BY <2>1, <2>2, Zenon
  <1> QED
    BY <1>7, <1>8, <1>9, <1>10, <1>11, <1>12, Zenon

\* IterPendingJobs and IterWaitAckJobs.
LEMMA IterWait ==
  ASSUME TablesInv, EventsInv, WaitInv, IterPendingJobs \/ IterWaitAckJobs
  PROVE  WaitInv'
  <1>1. CASE IterPendingJobs
    <2>1. PICK S \in SUBSET pendingJobs :
            /\ CreateWorkers(S) /\ pendingJobs' = pendingJobs \ S
            /\ waitAckJobs' = waitAckJobs \cup S /\ addFromFailover' = addFromFailover \ S
      BY <1>1, Zenon DEF IterPendingJobs
    <2>2. /\ mainPC = "pending" /\ mainPC' \in {"poll", "get"}
          /\ UNCHANGED <<onlineJobs, submitPC, offlineArg>>
      BY <1>1, Zenon DEF IterPendingJobs, rpcVars
    <2>3. \A w \in WorkerID : IsTombstone(w) => w \notin S
      BY <2>2, Zenon DEF WaitInv, TombstoneInv, Recovered
    <2>4. mainPC \in {"pending", "scan"} /\ pendingJobs' \subseteq pendingJobs
      BY <2>1, <2>2, Zenon
    <2>5. \A w \in S : w \in pendingJobs
      BY <2>1, Zenon
    <2> QED
      BY <2>1, <2>2, <2>3, <2>4, <2>5, CreatesWait, Zenon
  <1>2. CASE IterWaitAckJobs
    <2>1. PICK S \in SUBSET addFromFailover :
            CreateWorkers(S) /\ addFromFailover' = addFromFailover \ S
      BY <1>2, Zenon DEF IterWaitAckJobs
    <2>2. /\ mainPC = "scan" /\ mainPC' = "poll" /\ toVisit = {}
          /\ UNCHANGED <<pendingJobs, waitAckJobs, onlineJobs, submitPC, offlineArg>>
      BY <1>2, Zenon DEF IterWaitAckJobs, rpcVars
    <2>3. \A w \in WorkerID : ~IsTombstone(w)
      BY <2>2, Zenon DEF WaitInv, VisitInv
    <2>4. /\ mainPC \in {"pending", "scan"} /\ mainPC' \in {"poll", "get"}
          /\ pendingJobs' \subseteq pendingJobs
      BY <2>2
    <2>5. S \subseteq waitAckJobs /\ waitAckJobs' = waitAckJobs \cup S
      BY <2>1, <2>2, Zenon DEF TablesInv, TableTypes
    <2> QED
      BY <2>1, <2>2, <2>3, <2>4, <2>5, CreatesWait, Zenon
  <1> QED
    BY <1>1, <1>2, Zenon

\* Tick removes a tombstone that the new leader was left with.
LEMMA TombstoneWait ==
  ASSUME TablesInv, EventsInv, WaitInv, NEW v \in toVisit, VisitTombstone(v)
  PROVE  WaitInv'
  <1> USE DEF WaitInv
  <1>1. PICK j : j = v.worker
    BY Zenon
  <1>2. /\ mainPC = "scan" /\ mainPC' = "scan" /\ v.tombstone /\ toVisit' = toVisit \ {v}
        /\ workerEntries' = [workerEntries EXCEPT ![j] = NoEntry]
        /\ UNCHANGED <<fsmVars, submitPC, cpc, entryState, finished, expired, errs, offlineArg,
                       handling, eventQueue>>
    BY <1>1, Zenon DEF VisitTombstone, CleanTombstone, removeTombstoneEntry, rpcVars
  <1>3. j \in WorkerID /\ IsTombstone(j) /\ Up /\ Up'
    BY <1>1, <1>2, Zenon DEF VisitInv, Up
  <1>4. Recovered(j)
    BY <1>2, <1>3, Zenon DEF TombstoneInv
  <1>5. workerEntries'[j] = NoEntry /\ \A w \in WorkerID \ {j} : workerEntries'[w] = workerEntries[w]
    BY <1>2, <1>3, Zenon DEF EventsInv, ManagerTypes
  <1>6. Pending' = Pending
    BY <1>2, Zenon DEF Pending
  <1>7. offlineArg = <<>> /\ (\A w : ~Moving(w)) /\ \A w : ~Moving(w)'
    BY <1>2, NotMoving, Zenon DEF Moving
  <1>8. ArgInv'
    BY <1>2, <1>7, Zenon DEF ArgInv
  <1>9. ASSUME NEW w \in WorkerID
        PROVE  IsTombstone(w)' <=> w # j /\ IsTombstone(w)
    BY <1>2, <1>5, Zenon DEF IsTombstone
  <1>10. TombstoneInv'
    <2> SUFFICES ASSUME NEW w \in WorkerID, IsTombstone(w)' PROVE Recovered(w)'
      BY Zenon DEF TombstoneInv
    <2>1. w # j /\ IsTombstone(w)
      BY <1>9, Zenon
    <2>2. Recovered(w)
      BY <1>2, <2>1, Zenon DEF TombstoneInv
    <2> QED
      BY <1>2, <1>5, <1>6, <1>7, <2>1, <2>2, Zenon DEF Recovered, fsmVars
  <1>11. VisitInv'
    <2>1. \A u \in toVisit' : u \in toVisit /\ u.worker \in WorkerID \ {j}
      BY <1>1, <1>2, Zenon DEF VisitInv
    <2>2. \A w \in WorkerID : IsTombstone(w)' => \E u \in toVisit' : u.worker = w
      BY <1>1, <1>2, <1>9, Zenon DEF VisitInv
    <2>3. \A u \in toVisit' : /\ workerEntries'[u.worker] # NoEntry
                              /\ u.tombstone <=> IsTombstone(u.worker)'
      BY <1>2, <1>5, <1>9, <2>1, Zenon DEF VisitInv
    <2>4. \A u, x \in toVisit' : u.worker = x.worker => u = x
      BY <1>2, <2>1, Zenon DEF VisitInv
    <2> QED
      BY <2>1, <2>2, <2>3, <2>4, Zenon DEF VisitInv
  <1>12. OnlineInv'
    <2>1. \A w \in WorkerID : OnlinePending(w)' <=> OnlinePending(w)
      BY <1>6, Zenon DEF OnlinePending
    <2>2. ~OnlinePending(j)
      BY <1>3, <1>4, RecoveredOffline, Zenon
    <2>3. \A w \in WorkerID : OnlinePending(w) /\ submitPC[w] # "created" => workerEntries[w] # NoEntry
      BY <1>2, <1>3, Zenon DEF OnlineInv
    <2> QED
      BY <1>2, <1>5, <2>1, <2>2, <2>3, Zenon DEF OnlineInv
  <1>13. SubmittedInv'
    <2> SUFFICES ASSUME NEW k \in WorkerID, submitPC'[k] = "created"
                 PROVE  \E f \in Entry : OnlyMaster(k, f)' /\ Dispatched(k, f)'
      BY Zenon DEF SubmittedInv
    <2>1. PICK f \in Entry : OnlyMaster(k, f) /\ Dispatched(k, f)
      BY <1>2, <1>3, Zenon DEF SubmittedInv
    <2>2. k # j
      BY <1>2, <1>4, Zenon DEF Recovered, Submitting
    <2>3. OnlyMaster(k, f)' /\ Dispatched(k, f)'
      BY <1>2, <1>5, <1>6, <1>7, <2>1, <2>2, DispatchedKept, Zenon
    <2> QED
      BY <2>3, Zenon
  <1>14. onlineJobs \subseteq WorkerID /\ waitAckJobs \subseteq WorkerID
    BY Zenon DEF TablesInv, TableTypes
  <1>15. OnlineHasEntry'
    BY <1>2, <1>3, <1>4, <1>5, <1>7, <1>14, Zenon DEF OnlineHasEntry, Recovered, fsmVars
  <1>16. WaitHasCause'
    <2> SUFFICES ASSUME NEW w \in waitAckJobs' \ addFromFailover' PROVE HasCause(w)'
      BY Zenon DEF WaitHasCause, HasCause
    <2>1. HasCause(w) /\ w \in WorkerID /\ w # j
      BY <1>2, <1>3, <1>4, <1>14, Zenon DEF WaitHasCause, HasCause, Recovered, fsmVars
    <2> QED
      BY <1>2, <1>5, <1>6, <2>1, Zenon DEF HasCause
  <1> QED
    BY <1>8, <1>10, <1>11, <1>12, <1>13, <1>15, <1>16, Zenon

-----------------------------------------------------------------------------
(* A new leader, and the theorems.                                         *)

\* A leader that has not recovered has a tombstone only for a worker that the
\* former leader created and that did not report.
LEMMA RecoveryWait ==
  ASSUME TablesInv, EventsInv, WaitInv, Recovery
  PROVE  WaitInv'
  <1> USE DEF WaitInv
  <1>1. /\ wmState \in {"LoadingMeta", "WaitingHeartbeat"}
        /\ UNCHANGED <<fsmVars, submitPC, mainPC, offlineArg, cpc, handling, eventQueue>>
    BY Zenon DEF Recovery, InitAfterRecoverLoad, InitAfterRecoverFinish, rpcVars,
       mainVars,
       workerVars
  <1>2. mainPC = "init" /\ mainPC' = "init" /\ ~Up' /\ offlineArg' = <<>>
    BY <1>1, Zenon DEF EventsInv, RecoveryInv, Up, ArgInv, WaitInv
  <1>3. /\ ArgInv' /\ VisitInv' /\ OnlineInv' /\ SubmittedInv' /\ OnlineHasEntry' /\ WaitHasCause'
    BY <1>2, Zenon DEF ArgInv, VisitInv, OnlineInv, SubmittedInv, OnlineHasEntry, WaitHasCause
  <1>4. CASE InitAfterRecoverLoad(workerMeta)
    <2>1. PICK pick, active :
            /\ workerEntries' = [w \in WorkerID |-> IF w \in active THEN pick[w] ELSE workerEntries[w]]
            /\ entryState' = [e \in Entry |-> IF IdOf[e] \in active /\ pick[IdOf[e]] = e
                                              THEN "Wait" ELSE entryState[e]]
            /\ \A w \in active : pick[w] \in Entry
      BY <1>4, Zenon DEF InitAfterRecoverLoad
    <2>2. \A e \in Entry : entryState[e] = "Unused"
      BY <1>4, ZenonT(40) DEF InitAfterRecoverLoad, EventsInv, RecoveryInv
    <2>3. \A e \in Entry : entryState'[e] # "Tombstone"
      BY <2>1, <2>2, Zenon
    <2>4. \A w \in WorkerID : workerEntries'[w] \in Entry \cup {NoEntry}
      BY <2>1, Zenon DEF EventsInv, ManagerTypes
    <2>5. TombstoneInv'
      BY <2>3, <2>4, Zenon DEF TombstoneInv, IsTombstone
    <2> QED
      BY <1>3, <2>5, Zenon
  <1>5. CASE InitAfterRecoverFinish
    <2>1. PICK dead : /\ dead = {e \in Entry : InEntries(e) /\ (entryState[e] = "Wait" \/ e \in finished)}
                      /\ entryState' = [e \in Entry |-> IF e \in dead THEN "Tombstone" ELSE entryState[e]]
                      /\ UNCHANGED workerEntries
      BY <1>5, Zenon DEF InitAfterRecoverFinish
    <2>2. \A e \in Entry : ~InEntries(e) => entryState'[e] = entryState[e]
      BY <2>1, Zenon
    <2>3. Pending' = Pending
      BY <1>1, ZenonT(40) DEF Pending
    <2>4. \A ev \in Pending : ev.tp # "failed"
      BY <1>2, PendingOK, Zenon DEF EventOK
    <2> SUFFICES ASSUME NEW w \in WorkerID, IsTombstone(w)' PROVE Recovered(w)'
      BY <1>3, Zenon DEF TombstoneInv
    <2>5. workerEntries[w] # NoEntry
      BY <2>1, ZenonT(40) DEF IsTombstone
    <2>6. /\ workerEntries[w] \in Entry /\ IdOf[workerEntries[w]] = w
          /\ entryState[workerEntries[w]] # "Unused"
      BY <2>5, SMTT(40) DEF EventsInv, ManagerTypes, EntryInv
    <2>7. cpc[workerEntries[w]] # "idle"
      BY <2>6, Zenon DEF EventsInv, EntryInv
    <2>8. submitPC[w] \notin {"new", "stored", "created"}
      <3>1. submitPC[w] \notin {"new", "stored"}
        BY <2>6, <2>7, Zenon DEF TablesInv, MasterInv
      <3>2. submitPC[w] \notin {"stored", "created"}
        BY <1>2, Zenon DEF TablesInv, StartInv
      <3> QED
        BY <3>1, <3>2, Zenon
    <2>9. ASSUME NEW f \in Entry, IdOf[f] = w
          PROVE  cpc[f] \notin Creating /\ (f # workerEntries[w] => entryState'[f] = "Unused")
      BY <1>2, <2>2, <2>9, ZenonT(40) DEF TablesInv, StartInv, EventsInv, RecoveryInv,
         InEntries
    <2>10. pendingJobs = {} /\ waitAckJobs = {} /\ onlineJobs = {}
      BY <1>2, Zenon DEF TablesInv, StartInv
    <2>11. ~Moving(w)'
      BY <1>2, Zenon DEF Moving
    <2> QED
      BY <1>1, <2>1, <2>3, <2>4, <2>8, <2>9, <2>10, <2>11, Zenon DEF Recovered,
         Submitting, fsmVars
  <1> QED
    BY <1>4, <1>5, Zenon DEF Recovery

\* A new leader has no entries.
LEMMA LeaderWait ==
  ASSUME NewLeader
  PROVE  WaitInv'
  <1>1. mainPC' = "init" /\ offlineArg' = <<>> /\ workerEntries' = [w \in WorkerID |-> NoEntry]
    BY Zenon DEF NewLeader, NewManager
  <1>2. ~Up' /\ \A w \in WorkerID : ~IsTombstone(w)'
    BY <1>1, Zenon DEF Up, IsTombstone
  <1>3. TombstoneInv'
    BY <1>2, Zenon DEF TombstoneInv
  <1> QED
    BY <1>1, <1>2, <1>3, Zenon DEF WaitInv, ArgInv, VisitInv, OnlineInv, SubmittedInv,
       OnlineHasEntry, WaitHasCause

\* The first leader.
LEMMA WaitInit == Init => WaitInv /\ JobTracked
  <1> SUFFICES ASSUME Init PROVE WaitInv /\ JobTracked
    BY Zenon
  <1>1. mainPC = "init" /\ offlineArg = <<>> /\ workerEntries = [w \in WorkerID |-> NoEntry]
    BY Zenon DEF Init
  <1>2. ~Up /\ \A w \in WorkerID : ~IsTombstone(w)
    BY <1>1, Zenon DEF Up, IsTombstone
  <1>3. TombstoneInv /\ JobTracked
    BY <1>2, Zenon DEF TombstoneInv, JobTracked
  <1> QED
    BY <1>1, <1>2, <1>3, Zenon DEF WaitInv, ArgInv, VisitInv, OnlineInv, SubmittedInv,
       OnlineHasEntry, WaitHasCause

\* Every step keeps the invariant.
LEMMA WaitStep ==
  ASSUME TablesInv, EventsInv, WaitInv, [Next]_vars
  PROVE  WaitInv'
  <1>1. CASE UNCHANGED <<waitVars, handling, eventQueue>>
    BY <1>1, WaitKept, Zenon DEF Pending
  <1>2. ASSUME NEW j \in WorkerID, Rpc(j) PROVE WaitInv'
    <2>1. CASE QueryJobPanics(j)
      BY <2>1, WaitDown, Zenon DEF QueryJobPanics
    <2>2. CASE PauseJob(j) \/ CancelJobCheck(j) \/ CancelJobDelete(j)
      BY <1>1, <2>2, Zenon DEF PauseJob, CancelJobCheck, CancelJobDelete,
         managerVars, mainVars,
         workerVars, waitVars
    <2> QED
      BY <1>2, <2>1, <2>2, SubmitWait, RecordedWait, Zenon DEF Rpc
  <1>3. ASSUME NEW e \in Entry, Creation(e) PROVE WaitInv'
    BY <1>3, CreatedWait, StartTimerWait, Zenon DEF Creation
  <1>4. ASSUME NEW e \in Entry, Environment(e) PROVE WaitInv'
    <2>1. CASE \/ Launch(e) \/ JobMasterFirstStartUp(e) \/ JobMasterInit(e)
               \/ JobMasterRecovers(e) \/ JobMasterStops(e) \/ RefreshMasterInfo(e)
               \/ \E s \in Final \cup {"Error"} : JobMasterExit(e, s)
               \/ LoseStatus(e)
      BY <1>1, <2>1, Zenon DEF Launch, JobMasterFirstStartUp, JobMasterInit,
         JobMasterRecovers,
         JobMasterStops, RefreshMasterInfo, JobMasterExit, LoseStatus,
         JobManagerUntouched,
         managerVars, rpcVars, mainVars, waitVars
    <2> QED
      BY <1>4, <2>1, PingWait, StatusWait, ExpireWait, Zenon DEF Environment
  <1>5. CASE Main
    <2>1. CASE PollFails
      BY <2>1, WaitDown, Zenon DEF PollFails
    <2>2. CASE PollTick /\ TickReceive
      <3>1. Pending' = Pending
        BY <2>2, PendingReceived, Zenon DEF EventsInv
      <3>2. UNCHANGED waitVars
        BY <2>2, Zenon DEF PollTick, TickReceive, rpcVars, mainVars, workerVars,
           waitVars
      <3> QED
        BY <3>1, <3>2, WaitKept, Zenon
    <2>3. CASE PollTick /\ TickBegin
      BY <1>1, <2>3, Zenon DEF PollTick, TickBegin, rpcVars, mainVars, workerVars,
         waitVars
    <2>4. CASE PollTick
      BY <2>2, <2>3, <2>4, Zenon DEF PollTick
    <2>5. CASE \E v \in toVisit : VisitTombstone(v) \/ VisitRunning(v)
      BY <2>5, TombstoneWait, RunningWait, Zenon
    <2> QED
      BY <1>5, <2>1, <2>4, <2>5, RecoveredWait, TickedWait, StatusHandledWait,
         OnlineWait,
         DispatchFailedWait, OfflineWait, CleanWait, JobOfflineWait, IterWait,
         GetWait, Zenon
      DEF Main
  <1>6. CASE Checker
    <2>1. CASE SweepBegin
      BY <1>1, <1>6, <2>1, Zenon DEF Checker, SweepBegin, rpcVars, mainVars,
         workerVars, waitVars
    <2> QED
      BY <1>6, <2>1, SweepWait, Zenon DEF Checker
  <1>7. CASE UNCHANGED vars
    BY <1>1, <1>7, Zenon DEF vars, managerVars, rpcVars, mainVars, workerVars, waitVars
  <1> QED
    BY <1>2, <1>3, <1>4, <1>5, <1>6, <1>7, RecoveryWait, LeaderWait, Zenon DEF Next

\* The invariant of the job manager: its maps agree with its tables, the
\* events in its queue with its entries, and every job that waits with what it
\* waits for.
THEOREM JobInvariant == Spec => [](TablesInv /\ EventsInv /\ WaitInv /\ JobTracked)
  <1>1. Init => TablesInv /\ EventsInv /\ WaitInv /\ JobTracked
    BY TablesInit, EventsInit, WaitInit, Zenon
  <1>2. TablesInv /\ EventsInv /\ WaitInv /\ JobTracked /\ [Next]_vars
          => (TablesInv /\ EventsInv /\ WaitInv /\ JobTracked)'
    BY TablesStep, EventsStep, WaitStep, TrackedStep, Zenon
  <1> QED
    BY <1>1, <1>2, PTL DEF Spec

\* JobFsm never has a job in two of its maps.
THEOREM JobInOneMap == Spec => []OneMap
  <1>1. TablesInv => OneMap
    BY Zenon DEF TablesInv
  <1> QED
    BY <1>1, JobInvariant, PTL

\* Once a leader's first Tick is complete, every job it took over was found
\* again or its master was created again.
THEOREM TakeoverComplete == Spec => []FailoverComplete
  <1>1. TablesInv => FailoverComplete
    BY Zenon DEF TablesInv
  <1> QED
    BY <1>1, JobInvariant, PTL

\* No leader that has recovered forgets a job that was acknowledged and has
\* not ended, unless two of its masters contend.
THEOREM NoJobForgotten == Spec => []JobTracked
  BY JobInvariant, PTL

\* An online job has an entry in the manager, except while OnWorkerOffline is
\* moving it.
THEOREM OnlineHandleGood == Spec => []OnlineHasEntry
  <1>1. WaitInv => OnlineHasEntry
    BY Zenon DEF WaitInv
  <1> QED
    BY <1>1, JobInvariant, PTL

\* A job that waits for its master waits for something that can happen.
THEOREM NoIdleWait == Spec => []WaitHasCause
  <1>1. WaitInv => WaitHasCause
    BY Zenon DEF WaitInv
  <1> QED
    BY <1>1, JobInvariant, PTL

-----------------------------------------------------------------------------
(* The moves of the entries.                                               *)

\* A manager that recovers has released InitAfterRecover only if it waits for
\* nobody any more.
ReleaseInv ==
  /\ wmState = "LoadingMeta" => ~readyClosed
  /\ wmState = "WaitingHeartbeat" /\ readyClosed =>
       \A e \in Entry : InEntries(e) => entryState[e] # "Wait"

OrderInv == ReleaseInv /\ EntriesMoveInOrder

OtherPanics == {"exists", "early", "handle", "query"}

\* What keeps the invariant in a step that is not about these panics.
LEMMA OrderKept ==
  ASSUME OrderInv, UNCHANGED <<wmState, readyClosed>>,
         wmState = "Ready" \/ UNCHANGED <<workerEntries, entryState>>,
         panicked' \subseteq panicked \cup OtherPanics
  PROVE  OrderInv'
  <1>1. ReleaseInv'
    BY Zenon DEF OrderInv, ReleaseInv, InEntries
  <1>2. EntriesMoveInOrder'
    <2>1. {"state", "closed"} \cap OtherPanics = {}
      BY Zenon DEF OtherPanics
    <2> QED
      BY <2>1, Zenon DEF OrderInv, EntriesMoveInOrder
  <1> QED
    BY <1>1, <1>2, Zenon DEF OrderInv

\* A heartbeat discovers a worker: it is the last one only once.
LEMMA PingOrder ==
  ASSUME EventsInv, OrderInv, NEW from \in Entry, NEW isFinished \in BOOLEAN,
         DeliverPing(from, isFinished)
  PROVE  OrderInv'
  <1> DEFINE w == IdOf[from]
             e == workerEntries[w]
  <1>1. HandleHeartbeat(w, workerEpoch[from], isFinished)
    BY Zenon DEF DeliverPing
  <1>2. CASE HeartbeatRenews(w, workerEpoch[from], isFinished)
    BY <1>2, OrderKept, Zenon DEF HeartbeatRenews, HeartbeatSeen
  <1>3. CASE HeartbeatOnline(w, workerEpoch[from], isFinished)
    <2>1. MayGoOnline(e) /\ PanicIf("state", ~MayGoOnline(e))
      BY <1>3, Zenon DEF HeartbeatOnline, MayGoOnline
    <2>2. panicked' = panicked
      BY <2>1, Zenon DEF PanicIf
    <2>3. wmState = "Ready" /\ UNCHANGED <<wmState, readyClosed>>
      BY <1>3, Zenon DEF HeartbeatOnline, HeartbeatSeen
    <2> QED
      BY <2>2, <2>3, OrderKept, Zenon
  <1>4. CASE HeartbeatDiscovers(w, workerEpoch[from], isFinished)
    <2> DEFINE allReady == \A v \in WorkerID \ {w} :
                 workerEntries[v] # NoEntry => entryState[workerEntries[v]] # "Wait"
    <2>1. /\ wmState = "WaitingHeartbeat" /\ UNCHANGED <<wmState, workerEntries>>
          /\ entryState[e] = "Wait" /\ e # NoEntry
          /\ entryState' = [entryState EXCEPT ![e] = "Normal"]
          /\ readyClosed' = (readyClosed \/ allReady)
          /\ PanicIf("closed", allReady /\ readyClosed)
      BY <1>4, Zenon DEF HeartbeatDiscovers, HeartbeatSeen
    <2>2. e \in Entry /\ IdOf[e] = w /\ InEntries(e) /\ w \in WorkerID
      <3>1. w \in WorkerID
        BY Zenon
      <3>2. e \in Entry
        BY <2>1, <3>1, Zenon DEF EventsInv, ManagerTypes
      <3>3. IdOf[e] = w
        BY <2>1, <3>1, Zenon DEF EventsInv, EntryInv
      <3> QED
        BY <3>1, <3>2, <3>3, Zenon DEF InEntries
    <2>3. ~readyClosed
      BY <2>1, <2>2, Zenon DEF OrderInv, ReleaseInv
    <2>4. EntriesMoveInOrder'
      BY <2>1, <2>3, Zenon DEF PanicIf, OrderInv, EntriesMoveInOrder
    <2>5. ReleaseInv'
      <3> SUFFICES ASSUME allReady, NEW f \in Entry, workerEntries[IdOf[f]] = f
                   PROVE  entryState'[f] # "Wait"
        BY <2>1, <2>3, Zenon DEF ReleaseInv, InEntries
      <3>1. CASE f = e
        <4>1. entryState'[e] = "Normal"
          BY <2>1, <2>2, Zenon DEF EventsInv, ManagerTypes
        <4> QED
          BY <3>1, <4>1, Zenon
      <3>2. CASE f # e
        <4>1. IdOf[f] \in WorkerID \ {w} /\ f # NoEntry
          BY <2>2, <3>2, Zenon
        <4>2. entryState[f] # "Wait"
          BY <4>1, Zenon
        <4>3. entryState'[f] = entryState[f]
          BY <2>1, <2>2, <3>2, Zenon DEF EventsInv, ManagerTypes
        <4> QED
          BY <4>2, <4>3, Zenon
      <3> QED
        BY <3>1, <3>2, Zenon
    <2> QED
      BY <2>4, <2>5, Zenon DEF OrderInv
  <1> QED
    BY <1>1, <1>2, <1>3, <1>4, Zenon DEF HandleHeartbeat

\* The checker visits only entries that may go offline.
LEMMA CheckerOrder ==
  ASSUME EventsInv, OrderInv, Checker
  PROVE  OrderInv'
  <1>1. CASE SweepBegin
    BY <1>1, OrderKept, Zenon DEF SweepBegin
  <1>2. ASSUME NEW e \in Entry, SweepVisit(e) PROVE OrderInv'
    <2>1. e \in sweep /\ MayGoOffline(e) /\ wmState = "Ready"
      BY <1>2, Zenon DEF SweepVisit, EventsInv, EntryInv, RecoveryInv, MayGoOffline
    <2>2. UNCHANGED <<wmState, readyClosed, panicked>>
      BY <1>2, <2>1, Zenon DEF SweepVisit, PanicIf
    <2> QED
      BY <2>1, <2>2, OrderKept, Zenon
  <1> QED
    BY <1>1, <1>2, Zenon DEF Checker

\* The event in hand says that its entry is offline, so its hook may make it a
\* tombstone.
LEMMA OfflineOrder ==
  ASSUME EventsInv, OrderInv, OnWorkerOffline
  PROVE  OrderInv'
  <1>1. TickOffline /\ mainPC = "poll"
    BY Zenon DEF OnWorkerOffline
  <1>2. /\ handling # <<>> /\ handling[1].tp = "offline"
        /\ PanicIf("state", ~MayGoTombstone(handling[1].entry))
        /\ UNCHANGED <<wmState, readyClosed>>
    BY <1>1, Zenon DEF TickOffline
  <1>3. EventOK(handling[1])
    BY <1>2, InHand, Zenon DEF EventsInv
  <1>4. MayGoTombstone(handling[1].entry)
    BY <1>2, <1>3, Zenon DEF EventOK, MayGoTombstone
  <1>5. panicked' = panicked
    BY <1>2, <1>4, Zenon DEF PanicIf
  <1>6. wmState = "Ready"
    BY <1>1, Zenon DEF EventsInv, RecoveryInv
  <1> QED
    BY <1>2, <1>5, <1>6, OrderKept, Zenon

\* InitAfterRecover buries those that still wait, or have finished.
LEMMA RecoveryOrder ==
  ASSUME EventsInv, OrderInv, Recovery
  PROVE  OrderInv'
  <1>1. CASE InitAfterRecoverLoad(workerMeta)
    <2>1. /\ wmState = "LoadingMeta" /\ wmState' \in {"Ready", "WaitingHeartbeat"}
          /\ UNCHANGED <<readyClosed, panicked>>
      BY <1>1, Zenon DEF InitAfterRecoverLoad
    <2> QED
      BY <2>1, Zenon DEF OrderInv, ReleaseInv, EntriesMoveInOrder
  <1>2. CASE InitAfterRecoverFinish
    <2>1. /\ wmState' = "Ready"
          /\ PanicIf("state", \E e \in {e \in Entry : InEntries(e)
                                   /\ (entryState[e] = "Wait" \/ e \in finished)} :
                                 ~MayGoTombstone(e))
      BY <1>2, Zenon DEF InitAfterRecoverFinish
    <2>2. panicked' = panicked
      BY <2>1, Zenon DEF PanicIf, MayGoTombstone
    <2> QED
      BY <2>1, <2>2, Zenon DEF OrderInv, ReleaseInv, EntriesMoveInOrder
  <1> QED
    BY <1>1, <1>2, Zenon DEF Recovery

\* The rest of the main goroutine has nothing to do with these panics.
LEMMA MainOrder ==
  ASSUME EventsInv, OrderInv, Main
  PROVE  OrderInv'
  <1>1. CASE OnWorkerOffline
    BY <1>1, OfflineOrder, Zenon
  <1>2. CASE OnMasterRecovered
    BY <1>2, OrderKept, Zenon DEF OnMasterRecovered, managerVars
  <1>3. ASSUME ~OnWorkerOffline, ~OnMasterRecovered
        PROVE  /\ mainPC # "init"
               /\ UNCHANGED <<wmState, readyClosed>>
               /\ panicked' \subseteq panicked \cup OtherPanics
    <2>1. CASE PollFails \/ PollTick \/ PollTickReturn \/ JobOffline \/ GetWorkers
                 \/ \E v \in toVisit : VisitRunning(v)
      BY <2>1, Zenon DEF PollFails, PollTick, TickBegin, TickReceive, PollTickReturn,
         TickReturn, JobOffline, GetWorkers, VisitRunning, managerVars
    <2>2. CASE IterPendingJobs \/ IterWaitAckJobs
      BY <2>2, Zenon DEF IterPendingJobs, IterWaitAckJobs, CreateWorkers
    <2>3. CASE OnWorkerStatusUpdated
      BY <2>3, Zenon DEF OnWorkerStatusUpdated, TickStatus, PanicIf, OtherPanics
    <2>4. CASE OnWorkerOnline \/ OnWorkerDispatched
      BY <2>4, Zenon DEF OnWorkerOnline, TickOnline, OnWorkerDispatched,
         TickDispatchFailed
    <2>5. CASE OfflineClean \/ \E v \in toVisit : VisitTombstone(v)
      BY <2>5, Zenon DEF OfflineClean, VisitTombstone, CleanTombstone,
         removeTombstoneEntry, PanicIf, OtherPanics
    <2> QED
      BY <1>3, <2>1, <2>2, <2>3, <2>4, <2>5, Zenon DEF Main
  <1>4. mainPC # "init" => wmState = "Ready"
    BY Zenon DEF EventsInv, RecoveryInv
  <1> QED
    BY <1>1, <1>2, <1>3, <1>4, OrderKept, Zenon

\* Every step keeps the invariant.
LEMMA OrderStep ==
  ASSUME EventsInv, OrderInv, [Next]_vars
  PROVE  OrderInv'
  <1>1. CASE UNCHANGED managerVars
    BY <1>1, OrderKept, Zenon DEF managerVars
  <1>2. ASSUME NEW j \in WorkerID, Rpc(j) PROVE OrderInv'
    <2>1. CASE QueryJobPanics(j)
      BY <2>1, OrderKept, Zenon DEF QueryJobPanics, PanicIf, OtherPanics
    <2>2. CASE SubmitCreate(j)
      BY <2>2, OrderKept, Zenon DEF SubmitCreate, CreateWorkers
    <2> QED
      BY <1>1, <1>2, <2>1, <2>2, Zenon DEF Rpc, SubmitStore, SubmitFails,
         SubmitDispatched, PauseJob, CancelJobCheck, CancelJobDelete
  <1>3. ASSUME NEW e \in Entry, Creation(e) PROVE OrderInv'
    <2>1. CASE StartTimer(e)
      <3>1. wmState = "Ready"
        BY <2>1, Zenon DEF StartTimer, Up, EventsInv, RecoveryInv
      <3> QED
        BY <2>1, <3>1, OrderKept, Zenon DEF StartTimer, BeforeStartingWorker, PanicIf,
           OtherPanics
    <2>2. CASE CreateAborted(e)
      BY <2>2, OrderKept, Zenon DEF CreateAborted, AbortCreatingWorker
    <2> QED
      BY <1>1, <1>3, <2>1, <2>2, Zenon DEF Creation, CreateFailedSilently, ConfirmReturned
  <1>4. ASSUME NEW e \in Entry, Environment(e) PROVE OrderInv'
    <2>1. CASE DeliverStatus(e)
      BY <2>1, OrderKept, Zenon DEF DeliverStatus, OnWorkerStatusUpdateMessage
    <2>2. CASE Expire(e)
      BY <2>2, OrderKept, Zenon DEF Expire, LeaseExpires
    <2>3. CASE \E f \in BOOLEAN : DeliverPing(e, f)
      BY <2>3, PingOrder, Zenon
    <2> QED
      BY <1>1, <1>4, <2>1, <2>2, <2>3, Zenon
      DEF Environment, Launch, JobMasterFirstStartUp, JobMasterInit, JobMasterRecovers,
          JobMasterStops, RefreshMasterInfo, JobMasterExit, LoseStatus,
          JobManagerUntouched
  <1>5. CASE NewLeader
    BY <1>5, Zenon DEF NewLeader, NewManager, OrderInv, ReleaseInv, EntriesMoveInOrder
  <1>6. CASE UNCHANGED vars
    BY <1>1, <1>6, Zenon DEF vars
  <1> QED
    BY <1>2, <1>3, <1>4, <1>5, <1>6, MainOrder, CheckerOrder, RecoveryOrder, Zenon DEF Next

\* No sequence of heartbeats, sweeps, failovers and incarnations makes an entry
\* of a job master move out of order or closes allWorkersReady twice.
THEOREM EntriesInOrder == Spec => []EntriesMoveInOrder
  <1>1. Init => OrderInv
    BY ZenonT(40) DEF Init, OrderInv, ReleaseInv, EntriesMoveInOrder
  <1>2. EventsInv /\ OrderInv /\ [Next]_vars => OrderInv'
    BY OrderStep, ZenonT(40)
  <1>3. OrderInv => EntriesMoveInOrder
    BY Zenon DEF OrderInv
  <1> QED
    BY <1>1, <1>2, <1>3, JobInvariant, PTL DEF Spec

-----------------------------------------------------------------------------
(* Type correctness: what the invariants above do not say already.         *)

ManagerRest ==
  /\ wmState \in {"LoadingMeta", "WaitingHeartbeat", "Ready"} /\ epoch # 0
  /\ ticking \in BOOLEAN /\ readyClosed \in BOOLEAN
  /\ errs \subseteq {"handler", "checker"} /\ panicked \subseteq Panics
  /\ told \in [WorkerID -> Knowledge]

MainRest ==
  /\ tombstoneCleaned \in BOOLEAN
  /\ mainPC \in {"init", "poll", "clean", "offline", "pending", "get", "scan", "down"}
  /\ toVisit \subseteq [worker : WorkerID, tombstone : BOOLEAN]
  /\ pauseSent \subseteq WorkerID /\ cancelling \subseteq WorkerID

\* The queue is bounded, and an event that says a worker is offline says why.
QueueRest ==
  /\ Len(eventQueue) <= QueueCap
  /\ \A ev \in Pending : ev.tp = "offline" => ev.arg \in Reasons
  /\ offlineArg \in Seq([worker : WorkerID, reason : Reasons])

\* What enqueueEvent may do to the errors, and PanicIf to the panics.
LEMMA ErrorsKept ==
  ASSUME errs \subseteq {"handler", "checker"}, NEW ev,
         NEW who \in {"handler", "checker"}, EnqueueEvent(ev, who)
  PROVE  errs' \subseteq {"handler", "checker"}
  BY Zenon DEF EnqueueEvent

\* PanicIf records a panic of one of the known kinds, or none.
LEMMA PanicsKept ==
  ASSUME panicked \subseteq Panics, NEW kind \in Panics, NEW cond, PanicIf(kind, cond)
  PROVE  panicked' \subseteq Panics
  BY Zenon DEF PanicIf

\* The kinds of panics, listed for the steps that name one.
LEMMA PanicKinds ==
  {"state", "closed", "exists", "early", "stale", "handle", "query"} = Panics
  BY Zenon DEF Panics

\* One worker is told something.
LEMMA ToldKept ==
  ASSUME told \in [WorkerID -> Knowledge], NEW w \in WorkerID, NEW k \in Knowledge,
         told' = [told EXCEPT ![w] = k]
  PROVE  told' \in [WorkerID -> Knowledge]
  OBVIOUS

\* Tick creating the dummy handles of a failover keeps the manager's types.
LEMMA CreatedTold ==
  ASSUME ManagerRest, NEW S, CreateWorkers(S)
  PROVE  ManagerRest'
  <1>1. told' \in [WorkerID -> Knowledge]
    <2>1. /\ told' = [w \in WorkerID |-> IF w \in S THEN "creating" ELSE told[w]]
          /\ told \in [WorkerID -> Knowledge]
      BY Zenon DEF CreateWorkers, ManagerRest
    <2> QED
      BY <2>1, Zenon DEF Knowledge
  <1>2. UNCHANGED <<wmState, epoch, ticking, readyClosed, errs, panicked>>
    BY Zenon DEF CreateWorkers
  <1> QED
    BY <1>1, <1>2, Zenon DEF ManagerRest

\* The event in hand is about a worker.
LEMMA HandWorker ==
  ASSUME EventsInv, handling # <<>>
  PROVE  /\ handling[1].worker \in WorkerID /\ EventOK(handling[1])
         /\ handling[1].arg \in {"none"} \cup StatusCodes \cup Reasons
  <1>1. handling[1] \in Event /\ EventOK(handling[1])
    BY InHand, Zenon DEF EventsInv
  <1> QED
    BY <1>1, Zenon DEF Event

\* Every step keeps the types of the manager's remaining variables.
LEMMA ManagerRestStep ==
  ASSUME EventsInv, ManagerRest, [Next]_vars
  PROVE  ManagerRest'
  <1> USE DEF ManagerRest
  <1>k. Knowledge = {"unknown", "creating", "online", "failed", "gone"}
    BY Zenon DEF Knowledge
  <1>1. CASE UNCHANGED managerVars
    BY <1>1, Zenon DEF managerVars
  <1>2. ASSUME NEW j \in WorkerID, Rpc(j) PROVE ManagerRest'
    <2>1. CASE QueryJobPanics(j)
      BY <2>1, PanicsKept, PanicKinds, Zenon DEF QueryJobPanics
    <2>2. CASE SubmitCreate(j)
      BY <2>2, CreatedTold, Zenon DEF SubmitCreate
    <2> QED
      BY <1>1, <1>2, <2>1, <2>2, Zenon DEF Rpc, SubmitStore, SubmitFails,
         SubmitDispatched, PauseJob, CancelJobCheck, CancelJobDelete
  <1>3. ASSUME NEW e \in Entry, Creation(e) PROVE ManagerRest'
    <2>1. CASE StartTimer(e)
      BY <2>1, PanicsKept, PanicKinds, Zenon DEF StartTimer, BeforeStartingWorker
    <2>2. CASE CreateAborted(e)
      BY <2>2, ErrorsKept, Zenon DEF CreateAborted, AbortCreatingWorker
    <2> QED
      BY <1>1, <1>3, <2>1, <2>2, Zenon DEF Creation, CreateFailedSilently, ConfirmReturned
  <1>4. ASSUME NEW e \in Entry, Environment(e) PROVE ManagerRest'
    <2>1. CASE DeliverStatus(e)
      BY <2>1, ErrorsKept, Zenon DEF DeliverStatus, OnWorkerStatusUpdateMessage
    <2>2. CASE Expire(e)
      BY <2>2, Zenon DEF Expire, LeaseExpires
    <2>3. ASSUME NEW f \in BOOLEAN, DeliverPing(e, f) PROVE ManagerRest'
      <3> DEFINE w == IdOf[e]
                 m == workerEpoch[e]
      <3>1. UNCHANGED <<wmState, epoch, ticking, told>> /\ HandleHeartbeat(w, m, f)
        BY <2>3, Zenon DEF DeliverPing, HandleHeartbeat, HeartbeatDiscovers,
           HeartbeatOnline, HeartbeatRenews, HeartbeatSeen
      <3>2. CASE HeartbeatDiscovers(w, m, f)
        BY <3>1, <3>2, PanicsKept, PanicKinds, Zenon DEF HeartbeatDiscovers
      <3>3. CASE HeartbeatOnline(w, m, f)
        BY <3>1, <3>3, PanicsKept, PanicKinds, ErrorsKept, Zenon DEF HeartbeatOnline
      <3>4. CASE HeartbeatRenews(w, m, f)
        BY <3>1, <3>4, Zenon DEF HeartbeatRenews
      <3> QED
        BY <3>1, <3>2, <3>3, <3>4, Zenon DEF HandleHeartbeat
    <2> QED
      BY <1>1, <1>4, <2>1, <2>2, <2>3, Zenon
      DEF Environment, Launch, JobMasterFirstStartUp, JobMasterInit, JobMasterRecovers,
          JobMasterStops, RefreshMasterInfo, JobMasterExit, LoseStatus,
          JobManagerUntouched
  <1>5. CASE Main
    <2>1. CASE PollTick \/ PollTickReturn
      BY <2>1, Zenon DEF PollTick, TickBegin, TickReceive, PollTickReturn, TickReturn
    <2>2. CASE IterPendingJobs \/ IterWaitAckJobs
      BY <2>2, CreatedTold, Zenon DEF IterPendingJobs, IterWaitAckJobs
    <2>3. CASE OnWorkerStatusUpdated
      BY <2>3, PanicsKept, PanicKinds, Zenon DEF OnWorkerStatusUpdated, TickStatus
    <2>4. CASE OnWorkerOnline
      BY <2>4, <1>k, HandWorker, ToldKept, Zenon DEF OnWorkerOnline, TickOnline
    <2>5. CASE OnWorkerDispatched
      BY <2>5, <1>k, HandWorker, ToldKept, Zenon DEF OnWorkerDispatched, TickDispatchFailed
    <2>6. CASE OnWorkerOffline
      BY <2>6, <1>k, HandWorker, ToldKept, PanicsKept, PanicKinds, Zenon
      DEF OnWorkerOffline, TickOffline
    <2>7. CASE OfflineClean \/ \E v \in toVisit : VisitTombstone(v)
      BY <2>7, PanicsKept, PanicKinds, Zenon
      DEF OfflineClean, VisitTombstone, CleanTombstone, removeTombstoneEntry
    <2> QED
      BY <1>1, <1>5, <2>1, <2>2, <2>3, <2>4, <2>5, <2>6, <2>7, Zenon
      DEF Main, OnMasterRecovered, PollFails, JobOffline, GetWorkers, VisitRunning
  <1>6. CASE Checker
    <2>1. CASE SweepBegin
      BY <2>1, Zenon DEF SweepBegin
    <2>2. ASSUME NEW e \in Entry, SweepVisit(e) PROVE ManagerRest'
      BY <2>2, PanicsKept, PanicKinds, ErrorsKept, Zenon DEF SweepVisit
    <2> QED
      BY <1>6, <2>1, <2>2, Zenon DEF Checker
  <1>7. CASE Recovery
    <2>1. CASE InitAfterRecoverLoad(workerMeta)
      BY <2>1, Zenon DEF InitAfterRecoverLoad
    <2>2. CASE InitAfterRecoverFinish
      <3>1. told' \in [WorkerID -> Knowledge]
        <4>1. PICK dead : told' = [w \in WorkerID |->
                 IF workerEntries[w] = NoEntry THEN told[w]
                 ELSE IF workerEntries[w] \in dead THEN "gone" ELSE "online"]
          BY <2>2, Zenon DEF InitAfterRecoverFinish
        <4> QED
          BY <4>1, <1>k, Zenon
      <3> QED
        BY <2>2, <3>1, PanicsKept, PanicKinds, Zenon DEF InitAfterRecoverFinish
    <2> QED
      BY <1>7, <2>1, <2>2, Zenon DEF Recovery
  <1>8. CASE NewLeader
    <2>1. epoch' # 0
      BY <1>8 DEF NewLeader, EventsInv, MessageTypes
    <2>2. told' \in [WorkerID -> Knowledge]
      BY <1>8, <1>k, Zenon DEF NewLeader, NewManager
    <2> QED
      BY <1>8, <2>1, <2>2, Zenon DEF NewLeader, NewManager
  <1>9. CASE UNCHANGED vars
    BY <1>1, <1>9, Zenon DEF vars
  <1> QED
    BY <1>2, <1>3, <1>4, <1>5, <1>6, <1>7, <1>8, <1>9, Zenon DEF Next

\* Every step keeps the types of the main loop's and the RPCs' variables.
LEMMA MainRestStep ==
  ASSUME EventsInv, MainRest, [Next]_vars
  PROVE  MainRest'
  <1> USE DEF MainRest
  <1>1. CASE UNCHANGED <<mainVars, rpcVars>>
    BY <1>1, Zenon DEF mainVars, rpcVars
  <1>2. ASSUME NEW j \in WorkerID, Rpc(j) PROVE MainRest'
    BY <1>2, ZenonT(40)
    DEF Rpc, SubmitStore, SubmitCreate, SubmitFails, SubmitDispatched, QueryJobPanics,
        PauseJob, CancelJobCheck, CancelJobDelete, mainVars, rpcVars
  <1>3. ASSUME NEW e \in Entry, Creation(e) PROVE MainRest'
    BY <1>1, <1>3, Zenon
    DEF Creation, CreateAborted, CreateFailedSilently, StartTimer, ConfirmReturned
  <1>4. ASSUME NEW e \in Entry, Environment(e) PROVE MainRest'
    <2>1. ASSUME NEW s, JobMasterExit(e, s) PROVE MainRest'
      <3>1. /\ pauseSent' = IF s = "Stopped" THEN pauseSent \ {IdOf[e]} ELSE pauseSent
            /\ UNCHANGED <<cancelling, mainVars>>
        BY <2>1, Zenon DEF JobMasterExit
      <3> QED
        BY <3>1, Zenon DEF mainVars
    <2> QED
      BY <1>1, <1>4, <2>1, Zenon
      DEF Environment, Launch, JobMasterFirstStartUp, JobMasterInit, JobMasterRecovers,
          JobMasterStops, RefreshMasterInfo, DeliverPing, DeliverStatus, LoseStatus,
          Expire, JobManagerUntouched
  <1>5. CASE Main
    <2>1. CASE GetWorkers
      <3>1. /\ toVisit' =
                 {[worker |-> w, tombstone |-> entryState[workerEntries[w]] = "Tombstone"] :
                    w \in {v \in WorkerID : workerEntries[v] # NoEntry}}
            /\ mainPC' = "scan" /\ UNCHANGED <<tombstoneCleaned, rpcVars>>
        BY <2>1, Zenon DEF GetWorkers
      <3>2. \A w \in WorkerID, b \in BOOLEAN :
              [worker |-> w, tombstone |-> b] \in [worker : WorkerID, tombstone : BOOLEAN]
        BY Zenon
      <3>3. \A w \in WorkerID : (entryState[workerEntries[w]] = "Tombstone") \in BOOLEAN
        BY Zenon
      <3>4. toVisit' \subseteq [worker : WorkerID, tombstone : BOOLEAN]
        BY <3>1, <3>2, <3>3, ZenonT(40)
      <3> QED
        BY <3>1, <3>4, Zenon DEF rpcVars
    <2>2. CASE IterWaitAckJobs
      <3>1. /\ tombstoneCleaned' \in BOOLEAN /\ mainPC' = "poll"
            /\ UNCHANGED <<toVisit, rpcVars>>
        BY <2>2, Zenon DEF IterWaitAckJobs
      <3> QED
        BY <3>1, Zenon DEF rpcVars
    <2>3. CASE IterPendingJobs
      BY <2>3, Zenon DEF IterPendingJobs, rpcVars
    <2>4. CASE \E v \in toVisit : VisitTombstone(v) \/ VisitRunning(v)
      BY <2>4, Zenon DEF VisitTombstone, VisitRunning, rpcVars
    <2>5. CASE OnMasterRecovered \/ PollFails \/ PollTick \/ PollTickReturn
      BY <2>5, Zenon DEF OnMasterRecovered, PollFails, PollTick, PollTickReturn, rpcVars,
         mainVars
    <2>6. CASE OnWorkerStatusUpdated \/ OnWorkerOnline \/ OnWorkerDispatched
      BY <2>6, Zenon DEF OnWorkerStatusUpdated, OnWorkerOnline, OnWorkerDispatched, rpcVars
    <2>7. CASE OnWorkerOffline \/ OfflineClean \/ JobOffline
      BY <2>7, Zenon DEF OnWorkerOffline, OfflineClean, JobOffline, rpcVars
    <2> QED
      BY <1>5, <2>1, <2>2, <2>3, <2>4, <2>5, <2>6, <2>7, Zenon DEF Main
  <1>6. CASE Checker \/ Recovery \/ UNCHANGED vars
    BY <1>1, <1>6, Zenon DEF Checker, Recovery, vars
  <1>7. CASE NewLeader
    BY <1>7, Zenon DEF NewLeader
  <1> QED
    BY <1>2, <1>3, <1>4, <1>5, <1>6, <1>7, Zenon DEF Next

\* A step that enqueues at most one event, takes one off or handles one.
LEMMA QueueRestKept ==
  ASSUME QueueRest, eventQueue' = eventQueue, handling' = handling,
         offlineArg' = offlineArg
  PROVE  QueueRest'
  BY Zenon DEF QueueRest, Pending

\* enqueueEvent returns an error when the queue is full, so the bound is kept.
LEMMA QueueEnqueues ==
  ASSUME EventsInv, QueueRest, NEW ev \in Event, NEW who, EnqueueEvent(ev, who),
         ev.tp = "offline" => ev.arg \in Reasons, handling' = handling,
         offlineArg' = offlineArg
  PROVE  QueueRest'
  <1>1. Len(eventQueue') <= QueueCap
    <2>1. /\ eventQueue \in Seq(Event) /\ Len(eventQueue) <= QueueCap
          /\ QueueCap \in Nat
      BY Zenon DEF QueueRest, EventsInv, ManagerTypes
    <2>2. CASE Len(eventQueue) < QueueCap
      <3>1. eventQueue' = Append(eventQueue, ev)
        BY <2>2, Zenon DEF EnqueueEvent
      <3>2. Len(eventQueue') = Len(eventQueue) + 1 /\ Len(eventQueue) \in Nat
        BY <2>1, <3>1
      <3> QED
        BY <2>1, <2>2, <3>2
    <2>3. CASE ~(Len(eventQueue) < QueueCap)
      BY <2>1, <2>3, Zenon DEF EnqueueEvent
    <2> QED
      BY <2>2, <2>3, Zenon
  <1>2. Pending' \subseteq Pending \cup {ev}
    BY PendingGrows, Zenon DEF EventsInv
  <1> QED
    BY <1>1, <1>2, Zenon DEF QueueRest

\* Tick taking the first event off the queue shortens it.
LEMMA QueueReceives ==
  ASSUME EventsInv, QueueRest, TickReceive, UNCHANGED offlineArg
  PROVE  QueueRest'
  <1>1. Len(eventQueue') <= QueueCap
    <2>1. /\ eventQueue # <<>> /\ eventQueue' = Tail(eventQueue)
          /\ eventQueue \in Seq(Event)
      BY Zenon DEF TickReceive, EventsInv, ManagerTypes
    <2> QED
      BY <2>1 DEF QueueRest
  <1>2. Pending' = Pending
    BY PendingReceived, Zenon DEF EventsInv
  <1> QED
    BY <1>1, <1>2, Zenon DEF QueueRest

\* Tick handling the event in hand leaves the queue alone.
LEMMA QueueHandles ==
  ASSUME EventsInv, QueueRest, handling # <<>>, handling' = <<>>, UNCHANGED eventQueue,
         offlineArg' \in Seq([worker : WorkerID, reason : Reasons])
  PROVE  QueueRest'
  <1>1. Pending' \subseteq Pending
    BY PendingHandled, Zenon
  <1> QED
    BY <1>1, Zenon DEF QueueRest

\* Every step keeps the bound of the queue and the reasons of offline events.
LEMMA QueueRestStep ==
  ASSUME EventsInv, QueueRest, [Next]_vars
  PROVE  QueueRest'
  <1>1. CASE UNCHANGED managerVars /\ UNCHANGED mainVars
    BY <1>1, QueueRestKept, Zenon DEF managerVars, mainVars
  <1>a. offlineArg \in Seq([worker : WorkerID, reason : Reasons])
    BY Zenon DEF QueueRest
  <1>2. ASSUME NEW j \in WorkerID, Rpc(j) PROVE QueueRest'
    <2>1. CASE QueryJobPanics(j)
      BY <2>1, QueueRestKept, Zenon DEF QueryJobPanics
    <2>2. CASE SubmitCreate(j)
      BY <2>2, QueueRestKept, Zenon DEF SubmitCreate, CreateWorkers, mainVars
    <2> QED
      BY <1>1, <1>2, <2>1, <2>2, Zenon DEF Rpc, SubmitStore, SubmitFails,
         SubmitDispatched, PauseJob, CancelJobCheck, CancelJobDelete
  <1>3. ASSUME NEW e \in Entry, Creation(e) PROVE QueueRest'
    <2>1. CASE StartTimer(e)
      BY <2>1, QueueRestKept, Zenon DEF StartTimer, BeforeStartingWorker, mainVars
    <2>2. CASE CreateAborted(e)
      <3>1. FailedEvent(IdOf[e]) \in Event /\ FailedEvent(IdOf[e]).tp # "offline"
        BY Zenon DEF FailedEvent, Event
      <3> QED
        BY <2>2, <3>1, QueueEnqueues, Zenon DEF CreateAborted, AbortCreatingWorker, mainVars
    <2> QED
      BY <1>1, <1>3, <2>1, <2>2, Zenon DEF Creation, CreateFailedSilently, ConfirmReturned
  <1>4. ASSUME NEW e \in Entry, Environment(e) PROVE QueueRest'
    <2>1. CASE DeliverStatus(e)
      <3> DEFINE x == workerEntries[IdOf[e]]
                 c == statusMsg[e][1].code
      <3>1. x \in Entry /\ c \in StatusCodes
        <4>1. x # NoEntry /\ statusMsg[e] # <<>>
          BY <2>1, Zenon DEF DeliverStatus, OnWorkerStatusUpdateMessage
        <4>2. statusMsg[e] \in Seq(StatusMsg)
          BY Zenon DEF EventsInv, MessageTypes
        <4>3. c \in Final \cup {"Error"}
          <5>1. statusMsg[e][1] \in StatusMsg
            BY <4>1, <4>2
          <5> QED
            BY <5>1, Zenon DEF StatusMsg
        <4>4. x \in Entry
          BY <4>1, Zenon DEF EventsInv, ManagerTypes
        <4> QED
          BY <4>3, <4>4, Zenon DEF StatusCodes, Final
      <3>2. StatusEvent(x, c) \in Event /\ StatusEvent(x, c).tp # "offline"
        BY <3>1, Zenon DEF StatusEvent, Event
      <3> QED
        BY <2>1, <3>2, QueueEnqueues, Zenon
        DEF DeliverStatus, OnWorkerStatusUpdateMessage, mainVars
    <2>2. CASE Expire(e)
      BY <2>2, QueueRestKept, Zenon DEF Expire, LeaseExpires, mainVars
    <2>3. ASSUME NEW f \in BOOLEAN, DeliverPing(e, f) PROVE QueueRest'
      <3> DEFINE w == IdOf[e]
                 m == workerEpoch[e]
      <3>1. /\ UNCHANGED <<handling, offlineArg>> /\ HandleHeartbeat(w, m, f)
            /\ workerEntries[w] # NoEntry
        BY <2>3, Zenon DEF DeliverPing, HandleHeartbeat, HeartbeatDiscovers,
           HeartbeatOnline, HeartbeatRenews, HeartbeatSeen, mainVars
      <3>2. CASE HeartbeatOnline(w, m, f)
        <4>1. workerEntries[w] \in Entry
          BY <3>1, Zenon DEF EventsInv, ManagerTypes
        <4>2. /\ OnlineEvent(workerEntries[w]) \in Event
              /\ OnlineEvent(workerEntries[w]).tp # "offline"
          BY <4>1, Zenon DEF OnlineEvent, Event
        <4> QED
          BY <3>1, <3>2, <4>2, QueueEnqueues, Zenon DEF HeartbeatOnline
      <3>3. CASE HeartbeatDiscovers(w, m, f) \/ HeartbeatRenews(w, m, f)
        BY <3>1, <3>3, QueueRestKept, Zenon DEF HeartbeatDiscovers, HeartbeatRenews
      <3> QED
        BY <3>1, <3>2, <3>3, Zenon DEF HandleHeartbeat
    <2> QED
      BY <1>1, <1>4, <2>1, <2>2, <2>3, Zenon
      DEF Environment, Launch, JobMasterFirstStartUp, JobMasterInit, JobMasterRecovers,
          JobMasterStops, RefreshMasterInfo, JobMasterExit, LoseStatus,
          JobManagerUntouched
  <1>5. CASE Main
    <2>1. CASE PollTick
      BY <2>1, QueueReceives, QueueRestKept, Zenon DEF PollTick, TickBegin, mainVars
    <2>2. CASE PollTickReturn \/ PollFails \/ OnMasterRecovered \/ GetWorkers
      BY <2>2, QueueRestKept, Zenon DEF PollTickReturn, TickReturn, PollFails,
         OnMasterRecovered, GetWorkers, managerVars
    <2>3. CASE IterPendingJobs \/ IterWaitAckJobs
      BY <2>3, QueueRestKept, Zenon DEF IterPendingJobs, IterWaitAckJobs, CreateWorkers
    <2>4. CASE OnWorkerStatusUpdated \/ OnWorkerOnline \/ OnWorkerDispatched
      <3>1. handling # <<>> /\ handling' = <<>> /\ UNCHANGED <<eventQueue, offlineArg>>
        BY <2>4, Zenon DEF OnWorkerStatusUpdated, TickStatus, OnWorkerOnline, TickOnline,
           OnWorkerDispatched, TickDispatchFailed
      <3> QED
        BY <1>a, <3>1, QueueHandles, Zenon
    <2>5. CASE OnWorkerOffline
      <3>1. /\ handling # <<>> /\ handling' = <<>> /\ UNCHANGED eventQueue
            /\ handling[1].tp = "offline"
            /\ offlineArg' = <<[worker |-> handling[1].worker, reason |-> handling[1].arg]>>
        BY <2>5, Zenon DEF OnWorkerOffline, TickOffline
      <3>2. handling[1].worker \in WorkerID /\ handling[1].arg \in Reasons
        <4>1. handling[1] \in Pending
          BY <3>1, PendingHandled, Zenon
        <4> QED
          BY <3>1, <4>1, HandWorker, Zenon DEF QueueRest
      <3>3. offlineArg' \in Seq([worker : WorkerID, reason : Reasons])
        BY <3>1, <3>2
      <3> QED
        BY <3>1, <3>3, QueueHandles, Zenon
    <2>6. CASE OfflineClean \/ \E v \in toVisit : VisitTombstone(v) \/ VisitRunning(v)
      BY <2>6, QueueRestKept, Zenon DEF OfflineClean, VisitTombstone, VisitRunning,
         CleanTombstone, removeTombstoneEntry, managerVars
    <2>7. CASE JobOffline
      <3>1. UNCHANGED managerVars /\ offlineArg' = <<>>
        BY <2>7, Zenon DEF JobOffline
      <3>2. offlineArg' \in Seq([worker : WorkerID, reason : Reasons])
        BY <3>1
      <3> QED
        BY <3>1, <3>2, Zenon DEF QueueRest, Pending, managerVars
    <2> QED
      BY <1>5, <2>1, <2>2, <2>3, <2>4, <2>5, <2>6, <2>7, Zenon DEF Main
  <1>6. CASE Checker
    <2>1. CASE SweepBegin
      BY <1>6, <2>1, QueueRestKept, Zenon DEF Checker, SweepBegin, mainVars
    <2>2. ASSUME NEW e \in Entry, SweepVisit(e) PROVE QueueRest'
      <3>1. PICK r \in Reasons : r = OfflineReason(status[e])
        BY Zenon DEF OfflineReason, Reasons
      <3>2. OfflineEvent(e, r) \in Event /\ OfflineEvent(e, r).arg \in Reasons
        BY Zenon DEF OfflineEvent, Event
      <3>3. EnqueueEvent(OfflineEvent(e, r), "checker") /\ UNCHANGED <<handling, offlineArg>>
        BY <1>6, <2>2, <3>1, Zenon DEF Checker, SweepVisit, mainVars
      <3> QED
        BY <3>2, <3>3, QueueEnqueues, Zenon
    <2> QED
      BY <1>6, <2>1, <2>2, Zenon DEF Checker
  <1>7. CASE Recovery
    BY <1>7, QueueRestKept, Zenon DEF Recovery, InitAfterRecoverLoad, InitAfterRecoverFinish,
       mainVars
  <1>8. CASE NewLeader
    <2>1. eventQueue' = <<>> /\ handling' = <<>> /\ offlineArg' = <<>>
      BY <1>8, Zenon DEF NewLeader, NewManager
    <2> QED
      BY <2>1 DEF QueueRest, Pending
  <1>9. CASE UNCHANGED vars
    BY <1>1, <1>9, Zenon DEF vars
  <1> QED
    BY <1>2, <1>3, <1>4, <1>5, <1>6, <1>7, <1>8, <1>9, Zenon DEF Next

\* Every variable keeps its type; in particular eventQueue stays within its
\* capacity, and OnWorkerOffline always gets one of the three reasons.
THEOREM JobTypeCorrect == Spec => []JobTypeOK
  <1>1. Init => ManagerRest /\ MainRest /\ QueueRest
    <2> SUFFICES ASSUME Init PROVE ManagerRest /\ MainRest /\ QueueRest
      BY Zenon
    <2>1. ManagerRest
      <3>1. told \in [WorkerID -> Knowledge]
        BY Zenon DEF Init, Knowledge
      <3>2. epoch # 0
        BY DEF Init
      <3> QED
        BY <3>1, <3>2, Zenon DEF Init, ManagerRest
    <2>2. MainRest
      BY Zenon DEF Init, MainRest
    <2>3. QueueRest
      BY DEF Init, QueueRest, Pending
    <2> QED
      BY <2>1, <2>2, <2>3, Zenon
  <1>2. EventsInv /\ ManagerRest /\ MainRest /\ QueueRest /\ [Next]_vars
          => (ManagerRest /\ MainRest /\ QueueRest)'
    BY ManagerRestStep, MainRestStep, QueueRestStep, Zenon
  <1>3. TablesInv /\ EventsInv /\ ManagerRest /\ MainRest /\ QueueRest => JobTypeOK
    <2> SUFFICES ASSUME TablesInv, EventsInv, ManagerRest, MainRest, QueueRest
                 PROVE  JobTypeOK
      BY Zenon
    <2>1. epoch \in Nat \ {0}
      BY DEF EventsInv, MessageTypes, ManagerRest
    <2>2. ManagerTypeOK
      BY <2>1, Zenon DEF EventsInv, ManagerTypes, ManagerRest, QueueRest, ManagerTypeOK
    <2> QED
      BY <2>2, Zenon DEF TablesInv, TableTypes, EventsInv, MessageTypes, StatusMsg,
         MainRest, QueueRest, JobTypeOK
  <1> QED
    BY <1>1, <1>2, <1>3, JobInvariant, PTL DEF Spec
===============================================================================
