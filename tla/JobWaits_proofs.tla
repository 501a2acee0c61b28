--------------------------- MODULE JobWaits_proofs ---------------------------
(***************************************************************************)
(* The job manager, continued: no step forgets a job, and the invariant    *)
(* about what a job waits for, with the steps of the gRPC goroutines, the  *)
(* creations, the job masters and the checker, which keep it.              *)
(***************************************************************************)
EXTENDS JobTables_proofs

USE ManagerAssumption

-----------------------------------------------------------------------------
(* No job is forgotten.                                                    *)

\* Only OnMasterRecovered puts a leader to work.
LEMMA UpBefore ==
  ASSUME [Next]_vars, Up', ~OnMasterRecovered
  PROVE  Up
  <1>1. CASE UNCHANGED mainPC
    BY <1>1, Zenon DEF Up
  <1>2. CASE Main
    BY <1>2 DEF Main, PollFails, PollTick, PollTickReturn, OnWorkerStatusUpdated,
       OnWorkerOnline,
       OnWorkerDispatched, OnWorkerOffline, OfflineClean, JobOffline, IterPendingJobs,
       GetWorkers, IterWaitAckJobs, VisitTombstone, VisitRunning, Up
  <1>3. CASE \E j \in WorkerID : Rpc(j)
    BY <1>1, <1>3, Zenon DEF Rpc, SubmitStore, SubmitCreate, SubmitFails,
       SubmitDispatched,
       QueryJobPanics, PauseJob, CancelJobCheck, CancelJobDelete, mainVars
  <1>4. CASE \E e \in Entry : Creation(e)
    BY <1>1, <1>4, Zenon DEF Creation, CreateAborted, CreateFailedSilently, StartTimer,
       ConfirmReturned, mainVars
  <1>5. CASE \E e \in Entry : Environment(e)
    BY <1>1, <1>5, ZenonT(40)
    DEF Environment, Launch, JobMasterFirstStartUp, JobMasterInit,
       JobMasterRecovers, JobMasterStops, RefreshMasterInfo, JobMasterExit,
       DeliverPing,
       DeliverStatus, LoseStatus, Expire, JobManagerUntouched, mainVars
  <1>6. CASE Checker \/ Recovery \/ UNCHANGED vars
    BY <1>1, <1>6, Zenon DEF Checker, Recovery, vars, mainVars
  <1>7. ~NewLeader
    BY Zenon DEF NewLeader, Up
  <1> QED
    BY <1>2, <1>3, <1>4, <1>5, <1>6, <1>7, Zenon DEF Next

\* A job the table shows as alive was alive before.
LEMMA LiveBefore ==
  ASSUME TablesInv, [Next]_vars, NEW j \in WorkerID, submitPC'[j] = "done",
         jobMeta'[j] \notin {"none"} \cup Final, ~Rivals(j)'
  PROVE  /\ jobMeta[j] \notin {"none"} \cup Final /\ ~EndedFor(j)
         /\ submitPC[j] = "done" \/ SubmitDispatched(j)
  <1>1. ~EndedFor(j)
    BY EndedStable, Zenon DEF EndedKept, EndedFor
  <1>2. jobMeta[j] \notin Final
    BY <1>1, Zenon DEF TablesInv, SubmitInv, EndedFor
  <1>3. CASE UNCHANGED <<submitPC, jobMeta>>
    BY <1>1, <1>3, Zenon DEF TablesInv, SubmitInv, EndedFor
  <1>4. ASSUME NEW e \in Entry, MasterStep(e)
        PROVE  jobMeta[j] # "none" /\ submitPC[j] = "done"
    <2>1. PICK l, m : MasterMoves(e, l, m)
      BY <1>4, MasterStepMoves, Zenon
    <2>2. UNCHANGED submitPC
      BY <1>4, Zenon DEF MasterStep, Launch, JobMasterFirstStartUp, JobMasterInit,
         JobMasterRecovers, JobMasterStops, JobMasterExit, JobManagerUntouched, rpcVars
    <2>3. /\ jobMeta'[j] = IF j = IdOf[e] THEN m ELSE jobMeta[j]
          /\ jobMeta[IdOf[e]] = "none" => m = "none"
      BY <2>1, Zenon DEF MasterMoves, TablesInv, TableTypes
    <2> QED
      BY <2>2, <2>3, Zenon
  <1>5. ASSUME NEW k \in WorkerID, Rpc(k), ~UNCHANGED <<submitPC, jobMeta>>
        PROVE  jobMeta[j] # "none" /\ (submitPC[j] = "done" \/ SubmitDispatched(j))
    <2>1. CASE SubmitStore(k) \/ SubmitCreate(k) \/ SubmitFails(k)
      <3>1. PICK s, m : /\ submitPC' = [submitPC EXCEPT ![k] = s] /\ s # "done"
                        /\ jobMeta' = [jobMeta EXCEPT ![k] = m] \/ UNCHANGED jobMeta
        BY <2>1, Zenon DEF SubmitStore, SubmitCreate, SubmitFails
      <3>2. k # j
        BY <3>1, Zenon DEF TablesInv, TableTypes
      <3>3. submitPC'[j] = submitPC[j] /\ jobMeta'[j] = jobMeta[j]
        BY <3>1, <3>2, Zenon DEF TablesInv, TableTypes
      <3> QED
        BY <3>3, Zenon
    <2>2. CASE SubmitDispatched(k)
      <3>1. submitPC' = [submitPC EXCEPT ![k] = "done"] /\ UNCHANGED jobMeta
        BY <2>2, Zenon DEF SubmitDispatched
      <3> QED
        BY <2>2, <3>1, Zenon DEF TablesInv, TableTypes
    <2>3. CASE CancelJobDelete(k)
      <3>1. jobMeta' = [jobMeta EXCEPT ![k] = "none"] /\ UNCHANGED submitPC
        BY <2>3, Zenon DEF CancelJobDelete
      <3>2. jobMeta'[j] = jobMeta[j]
        BY <3>1, Zenon DEF TablesInv, TableTypes
      <3> QED
        BY <3>1, <3>2, Zenon
    <2> QED
      BY <1>5, <2>1, <2>2, <2>3, Zenon DEF Rpc, QueryJobPanics, PauseJob,
         CancelJobCheck, rpcVars
  <1>6. CASE UNCHANGED vars \/ OtherStep
    BY <1>3, <1>6, OtherTables, <1>2, <1>1, Zenon DEF vars, rpcVars, tableVars
  <1>7. CASE NewLeader
    <2>1. submitPC' = [k \in WorkerID |->
            IF submitPC[k] \in {"stored", "created"} THEN "failed" ELSE submitPC[k]]
          /\ UNCHANGED jobMeta
      BY <1>7, Zenon DEF NewLeader
    <2>2. submitPC[j] = "done"
      BY <2>1, Zenon
    <2> QED
      BY <1>1, <1>2, <2>1, <2>2, Zenon
  <1>8. ASSUME NEW e \in Entry, Creation(e)
        PROVE  UNCHANGED <<submitPC, jobMeta>>
    BY <1>8, Zenon DEF Creation, CreateAborted, CreateFailedSilently, StartTimer,
       ConfirmReturned, rpcVars
  <1>9. CASE Main
    <2>1. CASE \/ OnMasterRecovered \/ OnWorkerOnline \/ OnWorkerDispatched \/ JobOffline
               \/ IterPendingJobs \/ IterWaitAckJobs \/ \E v \in toVisit : VisitRunning(v)
      <3>1. UNCHANGED <<submitPC, jobMeta>>
        BY <2>1, Zenon DEF OnMasterRecovered, OnWorkerOnline, OnWorkerDispatched,
           JobOffline,
           IterPendingJobs, IterWaitAckJobs, VisitRunning, rpcVars
      <3> QED
        BY <1>1, <1>2, <3>1, Zenon
    <2> QED
      BY <1>6, <1>9, <2>1, Zenon DEF Main, OtherStep
  <1>10. CASE \E e \in Entry : Creation(e) \/ Environment(e)
    BY <1>1, <1>2, <1>3, <1>4, <1>6, <1>8, <1>10, Zenon DEF Environment, OtherStep,
       MasterStep
  <1>11. CASE \E k \in WorkerID : Rpc(k)
    BY <1>1, <1>2, <1>3, <1>5, <1>11, Zenon
  <1> QED
    BY <1>6, <1>7, <1>9, <1>10, <1>11, Zenon DEF Next, OtherStep

\* A job leaves the maps only when its master was reported finished or stopped.
LEMMA MapsKept ==
  ASSUME TablesInv, [Next]_vars, Up', NEW j \in pendingJobs \cup waitAckJobs \cup onlineJobs
  PROVE  \/ j \in pendingJobs' \cup waitAckJobs' \cup onlineJobs'
         \/ JobOffline /\ j = offlineArg[1].worker /\ offlineArg[1].reason # "ErrWorkerOffline"
  <1>1. CASE UNCHANGED fsmVars
    BY <1>1, Zenon DEF fsmVars
  <1>2. CASE UNCHANGED vars \/ OtherStep
    BY <1>1, <1>2, OtherTables, Zenon DEF vars, tableVars
  <1>3. CASE OnMasterRecovered
    BY <1>3, Zenon DEF OnMasterRecovered, TablesInv, StartInv
  <1>4. ASSUME NEW k, JobOnline(k)
        PROVE  j \in pendingJobs' \cup waitAckJobs' \cup onlineJobs'
    BY <1>4, Zenon DEF JobOnline
  <1>5. CASE OnWorkerDispatched
    BY <1>1, <1>5, Zenon DEF OnWorkerDispatched
  <1>6. CASE JobOffline
    BY <1>6, Zenon DEF JobOffline, TablesInv, OneMap
  <1>7. CASE IterPendingJobs \/ IterWaitAckJobs
    BY <1>7, Zenon DEF IterPendingJobs, IterWaitAckJobs
  <1>8. ASSUME NEW k \in WorkerID, SubmitDispatched(k)
        PROVE  j \in pendingJobs' \cup waitAckJobs' \cup onlineJobs'
    BY <1>8, Zenon DEF SubmitDispatched
  <1>9. CASE \E k \in WorkerID : Rpc(k)
    BY <1>1, <1>8, <1>9, Zenon DEF Rpc, SubmitStore, SubmitCreate, SubmitFails,
       QueryJobPanics,
       PauseJob, CancelJobCheck, CancelJobDelete
  <1>10. CASE Main
    BY <1>1, <1>2, <1>3, <1>4, <1>5, <1>6, <1>7, <1>10, Zenon
    DEF Main, OtherStep, OnWorkerOnline, VisitRunning
  <1>11. CASE \E e \in Entry : Creation(e)
    BY <1>1, <1>11, Zenon DEF Creation, CreateAborted, CreateFailedSilently, StartTimer,
       ConfirmReturned
  <1>12. CASE \E e \in Entry : Environment(e)
    BY <1>1, <1>2, <1>12, Zenon DEF Environment, OtherStep, Launch,
       JobMasterFirstStartUp,
       JobMasterInit, JobMasterRecovers, JobMasterStops, JobMasterExit, JobManagerUntouched
  <1>13. ~NewLeader
    BY Zenon DEF NewLeader, Up
  <1> QED
    BY <1>2, <1>9, <1>10, <1>11, <1>12, <1>13, Zenon DEF Next, OtherStep

\* No step forgets a job.
LEMMA TrackedStep ==
  ASSUME TablesInv, EventsInv, JobTracked, [Next]_vars
  PROVE  JobTracked'
  <1> SUFFICES ASSUME Up', NEW j \in WorkerID, submitPC'[j] = "done",
                      jobMeta'[j] \notin {"none"} \cup Final, ~Rivals(j)'
               PROVE  j \in pendingJobs' \cup waitAckJobs' \cup onlineJobs'
    BY Zenon DEF JobTracked
  <1>1. /\ jobMeta[j] \notin {"none"} \cup Final /\ ~EndedFor(j)
        /\ submitPC[j] = "done" \/ SubmitDispatched(j)
    BY LiveBefore, Zenon
  <1>2. ~Rivals(j)
    BY EndedStable, Zenon DEF EndedKept
  <1>3. CASE OnMasterRecovered
    BY <1>1, <1>3, Zenon DEF OnMasterRecovered
  <1>4. CASE SubmitDispatched(j)
    BY <1>4, Zenon DEF SubmitDispatched
  <1>5. CASE ~OnMasterRecovered /\ ~SubmitDispatched(j)
    <2>1. j \in pendingJobs \cup waitAckJobs \cup onlineJobs
      BY <1>1, <1>2, <1>5, UpBefore, Zenon DEF JobTracked
    <2>2. CASE JobOffline /\ j = offlineArg[1].worker /\ offlineArg[1].reason # "ErrWorkerOffline"
      BY <1>1, <2>2, Zenon DEF JobOffline, EventsInv, EndedInv
    <2> QED
      BY <2>1, <2>2, MapsKept, Zenon
  <1> QED
    BY <1>3, <1>4, <1>5, Zenon

-----------------------------------------------------------------------------
(* The handles of the online jobs, and what a job waits for.               *)

IsTombstone(w) == workerEntries[w] # NoEntry /\ entryState[workerEntries[w]] = "Tombstone"

\* OnWorkerOffline is moving the job.
Moving(w) == mainPC \in {"clean", "offline"} /\ offlineArg[1].worker = w

OnlinePending(j) == \E ev \in Pending : ev.tp = "online" /\ ev.worker = j

\* A worker that a new leader read from the worker table and that nobody has
\* created since: what is left of it is a tombstone.
Recovered(w) ==
  /\ w \notin pendingJobs /\ w \notin onlineJobs
  /\ w \in waitAckJobs => w \in addFromFailover
  /\ submitPC[w] \notin Submitting
  /\ \A f \in Entry : IdOf[f] = w => /\ cpc[f] \notin Creating
                                     /\ f # workerEntries[w] => entryState[f] = "Unused"
  /\ \A ev \in Pending : ev.worker = w => ev.tp # "failed"
  /\ ~Moving(w)

\* The tombstones are those that OnWorkerOffline is about to remove, and those
\* that the first Tick removes.
TombstoneInv ==
  mainPC # "down" =>
    \A w \in WorkerID : IsTombstone(w) => Recovered(w) \/ (mainPC = "clean" /\ Moving(w))

\* What GetWorkers returned is still true when Tick gets to it.
VisitInv ==
  mainPC = "scan" =>
    /\ \A w \in WorkerID : IsTombstone(w) => \E v \in toVisit : v.worker = w
    /\ \A v \in toVisit : /\ v.worker \in WorkerID
                          /\ workerEntries[v.worker] # NoEntry
                          /\ v.tombstone <=> IsTombstone(v.worker)
    /\ \A u, v \in toVisit : u.worker = v.worker => u = v

\* A worker that is about to be reported online is in the map of the manager,
\* unless its job does not wait for it.
OnlineInv ==
  Up => \A j \in WorkerID :
    OnlinePending(j) /\ workerEntries[j] = NoEntry /\ submitPC[j] # "created" =>
      \/ mainPC \in {"poll", "clean", "offline"} /\ j \notin waitAckJobs
      \/ mainPC = "offline" /\ Moving(j)

\* The only master e of a job j whose SubmitJob has called CreateWorker: not yet
\* known to the manager, known and silent so far, about to be reported online,
\* or online although the queue had no room for the report.
Unknown(j, e) ==
  /\ ~Moving(j) /\ entryState[e] = "Unused"
  /\ cpc[e] \in {"dispatching", "silent"} \/ FailedEvent(j) \in Pending \/ errs # {}

Silent(j, e) ==
  /\ ~Moving(j) /\ workerEntries[j] = e /\ entryState[e] = "Created"
  /\ e \notin expired /\ e \notin finished

Reported(j, e) == ~Moving(j) /\ workerEntries[j] = e /\ OnlineEvent(e) \in Pending

Unreported(j, e) ==
  errs # {} /\ ~OnlinePending(j) /\ entryState[e] \notin {"Unused", "Created"}

Dispatched(j, e) == Unknown(j, e) \/ Silent(j, e) \/ Reported(j, e) \/ Unreported(j, e)

OnlyMaster(j, e) == IdOf[e] = j /\ \A f \in Entry \ {e} : IdOf[f] = j => cpc[f] = "idle"

SubmittedInv ==
  Up => \A j \in WorkerID :
    submitPC[j] = "created" => \E e \in Entry : OnlyMaster(j, e) /\ Dispatched(j, e)

ArgInv ==
  /\ offlineArg # <<>> => mainPC \in {"clean", "offline", "down"}
  /\ mainPC \in {"clean", "offline"} => submitPC[offlineArg[1].worker] \notin {"new", "stored"}

\* What WaitHasCause says of one job.
HasCause(j) ==
  \/ \E e \in Entry : IdOf[e] = j /\ cpc[e] \in {"dispatching", "silent"}
  \/ workerEntries[j] # NoEntry
  \/ FailedEvent(j) \in Pending
  \/ offlineArg # <<>> /\ offlineArg[1].worker = j
  \/ errs # {}

WaitInv ==
  /\ ArgInv /\ TombstoneInv /\ VisitInv /\ OnlineInv /\ SubmittedInv
  /\ OnlineHasEntry /\ WaitHasCause

-----------------------------------------------------------------------------
(* The pending events as a set.                                            *)

\* The events of the sequence Waiting are those of the set Pending.
LEMMA PendingIsWaiting ==
  ASSUME ManagerTypes
  PROVE  \A ev : ev \in Pending <=> \E i \in 1 .. Len(Waiting) : ev = Waiting[i]
  <1>1. /\ handling \in Seq(Event) /\ eventQueue \in Seq(Event)
        /\ Len(handling) \in Nat /\ Len(eventQueue) \in Nat
        /\ Len(Waiting) = Len(handling) + Len(eventQueue)
        /\ \A i \in 1 .. Len(handling) : Waiting[i] = handling[i]
        /\ \A i \in 1 .. Len(eventQueue) : Waiting[Len(handling) + i] = eventQueue[i]
    BY DEF ManagerTypes, Waiting
  <1>2. \A ev : ev \in Pending <=> \/ \E i \in 1 .. Len(handling) : ev = handling[i]
                                   \/ \E i \in 1 .. Len(eventQueue) : ev = eventQueue[i]
    <2>1. DOMAIN handling = 1 .. Len(handling) /\ DOMAIN eventQueue = 1 .. Len(eventQueue)
      BY <1>1
    <2> QED
      BY <2>1, Zenon DEF Pending
  <1>3. ASSUME NEW i \in 1 .. Len(eventQueue)
        PROVE  Len(handling) + i \in 1 .. Len(Waiting)
    BY <1>1
  <1>4. ASSUME NEW i \in 1 .. Len(Waiting), i \notin 1 .. Len(handling)
        PROVE  /\ i - Len(handling) \in 1 .. Len(eventQueue)
               /\ Waiting[i] = eventQueue[i - Len(handling)]
    <2>1. /\ i - Len(handling) \in 1 .. Len(eventQueue)
          /\ Len(handling) + (i - Len(handling)) = i
      BY <1>1, <1>4
    <2> QED
      BY <1>1, <2>1, Zenon
  <1>5. ASSUME NEW i \in 1 .. Len(handling) PROVE i \in 1 .. Len(Waiting)
    BY <1>1
  <1>6. ASSUME NEW i \in 1 .. Len(Waiting) PROVE Waiting[i] \in Pending
    BY <1>1, <1>2, <1>4, Zenon
  <1>7. ASSUME NEW i \in 1 .. Len(handling)
        PROVE  \E k \in 1 .. Len(Waiting) : handling[i] = Waiting[k]
    BY <1>1, <1>5, Zenon
  <1>8. ASSUME NEW i \in 1 .. Len(eventQueue)
        PROVE  \E k \in 1 .. Len(Waiting) : eventQueue[i] = Waiting[k]
    BY <1>1, <1>3, Zenon
  <1>9. ASSUME NEW ev \in Pending PROVE \E k \in 1 .. Len(Waiting) : ev = Waiting[k]
    <2>1. CASE \E i \in 1 .. Len(handling) : ev = handling[i]
      BY <1>7, <2>1, Zenon
    <2>2. CASE \E i \in 1 .. Len(eventQueue) : ev = eventQueue[i]
      BY <1>8, <2>2, Zenon
    <2> QED
      BY <1>2, <2>1, <2>2, Zenon
  <1> QED
    BY <1>6, <1>9, Zenon

\* Every pending event is as QueueInv says.
LEMMA PendingOK ==
  ASSUME EventsInv
  PROVE  \A ev \in Pending : ev \in Event /\ EventOK(ev)
  <1>1. \A i \in 1 .. Len(Waiting) : Waiting[i] \in Event
    BY WaitingType DEF EventsInv
  <1>2. \A i \in 1 .. Len(Waiting) : EventOK(Waiting[i])
    BY Zenon DEF EventsInv, QueueInv
  <1>3. \A ev : ev \in Pending <=> \E i \in 1 .. Len(Waiting) : ev = Waiting[i]
    BY PendingIsWaiting, Zenon DEF EventsInv
  <1> QED
    BY <1>1, <1>2, <1>3, ZenonT(40)

\* enqueueEvent adds an event, or reports an error.
LEMMA PendingGrows ==
  ASSUME ManagerTypes, NEW ev \in Event, NEW who, EnqueueEvent(ev, who), handling' = handling
  PROVE  \/ Pending' = Pending \cup {ev} /\ UNCHANGED errs
         \/ Pending' = Pending /\ errs' # {}
  <1>1. CASE eventQueue' = Append(eventQueue, ev) /\ UNCHANGED errs
    <2>1. /\ eventQueue \in Seq(Event) /\ Len(eventQueue) \in Nat
          /\ Len(eventQueue') = Len(eventQueue) + 1
          /\ eventQueue'[Len(eventQueue) + 1] = ev
          /\ \A i \in 1 .. Len(eventQueue) : eventQueue'[i] = eventQueue[i]
          /\ DOMAIN eventQueue = 1 .. Len(eventQueue)
          /\ DOMAIN eventQueue' = 1 .. Len(eventQueue) + 1
      BY <1>1 DEF ManagerTypes
    <2>2. \A x : x \in {eventQueue'[i] : i \in DOMAIN eventQueue'}
                   <=> x \in {eventQueue[i] : i \in DOMAIN eventQueue} \cup {ev}
      BY <2>1
    <2> QED
      BY <1>1, <2>2, Zenon DEF Pending
  <1>2. CASE errs' = errs \cup {who} /\ UNCHANGED eventQueue
    BY <1>2, Zenon DEF Pending
  <1> QED
    BY <1>1, <1>2, Zenon DEF EnqueueEvent

\* Tick takes an event off the queue.
LEMMA PendingReceived ==
  ASSUME ManagerTypes, TickReceive
  PROVE  Pending' = Pending
  <1>1. /\ handling = <<>> /\ eventQueue # <<>> /\ handling' = <<Head(eventQueue)>>
        /\ eventQueue' = Tail(eventQueue)
    BY Zenon DEF TickReceive
  <1>2. /\ Len(eventQueue) \in Nat \ {0} /\ Head(eventQueue) = eventQueue[1]
        /\ DOMAIN eventQueue = 1 .. Len(eventQueue)
        /\ DOMAIN eventQueue' = 1 .. Len(eventQueue) - 1
        /\ \A i \in 1 .. Len(eventQueue) - 1 : eventQueue'[i] = eventQueue[i + 1]
    BY <1>1 DEF ManagerTypes
  <1>3. \A x : x \in Pending <=> \E i \in 1 .. Len(eventQueue) : x = eventQueue[i]
    BY <1>1, <1>2 DEF Pending
  <1>4. \A x : x \in Pending' <=> \/ x = eventQueue[1]
                                  \/ \E i \in 1 .. Len(eventQueue) - 1 : x = eventQueue[i + 1]
    <2>1. DOMAIN handling' = {1} /\ handling'[1] = eventQueue[1]
      BY <1>1, <1>2
    <2>2. \A x : x \in {handling'[i] : i \in DOMAIN handling'} <=> x = eventQueue[1]
      BY <2>1, Zenon
    <2>3. \A x : x \in {eventQueue'[i] : i \in DOMAIN eventQueue'}
                   <=> \E i \in 1 .. Len(eventQueue) - 1 : x = eventQueue[i + 1]
      BY <1>2, ZenonT(40)
    <2> QED
      BY <2>2, <2>3, Zenon DEF Pending
  <1>5. \A i \in 1 .. Len(eventQueue) - 1 : i + 1 \in 1 .. Len(eventQueue)
    BY <1>2
  <1>6. \A i \in 1 .. Len(eventQueue) : i = 1 \/ (i - 1 \in 1 .. Len(eventQueue) - 1 /\ i = (i - 1) + 1)
    BY <1>2
  <1>7. 1 \in 1 .. Len(eventQueue)
    BY <1>2
  <1>8. \A x : x \in Pending <=> x \in Pending'
    BY <1>3, <1>4, <1>5, <1>6, <1>7, Zenon
  <1> QED
    BY <1>8, Zenon

\* The event in hand is dealt with.
LEMMA PendingHandled ==
  ASSUME EventsInv, handling # <<>>, handling' = <<>>, UNCHANGED eventQueue
  PROVE  /\ Pending = Pending' \cup {handling[1]}
         /\ \A ev \in Pending' : MayPrecede(handling[1], ev)
  <1>0. handling \in Seq(Event) /\ eventQueue \in Seq(Event) /\ Len(handling) <= 1
    BY Zenon DEF EventsInv, ManagerTypes
  <1>1. /\ DOMAIN handling = {1} /\ DOMAIN handling' = {}
        /\ DOMAIN eventQueue = 1 .. Len(eventQueue) /\ Len(eventQueue) \in Nat
    <2>0. Len(handling) \in Nat /\ Len(handling) # 0
      BY <1>0
    <2>1. \A n \in Nat : n # 0 /\ n <= 1 => n = 1
      OBVIOUS
    <2>2. Len(handling) = 1
      BY <1>0, <2>0, <2>1, Zenon
    <2>3. DOMAIN handling = 1 .. 1
      BY <1>0, <2>2
    <2>4. 1 .. 1 = {1}
      OBVIOUS
    <2> QED
      BY <1>0, <2>3, <2>4
  <1>2. /\ Len(Waiting) = Len(eventQueue) + 1 /\ Waiting[1] = handling[1]
        /\ \A i \in 1 .. Len(eventQueue) : Waiting[i + 1] = eventQueue[i]
    BY <1>0, <1>1 DEF Waiting
  <1>3. Pending = Pending' \cup {handling[1]}
    BY <1>1, Zenon DEF Pending
  <1>4. \A ev \in Pending' : \E i \in 1 .. Len(eventQueue) : ev = eventQueue[i]
    BY <1>1, Zenon DEF Pending
  <1>5. ASSUME NEW i \in 1 .. Len(eventQueue)
        PROVE  MayPrecede(handling[1], eventQueue[i])
    <2>1. 1 \in 1 .. Len(Waiting) /\ i + 1 \in 1 .. Len(Waiting) /\ 1 < i + 1
      BY <1>1, <1>2
    <2>2. MayPrecede(Waiting[1], Waiting[i + 1])
      BY <2>1, Zenon DEF EventsInv, QueueInv
    <2> QED
      BY <1>2, <2>2, Zenon
  <1> QED
    BY <1>3, <1>4, <1>5, Zenon

\* A worker with a pending event that it is online has an entry that lives.
LEMMA OnlineEntry ==
  ASSUME EventsInv, NEW j \in WorkerID, OnlinePending(j)
  PROVE  \E e \in Entry : /\ IdOf[e] = j /\ entryState[e] \in {"Normal", "Offline"}
                          /\ cpc[e] \notin {"idle", "dispatching"}
                          /\ \E ev \in Pending : ev.tp = "online" /\ ev.worker = j /\ ev.entry = e
  <1>1. PICK ev \in Pending : ev.tp = "online" /\ ev.worker = j
    BY Zenon DEF OnlinePending
  <1>2. /\ ev.entry \in Entry /\ IdOf[ev.entry] = j
        /\ entryState[ev.entry] \in {"Normal", "Offline"}
    BY <1>1, PendingOK, Zenon DEF EventOK
  <1>3. cpc[ev.entry] \notin {"idle", "dispatching"}
    BY <1>2, Zenon DEF EventsInv, EntryInv
  <1> QED
    BY <1>1, <1>2, <1>3, Zenon

-----------------------------------------------------------------------------
(* Steps that do not move the main goroutine.                              *)

waitVars == <<fsmVars, submitPC, mainPC, offlineArg, toVisit, cpc, workerEntries, entryState,
              finished, expired, errs>>

\* A step that changes nothing WaitInv is about.
LEMMA WaitKept ==
  ASSUME WaitInv, UNCHANGED waitVars, Pending' = Pending
  PROVE  WaitInv'
  <1> USE DEF WaitInv, waitVars, fsmVars
  <1>1. /\ \A w : IsTombstone(w)' <=> IsTombstone(w)
        /\ \A w : Moving(w)' <=> Moving(w)
        /\ \A w : OnlinePending(w)' <=> OnlinePending(w)
        /\ Up' <=> Up
    BY Zenon DEF IsTombstone, Moving, OnlinePending, Up
  <1>2. \A w : Recovered(w)' <=> Recovered(w)
    BY <1>1, Zenon DEF Recovered
  <1>3. ArgInv' /\ TombstoneInv' /\ VisitInv'
    BY <1>1, <1>2, Zenon DEF ArgInv, TombstoneInv, VisitInv
  <1>4. OnlineInv' /\ OnlineHasEntry' /\ WaitHasCause'
    BY <1>1, Zenon DEF OnlineInv, OnlineHasEntry, WaitHasCause
  <1>5. ASSUME NEW j, NEW e, OnlyMaster(j, e), Dispatched(j, e)
        PROVE  OnlyMaster(j, e)' /\ Dispatched(j, e)'
    BY <1>1, <1>5, Zenon DEF OnlyMaster, Dispatched, Unknown, Silent, Reported,
       Unreported
  <1>6. SubmittedInv'
    BY <1>1, <1>5, Zenon DEF SubmittedInv
  <1> QED
    BY <1>3, <1>4, <1>6, Zenon

\* Nothing is claimed of a leader that is down.
LEMMA WaitDown ==
  ASSUME mainPC' = "down"
  PROVE  WaitInv'
  <1>1. ~Up' /\ mainPC' \notin {"scan", "clean", "offline"}
    BY Zenon DEF Up
  <1> QED
    BY <1>1, Zenon DEF WaitInv, ArgInv, TombstoneInv, VisitInv, OnlineInv, SubmittedInv,
       OnlineHasEntry, WaitHasCause

\* What a handler, the checker or a goroutine of CreateWorker may do.
SideEffects ==
  /\ UNCHANGED <<fsmVars, mainPC, offlineArg, toVisit>>
  /\ \A w \in WorkerID :
       /\ workerEntries[w] # NoEntry => workerEntries'[w] # NoEntry
       /\ IsTombstone(w)' => IsTombstone(w)
       /\ IsTombstone(w) /\ Recovered(w) =>
            /\ workerEntries'[w] = workerEntries[w] /\ submitPC'[w] \notin Submitting
            /\ \A f \in Entry : IdOf[f] = w =>
                 entryState'[f] = entryState[f] /\ (cpc'[f] \in Creating => cpc[f] \in Creating)
       /\ submitPC'[w] \in {"new", "stored"} => submitPC[w] \in {"new", "stored"}
       /\ submitPC'[w] # "created" => submitPC[w] # "created"
  /\ Pending \subseteq Pending' /\ (errs # {} => errs' # {})
  /\ \A ev \in Pending' \ Pending :
       /\ ev.tp = "failed" => ~(IsTombstone(ev.worker) /\ Recovered(ev.worker))
       /\ ev.tp = "online" => workerEntries'[ev.worker] # NoEntry
  /\ \A e \in Entry : cpc[e] \in {"dispatching", "silent"} =>
       \/ cpc'[e] \in {"dispatching", "silent"} \/ workerEntries'[IdOf[e]] # NoEntry
       \/ FailedEvent(IdOf[e]) \in Pending' \/ errs' # {}

\* It keeps all but SubmittedInv.
LEMMA SideKeeps ==
  ASSUME TablesInv, EventsInv, WaitInv, SideEffects
  PROVE  /\ ArgInv' /\ TombstoneInv' /\ VisitInv' /\ OnlineInv'
         /\ OnlineHasEntry' /\ WaitHasCause'
  <1> USE DEF WaitInv
  <1>1. /\ \A w : Moving(w)' <=> Moving(w)
        /\ Up' <=> Up
    BY Zenon DEF SideEffects, Moving, Up
  <1>2. ASSUME NEW w \in WorkerID, IsTombstone(w), Recovered(w)
        PROVE  Recovered(w)' /\ IsTombstone(w)'
    <2>0. UNCHANGED <<pendingJobs, onlineJobs, waitAckJobs, addFromFailover>>
      BY Zenon DEF SideEffects, fsmVars
    <2>1. /\ workerEntries'[w] = workerEntries[w] /\ submitPC'[w] \notin Submitting
          /\ \A f \in Entry : IdOf[f] = w =>
               entryState'[f] = entryState[f] /\ (cpc'[f] \in Creating => cpc[f] \in Creating)
      BY <1>2, Zenon DEF SideEffects
    <2>2. workerEntries[w] \in Entry /\ IdOf[workerEntries[w]] = w
      <3>1. workerEntries[w] # NoEntry
        BY <1>2, Zenon DEF IsTombstone
      <3>2. workerEntries[w] \in Entry
        BY <3>1, Zenon DEF EventsInv, ManagerTypes
      <3>3. IdOf[workerEntries[w]] = w
        BY <3>1, Zenon DEF EventsInv, EntryInv
      <3> QED
        BY <3>2, <3>3, Zenon
    <2>3. \A ev \in Pending' \ Pending : ev.tp = "failed" => ev.worker # w
      BY <1>2, Zenon DEF SideEffects
    <2>4. \A ev \in Pending' : ev.worker = w => ev.tp # "failed"
      BY <1>2, <2>3, Zenon DEF Recovered
    <2> QED
      BY <1>1, <1>2, <2>0, <2>1, <2>2, <2>4, Zenon DEF Recovered, IsTombstone
  <1>3. TombstoneInv'
    BY <1>1, <1>2, Zenon DEF SideEffects, TombstoneInv
  <1>4. VisitInv'
    <2> SUFFICES ASSUME mainPC' = "scan" PROVE VisitInv'
      BY Zenon DEF VisitInv
    <2>1. mainPC = "scan" /\ UNCHANGED toVisit
      BY Zenon DEF SideEffects
    <2>2. \A w \in WorkerID : IsTombstone(w)' <=> IsTombstone(w)
      <3>1. mainPC # "clean" /\ mainPC # "down"
        BY <2>1, Zenon
      <3> QED
        BY <1>2, <3>1, Zenon DEF SideEffects, TombstoneInv
    <2> QED
      BY <2>1, <2>2, Zenon DEF VisitInv, SideEffects
  <1>5. ArgInv' /\ OnlineHasEntry'
    <2>1. mainPC \in {"clean", "offline"} => offlineArg[1].worker \in WorkerID
      BY Zenon DEF EventsInv, EndedInv
    <2>2. ArgInv'
      BY <2>1, Zenon DEF SideEffects, ArgInv
    <2>3. onlineJobs \subseteq WorkerID
      BY Zenon DEF TablesInv, TableTypes
    <2>4. OnlineHasEntry'
      BY <1>1, <2>3, Zenon DEF SideEffects, OnlineHasEntry, fsmVars
    <2> QED
      BY <2>2, <2>4, Zenon
  <1>6. OnlineInv'
    <2>1. ASSUME NEW j \in WorkerID, OnlinePending(j)', workerEntries'[j] = NoEntry
          PROVE  OnlinePending(j) /\ workerEntries[j] = NoEntry
      BY <2>1, Zenon DEF SideEffects, OnlinePending
    <2>2. /\ UNCHANGED <<mainPC, waitAckJobs>>
          /\ \A j \in WorkerID : submitPC'[j] # "created" => submitPC[j] # "created"
      BY Zenon DEF SideEffects, fsmVars
    <2> QED
      BY <1>1, <2>1, <2>2, Zenon DEF OnlineInv
  <1>7. WaitHasCause'
    <2>1. waitAckJobs \subseteq WorkerID
      BY Zenon DEF TablesInv, TableTypes
    <2> SUFFICES ASSUME Up', NEW j \in waitAckJobs' \ addFromFailover' PROVE HasCause(j)'
      BY Zenon DEF WaitHasCause, HasCause
    <2>2. j \in WorkerID /\ HasCause(j)
      BY <1>1, <2>1, Zenon DEF SideEffects, WaitHasCause, HasCause, fsmVars
    <2>3. CASE \E e \in Entry : IdOf[e] = j /\ cpc[e] \in {"dispatching", "silent"}
      BY <2>3, Zenon DEF SideEffects, HasCause
    <2> QED
      BY <2>2, <2>3, Zenon DEF SideEffects, HasCause
  <1> QED
    BY <1>3, <1>4, <1>5, <1>6, <1>7, Zenon

\* What a step must leave alone of a job whose SubmitJob has called CreateWorker
\* and of its only master.
LEMMA DispatchedKept ==
  ASSUME NEW j \in WorkerID, NEW e \in Entry, OnlyMaster(j, e), Dispatched(j, e),
         Moving(j)' => Moving(j),
         \A f \in Entry : IdOf[f] = j /\ cpc[f] = "idle" => cpc'[f] = "idle",
         workerEntries'[j] = workerEntries[j], entryState'[e] = entryState[e],
         e \in expired' => e \in expired \/ entryState[e] # "Created",
         e \in finished' => e \in finished \/ entryState[e] # "Created",
         cpc[e] \in {"dispatching", "silent"} =>
           \/ cpc'[e] \in {"dispatching", "silent"} \/ FailedEvent(j) \in Pending' \/ errs' # {},
         Pending \subseteq Pending', errs # {} => errs' # {},
         \A ev \in Pending' \ Pending : ev.tp = "online" => ev.worker # j
  PROVE  OnlyMaster(j, e)' /\ Dispatched(j, e)'
  <1>1. OnlyMaster(j, e)'
    BY Zenon DEF OnlyMaster
  <1>2. ~OnlinePending(j) => ~OnlinePending(j)'
    BY Zenon DEF OnlinePending
  <1>3. Unknown(j, e) => Unknown(j, e)'
    BY Zenon DEF Unknown
  <1>4. Silent(j, e) => Silent(j, e)'
    BY Zenon DEF Silent
  <1>5. Reported(j, e) => Reported(j, e)'
    BY Zenon DEF Reported, OnlineEvent
  <1>6. Unreported(j, e) => Unreported(j, e)'
    BY <1>2, Zenon DEF Unreported
  <1> QED
    BY <1>1, <1>3, <1>4, <1>5, <1>6, Zenon DEF Dispatched

\* SubmitJob before and after CreateWorker.
LEMMA SubmitWait ==
  ASSUME TablesInv, EventsInv, WaitInv, NEW j \in WorkerID,
         SubmitStore(j) \/ SubmitFails(j) \/ SubmitCreate(j)
  PROVE  WaitInv'
  <1> USE DEF WaitInv
  <1>1. /\ UNCHANGED <<fsmVars, mainPC, offlineArg, toVisit, workerEntries, entryState, finished,
                       expired, handling, eventQueue, errs>>
        /\ Up
    BY Zenon DEF SubmitStore, SubmitFails, SubmitCreate, CreateWorkers, mainVars,
       managerVars
  <1>2. Pending' = Pending
    BY <1>1, Zenon DEF Pending
  <1>3. /\ \A k \in WorkerID \ {j} : submitPC'[k] = submitPC[k]
        /\ submitPC[j] \in {"new", "stored"}
        /\ submitPC'[j] \in {"stored", "failed", "created"}
        /\ submitPC'[j] = "created" => SubmitCreate(j)
    BY Zenon DEF SubmitStore, SubmitFails, SubmitCreate, TablesInv, TableTypes
  <1>4. /\ \A e \in Entry : cpc'[e] = cpc[e] \/ (cpc[e] = "idle" /\ IdOf[e] = j)
        /\ SubmitCreate(j) =>
             \E e \in Entry : /\ IdOf[e] = j /\ cpc'[e] = "dispatching" /\ entryState[e] = "Unused"
                              /\ \A f \in Entry \ {e} : IdOf[f] = j => cpc'[f] = cpc[f]
    <2>1. CASE SubmitCreate(j)
      <3>1. CreateWorkers({j})
        BY <2>1, Zenon DEF SubmitCreate
      <3>2. /\ \A e \in Entry : \/ cpc'[e] = cpc[e]
                                \/ /\ cpc'[e] = "dispatching" /\ cpc[e] = "idle"
                                   /\ entryState[e] = "Unused" /\ IdOf[e] = j
            /\ \E e \in Entry : /\ IdOf[e] = j /\ cpc'[e] = "dispatching"
                                /\ \A f \in Entry \ {e} : IdOf[f] = j => cpc'[f] = cpc[f]
        <4> PICK S : S = {j} /\ CreateWorkers(S)
          BY <3>1, Zenon
        <4>1. /\ \A e \in Entry : \/ cpc'[e] = cpc[e]
                                  \/ /\ cpc'[e] = "dispatching" /\ cpc[e] = "idle"
                                     /\ entryState[e] = "Unused" /\ IdOf[e] \in S
              /\ \A k \in S : \E e \in Entry :
                   /\ IdOf[e] = k /\ cpc'[e] = "dispatching"
                   /\ \A f \in Entry \ {e} : IdOf[f] = k => cpc'[f] = cpc[f]
          BY CreateWorkersFact, Zenon
        <4> QED
          BY <4>1, Zenon
      <3>3. \A e \in Entry : cpc'[e] = "dispatching" => entryState[e] = "Unused"
        BY <3>2, Zenon DEF EventsInv, EntryInv
      <3> QED
        BY <3>2, <3>3, Zenon
    <2>2. CASE ~SubmitCreate(j)
      <3>1. UNCHANGED cpc
        BY <2>2, Zenon DEF SubmitStore, SubmitFails, workerVars
      <3> QED
        BY <2>2, <3>1, Zenon
    <2> QED
      BY <2>1, <2>2, Zenon
  <1>5. SideEffects
    <2>1. \A w \in WorkerID : Recovered(w) => w # j
      BY <1>3, Zenon DEF Recovered, Submitting
    <2>2. \A w \in WorkerID : IsTombstone(w)' <=> IsTombstone(w)
      BY <1>1, Zenon DEF IsTombstone
    <2>3. ASSUME NEW w \in WorkerID, Recovered(w)
          PROVE  /\ workerEntries'[w] = workerEntries[w] /\ submitPC'[w] \notin Submitting
                 /\ \A f \in Entry : IdOf[f] = w =>
                      entryState'[f] = entryState[f] /\ cpc'[f] = cpc[f]
      <3>1. w # j
        BY <2>1, <2>3, Zenon
      <3>2. submitPC'[w] = submitPC[w] /\ submitPC[w] \notin Submitting
        BY <1>3, <2>3, <3>1, Zenon DEF Recovered
      <3>3. \A f \in Entry : IdOf[f] = w => cpc'[f] = cpc[f]
        BY <1>4, <3>1, Zenon
      <3> QED
        BY <1>1, <3>2, <3>3, Zenon
    <2>4. \A w \in WorkerID :
            /\ submitPC'[w] \in {"new", "stored"} => submitPC[w] \in {"new", "stored"}
            /\ submitPC'[w] # "created" => submitPC[w] # "created"
      BY <1>3, Zenon
    <2>5. \A e \in Entry : cpc[e] \in {"dispatching", "silent"} => cpc'[e] = cpc[e]
      BY <1>4, Zenon
    <2> QED
      BY <1>1, <1>2, <2>2, <2>3, <2>4, <2>5, Zenon DEF SideEffects
  <1>6. SubmittedInv'
    <2> SUFFICES ASSUME NEW k \in WorkerID, submitPC'[k] = "created"
                 PROVE  \E e \in Entry : OnlyMaster(k, e)' /\ Dispatched(k, e)'
      BY Zenon DEF SubmittedInv
    <2>1. Moving(k)' <=> Moving(k)
      BY <1>1, Zenon DEF Moving
    <2>2. CASE k = j
      <3>1. PICK e \in Entry :
              /\ IdOf[e] = j /\ cpc'[e] = "dispatching" /\ entryState[e] = "Unused"
              /\ \A f \in Entry \ {e} : IdOf[f] = j => cpc'[f] = cpc[f]
        BY <1>3, <1>4, <2>2, Zenon
      <3>2. \A f \in Entry : IdOf[f] = j => cpc[f] = "idle"
        BY <1>3, Zenon DEF TablesInv, MasterInv
      <3>3. ~Moving(j)
        BY <1>3, Zenon DEF ArgInv, Moving
      <3>4. OnlyMaster(k, e)' /\ Dispatched(k, e)'
        BY <1>1, <2>1, <2>2, <3>1, <3>2, <3>3, Zenon DEF OnlyMaster, Dispatched, Unknown
      <3> QED
        BY <3>4, Zenon
    <2>3. CASE k # j
      <3>1. PICK e \in Entry : OnlyMaster(k, e) /\ Dispatched(k, e)
        BY <1>1, <1>3, <2>3, Zenon DEF SubmittedInv
      <3>2. \A f \in Entry : IdOf[f] = k => cpc'[f] = cpc[f]
        BY <1>4, <2>3, Zenon
      <3>3. IdOf[e] = k
        BY <3>1, Zenon DEF OnlyMaster
      <3>4. OnlyMaster(k, e)' /\ Dispatched(k, e)'
        BY <1>1, <1>2, <2>1, <3>1, <3>2, <3>3, DispatchedKept, Zenon
      <3> QED
        BY <3>4, Zenon
    <2> QED
      BY <2>2, <2>3, Zenon
  <1> QED
    BY <1>5, <1>6, SideKeeps, Zenon

\* The end of a goroutine of CreateWorker.
LEMMA CreatedWait ==
  ASSUME TablesInv, EventsInv, WaitInv, NEW e \in Entry,
         CreateAborted(e) \/ CreateFailedSilently(e) \/ ConfirmReturned(e)
  PROVE  WaitInv'
  <1> USE DEF WaitInv
  <1> DEFINE ev == FailedEvent(IdOf[e])
  <1>1. UNCHANGED <<fsmVars, submitPC, mainPC, offlineArg, toVisit, workerEntries, entryState,
                    finished, expired>>
    BY Zenon DEF CreateAborted, AbortCreatingWorker, CreateFailedSilently,
       ConfirmReturned,
       rpcVars, mainVars, managerVars
  <1>2. ev \in Event /\ ev.tp = "failed" /\ ev.worker = IdOf[e] /\ IdOf[e] \in WorkerID
    <2>1. IdOf[e] \in WorkerID
      BY Zenon
    <2> QED
      BY <2>1, Zenon DEF Event, FailedEvent
  <1>3. /\ Pending \subseteq Pending' /\ Pending' \subseteq Pending \cup {ev}
        /\ errs # {} => errs' # {}
        /\ CreateAborted(e) => ev \in Pending' \/ errs' # {}
    <2>1. CASE CreateAborted(e)
      <3>1. EnqueueEvent(ev, "handler") /\ handling' = handling
        BY <2>1, Zenon DEF CreateAborted, AbortCreatingWorker
      <3>2. \/ Pending' = Pending \cup {ev} /\ UNCHANGED errs
            \/ Pending' = Pending /\ errs' # {}
        BY <1>2, <3>1, PendingGrows, Zenon DEF EventsInv
      <3> QED
        BY <3>2, Zenon
    <2>2. CASE ~CreateAborted(e)
      <3>1. UNCHANGED <<handling, eventQueue, errs>>
        BY <2>2, Zenon DEF CreateFailedSilently, ConfirmReturned, managerVars
      <3> QED
        BY <2>2, <3>1, Zenon DEF Pending
    <2> QED
      BY <2>1, <2>2, Zenon
  <1>4. /\ cpc[e] \in Creating /\ cpc'[e] \notin Creating \cup {"idle"}
        /\ cpc[e] = "dispatching" => cpc'[e] = "silent" \/ CreateAborted(e)
        /\ \A f \in Entry \ {e} : cpc'[f] = cpc[f]
    <2>1. PICK s \in {"failed", "silent", "dispatched"} :
            /\ cpc' = [cpc EXCEPT ![e] = s] /\ cpc[e] \in Creating
            /\ cpc[e] = "dispatching" => s = "silent" \/ CreateAborted(e)
      BY Zenon DEF CreateAborted, CreateFailedSilently, ConfirmReturned, Creating
    <2> QED
      BY <2>1, Zenon DEF Creating, TablesInv, TableTypes
  <1>5. SideEffects
    <2>1. \A w \in WorkerID : Recovered(w) => w # IdOf[e]
      BY <1>4, Zenon DEF Recovered
    <2>2. \A w \in WorkerID : IsTombstone(w)' <=> IsTombstone(w)
      BY <1>1, Zenon DEF IsTombstone
    <2>3. \A f \in Entry : cpc'[f] \in Creating => cpc[f] \in Creating
      BY <1>4, Zenon
    <2>4. \A w \in WorkerID : Recovered(w) => submitPC'[w] \notin Submitting
      BY <1>1, Zenon DEF Recovered
    <2>5. \A x \in Pending' \ Pending : x = ev
      BY <1>3, Zenon
    <2>6. \A f \in Entry : cpc[f] \in {"dispatching", "silent"} =>
            \/ cpc'[f] \in {"dispatching", "silent"}
            \/ FailedEvent(IdOf[f]) \in Pending' \/ errs' # {}
      BY <1>3, <1>4, Zenon DEF Creating
    <2>7. ev.tp # "online"
      BY <1>2, Zenon
    <2> QED
      BY <1>1, <1>2, <1>3, <2>1, <2>2, <2>3, <2>4, <2>5, <2>6, <2>7,
         Zenon DEF SideEffects
  <1>6. SubmittedInv'
    <2> SUFFICES ASSUME Up', NEW k \in WorkerID, submitPC'[k] = "created"
                 PROVE  \E f \in Entry : OnlyMaster(k, f)' /\ Dispatched(k, f)'
      BY Zenon DEF SubmittedInv
    <2>1. PICK f \in Entry : OnlyMaster(k, f) /\ Dispatched(k, f)
      BY <1>1, Zenon DEF SubmittedInv, Up
    <2>2. Moving(k)' => Moving(k)
      BY <1>1, Zenon DEF Moving
    <2>3. \A g \in Entry : cpc[g] = "idle" => cpc'[g] = "idle"
      BY <1>4, Zenon DEF Creating
    <2>4. cpc[f] \in {"dispatching", "silent"} =>
            \/ cpc'[f] \in {"dispatching", "silent"}
            \/ FailedEvent(k) \in Pending' \/ errs' # {}
      <3>1. IdOf[f] = k
        BY <2>1, Zenon DEF OnlyMaster
      <3> QED
        BY <1>3, <1>4, <3>1, Zenon DEF Creating
    <2>5. \A x \in Pending' \ Pending : x.tp # "online"
      BY <1>2, <1>3, Zenon
    <2>6. OnlyMaster(k, f)' /\ Dispatched(k, f)'
      BY <1>1, <1>3, <2>1, <2>2, <2>3, <2>4, <2>5, DispatchedKept, Zenon
    <2> QED
      BY <2>6, Zenon
  <1> QED
    BY <1>5, <1>6, SideKeeps, Zenon

\* BeforeStartingWorker: the manager gets to know the master.
LEMMA StartTimerWait ==
  ASSUME TablesInv, EventsInv, WaitInv, NEW e \in Entry, StartTimer(e)
  PROVE  WaitInv'
  <1> USE DEF WaitInv
  <1>1. /\ UNCHANGED <<fsmVars, submitPC, mainPC, offlineArg, toVisit, finished, expired,
                       handling, eventQueue, errs>>
        /\ cpc[e] = "dispatching" /\ cpc' = [cpc EXCEPT ![e] = "confirming"]
        /\ workerEntries' = [workerEntries EXCEPT ![IdOf[e]] = e]
        /\ entryState' = [entryState EXCEPT ![e] = "Created"]
    BY Zenon DEF StartTimer, BeforeStartingWorker, rpcVars, mainVars
  <1>2. /\ entryState'[e] = "Created" /\ workerEntries'[IdOf[e]] = e
        /\ \A f \in Entry \ {e} : entryState'[f] = entryState[f] /\ cpc'[f] = cpc[f]
        /\ \A w \in WorkerID \ {IdOf[e]} : workerEntries'[w] = workerEntries[w]
        /\ cpc'[e] = "confirming" /\ IdOf[e] \in WorkerID
    <2>1. /\ workerEntries \in [WorkerID -> Entry \cup {NoEntry}]
          /\ entryState \in [Entry -> EntryStates] /\ IdOf[e] \in WorkerID
      BY Zenon DEF EventsInv, ManagerTypes
    <2>2. cpc \in [Entry -> {"idle", "dispatching", "confirming", "dispatched", "failed", "silent"}]
      BY Zenon DEF TablesInv, TableTypes
    <2> QED
      BY <1>1, <2>1, <2>2, Zenon
  <1>3. Pending' = Pending
    BY <1>1, Zenon DEF Pending
  <1>4. entryState[e] = "Unused" /\ e \notin expired /\ e \notin finished
    BY <1>1, Zenon DEF EventsInv, EntryInv
  <1>5. e # NoEntry /\ \A w \in WorkerID : workerEntries[w] # NoEntry =>
          workerEntries[w] \in Entry /\ IdOf[workerEntries[w]] = w /\ workerEntries[w] # e
    <2>1. workerEntries \in [WorkerID -> Entry \cup {NoEntry}]
      BY Zenon DEF EventsInv, ManagerTypes
    <2> QED
      BY <1>4, <2>1, Zenon DEF EventsInv, EntryInv
  <1>6. SideEffects
    <2>1. \A w \in WorkerID : Recovered(w) => w # IdOf[e]
      BY <1>1, Zenon DEF Recovered, Creating
    <2>2. \A w \in WorkerID : IsTombstone(w)' => IsTombstone(w)
      <3>1. ~IsTombstone(IdOf[e])'
        BY <1>2, Zenon DEF IsTombstone
      <3>2. \A w \in WorkerID \ {IdOf[e]} : IsTombstone(w)' => IsTombstone(w)
        BY <1>2, <1>5, ZenonT(40) DEF IsTombstone
      <3> QED
        BY <3>1, <3>2, Zenon
    <2>3. \A w \in WorkerID : IsTombstone(w) /\ Recovered(w) =>
            /\ workerEntries'[w] = workerEntries[w] /\ submitPC'[w] \notin Submitting
            /\ \A f \in Entry : IdOf[f] = w =>
                 entryState'[f] = entryState[f] /\ (cpc'[f] \in Creating => cpc[f] \in Creating)
      BY <1>1, <1>2, <2>1, Zenon DEF Recovered
    <2>4. \A w \in WorkerID : workerEntries[w] # NoEntry => workerEntries'[w] # NoEntry
      BY <1>2, <1>5, Zenon
    <2>5. \A f \in Entry : cpc[f] \in {"dispatching", "silent"} =>
            \/ cpc'[f] \in {"dispatching", "silent"} \/ workerEntries'[IdOf[f]] # NoEntry
      BY <1>2, <1>5, Zenon
    <2> QED
      BY <1>1, <1>3, <2>2, <2>3, <2>4, <2>5, Zenon DEF SideEffects
  <1>7. SubmittedInv'
    <2> SUFFICES ASSUME Up', NEW k \in WorkerID, submitPC'[k] = "created"
                 PROVE  \E f \in Entry : OnlyMaster(k, f)' /\ Dispatched(k, f)'
      BY Zenon DEF SubmittedInv
    <2>1. PICK f \in Entry : OnlyMaster(k, f) /\ Dispatched(k, f)
      BY <1>1, Zenon DEF SubmittedInv, Up
    <2>2. Moving(k)' <=> Moving(k)
      BY <1>1, Zenon DEF Moving
    <2>3. \A g \in Entry : cpc[g] = "idle" => cpc'[g] = "idle"
      BY <1>1, <1>2, Zenon
    <2>4. CASE IdOf[e] = k
      <3>1. f = e
        BY <1>1, <2>1, <2>4, Zenon DEF OnlyMaster
      <3>2. OnlyMaster(k, f)'
        BY <2>1, <2>3, Zenon DEF OnlyMaster
      <3>3. ~Moving(k)
        BY <1>4, <2>1, <3>1, Zenon DEF Dispatched, Unknown, Silent, Reported, Unreported
      <3>4. Silent(k, f)'
        BY <1>1, <1>2, <1>4, <2>2, <2>4, <3>1, <3>3, Zenon DEF Silent
      <3> QED
        BY <3>2, <3>4, Zenon DEF Dispatched
    <2>5. CASE IdOf[e] # k
      <3>1. IdOf[f] = k
        BY <2>1, Zenon DEF OnlyMaster
      <3>2. f # e /\ workerEntries'[k] = workerEntries[k]
        BY <1>2, <2>5, <3>1, Zenon
      <3>3. OnlyMaster(k, f)' /\ Dispatched(k, f)'
        BY <1>1, <1>2, <1>3, <2>1, <2>2, <2>3, <3>2, DispatchedKept, ZenonT(40)
      <3> QED
        BY <3>3, Zenon
    <2> QED
      BY <2>4, <2>5, Zenon
  <1> QED
    BY <1>6, <1>7, SideKeeps, Zenon

\* An entry goes online or offline, or an event about one is reported.
LEMMA EntrySide ==
  ASSUME TablesInv, EventsInv, NEW e \in Entry, NEW new,
         UNCHANGED <<fsmVars, submitPC, mainPC, offlineArg, toVisit, cpc,
         workerEntries>>,
         \A f \in Entry : \/ entryState'[f] = entryState[f]
                          \/ /\ f = e /\ entryState[e] \notin {"Unused", "Tombstone"}
                             /\ entryState'[e] \in {"Normal", "Offline"},
         Pending \subseteq Pending', Pending' \subseteq Pending \cup {new},
         errs # {} => errs' # {}, new.tp # "failed",
         new.tp = "online" => workerEntries[new.worker] # NoEntry
  PROVE  SideEffects
  <1>1. \A w \in WorkerID : workerEntries[w] \in Entry \cup {NoEntry}
    BY Zenon DEF EventsInv, ManagerTypes
  <1>2. \A f \in Entry : entryState'[f] = "Tombstone" => entryState[f] = "Tombstone"
    OBVIOUS
  <1>3. \A w \in WorkerID : IsTombstone(w)' => IsTombstone(w)
    BY <1>1, <1>2, Zenon DEF IsTombstone
  <1>4. ASSUME NEW w \in WorkerID, IsTombstone(w), Recovered(w), NEW f \in Entry, IdOf[f] = w
        PROVE  entryState'[f] = entryState[f]
    BY <1>4, Zenon DEF IsTombstone, Recovered
  <1>5. \A w \in WorkerID : Recovered(w) => submitPC'[w] \notin Submitting
    BY Zenon DEF Recovered
  <1>6. \A x \in Pending' \ Pending :
          x.tp # "failed" /\ (x.tp = "online" => workerEntries'[x.worker] # NoEntry)
    BY Zenon
  <1> QED
    BY <1>3, <1>4, <1>5, <1>6, Zenon DEF SideEffects

\* The clock.
LEMMA ExpireWait ==
  ASSUME TablesInv, EventsInv, WaitInv, NEW e \in Entry, Expire(e)
  PROVE  WaitInv'
  <1> USE DEF WaitInv
  <1>1. /\ submitPC[IdOf[e]] # "created" /\ expired' = expired \cup {e}
        /\ UNCHANGED <<fsmVars, submitPC, mainPC, offlineArg, toVisit, cpc, workerEntries,
                       entryState, finished, handling, eventQueue, errs>>
    BY Zenon DEF Expire, LeaseExpires, rpcVars, mainVars, workerVars
  <1>2. Pending' = Pending
    BY <1>1, Zenon DEF Pending
  <1>3. SideEffects
    <2> PICK new : new.tp = "status"
      <3>1. [tp |-> "status"].tp = "status"
        OBVIOUS
      <3> QED
        BY <3>1, Zenon
    <2>1. new.tp # "failed" /\ new.tp # "online"
      OBVIOUS
    <2> QED
      BY <1>1, <1>2, <2>1, EntrySide, Zenon
  <1>4. SubmittedInv'
    <2> SUFFICES ASSUME Up', NEW k \in WorkerID, submitPC'[k] = "created"
                 PROVE  \E f \in Entry : OnlyMaster(k, f)' /\ Dispatched(k, f)'
      BY Zenon DEF SubmittedInv
    <2>1. PICK f \in Entry : OnlyMaster(k, f) /\ Dispatched(k, f)
      BY <1>1, Zenon DEF SubmittedInv, Up
    <2>2. Moving(k)' => Moving(k)
      BY <1>1, Zenon DEF Moving
    <2>3. f # e
      BY <1>1, <2>1, Zenon DEF OnlyMaster
    <2>4. OnlyMaster(k, f)' /\ Dispatched(k, f)'
      BY <1>1, <1>2, <2>1, <2>2, <2>3, DispatchedKept, Zenon
    <2> QED
      BY <2>4, Zenon
  <1> QED
    BY <1>3, <1>4, SideKeeps, Zenon

\* OnWorkerStatusUpdateMessage.
LEMMA StatusWait ==
  ASSUME TablesInv, EventsInv, WaitInv, NEW from \in Entry, DeliverStatus(from)
  PROVE  WaitInv'
  <1> USE DEF WaitInv
  <1> DEFINE w == IdOf[from]
  <1>0. PICK code, new : code = statusMsg[from][1].code /\ new = StatusEvent(workerEntries[w], code)
    BY Zenon
  <1>1. /\ workerEntries[w] # NoEntry /\ statusMsg[from] # <<>> /\ EnqueueEvent(new, "handler")
        /\ UNCHANGED <<fsmVars, submitPC, mainPC, offlineArg, toVisit, cpc, workerEntries,
                       entryState, finished, expired, handling>>
    BY <1>0, Zenon DEF DeliverStatus, OnWorkerStatusUpdateMessage, rpcVars, mainVars
  <1>2. new \in Event /\ new.tp = "status"
    <2>1. workerEntries[w] \in Entry
      BY <1>1, Zenon DEF EventsInv, ManagerTypes
    <2>2. statusMsg[from] \in Seq(StatusMsg)
      BY Zenon DEF EventsInv, MessageTypes
    <2>3. statusMsg[from][1] \in StatusMsg
      BY <1>1, <2>2
    <2> QED
      BY <1>0, <2>1, <2>3, Zenon DEF Event, StatusEvent, StatusMsg, StatusCodes, Final
  <1>3. /\ Pending \subseteq Pending' /\ Pending' \subseteq Pending \cup {new}
        /\ errs # {} => errs' # {}
    <2>1. \/ Pending' = Pending \cup {new} /\ UNCHANGED errs
          \/ Pending' = Pending /\ errs' # {}
      BY <1>1, <1>2, PendingGrows, Zenon DEF EventsInv
    <2> QED
      BY <2>1, Zenon
  <1>4. new.tp # "failed" /\ new.tp # "online"
    BY <1>2, Zenon
  <1>5. SideEffects
    BY <1>1, <1>3, <1>4, EntrySide, Zenon
  <1>6. SubmittedInv'
    <2> SUFFICES ASSUME Up', NEW k \in WorkerID, submitPC'[k] = "created"
                 PROVE  \E f \in Entry : OnlyMaster(k, f)' /\ Dispatched(k, f)'
      BY Zenon DEF SubmittedInv
    <2>1. PICK f \in Entry : OnlyMaster(k, f) /\ Dispatched(k, f)
      BY <1>1, Zenon DEF SubmittedInv, Up
    <2>2. Moving(k)' => Moving(k)
      BY <1>1, Zenon DEF Moving
    <2>3. \A x \in Pending' \ Pending : x.tp # "online"
      BY <1>3, <1>4, Zenon
    <2>4. OnlyMaster(k, f)' /\ Dispatched(k, f)'
      BY <1>1, <1>3, <2>1, <2>2, <2>3, DispatchedKept, Zenon
    <2> QED
      BY <2>4, Zenon
  <1> QED
    BY <1>5, <1>6, SideKeeps, Zenon

\* The checker puts an entry offline and says so.
LEMMA SweepWait ==
  ASSUME TablesInv, EventsInv, WaitInv, NEW e \in Entry, Checker, SweepVisit(e)
  PROVE  WaitInv'
  <1> USE DEF WaitInv
  <1>0. PICK r, new : r = OfflineReason(status[e]) /\ new = OfflineEvent(e, r)
    BY Zenon
  <1>1. /\ e \in sweep /\ entryState' = [entryState EXCEPT ![e] = "Offline"]
        /\ EnqueueEvent(new, "checker")
        /\ UNCHANGED <<workerEntries, finished, expired, handling>>
    BY <1>0, Zenon DEF SweepVisit
  <1>2. UNCHANGED <<fsmVars, submitPC, mainPC, offlineArg, toVisit, cpc>>
    BY Zenon DEF Checker, rpcVars, mainVars, workerVars
  <1>3. /\ entryState[e] \in {"Created", "Normal"} /\ (e \in expired \/ e \in finished)
        /\ entryState'[e] = "Offline"
        /\ \A f \in Entry \ {e} : entryState'[f] = entryState[f]
    BY <1>1, ZenonT(40) DEF EventsInv, EntryInv, ManagerTypes
  <1>4. new \in Event /\ new.tp = "offline"
    BY <1>0, Zenon DEF Event, OfflineEvent, OfflineReason, Reasons
  <1>5. /\ Pending \subseteq Pending' /\ Pending' \subseteq Pending \cup {new}
        /\ errs # {} => errs' # {}
    <2>1. \/ Pending' = Pending \cup {new} /\ UNCHANGED errs
          \/ Pending' = Pending /\ errs' # {}
      BY <1>1, <1>4, PendingGrows, Zenon DEF EventsInv
    <2> QED
      BY <2>1, Zenon
  <1>6. new.tp # "failed" /\ new.tp # "online" /\ entryState[e] \notin {"Unused", "Tombstone"}
    BY <1>3, <1>4, Zenon
  <1>7. SideEffects
    BY <1>1, <1>2, <1>3, <1>5, <1>6, EntrySide, Zenon
  <1>8. SubmittedInv'
    <2> SUFFICES ASSUME Up', NEW k \in WorkerID, submitPC'[k] = "created"
                 PROVE  \E f \in Entry : OnlyMaster(k, f)' /\ Dispatched(k, f)'
      BY Zenon DEF SubmittedInv
    <2>1. PICK f \in Entry : OnlyMaster(k, f) /\ Dispatched(k, f)
      BY <1>2, Zenon DEF SubmittedInv, Up
    <2>2. Moving(k)' <=> Moving(k)
      BY <1>2, Zenon DEF Moving
    <2>3. \A x \in Pending' \ Pending : x.tp # "online"
      BY <1>5, <1>6, Zenon
    <2>4. CASE f # e
      <3>1. OnlyMaster(k, f)' /\ Dispatched(k, f)'
        BY <1>1, <1>2, <1>3, <1>5, <2>1, <2>2, <2>3, <2>4, DispatchedKept, Zenon
      <3> QED
        BY <3>1, Zenon
    <2>5. CASE f = e
      <3>1. OnlyMaster(k, f)'
        BY <1>2, <2>1, Zenon DEF OnlyMaster
      <3>2. Reported(k, f) \/ Unreported(k, f)
        BY <1>3, <2>1, <2>5, Zenon DEF Dispatched, Unknown, Silent
      <3>3. Reported(k, f) => Reported(k, f)'
        BY <1>1, <1>5, <2>2, Zenon DEF Reported, OnlineEvent
      <3>4. Unreported(k, f) => Unreported(k, f)'
        <4>1. ~OnlinePending(k) => ~OnlinePending(k)'
          BY <2>3, Zenon DEF OnlinePending
        <4> QED
          BY <1>3, <1>5, <2>5, <4>1, Zenon DEF Unreported
      <3> QED
        BY <3>1, <3>2, <3>3, <3>4, Zenon DEF Dispatched
    <2> QED
      BY <2>4, <2>5, Zenon
  <1> QED
    BY <1>7, <1>8, SideKeeps, Zenon

\* HandleHeartbeat.
LEMMA PingWait ==
  ASSUME TablesInv, EventsInv, WaitInv, NEW from \in Entry, NEW isFinished \in BOOLEAN,
         DeliverPing(from, isFinished)
  PROVE  WaitInv'
  <1> USE DEF WaitInv
  <1> DEFINE w == IdOf[from]
  <1>1. /\ HandleHeartbeat(w, workerEpoch[from], isFinished)
        /\ UNCHANGED <<fsmVars, submitPC, mainPC, offlineArg, toVisit, cpc>>
    BY Zenon DEF DeliverPing, rpcVars, mainVars, workerVars
  <1>2. PICK e \in Entry : e = workerEntries[w] /\ entryState[e] # "Unused" /\ w = IdOf[e]
    <2>1. workerEntries[w] # NoEntry
      BY <1>1, Zenon DEF HandleHeartbeat, HeartbeatDiscovers, HeartbeatOnline,
         HeartbeatRenews, HeartbeatSeen
    <2>2. w \in WorkerID
      BY Zenon
    <2>3. /\ workerEntries[w] \in Entry /\ IdOf[workerEntries[w]] = w
          /\ entryState[workerEntries[w]] # "Unused"
      BY <2>1, <2>2 DEF EventsInv, ManagerTypes, EntryInv
    <2> QED
      BY <2>3, Zenon
  <1>3. /\ finished' \subseteq finished \cup {e} /\ expired' \subseteq expired
        /\ UNCHANGED <<workerEntries, handling>>
    BY <1>1, <1>2, Zenon DEF HandleHeartbeat, HeartbeatDiscovers, HeartbeatOnline,
       HeartbeatRenews, HeartbeatSeen
  <1>4. PICK new : new = OnlineEvent(e)
    BY Zenon
  <1>5. new \in Event /\ new.tp = "online" /\ new.entry = e /\ new.worker = IdOf[e]
    BY <1>4, Zenon DEF Event, OnlineEvent
  <1>6. \A k : Moving(k)' <=> Moving(k)
    BY <1>1, Zenon DEF Moving
  <1>7. Up' <=> Up
    BY <1>1, Zenon DEF Up
  <1>8. ASSUME \A f \in Entry : \/ entryState'[f] = entryState[f]
                                \/ /\ f = e /\ entryState[e] \notin {"Unused", "Tombstone"}
                                   /\ entryState'[e] \in {"Normal", "Offline"},
               Pending \subseteq Pending', Pending' \subseteq Pending \cup {new},
               errs # {} => errs' # {}
        PROVE  SideEffects
    <2>1. new.tp # "failed" /\ workerEntries[new.worker] # NoEntry
      BY <1>2, <1>5, Zenon
    <2> QED
      BY <1>1, <1>3, <1>8, <2>1, EntrySide, ZenonT(40)
  <1>9. ASSUME UNCHANGED <<eventQueue, errs>> PROVE Pending' = Pending
    BY <1>3, <1>9, Zenon DEF Pending
  <1>10. CASE HeartbeatRenews(w, workerEpoch[from], isFinished)
    <2>1. /\ UNCHANGED <<entryState, eventQueue, errs>>
          /\ wmState = "Ready" => entryState[e] # "Created"
      BY <1>2, <1>10, Zenon DEF HeartbeatRenews
    <2>2. SideEffects
      BY <1>8, <1>9, <2>1, Zenon
    <2>3. SubmittedInv'
      <3> SUFFICES ASSUME Up', NEW k \in WorkerID, submitPC'[k] = "created"
                   PROVE  \E f \in Entry : OnlyMaster(k, f)' /\ Dispatched(k, f)'
        BY Zenon DEF SubmittedInv
      <3>1. PICK f \in Entry : OnlyMaster(k, f) /\ Dispatched(k, f)
        BY <1>1, <1>7, Zenon DEF SubmittedInv
      <3>2. wmState = "Ready"
        BY <1>7, Zenon DEF EventsInv, RecoveryInv, Up
      <3>3. OnlyMaster(k, f)' /\ Dispatched(k, f)'
        BY <1>1, <1>3, <1>6, <1>9, <2>1, <3>1, <3>2, DispatchedKept, Zenon
      <3> QED
        BY <3>3, Zenon
    <2> QED
      BY <2>2, <2>3, SideKeeps, Zenon
  <1>11. CASE HeartbeatDiscovers(w, workerEpoch[from], isFinished)
    <2>1. /\ wmState = "WaitingHeartbeat" /\ entryState[e] = "Wait"
          /\ entryState' = [entryState EXCEPT ![e] = "Normal"] /\ UNCHANGED <<eventQueue, errs>>
      BY <1>2, <1>11, Zenon DEF HeartbeatDiscovers
    <2>2. ~Up'
      BY <1>7, <2>1, Zenon DEF EventsInv, RecoveryInv, Up
    <2>3. /\ entryState'[e] = "Normal" /\ \A f \in Entry \ {e} : entryState'[f] = entryState[f]
          /\ entryState[e] \notin {"Unused", "Tombstone"}
      BY <2>1, Zenon DEF EventsInv, ManagerTypes
    <2>4. SideEffects
      BY <1>8, <1>9, <2>1, <2>3, Zenon
    <2>5. SubmittedInv'
      BY <2>2, Zenon DEF SubmittedInv
    <2> QED
      BY <2>4, <2>5, SideKeeps, Zenon
  <1>12. CASE HeartbeatOnline(w, workerEpoch[from], isFinished)
    <2>1. /\ entryState[e] = "Created"
          /\ entryState' = [entryState EXCEPT ![e] = "Normal"] /\ EnqueueEvent(new, "handler")
      BY <1>2, <1>4, <1>12, Zenon DEF HeartbeatOnline
    <2>2. /\ entryState'[e] = "Normal" /\ \A f \in Entry \ {e} : entryState'[f] = entryState[f]
          /\ entryState[e] \notin {"Unused", "Tombstone"}
      BY <2>1, Zenon DEF EventsInv, ManagerTypes
    <2>3. \/ Pending' = Pending \cup {new} /\ UNCHANGED errs
          \/ Pending' = Pending /\ errs' # {}
      BY <1>3, <1>5, <2>1, PendingGrows, Zenon DEF EventsInv
    <2>4. /\ Pending \subseteq Pending' /\ Pending' \subseteq Pending \cup {new}
          /\ errs # {} => errs' # {}
      BY <2>3, Zenon
    <2>5. SideEffects
      BY <1>8, <2>2, <2>4, Zenon
    <2>6. SubmittedInv'
      <3> SUFFICES ASSUME Up', NEW k \in WorkerID, submitPC'[k] = "created"
                   PROVE  \E f \in Entry : OnlyMaster(k, f)' /\ Dispatched(k, f)'
        BY Zenon DEF SubmittedInv
      <3>1. PICK f \in Entry : OnlyMaster(k, f) /\ Dispatched(k, f)
        BY <1>1, <1>7, Zenon DEF SubmittedInv
      <3>2. CASE k # w
        <4>1. f # e
          BY <1>2, <3>1, <3>2, Zenon DEF OnlyMaster
        <4>2. \A x \in Pending' \ Pending : x.tp = "online" => x.worker # k
          BY <1>2, <1>5, <2>4, <3>2, Zenon
        <4>3. OnlyMaster(k, f)' /\ Dispatched(k, f)'
          BY <1>1, <1>3, <1>6, <2>2, <2>4, <3>1, <4>1, <4>2, DispatchedKept, Zenon
        <4> QED
          BY <4>3, Zenon
      <3>3. CASE k = w
        <4>1. cpc[e] # "idle"
          BY <1>2, Zenon DEF EventsInv, EntryInv
        <4>2. f = e
          BY <1>2, <3>1, <3>3, <4>1, ZenonT(40) DEF OnlyMaster
        <4>3. \A x \in Pending : x.tp = "online" => x.entry # e
          BY <2>1, PendingOK, SMTT(40) DEF EventOK
        <4>4. ~Reported(k, e)
          BY <4>3, Zenon DEF Reported, OnlineEvent
        <4>5. Silent(k, e)
          BY <2>1, <3>1, <4>2, <4>4, Zenon DEF Dispatched, Unknown, Unreported
        <4>6. ~OnlinePending(k)
          <5>1. ASSUME OnlinePending(k) PROVE FALSE
            <6>1. PICK g \in Entry : /\ IdOf[g] = k /\ entryState[g] \in {"Normal", "Offline"}
                                     /\ cpc[g] \notin {"idle", "dispatching"}
              BY <5>1, OnlineEntry, ZenonT(40)
            <6>2. g = e
              BY <3>1, <4>2, <6>1, Zenon DEF OnlyMaster
            <6> QED
              BY <2>1, <6>1, <6>2, Zenon
          <5> QED
            BY <5>1, Zenon
        <4>7. OnlyMaster(k, e)'
          BY <1>1, <3>1, <4>2, Zenon DEF OnlyMaster
        <4>8. CASE Pending' = Pending \cup {new}
          <5>1. Reported(k, e)'
            BY <1>3, <1>4, <1>6, <4>5, <4>8, Zenon DEF Silent, Reported, OnlineEvent
          <5> QED
            BY <4>7, <5>1, Zenon DEF Dispatched
        <4>9. CASE Pending' = Pending /\ errs' # {}
          <5>1. Unreported(k, e)'
            BY <2>2, <4>6, <4>9, Zenon DEF OnlinePending, Unreported
          <5> QED
            BY <4>7, <5>1, Zenon DEF Dispatched
        <4> QED
          BY <2>3, <4>8, <4>9, Zenon
      <3> QED
        BY <3>2, <3>3, Zenon
    <2> QED
      BY <2>5, <2>6, SideKeeps, Zenon
  <1> QED
    BY <1>1, <1>10, <1>11, <1>12, Zenon DEF HandleHeartbeat

\* SubmitJob records the job: what has become of its master is known.
LEMMA RecordedWait ==
  ASSUME TablesInv, EventsInv, WaitInv, NEW j \in WorkerID, SubmitDispatched(j)
  PROVE  WaitInv'
  <1> USE DEF WaitInv
  <1>1. /\ Up /\ submitPC[j] = "created" /\ submitPC' = [submitPC EXCEPT ![j] = "done"]
        /\ waitAckJobs' = waitAckJobs \cup {j} /\ addFromFailover' = addFromFailover \ {j}
        /\ UNCHANGED <<pendingJobs, onlineJobs, mainPC, offlineArg, toVisit, workerEntries,
                       entryState, finished, expired, handling, eventQueue, errs, cpc>>
    BY Zenon DEF SubmitDispatched, managerVars, mainVars, workerVars
  <1>2. submitPC'[j] = "done" /\ \A k \in WorkerID \ {j} : submitPC'[k] = submitPC[k]
    BY <1>1, Zenon DEF TablesInv, TableTypes
  <1>3. Pending' = Pending
    BY <1>1, Zenon DEF Pending
  <1>4. /\ \A w : IsTombstone(w)' <=> IsTombstone(w)
        /\ \A w : Moving(w)' <=> Moving(w)
        /\ \A w : OnlinePending(w)' <=> OnlinePending(w)
        /\ Up' <=> Up
    BY <1>1, <1>3, Zenon DEF IsTombstone, Moving, OnlinePending, Up
  <1>5. PICK e \in Entry : OnlyMaster(j, e) /\ Dispatched(j, e)
    BY <1>1, Zenon DEF SubmittedInv
  <1>6. e # NoEntry
    OBVIOUS
  <1>7. ArgInv'
    <2>1. mainPC \in {"clean", "offline"} => offlineArg[1].worker \in WorkerID
      BY Zenon DEF EventsInv, EndedInv
    <2>2. \A k \in WorkerID : submitPC[k] \notin {"new", "stored"} => submitPC'[k] \notin {"new", "stored"}
      BY <1>2, Zenon
    <2> QED
      BY <1>1, <2>1, <2>2, Zenon DEF ArgInv
  <1>8. TombstoneInv'
    <2>1. ASSUME NEW w \in WorkerID, Recovered(w) PROVE Recovered(w)'
      <3>1. w # j
        BY <1>1, <2>1, Zenon DEF Recovered, Submitting
      <3> QED
        BY <1>1, <1>2, <1>3, <1>4, <2>1, <3>1, Zenon DEF Recovered
    <2> QED
      BY <1>1, <1>4, <2>1, Zenon DEF TombstoneInv
  <1>9. VisitInv'
    BY <1>1, <1>4, Zenon DEF VisitInv
  <1>10. OnlineInv'
    <2>1. OnlinePending(j) => workerEntries[j] # NoEntry
      <3> SUFFICES ASSUME OnlinePending(j) PROVE workerEntries[j] # NoEntry
        BY Zenon
      <3>1. PICK g \in Entry : /\ IdOf[g] = j /\ entryState[g] \in {"Normal", "Offline"}
                               /\ cpc[g] \notin {"idle", "dispatching"}
        BY OnlineEntry, ZenonT(40)
      <3>2. g = e
        BY <1>5, <3>1, Zenon DEF OnlyMaster
      <3>3. Reported(j, e)
        BY <1>5, <3>1, <3>2, Zenon DEF Dispatched, Unknown, Silent, Unreported
      <3> QED
        BY <1>6, <3>3, Zenon DEF Reported
    <2> QED
      BY <1>1, <1>2, <1>4, <2>1, Zenon DEF OnlineInv
  <1>11. SubmittedInv'
    <2> SUFFICES ASSUME Up', NEW k \in WorkerID, submitPC'[k] = "created"
                 PROVE  \E f \in Entry : OnlyMaster(k, f)' /\ Dispatched(k, f)'
      BY Zenon DEF SubmittedInv
    <2>1. k # j
      BY <1>2, Zenon
    <2>2. PICK f \in Entry : OnlyMaster(k, f) /\ Dispatched(k, f)
      BY <1>1, <1>2, <2>1, Zenon DEF SubmittedInv
    <2>3. OnlyMaster(k, f)' /\ Dispatched(k, f)'
      BY <1>1, <1>3, <1>4, <2>2, DispatchedKept, Zenon
    <2> QED
      BY <2>3, Zenon
  <1>12. OnlineHasEntry'
    BY <1>1, <1>4, Zenon DEF OnlineHasEntry
  <1>13. WaitHasCause'
    <2> SUFFICES ASSUME Up', NEW k \in waitAckJobs' \ addFromFailover' PROVE HasCause(k)'
      BY Zenon DEF WaitHasCause, HasCause
    <2>1. HasCause(k)' <=> HasCause(k)
      BY <1>1, <1>3, Zenon DEF HasCause
    <2>2. CASE k = j
      <3>1. IdOf[e] = j
        BY <1>5, Zenon DEF OnlyMaster
      <3>2. Unknown(j, e) => HasCause(j)
        BY <3>1, Zenon DEF Unknown, HasCause
      <3>3. Silent(j, e) \/ Reported(j, e) \/ Unreported(j, e) => HasCause(j)
        BY <1>6, Zenon DEF Silent, Reported, Unreported, HasCause
      <3> QED
        BY <1>5, <2>1, <2>2, <3>2, <3>3, Zenon DEF Dispatched
    <2>3. CASE k # j
      BY <1>1, <2>1, <2>3, Zenon DEF WaitHasCause, HasCause
    <2> QED
      BY <2>2, <2>3, Zenon
  <1> QED
    BY <1>7, <1>8, <1>9, <1>10, <1>11, <1>12, <1>13, Zenon
==============================================================================
