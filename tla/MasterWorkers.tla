--------------------------- MODULE MasterWorkers ---------------------------
(***************************************************************************)
(* A master and its workers: DefaultBaseMaster (lib/master.go), its        *)
(* WorkerManager, and one DefaultBaseWorker (lib/worker.go) per call of    *)
(* CreateWorker, on an unreliable network, with crashes of workers and     *)
(* failover of the master.                                                 *)
(*                                                                         *)
(* A call of CreateWorker is named by the entry it would create.  Worker   *)
(* IDs are fresh: prepareWorkerConfig draws a UUID for every worker that   *)
(* is not a job master, so each ID is used by one call.  Of the two-phase  *)
(* dispatch the goroutine of CreateWorker sees DispatchContract, which     *)
(* TaskDispatch is proved to implement.                                    *)
(***************************************************************************)
EXTENDS WorkerManager

CONSTANT MaxEpoch   \* bounds the number of failovers

ASSUME FreshAssumption ==
  /\ \A e, f \in Entry : IdOf[e] = IdOf[f] => e = f
  /\ \A w \in WorkerID : \E e \in Entry : IdOf[e] = w
  /\ MaxEpoch \in Nat \ {0}

VARIABLES
  cpc,         \* where the goroutine of each CreateWorker call is
  life,        \* the worker itself
  workerEpoch, \* masterClient.masterEpoch of each worker
  pings,       \* heartbeats sent so far; each may arrive late, twice or never
  statusMsgs,  \* status messages in flight, in order
  workerMeta,  \* the worker table of the metastore, "none" where there is no row
  workerStatus,\* the WorkerStatus object each worker owns
  lastStatus   \* the object Writer.lastStatus points at, named by its owner

workerVars == <<cpc, life, workerEpoch, pings, statusMsgs, workerMeta,
                workerStatus, lastStatus>>
metaVars == <<workerMeta, workerStatus, lastStatus>>
vars == <<managerVars, workerVars>>

CreateStates == {"idle", "scheduling", "dispatching", "confirming",
                 "dispatched", "failed", "lost"}
\* "launched": Init is running, heartbeats have started, nothing is persisted.
\* "exiting": Exit has returned, heartbeats may say IsFinished.
LifeStates == {"none", "launched", "running", "exiting", "dead"}
Alive(e) == life[e] \in {"launched", "running", "exiting"}

\* HeartbeatPingMessage and WorkerStatusMessage.
Ping == [from : Entry, epoch : Nat, fin : BOOLEAN]
StatusMsg == [epoch : Nat, code : StatusCodes]

WorkersTypeOK ==
  /\ cpc \in [Entry -> CreateStates]
  /\ life \in [Entry -> LifeStates]
  /\ workerEpoch \in [Entry -> Nat]
  /\ pings \subseteq Ping
  /\ statusMsgs \in [Entry -> Seq(StatusMsg)]
  /\ workerMeta \in [WorkerID -> {"none"} \cup StatusCodes]
  /\ workerStatus \in [Entry -> {"none"} \cup StatusCodes]
  /\ lastStatus \in [Entry -> Entry \cup {NoEntry}]

TypeOK == ManagerTypeOK /\ WorkersTypeOK

Init ==
  /\ ManagerInit
  /\ cpc = [e \in Entry |-> "idle"]
  /\ life = [e \in Entry |-> "none"]
  /\ workerEpoch = [e \in Entry |-> 0]
  /\ pings = {}
  /\ statusMsgs = [e \in Entry |-> <<>>]
  /\ workerMeta = [w \in WorkerID |-> "none"]
  /\ workerStatus = [e \in Entry |-> "none"]
  /\ lastStatus = [e \in Entry |-> NoEntry]

-----------------------------------------------------------------------------
(* CreateWorker and the goroutine it starts.                               *)

\* DispatchTask, and the executor as far as it answers it.
Dispatching == INSTANCE DispatchContract WITH
  Call <- Entry, call <- cpc, launched <- {e \in Entry : life[e] # "none"}

CreateWorker(e) ==
  /\ wmState = "Ready" /\ cpc[e] = "idle"
  /\ cpc' = [cpc EXCEPT ![e] = "scheduling"]
  /\ told' = [told EXCEPT ![IdOf[e]] = "creating"]
  /\ UNCHANGED <<wmState, epoch, workerEntries, entryState, finished, expired,
                 status, eventQueue, ticking, handling, sweep, readyClosed,
                 errs, panicked, life, workerEpoch, pings, statusMsgs,
                 metaVars>>

\* ScheduleTask or AddExecutor fails.
ScheduleFailed(e) ==
  /\ cpc[e] = "scheduling"
  /\ cpc' = [cpc EXCEPT ![e] = "failed"]
  /\ AbortCreatingWorker(IdOf[e])
  /\ UNCHANGED <<life, workerEpoch, pings, statusMsgs, metaVars>>

ScheduleDone(e) ==
  /\ cpc[e] = "scheduling"
  /\ cpc' = [cpc EXCEPT ![e] = "dispatching"]
  /\ UNCHANGED <<managerVars, life, workerEpoch, pings, statusMsgs, metaVars>>

\* DispatchTask fails in its first phase: it returns the error and calls
\* neither callback, and CreateWorker only logs.
PreDispatchFailed(e) ==
  /\ UNCHANGED <<managerVars, life, workerEpoch, pings, statusMsgs, metaVars>>
  /\ Dispatching!PreDispatchFails(e)

StartTimer(e) ==
  /\ UNCHANGED <<life, workerEpoch, pings, statusMsgs, metaVars>>
  /\ Dispatching!TimerStarts(e)
  /\ BeforeStartingWorker(e)

ConfirmAborted(e) ==
  /\ UNCHANGED <<life, workerEpoch, pings, statusMsgs, metaVars>>
  /\ Dispatching!Aborts(e)
  /\ AbortCreatingWorker(IdOf[e])

\* Mutant: an undetermined confirmation is taken for a failure.
ConfirmReturned_Aborts(e) ==
  /\ UNCHANGED <<life, workerEpoch, pings, statusMsgs, metaVars>>
  /\ Dispatching!Returns(e)
  /\ AbortCreatingWorker(IdOf[e])

\* DispatchTask returns nil: launched, or not known.
ConfirmReturned(e) ==
  /\ UNCHANGED <<managerVars, life, workerEpoch, pings, statusMsgs, metaVars>>
  /\ Dispatching!Returns(e)

Creation(e) ==
  \/ CreateWorker(e) \/ ScheduleFailed(e) \/ ScheduleDone(e)
  \/ PreDispatchFailed(e) \/ StartTimer(e) \/ ConfirmAborted(e)
  \/ ConfirmReturned(e)

-----------------------------------------------------------------------------
(* The workers.                                                            *)

\* The executor launches the worker; doPreInit reads the master's epoch from
\* the metastore and the heartbeat goroutine starts.
Launch(e) ==
  /\ life' = [life EXCEPT ![e] = "launched"]
  /\ workerEpoch' = [workerEpoch EXCEPT ![e] = epoch]
  /\ UNCHANGED <<managerVars, cpc, pings, statusMsgs, metaVars>>
  /\ Dispatching!Launches(e)

\* Writer.UpdateStatus, called with w.workerStatus after its fields have been
\* set to s; meta is the table at that moment.  The row is written when the
\* status differs from *lastStatus; UpdateWorker touches an existing row only.
UpdateStatus(e, s, meta) ==
  LET HasSignificantChange ==
        \/ lastStatus[e] = NoEntry
        \/ workerStatus'[e] # workerStatus'[lastStatus[e]]
  IN  /\ workerStatus' = [workerStatus EXCEPT ![e] = s]
      /\ workerMeta' = IF HasSignificantChange /\ meta[IdOf[e]] # "none"
                       THEN [meta EXCEPT ![IdOf[e]] = s] ELSE meta
      /\ lastStatus' = [lastStatus EXCEPT ![e] = e]
      /\ statusMsgs' = [statusMsgs EXCEPT ![e] =
                          Append(@, [epoch |-> workerEpoch[e], code |-> s])]

\* doPostInit: the row is inserted, then status Init stored and sent.
PostInit(e) ==
  /\ life[e] = "launched"
  /\ life' = [life EXCEPT ![e] = "running"]
  /\ UpdateStatus(e, "Init", [workerMeta EXCEPT ![IdOf[e]] = "Created"])
  /\ UNCHANGED <<managerVars, cpc, workerEpoch, pings>>

\* Exit with a final status.
WorkerExit(e, s) ==
  /\ life[e] = "running"
  /\ life' = [life EXCEPT ![e] = "exiting"]
  /\ UpdateStatus(e, s, workerMeta)
  /\ UNCHANGED <<managerVars, cpc, workerEpoch, pings>>

\* SendHeartBeat; IsFinished once the exit controller is in half exit.
SendHeartBeat(e, isFinished) ==
  /\ Alive(e)
  /\ isFinished => life[e] = "exiting"
  /\ pings' = pings \cup
       {[from |-> e, epoch |-> workerEpoch[e], fin |-> isFinished]}
  /\ UNCHANGED <<managerVars, cpc, life, workerEpoch, statusMsgs, metaVars>>

\* RefreshMasterInfo, or a pong of a newer master.
RefreshMasterInfo(e) ==
  /\ Alive(e) /\ workerEpoch[e] < epoch
  /\ workerEpoch' = [workerEpoch EXCEPT ![e] = epoch]
  /\ UNCHANGED <<managerVars, cpc, life, pings, statusMsgs, metaVars>>

\* The worker stops: its exit is acknowledged, its watchdog kills it, or its
\* executor crashes.
WorkerStops(e) ==
  /\ Alive(e)
  /\ life' = [life EXCEPT ![e] = "dead"]
  /\ UNCHANGED <<managerVars, cpc, workerEpoch, pings, statusMsgs, metaVars>>

WorkerStep(e) ==
  \/ Launch(e) \/ PostInit(e) \/ RefreshMasterInfo(e) \/ WorkerStops(e)
  \/ \E s \in {"Error", "Finished", "Stopped"} : WorkerExit(e, s)
  \/ \E f \in BOOLEAN : SendHeartBeat(e, f)

-----------------------------------------------------------------------------
(* The network and the clock.                                              *)

DeliverPing(m) ==
  /\ m \in pings
  /\ HandleHeartbeat(IdOf[m.from], m.epoch, m.fin)
  /\ UNCHANGED workerVars

DeliverStatus(e) ==
  /\ statusMsgs[e] # <<>>
  /\ statusMsgs' = [statusMsgs EXCEPT ![e] = Tail(@)]
  /\ LET m == Head(statusMsgs[e])
     IN  OnWorkerStatusUpdateMessage(IdOf[e], m.epoch, m.code)
  /\ UNCHANGED <<cpc, life, workerEpoch, pings, metaVars>>

\* The message of another master's epoch.
RefusePing(m) ==
  /\ m \in pings
  /\ wmState # "LoadingMeta"
  /\ EpochMismatch(m.epoch)
  /\ UNCHANGED workerVars

RefuseStatus(e) ==
  /\ statusMsgs[e] # <<>>
  /\ statusMsgs' = [statusMsgs EXCEPT ![e] = Tail(@)]
  /\ EpochMismatch(Head(statusMsgs[e]).epoch)
  /\ UNCHANGED <<cpc, life, workerEpoch, pings, metaVars>>

\* Lost on the way, or dropped because the worker is not in the map.
LoseStatus(e) ==
  /\ statusMsgs[e] # <<>>
  /\ statusMsgs' = [statusMsgs EXCEPT ![e] = Tail(@)]
  /\ UNCHANGED <<managerVars, cpc, life, workerEpoch, pings, metaVars>>

\* An entry's first lease (20s) outlasts the dispatch that created it
\* (createWorkerTimeout, 10s).
Expire(e) ==
  /\ cpc[e] # "confirming"
  /\ LeaseExpires(e)
  /\ UNCHANGED workerVars

-----------------------------------------------------------------------------
(* The master.                                                             *)

\* The metadata is removed, then the entry.
CleanTombstone(w) ==
  /\ told[w] \in {"gone", "failed"}
  /\ workerEntries[w] # NoEntry \/ workerMeta[w] # "none"
  /\ workerMeta' = [workerMeta EXCEPT ![w] = "none"]
  /\ removeTombstoneEntry(w)
  /\ UNCHANGED <<cpc, life, workerEpoch, pings, statusMsgs, workerStatus,
                 lastStatus>>

\* The master is lost with its goroutines and a new one starts: it stores the
\* next epoch and constructs its manager.  A request that was being confirmed
\* may still reach the executor.
Failover ==
  /\ epoch < MaxEpoch
  /\ epoch' = epoch + 1
  /\ NewManager("LoadingMeta")
  /\ cpc' = [e \in Entry |->
       CASE cpc[e] \in {"scheduling", "dispatching"} -> "failed"
         [] cpc[e] = "confirming" -> "lost"
         [] OTHER -> cpc[e]]
  /\ UNCHANGED <<life, workerEpoch, pings, statusMsgs, metaVars>>

Checker == (SweepBegin \/ \E e \in Entry : SweepVisit(e)) /\ UNCHANGED workerVars
TickStep == (TickBegin \/ TickReceive \/ TickReturn \/ TickFails \/ TickHandle)
              /\ UNCHANGED workerVars
Recovery == (InitAfterRecoverLoad(workerMeta) \/ InitAfterRecoverFinish)
              /\ UNCHANGED workerVars

Next ==
  \/ \E e \in Entry : Creation(e) \/ WorkerStep(e) \/ DeliverStatus(e)
                        \/ RefuseStatus(e) \/ LoseStatus(e) \/ Expire(e)
  \/ \E m \in pings : DeliverPing(m) \/ RefusePing(m)
  \/ \E w \in WorkerID : CleanTombstone(w)
  \/ Checker \/ TickStep \/ Recovery \/ Failover

\* The checker ticks every second, the master polls until it fails and Tick
\* takes events until it fails or the queue is empty; leases expire,
\* DispatchTask has a timeout, and InitAfterRecover waits no longer than its
\* timer.
Fairness ==
  /\ WF_vars(TickBegin /\ UNCHANGED workerVars)
  /\ WF_vars(TickReceive /\ UNCHANGED workerVars)
  /\ WF_vars(TickHandle /\ UNCHANGED workerVars)
  /\ WF_vars(Checker)
  /\ WF_vars(Recovery)
  /\ \A e \in Entry : WF_vars(Expire(e)) /\ WF_vars(ConfirmReturned(e))

Spec == Init /\ [][Next]_vars /\ Fairness

-----------------------------------------------------------------------------
(* Properties.                                                             *)

\* A worker the manager counts as running has adopted the epoch of this very
\* master: heartbeats addressed to an earlier one discover nobody.
RunningIsCurrent ==
  \A e \in Entry :
    InEntries(e) /\ entryState[e] = "Normal" => workerEpoch[e] = epoch

\* allWorkersReady "is **closed** when a heartbeat has been received from all
\* workers recorded in meta": no earlier, and no later.
ReleasedWhenDiscovered ==
  wmState = "WaitingHeartbeat" =>
    (readyClosed <=> \A e \in Entry : InEntries(e) => entryState[e] # "Wait")

\* No entry is stuck: one that waits for its first heartbeat, or is offline
\* and not yet reported, leaves that state, unless the master is going down
\* with an error.
NoStuckEntry ==
  \A e \in Entry :
    (InEntries(e) /\ entryState[e] \in {"Wait", "Created", "Offline"}) ~>
      (\/ ~InEntries(e) \/ errs # {}
       \/ entryState[e] \notin {"Wait", "Created", "Offline"})

\* The process of a worker, as WorkerCallbacks sees it.
ProcessOf(e) ==
  CASE life[e] \in {"launched", "running"} -> "up"
    [] life[e] \in {"exiting", "dead"}     -> "down"
    [] OTHER -> CASE cpc[e] = "idle"   -> "none"
                  [] cpc[e] = "failed" -> "never"
                  [] OTHER             -> "pending"

EntryOf(w) == CHOOSE e \in Entry : IdOf[e] = w
Process == [w \in WorkerID |-> ProcessOf(EntryOf(w))]

Callbacks == INSTANCE WorkerCallbacks WITH
  Worker <- WorkerID, known <- told, proc <- Process

\* The master and its workers implement WorkerCallbacks: a worker is reported
\* online only while it is being created and after it has run, as failed only
\* if it has not run and never will, and offline once; after a failover the
\* implementation starts from nothing and is told who answered and who is gone.
CallbacksKept == Callbacks!CallbacksSpec

\* "If UpdateStatus returns without an error, then the status must have been
\* persisted" (lib/worker.go): a worker that has exited left its final status
\* in its row, for the master that recovers from it.
StatusPersisted ==
  \A e \in Entry :
    life[e] = "exiting" /\ workerMeta[IdOf[e]] # "none" =>
      workerMeta[IdOf[e]] = workerStatus[e]
=============================================================================
