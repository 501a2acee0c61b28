------------------------- MODULE WorkerSteps_proofs --------------------------
(***************************************************************************)
(* The inductive invariant of a master and its workers (MasterWorkers), and*)
(* what keeps it: the steps of workers and of the goroutines that create   *)
(* them, heartbeats, lease expiry, the checker and the start of Tick.      *)
(***************************************************************************)
EXTENDS MasterWorkers, TLAPS

-----------------------------------------------------------------------------
(* The inductive invariant.                                                *)

\* The event in hand, if any, and the queue behind it, as one sequence.
Waiting == handling \o eventQueue

\* A goroutine that has not got as far as BeforeStartingWorker has left no
\* trace in the manager, and one whose dispatch is being confirmed has an entry
\* that nothing but the worker's own heartbeat can move.
CreateInv(e) ==
  /\ cpc[e] \in {"idle", "scheduling", "dispatching"} =>
       workerEntries[IdOf[e]] = NoEntry /\ entryState[e] = "Unused" /\ e \notin expired
  /\ cpc[e] \in {"idle", "scheduling", "dispatching", "failed"} => life[e] = "none"
  /\ cpc[e] = "idle" => told[IdOf[e]] = "unknown"
  /\ cpc[e] \in {"scheduling", "dispatching"} => told[IdOf[e]] = "creating"
  /\ cpc[e] \in {"scheduling", "dispatching", "confirming"} => wmState = "Ready"
  /\ cpc[e] = "confirming" /\ life[e] = "none" =>
       /\ InEntries(e) /\ entryState[e] = "Created"
       /\ e \notin expired /\ e \notin finished

\* What an entry of the map says of the manager and of what was told.
EntryInv(e) ==
  InEntries(e) =>
    /\ entryState[e] # "Unused"
    /\ entryState[e] = "Created" => wmState = "Ready" /\ told[IdOf[e]] = "creating"
    /\ entryState[e] = "Wait" => wmState = "WaitingHeartbeat"
    /\ entryState[e] = "Normal" /\ wmState = "Ready" =>
         told[IdOf[e]] \in {"creating", "online"}
    /\ wmState = "WaitingHeartbeat" =>
         entryState[e] \in {"Wait", "Normal"} /\ life[e] # "none"

\* A worker that was never launched has sent nothing, stored nothing and is not
\* known to have finished; heartbeats never carry an epoch that their sender
\* has not adopted.
WorkerInv(e) ==
  /\ workerEpoch[e] <= epoch
  /\ life[e] = "none" => /\ Len(statusMsgs[e]) = 0
                         /\ workerMeta[IdOf[e]] = "none"
                         /\ e \notin finished

PingInv == \A m \in pings : life[m.from] # "none" /\ m.epoch <= workerEpoch[m.from]

\* A manager that has not recovered yet has told nobody anything.
RecoveryInv ==
  /\ wmState # "Ready" => /\ ~ticking /\ handling = <<>> /\ sweep = {}
                          /\ \A w \in WorkerID : told[w] = "unknown"
  /\ wmState = "LoadingMeta" => /\ eventQueue = <<>> /\ ~readyClosed
                                /\ \A w \in WorkerID : workerEntries[w] = NoEntry
                                /\ \A e \in Entry : entryState[e] = "Unused"

\* The entries that a sweep has still to visit are as SweepBegin found them.
SweepInv ==
  \A e \in sweep : /\ InEntries(e) /\ entryState[e] \in {"Created", "Normal"}
                   /\ e \in expired \/ e \in finished

MapInv ==
  \A w \in WorkerID :
    /\ workerEntries[w] # NoEntry => IdOf[workerEntries[w]] = w
    /\ told[w] = "failed" => workerEntries[w] = NoEntry

\* What an event that waits says of the entry it is about.
EventOK(ev) ==
  \/ /\ ev.tp = "failed"
     /\ told[ev.worker] = "creating"
     /\ \E e \in Entry : IdOf[e] = ev.worker /\ cpc[e] = "failed"
  \/ /\ ev.tp # "failed"
     /\ ev.entry \in Entry /\ ev.worker = IdOf[ev.entry]
     /\ ev.tp = "online" =>
          /\ InEntries(ev.entry) /\ entryState[ev.entry] \in {"Normal", "Offline"}
          /\ told[ev.worker] = "creating" /\ life[ev.entry] # "none"
     /\ ev.tp = "offline" =>
          /\ entryState[ev.entry] = "Offline"
          /\ told[ev.worker] \in {"creating", "online", "failed"}
     /\ ev.tp = "status" =>
          /\ life[ev.entry] # "none" /\ ev.arg \in StatusCodes
          /\ InEntries(ev.entry) \/ entryState[ev.entry] = "Tombstone"

\* a may be in the queue before b: status updates aside there is one event of
\* each kind about a worker, and no other one after it was reported offline.
MayPrecede(a, b) ==
  a.worker = b.worker =>
    /\ a.tp = b.tp => a.tp = "status"
    /\ a.tp = "offline" => b.tp \notin {"online", "failed"}

QueueInv ==
  /\ \A i \in 1 .. Len(Waiting) : EventOK(Waiting[i])
  /\ \A i, j \in 1 .. Len(Waiting) : i < j => MayPrecede(Waiting[i], Waiting[j])

ManagerInv ==
  /\ RecoveryInv /\ SweepInv /\ MapInv
  /\ NoPanic /\ BeliefMatches /\ ReleasedWhenDiscovered

LocalInv == \A e \in Entry : CreateInv(e) /\ EntryInv(e) /\ WorkerInv(e)

MasterInv ==
  /\ ManagerTypeOK /\ WorkersTypeOK
  /\ LocalInv /\ PingInv /\ ManagerInv /\ QueueInv /\ RunningIsCurrent

-----------------------------------------------------------------------------
(* The queue.                                                              *)

\* Waiting is a sequence of events.
LEMMA WaitingType == ManagerTypeOK => Waiting \in Seq(Event)
  BY DEF ManagerTypeOK, Waiting

\* When no event comes or goes and what the events say stays true, QueueInv does.
LEMMA QueueKept ==
  ASSUME ManagerTypeOK, QueueInv, Waiting' = Waiting,
         \A ev \in Event : EventOK(ev) => EventOK(ev)'
  PROVE  QueueInv'
  <1>1. \A i \in 1 .. Len(Waiting) : Waiting[i] \in Event
    BY WaitingType
  <1>2. \A i \in 1 .. Len(Waiting) : EventOK(Waiting[i])'
    BY <1>1, Zenon DEF QueueInv
  <1> QED
    BY <1>2, Zenon DEF QueueInv

\* enqueueEvent keeps the queue within its capacity.
LEMMA EnqueueTyped ==
  ASSUME ManagerTypeOK, NEW ev \in Event, NEW who \in {"handler", "checker"},
         EnqueueEvent(ev, who)
  PROVE  /\ eventQueue' \in Seq(Event) /\ Len(eventQueue') <= QueueCap
         /\ errs' \subseteq {"handler", "checker", "tick"}
  <1>1. CASE Len(eventQueue) < QueueCap
    <2>1. eventQueue' = Append(eventQueue, ev) /\ errs' = errs
      BY <1>1, Zenon DEF EnqueueEvent
    <2>2. eventQueue \in Seq(Event) /\ errs \subseteq {"handler", "checker", "tick"}
      BY Zenon DEF ManagerTypeOK
    <2> QED
      BY <1>1, <2>1, <2>2, ManagerAssumption
  <1>2. CASE ~(Len(eventQueue) < QueueCap)
    <2>1. eventQueue' = eventQueue /\ errs' = errs \cup {who}
      BY <1>2, Zenon DEF EnqueueEvent
    <2> QED
      BY <2>1, Zenon DEF ManagerTypeOK
  <1> QED
    BY <1>1, <1>2, Zenon

\* An event is appended, or the queue is full and it is not.
LEMMA QueueGrows ==
  ASSUME ManagerTypeOK, QueueInv, NEW ev \in Event, NEW who,
         EnqueueEvent(ev, who), handling' = handling,
         \A old \in Event : EventOK(old) => EventOK(old)',
         EventOK(ev)',
         \A old \in Event : EventOK(old) => MayPrecede(old, ev)
  PROVE  QueueInv'
  <1>1. CASE eventQueue' = eventQueue
    <2>1. Waiting' = Waiting
      BY <1>1, Zenon DEF Waiting
    <2> QED
      BY <2>1, QueueKept, Zenon
  <1>2. CASE eventQueue' = Append(eventQueue, ev)
    <2>1. PICK n \in Nat :
            /\ n = Len(Waiting) /\ Waiting \in Seq(Event)
            /\ \A i \in 1 .. n : Waiting[i] \in Event /\ EventOK(Waiting[i])
      BY WaitingType DEF QueueInv
    <2>2. Waiting' = Append(Waiting, ev)
      BY <1>2 DEF Waiting, ManagerTypeOK
    <2>3. /\ Len(Waiting') = n + 1 /\ Waiting'[n + 1] = ev
          /\ \A i \in 1 .. n : Waiting'[i] = Waiting[i]
      BY <2>1, <2>2
    <2>4. \A i \in 1 .. n + 1 : EventOK(Waiting[i])'
      <3>1. \A i \in 1 .. n : EventOK(Waiting[i])'
        BY <2>1, <2>3, Zenon
      <3>2. EventOK(Waiting[n + 1])'
        BY <2>3, Zenon
      <3> QED
        BY <2>1, <3>1, <3>2
    <2>5. \A i \in 1 .. n : MayPrecede(Waiting'[i], ev)
      BY <2>1, <2>3, Zenon
    <2>6. \A i, j \in 1 .. n + 1 : i < j => MayPrecede(Waiting'[i], Waiting'[j])
      BY <2>1, <2>3, <2>5 DEF QueueInv
    <2> QED
      BY <2>3, <2>4, <2>6, Zenon DEF QueueInv
  <1> QED
    BY <1>1, <1>2, Zenon DEF EnqueueEvent

\* The event in hand is dealt with; the others were allowed to come after it.
LEMMA QueueShrinks ==
  ASSUME ManagerTypeOK, QueueInv, handling # <<>>, handling' = <<>>,
         eventQueue' = eventQueue,
         \A ev \in Event : EventOK(ev) /\ MayPrecede(handling[1], ev) => EventOK(ev)'
  PROVE  QueueInv'
  <1> DEFINE n == Len(eventQueue)
  <1>1. /\ Len(Waiting) = n + 1 /\ Waiting[1] = handling[1] /\ n \in Nat
        /\ \A i \in 1 .. n : Waiting[i + 1] = eventQueue[i] /\ eventQueue[i] \in Event
    BY DEF ManagerTypeOK, Waiting
  <1>2. Waiting' = eventQueue
    BY DEF Waiting, ManagerTypeOK
  <1>3. \A i \in 1 .. n : EventOK(eventQueue[i]) /\ MayPrecede(handling[1], eventQueue[i])
    BY <1>1 DEF QueueInv
  <1>4. \A i \in 1 .. n : EventOK(Waiting[i])'
    BY <1>1, <1>2, <1>3, Zenon
  <1>5. \A i, j \in 1 .. n : i < j => MayPrecede(eventQueue[i], eventQueue[j])
    <2> SUFFICES ASSUME NEW i \in 1 .. n, NEW j \in 1 .. n, i < j
                 PROVE  MayPrecede(eventQueue[i], eventQueue[j])
      BY Zenon
    <2>1. i + 1 \in 1 .. n + 1 /\ j + 1 \in 1 .. n + 1 /\ i + 1 < j + 1
      BY <1>1
    <2> QED
      BY <1>1, <2>1, ZenonT(40) DEF QueueInv
  <1> QED
    BY <1>2, <1>4, <1>5, Zenon DEF QueueInv

\* The event in hand is one of those QueueInv speaks of.
LEMMA InHand ==
  ASSUME ManagerTypeOK, QueueInv, handling # <<>>
  PROVE  handling[1] \in Event /\ EventOK(handling[1])
  <1>1. /\ Len(Waiting) \in Nat /\ 1 <= Len(Waiting) /\ Waiting[1] = handling[1]
        /\ handling[1] \in Event
    BY DEF ManagerTypeOK, Waiting
  <1> QED
    BY <1>1 DEF QueueInv

-----------------------------------------------------------------------------
(* Steps of a worker or of a CreateWorker goroutine that leave the manager  *)
(* as it is.                                                                *)

USE ManagerAssumption, FreshAssumption

\* What a step that leaves the manager alone has to show.
LEMMA ManagerKept ==
  ASSUME MasterInv, UNCHANGED managerVars,
         \A e \in Entry : /\ life[e] # "none" => life'[e] # "none"
                          /\ cpc[e] = "failed" => cpc'[e] = "failed"
  PROVE  ManagerTypeOK' /\ ManagerInv' /\ QueueInv'
  <1>1. ManagerTypeOK'
    BY Zenon DEF MasterInv, ManagerTypeOK, managerVars
  <1>2. ManagerInv'
    BY Zenon DEF MasterInv, ManagerInv, RecoveryInv, SweepInv, MapInv, NoPanic,
           BeliefMatches, ReleasedWhenDiscovered, InEntries, managerVars
  <1>3. \A ev \in Event : EventOK(ev) => EventOK(ev)'
    BY DEF EventOK, InEntries, managerVars
  <1>4. Waiting' = Waiting
    BY Zenon DEF Waiting, managerVars
  <1> QED
    BY <1>1, <1>2, <1>3, <1>4, QueueKept, Zenon DEF MasterInv

\* What such a step says of the entries it is not about.
LEMMA OthersKept ==
  ASSUME MasterInv, UNCHANGED managerVars, NEW f \in Entry,
         cpc'[f] = cpc[f], life'[f] = life[f], workerEpoch'[f] = workerEpoch[f],
         statusMsgs'[f] = statusMsgs[f], workerMeta'[IdOf[f]] = workerMeta[IdOf[f]]
  PROVE  CreateInv(f)' /\ EntryInv(f)' /\ WorkerInv(f)'
  <1>1. CreateInv(f) /\ EntryInv(f) /\ WorkerInv(f)
    BY Zenon DEF MasterInv, LocalInv
  <1>2. CreateInv(f)'
    BY <1>1, Zenon DEF CreateInv, InEntries, managerVars
  <1>3. EntryInv(f)'
    BY <1>1, Zenon DEF EntryInv, InEntries, managerVars
  <1>4. WorkerInv(f)'
    BY <1>1, Zenon DEF WorkerInv, managerVars
  <1> QED
    BY <1>2, <1>3, <1>4, Zenon

Goes(e, from, to) == cpc[e] = from /\ cpc' = [cpc EXCEPT ![e] = to]

\* What the promises of DispatchContract say in terms of the goroutine of
\* CreateWorker and of the worker.
LEMMA DispatchFacts ==
  ASSUME NEW e \in Entry
  PROVE  /\ PreDispatchFailed(e) => Goes(e, "dispatching", "failed")
         /\ StartTimer(e) => Goes(e, "dispatching", "confirming")
         /\ ConfirmAborted(e) => Goes(e, "confirming", "failed") /\ life[e] = "none"
         /\ ConfirmReturned(e) => Goes(e, "confirming", "dispatched")
         /\ Launch(e) => /\ cpc[e] \in {"confirming", "dispatched", "lost"}
                         /\ life[e] = "none"
  <1>1. PreDispatchFailed(e) => Goes(e, "dispatching", "failed")
    BY Zenon DEF PreDispatchFailed, Goes, Dispatching!PreDispatchFails, Dispatching!Move
  <1>2. StartTimer(e) => Goes(e, "dispatching", "confirming")
    BY Zenon DEF StartTimer, Goes, Dispatching!TimerStarts, Dispatching!Move
  <1>3. ConfirmAborted(e) => Goes(e, "confirming", "failed") /\ life[e] = "none"
    BY Zenon DEF ConfirmAborted, Goes, Dispatching!Aborts, Dispatching!Move
  <1>4. ConfirmReturned(e) => Goes(e, "confirming", "dispatched")
    BY Zenon DEF ConfirmReturned, Goes, Dispatching!Returns, Dispatching!Move
  <1>5. Launch(e) => /\ cpc[e] \in {"confirming", "dispatched", "lost"}
                     /\ life[e] = "none"
    BY Zenon DEF Launch, Dispatching!Launches
  <1> QED
    BY <1>1, <1>2, <1>3, <1>4, <1>5, Zenon

\* CreateWorker's goroutine goes on without the manager.
LEMMA GoroutineSteps ==
  ASSUME MasterInv, NEW e \in Entry,
         ScheduleDone(e) \/ PreDispatchFailed(e) \/ ConfirmReturned(e)
  PROVE  MasterInv'
  <1>1. PICK s \in CreateStates :
          /\ cpc' = [cpc EXCEPT ![e] = s]
          /\ \/ cpc[e] = "scheduling" /\ s = "dispatching"
             \/ cpc[e] = "dispatching" /\ s = "failed"
             \/ cpc[e] = "confirming" /\ s = "dispatched"
    BY DispatchFacts, Zenon DEF ScheduleDone, Goes, CreateStates
  <1>2. /\ UNCHANGED <<managerVars, life, workerEpoch, pings, statusMsgs, metaVars>>
        /\ WorkersTypeOK
    BY Zenon DEF ScheduleDone, PreDispatchFailed, ConfirmReturned, MasterInv
  <1>3. /\ cpc'[e] = s
        /\ \A f \in Entry \ {e} : cpc'[f] = cpc[f]
    BY <1>1, <1>2, Zenon DEF WorkersTypeOK
  <1>4. WorkersTypeOK'
    BY <1>1, <1>2, Zenon DEF WorkersTypeOK, metaVars
  <1>5. ManagerTypeOK' /\ ManagerInv' /\ QueueInv'
    BY <1>1, <1>2, <1>3, ManagerKept, Zenon
  <1>6. CreateInv(e)' /\ EntryInv(e)' /\ WorkerInv(e)'
    <2>1. CreateInv(e) /\ EntryInv(e) /\ WorkerInv(e)
      BY Zenon DEF MasterInv, LocalInv
    <2> QED
      BY <1>1, <1>2, <1>3, <2>1, Zenon DEF CreateInv, EntryInv, WorkerInv, InEntries,
           managerVars, metaVars
  <1>7. \A f \in Entry \ {e} : CreateInv(f)' /\ EntryInv(f)' /\ WorkerInv(f)'
    BY <1>2, <1>3, OthersKept, Zenon DEF metaVars
  <1>8. PingInv' /\ RunningIsCurrent'
    BY <1>2, Zenon DEF MasterInv, PingInv, RunningIsCurrent, InEntries, managerVars
  <1> QED
    BY <1>4, <1>5, <1>6, <1>7, <1>8, Zenon DEF MasterInv, LocalInv

\* The executor launches the worker.
LEMMA LaunchStep ==
  ASSUME MasterInv, NEW e \in Entry, Launch(e)
  PROVE  MasterInv'
  <1>0. /\ cpc[e] \in {"confirming", "dispatched", "lost"} /\ life[e] = "none"
        /\ life' = [life EXCEPT ![e] = "launched"]
        /\ workerEpoch' = [workerEpoch EXCEPT ![e] = epoch]
        /\ UNCHANGED <<managerVars, cpc, pings, statusMsgs, metaVars>>
    BY DispatchFacts, Zenon DEF Launch
  <1>1. WorkersTypeOK'
    BY <1>0, Zenon DEF MasterInv, ManagerTypeOK, WorkersTypeOK, LifeStates, metaVars
  <1>2. ManagerTypeOK' /\ ManagerInv' /\ QueueInv'
    BY <1>0, ManagerKept, Zenon DEF MasterInv, WorkersTypeOK
  <1>3. CreateInv(e)' /\ EntryInv(e)' /\ WorkerInv(e)'
    <2>1. CreateInv(e) /\ EntryInv(e) /\ WorkerInv(e)
      BY Zenon DEF MasterInv, LocalInv
    <2> QED
      BY <1>0, <2>1 DEF MasterInv, ManagerTypeOK, WorkersTypeOK, CreateInv, EntryInv,
             WorkerInv,
           InEntries, managerVars, metaVars
  <1>4. \A f \in Entry \ {e} : CreateInv(f)' /\ EntryInv(f)' /\ WorkerInv(f)'
    BY <1>0, OthersKept, Zenon DEF MasterInv, WorkersTypeOK, metaVars
  <1>5. PingInv' /\ RunningIsCurrent'
    BY <1>0 DEF MasterInv, ManagerTypeOK, WorkersTypeOK, PingInv, RunningIsCurrent,
           InEntries,
           managerVars
  <1> QED
    BY <1>1, <1>2, <1>3, <1>4, <1>5, Zenon DEF MasterInv, LocalInv

\* The worker stores and sends a status: the table's row is about itself.
LEMMA StatusTyped ==
  ASSUME WorkersTypeOK, NEW e \in Entry, NEW s \in StatusCodes,
         NEW meta \in [WorkerID -> {"none"} \cup StatusCodes], UpdateStatus(e, s, meta)
  PROVE  /\ statusMsgs' \in [Entry -> Seq(StatusMsg)]
         /\ workerMeta' \in [WorkerID -> {"none"} \cup StatusCodes]
         /\ workerStatus' \in [Entry -> {"none"} \cup StatusCodes]
         /\ lastStatus' \in [Entry -> Entry \cup {NoEntry}]
         /\ \A f \in Entry \ {e} : /\ statusMsgs'[f] = statusMsgs[f]
                                   /\ workerMeta'[IdOf[f]] = meta[IdOf[f]]
  <1>1. workerMeta' = meta \/ workerMeta' = [meta EXCEPT ![IdOf[e]] = s]
    BY Zenon DEF UpdateStatus
  <1>2. [epoch |-> workerEpoch[e], code |-> s] \in StatusMsg
    BY Zenon DEF WorkersTypeOK, StatusMsg
  <1>3. /\ Append(statusMsgs[e], [epoch |-> workerEpoch[e], code |-> s])
             \in Seq(StatusMsg)
        /\ statusMsgs' = [statusMsgs EXCEPT ![e] =
             Append(statusMsgs[e], [epoch |-> workerEpoch[e], code |-> s])]
    BY <1>2 DEF WorkersTypeOK, UpdateStatus
  <1>4. /\ statusMsgs' \in [Entry -> Seq(StatusMsg)]
        /\ \A f \in Entry \ {e} : statusMsgs'[f] = statusMsgs[f]
    BY <1>3, Zenon DEF WorkersTypeOK
  <1>5. /\ workerMeta' \in [WorkerID -> {"none"} \cup StatusCodes]
        /\ \A f \in Entry \ {e} : workerMeta'[IdOf[f]] = meta[IdOf[f]]
    BY <1>1
  <1>6. /\ workerStatus' \in [Entry -> {"none"} \cup StatusCodes]
        /\ lastStatus' \in [Entry -> Entry \cup {NoEntry}]
    BY Zenon DEF WorkersTypeOK, UpdateStatus
  <1> QED
    BY <1>4, <1>5, <1>6, Zenon

\* doPostInit and Exit.
LEMMA StatusSteps ==
  ASSUME MasterInv, NEW e \in Entry,
         PostInit(e) \/ \E s \in {"Error", "Finished", "Stopped"} : WorkerExit(e, s)
  PROVE  MasterInv'
  <1> DEFINE inserted == [workerMeta EXCEPT ![IdOf[e]] = "Created"]
  <1>1. PICK s \in StatusCodes, meta \in {workerMeta, inserted}, l \in LifeStates \ {"none"} :
          /\ life[e] # "none" /\ life' = [life EXCEPT ![e] = l]
          /\ UpdateStatus(e, s, meta)
          /\ UNCHANGED <<managerVars, cpc, workerEpoch, pings>>
    <2>1. CASE PostInit(e)
      BY <2>1, Zenon DEF PostInit, StatusCodes, LifeStates
    <2>2. ASSUME NEW s \in {"Error", "Finished", "Stopped"}, WorkerExit(e, s)
          PROVE  /\ s \in StatusCodes
                 /\ life[e] # "none" /\ life' = [life EXCEPT ![e] = "exiting"]
                 /\ UpdateStatus(e, s, workerMeta)
                 /\ UNCHANGED <<managerVars, cpc, workerEpoch, pings>>
      BY <2>2, Zenon DEF WorkerExit, StatusCodes
    <2>3. "exiting" \in LifeStates \ {"none"}
      BY Zenon DEF LifeStates
    <2> QED
      BY <2>1, <2>2, <2>3, ZenonT(40)
  <1>2. WorkersTypeOK
    BY Zenon DEF MasterInv
  <1>3. /\ meta \in [WorkerID -> {"none"} \cup StatusCodes]
        /\ \A f \in Entry \ {e} : meta[IdOf[f]] = workerMeta[IdOf[f]]
    <2>1. "Created" \in StatusCodes /\ workerMeta \in [WorkerID -> {"none"} \cup StatusCodes]
      BY <1>2, Zenon DEF StatusCodes, WorkersTypeOK
    <2>2. CASE meta = workerMeta
      BY <2>1, <2>2, Zenon
    <2>3. CASE meta = inserted
      BY <2>1, <2>3, Zenon
    <2> QED
      BY <2>2, <2>3, Zenon
  <1>4. /\ statusMsgs' \in [Entry -> Seq(StatusMsg)]
        /\ workerMeta' \in [WorkerID -> {"none"} \cup StatusCodes]
        /\ workerStatus' \in [Entry -> {"none"} \cup StatusCodes]
        /\ lastStatus' \in [Entry -> Entry \cup {NoEntry}]
        /\ \A f \in Entry \ {e} : /\ statusMsgs'[f] = statusMsgs[f]
                                  /\ workerMeta'[IdOf[f]] = meta[IdOf[f]]
    BY <1>1, <1>2, <1>3, StatusTyped
  <1>5. WorkersTypeOK'
    BY <1>1, <1>2, <1>4, Zenon DEF WorkersTypeOK
  <1>6. /\ life'[e] # "none"
        /\ \A f \in Entry \ {e} : life'[f] = life[f]
    BY <1>1, <1>2, Zenon DEF WorkersTypeOK
  <1>7. ManagerTypeOK' /\ ManagerInv' /\ QueueInv'
    BY <1>1, <1>6, ManagerKept, Zenon
  <1>8. CreateInv(e)' /\ EntryInv(e)' /\ WorkerInv(e)'
    <2>1. CreateInv(e) /\ EntryInv(e) /\ WorkerInv(e)
      BY Zenon DEF MasterInv, LocalInv
    <2> QED
      BY <1>1, <1>6, <2>1, Zenon DEF CreateInv, EntryInv, WorkerInv, InEntries,
             managerVars
  <1>9. \A f \in Entry \ {e} : CreateInv(f)' /\ EntryInv(f)' /\ WorkerInv(f)'
    BY <1>1, <1>3, <1>4, <1>6, OthersKept, SMTT(40)
  <1>10. PingInv' /\ RunningIsCurrent'
    BY <1>1, <1>2, <1>6 DEF MasterInv, WorkersTypeOK, PingInv, RunningIsCurrent,
           InEntries,
           managerVars
  <1> QED
    BY <1>5, <1>7, <1>8, <1>9, <1>10 DEF MasterInv, LocalInv

\* SendHeartBeat.
LEMMA SendStep ==
  ASSUME MasterInv, NEW e \in Entry, NEW f \in BOOLEAN, SendHeartBeat(e, f)
  PROVE  MasterInv'
  <1> DEFINE m == [from |-> e, epoch |-> workerEpoch[e], fin |-> f]
  <1>1. /\ UNCHANGED <<managerVars, cpc, life, workerEpoch, statusMsgs, metaVars>>
        /\ life[e] # "none" /\ pings' = pings \cup {m}
    BY Zenon DEF SendHeartBeat, Alive
  <1>2. m \in Ping /\ WorkersTypeOK
    BY Zenon DEF MasterInv, WorkersTypeOK, Ping
  <1>3. WorkersTypeOK'
    <2>1. pings' \subseteq Ping
      BY <1>1, <1>2, Zenon DEF WorkersTypeOK
    <2> QED
      BY <1>1, <1>2, <2>1, Zenon DEF WorkersTypeOK, metaVars
  <1>4. ManagerTypeOK' /\ ManagerInv' /\ QueueInv'
    BY <1>1, ManagerKept, Zenon
  <1>5. LocalInv'
    BY <1>1, OthersKept, Zenon DEF LocalInv, metaVars
  <1>6. PingInv'
    <2>1. m.from = e /\ m.epoch = workerEpoch[e] /\ workerEpoch[e] \in Nat
      BY <1>2, Zenon DEF WorkersTypeOK
    <2> QED
      BY <1>1, <2>1 DEF MasterInv, PingInv
  <1>7. RunningIsCurrent'
    BY <1>1, Zenon DEF MasterInv, RunningIsCurrent, InEntries, managerVars
  <1> QED
    BY <1>3, <1>4, <1>5, <1>6, <1>7, Zenon DEF MasterInv

\* RefreshMasterInfo.
LEMMA RefreshStep ==
  ASSUME MasterInv, NEW e \in Entry, RefreshMasterInfo(e)
  PROVE  MasterInv'
  <1>1. /\ UNCHANGED <<managerVars, cpc, life, pings, statusMsgs, metaVars>>
        /\ workerEpoch' = [workerEpoch EXCEPT ![e] = epoch]
        /\ WorkersTypeOK /\ epoch \in Nat /\ workerEpoch[e] <= epoch
    BY Zenon DEF RefreshMasterInfo, MasterInv, ManagerTypeOK, LocalInv, WorkerInv
  <1>2. WorkersTypeOK'
    BY <1>1, Zenon DEF WorkersTypeOK, metaVars
  <1>3. ManagerTypeOK' /\ ManagerInv' /\ QueueInv'
    BY <1>1, ManagerKept, Zenon
  <1>4. CreateInv(e)' /\ EntryInv(e)' /\ WorkerInv(e)'
    <2>1. CreateInv(e) /\ EntryInv(e) /\ WorkerInv(e)
      BY Zenon DEF MasterInv, LocalInv
    <2> QED
      BY <1>1, <2>1 DEF WorkersTypeOK, CreateInv, EntryInv, WorkerInv, InEntries,
           managerVars, metaVars
  <1>5. \A f \in Entry \ {e} : CreateInv(f)' /\ EntryInv(f)' /\ WorkerInv(f)'
    BY <1>1, OthersKept, Zenon DEF WorkersTypeOK, metaVars
  <1>6. PingInv'
    <2> SUFFICES ASSUME NEW m \in pings
                 PROVE  life'[m.from] # "none" /\ m.epoch <= workerEpoch'[m.from]
      BY <1>1, Zenon DEF PingInv
    <2>1. /\ m.from \in Entry /\ m.epoch \in Nat
          /\ life[m.from] # "none" /\ m.epoch <= workerEpoch[m.from]
      BY <1>1, Zenon DEF MasterInv, WorkersTypeOK, Ping, PingInv
    <2> QED
      BY <1>1, <2>1 DEF WorkersTypeOK
  <1>7. RunningIsCurrent'
    BY <1>1, Zenon DEF MasterInv, WorkersTypeOK, RunningIsCurrent, InEntries,
           managerVars
  <1> QED
    BY <1>2, <1>3, <1>4, <1>5, <1>6, <1>7, Zenon DEF MasterInv, LocalInv

\* The worker stops.
LEMMA StopStep ==
  ASSUME MasterInv, NEW e \in Entry, WorkerStops(e)
  PROVE  MasterInv'
  <1>1. /\ UNCHANGED <<managerVars, cpc, workerEpoch, pings, statusMsgs, metaVars>>
        /\ life[e] # "none" /\ life' = [life EXCEPT ![e] = "dead"]
        /\ WorkersTypeOK
    BY Zenon DEF WorkerStops, Alive, MasterInv
  <1>2. WorkersTypeOK'
    BY <1>1, Zenon DEF WorkersTypeOK, metaVars, LifeStates
  <1>3. /\ life'[e] # "none"
        /\ \A f \in Entry \ {e} : life'[f] = life[f]
    BY <1>1, Zenon DEF WorkersTypeOK
  <1>4. ManagerTypeOK' /\ ManagerInv' /\ QueueInv'
    BY <1>1, <1>3, ManagerKept, Zenon
  <1>5. CreateInv(e)' /\ EntryInv(e)' /\ WorkerInv(e)'
    <2>1. CreateInv(e) /\ EntryInv(e) /\ WorkerInv(e)
      BY Zenon DEF MasterInv, LocalInv
    <2> QED
      BY <1>1, <1>3, <2>1, Zenon DEF CreateInv, EntryInv, WorkerInv, InEntries,
             managerVars
  <1>6. \A f \in Entry \ {e} : CreateInv(f)' /\ EntryInv(f)' /\ WorkerInv(f)'
    BY <1>1, <1>3, OthersKept, Zenon DEF metaVars
  <1>7. PingInv' /\ RunningIsCurrent'
    <2>1. \A m \in pings : m.from \in Entry
      BY <1>1, Zenon DEF WorkersTypeOK, Ping
    <2> QED
      BY <1>1, <1>3, <2>1, Zenon DEF MasterInv, PingInv, RunningIsCurrent, InEntries,
             managerVars
  <1> QED
    BY <1>2, <1>4, <1>5, <1>6, <1>7 DEF MasterInv, LocalInv

\* A status message that is lost or dropped.
LEMMA LoseStep ==
  ASSUME MasterInv, NEW e \in Entry, LoseStatus(e)
  PROVE  MasterInv'
  <1>1. /\ UNCHANGED <<managerVars, cpc, life, workerEpoch, pings, metaVars>>
        /\ statusMsgs' = [statusMsgs EXCEPT ![e] = Tail(statusMsgs[e])]
        /\ WorkersTypeOK
    BY Zenon DEF LoseStatus, MasterInv
  <1>2. /\ statusMsgs[e] \in Seq(StatusMsg) /\ statusMsgs[e] # <<>>
        /\ Tail(statusMsgs[e]) \in Seq(StatusMsg) /\ Len(statusMsgs[e]) # 0
    BY <1>1 DEF LoseStatus, WorkersTypeOK
  <1>3. WorkersTypeOK'
    BY <1>1, <1>2, Zenon DEF WorkersTypeOK, metaVars
  <1>4. ManagerTypeOK' /\ ManagerInv' /\ QueueInv'
    BY <1>1, ManagerKept, Zenon
  <1>5. CreateInv(e)' /\ EntryInv(e)' /\ WorkerInv(e)'
    <2>1. CreateInv(e) /\ EntryInv(e) /\ WorkerInv(e)
      BY Zenon DEF MasterInv, LocalInv
    <2>2. life[e] # "none"
      BY <1>2, <2>1, Zenon DEF WorkerInv
    <2> QED
      BY <1>1, <2>1, <2>2, Zenon DEF CreateInv, EntryInv, WorkerInv, InEntries,
             managerVars
  <1>6. \A f \in Entry \ {e} : CreateInv(f)' /\ EntryInv(f)' /\ WorkerInv(f)'
    BY <1>1, OthersKept, Zenon DEF WorkersTypeOK, metaVars
  <1>7. PingInv' /\ RunningIsCurrent'
    BY <1>1, Zenon DEF MasterInv, PingInv, RunningIsCurrent, InEntries, managerVars
  <1> QED
    BY <1>3, <1>4, <1>5, <1>6, <1>7, Zenon DEF MasterInv, LocalInv
-----------------------------------------------------------------------------
(* Steps of the manager.                                                    *)

\* The entry the map holds for a worker is that worker's only one.
LEMMA TheEntry ==
  ASSUME MasterInv
  PROVE  /\ \A f \in Entry : InEntries(f) \/ workerEntries[IdOf[f]] = NoEntry
         /\ \A w \in WorkerID : workerEntries[w] # NoEntry =>
              /\ workerEntries[w] \in Entry /\ IdOf[workerEntries[w]] = w
              /\ InEntries(workerEntries[w])
         /\ \A f \in Entry : InEntries(f) => workerEntries[IdOf[f]] # NoEntry
  <1>1. workerEntries \in [WorkerID -> Entry \cup {NoEntry}]
    BY Zenon DEF MasterInv, ManagerTypeOK
  <1>2. \A w \in WorkerID : workerEntries[w] # NoEntry => IdOf[workerEntries[w]] = w
    BY Zenon DEF MasterInv, ManagerInv, MapInv
  <1> QED
    BY <1>1, <1>2 DEF InEntries

\* The workers are as they were.
LEMMA WorkersKept ==
  ASSUME MasterInv, UNCHANGED workerVars
  PROVE  WorkersTypeOK' /\ PingInv'
  <1>1. WorkersTypeOK'
    BY Zenon DEF MasterInv, WorkersTypeOK, workerVars
  <1>2. PingInv'
    BY Zenon DEF MasterInv, PingInv, workerVars
  <1> QED
    BY <1>1, <1>2, Zenon

\* What a step says of an entry it is not about.
LEMMA EntryKept ==
  ASSUME MasterInv, NEW f \in Entry,
         cpc'[f] = cpc[f], life'[f] = life[f], workerEpoch'[f] = workerEpoch[f],
         statusMsgs'[f] = statusMsgs[f], workerMeta'[IdOf[f]] = workerMeta[IdOf[f]],
         UNCHANGED <<wmState, epoch>>, told'[IdOf[f]] = told[IdOf[f]],
         workerEntries'[IdOf[f]] = workerEntries[IdOf[f]], entryState'[f] = entryState[f],
         f \in expired' => f \in expired, f \in finished' => f \in finished
  PROVE  CreateInv(f)' /\ EntryInv(f)' /\ WorkerInv(f)'
  <1>1. CreateInv(f) /\ EntryInv(f) /\ WorkerInv(f)
    BY Zenon DEF MasterInv, LocalInv
  <1>2. CreateInv(f)'
    BY <1>1, Zenon DEF CreateInv, InEntries
  <1>3. EntryInv(f)'
    BY <1>1, Zenon DEF EntryInv, InEntries
  <1>4. WorkerInv(f)'
    BY <1>1, Zenon DEF WorkerInv
  <1> QED
    BY <1>2, <1>3, <1>4, Zenon

\* What a step says of an event about a worker it is not about.
LEMMA EventKept ==
  ASSUME NEW ev \in Event, EventOK(ev), told'[ev.worker] = told[ev.worker],
         workerEntries'[ev.worker] = workerEntries[ev.worker],
         \A f \in Entry : /\ IdOf[f] = ev.worker => entryState'[f] = entryState[f]
                          /\ life[f] # "none" => life'[f] # "none"
                          /\ cpc[f] = "failed" => cpc'[f] = "failed"
  PROVE  EventOK(ev)'
  BY Zenon DEF EventOK, InEntries

\* What a heartbeat that HandleHeartbeat does not drop says of its sender.
LEMMA HeartbeatFacts ==
  ASSUME MasterInv, NEW m \in pings, HeartbeatSeen(IdOf[m.from], m.epoch, m.fin)
  PROVE  /\ m.from \in Entry /\ workerEntries[IdOf[m.from]] = m.from
         /\ life[m.from] # "none" /\ workerEpoch[m.from] = epoch
         /\ cpc[m.from] \notin {"idle", "scheduling", "dispatching", "failed"}
         /\ sweep = {} /\ wmState # "LoadingMeta"
         /\ finished' = finished \/ finished' = finished \cup {m.from}
         /\ expired' = expired \ {m.from}
         /\ UNCHANGED <<wmState, epoch, workerEntries, status, ticking, handling, sweep, told>>
  <1>1. m.from \in Entry /\ m.epoch \in Nat /\ epoch \in Nat /\ workerEpoch[m.from] \in Nat
    BY DEF MasterInv, ManagerTypeOK, WorkersTypeOK, Ping
  <1>2. workerEntries[IdOf[m.from]] = m.from
    BY <1>1, TheEntry, Zenon DEF HeartbeatSeen, InEntries
  <1>3. life[m.from] # "none" /\ m.epoch <= workerEpoch[m.from]
    BY Zenon DEF MasterInv, PingInv
  <1>4. workerEpoch[m.from] <= epoch /\ m.epoch = epoch
    BY <1>1, Zenon DEF MasterInv, LocalInv, WorkerInv, HeartbeatSeen,
           checkMasterEpochMatch
  <1>5. workerEpoch[m.from] = epoch
    BY <1>1, <1>3, <1>4
  <1>6. cpc[m.from] \notin {"idle", "scheduling", "dispatching", "failed"}
    BY <1>1, <1>3, Zenon DEF MasterInv, LocalInv, CreateInv
  <1>7. /\ sweep = {} /\ wmState # "LoadingMeta"
        /\ finished' = finished \/ finished' = finished \cup {m.from}
        /\ expired' = expired \ {m.from}
        /\ UNCHANGED <<wmState, epoch, workerEntries, status, ticking, handling, sweep, told>>
    BY <1>2, Zenon DEF HeartbeatSeen, MuFree
  <1> QED
    BY <1>1, <1>2, <1>3, <1>5, <1>6, <1>7, Zenon

\* A heartbeat discovers a worker after a failover.
LEMMA DiscoversStep ==
  ASSUME MasterInv, NEW m \in pings, UNCHANGED workerVars,
         HeartbeatDiscovers(IdOf[m.from], m.epoch, m.fin)
  PROVE  MasterInv'
  <1> DEFINE e == m.from
             allReady == \A v \in WorkerID \ {IdOf[e]} :
               workerEntries[v] # NoEntry => entryState[workerEntries[v]] # "Wait"
  <1>1. HeartbeatSeen(IdOf[m.from], m.epoch, m.fin)
    BY Zenon DEF HeartbeatDiscovers
  <1>2. /\ e \in Entry /\ workerEntries[IdOf[e]] = e
        /\ life[e] # "none" /\ workerEpoch[e] = epoch
        /\ cpc[e] \notin {"idle", "scheduling", "dispatching", "failed"}
        /\ sweep = {} /\ wmState # "LoadingMeta"
        /\ finished' = finished \/ finished' = finished \cup {e}
        /\ expired' = expired \ {e}
        /\ UNCHANGED <<wmState, epoch, workerEntries, status, ticking, handling, sweep, told>>
    BY <1>1, HeartbeatFacts, Zenon
  <1>3. /\ wmState = "WaitingHeartbeat" /\ entryState[e] = "Wait"
        /\ entryState' = [entryState EXCEPT ![e] = "Normal"]
        /\ readyClosed' = (readyClosed \/ allReady)
        /\ panicked' = IF allReady /\ readyClosed THEN panicked \cup {"closed"} ELSE panicked
        /\ UNCHANGED <<eventQueue, errs>>
    BY <1>2, Zenon DEF HeartbeatDiscovers, PanicIf
  <1>4. /\ ManagerTypeOK /\ WorkersTypeOK
        /\ entryState'[e] = "Normal"
        /\ \A f \in Entry \ {e} : entryState'[f] = entryState[f]
    BY <1>2, <1>3, Zenon DEF MasterInv, ManagerTypeOK
  <1>5. ~readyClosed
    BY <1>2, <1>3, Zenon DEF MasterInv, ManagerInv, ReleasedWhenDiscovered, InEntries
  <1>6. ManagerTypeOK'
    BY <1>2, <1>3, <1>4, <1>5 DEF ManagerTypeOK, EntryStates
  <1>7. \A f \in Entry \ {e} : CreateInv(f)' /\ EntryInv(f)' /\ WorkerInv(f)'
    BY <1>2, <1>3, <1>4, EntryKept, Zenon DEF workerVars
  <1>8. CreateInv(e)' /\ EntryInv(e)' /\ WorkerInv(e)'
    <2>1. CreateInv(e) /\ EntryInv(e) /\ WorkerInv(e)
      BY <1>2, Zenon DEF MasterInv, LocalInv
    <2> QED
      BY <1>2, <1>3, <1>4, <2>1, Zenon DEF CreateInv, EntryInv, WorkerInv, workerVars
  <1>9. \A w \in WorkerID : told[w] = "unknown"
    BY <1>3, Zenon DEF MasterInv, ManagerInv, RecoveryInv
  <1>10. RecoveryInv' /\ SweepInv' /\ MapInv' /\ NoPanic'
    BY <1>2, <1>3, <1>5, Zenon DEF MasterInv, ManagerInv, RecoveryInv, SweepInv,
           MapInv, NoPanic
  <1>11. BeliefMatches'
    BY <1>2, <1>9, Zenon DEF BeliefMatches
  <1>12. ReleasedWhenDiscovered'
    <2>1. allReady <=> \A f \in Entry : InEntries(f)' => entryState'[f] # "Wait"
      <3>1. ASSUME allReady, NEW f \in Entry, InEntries(f)
            PROVE  entryState'[f] # "Wait"
        <4>1. CASE f = e
          BY <1>4, <4>1, Zenon
        <4>2. CASE f # e
          <5>1. IdOf[f] \in WorkerID \ {IdOf[e]} /\ workerEntries[IdOf[f]] = f /\ f # NoEntry
            BY <1>2, <3>1, <4>2, Zenon DEF InEntries
          <5>2. entryState[f] # "Wait"
            BY <3>1, <5>1, Zenon
          <5> QED
            BY <1>4, <4>2, <5>2, Zenon
        <4> QED
          BY <4>1, <4>2, Zenon
      <3>2. ASSUME \A f \in Entry : InEntries(f) => entryState'[f] # "Wait",
                   NEW v \in WorkerID \ {IdOf[e]}, workerEntries[v] # NoEntry
            PROVE  entryState[workerEntries[v]] # "Wait"
        <4>1. /\ workerEntries[v] \in Entry /\ workerEntries[v] # e
              /\ InEntries(workerEntries[v])
          BY <3>2, TheEntry, Zenon
        <4> QED
          BY <1>4, <3>2, <4>1, Zenon
      <3>3. \A f \in Entry : InEntries(f)' <=> InEntries(f)
        BY <1>2, Zenon DEF InEntries
      <3> QED
        BY <3>1, <3>2, <3>3, Zenon
    <2>2. readyClosed' <=> allReady
      BY <1>3, <1>5, Zenon
    <2> QED
      BY <2>1, <2>2, Zenon DEF ReleasedWhenDiscovered
  <1>13. QueueInv'
    <2>1. Waiting' = Waiting
      BY <1>2, <1>3, Zenon DEF Waiting
    <2>2. ASSUME NEW ev \in Event, EventOK(ev)
          PROVE  EventOK(ev)'
      <3>1. ev.worker \in WorkerID /\ told[ev.worker] = "unknown"
        BY <1>9, Zenon DEF Event
      <3>2. /\ ev.tp = "status" /\ ev.entry \in Entry /\ ev.worker = IdOf[ev.entry]
            /\ life[ev.entry] # "none" /\ ev.arg \in StatusCodes
            /\ InEntries(ev.entry) \/ entryState[ev.entry] = "Tombstone"
        BY <2>2, <3>1, Zenon DEF EventOK, Event
      <3>3. InEntries(ev.entry)' \/ entryState'[ev.entry] = "Tombstone"
        BY <1>2, <1>3, <1>4, <3>2, ZenonT(40) DEF InEntries
      <3> QED
        BY <3>2, <3>3, Zenon DEF EventOK, workerVars
    <2> QED
      BY <1>4, <2>1, <2>2, QueueKept, Zenon DEF MasterInv
  <1>14. RunningIsCurrent'
    BY <1>2, <1>3, <1>4, Zenon DEF MasterInv, RunningIsCurrent, InEntries, workerVars
  <1> QED
    BY <1>6, <1>7, <1>8, <1>10, <1>11, <1>12, <1>13, <1>14, WorkersKept, Zenon
       DEF MasterInv, LocalInv, ManagerInv
\* The first heartbeat of a worker that this master created.
LEMMA OnlineStep ==
  ASSUME MasterInv, NEW m \in pings, UNCHANGED workerVars,
         HeartbeatOnline(IdOf[m.from], m.epoch, m.fin)
  PROVE  MasterInv'
  <1> DEFINE e == m.from
  <1>1. HeartbeatSeen(IdOf[m.from], m.epoch, m.fin)
    BY Zenon DEF HeartbeatOnline
  <1>2. /\ e \in Entry /\ workerEntries[IdOf[e]] = e
        /\ life[e] # "none" /\ workerEpoch[e] = epoch
        /\ cpc[e] \notin {"idle", "scheduling", "dispatching", "failed"}
        /\ sweep = {} /\ wmState # "LoadingMeta"
        /\ finished' = finished \/ finished' = finished \cup {e}
        /\ expired' = expired \ {e}
        /\ UNCHANGED <<wmState, epoch, workerEntries, status, ticking, handling, sweep, told>>
    BY <1>1, HeartbeatFacts, Zenon
  <1>3. /\ wmState = "Ready" /\ entryState[e] = "Created"
        /\ entryState' = [entryState EXCEPT ![e] = "Normal"]
        /\ EnqueueEvent(OnlineEvent(e), "handler")
        /\ UNCHANGED <<readyClosed, panicked>>
    BY <1>2, Zenon DEF HeartbeatOnline, PanicIf, MayGoOnline
  <1>4. /\ ManagerTypeOK /\ WorkersTypeOK
        /\ entryState'[e] = "Normal"
        /\ \A f \in Entry \ {e} : entryState'[f] = entryState[f]
    BY <1>2, <1>3, ZenonT(40) DEF MasterInv, ManagerTypeOK
  <1>5. CreateInv(e) /\ EntryInv(e) /\ WorkerInv(e) /\ told[IdOf[e]] = "creating"
    BY <1>2, <1>3, Zenon DEF MasterInv, LocalInv, EntryInv, InEntries
  <1>6. OnlineEvent(e) \in Event
    BY <1>2, Zenon DEF OnlineEvent, Event
  <1>7. ManagerTypeOK'
    BY <1>2, <1>3, <1>4, <1>6, EnqueueTyped DEF ManagerTypeOK, EntryStates
  <1>8. \A f \in Entry \ {e} : CreateInv(f)' /\ EntryInv(f)' /\ WorkerInv(f)'
    BY <1>2, <1>3, <1>4, EntryKept, Zenon DEF workerVars
  <1>9. CreateInv(e)' /\ EntryInv(e)' /\ WorkerInv(e)'
    BY <1>2, <1>3, <1>4, <1>5, Zenon DEF CreateInv, EntryInv, WorkerInv, workerVars
  <1>10. RecoveryInv' /\ SweepInv' /\ MapInv' /\ NoPanic' /\ ReleasedWhenDiscovered'
    BY <1>2, <1>3, Zenon DEF MasterInv, ManagerInv, RecoveryInv, SweepInv, MapInv,
           NoPanic,
           ReleasedWhenDiscovered
  <1>11. BeliefMatches'
    <2> SUFFICES ASSUME NEW w \in WorkerID, workerEntries[w] # NoEntry
                 PROVE  /\ told[w] = "online" => entryState'[workerEntries[w]] \in {"Normal", "Offline"}
                        /\ told[w] = "gone" => entryState'[workerEntries[w]] = "Tombstone"
      BY <1>2, Zenon DEF MasterInv, ManagerInv, BeliefMatches
    <2>1. workerEntries[w] \in Entry /\ IdOf[workerEntries[w]] = w
      BY TheEntry, Zenon
    <2>2. CASE workerEntries[w] = e
      BY <1>5, <2>1, <2>2, Zenon
    <2>3. CASE workerEntries[w] # e
      BY <1>4, <2>1, <2>3, Zenon DEF MasterInv, ManagerInv, BeliefMatches
    <2> QED
      BY <2>2, <2>3, Zenon
  <1>12. QueueInv'
    <2>1. ASSUME NEW ev \in Event, EventOK(ev)
          PROVE  EventOK(ev)' /\ MayPrecede(ev, OnlineEvent(e))
      <3>1. ev.worker \in WorkerID
        BY Zenon DEF Event
      <3>2. CASE ev.worker = IdOf[e]
        <4>1. ev.tp \in {"failed", "status"}
          BY <1>2, <1>3, <2>1, <3>2, SMTT(40) DEF EventOK, Event
        <4>2. ev.tp # "failed"
          BY <1>2, <2>1, <3>2 DEF EventOK
        <4> QED
          BY <1>2, <1>3, <1>4, <2>1, <4>1, <4>2, ZenonT(40)
             DEF EventOK, MayPrecede, OnlineEvent, InEntries, workerVars
      <3>3. CASE ev.worker # IdOf[e]
        <4>1. EventOK(ev)'
          BY <1>2, <1>3, <1>4, <2>1, <3>1, <3>3, EventKept, Zenon DEF workerVars
        <4> QED
          BY <3>3, <4>1, ZenonT(40) DEF MayPrecede, OnlineEvent
      <3> QED
        BY <3>2, <3>3, Zenon
    <2>2. EventOK(OnlineEvent(e))'
      BY <1>2, <1>4, <1>5, Zenon DEF EventOK, OnlineEvent, InEntries, workerVars
    <2> QED
      BY <1>2, <1>3, <1>4, <1>6, <2>1, <2>2, QueueGrows, Zenon DEF MasterInv
  <1>13. RunningIsCurrent'
    BY <1>2, <1>3, <1>4, Zenon DEF MasterInv, RunningIsCurrent, InEntries, workerVars
  <1> QED
    BY <1>7, <1>8, <1>9, <1>10, <1>11, <1>12, <1>13, WorkersKept, Zenon
       DEF MasterInv, LocalInv, ManagerInv

\* A step of the manager that changes neither the map, the entries, the queue nor
\* what was told, but which of the entries are expired or finished.
LEMMA MarksOnly ==
  ASSUME MasterInv, UNCHANGED workerVars,
         UNCHANGED <<wmState, epoch, workerEntries, entryState, status, eventQueue,
                     handling, readyClosed, panicked, told>>,
         \A f \in Entry : f \in finished' => f \in finished \/ life[f] # "none",
         \A f \in Entry : f \in expired' =>
           f \in expired \/ life[f] # "none" \/ (InEntries(f) /\ cpc[f] # "confirming")
  PROVE  LocalInv' /\ QueueInv' /\ RunningIsCurrent' /\ WorkersTypeOK' /\ PingInv'
         /\ MapInv' /\ NoPanic' /\ BeliefMatches' /\ ReleasedWhenDiscovered'
  <1>1. LocalInv'
    <2> SUFFICES ASSUME NEW f \in Entry
                 PROVE  CreateInv(f)' /\ EntryInv(f)' /\ WorkerInv(f)'
      BY Zenon DEF LocalInv
    <2>1. CreateInv(f) /\ EntryInv(f) /\ WorkerInv(f)
      BY Zenon DEF MasterInv, LocalInv
    <2>2. cpc[f] \in {"idle", "scheduling", "dispatching"} => life[f] = "none" /\ ~InEntries(f)
      BY <2>1, TheEntry, Zenon DEF CreateInv
    <2> QED
      BY <2>1, <2>2, Zenon DEF CreateInv, EntryInv, WorkerInv, InEntries, workerVars
  <1>2. QueueInv'
    <2>1. Waiting' = Waiting
      BY ZenonT(40) DEF Waiting
    <2>2. \A ev \in Event : EventOK(ev) => EventOK(ev)'
      BY Zenon DEF EventOK, InEntries, workerVars
    <2> QED
      BY <2>1, <2>2, QueueKept, Zenon DEF MasterInv
  <1>3. RunningIsCurrent'
    BY Zenon DEF MasterInv, RunningIsCurrent, InEntries, workerVars
  <1>4. MapInv' /\ NoPanic' /\ BeliefMatches' /\ ReleasedWhenDiscovered'
    BY Zenon DEF MasterInv, ManagerInv, MapInv, NoPanic, BeliefMatches,
           ReleasedWhenDiscovered,
           InEntries
  <1> QED
    BY <1>1, <1>2, <1>3, <1>4, WorkersKept, Zenon

\* Any later heartbeat.
LEMMA RenewsStep ==
  ASSUME MasterInv, NEW m \in pings, UNCHANGED workerVars,
         HeartbeatRenews(IdOf[m.from], m.epoch, m.fin)
  PROVE  MasterInv'
  <1> DEFINE e == m.from
  <1>1. HeartbeatSeen(IdOf[m.from], m.epoch, m.fin)
    BY Zenon DEF HeartbeatRenews
  <1>2. /\ e \in Entry /\ life[e] # "none" /\ sweep = {}
        /\ finished' = finished \/ finished' = finished \cup {e}
        /\ expired' = expired \ {e}
        /\ UNCHANGED <<wmState, epoch, workerEntries, status, ticking, handling, sweep, told>>
    BY <1>1, HeartbeatFacts, Zenon
  <1>3. UNCHANGED <<entryState, readyClosed, panicked, eventQueue, errs>>
    BY Zenon DEF HeartbeatRenews
  <1>4. ManagerTypeOK'
    BY <1>2, <1>3, Zenon DEF MasterInv, ManagerTypeOK
  <1>5. RecoveryInv' /\ SweepInv'
    BY <1>2, <1>3, Zenon DEF MasterInv, ManagerInv, RecoveryInv, SweepInv
  <1>6. LocalInv' /\ QueueInv' /\ RunningIsCurrent' /\ WorkersTypeOK' /\ PingInv'
         /\ MapInv' /\ NoPanic' /\ BeliefMatches' /\ ReleasedWhenDiscovered'
    <2>1. /\ \A f \in Entry : f \in finished' => f \in finished \/ life[f] # "none"
          /\ \A f \in Entry : f \in expired' => f \in expired
      BY <1>2, Zenon
    <2> QED
      BY <1>2, <1>3, <2>1, MarksOnly, Zenon
  <1> QED
    BY <1>4, <1>5, <1>6, Zenon DEF MasterInv, ManagerInv

\* A lease expires.
LEMMA ExpireStep ==
  ASSUME MasterInv, NEW e \in Entry, Expire(e)
  PROVE  MasterInv'
  <1>1. /\ cpc[e] # "confirming" /\ expired' = expired \cup {e} /\ UNCHANGED workerVars
        /\ UNCHANGED <<wmState, epoch, workerEntries, entryState, finished, status,
                       eventQueue, ticking, handling, sweep, readyClosed, errs,
                       panicked, told>>
    BY Zenon DEF Expire, LeaseExpires
  <1>2. ManagerTypeOK'
    BY <1>1, Zenon DEF MasterInv, ManagerTypeOK
  <1>3. RecoveryInv' /\ SweepInv'
    BY <1>1, Zenon DEF MasterInv, ManagerInv, RecoveryInv, SweepInv, InEntries
  <1>4. LocalInv' /\ QueueInv' /\ RunningIsCurrent' /\ WorkersTypeOK' /\ PingInv'
         /\ MapInv' /\ NoPanic' /\ BeliefMatches' /\ ReleasedWhenDiscovered'
    <2>1. \A f \in Entry : f \in expired' =>
            f \in expired \/ (InEntries(f) /\ cpc[f] # "confirming")
      BY <1>1, Zenon DEF Expire, LeaseExpires
    <2> QED
      BY <1>1, <2>1, MarksOnly, Zenon
  <1> QED
    BY <1>2, <1>3, <1>4, Zenon DEF MasterInv, ManagerInv

\* checkWorkerEntriesOnce begins a sweep, Tick begins, returns or fails.
LEMMA BookkeepingStep ==
  ASSUME MasterInv, SweepBegin \/ TickBegin \/ TickReturn \/ TickFails,
         UNCHANGED workerVars
  PROVE  MasterInv'
  <1>1. /\ UNCHANGED <<wmState, epoch, workerEntries, entryState, finished, expired,
                       status, eventQueue, handling, readyClosed, panicked, told>>
        /\ errs' = errs \/ errs' = errs \cup {"tick"}
        /\ wmState = "Ready" \/ ~ticking'
        /\ sweep' = sweep \/ (sweep' = {e \in Entry : ShouldGoOffline(e)} /\ wmState = "Ready")
        /\ ticking' = ticking \/ ticking' = TRUE \/ ticking' = FALSE
    BY Zenon DEF SweepBegin, TickBegin, TickReturn, TickFails
  <1>2. ManagerTypeOK'
    <2>1. /\ ManagerTypeOK /\ sweep' \subseteq Entry
          /\ errs' \subseteq {"handler", "checker", "tick"}
      BY <1>1, Zenon DEF MasterInv, ManagerTypeOK
    <2>2. ticking' \in BOOLEAN
      BY <1>1, <2>1, Zenon DEF ManagerTypeOK
    <2> QED
      BY <1>1, <2>1, <2>2, Zenon DEF ManagerTypeOK
  <1>3. RecoveryInv'
    BY <1>1, Zenon DEF MasterInv, ManagerInv, RecoveryInv
  <1>4. SweepInv'
    <2>1. CASE sweep' = sweep
      BY <1>1, <2>1, Zenon DEF MasterInv, ManagerInv, SweepInv, InEntries
    <2>2. CASE sweep' = {e \in Entry : ShouldGoOffline(e)} /\ wmState = "Ready"
      <3> SUFFICES ASSUME NEW e \in Entry, ShouldGoOffline(e)
                   PROVE  /\ InEntries(e) /\ entryState[e] \in {"Created", "Normal"}
                          /\ e \in expired \/ e \in finished
        BY <1>1, <2>2, Zenon DEF SweepInv, InEntries
      <3>1. EntryInv(e) /\ entryState[e] \in EntryStates
        BY Zenon DEF MasterInv, LocalInv, ManagerTypeOK
      <3> QED
        BY <2>2, <3>1, Zenon DEF ShouldGoOffline, EntryInv, EntryStates
    <2> QED
      BY <1>1, <2>1, <2>2, Zenon
  <1>5. LocalInv' /\ QueueInv' /\ RunningIsCurrent' /\ WorkersTypeOK' /\ PingInv'
         /\ MapInv' /\ NoPanic' /\ BeliefMatches' /\ ReleasedWhenDiscovered'
    BY <1>1, MarksOnly, Zenon
  <1> QED
    BY <1>2, <1>3, <1>4, <1>5, Zenon DEF MasterInv, ManagerInv
\* One round of the sweep: the entry goes offline and the event is queued.
LEMMA SweepStep ==
  ASSUME MasterInv, NEW e \in Entry, SweepVisit(e), UNCHANGED workerVars
  PROVE  MasterInv'
  <1> DEFINE ev0 == OfflineEvent(e, OfflineReason(status[e]))
  <1>1. /\ e \in sweep /\ InEntries(e) /\ entryState[e] \in {"Created", "Normal"}
        /\ e \in expired \/ e \in finished
    BY Zenon DEF MasterInv, ManagerInv, SweepInv, SweepVisit
  <1>2. /\ entryState' = [entryState EXCEPT ![e] = "Offline"]
        /\ EnqueueEvent(ev0, "checker")
        /\ sweep' = {} \/ sweep' = sweep \ {e}
        /\ UNCHANGED <<wmState, epoch, workerEntries, finished, expired, status,
                       ticking, handling, readyClosed, panicked, told>>
    BY <1>1, Zenon DEF SweepVisit, PanicIf, MayGoOffline
  <1>3. wmState = "Ready"
    BY <1>1, Zenon DEF MasterInv, ManagerInv, RecoveryInv, ManagerTypeOK
  <1>4. /\ ManagerTypeOK /\ WorkersTypeOK
        /\ entryState'[e] = "Offline"
        /\ \A f \in Entry \ {e} : entryState'[f] = entryState[f]
    BY <1>2, Zenon DEF MasterInv, ManagerTypeOK
  <1>5. CreateInv(e) /\ EntryInv(e) /\ WorkerInv(e)
    BY Zenon DEF MasterInv, LocalInv
  <1>6. /\ told[IdOf[e]] \in {"creating", "online"}
        /\ entryState[e] = "Created" => told[IdOf[e]] = "creating"
        /\ cpc[e] \notin {"idle", "scheduling", "dispatching"}
        /\ cpc[e] = "confirming" => life[e] # "none"
    BY <1>1, <1>3, <1>5, Zenon DEF EntryInv, CreateInv
  <1>7. ev0 \in Event /\ ev0.tp = "offline" /\ ev0.worker = IdOf[e] /\ ev0.entry = e
    BY Zenon DEF OfflineEvent, Event, OfflineReason, Reasons
  <1>8. ManagerTypeOK'
    <2>1. sweep' \subseteq Entry /\ entryState' \in [Entry -> EntryStates]
      BY <1>2, <1>4, Zenon DEF ManagerTypeOK, EntryStates
    <2> QED
      BY <1>2, <1>4, <1>7, <2>1, EnqueueTyped DEF ManagerTypeOK
  <1>9. \A f \in Entry \ {e} : CreateInv(f)' /\ EntryInv(f)' /\ WorkerInv(f)'
    BY <1>2, <1>4, EntryKept, Zenon DEF workerVars
  <1>10. CreateInv(e)' /\ EntryInv(e)' /\ WorkerInv(e)'
    BY <1>1, <1>2, <1>3, <1>4, <1>5, <1>6, Zenon
       DEF CreateInv, EntryInv, WorkerInv, InEntries, workerVars
  <1>11. RecoveryInv' /\ MapInv' /\ NoPanic' /\ ReleasedWhenDiscovered'
    BY <1>2, <1>3, Zenon DEF MasterInv, ManagerInv, RecoveryInv, MapInv, NoPanic,
           ReleasedWhenDiscovered
  <1>12. SweepInv'
    <2> SUFFICES ASSUME NEW f \in sweep'
                 PROVE  /\ InEntries(f)' /\ entryState'[f] \in {"Created", "Normal"}
                        /\ f \in expired' \/ f \in finished'
      BY Zenon DEF SweepInv
    <2>1. f \in sweep /\ f # e /\ f \in Entry
      BY <1>2, <1>4, ZenonT(40) DEF ManagerTypeOK
    <2>2. /\ InEntries(f) /\ entryState[f] \in {"Created", "Normal"}
          /\ f \in expired \/ f \in finished
      BY <2>1, Zenon DEF MasterInv, ManagerInv, SweepInv
    <2> QED
      BY <1>2, <1>4, <2>1, <2>2, Zenon DEF InEntries
  <1>13. BeliefMatches'
    <2> SUFFICES ASSUME NEW w \in WorkerID, workerEntries[w] # NoEntry
                 PROVE  /\ told[w] = "online" => entryState'[workerEntries[w]] \in {"Normal", "Offline"}
                        /\ told[w] = "gone" => entryState'[workerEntries[w]] = "Tombstone"
      BY <1>2, Zenon DEF MasterInv, ManagerInv, BeliefMatches
    <2>1. workerEntries[w] \in Entry /\ IdOf[workerEntries[w]] = w
      BY TheEntry, Zenon
    <2>2. CASE workerEntries[w] = e
      BY <1>4, <1>6, <2>1, <2>2, Zenon
    <2>3. CASE workerEntries[w] # e
      BY <1>4, <2>1, <2>3, Zenon DEF MasterInv, ManagerInv, BeliefMatches
    <2> QED
      BY <2>2, <2>3, Zenon
  <1>14. QueueInv'
    <2>1. ASSUME NEW ev \in Event, EventOK(ev)
          PROVE  EventOK(ev)' /\ MayPrecede(ev, ev0)
      <3>1. ev.worker \in WorkerID
        BY Zenon DEF Event
      <3>2. CASE ev.worker = IdOf[e]
        <4>1. ev.tp # "offline"
          BY <1>1, <2>1, <3>2 DEF EventOK
        <4>2. EventOK(ev)'
          BY <1>1, <1>2, <1>4, <2>1, <3>2, <4>1, Zenon DEF EventOK, InEntries,
                 workerVars
        <4> QED
          BY <1>7, <4>1, <4>2, Zenon DEF MayPrecede
      <3>3. CASE ev.worker # IdOf[e]
        <4>1. EventOK(ev)'
          BY <1>2, <1>4, <2>1, <3>1, <3>3, EventKept, Zenon DEF workerVars
        <4> QED
          BY <1>7, <3>3, <4>1, Zenon DEF MayPrecede
      <3> QED
        BY <3>2, <3>3, Zenon
    <2>2. EventOK(ev0)'
      BY <1>2, <1>4, <1>6, <1>7, Zenon DEF EventOK, OfflineEvent
    <2> QED
      BY <1>2, <1>4, <1>7, <2>1, <2>2, QueueGrows, Zenon DEF MasterInv
  <1>15. RunningIsCurrent'
    BY <1>2, <1>4, Zenon DEF MasterInv, RunningIsCurrent, InEntries, workerVars
  <1> QED
    BY <1>8, <1>9, <1>10, <1>11, <1>12, <1>13, <1>14, <1>15, WorkersKept
       DEF MasterInv, LocalInv, ManagerInv

\* Tick takes the oldest event off the queue.
LEMMA ReceiveStep ==
  ASSUME MasterInv, TickReceive, UNCHANGED workerVars
  PROVE  MasterInv'
  <1>1. /\ handling = <<>> /\ eventQueue # <<>> /\ ticking
        /\ handling' = <<Head(eventQueue)>> /\ eventQueue' = Tail(eventQueue)
        /\ UNCHANGED <<wmState, epoch, workerEntries, entryState, finished, expired,
                       status, ticking, sweep, readyClosed, errs, panicked, told>>
    BY Zenon DEF TickReceive
  <1>2. ManagerTypeOK /\ eventQueue \in Seq(Event)
    BY Zenon DEF MasterInv, ManagerTypeOK
  <1>3. /\ Head(eventQueue) \in Event /\ Tail(eventQueue) \in Seq(Event)
        /\ Len(Tail(eventQueue)) <= QueueCap
    BY <1>1, <1>2 DEF ManagerTypeOK
  <1>4. <<Head(eventQueue)>> \in Seq(Event) /\ Len(<<Head(eventQueue)>>) <= 1
    BY <1>3
  <1>5. ManagerTypeOK'
    BY <1>1, <1>2, <1>3, <1>4, Zenon DEF ManagerTypeOK
  <1>6. Waiting' = Waiting
    BY <1>1, <1>2, <1>4 DEF Waiting
  <1>7. QueueInv'
    <2>1. \A ev \in Event : EventOK(ev) => EventOK(ev)'
      BY <1>1, Zenon DEF EventOK, InEntries, workerVars
    <2> QED
      BY <1>2, <1>6, <2>1, QueueKept, Zenon DEF MasterInv
  <1>8. LocalInv'
    BY <1>1, EntryKept, Zenon DEF LocalInv, workerVars
  <1>9. ManagerInv'
    BY <1>1, Zenon DEF MasterInv, ManagerInv, RecoveryInv, SweepInv, MapInv, NoPanic,
           BeliefMatches, ReleasedWhenDiscovered, InEntries
  <1>10. RunningIsCurrent'
    BY <1>1, Zenon DEF MasterInv, RunningIsCurrent, InEntries, workerVars
  <1> QED
    BY <1>5, <1>7, <1>8, <1>9, <1>10, WorkersKept, Zenon DEF MasterInv

=============================================================================
