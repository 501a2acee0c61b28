------------------------ MODULE MasterWorkers_proofs -------------------------
(***************************************************************************)
(* Proofs about a master and its workers, for any number of workers and    *)
(* failovers and any capacity of the event queue: no panic is reachable,   *)
(* the master implementation's view of its workers is that of the map, and *)
(* the callbacks it gets are those WorkerCallbacks promises.               *)
(***************************************************************************)
EXTENDS WorkerSteps_proofs

USE ManagerAssumption, FreshAssumption

-----------------------------------------------------------------------------
(* Tick.                                                                   *)

\* An event is in hand only once the manager is ready.
LEMMA HandlingReady ==
  ASSUME MasterInv, handling # <<>>
  PROVE  wmState = "Ready"
  BY Zenon DEF MasterInv, ManagerInv, RecoveryInv

\* The callback OnWorkerOnline.
LEMMA TickOnlineStep ==
  ASSUME MasterInv, TickOnline, UNCHANGED workerVars
  PROVE  MasterInv'
  <1>1. /\ handling # <<>> /\ handling[1].tp = "online"
        /\ told' = [told EXCEPT ![handling[1].worker] = "online"] /\ handling' = <<>>
        /\ UNCHANGED <<wmState, epoch, workerEntries, entryState, finished, expired,
                       status, eventQueue, ticking, sweep, readyClosed, errs, panicked>>
        /\ ManagerTypeOK /\ QueueInv
    BY Zenon DEF TickOnline, MasterInv
  <1>2. PICK e \in Entry, w0 \in WorkerID :
          /\ handling[1].entry = e /\ handling[1].worker = w0
          /\ w0 = IdOf[e] /\ InEntries(e) /\ told[w0] = "creating"
          /\ entryState[e] \in {"Normal", "Offline"} /\ life[e] # "none"
    BY <1>1, InHand, Zenon DEF EventOK, Event
  <1>3. /\ told'[w0] = "online" /\ w0 \in WorkerID
        /\ \A w \in WorkerID \ {w0} : told'[w] = told[w]
        /\ told' \in [WorkerID -> Knowledge]
    BY <1>1, <1>2 DEF ManagerTypeOK, Knowledge
  <1>4. ManagerTypeOK'
    BY <1>1, <1>3, SMTT(40) DEF ManagerTypeOK
  <1>5. \A f \in Entry \ {e} : CreateInv(f)' /\ EntryInv(f)' /\ WorkerInv(f)'
    BY <1>1, <1>2, <1>3, EntryKept DEF workerVars
  <1>6. CreateInv(e) /\ EntryInv(e) /\ WorkerInv(e) /\ workerEntries[w0] # NoEntry
    BY <1>2, TheEntry DEF MasterInv, LocalInv
  <1>7. CreateInv(e)' /\ EntryInv(e)' /\ WorkerInv(e)'
    BY <1>1, <1>2, <1>3, <1>6, Zenon DEF CreateInv, EntryInv, WorkerInv, InEntries,
           workerVars
  <1>8. RecoveryInv' /\ SweepInv' /\ NoPanic' /\ ReleasedWhenDiscovered'
    BY <1>1, HandlingReady, Zenon DEF MasterInv, ManagerInv, RecoveryInv, SweepInv,
           NoPanic,
           ReleasedWhenDiscovered, InEntries
  <1>9. MapInv'
    BY <1>1, <1>3, Zenon DEF MasterInv, ManagerInv, MapInv
  <1>10. BeliefMatches'
    BY <1>1, <1>2, <1>3, <1>6 DEF MasterInv, ManagerInv, BeliefMatches, InEntries
  <1>11. QueueInv'
    <2>1. ASSUME NEW ev \in Event, EventOK(ev), MayPrecede(handling[1], ev)
          PROVE  EventOK(ev)'
      <3>1. ev.worker \in WorkerID
        BY Zenon DEF Event
      <3>2. CASE ev.worker = w0
        <4>1. ev.tp # "online"
          BY <1>1, <1>2, <2>1, <3>2, Zenon DEF MayPrecede
        <4>2. ev.tp # "failed"
          <5>1. ~\E f \in Entry : IdOf[f] = w0 /\ cpc[f] = "failed"
            BY <1>2, <1>6 DEF CreateInv
          <5> QED
            BY <2>1, <3>2, <5>1, Zenon DEF EventOK
        <4> QED
          BY <1>1, <1>3, <2>1, <3>2, <4>1, <4>2, Zenon DEF EventOK, InEntries,
                 workerVars
      <3>3. CASE ev.worker # w0
        BY <1>1, <1>3, <2>1, <3>1, <3>3, EventKept, Zenon DEF workerVars
      <3> QED
        BY <3>2, <3>3, Zenon
    <2> QED
      BY <1>1, <2>1, QueueShrinks, Zenon
  <1>12. RunningIsCurrent'
    BY <1>1, Zenon DEF MasterInv, RunningIsCurrent, InEntries, workerVars
  <1> QED
    BY <1>4, <1>5, <1>7, <1>8, <1>9, <1>10, <1>11, <1>12, WorkersKept
       DEF MasterInv, LocalInv, ManagerInv

\* The entry becomes a tombstone, then OnWorkerOffline is called.
LEMMA TickOfflineStep ==
  ASSUME MasterInv, TickOffline, UNCHANGED workerVars
  PROVE  MasterInv'
  <1>1. /\ handling # <<>> /\ handling[1].tp = "offline" /\ ManagerTypeOK /\ QueueInv
    BY Zenon DEF TickOffline, MasterInv
  <1>2. PICK e \in Entry, w0 \in WorkerID :
          /\ handling[1].entry = e /\ handling[1].worker = w0
          /\ w0 = IdOf[e] /\ entryState[e] = "Offline"
          /\ told[w0] \in {"creating", "online", "failed"}
    BY <1>1, InHand, Zenon DEF EventOK, Event
  <1>3. /\ told' = [told EXCEPT ![w0] = "gone"] /\ handling' = <<>>
        /\ entryState' = [entryState EXCEPT ![e] = "Tombstone"]
        /\ UNCHANGED <<wmState, epoch, workerEntries, finished, expired,
                       status, eventQueue, ticking, sweep, readyClosed, errs, panicked>>
    BY <1>2, Zenon DEF TickOffline, PanicIf, MayGoTombstone
  <1>4. /\ told'[w0] = "gone" /\ w0 \in WorkerID
        /\ \A w \in WorkerID \ {w0} : told'[w] = told[w]
        /\ told' \in [WorkerID -> Knowledge]
    BY <1>1, <1>2, <1>3 DEF ManagerTypeOK, Knowledge
  <1>5. /\ entryState'[e] = "Tombstone"
        /\ \A f \in Entry \ {e} : entryState'[f] = entryState[f]
        /\ entryState' \in [Entry -> EntryStates]
    BY <1>1, <1>2, <1>3 DEF ManagerTypeOK, EntryStates
  <1>6. ManagerTypeOK'
    BY <1>1, <1>3, <1>4, <1>5 DEF ManagerTypeOK
  <1>7. \A f \in Entry \ {e} : CreateInv(f)' /\ EntryInv(f)' /\ WorkerInv(f)'
    BY <1>2, <1>3, <1>4, <1>5, EntryKept DEF workerVars
  <1>8. CreateInv(e) /\ EntryInv(e) /\ WorkerInv(e) /\ wmState = "Ready"
    BY <1>1, <1>2, HandlingReady, Zenon DEF MasterInv, LocalInv
  <1>9. CreateInv(e)' /\ EntryInv(e)' /\ WorkerInv(e)'
    BY <1>2, <1>3, <1>4, <1>5, <1>8, Zenon
       DEF CreateInv, EntryInv, WorkerInv, InEntries, workerVars
  <1>10. RecoveryInv' /\ NoPanic' /\ ReleasedWhenDiscovered'
    BY <1>3, <1>8, Zenon DEF MasterInv, ManagerInv, RecoveryInv, NoPanic,
           ReleasedWhenDiscovered
  <1>11. SweepInv'
    <2>1. \A f \in sweep : f \in Entry /\ f # e
      BY <1>1, <1>2, Zenon DEF MasterInv, ManagerInv, SweepInv, ManagerTypeOK
    <2> QED
      BY <1>3, <1>5, <2>1 DEF MasterInv, ManagerInv, SweepInv, InEntries
  <1>12. MapInv'
    BY <1>3, <1>4, Zenon DEF MasterInv, ManagerInv, MapInv
  <1>13. BeliefMatches'
    <2> SUFFICES ASSUME NEW w \in WorkerID
                 PROVE  /\ told'[w] = "online" =>
                             /\ workerEntries[w] # NoEntry
                             /\ entryState'[workerEntries[w]] \in {"Normal", "Offline"}
                        /\ told'[w] = "gone" =>
                             \/ workerEntries[w] = NoEntry
                             \/ entryState'[workerEntries[w]] = "Tombstone"
      BY <1>3, Zenon DEF BeliefMatches
    <2>1. CASE w = w0
      BY <1>2, <1>4, <1>5, <2>1, TheEntry DEF InEntries
    <2>2. CASE w # w0
      <3>1. workerEntries[w] # NoEntry => workerEntries[w] \in Entry \ {e}
        BY <1>2, <2>2, TheEntry, Zenon
      <3> QED
        BY <1>4, <1>5, <2>2, <3>1, Zenon DEF MasterInv, ManagerInv, BeliefMatches
    <2> QED
      BY <2>1, <2>2, Zenon
  <1>14. QueueInv'
    <2>1. ASSUME NEW ev \in Event, EventOK(ev), MayPrecede(handling[1], ev)
          PROVE  EventOK(ev)'
      <3>1. ev.worker \in WorkerID
        BY Zenon DEF Event
      <3>2. CASE ev.worker = w0
        <4>1. ev.tp \notin {"offline", "online", "failed"}
          BY <1>1, <1>2, <2>1, <3>2, Zenon DEF MayPrecede
        <4>2. ev.entry \in Entry /\ IdOf[ev.entry] = IdOf[e]
          BY <1>2, <2>1, <3>2, <4>1, Zenon DEF EventOK
        <4>3. ev.entry = e
          BY <1>2, <4>2, Zenon
        <4> QED
          BY <1>3, <1>5, <2>1, <3>2, <4>1, <4>3, Zenon DEF EventOK, workerVars
      <3>3. CASE ev.worker # w0
        BY <1>2, <1>3, <1>4, <1>5, <2>1, <3>1, <3>3, EventKept, Zenon DEF workerVars
      <3> QED
        BY <3>2, <3>3, Zenon
    <2> QED
      BY <1>1, <1>3, <2>1, QueueShrinks, Zenon
  <1>15. RunningIsCurrent'
    BY <1>3, <1>5, Zenon DEF MasterInv, RunningIsCurrent, InEntries, workerVars
  <1> QED
    BY <1>6, <1>7, <1>9, <1>10, <1>11, <1>12, <1>13, <1>14, <1>15, WorkersKept, Zenon
       DEF MasterInv, LocalInv, ManagerInv

\* A status update: the handle that the callback reads is not stale.
LEMMA TickStatusStep ==
  ASSUME MasterInv, TickStatus, UNCHANGED workerVars
  PROVE  MasterInv'
  <1> DEFINE e == handling[1].entry
  <1>1. /\ handling # <<>> /\ handling[1].tp = "status" /\ handling' = <<>>
        /\ UNCHANGED <<wmState, epoch, workerEntries, entryState, finished, expired,
                       eventQueue, ticking, sweep, readyClosed, errs, told>>
        /\ ManagerTypeOK /\ QueueInv
    BY Zenon DEF TickStatus, MasterInv
  <1>2. /\ e \in Entry /\ handling[1].worker = IdOf[e] /\ handling[1].arg \in StatusCodes
        /\ InEntries(e) \/ entryState[e] = "Tombstone"
    BY <1>1, InHand, Zenon DEF EventOK
  <1>3. panicked' = panicked /\ status' \in [Entry -> StatusCodes]
    <2>1. CASE entryState[e] = "Tombstone"
      BY <1>1, <2>1, Zenon DEF TickStatus, Cancelled, ManagerTypeOK
    <2>2. CASE entryState[e] # "Tombstone"
      <3>1. workerEntries[handling[1].worker] # NoEntry
        BY <1>2, <2>2, TheEntry, Zenon
      <3>2. /\ status' = [status EXCEPT ![e] = handling[1].arg]
            /\ panicked' = panicked
        BY <2>2, <3>1, Zenon DEF TickStatus, Cancelled, PanicIf
      <3> QED
        BY <1>1, <1>2, <3>2, Zenon DEF ManagerTypeOK
    <2> QED
      BY <2>1, <2>2, Zenon
  <1>4. ManagerTypeOK'
    BY <1>1, <1>3, SMTT(40) DEF ManagerTypeOK
  <1>5. LocalInv'
    BY <1>1, EntryKept, Zenon DEF LocalInv, workerVars
  <1>6. ManagerInv'
    BY <1>1, <1>3, Zenon DEF MasterInv, ManagerInv, RecoveryInv, SweepInv, MapInv, NoPanic,
           BeliefMatches, ReleasedWhenDiscovered, InEntries
  <1>7. QueueInv'
    <2>1. \A ev \in Event : EventOK(ev) => EventOK(ev)'
      BY <1>1 DEF EventOK, InEntries, workerVars
    <2> QED
      BY <1>1, <2>1, QueueShrinks, Zenon
  <1>8. RunningIsCurrent'
    BY <1>1, Zenon DEF MasterInv, RunningIsCurrent, InEntries, workerVars
  <1> QED
    BY <1>4, <1>5, <1>6, <1>7, <1>8, WorkersKept, Zenon DEF MasterInv

\* OnWorkerDispatched with an error, after the entry was removed.
LEMMA TickFailedStep ==
  ASSUME MasterInv, TickDispatchFailed, UNCHANGED workerVars
  PROVE  MasterInv'
  <1>1. /\ handling # <<>> /\ handling[1].tp = "failed" /\ sweep = {}
        /\ workerEntries' = [workerEntries EXCEPT ![handling[1].worker] = NoEntry]
        /\ told' = [told EXCEPT ![handling[1].worker] = "failed"] /\ handling' = <<>>
        /\ UNCHANGED <<wmState, epoch, entryState, finished, expired, status,
                       eventQueue, ticking, sweep, readyClosed, errs, panicked>>
        /\ ManagerTypeOK /\ QueueInv
    BY Zenon DEF TickDispatchFailed, MuFree, MasterInv
  <1>2. PICK e \in Entry, w0 \in WorkerID :
          /\ handling[1].worker = w0 /\ w0 = IdOf[e]
          /\ cpc[e] = "failed" /\ told[w0] = "creating"
    BY <1>1, InHand DEF EventOK, Event
  <1>3. /\ told'[w0] = "failed" /\ w0 \in WorkerID
        /\ \A w \in WorkerID \ {w0} : told'[w] = told[w] /\ workerEntries'[w] = workerEntries[w]
        /\ told' \in [WorkerID -> Knowledge]
        /\ workerEntries'[w0] = NoEntry
        /\ workerEntries' \in [WorkerID -> Entry \cup {NoEntry}]
    BY <1>1, <1>2 DEF ManagerTypeOK, Knowledge
  <1>4. ManagerTypeOK'
    BY <1>1, <1>3, SMTT(40) DEF ManagerTypeOK
  <1>5. \A f \in Entry \ {e} : CreateInv(f)' /\ EntryInv(f)' /\ WorkerInv(f)'
    BY <1>1, <1>2, <1>3, EntryKept DEF workerVars
  <1>6. /\ CreateInv(e) /\ EntryInv(e) /\ WorkerInv(e) /\ wmState = "Ready"
        /\ life[e] = "none"
    BY <1>1, <1>2, HandlingReady, Zenon DEF MasterInv, LocalInv, CreateInv
  <1>7. CreateInv(e)' /\ EntryInv(e)' /\ WorkerInv(e)'
    BY <1>1, <1>2, <1>3, <1>6, Zenon DEF CreateInv, EntryInv, WorkerInv, InEntries,
           workerVars
  <1>8. RecoveryInv' /\ SweepInv' /\ NoPanic' /\ ReleasedWhenDiscovered'
    BY <1>1, <1>6, Zenon DEF MasterInv, ManagerInv, RecoveryInv, SweepInv, NoPanic,
           ReleasedWhenDiscovered
  <1>9. MapInv'
    BY <1>1, <1>3 DEF MasterInv, ManagerInv, MapInv
  <1>10. BeliefMatches'
    BY <1>1, <1>3 DEF MasterInv, ManagerInv, BeliefMatches
  <1>11. QueueInv'
    <2>1. ASSUME NEW ev \in Event, EventOK(ev), MayPrecede(handling[1], ev)
          PROVE  EventOK(ev)'
      <3>1. ev.worker \in WorkerID
        BY Zenon DEF Event
      <3>2. CASE ev.worker = w0
        <4>1. ev.tp # "failed"
          BY <1>1, <1>2, <2>1, <3>2, Zenon DEF MayPrecede
        <4>2. ev.entry \in Entry /\ IdOf[ev.entry] = IdOf[e]
          BY <1>2, <2>1, <3>2, <4>1, Zenon DEF EventOK
        <4>3. ev.entry = e
          BY <4>2, Zenon
        <4>4. ev.tp = "offline"
          BY <1>6, <2>1, <4>1, <4>3, Zenon DEF EventOK, Event
        <4> QED
          BY <1>1, <1>3, <2>1, <3>2, <4>4, Zenon DEF EventOK
      <3>3. CASE ev.worker # w0
        BY <1>1, <1>3, <2>1, <3>1, <3>3, EventKept, Zenon DEF workerVars
      <3> QED
        BY <3>2, <3>3, Zenon
    <2> QED
      BY <1>1, <2>1, QueueShrinks, Zenon
  <1>12. RunningIsCurrent'
    BY <1>1, <1>3, Zenon DEF MasterInv, RunningIsCurrent, InEntries, workerVars
  <1> QED
    BY <1>4, <1>5, <1>7, <1>8, <1>9, <1>10, <1>11, <1>12, WorkersKept, Zenon
       DEF MasterInv, LocalInv, ManagerInv
\* InitAfterRecover makes an entry in state Wait of every active row of the table.
LEMMA LoadStep ==
  ASSUME MasterInv, InitAfterRecoverLoad(workerMeta), UNCHANGED workerVars
  PROVE  MasterInv'
  <1> DEFINE active == {w \in WorkerID : workerMeta[w] \notin {"none", "Finished"}}
             mine(pick, e) == IdOf[e] \in active /\ pick[IdOf[e]] = e
  <1>1. PICK pick \in [active -> Entry] :
          /\ \A w \in active : IdOf[pick[w]] = w
          /\ workerEntries' = [w \in WorkerID |->
               IF w \in active THEN pick[w] ELSE workerEntries[w]]
          /\ entryState' = [e \in Entry |-> IF mine(pick, e) THEN "Wait" ELSE entryState[e]]
          /\ status' = [e \in Entry |->
               IF mine(pick, e) THEN workerMeta[IdOf[e]] ELSE status[e]]
          /\ expired' = {e \in Entry : mine(pick, e)}
    BY Zenon DEF InitAfterRecoverLoad
  <1>2. /\ wmState = "LoadingMeta"
        /\ wmState' = IF active = {} THEN "Ready" ELSE "WaitingHeartbeat"
        /\ UNCHANGED <<epoch, finished, eventQueue, ticking, handling, sweep,
                       readyClosed, errs, panicked, told>>
    BY Zenon DEF InitAfterRecoverLoad
  <1>3. /\ ~ticking /\ handling = <<>> /\ sweep = {} /\ eventQueue = <<>> /\ ~readyClosed
        /\ \A w \in WorkerID : told[w] = "unknown" /\ workerEntries[w] = NoEntry
        /\ \A e \in Entry : entryState[e] = "Unused"
        /\ ManagerTypeOK /\ WorkersTypeOK
    BY <1>2, Zenon DEF MasterInv, ManagerInv, RecoveryInv
  <1>4. /\ \A w \in WorkerID : workerEntries'[w] = IF w \in active THEN pick[w] ELSE NoEntry
        /\ \A e \in Entry : entryState'[e] = IF IdOf[e] \in active THEN "Wait" ELSE "Unused"
    <2>1. \A e \in Entry : IdOf[e] \in active => pick[IdOf[e]] = e
      BY <1>1
    <2> QED
      BY <1>1, <1>3, <2>1, Zenon
  <1>5. /\ workerEntries' \in [WorkerID -> Entry \cup {NoEntry}]
        /\ entryState' \in [Entry -> EntryStates]
        /\ expired' \subseteq Entry
        /\ wmState' \in {"Ready", "WaitingHeartbeat"}
    BY <1>1, <1>2, <1>3, Zenon DEF ManagerTypeOK, EntryStates
  <1>6. status' \in [Entry -> StatusCodes]
    <2>1. \A w \in active : workerMeta[w] \in StatusCodes
      BY <1>3, Zenon DEF WorkersTypeOK
    <2> QED
      BY <1>1, <1>3, <2>1 DEF ManagerTypeOK
  <1>7. ManagerTypeOK'
    BY <1>2, <1>3, <1>5, <1>6, Zenon DEF ManagerTypeOK
  <1>8. \A e \in Entry : InEntries(e)' <=> IdOf[e] \in active
    <2>1. \A e \in Entry : IdOf[e] \in active => pick[IdOf[e]] = e
      BY <1>1
    <2> QED
      BY <1>4, <2>1 DEF InEntries
  <1>9. LocalInv'
    <2> SUFFICES ASSUME NEW e \in Entry
                 PROVE  CreateInv(e)' /\ EntryInv(e)' /\ WorkerInv(e)'
      BY Zenon DEF LocalInv
    <2>1. CreateInv(e) /\ EntryInv(e) /\ WorkerInv(e)
      BY Zenon DEF MasterInv, LocalInv
    <2>2. IdOf[e] \in active => life[e] # "none"
      BY <2>1, Zenon DEF WorkerInv
    <2>3. cpc[e] \notin {"scheduling", "dispatching", "confirming"}
      BY <1>2, <2>1, Zenon DEF CreateInv
    <2>4. e \in expired' => IdOf[e] \in active
      BY <1>1, Zenon
    <2>5. CreateInv(e)'
      BY <1>2, <1>3, <1>4, <2>1, <2>2, <2>3, <2>4, Zenon DEF CreateInv, workerVars
    <2>6. EntryInv(e)'
      BY <1>2, <1>4, <1>8, <2>2, Zenon DEF EntryInv, workerVars
    <2>7. WorkerInv(e)'
      BY <1>2, <2>1, Zenon DEF WorkerInv, workerVars
    <2> QED
      BY <2>5, <2>6, <2>7, Zenon
  <1>10. RecoveryInv'
    BY <1>2, <1>3, <1>5, Zenon DEF RecoveryInv
  <1>11. SweepInv' /\ NoPanic'
    BY <1>2, <1>3, Zenon DEF MasterInv, ManagerInv, SweepInv, NoPanic
  <1>12. MapInv' /\ BeliefMatches'
    BY <1>1, <1>2, <1>3, <1>4, Zenon DEF MapInv, BeliefMatches
  <1>13. ReleasedWhenDiscovered'
    <2> SUFFICES ASSUME active # {}
                 PROVE  \E e \in Entry : InEntries(e)' /\ entryState'[e] = "Wait"
      BY <1>2, <1>3, Zenon DEF ReleasedWhenDiscovered
    <2>1. PICK w \in active : pick[w] \in Entry /\ IdOf[pick[w]] = w
      BY <1>1, Zenon
    <2> QED
      BY <1>4, <1>8, <2>1, Zenon
  <1>14. QueueInv'
    <2>1. Waiting' = <<>>
      BY <1>2, <1>3 DEF Waiting
    <2> QED
      BY <2>1 DEF QueueInv
  <1>15. RunningIsCurrent'
    BY <1>4, Zenon DEF RunningIsCurrent
  <1> QED
    BY <1>7, <1>9, <1>10, <1>11, <1>12, <1>13, <1>14, <1>15, WorkersKept, Zenon
       DEF MasterInv, ManagerInv

\* InitAfterRecover ends: those that have not shown up become tombstones.
LEMMA FinishStep ==
  ASSUME MasterInv, InitAfterRecoverFinish, UNCHANGED workerVars
  PROVE  MasterInv'
  <1> DEFINE dead == {e \in Entry : InEntries(e) /\ (entryState[e] = "Wait" \/ e \in finished)}
  <1>1. /\ wmState = "WaitingHeartbeat" /\ wmState' = "Ready"
        /\ panicked' = panicked
        /\ entryState' = [e \in Entry |-> IF e \in dead THEN "Tombstone" ELSE entryState[e]]
        /\ told' = [w \in WorkerID |->
             IF workerEntries[w] = NoEntry THEN told[w]
             ELSE IF workerEntries[w] \in dead THEN "gone" ELSE "online"]
        /\ UNCHANGED <<epoch, workerEntries, finished, expired, status, eventQueue,
                       ticking, handling, sweep, readyClosed, errs>>
    BY Zenon DEF InitAfterRecoverFinish, PanicIf, MayGoTombstone
  <1>2. /\ ~ticking /\ handling = <<>> /\ sweep = {}
        /\ \A w \in WorkerID : told[w] = "unknown"
        /\ ManagerTypeOK /\ WorkersTypeOK
    BY <1>1, Zenon DEF MasterInv, ManagerInv, RecoveryInv
  <1>3. \A e \in Entry :
          /\ InEntries(e)' <=> InEntries(e)
          /\ InEntries(e) => /\ e \in dead \/ entryState[e] = "Normal"
                             /\ life[e] # "none"
                             /\ told'[IdOf[e]] = IF e \in dead THEN "gone" ELSE "online"
          /\ ~InEntries(e) => told'[IdOf[e]] = "unknown" /\ entryState'[e] = entryState[e]
          /\ e \in dead => entryState'[e] = "Tombstone"
          /\ e \notin dead => entryState'[e] = entryState[e]
    <2> SUFFICES ASSUME NEW e \in Entry
                 PROVE  /\ InEntries(e)' <=> InEntries(e)
                        /\ InEntries(e) =>
                             /\ e \in dead \/ entryState[e] = "Normal"
                             /\ life[e] # "none"
                             /\ told'[IdOf[e]] = IF e \in dead THEN "gone" ELSE "online"
                        /\ ~InEntries(e) =>
                             told'[IdOf[e]] = "unknown" /\ entryState'[e] = entryState[e]
                        /\ e \in dead => entryState'[e] = "Tombstone"
                        /\ e \notin dead => entryState'[e] = entryState[e]
      BY Zenon
    <2>1. EntryInv(e)
      BY Zenon DEF MasterInv, LocalInv
    <2>2. InEntries(e)' <=> InEntries(e)
      BY <1>1, Zenon DEF InEntries
    <2>3. InEntries(e) => e \in dead \/ entryState[e] = "Normal"
      BY <1>1, <2>1, Zenon DEF EntryInv
    <2>4. InEntries(e) => life[e] # "none"
      BY <1>1, <2>1, Zenon DEF EntryInv
    <2>5. InEntries(e) => told'[IdOf[e]] = IF e \in dead THEN "gone" ELSE "online"
      BY <1>1 DEF InEntries
    <2>6. ~InEntries(e) => told'[IdOf[e]] = "unknown" /\ entryState'[e] = entryState[e]
      BY <1>1, <1>2, TheEntry, Zenon
    <2>7. /\ e \in dead => entryState'[e] = "Tombstone"
          /\ e \notin dead => entryState'[e] = entryState[e]
      BY <1>1, Zenon
    <2> QED
      BY <2>2, <2>3, <2>4, <2>5, <2>6, <2>7, Zenon
  <1>4. ManagerTypeOK'
    <2>1. entryState' \in [Entry -> EntryStates] /\ told' \in [WorkerID -> Knowledge]
      BY <1>1, <1>2, Zenon DEF ManagerTypeOK, EntryStates, Knowledge
    <2> QED
      BY <1>1, <1>2, <2>1, Zenon DEF ManagerTypeOK
  <1>5. LocalInv'
    <2> SUFFICES ASSUME NEW e \in Entry
                 PROVE  CreateInv(e)' /\ EntryInv(e)' /\ WorkerInv(e)'
      BY Zenon DEF LocalInv
    <2>1. CreateInv(e) /\ EntryInv(e) /\ WorkerInv(e)
      BY Zenon DEF MasterInv, LocalInv
    <2>2. cpc[e] \notin {"scheduling", "dispatching", "confirming"}
      BY <1>1, <2>1, Zenon DEF CreateInv
    <2>3. cpc[e] = "idle" => ~InEntries(e)
      BY <2>1, TheEntry, Zenon DEF CreateInv
    <2>4. CreateInv(e)'
      BY <1>1, <1>3, <2>1, <2>2, <2>3, Zenon DEF CreateInv, workerVars
    <2>5. EntryInv(e)'
      <3>1. CASE e \in dead
        BY <1>1, <1>3, <3>1, Zenon DEF EntryInv
      <3>2. CASE e \notin dead
        <4>1. InEntries(e)' => entryState'[e] = "Normal" /\ told'[IdOf[e]] = "online"
          BY <1>3, <3>2, Zenon
        <4>2. wmState' = "Ready"
          BY <1>1, Zenon
        <4> QED
          BY <4>1, <4>2, Zenon DEF EntryInv
      <3> QED
        BY <3>1, <3>2, Zenon
    <2>6. WorkerInv(e)'
      BY <1>1, <2>1, Zenon DEF WorkerInv, workerVars
    <2> QED
      BY <2>4, <2>5, <2>6, Zenon
  <1>6. RecoveryInv' /\ SweepInv' /\ NoPanic' /\ ReleasedWhenDiscovered'
    BY <1>1, <1>2, Zenon DEF MasterInv, ManagerInv, RecoveryInv, SweepInv, NoPanic,
           ReleasedWhenDiscovered
  <1>7. MapInv'
    BY <1>1, <1>2, Zenon DEF MasterInv, ManagerInv, MapInv
  <1>8. BeliefMatches'
    <2> SUFFICES ASSUME NEW w \in WorkerID
                 PROVE  /\ told'[w] = "online" =>
                             /\ workerEntries[w] # NoEntry
                             /\ entryState'[workerEntries[w]] \in {"Normal", "Offline"}
                        /\ told'[w] = "gone" =>
                             \/ workerEntries[w] = NoEntry
                             \/ entryState'[workerEntries[w]] = "Tombstone"
      BY <1>1, Zenon DEF BeliefMatches
    <2>1. CASE workerEntries[w] = NoEntry
      BY <1>1, <1>2, <2>1, Zenon
    <2>2. CASE workerEntries[w] # NoEntry
      <3>1. /\ workerEntries[w] \in Entry /\ InEntries(workerEntries[w])
            /\ IdOf[workerEntries[w]] = w
        BY <2>2, TheEntry, Zenon
      <3> QED
        BY <1>3, <3>1
    <2> QED
      BY <2>1, <2>2, Zenon
  <1>9. QueueInv'
    <2>1. Waiting' = Waiting
      BY <1>1, Zenon DEF Waiting
    <2>2. ASSUME NEW ev \in Event, EventOK(ev)
          PROVE  EventOK(ev)'
      <3>1. ev.worker \in WorkerID /\ told[ev.worker] = "unknown"
        BY <1>2, Zenon DEF Event
      <3>2. /\ ev.tp = "status" /\ ev.entry \in Entry /\ ev.worker = IdOf[ev.entry]
            /\ life[ev.entry] # "none" /\ ev.arg \in StatusCodes
            /\ InEntries(ev.entry) \/ entryState[ev.entry] = "Tombstone"
        BY <2>2, <3>1, Zenon DEF EventOK, Event
      <3>3. InEntries(ev.entry)' \/ entryState'[ev.entry] = "Tombstone"
        BY <1>3, <3>2, Zenon
      <3> QED
        BY <3>2, <3>3, Zenon DEF EventOK, workerVars
    <2> QED
      BY <1>2, <2>1, <2>2, QueueKept, Zenon DEF MasterInv
  <1>10. RunningIsCurrent'
    BY <1>1, <1>3, ZenonT(40) DEF MasterInv, RunningIsCurrent, workerVars
  <1> QED
    BY <1>4, <1>5, <1>6, <1>7, <1>8, <1>9, <1>10, WorkersKept, Zenon DEF MasterInv,
           ManagerInv

-----------------------------------------------------------------------------
(* Steps of both, and the theorem.                                          *)

\* CreateWorker returns an ID and starts its goroutine.
LEMMA CreateStep ==
  ASSUME MasterInv, NEW e \in Entry, CreateWorker(e)
  PROVE  MasterInv'
  <1>1. /\ wmState = "Ready" /\ cpc[e] = "idle"
        /\ cpc' = [cpc EXCEPT ![e] = "scheduling"]
        /\ told' = [told EXCEPT ![IdOf[e]] = "creating"]
        /\ UNCHANGED <<wmState, epoch, workerEntries, entryState, finished, expired,
                       status, eventQueue, ticking, handling, sweep, readyClosed,
                       errs, panicked, life, workerEpoch, pings, statusMsgs,
                       workerMeta, workerStatus, lastStatus>>
        /\ ManagerTypeOK /\ WorkersTypeOK
    BY Zenon DEF CreateWorker, MasterInv, metaVars
  <1>2. /\ CreateInv(e) /\ EntryInv(e) /\ WorkerInv(e)
        /\ workerEntries[IdOf[e]] = NoEntry /\ entryState[e] = "Unused"
        /\ told[IdOf[e]] = "unknown" /\ life[e] = "none"
    BY <1>1, Zenon DEF MasterInv, LocalInv, CreateInv
  <1>3. /\ told'[IdOf[e]] = "creating" /\ cpc'[e] = "scheduling"
        /\ \A w \in WorkerID \ {IdOf[e]} : told'[w] = told[w]
        /\ \A f \in Entry \ {e} : cpc'[f] = cpc[f]
        /\ told' \in [WorkerID -> Knowledge]
        /\ cpc' \in [Entry -> CreateStates]
    BY <1>1 DEF ManagerTypeOK, WorkersTypeOK, Knowledge, CreateStates
  <1>4. ManagerTypeOK' /\ WorkersTypeOK'
    BY <1>1, <1>3, Zenon DEF ManagerTypeOK, WorkersTypeOK
  <1>5. \A f \in Entry \ {e} : CreateInv(f)' /\ EntryInv(f)' /\ WorkerInv(f)'
    BY <1>1, <1>3, EntryKept
  <1>6. CreateInv(e)' /\ EntryInv(e)' /\ WorkerInv(e)'
    BY <1>1, <1>2, <1>3, Zenon DEF CreateInv, EntryInv, WorkerInv, InEntries
  <1>7. RecoveryInv' /\ SweepInv' /\ NoPanic' /\ ReleasedWhenDiscovered'
    BY <1>1, ZenonT(40) DEF MasterInv, ManagerInv, RecoveryInv, SweepInv, NoPanic,
           ReleasedWhenDiscovered, InEntries
  <1>8. MapInv' /\ BeliefMatches'
    BY <1>1, <1>3 DEF MasterInv, ManagerInv, MapInv, BeliefMatches
  <1>9. QueueInv'
    <2>1. Waiting' = Waiting
      BY <1>1, Zenon DEF Waiting
    <2>2. ASSUME NEW ev \in Event, EventOK(ev)
          PROVE  EventOK(ev)'
      <3>1. ev.worker \in WorkerID
        BY Zenon DEF Event
      <3>2. CASE ev.worker = IdOf[e]
        <4>1. ev.tp = "status" /\ ev.entry = e
          BY <1>2, <2>2, <3>2, SMTT(40) DEF EventOK, Event
        <4> QED
          BY <1>2, <2>2, <4>1, ZenonT(40) DEF EventOK
      <3>3. CASE ev.worker # IdOf[e]
        BY <1>1, <1>3, <2>2, <3>1, <3>3, EventKept, Zenon
      <3> QED
        BY <3>2, <3>3, Zenon
    <2> QED
      BY <1>1, <2>1, <2>2, QueueKept, Zenon DEF MasterInv
  <1>10. PingInv' /\ RunningIsCurrent'
    BY <1>1, Zenon DEF MasterInv, PingInv, RunningIsCurrent, InEntries
  <1> QED
    BY <1>4, <1>5, <1>6, <1>7, <1>8, <1>9, <1>10, Zenon DEF MasterInv, LocalInv, ManagerInv

\* The goroutine reports that the worker was not and will not be created.
LEMMA AbortStep ==
  ASSUME MasterInv, NEW e \in Entry, ScheduleFailed(e) \/ ConfirmAborted(e)
  PROVE  MasterInv'
  <1>1. /\ cpc[e] = "scheduling" \/ (cpc[e] = "confirming" /\ life[e] = "none")
        /\ cpc' = [cpc EXCEPT ![e] = "failed"]
        /\ EnqueueEvent(FailedEvent(IdOf[e]), "handler")
        /\ UNCHANGED <<wmState, epoch, workerEntries, entryState, finished, expired,
                       status, ticking, handling, sweep, readyClosed, panicked, told,
                       life, workerEpoch, pings, statusMsgs,
                       workerMeta, workerStatus, lastStatus>>
        /\ ManagerTypeOK /\ WorkersTypeOK
    BY DispatchFacts, Zenon DEF ScheduleFailed, ConfirmAborted, Goes,
       AbortCreatingWorker, MasterInv, metaVars
  <1>2. /\ CreateInv(e) /\ EntryInv(e) /\ WorkerInv(e) /\ life[e] = "none"
        /\ entryState[e] \in {"Unused", "Created"}
        /\ told[IdOf[e]] = "creating" /\ wmState = "Ready"
    BY <1>1, Zenon DEF MasterInv, LocalInv, CreateInv, EntryInv
  <1>3. /\ cpc'[e] = "failed"
        /\ \A f \in Entry \ {e} : cpc'[f] = cpc[f]
        /\ cpc' \in [Entry -> CreateStates]
    BY <1>1, Zenon DEF WorkersTypeOK, CreateStates
  <1>4. /\ FailedEvent(IdOf[e]) \in Event /\ FailedEvent(IdOf[e]).tp = "failed"
        /\ FailedEvent(IdOf[e]).worker = IdOf[e]
    BY Zenon DEF FailedEvent, Event
  <1>5. ManagerTypeOK'
    BY <1>1, <1>4, EnqueueTyped, Zenon DEF ManagerTypeOK
  <1>6. WorkersTypeOK'
    BY <1>1, <1>3, Zenon DEF WorkersTypeOK
  <1>7. \A f \in Entry \ {e} : CreateInv(f)' /\ EntryInv(f)' /\ WorkerInv(f)'
    BY <1>1, <1>3, EntryKept, Zenon
  <1>8. CreateInv(e)' /\ EntryInv(e)' /\ WorkerInv(e)'
    BY <1>1, <1>2, <1>3, ZenonT(40) DEF CreateInv, EntryInv, WorkerInv, InEntries
  <1>9. ManagerInv'
    BY <1>1, <1>2, Zenon
    DEF MasterInv, ManagerInv, RecoveryInv, SweepInv, MapInv, NoPanic,
           BeliefMatches, ReleasedWhenDiscovered, InEntries
  <1>10. QueueInv'
    <2>1. ASSUME NEW ev \in Event, EventOK(ev)
          PROVE  EventOK(ev)' /\ MayPrecede(ev, FailedEvent(IdOf[e]))
      <3>1. EventOK(ev)'
        BY <1>1, <1>3, <2>1, EventKept, Zenon
      <3>2. CASE ev.worker = IdOf[e]
        <4>0. entryState[e] # "Offline" /\ cpc[e] # "failed"
          BY <1>1, <1>2, Zenon
        <4>1. ev.tp # "offline"
          <5>1. ev.tp = "offline" => /\ ev.entry \in Entry /\ ev.worker = IdOf[ev.entry]
                                     /\ entryState[ev.entry] = "Offline"
            BY <2>1, Zenon DEF EventOK
          <5> QED
            BY <3>2, <4>0, <5>1, ZenonT(40)
        <4>2. ev.tp # "failed"
          <5>1. ev.tp = "failed" => \E f \in Entry : IdOf[f] = IdOf[e] /\ cpc[f] = "failed"
            BY <2>1, <3>2, Zenon DEF EventOK
          <5> QED
            BY <4>0, <5>1, Zenon
        <4> QED
          BY <1>4, <3>1, <4>1, <4>2, Zenon DEF MayPrecede
      <3>3. CASE ev.worker # IdOf[e]
        BY <1>4, <3>1, <3>3, Zenon DEF MayPrecede
      <3> QED
        BY <3>2, <3>3, Zenon
    <2>2. EventOK(FailedEvent(IdOf[e]))'
      BY <1>1, <1>2, <1>3, <1>4, Zenon DEF EventOK, FailedEvent
    <2> QED
      BY <1>1, <1>4, <2>1, <2>2, QueueGrows, Zenon DEF MasterInv
  <1>11. PingInv' /\ RunningIsCurrent'
    BY <1>1, Zenon DEF MasterInv, PingInv, RunningIsCurrent, InEntries
  <1> QED
    BY <1>5, <1>6, <1>7, <1>8, <1>9, <1>10, <1>11, Zenon DEF MasterInv, LocalInv

\* The timer callback of DispatchTask makes the entry.
LEMMA StartTimerStep ==
  ASSUME MasterInv, NEW e \in Entry, StartTimer(e)
  PROVE  MasterInv'
  <1>1. /\ CreateInv(e) /\ EntryInv(e) /\ WorkerInv(e) /\ cpc[e] = "dispatching"
        /\ workerEntries[IdOf[e]] = NoEntry /\ entryState[e] = "Unused"
        /\ told[IdOf[e]] = "creating" /\ life[e] = "none" /\ wmState = "Ready"
    BY DispatchFacts, Zenon DEF MasterInv, LocalInv, CreateInv, Goes
  <1>2. /\ cpc' = [cpc EXCEPT ![e] = "confirming"] /\ sweep = {}
        /\ workerEntries' = [workerEntries EXCEPT ![IdOf[e]] = e]
        /\ entryState' = [entryState EXCEPT ![e] = "Created"]
        /\ UNCHANGED <<wmState, epoch, finished, expired, status, eventQueue, ticking,
                       handling, sweep, readyClosed, errs, told, panicked,
                       life, workerEpoch, pings, statusMsgs,
                       workerMeta, workerStatus, lastStatus>>
        /\ ManagerTypeOK /\ WorkersTypeOK
    BY <1>1, DispatchFacts, Zenon DEF StartTimer, Goes, BeforeStartingWorker, MuFree, PanicIf, MasterInv,
           metaVars
  <1>3. /\ cpc'[e] = "confirming" /\ entryState'[e] = "Created"
        /\ workerEntries'[IdOf[e]] = e
        /\ \A w \in WorkerID \ {IdOf[e]} : workerEntries'[w] = workerEntries[w]
        /\ \A f \in Entry \ {e} : cpc'[f] = cpc[f] /\ entryState'[f] = entryState[f]
    BY <1>2, Zenon DEF WorkersTypeOK, ManagerTypeOK
  <1>4. ManagerTypeOK' /\ WorkersTypeOK'
    <2>1. /\ workerEntries' \in [WorkerID -> Entry \cup {NoEntry}]
          /\ entryState' \in [Entry -> EntryStates]
          /\ cpc' \in [Entry -> CreateStates]
      BY <1>2, ZenonT(40)
      DEF ManagerTypeOK, WorkersTypeOK, EntryStates, CreateStates
    <2> QED
      BY <1>2, <2>1, Zenon DEF ManagerTypeOK, WorkersTypeOK
  <1>5. \A f \in Entry \ {e} : CreateInv(f)' /\ EntryInv(f)' /\ WorkerInv(f)'
    BY <1>2, <1>3, EntryKept, ZenonT(40)
  <1>6. e \notin expired /\ e \notin finished
    BY <1>1, Zenon DEF CreateInv, WorkerInv
  <1>7. CreateInv(e)' /\ EntryInv(e)' /\ WorkerInv(e)'
    BY <1>1, <1>2, <1>3, <1>6, Zenon DEF CreateInv, EntryInv, WorkerInv, InEntries
  <1>8. RecoveryInv' /\ SweepInv' /\ NoPanic' /\ ReleasedWhenDiscovered'
    BY <1>1, <1>2, Zenon DEF MasterInv, ManagerInv, RecoveryInv, SweepInv, NoPanic,
           ReleasedWhenDiscovered
  <1>9. MapInv'
    <2> SUFFICES ASSUME NEW w \in WorkerID
                 PROVE  /\ workerEntries'[w] # NoEntry => IdOf[workerEntries'[w]] = w
                        /\ told[w] = "failed" => workerEntries'[w] = NoEntry
      BY <1>2, Zenon DEF MapInv
    <2>1. CASE w = IdOf[e]
      BY <1>1, <1>3, <2>1, Zenon
    <2>2. CASE w # IdOf[e]
      <3>1. workerEntries'[w] = workerEntries[w]
        BY <1>3, <2>2, Zenon
      <3> QED
        BY <3>1, Zenon DEF MasterInv, ManagerInv, MapInv
    <2> QED
      BY <2>1, <2>2, Zenon
  <1>10. BeliefMatches'
    <2> SUFFICES ASSUME NEW w \in WorkerID \ {IdOf[e]}
                 PROVE  /\ told[w] = "online" =>
                             /\ workerEntries[w] # NoEntry
                             /\ entryState'[workerEntries[w]] \in {"Normal", "Offline"}
                        /\ told[w] = "gone" =>
                             \/ workerEntries[w] = NoEntry
                             \/ entryState'[workerEntries[w]] = "Tombstone"
      BY <1>1, <1>2, <1>3 DEF BeliefMatches
    <2>1. workerEntries[w] # NoEntry => workerEntries[w] \in Entry \ {e}
      BY TheEntry, Zenon
    <2> QED
      BY <1>3, <2>1, Zenon DEF MasterInv, ManagerInv, BeliefMatches
  <1>11. QueueInv'
    <2>1. Waiting' = Waiting
      BY <1>2, Zenon DEF Waiting
    <2>2. ASSUME NEW ev \in Event, EventOK(ev)
          PROVE  EventOK(ev)'
      <3>1. ev.worker \in WorkerID
        BY Zenon DEF Event
      <3>2. ev.worker # IdOf[e]
        BY <1>1, <2>2 DEF EventOK, Event, InEntries
      <3> QED
        BY <1>1, <1>2, <1>3, <2>2, <3>1, <3>2, EventKept, ZenonT(40)
    <2> QED
      BY <1>2, <2>1, <2>2, QueueKept, Zenon DEF MasterInv
  <1>12. PingInv' /\ RunningIsCurrent'
    BY <1>2, <1>3 DEF MasterInv, PingInv, RunningIsCurrent, InEntries
  <1> QED
    BY <1>4, <1>5, <1>7, <1>8, <1>9, <1>10, <1>11, <1>12, Zenon DEF MasterInv, LocalInv,
           ManagerInv
\* A status message arrives and its event is queued.
LEMMA DeliverStatusStep ==
  ASSUME MasterInv, NEW e \in Entry, DeliverStatus(e)
  PROVE  MasterInv'
  <1>1. /\ ManagerTypeOK /\ WorkersTypeOK
        /\ statusMsgs[e] \in Seq(StatusMsg) /\ statusMsgs[e] # <<>>
    BY Zenon DEF DeliverStatus, MasterInv, WorkersTypeOK
  <1>2. PICK s \in StatusCodes : s = Head(statusMsgs[e]).code
    <2>1. Head(statusMsgs[e]) \in StatusMsg
      BY <1>1
    <2> QED
      BY <2>1, Zenon DEF StatusMsg
  <1>3. /\ Tail(statusMsgs[e]) \in Seq(StatusMsg) /\ Len(statusMsgs[e]) # 0
    BY <1>1
  <1>4. CreateInv(e) /\ EntryInv(e) /\ WorkerInv(e) /\ life[e] # "none"
    BY <1>3, Zenon DEF MasterInv, LocalInv, WorkerInv
  <1>5. InEntries(e)
    BY TheEntry, Zenon DEF DeliverStatus, OnWorkerStatusUpdateMessage, InEntries
  <1>6. /\ statusMsgs' = [statusMsgs EXCEPT ![e] = Tail(statusMsgs[e])]
        /\ EnqueueEvent(StatusEvent(e, s), "handler")
        /\ UNCHANGED <<wmState, epoch, workerEntries, entryState, finished, expired,
                       status, ticking, handling, sweep, readyClosed, panicked, told,
                       cpc, life, workerEpoch, pings,
                       workerMeta, workerStatus, lastStatus>>
    BY <1>2, <1>5, Zenon DEF DeliverStatus, OnWorkerStatusUpdateMessage, InEntries,
           metaVars
  <1>7. /\ StatusEvent(e, s) \in Event /\ StatusEvent(e, s).tp = "status"
        /\ StatusEvent(e, s).entry = e /\ StatusEvent(e, s).worker = IdOf[e]
        /\ StatusEvent(e, s).arg = s
    BY Zenon DEF StatusEvent, Event
  <1>8. ManagerTypeOK'
    BY <1>1, <1>6, <1>7, EnqueueTyped, Zenon DEF ManagerTypeOK
  <1>9. WorkersTypeOK'
    BY <1>1, <1>3, <1>6, Zenon DEF WorkersTypeOK
  <1>10. \A f \in Entry \ {e} : CreateInv(f)' /\ EntryInv(f)' /\ WorkerInv(f)'
    <2>1. \A f \in Entry \ {e} : statusMsgs'[f] = statusMsgs[f]
      BY <1>1, <1>6, Zenon DEF WorkersTypeOK
    <2> QED
      BY <1>6, <2>1, EntryKept, Zenon
  <1>11. CreateInv(e)' /\ EntryInv(e)' /\ WorkerInv(e)'
    BY <1>4, <1>6 DEF CreateInv, EntryInv, WorkerInv, InEntries
  <1>12. ManagerInv'
    <2>1. wmState # "LoadingMeta"
      BY <1>5, TheEntry DEF MasterInv, ManagerInv, RecoveryInv
    <2> QED
      BY <1>6, <2>1, Zenon DEF MasterInv, ManagerInv, RecoveryInv, SweepInv, MapInv,
             NoPanic,
             BeliefMatches, ReleasedWhenDiscovered, InEntries
  <1>13. QueueInv'
    <2>1. \A ev \in Event : EventOK(ev) => EventOK(ev)'
      BY <1>6, EventKept, Zenon
    <2>2. EventOK(StatusEvent(e, s))'
      BY <1>4, <1>5, <1>6, <1>7, Zenon DEF EventOK, StatusEvent, InEntries
    <2>3. \A ev \in Event : MayPrecede(ev, StatusEvent(e, s))
      BY <1>7, Zenon DEF MayPrecede
    <2> QED
      BY <1>1, <1>6, <1>7, <2>1, <2>2, <2>3, QueueGrows, Zenon DEF MasterInv
  <1>14. PingInv' /\ RunningIsCurrent'
    BY <1>6, Zenon DEF MasterInv, PingInv, RunningIsCurrent, InEntries
  <1> QED
    BY <1>8, <1>9, <1>10, <1>11, <1>12, <1>13, <1>14 DEF MasterInv, LocalInv

\* The master implementation cleans up after a worker it was told is gone.
LEMMA CleanStep ==
  ASSUME MasterInv, NEW w0 \in WorkerID, CleanTombstone(w0)
  PROVE  MasterInv'
  <1>1. /\ told[w0] \in {"gone", "failed"} /\ sweep = {}
        /\ workerMeta' = [workerMeta EXCEPT ![w0] = "none"]
        /\ workerEntries' = [workerEntries EXCEPT ![w0] = NoEntry]
        /\ UNCHANGED <<wmState, epoch, entryState, finished, expired, status,
                       eventQueue, ticking, handling, sweep, readyClosed, errs, told,
                       cpc, life, workerEpoch, pings, statusMsgs, workerStatus,
                       lastStatus>>
        /\ ManagerTypeOK /\ WorkersTypeOK
    BY Zenon DEF CleanTombstone, removeTombstoneEntry, MuFree, MasterInv
  <1>2. workerEntries[w0] = NoEntry \/ entryState[workerEntries[w0]] = "Tombstone"
    BY <1>1, Zenon DEF MasterInv, ManagerInv, BeliefMatches, MapInv
  <1>3. panicked' = panicked
    BY <1>2, Zenon DEF CleanTombstone, removeTombstoneEntry, PanicIf
  <1>4. /\ workerEntries'[w0] = NoEntry
        /\ \A w \in WorkerID \ {w0} : /\ workerEntries'[w] = workerEntries[w]
                                      /\ workerMeta'[w] = workerMeta[w]
        /\ workerMeta'[w0] = "none"
        /\ workerEntries' \in [WorkerID -> Entry \cup {NoEntry}]
        /\ workerMeta' \in [WorkerID -> {"none"} \cup StatusCodes]
    BY <1>1, Zenon DEF ManagerTypeOK, WorkersTypeOK
  <1>5. ManagerTypeOK' /\ WorkersTypeOK'
    BY <1>1, <1>3, <1>4, Zenon DEF ManagerTypeOK, WorkersTypeOK
  <1>6. wmState = "Ready"
    BY <1>1, Zenon DEF MasterInv, ManagerInv, RecoveryInv
  <1>7. LocalInv'
    <2> SUFFICES ASSUME NEW f \in Entry
                 PROVE  CreateInv(f)' /\ EntryInv(f)' /\ WorkerInv(f)'
      BY Zenon DEF LocalInv
    <2>1. CASE IdOf[f] # w0
      BY <1>1, <1>4, <2>1, EntryKept, Zenon
    <2>2. CASE IdOf[f] = w0
      <3>1. CreateInv(f) /\ EntryInv(f) /\ WorkerInv(f)
        BY Zenon DEF MasterInv, LocalInv
      <3>2. ~InEntries(f)'
        BY <1>4, <2>2, Zenon DEF InEntries
      <3>3. ~(cpc[f] = "confirming" /\ life[f] = "none")
        BY <1>2, <2>2, <3>1, TheEntry, Zenon DEF CreateInv, InEntries
      <3>4. CreateInv(f)'
        BY <1>1, <1>4, <2>2, <3>1, <3>3, Zenon DEF CreateInv
      <3> QED
        BY <1>1, <1>4, <2>2, <3>1, <3>2, <3>4, Zenon DEF EntryInv, WorkerInv
    <2> QED
      BY <2>1, <2>2, Zenon
  <1>8. RecoveryInv' /\ SweepInv' /\ NoPanic' /\ ReleasedWhenDiscovered'
    BY <1>1, <1>3, <1>6, ZenonT(40)
    DEF MasterInv, ManagerInv, RecoveryInv, SweepInv, NoPanic,
           ReleasedWhenDiscovered
  <1>9. MapInv' /\ BeliefMatches'
    BY <1>1, <1>4 DEF MasterInv, ManagerInv, MapInv, BeliefMatches
  <1>10. QueueInv'
    <2>1. Waiting' = Waiting
      BY <1>1, Zenon DEF Waiting
    <2>2. ASSUME NEW ev \in Event, EventOK(ev)
          PROVE  EventOK(ev)'
      <3>1. ev.worker \in WorkerID
        BY Zenon DEF Event
      <3>2. CASE ev.worker = w0
        <4>1. ev.tp \in {"offline", "status"} /\ ev.entry \in Entry /\ IdOf[ev.entry] = w0
          BY <1>1, <2>2, <3>2, Zenon DEF EventOK, Event
        <4>2. ev.tp = "status" => entryState[ev.entry] = "Tombstone"
          BY <1>2, <2>2, <4>1, TheEntry, ZenonT(40) DEF EventOK, InEntries
        <4> QED
          BY <1>1, <2>2, <4>1, <4>2, Zenon DEF EventOK
      <3>3. CASE ev.worker # w0
        BY <1>1, <1>4, <2>2, <3>1, <3>3, EventKept, Zenon
      <3> QED
        BY <3>2, <3>3, Zenon
    <2> QED
      BY <1>1, <2>1, <2>2, QueueKept, Zenon DEF MasterInv
  <1>11. PingInv' /\ RunningIsCurrent'
    <2>1. \A f \in Entry : InEntries(f)' => InEntries(f)
      BY <1>1, <1>4, Zenon DEF InEntries
    <2> QED
      BY <1>1, <2>1, Zenon DEF MasterInv, PingInv, RunningIsCurrent
  <1> QED
    BY <1>5, <1>7, <1>8, <1>9, <1>10, <1>11, Zenon DEF MasterInv, ManagerInv

\* The master is lost and a new one starts.
LEMMA FailoverStep ==
  ASSUME MasterInv, Failover
  PROVE  MasterInv'
  <1>1. /\ epoch' = epoch + 1 /\ NewManager("LoadingMeta")
        /\ UNCHANGED <<life, workerEpoch, pings, statusMsgs,
                       workerMeta, workerStatus, lastStatus>>
        /\ ManagerTypeOK /\ WorkersTypeOK
    BY Zenon DEF Failover, MasterInv, metaVars
  <1>2. cpc' = [e \in Entry |->
          CASE cpc[e] \in {"scheduling", "dispatching"} -> "failed"
            [] cpc[e] = "confirming" -> "lost"
            [] OTHER -> cpc[e]]
    BY Zenon DEF Failover
  <1>3. cpc' \in [Entry -> CreateStates]
    BY <1>1, <1>2, Zenon DEF WorkersTypeOK, CreateStates
  <1>4. WorkersTypeOK'
    BY <1>1, <1>3, Zenon DEF WorkersTypeOK
  <1>5. ManagerTypeOK'
    <2>1. /\ workerEntries' \in [WorkerID -> Entry \cup {NoEntry}]
          /\ entryState' \in [Entry -> EntryStates] /\ status' \in [Entry -> StatusCodes]
          /\ told' \in [WorkerID -> Knowledge] /\ epoch' \in Nat \ {0}
      BY <1>1 DEF ManagerTypeOK, NewManager, EntryStates, StatusCodes, Knowledge
    <2>2. /\ eventQueue' = <<>> /\ handling' = <<>> /\ ticking' = FALSE
          /\ readyClosed' = FALSE /\ finished' = {} /\ expired' = {} /\ sweep' = {}
          /\ errs' = {} /\ panicked' = panicked /\ wmState' = "LoadingMeta"
      BY <1>1, Zenon DEF NewManager
    <2>3. /\ eventQueue' \in Seq(Event) /\ Len(eventQueue') <= QueueCap
          /\ handling' \in Seq(Event) /\ Len(handling') <= 1
      BY <2>2
    <2>4. ticking' \in BOOLEAN /\ readyClosed' \in BOOLEAN
      BY <2>2, Zenon
    <2> QED
      BY <1>1, <2>1, <2>2, <2>3, <2>4, Zenon DEF ManagerTypeOK
  <1>6. LocalInv'
    <2> SUFFICES ASSUME NEW e \in Entry
                 PROVE  CreateInv(e)' /\ EntryInv(e)' /\ WorkerInv(e)'
      BY Zenon DEF LocalInv
    <2>1. CreateInv(e) /\ WorkerInv(e)
      BY Zenon DEF MasterInv, LocalInv
    <2>2. /\ cpc[e] \in {"scheduling", "dispatching"} => cpc'[e] = "failed"
          /\ cpc[e] = "confirming" => cpc'[e] = "lost"
          /\ cpc[e] \notin {"scheduling", "dispatching", "confirming"} => cpc'[e] = cpc[e]
      BY <1>2, Zenon
    <2>3. /\ workerEntries'[IdOf[e]] = NoEntry /\ entryState'[e] = "Unused"
          /\ told'[IdOf[e]] = "unknown" /\ wmState' = "LoadingMeta"
          /\ finished' = {} /\ expired' = {}
      BY <1>1, Zenon DEF NewManager
    <2>4. CreateInv(e)'
      BY <1>1, <2>1, <2>2, <2>3, Zenon DEF CreateInv
    <2>5. EntryInv(e)'
      BY <2>3, Zenon DEF EntryInv, InEntries
    <2>6. workerEpoch[e] \in Nat /\ epoch \in Nat
      BY <1>1, ZenonT(40) DEF ManagerTypeOK, WorkersTypeOK
    <2>7. WorkerInv(e)'
      <3>1. /\ workerEpoch[e] <= epoch /\ epoch' = epoch + 1
            /\ workerEpoch' = workerEpoch
        BY <1>1, <2>1, Zenon DEF WorkerInv
      <3>2. workerEpoch'[e] <= epoch'
        BY <2>6, <3>1
      <3> QED
        BY <1>1, <2>1, <2>3, <3>2, Zenon DEF WorkerInv
    <2> QED
      BY <2>4, <2>5, <2>7, Zenon
  <1>7. ManagerInv'
    BY <1>1, Zenon DEF MasterInv, ManagerInv, RecoveryInv, SweepInv, MapInv, NoPanic,
           BeliefMatches, ReleasedWhenDiscovered, NewManager
  <1>8. QueueInv'
    <2>1. Waiting' = <<>>
      BY <1>1 DEF Waiting, NewManager
    <2> QED
      BY <2>1 DEF QueueInv
  <1>9. PingInv' /\ RunningIsCurrent'
    BY <1>1, Zenon DEF MasterInv, PingInv, RunningIsCurrent, InEntries, NewManager
  <1> QED
    BY <1>4, <1>5, <1>6, <1>7, <1>8, <1>9, Zenon DEF MasterInv

\* The first master finds nothing.
LEMMA MasterInit == Init => MasterInv
  <1> SUFFICES ASSUME Init PROVE MasterInv
    BY Zenon
  <1>1. ManagerTypeOK
    <2>1. /\ workerEntries \in [WorkerID -> Entry \cup {NoEntry}]
          /\ entryState \in [Entry -> EntryStates] /\ status \in [Entry -> StatusCodes]
          /\ told \in [WorkerID -> Knowledge]
      BY Zenon DEF Init, ManagerInit, EntryStates, StatusCodes, Knowledge
    <2>2. /\ eventQueue = <<>> /\ handling = <<>> /\ ticking = FALSE
          /\ readyClosed = FALSE /\ finished = {} /\ expired = {} /\ sweep = {}
          /\ errs = {} /\ panicked = {} /\ wmState = "Ready" /\ epoch = 1
      BY Zenon DEF Init, ManagerInit
    <2>3. /\ eventQueue \in Seq(Event) /\ Len(eventQueue) <= QueueCap
          /\ handling \in Seq(Event) /\ Len(handling) <= 1
      BY <2>2
    <2>4. ticking \in BOOLEAN /\ readyClosed \in BOOLEAN
      BY <2>2, Zenon
    <2> QED
      BY <2>1, <2>2, <2>3, <2>4 DEF ManagerTypeOK
  <1>2. WorkersTypeOK
    <2>1. <<>> \in Seq(StatusMsg)
      OBVIOUS
    <2> QED
      BY <2>1, Zenon DEF Init, WorkersTypeOK, CreateStates, LifeStates
  <1>3. LocalInv
    BY DEF Init, ManagerInit, LocalInv, CreateInv, EntryInv, WorkerInv, InEntries
  <1>4. ManagerInv /\ PingInv /\ RunningIsCurrent
    BY Zenon DEF Init, ManagerInit, ManagerInv, RecoveryInv, SweepInv, MapInv,
           NoPanic,
           BeliefMatches, ReleasedWhenDiscovered, PingInv, RunningIsCurrent, InEntries
  <1>5. QueueInv
    <2>1. Waiting = <<>>
      BY DEF Init, ManagerInit, Waiting
    <2> QED
      BY <2>1 DEF QueueInv
  <1> QED
    BY <1>1, <1>2, <1>3, <1>4, <1>5, Zenon DEF MasterInv

\* A step that changes nothing.
LEMMA MasterStutter ==
  ASSUME MasterInv, UNCHANGED vars
  PROVE  MasterInv'
  <1>1. UNCHANGED managerVars /\ UNCHANGED workerVars
    BY Zenon DEF vars
  <1>2. ManagerTypeOK' /\ ManagerInv' /\ QueueInv'
    BY <1>1, ManagerKept, Zenon DEF workerVars
  <1>3. LocalInv'
    BY <1>1, OthersKept, Zenon DEF LocalInv, workerVars
  <1>4. RunningIsCurrent'
    BY <1>1, Zenon DEF MasterInv, RunningIsCurrent, InEntries, managerVars, workerVars
  <1> QED
    BY <1>1, <1>2, <1>3, <1>4, WorkersKept, Zenon DEF MasterInv

\* No status message on its way is of an epoch that is still to come.
StatusInv ==
  \A e \in Entry : \A i \in 1 .. Len(statusMsgs[e]) : statusMsgs[e][i].epoch <= epoch

\* A message of another epoch is one of a smaller epoch: it is dropped, and no
\* handler panics.
LEMMA RefusedIsDropped ==
  ASSUME MasterInv, StatusInv
  PROVE  /\ \A m \in pings : RefusePing(m) => UNCHANGED vars
         /\ \A e \in Entry : RefuseStatus(e) => LoseStatus(e)
  <1>1. /\ epoch \in Nat /\ workerEpoch \in [Entry -> Nat]
        /\ pings \subseteq Ping /\ statusMsgs \in [Entry -> Seq(StatusMsg)]
    BY Zenon DEF MasterInv, ManagerTypeOK, WorkersTypeOK
  <1>2. ASSUME NEW n \in Nat, n <= epoch, EpochMismatch(n)
        PROVE  UNCHANGED managerVars
    <2>1. ~(n > epoch)
      BY <1>1, <1>2
    <2> QED
      BY <1>2, <2>1, Zenon DEF EpochMismatch, PanicIf, managerVars
  <1>3. ASSUME NEW m \in pings, RefusePing(m) PROVE UNCHANGED vars
    <2>1. m.from \in Entry /\ m.epoch \in Nat
      BY <1>1, Zenon DEF Ping
    <2>2. m.epoch <= workerEpoch[m.from] /\ workerEpoch[m.from] <= epoch
      BY <2>1, Zenon DEF MasterInv, PingInv, LocalInv, WorkerInv
    <2>3. m.epoch <= epoch
      BY <1>1, <2>1, <2>2
    <2> QED
      BY <1>2, <1>3, <2>1, <2>3, Zenon DEF RefusePing, vars
  <1>4. ASSUME NEW e \in Entry, RefuseStatus(e) PROVE LoseStatus(e)
    <2>1. statusMsgs[e] # <<>> /\ EpochMismatch(Head(statusMsgs[e]).epoch)
      BY <1>4, Zenon DEF RefuseStatus
    <2>2. /\ 1 \in 1 .. Len(statusMsgs[e]) /\ Head(statusMsgs[e]) = statusMsgs[e][1]
          /\ statusMsgs[e][1] \in StatusMsg
      BY <1>1, <2>1
    <2>3. statusMsgs[e][1].epoch \in Nat /\ statusMsgs[e][1].epoch <= epoch
      BY <2>2, Zenon DEF StatusInv, StatusMsg
    <2>4. UNCHANGED managerVars
      BY <1>2, <2>1, <2>2, <2>3, Zenon
    <2> QED
      BY <1>4, <2>4, Zenon DEF RefuseStatus, LoseStatus
  <1> QED
    BY <1>3, <1>4, Zenon

\* One status more or one less: the epochs of the others are as they were.
LEMMA StatusEpochs ==
  ASSUME MasterInv, StatusInv, NEW e \in Entry, UNCHANGED epoch,
         \/ statusMsgs[e] # <<>>
            /\ statusMsgs' = [statusMsgs EXCEPT ![e] = Tail(@)]
         \/ \E s \in StatusCodes : \E meta : UpdateStatus(e, s, meta)
  PROVE  StatusInv'
  <1>1. /\ statusMsgs \in [Entry -> Seq(StatusMsg)] /\ epoch \in Nat
        /\ workerEpoch[e] <= epoch
    BY Zenon DEF MasterInv, ManagerTypeOK, WorkersTypeOK, LocalInv, WorkerInv
  <1>2. \A f \in Entry \ {e} : statusMsgs'[f] = statusMsgs[f]
    BY <1>1, Zenon DEF UpdateStatus
  <1>3. \A i \in 1 .. Len(statusMsgs[e]) : statusMsgs[e][i].epoch <= epoch
    BY Zenon DEF StatusInv
  <1>4. \A i \in 1 .. Len(statusMsgs'[e]) : statusMsgs'[e][i].epoch <= epoch
    <2>1. CASE statusMsgs[e] # <<>> /\ statusMsgs'[e] = Tail(statusMsgs[e])
      BY <1>1, <1>3, <2>1
    <2>2. ASSUME NEW s \in StatusCodes,
                 statusMsgs'[e] = Append(statusMsgs[e], [epoch |-> workerEpoch[e], code |-> s])
          PROVE  \A i \in 1 .. Len(statusMsgs'[e]) : statusMsgs'[e][i].epoch <= epoch
      BY <1>1, <1>3, <2>2
    <2>3. CASE statusMsgs[e] # <<>> /\ statusMsgs' = [statusMsgs EXCEPT ![e] = Tail(@)]
      BY <1>1, <2>1, <2>3, Zenon
    <2>4. ASSUME NEW s \in StatusCodes, NEW meta, UpdateStatus(e, s, meta)
          PROVE  statusMsgs'[e] = Append(statusMsgs[e], [epoch |-> workerEpoch[e], code |-> s])
      BY <1>1, <2>4, Zenon DEF UpdateStatus
    <2> QED
      BY <2>2, <2>3, <2>4, Zenon
  <1> QED
    BY <1>2, <1>4, Zenon DEF StatusInv

\* Every step keeps the epochs of the status messages in bounds.
LEMMA StatusStep == MasterInv /\ StatusInv /\ [Next]_vars => StatusInv'
  <1> SUFFICES ASSUME MasterInv, StatusInv, [Next]_vars PROVE StatusInv'
    BY Zenon
  <1>1. CASE UNCHANGED <<statusMsgs, epoch>>
    BY <1>1, Zenon DEF StatusInv
  <1>2. ASSUME NEW e \in Entry,
               PostInit(e) \/ \E s \in {"Error", "Finished", "Stopped"} : WorkerExit(e, s)
        PROVE  StatusInv'
    <2>1. UNCHANGED epoch
      BY <1>2, Zenon DEF PostInit, WorkerExit, managerVars
    <2>2. \E s \in StatusCodes : \E meta : UpdateStatus(e, s, meta)
      <3>1. CASE PostInit(e)
        BY <3>1, Zenon DEF PostInit, StatusCodes
      <3>2. CASE \E s \in {"Error", "Finished", "Stopped"} : WorkerExit(e, s)
        <4>1. PICK s \in {"Error", "Finished", "Stopped"} : WorkerExit(e, s)
          BY <3>2, Zenon
        <4>2. s \in StatusCodes /\ UpdateStatus(e, s, workerMeta)
          BY <4>1, Zenon DEF WorkerExit, StatusCodes
        <4> QED
          BY <4>2, Zenon
      <3> QED
        BY <1>2, <3>1, <3>2, Zenon
    <2> QED
      BY <2>1, <2>2, StatusEpochs, Zenon
  <1>3. ASSUME NEW e \in Entry, DeliverStatus(e) \/ RefuseStatus(e) \/ LoseStatus(e)
        PROVE  StatusInv'
    BY <1>3, StatusEpochs, Zenon DEF DeliverStatus, RefuseStatus, LoseStatus,
       OnWorkerStatusUpdateMessage, EpochMismatch, managerVars
  <1>4. ASSUME Failover PROVE StatusInv'
    <2>1. /\ statusMsgs' = statusMsgs /\ epoch' = epoch + 1 /\ epoch \in Nat
          /\ statusMsgs \in [Entry -> Seq(StatusMsg)]
      BY <1>4, Zenon DEF Failover, MasterInv, ManagerTypeOK, WorkersTypeOK
    <2> SUFFICES ASSUME NEW e \in Entry, NEW i \in 1 .. Len(statusMsgs[e])
                 PROVE  statusMsgs[e][i].epoch <= epoch + 1
      BY <2>1, Zenon DEF StatusInv
    <2>2. statusMsgs[e][i] \in StatusMsg
      BY <2>1
    <2>3. statusMsgs[e][i].epoch \in Nat /\ statusMsgs[e][i].epoch <= epoch
      BY <2>2, Zenon DEF StatusInv, StatusMsg
    <2> QED
      BY <2>1, <2>3
  <1>5. CASE \E e \in Entry : Creation(e)
    BY <1>5, <1>1, Zenon DEF Creation, CreateWorker, ScheduleFailed, StartTimer,
       ScheduleDone, PreDispatchFailed, ConfirmReturned, ConfirmAborted,
       BeforeStartingWorker, AbortCreatingWorker, managerVars
  <1>6. CASE \E e \in Entry : WorkerStep(e)
    BY <1>6, <1>1, <1>2, Zenon DEF WorkerStep, Launch, RefreshMasterInfo, WorkerStops,
       SendHeartBeat, managerVars
  <1>7. CASE \/ \E e \in Entry : Expire(e)
             \/ \E m \in pings : DeliverPing(m) \/ RefusePing(m)
             \/ \E w \in WorkerID : CleanTombstone(w)
    BY <1>7, <1>1, Zenon DEF Expire, LeaseExpires, DeliverPing, RefusePing, HandleHeartbeat,
       HeartbeatDiscovers, HeartbeatOnline, HeartbeatRenews, HeartbeatSeen, EpochMismatch,
       CleanTombstone, removeTombstoneEntry, workerVars
  <1>8. CASE Checker \/ TickStep \/ Recovery
    BY <1>8, <1>1, Zenon DEF Checker, SweepBegin, SweepVisit, TickStep, TickBegin,
       TickReceive, TickReturn, TickFails, TickHandle, TickOnline, TickOffline,
       TickStatus, TickDispatchFailed, Recovery, InitAfterRecoverLoad, InitAfterRecoverFinish,
       workerVars
  <1>9. CASE UNCHANGED vars
    BY <1>9, <1>1, Zenon DEF vars, managerVars, workerVars
  <1> QED
    BY <1>3, <1>4, <1>5, <1>6, <1>7, <1>8, <1>9, Zenon DEF Next

\* Every step keeps the invariant.
LEMMA MasterStep == MasterInv /\ StatusInv /\ [Next]_vars => MasterInv'
  <1> SUFFICES ASSUME MasterInv, StatusInv, [Next]_vars PROVE MasterInv'
    BY Zenon
  <1>1. ASSUME NEW e \in Entry, Creation(e) PROVE MasterInv'
    BY <1>1, CreateStep, AbortStep, StartTimerStep, GoroutineSteps, Zenon DEF Creation
  <1>2. ASSUME NEW e \in Entry, WorkerStep(e) PROVE MasterInv'
    BY <1>2, LaunchStep, StatusSteps, RefreshStep, StopStep, SendStep DEF WorkerStep
  <1>3. ASSUME NEW e \in Entry,
               DeliverStatus(e) \/ RefuseStatus(e) \/ LoseStatus(e) \/ Expire(e)
        PROVE  MasterInv'
    BY <1>3, DeliverStatusStep, RefusedIsDropped, LoseStep, ExpireStep, Zenon
  <1>4. ASSUME NEW m \in pings, DeliverPing(m) PROVE MasterInv'
    BY <1>4, DiscoversStep, OnlineStep, RenewsStep, Zenon DEF DeliverPing,
           HandleHeartbeat
  <1>11. ASSUME NEW m \in pings, RefusePing(m) PROVE MasterInv'
    BY <1>11, RefusedIsDropped, MasterStutter, Zenon
  <1>5. ASSUME NEW w \in WorkerID, CleanTombstone(w) PROVE MasterInv'
    BY <1>5, CleanStep, Zenon
  <1>6. ASSUME Checker PROVE MasterInv'
    BY <1>6, BookkeepingStep, SweepStep, Zenon DEF Checker
  <1>7. ASSUME TickStep PROVE MasterInv'
    BY <1>7, BookkeepingStep, ReceiveStep, TickOnlineStep, TickOfflineStep,
       TickStatusStep, TickFailedStep, Zenon DEF TickStep, TickHandle
  <1>8. ASSUME Recovery PROVE MasterInv'
    BY <1>8, LoadStep, FinishStep, Zenon DEF Recovery
  <1>9. ASSUME Failover PROVE MasterInv'
    BY <1>9, FailoverStep, Zenon
  <1>10. ASSUME UNCHANGED vars PROVE MasterInv'
    BY <1>10, MasterStutter, Zenon
  <1> QED
    BY <1>1, <1>2, <1>3, <1>4, <1>5, <1>6, <1>7, <1>8, <1>9, <1>10, <1>11,
       Zenon DEF Next

\* The invariant holds in every reachable state.
THEOREM MasterInvariant == Spec => []MasterInv
  <1>1. Init => StatusInv
    BY DEF Init, StatusInv
  <1> QED
    BY <1>1, MasterInit, MasterStep, StatusStep, PTL DEF Spec

\* Every variable keeps its type; in particular eventQueue stays within its
\* capacity whoever enqueues, and Tick has at most one event in hand.
THEOREM MasterTypeCorrect == Spec => []TypeOK
  <1>1. MasterInv => TypeOK
    BY Zenon DEF MasterInv, TypeOK
  <1> QED
    BY <1>1, MasterInvariant, PTL

\* No call of log.Panic is reachable in the manager of the latest master,
\* whatever the workers, the network, the checker and failovers do; in
\* particular no message it receives has a larger epoch than its own.
THEOREM NeverPanics == Spec => []NoPanic
  <1>1. MasterInv => NoPanic
    BY Zenon DEF MasterInv, ManagerInv
  <1> QED
    BY <1>1, MasterInvariant, PTL

\* What the master implementation was told matches the map of entries.
THEOREM ToldAsInMap == Spec => []BeliefMatches
  <1>1. MasterInv => BeliefMatches
    BY Zenon DEF MasterInv, ManagerInv
  <1> QED
    BY <1>1, MasterInvariant, PTL

\* A worker counted as running has adopted this very master's epoch.
THEOREM RunningHasEpoch == Spec => []RunningIsCurrent
  <1>1. MasterInv => RunningIsCurrent
    BY Zenon DEF MasterInv
  <1> QED
    BY <1>1, MasterInvariant, PTL

\* InitAfterRecover is released by the last worker to be discovered, and by no
\* earlier one.
THEOREM ReleasedByTheLast == Spec => []ReleasedWhenDiscovered
  <1>1. MasterInv => ReleasedWhenDiscovered
    BY Zenon DEF MasterInv, ManagerInv
  <1> QED
    BY <1>1, MasterInvariant, PTL

-----------------------------------------------------------------------------
(* The master and its workers implement WorkerCallbacks.                    *)

\* Every worker has its entry, and the mapping finds it.
LEMMA EntryFound ==
  /\ \A e \in Entry : IdOf[e] \in WorkerID /\ EntryOf(IdOf[e]) = e
  /\ \A w \in WorkerID : EntryOf(w) \in Entry /\ IdOf[EntryOf(w)] = w
  <1>1. \A w \in WorkerID : EntryOf(w) \in Entry /\ IdOf[EntryOf(w)] = w
    BY Zenon DEF EntryOf
  <1>2. \A e \in Entry : IdOf[e] \in WorkerID
    BY Zenon
  <1> QED
    BY <1>1, <1>2, Zenon

\* The process of the worker with e's ID is e's.
LEMMA ProcessAt ==
  ASSUME NEW e \in Entry
  PROVE  Process[IdOf[e]] = ProcessOf(e)
  BY EntryFound, Zenon DEF Process

\* One worker's process moves and no other.
LEMMA ProcessMoved ==
  ASSUME NEW e \in Entry, \A f \in Entry \ {e} : ProcessOf(f)' = ProcessOf(f)
  PROVE  Process' = [w \in WorkerID |->
                       IF w \in {IdOf[e]} THEN ProcessOf(e)' ELSE Process[w]]
  <1>1. ASSUME NEW w \in WorkerID
        PROVE  ProcessOf(EntryOf(w))' =
                 IF w \in {IdOf[e]} THEN ProcessOf(e)' ELSE ProcessOf(EntryOf(w))
    <2>1. CASE w = IdOf[e]
      BY <2>1, EntryFound, Zenon
    <2>2. CASE w # IdOf[e]
      <3>1. EntryOf(w) \in Entry \ {e}
        BY <2>2, EntryFound, Zenon
      <3> QED
        BY <2>2, <3>1, Zenon
    <2> QED
      BY <2>1, <2>2, Zenon
  <1> QED
    BY <1>1, Zenon DEF Process

\* No worker's process moves.
LEMMA ProcessKept ==
  ASSUME \A f \in Entry : ProcessOf(f)' = ProcessOf(f)
  PROVE  Process' = Process
  <1>1. \A w \in WorkerID : EntryOf(w) \in Entry
    BY EntryFound, Zenon
  <1> QED
    BY <1>1, Zenon DEF Process

\* A step of a CreateWorker goroutine.
LEMMA CreationCallbacks ==
  ASSUME MasterInv, NEW e \in Entry, Creation(e)
  PROVE  Callbacks!CallbacksNext \/ UNCHANGED <<told, Process>>
  <1>1. /\ UNCHANGED life /\ WorkersTypeOK /\ CreateInv(e)
        /\ \A f \in Entry \ {e} : cpc'[f] = cpc[f]
    <2>1. UNCHANGED life /\ \E x : cpc' = [cpc EXCEPT ![e] = x]
      BY DispatchFacts, Zenon
      DEF Creation, CreateWorker, ScheduleFailed, ScheduleDone, PreDispatchFailed,
          StartTimer, ConfirmAborted, ConfirmReturned, Goes
    <2>2. WorkersTypeOK /\ CreateInv(e)
      BY Zenon DEF MasterInv, LocalInv
    <2> QED
      BY <2>1, <2>2, Zenon DEF WorkersTypeOK
  <1>2. \A f \in Entry \ {e} : ProcessOf(f)' = ProcessOf(f)
    BY <1>1, Zenon DEF ProcessOf
  <1>3. /\ Process[IdOf[e]] = ProcessOf(e) /\ {IdOf[e]} \in SUBSET WorkerID
        /\ Process' = [w \in WorkerID |->
                         IF w \in {IdOf[e]} THEN ProcessOf(e)' ELSE Process[w]]
    BY <1>2, ProcessAt, ProcessMoved
  <1>4. CASE CreateWorker(e)
    <2>1. /\ ProcessOf(e) = "none" /\ ProcessOf(e)' = "pending"
          /\ told[IdOf[e]] = "unknown"
      BY <1>1, <1>4, Zenon DEF CreateWorker, CreateInv, ProcessOf, WorkersTypeOK
    <2>2. told' = [w \in WorkerID |-> IF w \in {IdOf[e]} THEN "creating" ELSE told[w]]
      <3>1. told \in [WorkerID -> Knowledge]
        BY Zenon DEF MasterInv, ManagerTypeOK
      <3>2. told' = [told EXCEPT ![IdOf[e]] = "creating"]
        BY <1>4, Zenon DEF CreateWorker
      <3> QED
        BY <3>1, <3>2, Zenon
    <2>3. Callbacks!Create({IdOf[e]})
      BY <1>3, <2>1, <2>2, Zenon DEF Callbacks!Create, Callbacks!Move
    <2> QED
      BY <1>3, <2>3, Zenon DEF Callbacks!CallbacksNext
  <1>5. CASE ScheduleFailed(e) \/ PreDispatchFailed(e) \/ ConfirmAborted(e)
    <2>1. ProcessOf(e) = "pending" /\ ProcessOf(e)' = "never" /\ told' = told
      <3>1. /\ cpc[e] \in {"scheduling", "dispatching", "confirming"}
            /\ cpc' = [cpc EXCEPT ![e] = "failed"]
        BY <1>5, DispatchFacts, Zenon DEF ScheduleFailed, Goes
      <3>2. told' = told
        BY <1>5, Zenon DEF ScheduleFailed, PreDispatchFailed, ConfirmAborted,
           AbortCreatingWorker, managerVars
      <3>3. life[e] = "none"
        BY <1>1, <1>5, <3>1, DispatchFacts, Zenon DEF ScheduleFailed, CreateInv, Goes
      <3>4. cpc'[e] = "failed" /\ life'[e] = "none"
        BY <1>1, <3>1, <3>3, Zenon DEF WorkersTypeOK
      <3> QED
        BY <3>1, <3>2, <3>3, <3>4, Zenon DEF ProcessOf
    <2>2. Callbacks!Abandon({IdOf[e]})
      BY <1>3, <2>1, Zenon DEF Callbacks!Abandon, Callbacks!Move
    <2> QED
      BY <1>3, <2>2, Zenon DEF Callbacks!CallbacksNext
  <1>6. CASE ScheduleDone(e) \/ StartTimer(e) \/ ConfirmReturned(e)
    <2>1. ProcessOf(e)' = ProcessOf(e) /\ told' = told
      <3>1. PICK x \in {"dispatching", "confirming", "dispatched"} :
              /\ cpc[e] \in {"scheduling", "dispatching", "confirming"}
              /\ cpc' = [cpc EXCEPT ![e] = x]
        BY <1>6, DispatchFacts, Zenon DEF ScheduleDone, Goes
      <3>2. told' = told
        BY <1>6, Zenon DEF ScheduleDone, StartTimer, ConfirmReturned,
           BeforeStartingWorker, managerVars
      <3>3. cpc'[e] = x /\ life'[e] = life[e]
        BY <1>1, <3>1, Zenon DEF WorkersTypeOK
      <3> QED
        BY <3>1, <3>2, <3>3, Zenon DEF ProcessOf
    <2> QED
      BY <1>2, <2>1, ProcessKept, Zenon
  <1> QED
    BY <1>4, <1>5, <1>6, ZenonT(40) DEF Creation

\* A step of a worker.
LEMMA WorkerCallbackSteps ==
  ASSUME MasterInv, NEW e \in Entry, WorkerStep(e)
  PROVE  Callbacks!CallbacksNext \/ UNCHANGED <<told, Process>>
  <1>1. /\ UNCHANGED <<cpc, told>> /\ WorkersTypeOK
        /\ \A f \in Entry \ {e} : life'[f] = life[f]
    <2>1. UNCHANGED <<cpc, told>>
      BY Zenon DEF WorkerStep, Launch, PostInit, RefreshMasterInfo, WorkerStops,
         WorkerExit, SendHeartBeat, managerVars
    <2>2. UNCHANGED life \/ \E x : life' = [life EXCEPT ![e] = x]
      BY Zenon DEF WorkerStep, Launch, PostInit, RefreshMasterInfo, WorkerStops,
         WorkerExit, SendHeartBeat
    <2>3. WorkersTypeOK
      BY Zenon DEF MasterInv
    <2> QED
      BY <2>1, <2>2, <2>3, Zenon DEF WorkersTypeOK
  <1>2. \A f \in Entry \ {e} : ProcessOf(f)' = ProcessOf(f)
    BY <1>1, Zenon DEF ProcessOf
  <1>3. /\ Process[IdOf[e]] = ProcessOf(e) /\ {IdOf[e]} \in SUBSET WorkerID
        /\ Process' = [w \in WorkerID |->
                         IF w \in {IdOf[e]} THEN ProcessOf(e)' ELSE Process[w]]
    BY <1>2, ProcessAt, ProcessMoved
  <1>4. CASE Launch(e)
    <2>1. ProcessOf(e) = "pending" /\ ProcessOf(e)' = "up"
      <3>1. cpc[e] \in {"confirming", "dispatched", "lost"} /\ life[e] = "none"
        BY <1>4, DispatchFacts, Zenon
      <3>2. life'[e] = "launched" /\ cpc'[e] = cpc[e]
        BY <1>1, <1>4, Zenon DEF Launch, WorkersTypeOK
      <3> QED
        BY <3>1, <3>2, Zenon DEF ProcessOf
    <2>2. Callbacks!Start({IdOf[e]})
      BY <1>1, <1>3, <2>1, Zenon DEF Callbacks!Start, Callbacks!Move
    <2> QED
      BY <1>3, <2>2, Zenon DEF Callbacks!CallbacksNext
  <1>5. CASE WorkerStops(e) \/ \E s \in {"Error", "Finished", "Stopped"} : WorkerExit(e, s)
    <2>1. ProcessOf(e) \in {"up", "down"} /\ ProcessOf(e)' = "down"
      BY <1>1, <1>5 DEF WorkerStops, WorkerExit, Alive, ProcessOf, WorkersTypeOK
    <2>2. CASE ProcessOf(e) = "up"
      <3>1. Callbacks!Stop({IdOf[e]})
        BY <1>1, <1>3, <2>1, <2>2, Zenon DEF Callbacks!Stop, Callbacks!Move
      <3> QED
        BY <1>3, <3>1, Zenon DEF Callbacks!CallbacksNext
    <2>3. CASE ProcessOf(e) = "down"
      BY <1>1, <1>2, <2>1, <2>3, ProcessKept, Zenon
    <2> QED
      BY <2>1, <2>2, <2>3, Zenon
  <1>6. CASE PostInit(e) \/ RefreshMasterInfo(e) \/ \E f \in BOOLEAN : SendHeartBeat(e, f)
    <2>1. ProcessOf(e)' = ProcessOf(e)
      BY <1>1, <1>6 DEF PostInit, RefreshMasterInfo, SendHeartBeat, ProcessOf,
             WorkersTypeOK
    <2> QED
      BY <1>1, <1>2, <2>1, ProcessKept, Zenon
  <1> QED
    BY <1>4, <1>5, <1>6, Zenon DEF WorkerStep

\* A callback from Tick.
LEMMA TickCallbacks ==
  ASSUME MasterInv, TickHandle, UNCHANGED workerVars
  PROVE  Callbacks!CallbacksNext \/ UNCHANGED <<told, Process>>
  <1>1. /\ handling # <<>> /\ handling[1] \in Event /\ EventOK(handling[1])
        /\ handling[1].worker \in WorkerID
    BY InHand, Zenon DEF MasterInv, TickHandle, TickOnline, TickOffline, TickStatus,
           TickDispatchFailed, Event
  <1>2. Process' = Process
    BY ProcessKept, Zenon DEF ProcessOf, workerVars
  <1>3. CASE TickOnline
    <2>1. PICK e \in Entry : handling[1].worker = IdOf[e] /\ life[e] # "none"
      BY <1>1, <1>3, Zenon DEF EventOK, TickOnline
    <2>2. Process[IdOf[e]] \in {"up", "down"}
      BY <2>1, ProcessAt DEF ProcessOf, MasterInv, WorkersTypeOK, LifeStates
    <2>3. told[IdOf[e]] = "creating" /\ told' = [told EXCEPT ![IdOf[e]] = "online"]
      BY <1>1, <1>3, <2>1, Zenon DEF EventOK, TickOnline
    <2>4. Callbacks!ReportOnline(IdOf[e])
      BY <1>2, <2>2, <2>3, Zenon DEF Callbacks!ReportOnline, Callbacks!Tell
    <2> QED
      BY <2>4, Zenon DEF Callbacks!CallbacksNext
  <1>4. CASE TickOffline
    <2>1. /\ told[handling[1].worker] \in {"creating", "online", "failed"}
          /\ told' = [told EXCEPT ![handling[1].worker] = "gone"]
      BY <1>1, <1>4, Zenon DEF EventOK, TickOffline
    <2>2. Callbacks!ReportOffline(handling[1].worker)
      BY <1>2, <2>1, Zenon DEF Callbacks!ReportOffline, Callbacks!Tell
    <2> QED
      BY <1>1, <2>2, Zenon DEF Callbacks!CallbacksNext
  <1>5. CASE TickDispatchFailed
    <2>1. PICK e \in Entry : handling[1].worker = IdOf[e] /\ cpc[e] = "failed"
      BY <1>1, <1>5, Zenon DEF EventOK, TickDispatchFailed
    <2>2. Process[IdOf[e]] = "never"
      <3>1. life[e] = "none"
        BY <2>1, Zenon DEF MasterInv, LocalInv, CreateInv
      <3> QED
        BY <2>1, <3>1, ProcessAt, Zenon DEF ProcessOf
    <2>3. told[IdOf[e]] = "creating" /\ told' = [told EXCEPT ![IdOf[e]] = "failed"]
      BY <1>1, <1>5, <2>1, Zenon DEF EventOK, TickDispatchFailed
    <2>4. Callbacks!ReportFailed(IdOf[e])
      BY <1>2, <2>2, <2>3, Zenon DEF Callbacks!ReportFailed, Callbacks!Tell
    <2> QED
      BY <2>4, Zenon DEF Callbacks!CallbacksNext
  <1>6. CASE TickStatus
    BY <1>2, <1>6, Zenon DEF TickStatus
  <1> QED
    BY <1>3, <1>4, <1>5, <1>6, Zenon DEF TickHandle

\* InitAfterRecover calls back for the workers of the table.
LEMMA FinishCallbacks ==
  ASSUME MasterInv, InitAfterRecoverFinish, UNCHANGED workerVars
  PROVE  Callbacks!CallbacksNext
  <1> DEFINE dead == {e \in Entry : InEntries(e) /\ (entryState[e] = "Wait" \/ e \in finished)}
             on == {w \in WorkerID : workerEntries[w] # NoEntry /\ workerEntries[w] \notin dead}
             off == {w \in WorkerID : workerEntries[w] # NoEntry /\ workerEntries[w] \in dead}
  <1>1. /\ wmState = "WaitingHeartbeat"
        /\ told' = [w \in WorkerID |->
             IF workerEntries[w] = NoEntry THEN told[w]
             ELSE IF workerEntries[w] \in dead THEN "gone" ELSE "online"]
    BY Zenon DEF InitAfterRecoverFinish
  <1>2. Process' = Process
    BY ProcessKept, Zenon DEF ProcessOf, workerVars
  <1>3. \A w \in WorkerID : told[w] = "unknown"
    BY <1>1, Zenon DEF MasterInv, ManagerInv, RecoveryInv
  <1>4. ASSUME NEW w \in WorkerID, workerEntries[w] # NoEntry
        PROVE  Process[w] \in {"up", "down"}
    <2>1. PICK e \in Entry : w = IdOf[e] /\ InEntries(e)
      BY <1>4, TheEntry, Zenon
    <2>2. life[e] # "none"
      BY <1>1, <2>1, Zenon DEF MasterInv, LocalInv, EntryInv
    <2> QED
      BY <2>1, <2>2, ProcessAt DEF ProcessOf, MasterInv, WorkersTypeOK, LifeStates
  <1>5. /\ on \in SUBSET {w \in WorkerID : Process[w] \in {"up", "down"}}
        /\ off \in SUBSET {w \in WorkerID : Process[w] \in {"up", "down"}}
    BY <1>4, Zenon
  <1>6. told' = [w \in WorkerID |-> IF w \in on THEN "online"
                                    ELSE IF w \in off THEN "gone" ELSE told[w]]
    <2>1. \A w \in WorkerID :
            (IF workerEntries[w] = NoEntry THEN told[w]
             ELSE IF workerEntries[w] \in dead THEN "gone" ELSE "online") =
            (IF w \in on THEN "online" ELSE IF w \in off THEN "gone" ELSE told[w])
      <3> HIDE DEF dead
      <3> QED
        BY Zenon
    <2> HIDE DEF dead, on, off
    <2> QED
      BY <1>1, <2>1, Zenon
  <1>7. Callbacks!Recover
    <2> HIDE DEF on, off
    <2> QED
      BY <1>2, <1>3, <1>5, <1>6, Zenon DEF Callbacks!Recover
  <1> QED
    BY <1>7, Zenon DEF Callbacks!CallbacksNext

\* A failover: what was being scheduled or dispatched is lost.
LEMMA FailoverCallbacks ==
  ASSUME MasterInv, Failover
  PROVE  Callbacks!CallbacksNext
  <1> DEFINE lost == {w \in WorkerID : cpc[EntryOf(w)] \in {"scheduling", "dispatching"}}
  <1>1. /\ told' = [w \in WorkerID |-> "unknown"] /\ life' = life
        /\ cpc' = [e \in Entry |->
             CASE cpc[e] \in {"scheduling", "dispatching"} -> "failed"
               [] cpc[e] = "confirming" -> "lost"
               [] OTHER -> cpc[e]]
    BY Zenon DEF Failover, NewManager
  <1>2. ASSUME NEW w \in WorkerID
        PROVE  /\ w \in lost => Process[w] = "pending" /\ Process'[w] = "never"
               /\ w \notin lost => Process'[w] = Process[w]
    <2>1. PICK e \in Entry : e = EntryOf(w) /\ IdOf[e] = w
      BY EntryFound, Zenon
    <2>2. Process[w] = ProcessOf(e) /\ Process'[w] = ProcessOf(e)'
      BY <2>1, Zenon DEF Process
    <2>3. CASE cpc[e] \in {"scheduling", "dispatching"}
      <3>1. life[e] = "none" /\ cpc'[e] = "failed"
        BY <1>1, <2>3, Zenon DEF MasterInv, LocalInv, CreateInv
      <3> QED
        BY <1>1, <2>1, <2>2, <2>3, <3>1, Zenon DEF ProcessOf
    <2>4. CASE cpc[e] = "confirming"
      <3>1. cpc'[e] = "lost"
        BY <1>1, <2>4, Zenon
      <3> QED
        BY <1>1, <2>1, <2>2, <2>4, <3>1, Zenon DEF ProcessOf
    <2>5. CASE cpc[e] \notin {"scheduling", "dispatching", "confirming"}
      <3>1. cpc'[e] = cpc[e]
        BY <1>1, <2>5, Zenon
      <3> QED
        BY <1>1, <2>1, <2>2, <2>5, <3>1, Zenon DEF ProcessOf
    <2> QED
      BY <2>3, <2>4, <2>5, Zenon
  <1>3. lost \in SUBSET {w \in WorkerID : Process[w] = "pending"}
    BY <1>2, Zenon
  <1>4. Process' = [w \in WorkerID |-> IF w \in lost THEN "never" ELSE Process[w]]
    <2> HIDE DEF lost
    <2>1. \A w \in WorkerID : Process'[w] = IF w \in lost THEN "never" ELSE Process[w]
      BY <1>2, Zenon
    <2>2. Process' = [w \in WorkerID |-> Process'[w]]
      BY Zenon DEF Process
    <2> QED
      BY <2>1, <2>2, Zenon
  <1>5. Callbacks!Failover
    <2> HIDE DEF lost
    <2> QED
      BY <1>1, <1>3, <1>4, Zenon DEF Callbacks!Failover
  <1> QED
    BY <1>5, Zenon DEF Callbacks!CallbacksNext

\* Every other step leaves both what was told and the processes alone.
LEMMA SilentSteps ==
  ASSUME \/ UNCHANGED vars
         \/ \E e \in Entry : DeliverStatus(e) \/ RefuseStatus(e) \/ LoseStatus(e)
                             \/ Expire(e)
         \/ \E m \in pings : DeliverPing(m) \/ RefusePing(m)
         \/ \E w \in WorkerID : CleanTombstone(w)
         \/ Checker
         \/ (TickBegin \/ TickReceive \/ TickReturn \/ TickFails) /\ UNCHANGED workerVars
         \/ InitAfterRecoverLoad(workerMeta) /\ UNCHANGED workerVars
  PROVE  UNCHANGED <<told, Process>>
  <1>1. UNCHANGED <<told, cpc, life>>
    <2>1. CASE UNCHANGED vars
      BY <2>1, Zenon DEF vars, managerVars, workerVars
    <2>2. CASE \E e \in Entry : DeliverStatus(e) \/ RefuseStatus(e) \/ LoseStatus(e)
                                \/ Expire(e)
      <3>1. CASE \E e \in Entry : DeliverStatus(e) \/ RefuseStatus(e)
        BY <3>1, Zenon DEF DeliverStatus, OnWorkerStatusUpdateMessage, RefuseStatus,
               EpochMismatch
      <3>2. CASE \E e \in Entry : LoseStatus(e) \/ Expire(e)
        BY <3>2, Zenon DEF LoseStatus, Expire, LeaseExpires, managerVars, workerVars
      <3> QED
        BY <2>2, <3>1, <3>2, Zenon
    <2>3. CASE \E m \in pings : DeliverPing(m) \/ RefusePing(m)
      BY <2>3, Zenon DEF DeliverPing, HandleHeartbeat, HeartbeatDiscovers,
             HeartbeatOnline, HeartbeatRenews, HeartbeatSeen, RefusePing,
             EpochMismatch, workerVars
    <2>4. CASE \E w \in WorkerID : CleanTombstone(w)
      BY <2>4, Zenon DEF CleanTombstone, removeTombstoneEntry
    <2>5. CASE Checker
      BY <2>5, Zenon DEF Checker, SweepBegin, SweepVisit, workerVars
    <2>6. CASE (TickBegin \/ TickReceive \/ TickReturn \/ TickFails) /\ UNCHANGED workerVars
      BY <2>6, Zenon DEF TickBegin, TickReceive, TickReturn, TickFails, workerVars
    <2>7. CASE InitAfterRecoverLoad(workerMeta) /\ UNCHANGED workerVars
      BY <2>7, Zenon DEF InitAfterRecoverLoad, workerVars
    <2> QED
      BY <2>1, <2>2, <2>3, <2>4, <2>5, <2>6, <2>7, Zenon
  <1> QED
    BY <1>1, ProcessKept, Zenon DEF ProcessOf

\* Every step is one of WorkerCallbacks, or says nothing to the implementation.
LEMMA CallbackStep ==
  MasterInv /\ [Next]_vars => [Callbacks!CallbacksNext]_<<told, Process>>
  <1> SUFFICES ASSUME MasterInv, [Next]_vars
               PROVE  Callbacks!CallbacksNext \/ UNCHANGED <<told, Process>>
    BY Zenon
  <1>1. CASE \E e \in Entry : Creation(e)
    BY <1>1, CreationCallbacks, Zenon
  <1>2. CASE \E e \in Entry : WorkerStep(e)
    BY <1>2, WorkerCallbackSteps, Zenon
  <1>3. CASE TickHandle /\ UNCHANGED workerVars
    BY <1>3, TickCallbacks, Zenon
  <1>4. CASE InitAfterRecoverFinish /\ UNCHANGED workerVars
    BY <1>4, FinishCallbacks, Zenon
  <1>5. CASE Failover
    BY <1>5, FailoverCallbacks, Zenon
  <1>6. CASE \/ UNCHANGED vars
             \/ \E e \in Entry : DeliverStatus(e) \/ RefuseStatus(e) \/ LoseStatus(e)
                                 \/ Expire(e)
             \/ \E m \in pings : DeliverPing(m) \/ RefusePing(m)
             \/ \E w \in WorkerID : CleanTombstone(w)
             \/ Checker
             \/ (TickBegin \/ TickReceive \/ TickReturn \/ TickFails) /\ UNCHANGED workerVars
             \/ InitAfterRecoverLoad(workerMeta) /\ UNCHANGED workerVars
    BY <1>6, SilentSteps, Zenon
  <1> QED
    BY <1>1, <1>2, <1>3, <1>4, <1>5, <1>6, Zenon DEF Next, TickStep, Recovery

\* The master and its workers implement WorkerCallbacks: every callback the
\* implementation gets is one the MasterImpl interface allows at that point, and
\* says the truth about the worker.
THEOREM ImplementsCallbacks == Spec => CallbacksKept
  <1>1. Init => Callbacks!CallbacksInit
    <2> SUFFICES ASSUME Init PROVE Callbacks!CallbacksInit
      BY Zenon
    <2>1. told = [w \in WorkerID |-> "unknown"]
      BY Zenon DEF Init, ManagerInit
    <2>2. \A w \in WorkerID : ProcessOf(EntryOf(w)) = "none"
      BY EntryFound, Zenon DEF Init, ProcessOf
    <2>3. Process \in [WorkerID -> Callbacks!Processes]
      BY <2>2, Zenon DEF Process, Callbacks!Processes
    <2> QED
      BY <2>1, <2>3, Zenon DEF Callbacks!CallbacksInit
  <1> QED
    BY <1>1, CallbackStep, MasterInvariant, PTL
       DEF CallbacksKept, Callbacks!CallbacksSpec, Callbacks!callbackVars, Spec
=============================================================================
