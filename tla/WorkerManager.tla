--------------------------- MODULE WorkerManager ---------------------------
(***************************************************************************)
(* The WorkerManager of a master (lib/master/worker_manager.go and         *)
(* worker_entry.go).  Three kinds of goroutine share it:                   *)
(*   - message handlers and CreateWorker goroutines, which hold m.mu;      *)
(*   - the background checker, which holds m.mu for a whole sweep;         *)
(*   - the main goroutine, which in Tick takes events off eventQueue, runs *)
(*     their beforeHook and calls the master implementation back.          *)
(* An entry is an object: a hook keeps the entry it was created with, even *)
(* when the map workerEntries no longer holds it.  Calls of log.Panic are  *)
(* recorded in panicked.                                                   *)
(***************************************************************************)
EXTENDS Naturals, Sequences, FiniteSets

CONSTANTS
  WorkerID,   \* worker IDs
  Entry,      \* workerEntry objects
  IdOf,       \* the worker ID an entry is about
  NoEntry,
  QueueCap    \* capacity of eventQueue (1024 in the code)

ASSUME ManagerAssumption ==
  /\ IdOf \in [Entry -> WorkerID]
  /\ NoEntry \notin Entry
  /\ QueueCap \in Nat \ {0}

VARIABLES
  wmState,        \* m.state
  epoch,          \* m.epoch, also the epoch stored in the master's metadata
  workerEntries,  \* the map: worker ID -> entry
  entryState,     \* entry.state; "Unused" before the object exists
  finished,       \* entries whose receivedFinish is set
  expired,        \* entries whose expireAt has passed
  status,         \* entry.status
  eventQueue,
  ticking,        \* the main goroutine is inside Tick
  handling,       \* the event Tick has taken off the queue, if any
  sweep,          \* entries the running sweep of the checker has yet to visit
  readyClosed,    \* allWorkersReady has been closed
  errs,           \* who has reported an error, to errCenter or to Poll
  panicked,       \* the kinds of panic that have happened
  told            \* what the master implementation knows of each worker

managerVars == <<wmState, epoch, workerEntries, entryState, finished, expired,
                 status, eventQueue, ticking, handling, sweep, readyClosed,
                 errs, panicked, told>>

EntryStates == {"Unused", "Wait", "Created", "Normal", "Offline", "Tombstone"}
StatusCodes == {"Created", "Init", "Error", "Finished", "Stopped"}
Reasons == {"ErrWorkerFinish", "ErrWorkerStop", "ErrWorkerOffline"}

\* A wrong move of an entry, a channel closed twice, a worker that exists
\* already, an entry removed early, a message of a larger epoch, and the use of
\* a stale handle (by a callback, or by a query beside the main goroutine).
Panics == {"state", "closed", "exists", "early", "stale", "handle", "query"}
PanicIf(kind, cond) == panicked' = IF cond THEN panicked \cup {kind} ELSE panicked

\* Events.  entry is the object a hook keeps; arg is the status carried by a
\* status update, or the reason of an offline event.
OnlineEvent(e) == [tp |-> "online", worker |-> IdOf[e], entry |-> e, arg |-> "none"]
OfflineEvent(e, r) ==
  [tp |-> "offline", worker |-> IdOf[e], entry |-> e, arg |-> r]
StatusEvent(e, s) ==
  [tp |-> "status", worker |-> IdOf[e], entry |-> e, arg |-> s]
FailedEvent(w) ==
  [tp |-> "failed", worker |-> w, entry |-> NoEntry, arg |-> "none"]

Event ==
  [tp : {"online", "offline", "status", "failed"}, worker : WorkerID,
   entry : Entry \cup {NoEntry}, arg : {"none"} \cup StatusCodes \cup Reasons]

\* What the master implementation has been told of a worker: nothing, that
\* CreateWorker is under way, and then the last of the callbacks that moved it.
Knowledge == {"unknown", "creating", "online", "failed", "gone"}

ManagerTypeOK ==
  /\ wmState \in {"LoadingMeta", "WaitingHeartbeat", "Ready"}
  /\ epoch \in Nat \ {0}
  /\ workerEntries \in [WorkerID -> Entry \cup {NoEntry}]
  /\ entryState \in [Entry -> EntryStates]
  /\ finished \subseteq Entry
  /\ expired \subseteq Entry
  /\ status \in [Entry -> StatusCodes]
  /\ eventQueue \in Seq(Event) /\ Len(eventQueue) <= QueueCap
  /\ ticking \in BOOLEAN
  /\ handling \in Seq(Event) /\ Len(handling) <= 1
  /\ sweep \subseteq Entry
  /\ readyClosed \in BOOLEAN
  /\ errs \subseteq {"handler", "checker", "tick"}
  /\ panicked \subseteq Panics
  /\ told \in [WorkerID -> Knowledge]

\* NewWorkerManager: the state of a manager that was just constructed.
NewManager(state) ==
  /\ wmState' = state
  /\ workerEntries' = [w \in WorkerID |-> NoEntry]
  /\ entryState' = [e \in Entry |-> "Unused"]
  /\ finished' = {} /\ expired' = {}
  /\ status' = [e \in Entry |-> "Created"]
  /\ eventQueue' = <<>> /\ handling' = <<>> /\ ticking' = FALSE
  /\ sweep' = {} /\ readyClosed' = FALSE /\ errs' = {}
  /\ told' = [w \in WorkerID |-> "unknown"]
  /\ UNCHANGED panicked

ManagerInit ==
  /\ wmState = "Ready" /\ epoch = 1
  /\ workerEntries = [w \in WorkerID |-> NoEntry]
  /\ entryState = [e \in Entry |-> "Unused"]
  /\ finished = {} /\ expired = {}
  /\ status = [e \in Entry |-> "Created"]
  /\ eventQueue = <<>> /\ handling = <<>> /\ ticking = FALSE
  /\ sweep = {} /\ readyClosed = FALSE /\ errs = {}
  /\ panicked = {}
  /\ told = [w \in WorkerID |-> "unknown"]

-----------------------------------------------------------------------------
\* The checker holds m.mu from the start of a sweep to its end.
MuFree == sweep = {}

\* The entries of the map.
InEntries(e) == workerEntries[IdOf[e]] = e

\* enqueueEvent: waits up to a second for room.  The wait is the step taken
\* later; when it ends without room the caller reports an error.
EnqueueEvent(ev, who) ==
  IF Len(eventQueue) < QueueCap
  THEN eventQueue' = Append(eventQueue, ev) /\ UNCHANGED errs
  ELSE errs' = errs \cup {who} /\ UNCHANGED eventQueue

\* MarkAsOnline, MarkAsOffline and MarkAsTombstone panic in any other state.
MayGoOnline(e) == entryState[e] \in {"Created", "Wait"}
MayGoOffline(e) == entryState[e] \in {"Created", "Normal"}
MayGoTombstone(e) == entryState[e] \in {"Wait", "Offline"} \/ e \in finished

\* Mutant: messages of smaller epochs are not dropped.
checkMasterEpochMatch_Smaller(msgEpoch) == msgEpoch <= epoch

checkMasterEpochMatch(msgEpoch) == msgEpoch = epoch

\* A heartbeat or a status message that does not pass the check: of a smaller
\* epoch it is dropped, at a larger one the master panics.
EpochMismatch(msgEpoch) ==
  /\ MuFree
  /\ ~checkMasterEpochMatch(msgEpoch)
  /\ PanicIf("stale", msgEpoch > epoch)
  /\ UNCHANGED <<wmState, epoch, workerEntries, entryState, finished, expired,
                 status, eventQueue, ticking, handling, sweep, readyClosed,
                 errs, told>>

BeforeStartingWorker(e) ==
  /\ MuFree
  /\ entryState[e] = "Unused"
  /\ PanicIf("exists", workerEntries[IdOf[e]] # NoEntry)
  /\ workerEntries' = [workerEntries EXCEPT ![IdOf[e]] = e]
  /\ entryState' = [entryState EXCEPT ![e] = "Created"]
  /\ UNCHANGED <<wmState, epoch, finished, expired, status, eventQueue, ticking,
                 handling, sweep, readyClosed, errs, told>>

AbortCreatingWorker(w) ==
  /\ MuFree
  /\ EnqueueEvent(FailedEvent(w), "handler")
  /\ UNCHANGED <<wmState, epoch, workerEntries, entryState, finished, expired,
                 status, ticking, handling, sweep, readyClosed, panicked, told>>

\* HandleHeartbeat, for a message that passes its first three checks.  What
\* all of its branches do:
HeartbeatSeen(w, msgEpoch, isFinished) ==
  /\ MuFree
  /\ wmState # "LoadingMeta"
  /\ checkMasterEpochMatch(msgEpoch)
  /\ workerEntries[w] # NoEntry
  /\ finished' = IF isFinished THEN finished \cup {workerEntries[w]} ELSE finished
  /\ expired' = expired \ {workerEntries[w]}
  /\ UNCHANGED <<wmState, epoch, workerEntries, status, ticking, handling,
                 sweep, told>>

\* Mutant: any discovered worker releases InitAfterRecover.
HeartbeatDiscovers_First(w, msgEpoch, isFinished) ==
  /\ HeartbeatSeen(w, msgEpoch, isFinished)
  /\ wmState = "WaitingHeartbeat"
  /\ entryState[workerEntries[w]] = "Wait"
  /\ entryState' = [entryState EXCEPT ![workerEntries[w]] = "Normal"]
  /\ readyClosed' = TRUE
  /\ UNCHANGED <<panicked, eventQueue, errs>>

\* After a failover: the worker is discovered, and when it is the last one
\* the waiting InitAfterRecover is released.
HeartbeatDiscovers(w, msgEpoch, isFinished) ==
  LET e == workerEntries[w]
      allReady == \A v \in WorkerID \ {w} :
                    workerEntries[v] # NoEntry
                      => entryState[workerEntries[v]] # "Wait"
  IN  /\ HeartbeatSeen(w, msgEpoch, isFinished)
      /\ wmState = "WaitingHeartbeat"
      /\ entryState[e] = "Wait"
      /\ entryState' = [entryState EXCEPT ![e] = "Normal"]
      /\ readyClosed' = (readyClosed \/ allReady)
      /\ PanicIf("closed", allReady /\ readyClosed)
      /\ UNCHANGED <<eventQueue, errs>>

\* The first heartbeat of a worker this master created.
HeartbeatOnline(w, msgEpoch, isFinished) ==
  LET e == workerEntries[w]
  IN  /\ HeartbeatSeen(w, msgEpoch, isFinished)
      /\ wmState = "Ready"
      /\ entryState[e] = "Created"
      /\ entryState' = [entryState EXCEPT ![e] = "Normal"]
      /\ PanicIf("state", ~MayGoOnline(e))
      /\ EnqueueEvent(OnlineEvent(e), "handler")
      /\ UNCHANGED readyClosed

\* Any later heartbeat only renews the lease (and records IsFinished).
HeartbeatRenews(w, msgEpoch, isFinished) ==
  /\ HeartbeatSeen(w, msgEpoch, isFinished)
  /\ entryState[workerEntries[w]] #
       (IF wmState = "Ready" THEN "Created" ELSE "Wait")
  /\ UNCHANGED <<entryState, readyClosed, panicked, eventQueue, errs>>

HandleHeartbeat(w, msgEpoch, isFinished) ==
  \/ HeartbeatDiscovers(w, msgEpoch, isFinished)
  \/ HeartbeatOnline(w, msgEpoch, isFinished)
  \/ HeartbeatRenews(w, msgEpoch, isFinished)

\* OnWorkerStatusUpdateMessage, for a message it does not drop.
OnWorkerStatusUpdateMessage(w, msgEpoch, s) ==
  /\ MuFree
  /\ checkMasterEpochMatch(msgEpoch)
  /\ workerEntries[w] # NoEntry
  /\ EnqueueEvent(StatusEvent(workerEntries[w], s), "handler")
  /\ UNCHANGED <<wmState, epoch, workerEntries, entryState, finished, expired,
                 status, ticking, handling, sweep, readyClosed, panicked, told>>

-----------------------------------------------------------------------------
(* The background checker.                                                 *)

\* The clock passes entry.expireAt (of an entry whose lease is still read).
LeaseExpires(e) ==
  /\ InEntries(e) /\ entryState[e] \in {"Created", "Normal"}
  /\ e \notin expired
  /\ expired' = expired \cup {e}
  /\ UNCHANGED <<wmState, epoch, workerEntries, entryState, finished, status,
                 eventQueue, ticking, handling, sweep, readyClosed, errs,
                 panicked, told>>

\* Mutant: workers that never sent a heartbeat are not checked.
ShouldGoOffline_OnlyNormal(e) ==
  InEntries(e) /\ entryState[e] = "Normal" /\ (e \in expired \/ e \in finished)

ShouldGoOffline(e) ==
  /\ InEntries(e)
  /\ entryState[e] \notin {"Offline", "Tombstone"}
  /\ e \in expired \/ e \in finished

\* checkWorkerEntriesOnce takes m.mu; the checker is gone once it has failed.
SweepBegin ==
  /\ MuFree
  /\ "checker" \notin errs
  /\ wmState = "Ready"
  /\ sweep' = {e \in Entry : ShouldGoOffline(e)}
  /\ sweep' # {}
  /\ UNCHANGED <<wmState, epoch, workerEntries, entryState, finished, expired,
                 status, eventQueue, ticking, handling, readyClosed, errs,
                 panicked, told>>

OfflineReason(s) ==
  CASE s = "Finished" -> "ErrWorkerFinish"
    [] s = "Stopped"  -> "ErrWorkerStop"
    [] OTHER          -> "ErrWorkerOffline"

\* One round of its loop; map iteration is in any order.
SweepVisit(e) ==
  /\ e \in sweep
  /\ PanicIf("state", ~MayGoOffline(e))
  /\ entryState' = [entryState EXCEPT ![e] = "Offline"]
  /\ EnqueueEvent(OfflineEvent(e, OfflineReason(status[e])), "checker")
  /\ sweep' = IF "checker" \in errs' THEN {} ELSE sweep \ {e}
  /\ UNCHANGED <<wmState, epoch, workerEntries, finished, expired, status,
                 ticking, handling, readyClosed, told>>

-----------------------------------------------------------------------------
(* Tick, in the main goroutine.                                            *)

TickBegin ==
  /\ wmState = "Ready"
  /\ ~ticking /\ errs = {}
  /\ ticking' = TRUE
  /\ UNCHANGED <<wmState, epoch, workerEntries, entryState, finished, expired,
                 status, eventQueue, handling, sweep, readyClosed, errs,
                 panicked, told>>

TickReceive ==
  /\ ticking /\ handling = <<>>
  /\ eventQueue # <<>>
  /\ handling' = <<Head(eventQueue)>>
  /\ eventQueue' = Tail(eventQueue)
  /\ UNCHANGED <<wmState, epoch, workerEntries, entryState, finished, expired,
                 status, ticking, sweep, readyClosed, errs, panicked, told>>

\* Tick is done when the queue is empty (also when an error was just reported:
\* another goroutine cancels the context).
TickReturn ==
  /\ ticking /\ handling = <<>> /\ eventQueue = <<>>
  /\ ticking' = FALSE
  /\ UNCHANGED <<wmState, epoch, workerEntries, entryState, finished, expired,
                 status, eventQueue, handling, sweep, readyClosed, errs,
                 panicked, told>>

\* Its five seconds are over, or an error was reported meanwhile: Tick returns
\* the error of its context, and Poll fails.
TickFails ==
  /\ ticking /\ handling = <<>>
  /\ ticking' = FALSE
  /\ errs' = errs \cup {"tick"}
  /\ UNCHANGED <<wmState, epoch, workerEntries, entryState, finished, expired,
                 status, eventQueue, handling, sweep, readyClosed, panicked, told>>

\* The beforeHook of the event in hand and, unless it cancels, its callback.
TickOnline ==
  /\ handling # <<>> /\ handling[1].tp = "online"
  /\ told' = [told EXCEPT ![handling[1].worker] = "online"]
  /\ handling' = <<>>
  /\ UNCHANGED <<wmState, epoch, workerEntries, entryState, finished, expired,
                 status, eventQueue, ticking, sweep, readyClosed, errs,
                 panicked>>

\* Mutant: the hook that makes the entry a tombstone is missing.
TickOffline_NoHook ==
  /\ handling # <<>> /\ handling[1].tp = "offline"
  /\ told' = [told EXCEPT ![handling[1].worker] = "gone"]
  /\ handling' = <<>>
  /\ UNCHANGED <<wmState, epoch, workerEntries, entryState, finished, expired,
                 status, eventQueue, ticking, sweep, readyClosed, errs, panicked>>

TickOffline ==
  /\ handling # <<>> /\ handling[1].tp = "offline"
  /\ LET e == handling[1].entry
     IN  /\ PanicIf("state", ~MayGoTombstone(e))
         /\ entryState' = [entryState EXCEPT ![e] = "Tombstone"]
  /\ told' = [told EXCEPT ![handling[1].worker] = "gone"]
  /\ handling' = <<>>
  /\ UNCHANGED <<wmState, epoch, workerEntries, finished, expired, status,
                 eventQueue, ticking, sweep, readyClosed, errs>>

\* The callback reads handle.Status(), which panics on a stale handle.
Cancelled(ev) == ev.tp = "status" /\ entryState[ev.entry] = "Tombstone"

TickStatus ==
  /\ handling # <<>> /\ handling[1].tp = "status"
  /\ IF Cancelled(handling[1])
     THEN UNCHANGED <<status, panicked>>
     ELSE /\ status' = [status EXCEPT ![handling[1].entry] = handling[1].arg]
          /\ PanicIf("handle", workerEntries[handling[1].worker] = NoEntry)
  /\ handling' = <<>>
  /\ UNCHANGED <<wmState, epoch, workerEntries, entryState, finished, expired,
                 eventQueue, ticking, sweep, readyClosed, errs, told>>

TickDispatchFailed ==
  /\ handling # <<>> /\ handling[1].tp = "failed"
  /\ MuFree
  /\ workerEntries' = [workerEntries EXCEPT ![handling[1].worker] = NoEntry]
  /\ told' = [told EXCEPT ![handling[1].worker] = "failed"]
  /\ handling' = <<>>
  /\ UNCHANGED <<wmState, epoch, entryState, finished, expired, status,
                 eventQueue, ticking, sweep, readyClosed, errs, panicked>>

TickHandle == TickOnline \/ TickOffline \/ TickStatus \/ TickDispatchFailed

\* removeTombstoneEntry, called by CleanTombstone.
removeTombstoneEntry(w) ==
  /\ MuFree
  /\ PanicIf("early", /\ workerEntries[w] # NoEntry
                      /\ entryState[workerEntries[w]] # "Tombstone")
  /\ workerEntries' = [workerEntries EXCEPT ![w] = NoEntry]
  /\ UNCHANGED <<wmState, epoch, entryState, finished, expired, status,
                 eventQueue, ticking, handling, sweep, readyClosed, errs, told>>

-----------------------------------------------------------------------------
(* InitAfterRecover, before the main goroutine ever calls Tick.            *)

\* An entry in state Wait for every worker in the metastore that has not
\* finished.  meta is the metastore's worker table, "none" where it has no row.
InitAfterRecoverLoad(meta) ==
  LET active == {w \in WorkerID : meta[w] \notin {"none", "Finished"}}
  IN  /\ wmState = "LoadingMeta" /\ MuFree
      /\ \E pick \in [active -> Entry] :
           /\ \A w \in active : IdOf[pick[w]] = w
           /\ workerEntries' = [w \in WorkerID |->
                IF w \in active THEN pick[w] ELSE workerEntries[w]]
           /\ entryState' = [e \in Entry |->
                IF IdOf[e] \in active /\ pick[IdOf[e]] = e
                THEN "Wait" ELSE entryState[e]]
           /\ status' = [e \in Entry |->
                IF IdOf[e] \in active /\ pick[IdOf[e]] = e
                THEN meta[IdOf[e]] ELSE status[e]]
           /\ expired' = {e \in Entry : IdOf[e] \in active /\ pick[IdOf[e]] = e}
      /\ wmState' = IF active = {} THEN "Ready" ELSE "WaitingHeartbeat"
      /\ UNCHANGED <<epoch, finished, eventQueue, ticking, handling, sweep,
                     readyClosed, errs, panicked, told>>

\* Mutant: workers that have not shown up are left waiting.
InitAfterRecoverFinish_KeepsWait ==
  /\ wmState = "WaitingHeartbeat" /\ MuFree
  /\ wmState' = "Ready"
  /\ UNCHANGED <<epoch, workerEntries, entryState, finished, expired, status,
                 eventQueue, ticking, handling, sweep, readyClosed, errs,
                 panicked, told>>

\* All workers have been discovered or the timer has fired: whoever has not
\* shown up, or has finished, becomes a tombstone.
InitAfterRecoverFinish ==
  /\ wmState = "WaitingHeartbeat" /\ MuFree
  /\ LET dead == {e \in Entry : InEntries(e) /\ (entryState[e] = "Wait" \/ e \in finished)}
     IN  /\ PanicIf("state", \E e \in dead : ~MayGoTombstone(e))
         /\ entryState' = [e \in Entry |->
              IF e \in dead THEN "Tombstone" ELSE entryState[e]]
         /\ told' = [w \in WorkerID |->
              IF workerEntries[w] = NoEntry THEN told[w]
              ELSE IF workerEntries[w] \in dead THEN "gone" ELSE "online"]
  /\ wmState' = "Ready"
  /\ UNCHANGED <<epoch, workerEntries, finished, expired, status, eventQueue,
                 ticking, handling, sweep, readyClosed, errs>>

-----------------------------------------------------------------------------
(* Properties.                                                             *)

Pending == {handling[i] : i \in DOMAIN handling}
             \cup {eventQueue[i] : i \in DOMAIN eventQueue}

\* No call of log.Panic is reachable in the manager of the latest master: an
\* entry never goes online, offline or to tombstone from a state that forbids
\* it, allWorkersReady is closed once, a worker ID is never started twice, no
\* tombstone is removed early, no status callback reads a handle whose entry
\* has left the map, and no message has a larger epoch than the manager's own.
\* (A master that was replaced and still runs panics by design at the first
\* message its successor's workers send it.)
NoPanic == panicked = {}

\* What the implementation was told matches the map: a worker it believes to
\* be online has a live or offline entry there, one reported gone has a
\* tombstone or none.
BeliefMatches ==
  \A w \in WorkerID :
    LET e == workerEntries[w]
    IN  /\ told[w] = "online" => e # NoEntry /\ entryState[e] \in {"Normal", "Offline"}
        /\ told[w] = "gone" => e = NoEntry \/ entryState[e] = "Tombstone"
=============================================================================
