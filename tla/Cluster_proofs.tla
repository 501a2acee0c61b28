--------------------------- MODULE Cluster_proofs ---------------------------
(***************************************************************************)
(* The leases of workers and of executors, for all durations, nodes and    *)
(* numbers of leaders and failovers: who gives a lease up does so after    *)
(* its holder has stopped.  The server masters, for any number of servers, *)
(* terms, executors, resources and faults: at most one serves under a live *)
(* session, requests go to the holder of the oldest key, the executor map  *)
(* and the capacity map agree, and tasks are placed with their data.       *)
(***************************************************************************)
EXTENDS ServerElection, ExecutorPool, ExecutorLease, WorkerLease, TLAPS

-----------------------------------------------------------------------------
(***************************************************************************)
(* The lease of a worker.                                                  *)
(*                                                                         *)
(* Three facts are needed.  Epochs only grow along the way from the master *)
(* to the worker and back, so a ping with the current epoch comes from a   *)
(* worker that ignores all earlier masters.  Nothing on its way is later   *)
(* than the clock, so when a ping is accepted everything on its way is     *)
(* covered; afterwards only a ping with the current epoch can be later     *)
(* than the entry's time, and that ping is accepted in its turn.  The      *)
(* watchdog's next tick is at most one interval after the lease, or after  *)
(* the time of the entry.                                                  *)
(***************************************************************************)

\* No epoch is newer than the one it was learnt from.
EpochInv ==
  /\ epoch >= 1
  /\ masterEpoch <= epoch
  /\ \A p \in pings : p.e <= masterEpoch
  /\ handling # NoPing => handling.e <= masterEpoch
  /\ \A q \in pongs : q.e <= epoch

\* Nothing is later than the clock.
ClockInv ==
  /\ since <= now
  /\ acked <= granted /\ granted <= now
  /\ \A p \in pings : p.t <= now
  /\ handling # NoPing => handling.t <= now
  /\ \A q \in pongs : q.t <= now

\* A worker that is normal knows its master, and all it may still be granted is
\* covered by the entry.
CoverInv ==
  entry = "normal" =>
    /\ state # "LoadingMeta"
    /\ worker # "queued"
    /\ masterEpoch = epoch
    /\ granted <= since \/ Renewing
    /\ \A p \in pings : p.e = epoch \/ p.t <= since
    /\ handling # NoPing => (handling.e = epoch \/ handling.t <= since)
    /\ \A q \in pongs : q.e < epoch \/ q.t <= since \/ Renewing

\* The watchdog of a worker that its master knows is never late by more than an
\* interval.
WatchInv ==
  /\ worker = "running" => watchTick <= now + WorkerHeartbeatInterval
  /\ worker = "queued" => (pings = {} /\ pongs = {} /\ handling = NoPing /\ ~row)
  /\ entry = "wait" => worker # "queued"
  /\ (entry \in {"wait", "normal"} /\ worker = "running") =>
       \/ watchTick <= granted + WorkerTimeoutDuration + WorkerHeartbeatInterval
       \/ watchTick <= since + WorkerHeartbeatInterval

WLParts == WorkerLeaseTypeOK /\ EpochInv /\ ClockInv /\ CoverInv /\ WatchInv

WLInv == WLParts

\* The invariant holds when the worker has been submitted.
LEMMA WLInvInit == WorkerLeaseInit => WLInv
<1> SUFFICES ASSUME WorkerLeaseInit PROVE WLInv
  OBVIOUS
<1> USE WorkerLeaseAssumption DEF WorkerLeaseInit
<1>1. WorkerLeaseTypeOK
  <2>1. row \in BOOLEAN /\ handling \in Ping \cup {NoPing}
    BY Zenon
  <2>2. now \in Nat /\ since \in Nat
    OBVIOUS
  <2> QED
    BY <2>1, <2>2 DEF WorkerLeaseTypeOK
<1>2. EpochInv
  BY DEF EpochInv
<1>3. ClockInv
  BY DEF ClockInv
<1>4. CoverInv
  BY DEF CoverInv
<1>5. WatchInv
  BY Zenon DEF WatchInv
<1> QED
  BY <1>1, <1>2, <1>3, <1>4, <1>5 DEF WLInv, WLParts

\* The worker starts and knows the epoch of the metastore.
LEMMA WLDoPreInit == ASSUME WLInv, DoPreInit PROVE WLInv'
<1>1. WLParts
  BY Zenon DEF WLInv
<1>2. WLParts'
  BY <1>1, WorkerLeaseAssumption, SMTT(40)
     DEF DoPreInit, WLParts, WorkerLeaseTypeOK, EpochInv, ClockInv, CoverInv, WatchInv,
         Renewing, workerVars, masterVars, Ping, Pong
<1> QED
  BY <1>2, Zenon DEF WLInv

\* The worker's row is written.
LEMMA WLUpsertWorker == ASSUME WLInv, UpsertWorker PROVE WLInv'
<1>1. WLParts
  BY Zenon DEF WLInv
<1>2. WLParts'
  BY <1>1, WorkerLeaseAssumption, SMTT(40)
     DEF UpsertWorker, WLParts, WorkerLeaseTypeOK, EpochInv, ClockInv, CoverInv, WatchInv,
         Renewing, workerVars, masterVars, Ping, Pong
<1> QED
  BY <1>2, Zenon DEF WLInv

\* A ping carries the time and the epoch of its worker.
LEMMA WLSendHeartBeat == ASSUME WLInv, SendHeartBeat PROVE WLInv'
<1>1. WLParts
  BY Zenon DEF WLInv
<1>2. WLParts'
  BY <1>1, WorkerLeaseAssumption, SMTT(40)
     DEF SendHeartBeat, WLParts, WorkerLeaseTypeOK, EpochInv, ClockInv, CoverInv, WatchInv,
         Renewing, workerVars, masterVars, Ping, Pong
<1> QED
  BY <1>2, Zenon DEF WLInv

\* A pong of the worker's own master grants it a lease.
LEMMA WLHandlePong == ASSUME WLInv, HandlePong PROVE WLInv'
<1>1. WLParts
  BY Zenon DEF WLInv
<1>2. WLParts'
  BY <1>1, WorkerLeaseAssumption, SMTT(40)
     DEF HandlePong, WLParts, WorkerLeaseTypeOK, EpochInv, ClockInv, CoverInv, WatchInv,
         Renewing, workerVars, masterVars, Ping, Pong
<1> QED
  BY <1>2, Zenon DEF WLInv

\* The watchdog ticks.
LEMMA WLRunWatchDog == ASSUME WLInv, RunWatchDog PROVE WLInv'
<1>1. WLParts
  BY Zenon DEF WLInv
<1>2. watchTick' \in Nat /\ watchTick' <= now + WorkerHeartbeatInterval
  BY <1>1, WorkerLeaseAssumption, SMTT(40)
     DEF RunWatchDog, NextWatchTick, WLParts, WorkerLeaseTypeOK
<1>3. WLParts'
  BY <1>1, <1>2, WorkerLeaseAssumption, SMTT(40)
     DEF RunWatchDog, WatchDue, SinceLastAcked, WLParts, WorkerLeaseTypeOK, EpochInv,
         ClockInv, CoverInv, WatchInv, Renewing, workerVars, masterVars, Ping, Pong
<1> QED
  BY <1>3, Zenon DEF WLInv

\* The worker learns of a new master.
LEMMA WLRefreshMasterInfo == ASSUME WLInv, RefreshMasterInfo PROVE WLInv'
<1>1. WLParts
  BY Zenon DEF WLInv
<1>2. WLParts'
  BY <1>1, WorkerLeaseAssumption, SMTT(40)
     DEF RefreshMasterInfo, WLParts, WorkerLeaseTypeOK, EpochInv, ClockInv, CoverInv, WatchInv,
         Renewing, workerVars, masterVars, Ping, Pong
<1> QED
  BY <1>2, Zenon DEF WLInv

\* The worker ends by itself.
LEMMA WLWorkerStops == ASSUME WLInv, WorkerStops PROVE WLInv'
<1>1. WLParts
  BY Zenon DEF WLInv
<1>2. WLParts'
  BY <1>1, WorkerLeaseAssumption, SMTT(40)
     DEF WorkerStops, WLParts, WorkerLeaseTypeOK, EpochInv, ClockInv, CoverInv, WatchInv,
         Renewing, workerVars, masterVars, Ping, Pong
<1> QED
  BY <1>2, Zenon DEF WLInv

\* A message is lost.
LEMMA WLLose == ASSUME WLInv, Lose PROVE WLInv'
<1>1. WLParts
  BY Zenon DEF WLInv
<1>2. WLParts'
  BY <1>1, WorkerLeaseAssumption, SMTT(40)
     DEF Lose, WLParts, WorkerLeaseTypeOK, EpochInv, ClockInv, CoverInv, WatchInv,
         Renewing, workerVars, masterVars, Ping, Pong
<1> QED
  BY <1>2, Zenon DEF WLInv

\* The master answers a ping before it looks at it.
LEMMA WLSendPong == ASSUME WLInv, SendPong PROVE WLInv'
<1>0. WorkerLeaseTypeOK /\ EpochInv /\ ClockInv /\ CoverInv /\ WatchInv
  BY Zenon DEF WLInv, WLParts
<1>1. PICK p \in pings :
        /\ p.n = node /\ handling = NoPing
        /\ pings' = pings \ {p}
        /\ pongs' = pongs \cup {[t |-> p.t, e |-> epoch, n |-> node]}
        /\ handling' = p
  BY SMTT(40) DEF SendPong
<1>2. p \in Ping /\ p # NoPing
  <2>1. p \in Ping
    BY <1>0, Zenon DEF WorkerLeaseTypeOK
  <2>2. p.n \in Nodes /\ NoPing.n = NoNode
    BY <2>1, SMTT(40) DEF Ping, NoPing
  <2> QED
    BY <2>1, <2>2, WorkerLeaseAssumption, Zenon
<1>3. UNCHANGED <<now, workerVars, epoch, node, oldNode, state, entry, since>>
  BY SMTT(40) DEF SendPong, masterVars
<1>4. WorkerLeaseTypeOK'
  BY <1>0, <1>1, <1>2, <1>3, SMTT(40) DEF WorkerLeaseTypeOK, workerVars, Ping, Pong
<1>5. EpochInv'
  <2>1. epoch \in Nat /\ epoch <= epoch
    BY <1>0, SMTT(40) DEF WorkerLeaseTypeOK
  <2> QED
    BY <1>0, <1>1, <1>3, <2>1, SMTT(40) DEF EpochInv, workerVars
<1>6. ClockInv'
  BY <1>0, <1>1, <1>3, SMTT(40) DEF ClockInv, workerVars
<1>7. CoverInv'
  <2> SUFFICES ASSUME entry' = "normal" PROVE CoverInv'
    BY Zenon DEF CoverInv
  <2>1. p.e = epoch \/ p.t <= since
    BY <1>0, <1>3, Zenon DEF CoverInv
  <2>2. Renewing' <=> p.e = epoch
    BY <1>1, <1>2, <1>3, SMTT(40) DEF Renewing
  <2>3. granted' <= since' \/ Renewing'
    BY <1>0, <1>1, <1>3, <2>2, SMTT(40) DEF CoverInv, Renewing, workerVars
  <2>4. \A q \in pongs' : q.e < epoch' \/ q.t <= since' \/ Renewing'
    BY <1>0, <1>1, <1>3, <2>1, <2>2, SMTT(40) DEF CoverInv, Renewing, workerVars
  <2> QED
    BY <1>0, <1>1, <1>3, <2>1, <2>3, <2>4, SMTT(40) DEF CoverInv, workerVars
<1>8. WatchInv'
  BY <1>0, <1>1, <1>3, SMTT(40) DEF WatchInv, workerVars
<1> QED
  BY <1>4, <1>5, <1>6, <1>7, <1>8, Zenon DEF WLInv, WLParts

\* The master looks at the ping it has answered.
LEMMA WLHandleHeartbeat == ASSUME WLInv, HandleHeartbeat PROVE WLInv'
<1>1. WLParts
  BY Zenon DEF WLInv
<1>2. WLParts'
  BY <1>1, WorkerLeaseAssumption, SMTT(60)
     DEF HandleHeartbeat, Online, WLParts, WorkerLeaseTypeOK, EpochInv, ClockInv, CoverInv, WatchInv,
         Renewing, workerVars, masterVars, Ping, Pong
<1> QED
  BY <1>2, Zenon DEF WLInv

\* A master that has been replaced answers a ping.
LEMMA WLStaleMasterAnswers == ASSUME WLInv, StaleMasterAnswers PROVE WLInv'
<1>1. WLParts
  BY Zenon DEF WLInv
<1>2. WLParts'
  BY <1>1, WorkerLeaseAssumption, SMTT(40)
     DEF StaleMasterAnswers, WLParts, WorkerLeaseTypeOK, EpochInv, ClockInv, CoverInv, WatchInv,
         Renewing, workerVars, masterVars, Ping, Pong
<1> QED
  BY <1>2, Zenon DEF WLInv

\* A master that has been replaced stops.
LEMMA WLStaleMasterStops == ASSUME WLInv, StaleMasterStops PROVE WLInv'
<1>1. WLParts
  BY Zenon DEF WLInv
<1>2. WLParts'
  BY <1>1, WorkerLeaseAssumption, SMTT(40)
     DEF StaleMasterStops, WLParts, WorkerLeaseTypeOK, EpochInv, ClockInv, CoverInv, WatchInv,
         Renewing, workerVars, masterVars, Ping, Pong
<1> QED
  BY <1>2, Zenon DEF WLInv

\* The checker finds the entry expired.
LEMMA WLCheckWorkerEntries == ASSUME WLInv, CheckWorkerEntries PROVE WLInv'
<1>1. WLParts
  BY Zenon DEF WLInv
<1>2. WLParts'
  BY <1>1, WorkerLeaseAssumption, ZenonT(40)
     DEF CheckWorkerEntries, WLParts, WorkerLeaseTypeOK, EpochInv, ClockInv, CoverInv, WatchInv,
         Renewing, workerVars, masterVars, Ping, Pong
<1> QED
  BY <1>2, Zenon DEF WLInv

\* The offline event is handled.
LEMMA WLOfflineEvent == ASSUME WLInv, OfflineEvent PROVE WLInv'
<1>1. WLParts
  BY Zenon DEF WLInv
<1>2. WLParts'
  BY <1>1, WorkerLeaseAssumption, SMTT(40)
     DEF OfflineEvent, WLParts, WorkerLeaseTypeOK, EpochInv, ClockInv, CoverInv, WatchInv,
         Renewing, workerVars, masterVars, Ping, Pong
<1> QED
  BY <1>2, Zenon DEF WLInv

\* A new master starts.
LEMMA WLMasterFailover == ASSUME WLInv, MasterFailover PROVE WLInv'
<1>1. WLParts
  BY Zenon DEF WLInv
<1>2. WLParts'
  BY <1>1, WorkerLeaseAssumption, SMTT(40)
     DEF MasterFailover, WLParts, WorkerLeaseTypeOK, EpochInv, ClockInv, CoverInv, WatchInv,
         Renewing, workerVars, masterVars, Ping, Pong
<1> QED
  BY <1>2, Zenon DEF WLInv

\* The new master loads its rows and waits.
LEMMA WLLoadAllWorkers == ASSUME WLInv, LoadAllWorkers PROVE WLInv'
<1>1. WLParts
  BY Zenon DEF WLInv
<1>2. WLParts'
  BY <1>1, WorkerLeaseAssumption, SMTT(40)
     DEF LoadAllWorkers, WLParts, WorkerLeaseTypeOK, EpochInv, ClockInv, CoverInv, WatchInv,
         Renewing, workerVars, masterVars, Ping, Pong
<1> QED
  BY <1>2, Zenon DEF WLInv

\* The wait of InitAfterRecover ends.
LEMMA WLWaitEnds == ASSUME WLInv, WaitEnds PROVE WLInv'
<1>1. WLParts
  BY Zenon DEF WLInv
<1>2. WLParts'
  BY <1>1, WorkerLeaseAssumption, SMTT(40)
     DEF WaitEnds, WLParts, WorkerLeaseTypeOK, EpochInv, ClockInv, CoverInv, WatchInv,
         Renewing, workerVars, masterVars, Ping, Pong
<1> QED
  BY <1>2, Zenon DEF WLInv

\* The clock advances.
LEMMA WLTime == ASSUME WLInv, Time PROVE WLInv'
<1>1. WLParts
  BY Zenon DEF WLInv
<1>2. WLParts'
  BY <1>1, WorkerLeaseAssumption, SMTT(40)
     DEF Time, WLParts, WorkerLeaseTypeOK, EpochInv, ClockInv, CoverInv, WatchInv,
         Renewing, workerVars, masterVars, Ping, Pong
<1> QED
  BY <1>2, Zenon DEF WLInv

\* Nothing happens.
LEMMA WLStutter == ASSUME WLInv, UNCHANGED wlVars PROVE WLInv'
<1>1. WLParts
  BY Zenon DEF WLInv
<1>2. WLParts'
  BY <1>1, WorkerLeaseAssumption, SMTT(40)
     DEF wlVars, WLParts, WorkerLeaseTypeOK, EpochInv, ClockInv, CoverInv, WatchInv,
         Renewing, workerVars, masterVars, Ping, Pong
<1> QED
  BY <1>2, Zenon DEF WLInv

\* Every step of the worker, the network, the masters and the clock keeps it.
LEMMA WLInvStep == WLInv /\ [WorkerLeaseNext]_wlVars => WLInv'
BY WLDoPreInit, WLUpsertWorker, WLSendHeartBeat, WLHandlePong, WLRunWatchDog,
   WLRefreshMasterInfo, WLWorkerStops, WLLose, WLSendPong, WLHandleHeartbeat,
   WLStaleMasterAnswers, WLStaleMasterStops, WLCheckWorkerEntries, WLOfflineEvent, WLMasterFailover,
   WLLoadAllWorkers, WLWaitEnds, WLTime, WLStutter, Zenon
   DEF WorkerLeaseNext

\* The invariant holds throughout.
LEMMA WLInvAlways == WorkerLeaseSpec => []WLInv
BY WLInvInit, WLInvStep, PTL DEF WorkerLeaseSpec

\* A worker never counts its lease from a later time than a master that has
\* accepted one of its pings.
THEOREM WorkerLeaseOrder == WorkerLeaseSpec => []WorkerCountsFirst
<1>1. WLInv => WorkerCountsFirst
  BY Zenon DEF WLInv, WLParts, CoverInv, WorkerCountsFirst
<1> QED
  BY <1>1, WLInvAlways, PTL

\* Only CheckWorkerEntries makes an entry offline, and only the timer of
\* InitAfterRecover makes a waiting one a tombstone.
LEMMA EntryEnds ==
  ASSUME WLInv, [WorkerLeaseNext]_wlVars
  PROVE  /\ (entry = "normal" /\ entry' = "offline") => CheckWorkerEntries
         /\ (entry = "wait" /\ entry' = "tombstone") => WaitEnds
BY Zenon DEF WorkerLeaseNext, wlVars, workerVars, masterVars, DoPreInit, UpsertWorker,
       SendHeartBeat, HandlePong, RunWatchDog, RefreshMasterInfo, WorkerStops,
       Lose, SendPong, HandleHeartbeat, StaleMasterAnswers, StaleMasterStops,
       OfflineEvent, MasterFailover, LoadAllWorkers, WaitEnds,
       CheckWorkerEntries, Time

\* A master times out only workers that the watchdog has ended, is about to end,
\* or cannot look after.
THEOREM TimeoutIsSafe == WorkerLeaseSpec => TimeoutAfterSuicide
<1>1. WLInv /\ [WorkerLeaseNext]_wlVars =>
        [(entry = "normal" /\ entry' = "offline")
            => (WatchedOut \/ Renewing)]_wlVars
  <2> SUFFICES ASSUME WLInv, [WorkerLeaseNext]_wlVars,
                      entry = "normal", entry' = "offline", ~Renewing
               PROVE  WatchedOut
    OBVIOUS
  <2>1. since + TimeoutInterval < now
    BY EntryEnds DEF CheckWorkerEntries
  <2> QED
    BY <2>1, WorkerLeaseAssumption, SMTT(40)
       DEF WLInv, WLParts, WorkerLeaseTypeOK, CoverInv, WatchInv, WatchedOut,
           TimeoutInterval
<1> QED
  BY <1>1, WLInvAlways, PTL DEF WorkerLeaseSpec, TimeoutAfterSuicide

\* The wait of a recovered master outlives every lease granted before it began.
THEOREM WaitIsSafe == WorkerLeaseSpec => WaitOutlivesOldLease
<1>1. WLInv /\ [WorkerLeaseNext]_wlVars =>
        [(entry = "wait" /\ entry' = "tombstone")
            => (WatchedOut \/ granted > since)]_wlVars
  <2> SUFFICES ASSUME WLInv, [WorkerLeaseNext]_wlVars,
                      entry = "wait", entry' = "tombstone", ~(granted > since)
               PROVE  WatchedOut
    OBVIOUS
  <2>1. since + TimeoutInterval <= now
    BY EntryEnds DEF WaitEnds
  <2> QED
    BY <2>1, WorkerLeaseAssumption, SMTT(40)
       DEF WLInv, WLParts, WorkerLeaseTypeOK, WatchInv, WatchedOut, TimeoutInterval
<1> QED
  BY <1>1, WLInvAlways, PTL DEF WorkerLeaseSpec, WaitOutlivesOldLease
-----------------------------------------------------------------------------
(***************************************************************************)
(* The lease of an executor.                                               *)
(*                                                                         *)
(* The inductive invariant bounds the next tick by the time of the last    *)
(* heartbeat (a tick is only followed by another while the lease lasts),   *)
(* and says that the times of the current leader's record are those of the *)
(* heartbeat that the executor counts from, or will count from when the    *)
(* answer on its way arrives.                                              *)
(***************************************************************************)


LongTTL == ttl = KeepAliveTTL + RPCTimeout

LeaseInv ==
  /\ LeaseTypeOK
  /\ callTerm <= term /\ term >= 1
  /\ lastUpdate <= clock
  /\ proc = "up" =>
       /\ lastHb <= nextTick
       /\ nextTick <= lastHb + KeepAliveTTL + KeepAliveInterval
       /\ call # "none" => /\ lastHb <= callTime
                           /\ callTime <= clock
                           /\ callTime <= nextTick
  /\ proc # "up" => call = "none"
  /\ (call = "ok" /\ callTerm = term) => (callTime <= lastUpdate /\ LongTTL)
  /\ leaseFrom = "record" => (lastHb <= lastUpdate /\ LongTTL)
  /\ (leaseFrom = "record" /\ record = "expired") => lastUpdate + ttl < clock
  /\ (call = "ok" /\ callTerm = term /\ record = "expired")
       => lastUpdate + ttl < clock
  /\ proc = "starting" => leaseFrom = "other"

\* The invariant holds when the executor has been registered.
LEMMA LeaseInvInit == LeaseInit => LeaseInv
BY LeaseAssumption, SMTT(60) DEF LeaseInit, LeaseInv, LeaseTypeOK, LongTTL

\* Every step of the executor, of a leader and of the clock keeps the invariant.
LEMMA LeaseInvStep == LeaseInv /\ [LeaseNext]_leaseVars => LeaseInv'
<1> SUFFICES ASSUME LeaseInv, [LeaseNext]_leaseVars PROVE LeaseInv'
  OBVIOUS
<1> USE LeaseAssumption
<1> USE DEF LeaseInv, LeaseTypeOK, LongTTL, executorVars, leaderVars
<1>1. CASE KeepHeartbeat
  BY <1>1 DEF KeepHeartbeat
<1>2. CASE Tick
  BY <1>2 DEF Tick, TickDue, LeaseOver
<1>3. CASE HeartbeatAnswered
  BY <1>3 DEF HeartbeatAnswered
<1>4. CASE HeartbeatRefused
  BY <1>4 DEF HeartbeatRefused
<1>5. CASE HeartbeatFails
  BY <1>5 DEF HeartbeatFails, LeaseOver
<1>6. CASE HeartbeatRetried
  BY <1>6 DEF HeartbeatRetried
<1>7. CASE ExecutorStops
  BY <1>7 DEF ExecutorStops
<1>8. CASE HandleExecHeartbeat
  BY <1>8 DEF HandleExecHeartbeat
<1>9. CASE AnswerNotReady
  BY <1>9 DEF AnswerNotReady
<1>10. CASE AnsweredByOldLeader
  BY <1>10 DEF AnsweredByOldLeader
<1>11. CASE CheckAlive
  BY <1>11 DEF CheckAlive
<1>12. CASE RunLeaderService
  <2>1. callTerm' # term'
    BY <1>12 DEF RunLeaderService
  <2>2. leaseFrom' = "other"
    BY <1>12 DEF RunLeaderService
  <2>3. LeaseTypeOK'
    <3>1. ready' \in BOOLEAN /\ record' \in {"live", "expired", "absent"}
      BY <1>12, Zenon DEF RunLeaderService
    <3> QED
      BY <1>12, <3>1 DEF RunLeaderService
  <2> QED
    BY <1>12, <2>1, <2>2, <2>3 DEF RunLeaderService
<1>13. CASE LeaderReady
  BY <1>13 DEF LeaderReady
<1>14. CASE TimePasses
  BY <1>14 DEF TimePasses
<1>15. CASE UNCHANGED leaseVars
  BY <1>15 DEF leaseVars
<1> HIDE DEF LeaseInv, LeaseTypeOK, LongTTL, executorVars, leaderVars
<1> QED
  BY <1>1, <1>2, <1>3, <1>4, <1>5, <1>6, <1>7, <1>8, <1>9, <1>10, <1>11,
     <1>12, <1>13, <1>14, <1>15, Zenon DEF LeaseNext

\* The invariant holds throughout.
LEMMA LeaseInvAlways == LeaseSpec => []LeaseInv
BY LeaseInvInit, LeaseInvStep, PTL DEF LeaseSpec

\* An executor counts its lease from an earlier time than the leader whose
\* record granted it.
THEOREM ExecutorLeaseOrder == LeaseSpec => []ExecutorCountsFirst
<1>1. LeaseInv => ExecutorCountsFirst
  BY DEF LeaseInv, ExecutorCountsFirst
<1> QED
  BY <1>1, LeaseInvAlways, PTL

\* A leader that gives up on an executor it granted the lease finds it stopped,
\* or stuck in a heartbeat call past the next tick.
THEOREM ExecutorLeaseSafe == LeaseSpec => []ExpiredMeansStopped
<1>1. LeaseInv => ExpiredMeansStopped
  BY LeaseAssumption DEF LeaseInv, LeaseTypeOK, LongTTL, ExpiredMeansStopped
<1> QED
  BY <1>1, LeaseInvAlways, PTL

-----------------------------------------------------------------------------
(***************************************************************************)
(* The election.  The invariant says why the leader is unique: who serves  *)
(* under a live session holds the oldest key, and a key that the session   *)
(* has lost is only kept by a campaign that has not been decided.          *)
(***************************************************************************)

TypesUsed ==
  /\ pc \in [Server -> Phases]
  /\ view \in [Server -> Server \cup {NoServer}]
  /\ session \in [Server -> BOOLEAN]
  /\ keys \subseteq Key
  /\ deleted \subseteq Server

\* No two keys are of the same revision.
KeysOrdered == \A j, k \in keys : j.rev = k.rev => j = k

\* A key that its campaign still waits with, though etcd has removed it.
GhostsWait == \A k \in keys : k.st = "ghost" => pc[k.srv] = "campaign" /\ ~session[k.srv]

\* Who takes another server for the leader takes the holder of the oldest key
\* for it, unless its watch has a deletion to read or has lost one.
ViewInv ==
  \A s \in Server :
    view[s] \notin {NoServer, s} /\ s \notin deleted /\ pc[s] # "blind" =>
      \E k \in keys : Leads(k) /\ view[s] = k.srv

\* Who serves under a live session holds the oldest key.
ServiceHoldsKey ==
  \A s \in Server : InService(s) /\ session[s] =>
                      \E k \in keys : Leads(k) /\ k.srv = s /\ k.st = "live"

ElectionInv ==
  TypesUsed /\ KeysOrdered /\ GhostsWait /\ ViewInv /\ ServiceHoldsKey

\* The first servers find no key.
LEMMA ElectionInvInit == ElectionInit => ElectionInv
  BY Zenon DEF ElectionInit, ElectionInv, TypesUsed, KeysOrdered, GhostsWait,
         ViewInv,
         ServiceHoldsKey, InService, Phases

\* A step of s that leaves the keys alone.
LEMMA KeysKept ==
  ASSUME ElectionInv, TypesUsed', NEW s \in Server, UNCHANGED keys,
         \A t \in Server \ {s} : /\ pc'[t] = pc[t] /\ view'[t] = view[t]
                                 /\ session'[t] = session[t]
                                 /\ t \in deleted => t \in deleted',
         pc[s] = "campaign" => pc'[s] = "campaign" /\ session'[s] = session[s],
         InService(s)' /\ session'[s] => InService(s) /\ session[s],
         \/ /\ view'[s] = view[s] /\ (s \in deleted => s \in deleted')
            /\ pc[s] # "blind"
         \/ view'[s] \in {s, NoServer} \/ pc'[s] = "blind"
         \/ \E k \in keys : Leads(k) /\ view'[s] = k.srv
  PROVE  ElectionInv'
  <1>1. \A k \in keys : Leads(k)' <=> Leads(k)
    BY Zenon DEF Leads
  <1>2. GhostsWait'
    BY ZenonT(40) DEF ElectionInv, GhostsWait, TypesUsed, Key
  <1>3. ViewInv'
    BY <1>1, ZenonT(40) DEF ElectionInv, ViewInv
  <1>4. ServiceHoldsKey'
    BY <1>1, ZenonT(40) DEF ElectionInv, ServiceHoldsKey, InService
  <1>5. KeysOrdered'
    BY Zenon DEF ElectionInv, KeysOrdered
  <1> QED
    BY <1>2, <1>3, <1>4, <1>5, Zenon DEF ElectionInv

\* Keys are removed: those of a server that is not in service or will have lost
\* its session, orphans, or ghosts.
LEMMA KeysRemoved ==
  ASSUME ElectionInv, TypesUsed', NEW s \in Server, keys' \subseteq keys,
         \/ deleted' = Server
         \/ deleted' = deleted /\ \A k \in keys \ keys' : ~InEtcd(k),
         \A k \in keys \ keys' : k.srv = s,
         \A t \in Server \ {s} : /\ pc'[t] = pc[t] /\ view'[t] = view[t]
                                 /\ session'[t] = session[t],
         \/ view'[s] = view[s] /\ (pc[s] = "blind" => pc'[s] = "blind")
         \/ view'[s] = NoServer,
         \A k \in keys' : k.srv = s /\ k.st = "ghost" =>
            pc'[s] = "campaign" /\ session'[s] = session[s],
         InService(s)' /\ session'[s] =>
            \E k \in keys' : Leads(k) /\ k.srv = s /\ k.st = "live"
  PROVE  ElectionInv'
  <1>1. \A k \in keys' : k \in keys /\ (Leads(k) => Leads(k)')
    BY Zenon DEF Leads
  <1>2. GhostsWait'
    BY <1>1 DEF ElectionInv, GhostsWait, TypesUsed, Key
  <1>3. ViewInv'
    <2>1. CASE deleted' = Server
      BY <2>1, Zenon DEF ViewInv
    <2>2. CASE deleted' = deleted /\ \A k \in keys \ keys' : ~InEtcd(k)
      <3>1. \A k \in keys : Leads(k) => k \in keys'
        BY <2>2, Zenon DEF Leads
      <3> QED
        BY <1>1, <2>2, <3>1, ZenonT(40) DEF ElectionInv, ViewInv
    <2> QED
      BY <2>1, <2>2, Zenon
  <1>4. ServiceHoldsKey'
    <2> SUFFICES ASSUME NEW t \in Server, InService(t)', session'[t]
                 PROVE  \E k \in keys' : Leads(k)' /\ k.srv = t /\ k.st = "live"
      BY Zenon DEF ServiceHoldsKey
    <2>1. CASE t = s
      BY <1>1, <2>1, Zenon
    <2>2. CASE t # s
      <3>1. PICK k \in keys : Leads(k) /\ k.srv = t /\ k.st = "live"
        BY <2>2, Zenon DEF ElectionInv, ServiceHoldsKey, InService
      <3>2. k \in keys'
        BY <2>2, <3>1, Zenon
      <3> QED
        BY <1>1, <3>1, <3>2, Zenon
    <2> QED
      BY <2>1, <2>2, Zenon
  <1>5. KeysOrdered'
    BY <1>1, Zenon DEF ElectionInv, KeysOrdered
  <1> QED
    BY <1>2, <1>3, <1>4, <1>5, Zenon DEF ElectionInv

\* A campaign writes the newest key.
LEMMA StartCampaignStep ==
  ASSUME ElectionInv, NEW s \in Server, StartCampaign(s)
  PROVE  ElectionInv'
  <1>1. /\ pc[s] = "decide" /\ session[s] /\ pc' = [pc EXCEPT ![s] = "campaign"]
        /\ UNCHANGED <<view, session, deleted>> /\ TypesUsed
    BY Zenon DEF StartCampaign, Goto, ElectionInv
  <1>2. \A t \in Server : InService(t)' => InService(t)
    BY <1>1, Zenon DEF InService, TypesUsed
  <1>3. CASE UNCHANGED keys
    <2>1. TypesUsed'
      BY <1>1, <1>3, Zenon DEF TypesUsed, Phases
    <2> QED
      BY <1>1, <1>2, <1>3, <2>1, KeysKept, Zenon DEF TypesUsed
  <1>4. CASE ~UNCHANGED keys
    <2>1. PICK r \in {0} \cup {k.rev + 1 : k \in keys} :
            /\ \A k \in keys : k.rev < r
            /\ keys' = keys \cup {[srv |-> s, st |-> "live", rev |-> r]}
      BY <1>4, Zenon DEF StartCampaign
    <2>2. r \in Nat /\ \A k \in keys : k.rev \in Nat
      BY <1>1 DEF TypesUsed, Key
    <2>3. PICK new \in Key : /\ new.srv = s /\ new.st = "live" /\ new.rev = r
                             /\ keys' = keys \cup {new}
      BY <2>1, <2>2, Zenon DEF Key
    <2>4. TypesUsed'
      BY <1>1, <2>3, ZenonT(40) DEF TypesUsed, Phases
    <2>5. \A k \in keys : Leads(k) => Leads(k)'
      <3>1. \A k \in keys : k.rev <= new.rev
        BY <2>1, <2>2, <2>3
      <3> QED
        BY <2>3, <3>1, Zenon DEF Leads
    <2>6. KeysOrdered'
      BY <2>1, <2>2, <2>3 DEF ElectionInv, KeysOrdered
    <2>7. GhostsWait'
      BY <1>1, <2>3, Zenon DEF ElectionInv, GhostsWait, TypesUsed, Key
    <2>8. ViewInv'
      <3>1. \A t \in Server : pc'[t] # "blind" => pc[t] # "blind"
        BY <1>1, Zenon DEF TypesUsed
      <3> QED
        BY <1>1, <2>3, <2>5, <3>1, ZenonT(40) DEF ElectionInv, ViewInv
    <2>9. ServiceHoldsKey'
      BY <1>1, <1>2, <2>3, <2>5, ZenonT(40) DEF ElectionInv, ServiceHoldsKey
    <2> QED
      BY <2>4, <2>6, <2>7, <2>8, <2>9, Zenon DEF ElectionInv
  <1> QED
    BY <1>3, <1>4, Zenon

\* Where the campaign of s waits when its session ends, its key becomes a ghost.
LEMMA SessionDoneWaiting ==
  ASSUME ElectionInv, NEW s \in Server, SessionDone(s), pc[s] = "campaign"
  PROVE  ElectionInv'
  <1>1. /\ session[s] /\ session' = [session EXCEPT ![s] = FALSE]
        /\ keys' = {IF Mine(s, k) THEN [k EXCEPT !.st = "ghost"] ELSE k : k \in keys}
        /\ deleted' = IF \E k \in KeysOf(s) : InEtcd(k) THEN Server ELSE deleted
        /\ UNCHANGED <<pc, view>> /\ TypesUsed
    BY Zenon DEF SessionDone, ElectionInv
  <1>2. \A k \in keys : Mine(s, k) => [k EXCEPT !.st = "ghost"] \in Key
    BY <1>1 DEF TypesUsed, Key
  <1>3. \A j \in keys' : \E k \in keys : /\ j.srv = k.srv /\ j.rev = k.rev
                                         /\ Mine(s, k) => j = [k EXCEPT !.st = "ghost"]
                                         /\ ~Mine(s, k) => j = k
    BY <1>1, Zenon DEF TypesUsed, Key
  <1>4. \A k \in keys : ~Mine(s, k) => k \in keys'
    BY <1>1, Zenon
  <1>5. \A j \in keys' : InEtcd(j) => j \in keys
    BY <1>1, <1>3 DEF InEtcd, TypesUsed, Key
  <1>6. TypesUsed'
    <2>1. keys' \subseteq Key
      BY <1>1, <1>2, Zenon DEF TypesUsed
    <2>2. session' \in [Server -> BOOLEAN]
      BY <1>1, Zenon DEF TypesUsed
    <2> QED
      BY <1>1, <2>1, <2>2, Zenon DEF TypesUsed
  <1>7. KeysOrdered'
    BY <1>3 DEF ElectionInv, KeysOrdered
  <1>8. GhostsWait'
    <2> SUFFICES ASSUME NEW j \in keys', j.st = "ghost"
                 PROVE  pc'[j.srv] = "campaign" /\ ~session'[j.srv]
      BY Zenon DEF GhostsWait
    <2>1. PICK k \in keys : j.srv = k.srv /\ (~Mine(s, k) => j = k)
      BY <1>3, Zenon
    <2>2. CASE Mine(s, k)
      BY <1>1, <2>1, <2>2, Zenon DEF Mine, TypesUsed
    <2>3. CASE ~Mine(s, k)
      <3>1. pc[k.srv] = "campaign" /\ ~session[k.srv] /\ k.srv \in Server
        BY <1>1, <2>1, <2>3, Zenon DEF ElectionInv, GhostsWait, TypesUsed, Key
      <3> QED
        BY <1>1, <2>1, <3>1, Zenon DEF TypesUsed
    <2> QED
      BY <2>2, <2>3, Zenon
  <1>9. ViewInv'
    <2>1. CASE \E k \in KeysOf(s) : InEtcd(k)
      BY <1>1, <2>1, Zenon DEF ViewInv
    <2>2. CASE ~ \E k \in KeysOf(s) : InEtcd(k)
      <3>1. \A k \in keys : Leads(k) => k \in keys' /\ Leads(k)'
        BY <1>4, <1>5, <2>2, Zenon DEF Leads, KeysOf
      <3> QED
        BY <1>1, <2>2, <3>1, Zenon DEF ElectionInv, ViewInv
    <2> QED
      BY <2>1, <2>2, Zenon
  <1>10. ServiceHoldsKey'
    <2> SUFFICES ASSUME NEW t \in Server, InService(t)', session'[t]
                 PROVE  \E k \in keys' : Leads(k)' /\ k.srv = t /\ k.st = "live"
      BY Zenon DEF ServiceHoldsKey
    <2>1. t # s /\ InService(t) /\ session[t]
      BY <1>1, Zenon DEF InService, TypesUsed
    <2>2. PICK k \in keys : Leads(k) /\ k.srv = t /\ k.st = "live"
      BY <2>1, Zenon DEF ElectionInv, ServiceHoldsKey
    <2>3. k \in keys'
      BY <1>4, <2>1, <2>2, Zenon DEF Mine
    <2> QED
      BY <1>5, <2>2, <2>3, Zenon DEF Leads
  <1> QED
    BY <1>6, <1>7, <1>8, <1>9, <1>10, Zenon DEF ElectionInv

\* A process that dies leaves its key as an orphan.
LEMMA CrashStep ==
  ASSUME ElectionInv, NEW s \in Server, Crash(s)
  PROVE  ElectionInv'
  <1>1. /\ pc' = [pc EXCEPT ![s] = "down"] /\ view' = [view EXCEPT ![s] = NoServer]
        /\ session' = [session EXCEPT ![s] = FALSE]
        /\ keys' = {IF Mine(s, k) THEN [k EXCEPT !.st = "orphan"] ELSE k :
                      k \in keys \ Ghosts(s)}
        /\ UNCHANGED deleted /\ TypesUsed
    BY Zenon DEF Crash, Goto, ElectionInv
  <1>2. \A k \in keys : [k EXCEPT !.st = "orphan"] \in Key
    BY <1>1, Zenon DEF TypesUsed, Key
  <1>3. \A j \in keys' : \E k \in keys \ Ghosts(s) :
                           /\ j.srv = k.srv /\ j.rev = k.rev
                           /\ Mine(s, k) => j = [k EXCEPT !.st = "orphan"]
                           /\ ~Mine(s, k) => j = k
    BY <1>1, Zenon DEF TypesUsed, Key
  <1>4. \A k \in keys \ Ghosts(s) :
          \E j \in keys' : /\ j.srv = k.srv /\ j.rev = k.rev /\ (InEtcd(k) => InEtcd(j))
                           /\ ~Mine(s, k) => j = k
    BY <1>1, Zenon DEF TypesUsed, Key, InEtcd
  <1>5. \A j \in keys' : InEtcd(j) => \E k \in keys : InEtcd(k) /\ k.rev = j.rev
    <2> SUFFICES ASSUME NEW j \in keys', InEtcd(j)
                 PROVE  \E k \in keys : InEtcd(k) /\ k.rev = j.rev
      BY Zenon
    <2>1. PICK k \in keys \ Ghosts(s) : j.rev = k.rev /\ (~Mine(s, k) => j = k)
      BY <1>3, Zenon
    <2>2. InEtcd(k)
      BY <2>1, Zenon DEF Ghosts, Mine, InEtcd
    <2> QED
      BY <2>1, <2>2, Zenon
  <1>6. \A k \in keys : Leads(k) => \E j \in keys' : /\ Leads(j)' /\ j.srv = k.srv
                                                     /\ ~Mine(s, k) => j = k
    <2> SUFFICES ASSUME NEW k \in keys, Leads(k)
                 PROVE  \E j \in keys' : Leads(j)' /\ j.srv = k.srv /\ (~Mine(s, k) => j = k)
      BY Zenon
    <2>1. k \in keys \ Ghosts(s)
      BY Zenon DEF Leads, Ghosts
    <2>2. PICK j \in keys' : /\ j.srv = k.srv /\ j.rev = k.rev /\ (InEtcd(k) => InEtcd(j))
                             /\ ~Mine(s, k) => j = k
      BY <1>4, <2>1, Zenon
    <2>3. Leads(j)'
      BY <1>5, <2>2, Zenon DEF Leads, InEtcd
    <2> QED
      BY <2>2, <2>3, Zenon
  <1>7. TypesUsed'
    <2>1. keys' \subseteq Key
      BY <1>1, <1>2, Zenon DEF TypesUsed
    <2>2. session' \in [Server -> BOOLEAN]
      BY <1>1, Zenon DEF TypesUsed
    <2> QED
      BY <1>1, <2>1, <2>2, Zenon DEF TypesUsed, Phases
  <1>8. KeysOrdered'
    BY <1>3 DEF ElectionInv, KeysOrdered
  <1>9. GhostsWait'
    <2> SUFFICES ASSUME NEW j \in keys', j.st = "ghost"
                 PROVE  pc'[j.srv] = "campaign" /\ ~session'[j.srv]
      BY Zenon DEF GhostsWait
    <2>1. PICK k \in keys \ Ghosts(s) : /\ Mine(s, k) => j = [k EXCEPT !.st = "orphan"]
                                        /\ ~Mine(s, k) => j = k
      BY <1>3, Zenon
    <2>2. ~Mine(s, k) /\ j = k
      BY <1>1, <2>1, Zenon DEF TypesUsed, Key
    <2>3. k.srv # s
      BY <2>2, Zenon DEF Ghosts, InEtcd
    <2>4. pc[k.srv] = "campaign" /\ ~session[k.srv] /\ k.srv \in Server
      BY <1>1, <2>2, Zenon DEF ElectionInv, GhostsWait, TypesUsed, Key
    <2> QED
      BY <1>1, <2>2, <2>3, <2>4, Zenon DEF TypesUsed
  <1>10. ViewInv'
    <2> SUFFICES ASSUME NEW t \in Server, view'[t] \notin {NoServer, t}, t \notin deleted',
                        pc'[t] # "blind"
                 PROVE  \E j \in keys' : Leads(j)' /\ view'[t] = j.srv
      BY Zenon DEF ViewInv
    <2>1. t # s /\ view'[t] = view[t] /\ t \notin deleted /\ pc[t] # "blind"
      BY <1>1, Zenon DEF TypesUsed
    <2>2. PICK k \in keys : Leads(k) /\ view[t] = k.srv
      BY <2>1, Zenon DEF ElectionInv, ViewInv
    <2> QED
      BY <1>6, <2>1, <2>2, Zenon
  <1>11. ServiceHoldsKey'
    <2> SUFFICES ASSUME NEW t \in Server, InService(t)', session'[t]
                 PROVE  \E k \in keys' : Leads(k)' /\ k.srv = t /\ k.st = "live"
      BY Zenon DEF ServiceHoldsKey
    <2>1. t # s /\ InService(t) /\ session[t]
      BY <1>1, Zenon DEF InService, TypesUsed
    <2>2. PICK k \in keys : Leads(k) /\ k.srv = t /\ k.st = "live"
      BY <2>1, Zenon DEF ElectionInv, ServiceHoldsKey
    <2>3. ~Mine(s, k)
      BY <2>1, <2>2, Zenon DEF Mine
    <2> QED
      BY <1>6, <2>2, <2>3, Zenon
  <1> QED
    BY <1>7, <1>8, <1>9, <1>10, <1>11, Zenon DEF ElectionInv

\* The steps of leaderLoop and of the leader service that leave the keys alone.
LEMMA LoopSteps ==
  ASSUME ElectionInv, NEW s \in Server,
         \/ GetNoLeader(s) \/ GetOtherLeader(s) \/ CloseClient(s) \/ DialClient(s)
         \/ WatchCompacted(s) \/ WatchEnds(s) \/ SkipCampaign(s) \/ CampaignFails(s)
         \/ StoreLeader(s) \/ ServiceReady(s) \/ Reset(s) \/ Run(s) \/ InitFails(s) \/ ServiceExits(s)
  PROVE  ElectionInv'
  <1>1. TypesUsed
    BY Zenon DEF ElectionInv
  <1>2. CASE GetOtherLeader(s)
    <2>1. PICK k \in keys : Leads(k) /\ view' = [view EXCEPT ![s] = k.srv]
      BY <1>2, Zenon DEF GetOtherLeader
    <2>2. /\ pc[s] = "get" /\ pc' = [pc EXCEPT ![s] = "connect"]
          /\ deleted' \in {deleted, deleted \ {s}} /\ UNCHANGED <<session, keys>>
      BY <1>2, Zenon DEF GetOtherLeader, Goto
    <2>3. k.srv \in Server
      BY <1>1, Zenon DEF TypesUsed, Key
    <2>4. TypesUsed'
      BY <1>1, <2>1, <2>2, <2>3, Zenon DEF TypesUsed, Phases
    <2> QED
      BY <1>1, <2>1, <2>2, <2>4, KeysKept, ZenonT(40) DEF TypesUsed, InService
  <1>3. CASE \/ GetNoLeader(s) \/ CloseClient(s) \/ DialClient(s) \/ SkipCampaign(s)
             \/ CampaignFails(s) \/ ServiceReady(s) \/ InitFails(s) \/ ServiceExits(s)
    <2>1. PICK p \in Phases : /\ pc' = [pc EXCEPT ![s] = p]
                              /\ pc[s] \notin {"campaign", "blind"}
                              /\ p \in {"init", "stored", "ready", "closing", "expired"} =>
                                   InService(s)
      BY <1>3, Zenon DEF GetNoLeader, CloseClient, DialClient, SkipCampaign,
             CampaignFails,
             ServiceReady, InitFails, ServiceExits, Goto, InService, Phases
    <2>2. UNCHANGED <<view, session, keys, deleted>>
      BY <1>3, Zenon DEF GetNoLeader, CloseClient, DialClient, SkipCampaign,
             CampaignFails,
             ServiceReady, InitFails, ServiceExits
    <2>3. TypesUsed'
      BY <1>1, <2>1, <2>2, Zenon DEF TypesUsed
    <2> QED
      BY <1>1, <2>1, <2>2, <2>3, KeysKept, Zenon DEF TypesUsed, InService
  <1>4. CASE WatchEnds(s) \/ StoreLeader(s)
    <2>1. PICK p \in Phases, v \in {s, NoServer} :
                /\ pc' = [pc EXCEPT ![s] = p] /\ pc[s] # "campaign"
                /\ p \in {"init", "stored", "ready", "closing", "expired"} => InService(s)
                /\ view' = [view EXCEPT ![s] = v]
      BY <1>4, Zenon DEF WatchEnds, StoreLeader, Goto, InService, Phases
    <2>2. UNCHANGED <<session, keys, deleted>>
      BY <1>4, Zenon DEF WatchEnds, StoreLeader
    <2>3. TypesUsed'
      BY <1>1, <2>1, <2>2, Zenon DEF TypesUsed
    <2> QED
      BY <1>1, <2>1, <2>2, <2>3, KeysKept, Zenon DEF TypesUsed, InService
  <1>5. CASE Reset(s) \/ Run(s)
    <2>1. /\ pc[s] \notin {"campaign", "blind"} /\ pc' = [pc EXCEPT ![s] = "get"]
          /\ session' = [session EXCEPT ![s] = TRUE] /\ UNCHANGED <<view, keys, deleted>>
      BY <1>5, Zenon DEF Reset, Run, Goto
    <2>2. session' \in [Server -> BOOLEAN]
      BY <1>1, <2>1, Zenon DEF TypesUsed
    <2>3. TypesUsed'
      BY <1>1, <2>1, <2>2, Zenon DEF TypesUsed, Phases
    <2>4. /\ ~InService(s)' /\ view'[s] = view[s]
          /\ \A t \in Server \ {s} : pc'[t] = pc[t] /\ session'[t] = session[t]
      BY <1>1, <2>1, Zenon DEF TypesUsed, InService
    <2> QED
      BY <2>1, <2>3, <2>4, KeysKept, Zenon
  <1>6. CASE WatchCompacted(s)
    <2>1. /\ pc[s] # "campaign" /\ pc' = [pc EXCEPT ![s] = "blind"]
          /\ deleted' = deleted \ {s} /\ UNCHANGED <<view, session, keys>>
      BY <1>6, Zenon DEF WatchCompacted, Goto
    <2>2. TypesUsed'
      BY <1>1, <2>1, Zenon DEF TypesUsed, Phases
    <2> QED
      BY <1>1, <2>1, <2>2, KeysKept, Zenon DEF TypesUsed, InService
  <1> QED
    BY <1>2, <1>3, <1>4, <1>5, <1>6, Zenon

\* A server wins the election with the oldest key, or with one that etcd has
\* removed.
LEMMA ElectedStep ==
  ASSUME ElectionInv, NEW s \in Server, Elected(s)
  PROVE  ElectionInv'
  <1>1. /\ First(s) /\ pc[s] = "campaign" /\ pc' = [pc EXCEPT ![s] = "init"]
        /\ keys' = keys \ Ghosts(s) /\ UNCHANGED <<view, session, deleted>> /\ TypesUsed
    BY Zenon DEF Elected, Goto, ElectionInv
  <1>2. TypesUsed'
    BY <1>1, Zenon DEF TypesUsed, Phases
  <1>3. Ghosts(s) \in SUBSET keys /\ \A k \in Ghosts(s) : ~InEtcd(k) /\ k.srv = s
    BY Zenon DEF Ghosts
  <1>4. \A k \in keys' : ~(k.srv = s /\ k.st = "ghost")
    BY <1>1, Zenon DEF Ghosts, InEtcd
  <1>5. ASSUME session[s]
        PROVE  \E k \in keys' : Leads(k) /\ k.srv = s /\ k.st = "live"
    <2>1. PICK k \in keys : Mine(s, k) /\ \A j \in keys : InEtcd(j) => k.rev <= j.rev
      BY <1>1, Zenon DEF First, KeysOf
    <2>2. k.st = "live" /\ k.srv = s
      BY <1>1, <1>5, <2>1, Zenon DEF ElectionInv, GhostsWait, Mine, TypesUsed, Key
    <2>3. k \in keys' /\ Leads(k)
      BY <1>1, <2>1, <2>2, Zenon DEF Ghosts, InEtcd, Leads
    <2> QED
      BY <2>2, <2>3, Zenon
  <1>6. /\ \A t \in Server \ {s} : /\ pc'[t] = pc[t] /\ view'[t] = view[t]
                                   /\ session'[t] = session[t]
        /\ view'[s] = view[s] /\ pc[s] # "blind"
    BY <1>1, Zenon DEF TypesUsed
  <1>7. /\ keys' \subseteq keys /\ \A k \in keys \ keys' : k.srv = s
        /\ deleted' = deleted /\ \A k \in keys \ keys' : ~InEtcd(k)
    BY <1>1, <1>3, Zenon
  <1>8. \A k \in keys' : k.srv = s /\ k.st = "ghost" =>
           pc'[s] = "campaign" /\ session'[s] = session[s]
    BY <1>4, Zenon
  <1>9. InService(s)' /\ session'[s] =>
          \E k \in keys' : Leads(k) /\ k.srv = s /\ k.st = "live"
    BY <1>1, <1>5, Zenon
  <1> QED
    BY <1>2, <1>6, <1>7, <1>8, <1>9, KeysRemoved, Zenon

\* The steps that remove keys.
LEMMA RemovalSteps ==
  ASSUME ElectionInv, NEW s \in Server,
         \/ DeleteStale(s) \/ CampaignTimeout(s) \/ Resign(s) \/ OrphanExpires(s)
         \/ SessionDone(s) /\ pc[s] # "campaign"
  PROVE  ElectionInv'
  <1>1. TypesUsed /\ KeysOf(s) \in SUBSET keys
    BY Zenon DEF ElectionInv, KeysOf
  <1>2. ASSUME NEW gone \in SUBSET keys, Deletes(gone)
        PROVE  /\ keys' = keys \ gone
               /\ \/ deleted' = Server
                  \/ deleted' = deleted /\ \A k \in gone : ~InEtcd(k)
               /\ keys' \subseteq Key /\ deleted' \subseteq Server
    BY <1>1, <1>2, Zenon DEF Deletes, TypesUsed
  <1>3. \A k \in keys : k.st = "ghost" => pc[k.srv] = "campaign"
    BY Zenon DEF ElectionInv, GhostsWait
  <1>4. CASE DeleteStale(s)
    <2>1. PICK k \in keys : k.srv = s /\ keys' = keys \ {k}
      BY <1>4, Zenon DEF DeleteStale
    <2>2. pc[s] = "get" /\ deleted' = Server /\ UNCHANGED <<pc, view, session>>
      BY <1>4, Zenon DEF DeleteStale
    <2>3. TypesUsed'
      BY <1>1, <2>1, <2>2, Zenon DEF TypesUsed
    <2>4. /\ {k} \in SUBSET keys /\ ~InService(s)' /\ \A j \in {k} : j.srv = s
          /\ \A j \in keys' : ~(j.srv = s /\ j.st = "ghost")
      BY <1>3, <2>1, <2>2, ZenonT(40) DEF InService
    <2> QED
      BY <2>1, <2>2, <2>3, <2>4, KeysRemoved, ZenonT(40)
  <1>5. CASE CampaignTimeout(s)
    <2>1. /\ Deletes(KeysOf(s)) /\ pc[s] # "blind" /\ pc' = [pc EXCEPT ![s] = "get"]
          /\ UNCHANGED <<view, session>>
      BY <1>5, Zenon DEF CampaignTimeout, Goto
    <2>2. \A k \in KeysOf(s) : k.srv = s
      BY Zenon DEF KeysOf, Mine
    <2>3. \A k \in keys' : ~(k.srv = s /\ k.st = "ghost")
      BY <1>1, <1>2, <2>1, Zenon DEF KeysOf, Mine
    <2>4. TypesUsed'
      BY <1>1, <1>2, <2>1, Zenon DEF TypesUsed, Phases
    <2>5. ~InService(s)' /\ \A t \in Server \ {s} : pc'[t] = pc[t]
      BY <1>1, <2>1, Zenon DEF InService, TypesUsed
    <2>6. /\ keys' = keys \ KeysOf(s)
          /\ deleted' = Server \/ (deleted' = deleted /\ \A k \in KeysOf(s) : ~InEtcd(k))
      BY <2>1, Zenon DEF Deletes
    <2>7. keys' \subseteq keys /\ \A k \in keys \ keys' : k \in KeysOf(s)
      BY <2>6, Zenon
    <2>8. /\ deleted' = Server \/ (deleted' = deleted /\ \A k \in keys \ keys' : ~InEtcd(k))
          /\ \A k \in keys \ keys' : k.srv = s
      BY <2>2, <2>6, <2>7, Zenon
    <2> QED
      BY <2>1, <2>3, <2>4, <2>5, <2>7, <2>8, KeysRemoved, ZenonT(40)
  <1>6. CASE Resign(s)
    <2>1. PICK p \in {"get", "reset"} :
            /\ pc' = [pc EXCEPT ![s] = p] /\ view' = [view EXCEPT ![s] = NoServer]
            /\ pc[s] # "campaign" /\ UNCHANGED session
      BY <1>6, Zenon DEF Resign, Goto
    <2>2. /\ ~InService(s)' /\ view'[s] = NoServer
          /\ \A t \in Server \ {s} : pc'[t] = pc[t] /\ view'[t] = view[t]
      BY <1>1, <2>1, Zenon DEF InService, TypesUsed
    <2>3. CASE Deletes(KeysOf(s))
      <3>1. \A k \in KeysOf(s) : k.srv = s
        BY Zenon DEF KeysOf, Mine
      <3>2. \A k \in keys' : ~(k.srv = s /\ k.st = "ghost")
        BY <1>1, <1>2, <2>3, Zenon DEF KeysOf, Mine
      <3>3. TypesUsed'
        BY <1>1, <1>2, <2>1, <2>3, Zenon DEF TypesUsed, Phases
      <3>4. /\ keys' = keys \ KeysOf(s)
            /\ deleted' = Server \/ (deleted' = deleted /\ \A k \in KeysOf(s) : ~InEtcd(k))
        BY <1>1, <1>2, <2>3, Zenon
      <3> QED
        BY <1>1, <2>1, <2>2, <3>1, <3>2, <3>3, <3>4, KeysRemoved, ZenonT(40)
    <2>4. CASE UNCHANGED <<keys, deleted>>
      <3>1. TypesUsed'
        BY <1>1, <2>1, <2>4, Zenon DEF TypesUsed, Phases
      <3> QED
        BY <2>1, <2>2, <2>4, <3>1, KeysKept, Zenon
    <2> QED
      BY <1>6, <2>3, <2>4, Zenon DEF Resign
  <1>7. CASE OrphanExpires(s)
    <2>1. PICK k \in keys : k.srv = s /\ k.st = "orphan" /\ Deletes({k})
      BY <1>7, Zenon DEF OrphanExpires
    <2>2. UNCHANGED <<pc, view, session>>
      BY <1>7, Zenon DEF OrphanExpires
    <2>3. keys' = keys \ {k} /\ keys' \subseteq Key /\ deleted' \subseteq Server
          /\ (deleted' = Server \/ (deleted' = deleted /\ \A j \in {k} : ~InEtcd(j)))
      BY <1>1, <2>1, Zenon DEF Deletes, TypesUsed
    <2>4. TypesUsed'
      BY <1>1, <2>2, <2>3, Zenon DEF TypesUsed
    <2>5. \A j \in keys' : j.srv = s /\ j.st = "ghost" =>
             pc'[s] = "campaign" /\ session'[s] = session[s]
      BY <1>3, <2>2, <2>3, Zenon
    <2>6. InService(s)' /\ session'[s] =>
            \E j \in keys' : Leads(j) /\ j.srv = s /\ j.st = "live"
      BY <2>1, <2>2, <2>3, Zenon DEF ElectionInv, ServiceHoldsKey, InService
    <2>7. /\ keys' \subseteq keys /\ \A j \in keys \ keys' : j.srv = s
          /\ \/ deleted' = Server
             \/ deleted' = deleted /\ \A j \in keys \ keys' : ~InEtcd(j)
      BY <2>1, <2>3, Zenon
    <2> QED
      BY <2>2, <2>4, <2>5, <2>6, <2>7, KeysRemoved, Zenon
  <1>8. CASE SessionDone(s) /\ pc[s] # "campaign"
    <2>1. /\ Deletes(KeysOf(s)) /\ session' = [session EXCEPT ![s] = FALSE]
          /\ UNCHANGED <<pc, view>>
      BY <1>8, Zenon DEF SessionDone
    <2>2. \A k \in KeysOf(s) : k.srv = s
      BY Zenon DEF KeysOf, Mine
    <2>3. \A k \in keys' : ~(k.srv = s /\ k.st = "ghost")
      BY <1>1, <1>2, <2>1, Zenon DEF KeysOf, Mine
    <2>4. session' \in [Server -> BOOLEAN]
      BY <1>1, <2>1, Zenon DEF TypesUsed
    <2>5. TypesUsed'
      BY <1>1, <1>2, <2>1, <2>4, Zenon DEF TypesUsed
    <2>6. ~session'[s] /\ \A t \in Server \ {s} : session'[t] = session[t]
      BY <1>1, <2>1, Zenon DEF TypesUsed
    <2>7. /\ keys' = keys \ KeysOf(s)
          /\ deleted' = Server \/ (deleted' = deleted /\ \A k \in KeysOf(s) : ~InEtcd(k))
      BY <1>1, <1>2, <2>1, Zenon
    <2>8. /\ keys' \subseteq keys /\ \A k \in keys \ keys' : k.srv = s
          /\ \/ deleted' = Server
             \/ deleted' = deleted /\ \A k \in keys \ keys' : ~InEtcd(k)
          /\ InService(s)' /\ session'[s] =>
               \E k \in keys' : Leads(k) /\ k.srv = s /\ k.st = "live"
      BY <2>2, <2>6, <2>7, Zenon
    <2>9. \A t \in Server \ {s} : /\ pc'[t] = pc[t] /\ view'[t] = view[t]
                                   /\ session'[t] = session[t]
      BY <2>1, <2>6, Zenon
    <2>10. view'[s] = view[s] /\ (pc[s] = "blind" => pc'[s] = "blind")
      BY <2>1, Zenon
    <2>11. \A k \in keys' : k.srv = s /\ k.st = "ghost" =>
              pc'[s] = "campaign" /\ session'[s] = session[s]
      BY <2>3, Zenon
    <2> QED
      BY <2>5, <2>8, <2>9, <2>10, <2>11, KeysRemoved, ZenonT(40)
  <1> QED
    BY <1>4, <1>5, <1>6, <1>7, <1>8, Zenon

\* Every step keeps the invariant.
LEMMA ElectionInvStep == ElectionInv /\ [ElectionNext]_electionVars => ElectionInv'
  <1> SUFFICES ASSUME ElectionInv, [ElectionNext]_electionVars PROVE ElectionInv'
    BY Zenon
  <1>1. ASSUME NEW s \in Server,
               LoopStep(s) \/ Elected(s) \/ CampaignTimeout(s) \/ InitFails(s)
                 \/ ServiceExits(s) \/ SessionDone(s) \/ Crash(s)
        PROVE  ElectionInv'
    BY <1>1, LoopSteps, StartCampaignStep, ElectedStep, RemovalSteps,
       SessionDoneWaiting, CrashStep, ZenonT(40) DEF LoopStep
  <1>2. CASE UNCHANGED <<pc, view, session, keys, deleted>>
    BY <1>2 DEF ElectionInv, TypesUsed, KeysOrdered, GhostsWait, ViewInv,
           ServiceHoldsKey, Leads, InService
  <1>3. EtcdLeaderMoves => UNCHANGED <<pc, view, session, keys, deleted>>
    BY Zenon DEF EtcdLeaderMoves
  <1>4. UNCHANGED electionVars => UNCHANGED <<pc, view, session, keys, deleted>>
    BY Zenon DEF electionVars
  <1> QED
    BY <1>1, <1>2, <1>3, <1>4, Zenon DEF ElectionNext

\* The invariant of the election holds throughout.
LEMMA ElectionInvAlways == ElectionSpec => []ElectionInv
  BY ElectionInvInit, ElectionInvStep, PTL DEF ElectionSpec

\* Another server is taken for the leader only while it is watched, and the
\* client is connected to that server or to none.
ClientInv ==
  /\ cli \in [Server -> Server \cup {NoServer}]
  /\ \A s \in Server :
       /\ view[s] \notin {NoServer, s} => pc[s] \in {"connect", "dial", "watch", "blind"}
       /\ pc[s] \in {"dial", "watch", "blind"} => cli[s] \in {NoServer, view[s]}

\* Every step keeps the client that of the watched leader.
LEMMA ClientInvStep ==
  ASSUME TypesUsed, ClientInv, [ElectionNext]_electionVars
  PROVE  ClientInv'
  <1> USE DEF TypesUsed, ClientInv
  <1>1. CASE UNCHANGED <<pc, view, cli>>
    BY <1>1, Zenon
  <1>2. ASSUME NEW s \in Server, NEW p, pc' = [pc EXCEPT ![s] = p],
               UNCHANGED <<view, cli>>,
               \/ view[s] \in {NoServer, s} /\ p \notin {"dial", "watch", "blind"}
               \/ pc[s] \in {"dial", "watch", "blind"} /\ p \in {"watch", "blind"}
        PROVE  ClientInv'
    BY <1>2, Zenon
  <1>3. ASSUME NEW s \in Server, NEW p, NEW v \in {NoServer, s},
               pc' = [pc EXCEPT ![s] = p], p \notin {"dial", "watch", "blind"},
               view' = [view EXCEPT ![s] = v],
               cli' = cli \/ cli' = [cli EXCEPT ![s] = NoServer]
        PROVE  ClientInv'
    BY <1>3, Zenon
  <1>4. ASSUME NEW s \in Server, GetOtherLeader(s)
        PROVE  ClientInv'
    BY <1>4, Zenon DEF GetOtherLeader, Goto
  <1>5. ASSUME NEW s \in Server, CloseClient(s)
        PROVE  ClientInv'
    BY <1>5, Zenon DEF CloseClient, Goto
  <1>6. ASSUME NEW s \in Server, DialClient(s)
        PROVE  ClientInv'
    <2>1. CASE cli' = [cli EXCEPT ![s] = view[s]]
      BY <1>6, <2>1, Zenon DEF DialClient, Goto
    <2>2. CASE UNCHANGED cli
      BY <1>2, <1>6, <2>2, Zenon DEF DialClient, Goto
    <2> QED
      BY <1>6, <2>1, <2>2, Zenon DEF DialClient
  <1>7. ASSUME NEW s \in Server, WatchCompacted(s)
        PROVE  ClientInv'
    BY <1>2, <1>7, Zenon DEF WatchCompacted, Goto
  <1>8. ASSUME NEW s \in Server,
               WatchEnds(s) \/ StoreLeader(s) \/ Resign(s) \/ Crash(s)
        PROVE  ClientInv'
    BY <1>3, <1>8, Zenon DEF WatchEnds, StoreLeader, Resign, Crash, Goto
  <1>9. ASSUME NEW s \in Server,
               \/ GetNoLeader(s) \/ SkipCampaign(s) \/ StartCampaign(s)
               \/ CampaignFails(s) \/ CampaignTimeout(s) \/ Elected(s)
        PROVE  ClientInv'
    <2>1. /\ UNCHANGED <<view, cli>> /\ pc[s] \in {"get", "decide", "campaign"}
          /\ \E p \in {"get", "decide", "campaign", "init"} : pc' = [pc EXCEPT ![s] = p]
      BY <1>9, Zenon DEF GetNoLeader, SkipCampaign, StartCampaign, CampaignFails,
         CampaignTimeout, Elected, Goto
    <2>2. view[s] \in {NoServer, s}
      BY <2>1, Zenon
    <2> QED
      BY <1>2, <2>1, <2>2, Zenon
  <1>10. ASSUME NEW s \in Server,
                \/ ServiceReady(s) \/ InitFails(s) \/ ServiceExits(s) \/ Reset(s) \/ Run(s)
         PROVE  ClientInv'
    <2>1. /\ UNCHANGED <<view, cli>>
          /\ pc[s] \in {"init", "stored", "ready", "reset", "down"}
          /\ \E p \in {"get", "reset", "ready", "closing", "expired"} :
               pc' = [pc EXCEPT ![s] = p]
      BY <1>10, Zenon DEF ServiceReady, InitFails, ServiceExits, Reset, Run, Goto
    <2>2. view[s] \in {NoServer, s}
      BY <2>1, Zenon
    <2> QED
      BY <1>2, <2>1, <2>2, Zenon
  <1>11. ASSUME NEW s \in Server, DeleteStale(s) \/ OrphanExpires(s) \/ SessionDone(s)
         PROVE  ClientInv'
    BY <1>1, <1>11, Zenon DEF DeleteStale, OrphanExpires, SessionDone
  <1>12. CASE EtcdLeaderMoves \/ UNCHANGED electionVars
    BY <1>1, <1>12, Zenon DEF EtcdLeaderMoves, electionVars
  <1> QED
    BY <1>4, <1>5, <1>6, <1>7, <1>8, <1>9, <1>10, <1>11, <1>12, ZenonT(40)
       DEF ElectionNext, LoopStep

\* The client that carries the requests of a server on is connected to the
\* holder of the oldest key, unless the server's watch has a deletion to read or
\* has lost one, or the client of the previous leader is still to be closed.
THEOREM RequestsReachTheLeader == ElectionSpec => []ForwardsToLeader
  <1>1. ElectionInit => ClientInv
    BY Zenon DEF ElectionInit, ClientInv
  <1>2. ElectionInv => TypesUsed
    BY Zenon DEF ElectionInv
  <1>3. ElectionInv /\ ClientInv => ForwardsToLeader
    <2> SUFFICES ASSUME ElectionInv, ClientInv, NEW s \in Server,
                        ForwardsTo(s) # NoServer, s \notin deleted,
                        pc[s] \notin {"connect", "blind"}
                 PROVE  \E k \in keys : Leads(k) /\ k.srv = ForwardsTo(s)
      BY Zenon DEF ForwardsToLeader
    <2>1. view[s] \notin {NoServer, s} /\ ForwardsTo(s) = cli[s]
      BY Zenon DEF ForwardsTo
    <2>2. cli[s] = view[s]
      BY <2>1, Zenon DEF ClientInv
    <2> QED
      BY <2>1, <2>2, Zenon DEF ElectionInv, ViewInv
  <1> QED
    BY <1>1, <1>2, <1>3, ClientInvStep, ElectionInvAlways, PTL DEF ElectionSpec

\* No two servers run the leader service under live sessions.
THEOREM LeaderUnique == ElectionSpec => []OneLeader
  <1>1. ElectionInv => OneLeader
    <2> SUFFICES ASSUME ElectionInv, NEW s \in Server, NEW t \in Server,
                        InService(s), session[s], InService(t), session[t]
                 PROVE  s = t
      BY Zenon DEF OneLeader
    <2>1. PICK k \in keys : Leads(k) /\ k.srv = s
      BY Zenon DEF ElectionInv, ServiceHoldsKey
    <2>2. PICK j \in keys : Leads(j) /\ j.srv = t
      BY Zenon DEF ElectionInv, ServiceHoldsKey
    <2>3. k.rev \in Nat /\ j.rev \in Nat /\ k.rev <= j.rev /\ j.rev <= k.rev
      BY <2>1, <2>2, Zenon DEF Leads, ElectionInv, TypesUsed, Key
    <2> QED
      BY <2>1, <2>2, <2>3 DEF ElectionInv, KeysOrdered
  <1> QED
    BY <1>1, ElectionInvAlways, PTL

-----------------------------------------------------------------------------
(* The election implements LeadershipContract.                             *)

\* A step of one server lets at most that server enter or leave office.
LEMMA OfficeOfOne ==
  ASSUME TypesUsed, NEW s \in Server,
         \A t \in Server \ {s} : pc'[t] = pc[t] /\ session'[t] = session[t]
  PROVE  InOffice' \in {InOffice \ {s}, InOffice \cup {s}}
  <1>1. \A t \in Server \ {s} : t \in InOffice' <=> t \in InOffice
    BY Zenon DEF InOffice, InService
  <1>2. InOffice \subseteq Server /\ InOffice' \subseteq Server
    BY Zenon DEF InOffice
  <1> QED
    BY <1>1, <1>2, Zenon

\* What a step of the election does to the others.
LEMMA OneServerMoves ==
  ASSUME TypesUsed, NEW s \in Server,
         LoopStep(s) \/ Elected(s) \/ CampaignTimeout(s) \/ InitFails(s)
           \/ ServiceExits(s) \/ SessionDone(s) \/ Crash(s)
  PROVE  \A t \in Server \ {s} : pc'[t] = pc[t] /\ session'[t] = session[t]
  <1>1. \/ UNCHANGED pc
        \/ \E p : pc' = [pc EXCEPT ![s] = p]
    <2>1. CASE LoopStep(s)
      BY <2>1, Zenon DEF LoopStep, GetNoLeader, DeleteStale, GetOtherLeader, CloseClient,
         DialClient, WatchCompacted, WatchEnds, SkipCampaign, StartCampaign,
         CampaignFails, StoreLeader,
         ServiceReady, Resign, Reset, Run, OrphanExpires, Goto
    <2>2. CASE ~LoopStep(s)
      BY <2>2, Zenon DEF Elected, CampaignTimeout, InitFails, ServiceExits, SessionDone,
         Crash, Goto
    <2> QED
      BY <2>1, <2>2, Zenon
  <1>2. \/ UNCHANGED session
        \/ \E b : session' = [session EXCEPT ![s] = b]
    <2>1. CASE LoopStep(s)
      BY <2>1, Zenon DEF LoopStep, GetNoLeader, DeleteStale, GetOtherLeader, CloseClient,
         DialClient, WatchCompacted, WatchEnds, SkipCampaign, StartCampaign,
         CampaignFails, StoreLeader,
         ServiceReady, Resign, Reset, Run, OrphanExpires
    <2>2. CASE ~LoopStep(s)
      BY <2>2, Zenon DEF Elected, CampaignTimeout, InitFails, ServiceExits, SessionDone,
         Crash
    <2> QED
      BY <2>1, <2>2, Zenon
  <1> QED
    BY <1>1, <1>2, Zenon DEF TypesUsed

\* A step of the election takes the leadership, loses it or does neither.
LEMMA ContractStep ==
  ASSUME ElectionInv, OneLeader', [ElectionNext]_electionVars
  PROVE  Contract!LeadersNext \/ UNCHANGED InOffice
  <1>1. CASE UNCHANGED <<pc, session>>
    BY <1>1, Zenon DEF InOffice, InService
  <1>2. ASSUME NEW s \in Server,
               LoopStep(s) \/ Elected(s) \/ CampaignTimeout(s) \/ InitFails(s)
                 \/ ServiceExits(s) \/ SessionDone(s) \/ Crash(s)
        PROVE  Contract!LeadersNext \/ UNCHANGED InOffice
    <2>1. InOffice' \in {InOffice \ {s}, InOffice \cup {s}}
      BY <1>2, OneServerMoves, OfficeOfOne, Zenon DEF ElectionInv
    <2>2. \A a, b \in InOffice' : a = b
      BY Zenon DEF OneLeader, InOffice
    <2>3. CASE InOffice' = InOffice \ {s} /\ s \in InOffice
      BY <2>3, Zenon DEF Contract!LeadersNext, Contract!Lose
    <2>4. CASE InOffice' = InOffice \cup {s} /\ s \notin InOffice
      <3>1. InOffice = {}
        BY <2>2, <2>4, Zenon
      <3> QED
        BY <2>4, <3>1, Zenon DEF Contract!LeadersNext, Contract!Take
    <2>5. CASE s \notin InOffice /\ InOffice' = InOffice \ {s}
      BY <2>5, Zenon
    <2>6. CASE s \in InOffice /\ InOffice' = InOffice \cup {s}
      BY <2>6, Zenon
    <2> QED
      BY <2>1, <2>3, <2>4, <2>5, <2>6, Zenon
  <1>3. CASE EtcdLeaderMoves \/ UNCHANGED electionVars
    BY <1>1, <1>3, Zenon DEF EtcdLeaderMoves, electionVars
  <1> QED
    BY <1>2, <1>3, Zenon DEF ElectionNext

\* For any number of servers and of faults, the election hands the leadership
\* on as ExecutorPool expects: to one server at a time, and never directly.
THEOREM ImplementsLeadership == ElectionSpec => LeadershipKept
  <1>1. ElectionInit => Contract!LeadersInit
    <2> SUFFICES ASSUME ElectionInit PROVE InOffice = {}
      BY Zenon DEF Contract!LeadersInit
    <2> QED
      BY Zenon DEF ElectionInit, InOffice, InService
  <1>2. ElectionInv /\ OneLeader' /\ [ElectionNext]_electionVars
          => [Contract!LeadersNext]_InOffice
    BY ContractStep, Zenon
  <1> QED
    BY <1>1, <1>2, ElectionInvAlways, LeaderUnique, PTL DEF ElectionSpec, LeadershipKept,
       Contract!LeadersSpec

-----------------------------------------------------------------------------
(***************************************************************************)
(* The executors.                                                          *)
(***************************************************************************)

TaskType ==
  [pc : {"idle", "choose", "address", "placed", "gone", "not enough",
         "not found", "conflict"},
   srv : Manager \cup {None}, res : Seq(Resource), pick : Exec \cup {None}]

\* What the steps of RegisterExec, checkAlive and HandleHeartbeat need to know
\* of the maps they work on.
MapTypes ==
  /\ executors \in [Manager -> [Exec -> Entry]]
  /\ cap \in [Manager -> SUBSET Exec]
  /\ reg \in [Manager -> SUBSET Exec]
  /\ beat \in [Exec -> Beat]

MapInv == MapTypes /\ KnownHasCapacity

\* A request past getConstraint keeps the executor on which all of its
\* resources were persisted; a resource is persisted once.
TaskInv ==
  /\ at \in [Resource -> Exec \cup {None}]
  /\ task \in TaskType
  /\ task.pc = "choose" => task.srv \in Manager
  /\ task.pc \in {"choose", "address", "placed"} =>
       \A i \in DOMAIN task.res : task.pick \in Exec /\ at[task.res[i]] = task.pick

-----------------------------------------------------------------------------
(* The maps.                                                               *)

\* RegisterExec's first half.
LEMMA StoreEntryMaps ==
  ASSUME MapInv, NEW s \in Manager, NEW e \in Exec, StoreEntry(s, e),
         UNCHANGED cap
  PROVE  MapInv'
<1>1. MapTypes'
  BY Zenon DEF MapInv, MapTypes, StoreEntry, Set, Entry, Beat
<1>2. KnownHasCapacity'
  BY Zenon DEF MapInv, MapTypes, StoreEntry, Set, KnownHasCapacity, Known
<1> QED
  BY <1>1, <1>2, Zenon DEF MapInv

\* The steps that change neither what is known nor the capacities.
LEMMA KnownKept ==
  ASSUME MapInv, MapTypes', UNCHANGED <<cap, reg>>,
         \A s \in Manager, e \in Exec : Known(s, e)' => Known(s, e)
  PROVE  MapInv'
  BY Zenon DEF MapInv, MapTypes, KnownHasCapacity

\* Every step of the servers and executors keeps the two maps in agreement.
LEMMA MapStep ==
  ASSUME MapInv, [PoolNext]_poolVars
  PROVE  MapInv'
<1> USE DEF MapInv
<1>1. CASE UNCHANGED <<executors, cap, reg, beat>>
  BY <1>1, Zenon DEF MapTypes, KnownHasCapacity, Known
<1>2. ASSUME NEW s \in Manager, StepDown(s)
      PROVE  MapInv'
  <2>1. MapTypes'
    BY <1>2, Zenon DEF MapTypes, StepDown, Set, Entry
  <2> QED
    BY <1>2, <2>1, KnownKept, Zenon DEF MapTypes, StepDown, Set, Known, Entry
<1>3. ASSUME NEW s \in Manager, NEW e \in Exec,
             ResetExec(s, e) \/ AllocateNewExec(s, e)
      PROVE  MapInv'
  BY <1>3, StoreEntryMaps, Zenon DEF ResetExec, AllocateNewExec
<1>4. ASSUME NEW s \in Manager, NEW e \in Exec, RegisterCapacity(s, e)
      PROVE  MapInv'
  BY <1>4, Zenon DEF MapTypes, RegisterCapacity, Set, KnownHasCapacity, Known
<1>5. ASSUME NEW s \in Manager, NEW c \in Term, CheckFinds(s, c)
      PROVE  MapInv'
  <2>1. PICK e \in Exec : /\ Overdue(s, e)
                          /\ executors' = [executors EXCEPT ![s][e] = "tomb"]
    BY <1>5, Zenon DEF CheckFinds
  <2>2. UNCHANGED <<cap, reg, beat>>
    BY <1>5, Zenon DEF CheckFinds
  <2>3. MapTypes'
    BY <2>1, <2>2, Zenon DEF MapTypes, Entry
  <2>4. Known(s, e)
    BY <2>1, Zenon DEF Overdue, Known
  <2> QED
    BY <2>1, <2>2, <2>3, <2>4, KnownKept, Zenon DEF MapTypes, Known
<1>6. ASSUME NEW s \in Manager, NEW c \in Term, RemoveExecutor(s, c)
      PROVE  MapInv'
  <2>1. PICK e \in Exec :
          /\ executors' = [executors EXCEPT ![s][e] = "none"]
          /\ cap' = IF Known(s, e) THEN Set(cap, s, cap[s] \ {e}) ELSE cap
          /\ UNCHANGED <<reg, beat>>
    BY <1>6, Zenon DEF RemoveExecutor
  <2>2. executors' \in [Manager -> [Exec -> Entry]]
    BY <2>1, Zenon DEF MapTypes, Entry
  <2>3. cap' \in [Manager -> SUBSET Exec]
    BY <2>1, Zenon DEF MapTypes, Set
  <2>4. KnownHasCapacity'
    BY <2>1, Zenon DEF MapTypes, Set, KnownHasCapacity, Known
  <2> QED
    BY <2>1, <2>2, <2>3, <2>4, Zenon DEF MapTypes
<1>7. ASSUME NEW s \in Manager, NEW e \in Exec, HeartbeatLookup(s, e)
      PROVE  MapInv'
  <2>1. beat' \in [Exec -> Beat]
    BY <1>7, Zenon DEF MapTypes, HeartbeatLookup, Set, Beat
  <2> QED
    BY <1>7, <2>1, Zenon DEF MapTypes, HeartbeatLookup, KnownHasCapacity, Known
<1>8. ASSUME NEW e \in Exec, HeartbeatApply(e)
      PROVE  MapInv'
  <2> DEFINE s == beat[e].srv
  <2>1. beat' \in [Exec -> Beat]
    BY <1>8, Zenon DEF MapTypes, HeartbeatApply, Set, Beat, NoBeat
  <2>2. UNCHANGED <<cap, reg>>
    BY <1>8, Zenon DEF HeartbeatApply
  <2>3. CASE UNCHANGED executors
    BY <2>1, <2>2, <2>3, Zenon DEF MapTypes, KnownHasCapacity, Known
  <2>4. CASE /\ executors[s][e] \notin {"none", "tomb"} /\ s \in Manager
             /\ executors' = [executors EXCEPT ![s][e] = "fresh"]
    <3>1. MapTypes'
      BY <2>1, <2>2, <2>4, Zenon DEF MapTypes, Entry
    <3> QED
      BY <2>2, <2>4, <3>1, KnownKept, Zenon DEF MapTypes, Known
  <2>5. s \in Manager \cup {None}
    BY Zenon DEF MapTypes, Beat
  <2> QED
    BY <1>8, <2>3, <2>4, <2>5, Zenon DEF HeartbeatApply
<1> QED
  <2>1. CASE UNCHANGED poolVars
    BY <2>1, <1>1, Zenon DEF poolVars
  <2>2. CASE PoolNext
    BY <2>2, <1>1, <1>2, <1>3, <1>4, <1>5, <1>6, <1>7, <1>8, Zenon
    DEF PoolNext, ServerStep, TakeOver, ServeRequests, Constrain,
        HeartbeatUnknown, GoUp, Stop, RowExpires, Persist, LoseLeadership,
        Choose, Address, TakeReply
  <2> QED
    BY <2>1, <2>2, Zenon

\* The maps that RegisterExec, checkAlive and HandleHeartbeat change under two
\* locks are well typed and agree, at every step of theirs.
THEOREM MapInvariant == PoolSpec => []MapInv
<1>1. PoolInit => MapInv
  <2> SUFFICES ASSUME PoolInit PROVE MapInv
    BY Zenon
  <2>1. MapTypes
    BY Zenon DEF PoolInit, PoolInitWith, MapTypes, Entry, Beat, NoBeat
  <2> QED
    BY <2>1, Zenon DEF PoolInit, PoolInitWith, MapInv, KnownHasCapacity, Known
<1> QED
  BY <1>1, MapStep, PTL DEF PoolSpec

\* However registrations, heartbeats, takeovers and checkAlive goroutines of
\* any number of terms interleave, an executor the manager knows has its
\* capacity registered once RegisterExec has returned.
THEOREM PoolMapsAgree == PoolSpec => []KnownHasCapacity
  BY MapInvariant, PTL DEF MapInv

-----------------------------------------------------------------------------
(* Placement.                                                              *)

\* The resources of a request, as the loop of getConstraint meets them.
LEMMA RequestIsSeq ==
  ASSUME NEW res \in Requests
  PROVE  /\ res \in Seq(Resource)
         /\ \A i \in DOMAIN res : res[i] \in Resource
         /\ res # <<>> => 1 \in DOMAIN res
<1>1. CASE res = <<>>
  BY <1>1
<1>2. ASSUME NEW r \in Resource, res = <<r>>
      PROVE  /\ res \in Seq(Resource)
             /\ \A i \in DOMAIN res : res[i] \in Resource
             /\ 1 \in DOMAIN res
  BY <1>2
<1>3. ASSUME NEW r \in Resource, NEW q \in Resource, res = <<r, q>>
      PROVE  /\ res \in Seq(Resource)
             /\ \A i \in DOMAIN res : res[i] \in Resource
             /\ 1 \in DOMAIN res
  BY <1>3
<1>4. \/ res = <<>>
      \/ \E r \in Resource : res = <<r>>
      \/ \E r \in Resource, q \in Resource : res = <<r, q>>
  BY DEF Requests
<1> QED
  BY <1>1, <1>2, <1>3, <1>4, Zenon

\* A constraint is the place of every resource of the request.
LEMMA ConstraintHolds ==
  ASSUME NEW s, NEW res \in Requests, res # <<>>,
         at \in [Resource -> Exec \cup {None}],
         getConstraint(s, res) \notin {"not found", "conflict"}
  PROVE  /\ getConstraint(s, res) \in Exec
         /\ \A i \in DOMAIN res : at[res[i]] = getConstraint(s, res)
<1> DEFINE where == [i \in DOMAIN res |-> GetPlacementConstraint(s, res[i])]
           bad   == {i \in DOMAIN res : where[i] = None \/ where[i] # where[1]}
<1>1. 1 \in DOMAIN res /\ \A i \in DOMAIN res : res[i] \in Resource
  BY RequestIsSeq, Zenon
<1>2. bad = {} /\ getConstraint(s, res) = where[1]
  BY Zenon DEF getConstraint
<1>3. \A i \in DOMAIN res : where[i] # None /\ where[i] = where[1]
  BY <1>2, Zenon
<1>4. \A i \in DOMAIN res : where[i] = at[res[i]] /\ at[res[i]] \in Exec
  BY <1>1, <1>3, Zenon DEF GetPlacementConstraint
<1> QED
  BY <1>1, <1>2, <1>3, <1>4, Zenon

\* Neither a later Persist nor the loss of an executor separates a request that
\* is past getConstraint from the place of its resources.
LEMMA TaskStep ==
  ASSUME MapTypes, TaskInv, [PoolNext]_poolVars
  PROVE  TaskInv'
<1> USE DEF TaskInv
<1>1. CASE UNCHANGED <<at, task>>
  BY <1>1, Zenon
<1>2. ASSUME NEW e \in Exec, NEW r \in Resource, Persist(e, r)
      PROVE  TaskInv'
  <2>1. at' \in [Resource -> Exec \cup {None}] /\ UNCHANGED task
    BY <1>2, Zenon DEF Persist, Set
  <2>2. \A i \in DOMAIN task.res : task.res[i] \in Resource
    <3>1. task.res \in Seq(Resource)
      BY Zenon DEF TaskType
    <3> QED
      BY <3>1
  <2>3. \A q \in Resource : at[q] \in Exec => at'[q] = at[q]
    BY <1>2, PoolAssumption, Zenon DEF Persist, Set
  <2> QED
    BY <2>1, <2>2, <2>3, Zenon
<1>3. ASSUME NEW s \in Manager, Constrain(s)
      PROVE  TaskInv'
  <2>1. UNCHANGED at
    BY <1>3, Zenon DEF Constrain
  <2>2. PICK res \in Requests :
          LET c == IF res = <<>> THEN None ELSE getConstraint(s, res)
          IN  task' = IF c \in {"not found", "conflict"}
                      THEN [pc |-> c, srv |-> s, res |-> res, pick |-> None]
                      ELSE [pc |-> "choose", srv |-> s, res |-> res, pick |-> c]
    BY <1>3, Zenon DEF Constrain
  <2>3. res \in Seq(Resource)
    BY RequestIsSeq, Zenon
  <2>4. CASE res = <<>>
    <3>1. /\ task'.res = <<>> /\ task' \in TaskType
          /\ task'.srv = s
      BY <2>2, <2>3, <2>4, Zenon DEF TaskType
    <3> QED
      BY <2>1, <3>1
  <2>5. CASE res # <<>> /\ getConstraint(s, res) \in {"not found", "conflict"}
    BY <2>1, <2>2, <2>3, <2>5, Zenon DEF TaskType
  <2>6. CASE res # <<>> /\ getConstraint(s, res) \notin {"not found", "conflict"}
    <3> DEFINE c == getConstraint(s, res)
    <3>1. c \in Exec /\ \A i \in DOMAIN res : at[res[i]] = c
      BY <2>6, ConstraintHolds, Zenon
    <3>2. task' = [pc |-> "choose", srv |-> s, res |-> res, pick |-> c]
      BY <2>2, <2>6, Zenon
    <3>3. task' \in TaskType
      BY <2>3, <3>1, <3>2, Zenon DEF TaskType
    <3> QED
      BY <2>1, <3>1, <3>2, <3>3, Zenon
  <2> QED
    BY <2>4, <2>5, <2>6, Zenon
<1>4. CASE Choose
  <2>1. UNCHANGED at /\ task.pc = "choose"
    BY <1>4, Zenon DEF Choose
  <2>2. CASE task.pick # None /\ task' = [task EXCEPT !.pc = "address"]
    BY <2>1, <2>2, Zenon DEF TaskType
  <2>3. ASSUME NEW e \in Exec, task.pick = None,
               task' = [task EXCEPT !.pc = "address", !.pick = e]
        PROVE  TaskInv'
    <3>1. DOMAIN task.res = {}
      BY <2>1, <2>3, PoolAssumption, Zenon
    <3> QED
      BY <2>1, <2>3, <3>1, Zenon DEF TaskType
  <2>4. CASE task' = [task EXCEPT !.pc = "not enough"]
    BY <2>1, <2>4, Zenon DEF TaskType
  <2>5. cap[task.srv] \subseteq Exec
    BY <2>1, Zenon DEF MapTypes
  <2> QED
    BY <1>4, <2>2, <2>3, <2>4, <2>5, Zenon DEF Choose
<1>5. CASE Address
  BY <1>5, Zenon DEF Address, TaskType
<1>6. CASE TakeReply
  <2>1. UNCHANGED at /\ task' = NoTask
    BY <1>6, Zenon DEF TakeReply
  <2>2. NoTask \in TaskType /\ NoTask.pc = "idle"
    <3>1. <<>> \in Seq(Resource)
      OBVIOUS
    <3> QED
      BY <3>1, Zenon DEF NoTask, TaskType
  <2> QED
    BY <2>1, <2>2, Zenon
<1> QED
  <2>1. CASE UNCHANGED poolVars
    BY <2>1, <1>1, Zenon DEF poolVars
  <2>2. CASE PoolNext
    BY <2>2, <1>1, <1>2, <1>3, <1>4, <1>5, <1>6, Zenon
    DEF PoolNext, ServerStep, TakeOver, StepDown, ServeRequests, ResetExec,
        RegisterCapacity, CheckFinds, RemoveExecutor, AllocateNewExec,
        HeartbeatUnknown, HeartbeatLookup, GoUp, Stop, RowExpires,
        HeartbeatApply, LoseLeadership
  <2> QED
    BY <2>1, <2>2, Zenon

\* However executors go and come back while a request is being placed, a task
\* is placed on the executor that holds all of its local resources.
THEOREM PlacementKeepsData == PoolSpec => []PlacedWithData
<1>1. PoolInit => TaskInv
  <2> SUFFICES ASSUME PoolInit PROVE TaskInv
    BY Zenon
  <2>1. /\ task.pc = "idle" /\ task.srv = None /\ task.res = <<>> /\ task.pick = None
        /\ task = NoTask /\ at = [r \in Resource |-> None]
    BY Zenon DEF PoolInit, PoolInitWith, NoTask
  <2>2. <<>> \in Seq(Resource)
    OBVIOUS
  <2>3. task \in TaskType
    BY <2>1, <2>2, Zenon DEF TaskType, NoTask
  <2>4. at \in [Resource -> Exec \cup {None}]
    BY <2>1, Zenon
  <2> QED
    BY <2>1, <2>3, <2>4, Zenon DEF TaskInv
<1>2. TaskInv => PlacedWithData
  BY Zenon DEF TaskInv, PlacedWithData
<1>3. MapInv => MapTypes
  BY Zenon DEF MapInv
<1> QED
  BY <1>1, <1>2, <1>3, TaskStep, MapInvariant, PTL DEF PoolSpec

=============================================================================
