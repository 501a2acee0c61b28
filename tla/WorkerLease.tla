---------------------------- MODULE WorkerLease ----------------------------
(***************************************************************************)
(* The lease of one worker, with time: the heartbeat and watchdog          *)
(* goroutines of a worker (lib/worker.go) against the entry that its       *)
(* master keeps of it (lib/master/worker_manager.go), across failovers of  *)
(* the master.                                                             *)
(*                                                                         *)
(* The watchdog ends the worker when the last acknowledged ping was sent   *)
(* WorkerTimeoutDuration ago.  The master declares the worker offline when *)
(* it has accepted no ping for that long plus a graceful duration, and a   *)
(* recovered master waits as long for the workers it finds in the          *)
(* metastore.  The master sends the pong before it looks at the ping, so a *)
(* ping it drops is acknowledged too.                                      *)
(*                                                                         *)
(* Pings and pongs are lost and delayed at will.  Time does not pass while *)
(* a tick of the idle watchdog is due; reading the metastore, which the    *)
(* watchdog does without a deadline, takes any time.                       *)
(***************************************************************************)
EXTENDS Naturals, FiniteSets

CONSTANTS
  WorkerTimeoutDuration,
  WorkerTimeoutGracefulDuration,
  WorkerHeartbeatInterval,
  Nodes,         \* the executors a master can run on
  MaxNow,        \* bound: the end of time
  MaxEpoch,      \* bound: number of incarnations of the master
  MaxInFlight    \* bound: messages of one kind on their way

NoNode == "nonode"

ASSUME WorkerLeaseAssumption ==
  /\ WorkerTimeoutDuration \in Nat /\ WorkerTimeoutGracefulDuration \in Nat
  /\ WorkerHeartbeatInterval \in Nat
  /\ MaxNow \in Nat /\ MaxEpoch \in Nat /\ MaxInFlight \in Nat
  /\ NoNode \notin Nodes
  /\ 2 * WorkerHeartbeatInterval < WorkerTimeoutDuration  \* TimeoutConfig.Adjust
  /\ 0 < WorkerHeartbeatInterval
  /\ WorkerHeartbeatInterval <= WorkerTimeoutGracefulDuration

VARIABLES
  now,
  \* the worker
  worker,        \* "queued", "running" or "exiting"
  acked,         \* masterClient.lastMasterAckedPingTime
  granted,       \* history: the largest value acked has had
  masterEpoch,   \* masterClient.masterEpoch
  masterNode,    \* masterClient.masterNode
  watch,         \* the watchdog: "idle", or "refresh" while it reads the metastore
  watchTick,     \* when the next tick of the watchdog fires
  row,           \* the worker has written its row to the metastore
  \* the network
  pings, pongs,
  \* the master
  epoch, node,   \* the current incarnation, also in the metastore
  oldNode,       \* where the previous one still answers pings, or NoNode
  state,         \* WorkerManager.state
  entry,         \* the state of the worker's entry, or "none"
  since,         \* when the expire time of the entry was last set, if there is one
  handling       \* the ping whose pong is sent, before HandleHeartbeat

NoPing == [t |-> 0, e |-> 0, n |-> NoNode]

workerVars == <<worker, acked, granted, masterEpoch, masterNode, watch,
                watchTick, row>>
masterVars == <<epoch, node, oldNode, state, entry, since, handling>>
wlVars == <<now, workerVars, pings, pongs, masterVars>>

Ping == [t : Nat, e : Nat, n : Nodes]
Pong == [t : Nat, e : Nat, n : Nodes]

WorkerLeaseTypeOK ==
  /\ now \in Nat /\ acked \in Nat /\ granted \in Nat /\ masterEpoch \in Nat
  /\ watchTick \in Nat /\ epoch \in Nat /\ since \in Nat
  /\ worker \in {"queued", "running", "exiting"}
  /\ masterNode \in Nodes /\ node \in Nodes /\ oldNode \in Nodes \cup {NoNode}
  /\ watch \in {"idle", "refresh"}
  /\ row \in BOOLEAN
  /\ pings \subseteq Ping /\ pongs \subseteq Pong
  /\ state \in {"LoadingMeta", "WaitingHeartbeat", "Ready"}
  /\ entry \in {"none", "created", "wait", "normal", "offline", "tombstone"}
  /\ handling \in Ping \cup {NoPing}

\* The worker was submitted to the executor (PreDispatchTask) at time 0 and
\* entered by its master (BeforeStartExecutingWorker) at the same time or later.
WorkerLeaseInit ==
  /\ now \in 0..1 /\ since = now
  /\ worker = "queued"
  /\ acked = 0 /\ granted = 0
  /\ node \in Nodes /\ masterNode = node /\ masterEpoch = 0
  /\ watch = "idle" /\ watchTick = 0 /\ row = FALSE
  /\ pings = {} /\ pongs = {}
  /\ epoch = 1 /\ oldNode = NoNode
  /\ state = "Ready" /\ entry = "created"
  /\ handling = NoPing

-----------------------------------------------------------------------------
\* The worker.

\* doPreInit: startBackgroundTasks, and InitMasterInfoFromMeta.
DoPreInit ==
  /\ worker = "queued"
  /\ worker' = "running"
  /\ watchTick' = now + WorkerHeartbeatInterval
  /\ masterEpoch' = epoch /\ masterNode' = node
  /\ UNCHANGED <<now, acked, granted, watch, row, pings, pongs, masterVars>>

\* doPostInit: UpsertWorker.
UpsertWorker ==
  /\ worker = "running" /\ ~row
  /\ row' = TRUE
  /\ UNCHANGED <<now, worker, acked, granted, masterEpoch, masterNode,
                 watch, watchTick, pings, pongs, masterVars>>

\* A tick of runHeartbeatWorker, which the scheduler may delay.
SendHeartBeat ==
  /\ worker = "running"
  /\ Cardinality(pings) < MaxInFlight
  /\ pings' = pings \cup {[t |-> now, e |-> masterEpoch, n |-> masterNode]}
  /\ UNCHANGED <<now, workerVars, pongs, masterVars>>

\* masterClient.HandleHeartbeat.
HandlePong ==
  \E q \in pongs :
    /\ worker = "running"
    /\ pongs' = pongs \ {q}
    /\ \/ q.e < masterEpoch /\ UNCHANGED <<acked, granted, masterEpoch, masterNode>>
       \/ /\ q.e >= masterEpoch
          /\ acked' = q.t
          /\ granted' = IF q.t > granted THEN q.t ELSE granted
          /\ masterEpoch' = q.e
          /\ masterNode' = IF q.e > masterEpoch THEN q.n ELSE masterNode
    /\ UNCHANGED <<now, worker, watch, watchTick, row, pings, masterVars>>

WatchDue == worker = "running" /\ watch = "idle" /\ watchTick <= now

SinceLastAcked == now - acked

\* The ticker fires at multiples of the interval.  It keeps firing while the
\* watchdog reads the metastore: the channel holds the first of those ticks.
NextWatchTick ==
  \E n \in (now + 1)..(now + WorkerHeartbeatInterval) :
    /\ (n - watchTick) % WorkerHeartbeatInterval = 0
    /\ watchTick' = n

\* Mutant: the watchdog asks the metastore whatever the time since the last
\* acknowledged ping.
RunWatchDog_NoTimeout ==
  /\ WatchDue
  /\ NextWatchTick
  /\ \/ /\ SinceLastAcked <= 2 * WorkerHeartbeatInterval
        /\ UNCHANGED <<worker, watch>>
     \/ /\ SinceLastAcked > 2 * WorkerHeartbeatInterval
        /\ watch' = "refresh" /\ UNCHANGED worker
  /\ UNCHANGED <<now, acked, granted, masterEpoch, masterNode, row,
                 pings, pongs, masterVars>>

\* A tick of runWatchDog up to the read of the metastore.
RunWatchDog ==
  /\ WatchDue
  /\ NextWatchTick
  /\ \/ /\ SinceLastAcked <= 2 * WorkerHeartbeatInterval
        /\ UNCHANGED <<worker, watch>>
     \/ /\ SinceLastAcked > 2 * WorkerHeartbeatInterval
        /\ SinceLastAcked < WorkerTimeoutDuration
        /\ watch' = "refresh" /\ UNCHANGED worker
     \/ /\ SinceLastAcked >= WorkerTimeoutDuration
        /\ worker' = "exiting" /\ UNCHANGED watch
  /\ UNCHANGED <<now, acked, granted, masterEpoch, masterNode, row,
                 pings, pongs, masterVars>>

\* RefreshMasterInfo returns; an error of it, or of OnMasterFailover, ends the
\* worker.
RefreshMasterInfo ==
  /\ watch = "refresh"
  /\ watch' = "idle"
  /\ \/ /\ masterNode' = node
        /\ masterEpoch' = IF masterEpoch < epoch THEN epoch ELSE masterEpoch
        /\ worker' \in (IF masterEpoch < epoch THEN {worker, "exiting"} ELSE {worker})
     \/ worker' = "exiting" /\ UNCHANGED <<masterNode, masterEpoch>>
  /\ UNCHANGED <<now, acked, granted, watchTick, row, pings, pongs,
                 masterVars>>

\* Any other error, or the end of the executor.
WorkerStops ==
  /\ worker # "exiting"
  /\ worker' = "exiting" /\ watch' = "idle"
  /\ UNCHANGED <<now, acked, granted, masterEpoch, masterNode,
                 watchTick, row, pings, pongs, masterVars>>

-----------------------------------------------------------------------------
\* The network.

Lose ==
  /\ \/ \E p \in pings : pings' = pings \ {p} /\ UNCHANGED pongs
     \/ \E q \in pongs : pongs' = pongs \ {q} /\ UNCHANGED pings
  /\ UNCHANGED <<now, workerVars, masterVars>>

-----------------------------------------------------------------------------
\* The master.

\* The heartbeat handler sends the pong; when it cannot, the ping is ignored
\* (the message is lost).
SendPong ==
  \E p \in pings :
    /\ p.n = node /\ handling = NoPing
    /\ Cardinality(pongs) < MaxInFlight
    /\ pings' = pings \ {p}
    /\ pongs' = pongs \cup {[t |-> p.t, e |-> epoch, n |-> node]}
    /\ handling' = p
    /\ UNCHANGED <<now, workerVars, epoch, node, oldNode, state, entry, since>>

Online == IF state = "WaitingHeartbeat" THEN "wait" ELSE "created"

\* WorkerManager.HandleHeartbeat: any entry gets a new expire time, a first
\* heartbeat makes it normal.
HandleHeartbeat ==
  /\ handling # NoPing
  /\ handling' = NoPing
  /\ \/ /\ state # "LoadingMeta" /\ handling.e = epoch /\ entry # "none"
        /\ since' = now
        /\ entry' = IF entry = Online THEN "normal" ELSE entry
     \/ /\ state = "LoadingMeta" \/ handling.e # epoch \/ entry = "none"
        /\ UNCHANGED <<since, entry>>
  /\ UNCHANGED <<now, workerVars, pings, pongs, epoch, node, oldNode, state>>

\* The previous incarnation is still running and answers: it panics when the
\* ping has a larger epoch than its own.
StaleMasterAnswers ==
  \E p \in pings :
    /\ p.n = oldNode
    /\ Cardinality(pongs) < MaxInFlight
    /\ pings' = pings \ {p}
    /\ pongs' = pongs \cup {[t |-> p.t, e |-> epoch - 1, n |-> oldNode]}
    /\ oldNode' = IF p.e > epoch - 1 THEN NoNode ELSE oldNode
    /\ UNCHANGED <<now, workerVars, epoch, node, state, entry, since, handling>>

StaleMasterStops ==
  /\ oldNode # NoNode
  /\ oldNode' = NoNode
  /\ UNCHANGED <<now, workerVars, pings, pongs, epoch, node, state, entry, since,
                 handling>>

\* nextExpireTime, and the timer of InitAfterRecover.
TimeoutInterval == WorkerTimeoutDuration + WorkerTimeoutGracefulDuration

\* checkWorkerEntriesOnce.
CheckWorkerEntries ==
  /\ state = "Ready" /\ entry \in {"created", "normal"}
  /\ since + TimeoutInterval < now
  /\ entry' = "offline"
  /\ UNCHANGED <<now, workerVars, pings, pongs, epoch, node, oldNode, state,
                 since, handling>>

\* The offline event: beforeHook marks the entry, the master cleans it up later.
OfflineEvent ==
  /\ state = "Ready"
  /\ \/ entry = "offline" /\ entry' = "tombstone" /\ UNCHANGED since
     \/ entry = "tombstone" /\ entry' = "none" /\ since' = 0
  /\ UNCHANGED <<now, workerVars, pings, pongs, epoch, node, oldNode, state,
                 handling>>

\* refreshMetadata and registerMessageHandlers of a new incarnation.  Only one
\* incarnation can have its handlers registered at a node.
MasterFailover ==
  /\ epoch < MaxEpoch
  /\ epoch' = epoch + 1
  /\ node' \in Nodes
  /\ oldNode' \in {NoNode} \cup ({node} \ {node'})
  /\ state' = "LoadingMeta" /\ entry' = "none" /\ since' = 0
  /\ handling' = NoPing
  /\ UNCHANGED <<now, workerVars, pings, pongs>>

\* InitAfterRecover: the worker has a waiting entry if it has a row.
LoadAllWorkers ==
  /\ state = "LoadingMeta"
  /\ \/ row /\ state' = "WaitingHeartbeat" /\ entry' = "wait" /\ since' = now
     \/ ~row /\ state' \in {"WaitingHeartbeat", "Ready"} /\ UNCHANGED <<entry, since>>
  /\ UNCHANGED <<now, workerVars, pings, pongs, epoch, node, oldNode, handling>>

\* Mutant: the timer of InitAfterRecover leaves out the graceful duration.
WaitEnds_NotGraceful ==
  /\ state = "WaitingHeartbeat"
  /\ \/ entry # "wait" /\ UNCHANGED entry
     \/ entry = "wait" /\ since + WorkerTimeoutDuration <= now /\ entry' = "tombstone"
  /\ state' = "Ready"
  /\ UNCHANGED <<now, workerVars, pings, pongs, epoch, node, oldNode, since,
                 handling>>

\* InitAfterRecover: allWorkersReady or the timer.  The other workers of the
\* master decide when allWorkersReady is closed; while this one is awaited only
\* the timer, which was started with the waiting entry, ends the wait.
WaitEnds ==
  /\ state = "WaitingHeartbeat"
  /\ \/ entry # "wait" /\ UNCHANGED entry
     \/ entry = "wait" /\ since + TimeoutInterval <= now /\ entry' = "tombstone"
  /\ state' = "Ready"
  /\ UNCHANGED <<now, workerVars, pings, pongs, epoch, node, oldNode, since,
                 handling>>

-----------------------------------------------------------------------------
Time ==
  /\ now < MaxNow
  /\ ~WatchDue
  /\ now' = now + 1
  /\ UNCHANGED <<workerVars, pings, pongs, masterVars>>

WorkerLeaseNext ==
  \/ DoPreInit \/ UpsertWorker \/ SendHeartBeat \/ HandlePong
  \/ RunWatchDog \/ RefreshMasterInfo \/ WorkerStops
  \/ Lose
  \/ SendPong \/ HandleHeartbeat \/ StaleMasterAnswers \/ StaleMasterStops
  \/ CheckWorkerEntries \/ OfflineEvent
  \/ MasterFailover \/ LoadAllWorkers \/ WaitEnds
  \/ Time

WorkerLeaseSpec == WorkerLeaseInit /\ [][WorkerLeaseNext]_wlVars

-----------------------------------------------------------------------------
\* HandleHeartbeat is about to accept a ping whose pong is on its way.
Renewing == handling # NoPing /\ handling.e = epoch

\* The watchdog has ended the worker, its next tick is due, or the metastore
\* has kept it past that tick.
WatchedOut == worker # "running" \/ watchTick <= now

\* Once a master, the first or a recovered one, has accepted a ping of a worker,
\* the worker never counts its lease from a later time than the master does,
\* whatever pongs of this and earlier incarnations are still on their way
\* (lib/worker.go, masterClient.HandleHeartbeat).
WorkerCountsFirst == entry = "normal" => (granted <= since \/ Renewing)

\* When the checker of WorkerManager times a worker out, the watchdog has ended
\* the worker, unless it is stuck past its tick or a pong has overtaken the
\* HandleHeartbeat of its ping.
TimeoutAfterSuicide ==
  [][(entry = "normal" /\ entry' = "offline") => (WatchedOut \/ Renewing)]_wlVars

\* "Wait for the worker timeout to expire" (lib/master/worker_manager.go:189):
\* when a recovered master gives up waiting for a worker, the watchdog has ended
\* the worker or is stuck, unless someone acknowledged a ping sent after the
\* wait began: the previous incarnation, or this one for a ping it dropped.
WaitOutlivesOldLease ==
  [][(entry = "wait" /\ entry' = "tombstone")
       => (WatchedOut \/ granted > since)]_wlVars
=============================================================================
