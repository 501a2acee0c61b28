--------------------------- MODULE ExecutorLease ---------------------------
(***************************************************************************)
(* The lease of one executor, with time: the executor's heartbeat loop     *)
(* (executor/server.go, keepHeartbeat) against the record that the leader  *)
(* of the server masters keeps of it (servermaster/executor_manager.go).   *)
(*                                                                         *)
(* An executor gives up when its last heartbeat is older than KeepAliveTTL.*)
(* The leader declares it dead when the last heartbeat it handled is older *)
(* than the ttl of that heartbeat, KeepAliveTTL + RPCTimeout.  For the     *)
(* tasks of an executor to be started elsewhere it matters that the first  *)
(* happens before the second.                                              *)
(*                                                                         *)
(* The heartbeat call has no deadline: MasterClientImpl.Heartbeat does not *)
(* use its timeout parameter.  A call may therefore be in progress for any *)
(* length of time.  Time does not pass while a tick of an idle heartbeat   *)
(* loop is due; the leader's checker may be late by any amount.            *)
(***************************************************************************)
EXTENDS Naturals

CONSTANTS
  KeepAliveTTL,        \* Config.KeepAliveTTL of the executor
  KeepAliveInterval,   \* Config.KeepAliveInterval of the executor
  RPCTimeout,          \* Config.RPCTimeout of the executor
  InitTTL,             \* initHeartbeatTTL: KeepAliveTTL of the server master
  MaxClock,              \* bound: the end of time
  MaxTerm              \* bound: number of leaders

ASSUME LeaseAssumption ==
  /\ KeepAliveTTL \in Nat /\ RPCTimeout \in Nat /\ InitTTL \in Nat
  /\ MaxClock \in Nat /\ MaxTerm \in Nat
  /\ KeepAliveInterval \in Nat \ {0}
  /\ KeepAliveInterval <= RPCTimeout

VARIABLES
  clock,        \* the time
  proc,         \* the executor process
  lastHb,       \* Server.lastHearbeatTime
  nextTick,     \* firing time of the tick in, or next to enter, ticker.C
  call,         \* the heartbeat call in progress and its answer
  callTime,     \* t: the tick that caused the call
  callTerm,     \* the leader whose record an "ok" renewed
  leaseFrom,    \* history: did the current leader's record grant the lease?
  term,         \* the number of the current leader
  ready,        \* leaderInitialized
  record,       \* the executor's entry in ExecutorManagerImpl.executors
  lastUpdate,   \* Executor.lastUpdateTime
  ttl           \* Executor.heartbeatTTL

executorVars == <<proc, lastHb, nextTick, call, callTime, callTerm, leaseFrom>>
leaderVars == <<term, ready, record, lastUpdate, ttl>>
leaseVars == <<clock, executorVars, leaderVars>>

LeaseTypeOK ==
  /\ clock \in Nat /\ lastHb \in Nat /\ nextTick \in Nat
  /\ callTime \in Nat /\ callTerm \in Nat
  /\ lastUpdate \in Nat /\ ttl \in Nat /\ term \in Nat
  /\ proc \in {"starting", "up", "gone"}
  /\ call \in {"none", "sent", "ok", "notready", "refused"}
  /\ leaseFrom \in {"record", "other"}
  /\ ready \in BOOLEAN
  /\ record \in {"live", "expired", "absent"}

\* RegisterExecutor has just been answered by the first leader.
LeaseInit ==
  /\ clock = 0 /\ lastHb = 0 /\ nextTick = 0
  /\ proc = "starting"
  /\ call = "none" /\ callTime = 0 /\ callTerm = 0
  /\ leaseFrom = "other"
  /\ term = 1 /\ ready = TRUE
  /\ record = "live" /\ lastUpdate = 0 /\ ttl = InitTTL

-----------------------------------------------------------------------------
\* The executor.

\* keepHeartbeat is reached after the metastore clients are connected.
KeepHeartbeat ==
  /\ proc = "starting"
  /\ proc' = "up"
  /\ lastHb' = clock
  /\ nextTick' = clock + KeepAliveInterval
  /\ UNCHANGED <<clock, call, callTime, callTerm, leaseFrom, leaderVars>>

LeaseOver == lastHb + KeepAliveTTL < clock

\* A tick is taken from ticker.C.  Ticks that found the channel full were
\* dropped: the next one is the next multiple of the interval.
TickDue == proc = "up" /\ call = "none" /\ nextTick <= clock

Tick ==
  /\ TickDue
  /\ \E n \in (clock + 1)..(clock + KeepAliveInterval) :
       /\ (n - nextTick) % KeepAliveInterval = 0
       /\ nextTick' = n
  /\ \/ LeaseOver /\ proc' = "gone" /\ UNCHANGED <<call, callTime>>
     \/ ~LeaseOver /\ call' = "sent" /\ callTime' = nextTick /\ UNCHANGED proc
  /\ UNCHANGED <<clock, lastHb, callTerm, leaseFrom, leaderVars>>

\* A success, and MasterNotReady too, renews the lease from the time of the tick.
HeartbeatAnswered ==
  /\ proc = "up" /\ call \in {"ok", "notready"}
  /\ lastHb' = callTime
  /\ leaseFrom' = IF call = "ok" /\ callTerm = term THEN "record" ELSE "other"
  /\ call' = "none"
  /\ UNCHANGED <<clock, proc, nextTick, callTime, callTerm, leaderVars>>

\* UnknownExecutor and TombstoneExecutor end the process.
HeartbeatRefused ==
  /\ proc = "up" /\ call = "refused"
  /\ proc' = "gone" /\ call' = "none"
  /\ UNCHANGED <<clock, lastHb, nextTick, callTime, callTerm, leaseFrom,
                 leaderVars>>

\* The call returns an error, whether or not the leader handled it.
HeartbeatFails ==
  /\ proc = "up" /\ call # "none"
  /\ call' = "none"
  /\ proc' = IF LeaseOver THEN "gone" ELSE "up"
  /\ UNCHANGED <<clock, lastHb, nextTick, callTime, callTerm, leaseFrom,
                 leaderVars>>

\* DoFailoverRPC tries the next server when one fails, handled or not.
HeartbeatRetried ==
  /\ proc = "up" /\ call \notin {"none", "sent"}
  /\ call' = "sent"
  /\ UNCHANGED <<clock, proc, lastHb, nextTick, callTime, callTerm, leaseFrom,
                 leaderVars>>

ExecutorStops ==
  /\ proc # "gone"
  /\ proc' = "gone" /\ call' = "none"
  /\ UNCHANGED <<clock, lastHb, nextTick, callTime, callTerm, leaseFrom,
                 leaderVars>>

-----------------------------------------------------------------------------
\* The leader.

\* HandleHeartbeat: unknown and tombstone executors are refused, otherwise the
\* record is renewed with the ttl of the request.
HandleExecHeartbeat ==
  /\ call = "sent" /\ ready
  /\ \/ /\ record = "live"
        /\ lastUpdate' = clock
        /\ ttl' = KeepAliveTTL + RPCTimeout
        /\ call' = "ok" /\ callTerm' = term
     \/ /\ record # "live"
        /\ call' = "refused"
        /\ UNCHANGED <<lastUpdate, ttl, callTerm>>
  /\ UNCHANGED <<clock, proc, lastHb, nextTick, callTime, leaseFrom, term, ready,
                 record>>

\* checkInitialized of PreRPC.
AnswerNotReady ==
  /\ call = "sent" /\ ~ready
  /\ call' = "notready"
  /\ UNCHANGED <<clock, proc, lastHb, nextTick, callTime, callTerm, leaseFrom,
                 leaderVars>>

\* The call reaches a server master that has not noticed that it leads no more.
AnsweredByOldLeader ==
  /\ call = "sent" /\ term > 1
  /\ \/ call' = "ok" /\ callTerm' = term - 1
     \/ call' = "refused" /\ UNCHANGED callTerm
  /\ UNCHANGED <<clock, proc, lastHb, nextTick, callTime, leaseFrom, leaderVars>>

\* Mutant: the checker counts from the start of the initial lease.
CheckAlive_InitTTL ==
  /\ record = "live"
  /\ lastUpdate + InitTTL < clock
  /\ record' = "expired"
  /\ UNCHANGED <<clock, executorVars, term, ready, lastUpdate, ttl>>

\* Executor.checkAlive finds the lease expired; removeExecutorImpl follows.
CheckAlive ==
  /\ record = "live"
  /\ lastUpdate + ttl < clock
  /\ record' = "expired"
  /\ UNCHANGED <<clock, executorVars, term, ready, lastUpdate, ttl>>

\* runLeaderService of another server master: resetExecutor registers the
\* executors it finds in etcd.  The row is there unless the executor has not
\* written it yet, or its session with etcd has expired.
RunLeaderService ==
  /\ term < MaxTerm
  /\ term' = term + 1
  /\ ready' = FALSE
  /\ record' \in {"live", "absent"}
  /\ lastUpdate' = clock
  /\ ttl' = InitTTL
  /\ leaseFrom' = "other"
  /\ UNCHANGED <<clock, proc, lastHb, nextTick, call, callTime, callTerm>>

LeaderReady ==
  /\ ~ready
  /\ ready' = TRUE
  /\ UNCHANGED <<clock, executorVars, term, record, lastUpdate, ttl>>

-----------------------------------------------------------------------------
TimePasses ==
  /\ clock < MaxClock
  /\ ~TickDue
  /\ clock' = clock + 1
  /\ UNCHANGED <<executorVars, leaderVars>>

LeaseNext ==
  \/ KeepHeartbeat \/ Tick
  \/ HeartbeatAnswered \/ HeartbeatRefused \/ HeartbeatFails
  \/ HeartbeatRetried \/ ExecutorStops
  \/ HandleExecHeartbeat \/ AnswerNotReady \/ AnsweredByOldLeader
  \/ CheckAlive \/ RunLeaderService \/ LeaderReady
  \/ TimePasses

LeaseSpec == LeaseInit /\ [][LeaseNext]_leaseVars

-----------------------------------------------------------------------------
\* "If we set the heartbeat time of executor to the start time of rpc, it will
\* be a little bit earlier than the heartbeat time of master, which is safe"
\* (executor/server.go:636): as long as the lease was granted by the record of
\* the current leader, the executor counts from an earlier time than it.
ExecutorCountsFirst == leaseFrom = "record" => lastHb <= lastUpdate

\* Once the leader has given up on an executor whose last heartbeat it handled,
\* the executor has stopped, unless a heartbeat call has outlasted the tick that
\* follows it: between two ticks keepHeartbeat never runs past its lease by more
\* than the RPCTimeout that the leader waits longer ("We set longer ttl for
\* master, which is "ttl + rpc timeout"", executor/server.go:609).
ExpiredMeansStopped ==
  (record = "expired" /\ leaseFrom = "record" /\ proc = "up") => nextTick < clock
=============================================================================
