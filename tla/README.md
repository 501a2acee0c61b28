# A TLA+ model of microcosm

microcosm is a distributed scheduler for data-flow jobs. This directory holds
TLA+ modules for its protocols, TLC configurations that check them on small
instances, and proofs, checked by TLAPS, of what matters most for every
instance. `PROJECT.json` lists the components, the runs, the source lines each
definition stands for, the hazards, the disagreements met between the code and
its comments, and the theorems.

## The system

| Part | State | Operations |
| --- | --- | --- |
| **Server master** (`servermaster/server.go`, `campaign.go`, `cluster/election.go`) | leadership, leader services | campaign, start and stop of the leader services, forwarding of calls to the leader |
| **Job manager** (`jobmanager.go`, `job_fsm.go`) | jobs pending, waiting for acknowledgement, online | submit, query, pause, cancel; callbacks of a master; recovery |
| **Executor manager, capacity manager, scheduler** (`executor_manager.go`, `resource/`, `scheduler/`) | executors, their leases and capacities | register, heartbeat, liveness check, placement of a task |
| **Base master** (`lib/master.go`, `lib/master/`) | worker entries, event queue, epoch | create worker, heartbeats, status messages, expiry, callbacks from Tick, recovery after failover |
| **Base worker** (`lib/worker.go`, `lib/statusutil/`) | epoch of its master, last acknowledged heartbeat, status, exit state | init, heartbeat, watchdog, status update, exit |
| **Base job master** (`lib/base_jobmaster.go`) | a worker of the job manager and the master of its job | both of the above |
| **Task dispatcher** (`client/task_dispatcher.go`) | request ID, phase | two-phase dispatch with retries |
| **Executor** (`executor/server.go`, `executor/worker/`) | pending requests, queue, running tasks, initialisation quota | pre-dispatch, confirm, TTL check, run loop, task goroutines, cancellation |
| **External resources** (`pkg/externalresource/`) | resource table, local files, files marked persisted | open, persist, remove, clean after a worker, placement constraint |
| **DM job master** (`jobmaster/dm/`) | job state in the metastore, status of tasks and workers | ticks that compare wanted with actual workers and create or stop them |
| **Metastore, p2p, discovery, helpers** (`pkg/`) | rows, connections, queues | transport and storage, seen by the other parts as reads, writes and messages that may be lost |

A job is submitted to the job manager, which creates a *job master* the same
way every master creates a worker: it asks the scheduler for an executor,
dispatches the worker to it in two phases, and from then on knows it only
through heartbeats and status messages. The job master does the same for the
workers of its job. Masters and workers fail over independently; the metastore
is what survives.

What is hard to get right in this: a dispatch whose outcome is unknown,
heartbeats that belong to an earlier master, events that wait in a queue while
the entry they are about changes, a failover at any point of a worker's life,
and shutdown of an executor while tasks are starting.

## The modules

| Module | Models | Lines of the code it stands for |
| --- | --- | --- |
| `TaskRunner` | the executor's run loop and one goroutine per task | `executor/worker/task_runner.go`, `internal/runnables.go` |
| `TaskCommitter` | pending requests; EXTENDS `TaskRunner`, whose queue it feeds | `executor/worker/task_committer.go` |
| `TaskDispatch` | the dispatchers, the transport and the gRPC handlers; EXTENDS `TaskCommitter` | `client/task_dispatcher.go`, handlers of `executor/server.go` |
| `DispatchContract` | abstract: what `DispatchTask` promises its caller; implemented by `TaskDispatch`, used by `MasterWorkers` | the contract of `DispatchTask` in `client/task_dispatcher.go` |
| `WorkerManager` | one master's view of its workers | `lib/master/*.go` |
| `MasterWorkers` | creation, the workers, the network, failover; EXTENDS `WorkerManager` | `lib/master.go`, `lib/worker.go`, `lib/statusutil/writer.go` |
| `JobManager` | the job manager, its JobFsm and its gRPC handlers, job masters that reuse their worker ID, change of leader; EXTENDS `WorkerManager` | `servermaster/jobmanager.go`, `servermaster/job_fsm.go`, parts of `servermaster/server.go` and `lib/base_jobmaster.go` |
| `ExecutorLease` | an executor's heartbeat loop and the leader's record of it, with a clock | `executor/server.go`, `servermaster/executor_manager.go`, `pkg/rpcutil/` |
| `WorkerLease` | a worker's heartbeats and watchdog and its master's entry, with a clock | `lib/worker.go`, `lib/master.go`, `lib/master/worker_manager.go` |
| `WorkerCallbacks` | abstract: what the framework tells a master implementation about its workers; implemented by `MasterWorkers`, used by `DMJobMaster` | the contract of `MasterImpl` in `lib/master.go` |
| `ServerElection` | campaign, watch and leader service of the server masters, forwarding client | `servermaster/campaign.go`, `server.go`, `cluster/election.go`, `pkg/rpcutil/server.go` |
| `LeadershipContract` | abstract: what the election promises the leader's services; implemented by `ServerElection`, used by `ExecutorPool` | `servermaster/campaign.go`, `cluster/election.go` |
| `ExecutorPool` | registration, heartbeats, liveness checks, the two maps of executors, placement | `servermaster/executor_manager.go`, `resource/`, `scheduler/`, `failover.go`, `executor/server.go`, `pkg/srvdiscovery/` |
| `ExternalResource` | local files: brokers, resource table, clean-up | `pkg/externalresource/` |
| `DMJobMaster` | the DM job master and its workers; EXTENDS `ExternalResource` | `jobmaster/dm/`, `dm/` |
| `ProtoCodec` | the generated encoder and decoder | the methods common to `pb/*.pb.go` |
| `PbMaster`, `PbExecutor`, `PbResources`, `PbError`, `PbDatarw`, `PbTest`, `PbMetastore` | the fields of every message, once per generated method | `pb/*.pb.go` |
| `TaskDispatch_proofs` | theorems about `TaskRunner`, `TaskCommitter` and `TaskDispatch`, and the refinement of `DispatchContract` | |
| `WorkerSteps_proofs`, `MasterWorkers_proofs` | theorems about `WorkerManager` and `MasterWorkers`, and the refinement of `WorkerCallbacks` | |
| `JobTables_proofs`, `JobWaits_proofs`, `JobManager_proofs` | theorems about `JobManager` | |
| `Cluster_proofs` | theorems about `ServerElection`, `ExecutorPool`, `ExecutorLease` and `WorkerLease`, and the refinement of `LeadershipContract` | |
| `DMJobMaster_proofs` | theorems about `ExternalResource` and `DMJobMaster` | |
| `MC...` | small instances for TLC | |

**TaskRunner.** A `RunnableContainer` is an element of `Container`, its task ID
is `TaskOf[c]`; several containers may carry the same ID. `phase[c]` is where
the container is: not submitted, queued, held by the run loop, initialising,
polled, closing, deleted, done or refused. The code's variables are `inQueue`,
`sema` (units of `initQuotaSema` taken), `tasks` (the sync.Map), `canceled`,
`taskCount`, `status` (what `Workload` reads). `onNewTask` is one action, since
it holds `cancelMu` for reading and starts the goroutine at its end; the
goroutine's `Init`, `EventLoop`, `Close`, deletion from the map and exit are
separate steps because other goroutines run between them. `cancelAll` is split
at `wg.Wait`; `wg` is the counter that call waits for, and `onNewTask` and the
goroutines change it where the code does.

**TaskCommitter.** The two maps of the code. Everything runs under one mutex, so
each operation is one action; a request expires when the checker chooses it.

**TaskDispatch.** Each member of `Dispatch` is a call of `DispatchTask`; request
IDs are containers, since each attempt wraps its own task. Calls and replies
are sets: a call may stay there for ever (lost), be handled long after its
caller has given up, and is handled at most once, as gRPC does. A dispatcher
may crash at any point.

**DispatchContract.** An abstract specification of a call of `DispatchTask`: where
it is (`call`) and whether an executor has taken its worker on (`launched`). The
timer callback comes before a launch, a launch happens once and never after an
error, and abortWorker is called only when there was none. A caller that dies
after its timer callback leaves a call that may still launch. `TaskDispatch`
implements it with `call` computed from the dispatcher's place in the code and
`launched` from the containers its requests have put in the runner's hands
(`DispatchKept`; proved).

**WorkerManager.** `entryState` has the five states of `worker_entry.go` and
"Unused" for an object that does not exist yet. `m.mu` is represented where it
matters: the checker keeps it for a whole sweep (`sweep` is not empty), and
everything that takes it waits. `enqueueEvent` blocks up to a second, so its two
outcomes are an append or an error recorded in `errs`, after which `Tick`
refuses to start and the master goes down. The 5-second context of a `Tick` that
waits for an event may end it with an error (`TickFails`), and the master goes
down in the same way. A queued event keeps the entry its hook captured.
`panicked` is the set of the kinds of `log.Panic` that happened. A message that
fails the comparison of epochs is dropped when its epoch is smaller and is a
panic when it is larger (`EpochMismatch`). The manager is that of the latest
master: one that was replaced and still runs panics by design at the first
message of a worker that has learned of its successor, so `NoPanic` is about the
successor. `told` is a history variable: what the callbacks have told the master
implementation about each worker.

**MasterWorkers.** Each element of `Entry` also names the call of `CreateWorker`
and the worker it is about. The steps of `DispatchTask`, and the launch, are
those of `DispatchContract`, so that the worker manager is checked against
everything the dispatch was proved to do and nothing else. Heartbeats stay in
the set `pings` and so may arrive late, repeatedly or never; status messages are
ordered per worker and may be lost. Those of another epoch are handled too
(`RefusePing`, `RefuseStatus`). A failover replaces the manager and raises the
epoch; workers learn of it when `RefreshMasterInfo` reads the metastore. The
WorkerStatus object of a worker and the pointer the status writer keeps to it
are modelled as an object and a reference, because the writer compares the two.

**JobManager.** A worker ID is a job, and all masters of the job that were ever
created share it; an element of `Entry` is one of them. `mainPC` is the program
counter of the main goroutine: `Poll` with the WorkerManager's `Tick`, then the
job manager's own `Tick` in four parts (pending jobs, `GetWorkers`, the visit of
each worker, jobs taken over). `OnWorkerOffline` is split at `CleanTombstone`,
because gRPC goroutines run in between. `addFromFailover` is the flag of the
holders in `waitAckJobs`. A creation that exceeds the quota is the choice of a
proper subset of the jobs to create. A heartbeat may be delivered whenever its
sender has been launched, which is the set `pings` of `MasterWorkers` without
the set; one of an earlier epoch changes nothing and has no action. The only
status message kept is the final one. `JobMasterInit` and `JobMasterExit` write
the job's row in one step each. The row of a job master in the worker table is
written by its `Init` only: its exit leaves the row alone (see
`status_not_persisted` below). An error returned to `Poll`, or a panic, ends the
leader's service (`mainPC = "down"`); the next leader may also be elected at any
other time.

**ExecutorLease.** The executor gives up when its last heartbeat is older than
`KeepAliveTTL`, the leader when the last one it handled is older than
`KeepAliveTTL + RPCTimeout`. `now` is a discrete clock that does not advance
while a tick of the idle heartbeat loop is due; a call in progress may take any
time, because `MasterClientImpl.Heartbeat` does not use its timeout. A call may
be handled, answered, retried on another server or fail in any order
`DoFailoverRPC` allows; it may be answered by a leader that is not ready (which
renews the executor's lease but no record) or by one that has been replaced. A
new leader creates its record from etcd with its own initial ttl. `leaseFrom`
is a history variable: whether the lease the executor counts was granted by the
current leader's record.

**WorkerLease.** The same question for a worker and its master, which differ in
three ways: messages instead of calls, a pong that is sent before the master
looks at the ping, and a master that fails over while the worker runs on.
`since` is the time from which the entry's expiry counts, `acked` the time from
which the watchdog counts and `granted` the largest value it has had. The
handler is split between pong and `HandleHeartbeat` (`handling`). A new
incarnation may be at the same node, where it receives pings meant for its
predecessor, or at another, while the predecessor goes on answering
(`oldNode`). The watchdog's read of the metastore takes any time. A worker has
ended when its watchdog, or another error, has decided so; `Poll` may still be
inside the user's `Tick` then. Pings with `IsFinished` are left to
`MasterWorkers`.

**WorkerCallbacks.** An abstract specification of two functions: what the
implementation has been told of each worker (`known`) and the worker process
(`proc`). It says in which order `OnWorkerDispatched`, `OnWorkerOnline` and
`OnWorkerOffline` may come and what each says of the process: a worker reported
failed has not run and never will, one reported online has run, and one is
reported offline once. `MasterWorkers` implements it with `known` as the history
variable `told` and `proc` computed from the goroutine of `CreateWorker` and the
life of the worker (`CallbacksKept`, an `INSTANCE ... WITH`; proved).
`DMJobMaster` takes its framework from it, so that the job master is checked
against everything the framework was proved to do and nothing else.

**ServerElection.** `pc` is the place of each server in `leaderLoop`, with
`watchLeader` split at the two places where it blocks (closing and dialling the
client) and `runLeaderService` split at the store of the leader and at
`leaderInitialized`. The keys of the election are a set, ordered by the revision
at which they were written; a key belongs to the server's session, to the
session of an earlier process, or is gone from etcd while the campaign that
wrote it still waits ("ghost": the server that found it under its own name has
deleted it). The watch starts from the revision that was read, so a deletion
since the read is kept in `deleted` until the watch meets it. A compaction of
etcd may swallow the deletion (`WatchCompacted`): `watchLeader` does not look at
the error of the response and waits on ("blind") until another deletion or the
end of the watch. `ForwardsTo` is the server that `PreRPC` sends a request on
to. The deferred calls at the end of a leader service, which withdraw the leader
and delete the key, are one step. A campaign can time out, a session can be
lost, a server can crash and the etcd leader can move at any time.

**LeadershipContract.** An abstract specification of one set, the servers that run
the leader service under a live session: it has one element at most, and it
changes hands through the empty set. A server whose session has ended no longer
counts, although it may not have noticed; what such a server still does is
left to the services, and `ExecutorPool` has it. `ServerElection` implements the
contract (`LeadershipKept`; proved).

**ExecutorPool.** Every server has an executor manager (`executors`, and the
capacities in `cap`) that outlives its terms, and one `checkAlive` goroutine per
term that outlives it too, since the loop does not return when its context ends.
`RegisterExec` is two actions, because the second map is filled outside the lock
of the first, and so is the liveness check, which releases the lock between the
finding and the removal. A heartbeat looks its record up and applies it later,
to a record that may have been replaced. Deadlines are abstract: the deadline of
an executor that is up and heartbeats to the leader does not pass
(`ExecutorLease` is where it is timed). Who leads changes by the steps of
`LeadershipContract`; a server that has lost the leadership goes on for a while
as if it had it. The start of the executor manager and the mark that the leader
is initialised are one step; a server that gives up before that mark has handled
no registration. Resources are local files, the only kind the code supports, so
a request that names one has a constraint. A request to place a task is split at
the constraint, the choice and the address.

**ExternalResource.** A name is a sequence of path segments, because
`RemoveTemporaryFiles` looks at the first one only. `persisted` is the mark in
the executor's memory, `meta` the table of the resource manager; `Persist`
inserts the record and then sets the mark, and the reply in between may be lost.
`RemoveTemporaryFiles` is a test of an entry of the worker's directory
(`OnWorkerClosed`) and its removal (`RemoveAll`), with anything in between;
nothing in the repository calls it, so it may come at any time of the worker's
life, and no module above has it. An executor that is lost takes its files with
it, as the comment of the file manager assumes.

**DMJobMaster.** `wst`, `tst` and `hd` are the worker statuses, task statuses
and message handles the two managers keep per task, `row` and `cache` the job
state in the metastore and its cached copy. `TickImpl` is one action with all of
its branches. `CloseImpl` calls the same tick in its own loop, when nothing
delivers callbacks any more (the branch in which that loop's context ends
belongs to the shutdown of the executor and is left out). `Poll` may fail for a
reason of the framework (`DoPollFails`), and so may the write that marks the
master as initialised, with the row written or not (`MarkFails`). The unit of a
task is chosen from the checkpoints (`cp`) when no worker is known and from the
last worker's unit otherwise. Workers have a unit (`of`), an `ExtBytes` they
have sent (`ext`), a checkpoint and an end; the units themselves are code of
another repository, of which only these are assumed: they may fail at any time,
load needs the files of dump, and a unit that has finished leaves the checkpoint
that `IsFresh` reads.

**ProtoCodec.** The generated code has, for every message, three methods that
walk over the fields: `Size`, `MarshalToSizedBuffer` (from the last field to the
first, filling the buffer from its end) and `Unmarshal`. The `Pb` modules give
each of the three as a table, in the order of its method, and `ProtoCodec` gives
the meaning of a row: `sov`, `encodeVarint`, tags, length prefixes, the test for
the zero value, packed and repeated fields, nested messages. A 64-bit word is
its ten base-128 digits, so that negative numbers and the truncation to `int32`
are what they are in Go. The receiver may be a release older and not know one of
the fields, which it then skips.

## The runs

| Run | Instance | Shows |
| --- | --- | --- |
| `task_dispatch` | two dispatches of one worker ID, three request IDs; beside it the runner alone: two IDs, two containers each, queue of 2, quota 1 | map, semaphore and count follow the goroutines; a cancelled runner terminates and is quiet; the callbacks, the result and the launch implement `DispatchContract`, a reported failure is final, one launch per dispatch, nothing pending for ever |
| `workers` | one worker through two epochs with a queue of 2; and two workers at the moment a second master starts | no panic, the callbacks implement `WorkerCallbacks`, belief matches the map, running workers have the current epoch, recovery waits for the workers it must, no entry stuck |
| `jobs` | one job, two masters of it under one leader; one job under two leaders, with pause and cancel | one map at a time, an online job has an entry, a waiting job waits for something, no job that has not ended is forgotten, failover ends |
| `leases` | executor: ttl 3, interval 2, RPC timeout 2, two leaders, 14 time units; worker: timeout 6, interval 2, graceful duration 2, one failover between two nodes, 10 time units | a leader or master that gives up finds the other side stopped; the exceptions are named |
| `cluster` | two servers that campaign, with four faults; one executor, two servers with two terms each; two executors, two resources and a request | requests are sent on to the holder of the oldest key, the election implements `LeadershipContract`, a leader emerges, the two maps agree, tasks go to their data, an executor that is up gets known or stops |
| `wire_format` | every message, its fields at the values where a length or a width changes (0, 127, 128, -1, the smallest `int32` and `int64`, strings of 0, 1 and 128 bytes) | `Size` is what is written, `Unmarshal` restores it, but for fields it does not know |
| `dm_job` | one task, three workers, two executors, one trouble (two for a task of one unit); and three workers on one file | books agree, no unit skipped, load reads what dump wrote, one owner, the files of a finished dump can be read, a task is served |

Components that share a run are explored side by side: an MC module with a
variable `part` starts one of them and leaves the others in a state where none
of their fair actions is enabled.

Five more runs are expected to fail. Each states what a comment of the code
says, and TLC shows a behaviour of the code that contradicts it:

* `status_not_persisted`: "If UpdateStatus returns without an error, then the
  status must have been persisted" (`lib/worker.go:358`), but the writer
  compares the status object with itself from the second call on.
* `query_races_offline`: "job master is just timeout but have not call
  OnOffline" (`servermaster/job_fsm.go:154`) is answered with nil, but a query
  between `CleanTombstone` and `JobOffline` panics on a stale handle.
* `finished_job_rescheduled`: "Note job master managed in JobFsm is in running
  status" (`servermaster/job_fsm.go:24`), but the reason of an offline event is
  computed before the final status in the queue is applied, and the finished job
  is scheduled again.
* `persisted_files_removed`: "Persisted resources are skipped, as they are NOT
  temporary" (`pkg/externalresource/broker/file_manager.go:113`), but the name
  that is compared with the marks is the first segment of the path, so a
  persisted file with a longer name, such as DM's, goes with its first directory.
* `close_never_ends`: "wait all worker offline" (`jobmaster/dm/dm_jobmaster.go:216`),
  but the status of a task whose worker has finished stays in the map that the
  loop waits for: the task has no handle to be stopped through and its worker
  does not go offline a second time.

**Deviations.** The models contain further behaviours that the comments do not
lead one to expect and that no run states:

* A failed first phase of `DispatchTask` calls neither callback, so the master
  implementation hears nothing more of the worker, although "All cleaning up
  should have been done in AbortCreatingWorker" (`lib/master.go:580`).
* A worker inside `Init` has no row, so a recovered master takes its "Fast path
  when there is no active worker" (`lib/master/worker_manager.go:167`) although
  the worker is running.
* The exception in `ExpiredMeansStopped`: an executor whose heartbeat call hangs
  keeps running after the leader has given it up, whatever its RPC timeout.
* The exceptions in `WaitOutlivesOldLease`: a ping with an old epoch is dropped
  by the recovered master but answered with a pong, and renews the lease of a
  worker for which that master stops waiting; and so does the previous master
  while it runs. Later pings of such a worker are answered too, so it need not
  stop.
* A worker that starts only after its first lease is over runs until the first
  tick of its watchdog. `TimeoutAfterSuicide` therefore says nothing of an entry
  that never had a heartbeat.
* "receive worker online, move job from `waitAckJobs` to `onlineJobs`"
  (`servermaster/jobmanager.go:42`): the first `Tick` of a leader has already
  moved a job whose master was only created; the online event is then an error
  and the leader gives up.
* Of the panics of the worker manager, `EntriesInOrder` excludes two for the job
  manager. The others are about a worker that is known already, or not any more:
  with IDs that are used again they can be met, for instance by `GetHandle` of a
  job whose entry was removed (`query_races_offline`), and nothing is claimed of
  them there. `NoPanic` of `MasterWorkers` is about masters that draw new IDs.
* `RegisterExec` may give the capacity of an executor to the resource manager
  after `checkAlive` has removed the executor: the opposite of
  `KnownHasCapacity` does not hold, and the scheduler can choose an executor that
  has no address (`task.pc = "gone"`).
* A server that loses its session while it is not the leader does not get
  another one: its campaigns fail until it is restarted. `LedWhileSessionsHold`
  is about servers whose sessions hold.
* A follower whose watch missed a deletion to a compaction keeps its old view and
  sends requests to a server that no longer leads, until the next deletion.
  `ForwardsToLeader` excepts it, and two moments: a deletion the watch has still
  to read, and the client of the previous leader before `createLeaderClient`
  closes it.
* A lost reply of `CreateResource` leaves the record in the table and the file
  unmarked, and every further `Persist` is refused because the record exists
  (`pkg/externalresource/broker/storage_handle.go:61`). The dump worker then
  never finishes; `TaskServed` is about tasks without a worker only.
* Even for a name of one segment `RemoveTemporaryFiles` tests the mark before it
  removes the entry, without a lock that `Persist` takes: a mark set in between
  does not save the file.
* Of the DM job master: when the first heartbeat of a worker comes before its
  first status, or a worker fails in `InitImpl`, the status has no `ExtBytes`,
  the callback returns an error, `Poll` fails and `CloseImpl` deletes the job; a
  restarted job master that finds a worker online fails in the same way, before
  its task manager exists, and `CloseImpl` then dereferences nil. Any error of
  `jobStore.Get` counts as a deleted job. If `Delete` fails, `CloseImpl` returns
  early and the job master goes on sending heartbeats (the "zombie" of the
  model). An executor that is lost between dump and load leaves a record that
  makes every further dump of the task fail in `InitImpl`, so `TaskServed` says
  that a task gets workers, not that it ends.

**Bounds.** Two containers with the same ID are what a duplicate needs, and a
second ID what independence needs; quota 1 makes waiting happen. One dispatch
with two attempts and a competing dispatch of the same worker exercise
overwriting, late first-phase calls and expiry. A queue of two fills within
one sweep of two workers. Two epochs are one failover; a message of epoch 1 in
epoch 2 stands for any old message. In the recovery half of `workers` only the
first worker exits, which cuts symmetric growth of the state space; both may
still come online, expire and die. `jobs` explores two masters of one job under
one leader, which is what the reuse of an ID needs, and two leaders, which is
what a failover needs, but pause and cancel only with one master
(`ReuseOrFailover`). In `Expire` the first lease of an entry (20 seconds)
outlasts the confirmation that follows its creation and the last statement of
`SubmitJob`; the code relies on the same. In `leases` the clock runs long enough
for a lease to be granted, renewed after a change of leader or master, and to
expire; the durations are the smallest that keep the order of the code's
defaults (20 s, 0.5 s and 3 s for executors; 15 s, 3 s and 5 s for workers) and
make the watchdog's middle range, where it asks the metastore, not empty. The
worker's half has one ping and one pong on their way at a time, and follows a
worker after its end only in the simplest case (`WorkerAlive`); the proofs have
no such bounds. In `cluster` the four faults of the election are enough for a
crash, a restart that meets its own old key, a lost session and a move of the
etcd leader in one behaviour; two terms per server leave a `checkAlive` goroutine
of the first to run beside that of the second. In `dm_job` three workers are one
per unit, or two for one unit of a task; the troubles of a behaviour (failing
worker, lost executor, lost reply, restart, failing metastore) are bounded
together. `CHECK_DEADLOCK FALSE` is set where the system may stop: workers that
are all dead, or a runner that has returned, have no step left.

**Fairness.** In `TaskRunner`: the run loop and every goroutine step except
those that depend on the user's task ending by itself; a task told to cancel
returns from `EventLoop`, which selects on its context. In `TaskDispatch`: the
TTL checker only, which ticks every second. In `MasterWorkers`: the checker,
`Tick`, whose `select` takes an event that is there (it may also take the end of
its context, which ends the master), recovery, which has a timer, expiry of
leases, and the end of `DispatchTask`, which has a timeout.
In `ServerElection`: `leaderLoop`, whose every wait has a timer or a watch, the
timeout of a campaign, the restart of a dead process, and strong fairness for
winning a campaign nobody is ahead of, since etcd answers the campaign within
its timeout again and again; a leader service ends for certain only for the
reasons it polls. In `ExecutorPool`: a server takes the leadership over and gets
ready, heartbeats are sent and answered as long as the executor runs. In
`DMJobMaster`: the tick of the worker manager, the steps of `InitImpl` and
`CloseImpl`, and the offline callback of a worker that has run and stopped, which
`NoStuckEntry` of `MasterWorkers` justifies. A tick that keeps failing changes
nothing, so fairness of the tick says that the metastore and the creation of a
worker do not fail for ever. Workers and the network may do anything at any time,
or nothing.

## What is proved

Every safety property that a passing run checks is also proved, for all values
of the constants, except the two of the wire format. The assumptions are those
in the ASSUMEs of the component modules: sizes are natural numbers and model
values are distinct from what they are distinguished from, and, where it says
something about the code, what is named below.

**`TaskDispatch_proofs`: the runner.** The invariant `RunnerInv` is `RunnerTypeOK`
with three strengthenings: every container in the queue is in phase "queued",
once, and the run loop's container is the one in its phase; an ID is in the map
exactly when one container of that ID is in a phase that owns an entry
(`EntryOwned`); and the counters are cardinalities of phase sets, which must be
known to be finite, since the constants may be infinite. For the wait group this
is what `QuietAfterRun` rests on (`WaitInv`): `Run` returns when the counter is
zero, so no goroutine is on its way, and none starts after that. One lemma per group
of actions (`AddTaskInv`, `GoroutineInv`, `RunLoopInv`) follows the code's
structure.

**`TaskDispatch_proofs`: the dispatch.** `DispatchInv` adds, for every request ID,
where it can be depending on its owner's state (`OwnerInv`, `RequestInv`): a
first-phase call of an abandoned attempt may be on the wire, but only the current
request of a dispatcher that has started its timer is ever on the wire as a
confirmation, in a reply to one, or in the runner. That last clause is what the
abort guarantee needs: Aborted and NotFound are answered only when the request
did not reach the runner, and each confirmation is handled once.
`ImplementsDispatch` maps every action to a step of `DispatchContract` or to a
stutter: a confirmation that is handled is the launch, and `DispatchInv` says that
the call it belongs to is then at a place where the contract allows one.

**`WorkerSteps_proofs`, `MasterWorkers_proofs`.** `MasterInv` holds for any number
of workers and failovers and any capacity of the queue. None of `NoPanic`,
`BeliefMatches` and `RunningIsCurrent` is inductive, because what they say of an
entry depends on the events about it that still wait. The event in hand and the
queue behind it are taken as one sequence (`Waiting`). `EventOK` says what a
waiting event promises of its entry, of its worker and of what the master
implementation was told, and `MayPrecede` which two events may follow each other:
status updates aside there is one event of each kind about a worker, and the
offline event is the last.
`CreateInv`, `EntryInv` and `WorkerInv` tie the goroutine of `CreateWorker`, the
entry and the worker together, `RecoveryInv` and `SweepInv` cover a manager that
loads its rows and the checker in the middle of a sweep. `FreshAssumption` says
that `CreateWorker` draws a new ID for every worker (`uuidGen.NewString`), so IDs
and entries correspond. `MasterTypeCorrect` is `TypeOK` from the two type
conjuncts of `MasterInv`. `ImplementsCallbacks` goes through the actions one by
one: each maps to a step of `WorkerCallbacks` or to a stutter. Together with
`ImplementsDispatch` the chain is closed: dispatch, worker manager and DM job
master are each proved from what the one below is proved to promise.

**`JobTables_proofs`, `JobWaits_proofs`, `JobManager_proofs`.** The same
manager, now with IDs that are used again, so that several entries share one and
the invariant above does not apply. `TablesInv` relates the three maps, the job
table and the masters of a job; with it `OneMap` and `FailoverComplete` are
inductive. `EventsInv` says of every waiting event, status message and recorded
status that is final that a master of the job has really ended it (`EndedFor`);
a job that leaves the maps because of one has therefore ended in the table or
has rivals, and no step forgets a job (`JobTracked`). `WaitInv` adds which
tombstones there are and who is going to remove them, that what `GetWorkers` has
returned is still true when `Tick` gets to it, and that a worker about to be
reported online is in the manager's map unless its job does not wait for it;
`OnlineHasEntry` and `WaitHasCause` need all of it. `ReleaseInv` says when
`allWorkersReady` may be closed already: the manager is recovering and waits for
nobody. With the states that `EventsInv` gives the entries behind waiting events
it yields `EntriesInOrder`: no late message of an earlier master of the job
makes an entry move out of order, and the channel is closed once.
`JobTypeCorrect` rests on `ManagerRest`, `MainRest` and `QueueRest`, the types
of what the other invariants do not mention.

**`Cluster_proofs`: the election.** `ElectionInv`: no two keys have the same
revision; who serves under a live session holds the oldest key
(`ServiceHoldsKey`); and a key that is gone from etcd is kept only by a campaign
that is not decided and whose session is lost (`GhostsWait`), so that it can not
win. `LeaderUnique` follows because the oldest key is unique. `ViewInv` says that
a server taken for the leader holds the oldest key, and `ClientInv` that the
client is connected to that server or to none except in "connect";
`ForwardsToLeader` is both together.
`ImplementsLeadership` needs one thing more: no action changes the place or the
session of two servers, so one leader can not follow another in one step.

**`Cluster_proofs`: the executors.** `KnownHasCapacity` is inductive once the types
of the maps are known (`MapInv`): `StoreEntryMaps` is for the first half of
`RegisterExec`, `KnownKept` for the steps that give no executor a record it had
not. What makes it so is that a heartbeat never revives a record that was
removed, because it was marked Tombstone first. `TaskInv` strengthens
`PlacedWithData` to the request before it is placed: from `getConstraint` on, the
executor picked is the one on which each of the resources was persisted, and a
resource is persisted once.

**`Cluster_proofs`: the lease of an executor.** `LeaseInv` bounds the next tick by
the last heartbeat (`nextTick <= lastHb + KeepAliveTTL + KeepAliveInterval`, since
a tick is followed by another only while the lease lasts) and ties the times of
the leader's record to the heartbeat the executor counts from, or will when the
answer on its way arrives. With `KeepAliveInterval <= RPCTimeout`
(`LeaseAssumption`; 0.5 s and 3 s by default) the record outlives the tick.

**`Cluster_proofs`: the lease of a worker.** `WLInv` has three parts besides types.
`EpochInv`: epochs only grow along the way from the metastore to the worker to
its pings. `ClockInv` and `CoverInv`: when a ping is accepted, everything on its
way is at most as late as the clock and so covered by the entry; afterwards only
pings with the current epoch can be later, and those are accepted in their turn,
while pongs of earlier masters are ignored. `WatchInv`: the next tick of the
watchdog is at most an interval after the lease, or after the entry's time. With
`WorkerHeartbeatInterval <= WorkerTimeoutGracefulDuration`
(`WorkerLeaseAssumption`; 3 s and 5 s by default) both action properties follow.
The proof uses no order of messages, so it also holds when they overtake each
other.

**`DMJobMaster_proofs`: local files.** `OwnerInv` adds to `OneOwner` that a worker
from the first half of `Persist` on is the one the table names, which holds
because a record is inserted once and a worker does not move. `FilesInv` adds
that a directory a worker persists is on the disk and was made by the worker
itself, and that what is marked is on the disk; it is kept by every step except
`RemoveAll`, which is why it is an invariant of the job master and not of the
brokers alone.

**`DMJobMaster_proofs`: the job master.** `DMInv`, for any tasks, workers and
executors and each of the three modes, has besides types: `UnitInv`, everything
the master learns a unit from (a worker, a checkpoint, a status on its way or in
the books) tells the truth, so a unit is only chosen when its turn has come
(`NoUnitSkipped`); `FilesInv` and `StorageInv`, a worker asks for the resource
of its own task, a load worker is placed only when the table has a record, and
what is marked was persisted by a dump worker (`LoadReadsDump`); `DumpsDone`, a
dump counts as finished only once a worker of the task has gone through both
halves of `Persist`, so the record is that worker's and, with `FilesInv`, the
marked files are on the executor it names (`DumpAvailable`); `BooksInv`, a
handle belongs to the Online worker of the task, which has been reported online
and not gone since, and a master without its job knows no worker (`BooksAgree`).
The framework's part in this is the specification `WorkerCallbacks`, which
`ImplementsCallbacks` shows `MasterWorkers` to implement.

**Only model-checked.** `RunTerminates`, `PendingDrains`, `NoStuckEntry`,
`LedWhileSessionsHold`, `UpIsKnown` and `TaskServed` need fairness, which is out
of the prover's reach. `SizeExact` and `RoundTrip` of the wire format are
checked for the enumerated values of the fields; they are about recursive
operators, and need induction over the data.

## What is not modelled

Outside the two lease modules time is abstracted to nondeterministic expiry and
two masters of one job never overlap. The exit sequence of a worker (half exit,
the pong that acknowledges it) is an exit at any time. The read and the write of
a row by `refreshMetadata` and `markStatusCodeInMetadata` are one step, and so
are the transactions of the metastore clients; `UpdateJob` writes all columns of
a row, which would matter with two masters of one job at once.

Left out because they keep no protocol state: configuration, flags, start of the
embedded etcd and of the gRPC servers, the member list, metrics, the command
line, the deployment and test programs, and the demonstration jobs (CVS, fake).
`Workload`, `GetJobStatuses` and `JobCount` only read. The getters, string
methods and gRPC stubs in `pb/` are as generated and carry no logic; the three
methods that do are modelled for every message.

Left out because nothing calls them, or they are not implemented: `RemoveResource`
and `onExecutorOffline` of the resource manager, `RemoveResource` of the broker,
`PersistResource` of the server (it panics), the update of a running DM job, the
notification of the job manager when an executor goes offline that
`servermaster/README.md` describes.

Left out because they are libraries or I/O seen by the modules as the code that
uses them sees them: SQL and etcd clients (a row exists or not, an epoch grows),
the p2p transport (messages late, lost, repeated), `errctx`, the notifier, the
quota and the worker pool. The message router of a worker is a bounded buffer for
messages from its master, which the DM workers do not act on. The DM units and
their checkpoint tables are another repository's.

## Plan

1. The half exit of a worker and overlapping masters of one job, with the row of
   the job read and written in separate steps.
2. A contract of the leases, as `DispatchContract` is one of the dispatch, from
   which `ExecutorPool` and `WorkerManager` take when an expiry may happen.
