----------------------------- MODULE DMJobMaster -----------------------------
(***************************************************************************)
(* The DM job master (jobmaster/dm) and its dump, load and sync workers    *)
(* (dm/).  A job has tasks, one per upstream source; the worker manager    *)
(* runs the units of a task one after another, each as a new worker.       *)
(*                                                                         *)
(* The module composes what the master is written on: the callbacks the    *)
(* framework promises (WorkerCallbacks, which MasterWorkers implements)    *)
(* and the local files a dump worker leaves to the load worker             *)
(* (ExternalResource).                                                     *)
(***************************************************************************)
EXTENDS ExternalResource, Functions

CONSTANTS
  Task,       \* source IDs
  JobName,
  MaxFaults,  \* bounds the faults of workers, executors and the metastore
  MaxRestarts \* bounds the crashes and restarts of the job master

VARIABLES
  known, proc,  \* of WorkerCallbacks
  jm,           \* the job master process
  first,        \* the framework has no record that InitImpl has succeeded
  mode,         \* TaskMode of the job's configuration
  row, cache,   \* the job in the metastore, and TomlStore.state
  wst,          \* workerStatusMap of the worker manager
  tst,          \* tasks of the task manager: the stage of each
  hd,           \* sendHandles of the message agent
  of,           \* what a worker was created for
  ext,          \* the stage in the last status a worker has sent
  seen,         \* the stage in the worker's status as the master has it
  cp,           \* the units of a task whose checkpoint is not fresh
  done,         \* history: the units of a task that some worker has finished
  faults,
  restarts

bookVars == <<wst, tst, hd>>
jobVars == <<row, cache>>
unitVars == <<of, ext, cp, done>>
dmVars == <<resourceVars, known, proc, jm, first, mode, jobVars, bookVars,
            unitVars, seen, faults, restarts>>

Framework == INSTANCE WorkerCallbacks

workerSeqMap ==
  [all |-> <<"dump", "load", "sync">>, full |-> <<"dump", "load">>,
   incremental |-> <<"sync">>]
workerSeq == workerSeqMap[mode]
Unit == {"dump", "load", "sync"}

WorkerStatus == [id : Worker, unit : Unit, stage : {"Creating", "Online", "Finished", "Offline"}]
Assignment == [task : Task, unit : Unit]
Stage == {"none", "Running", "Paused", "Finished"}

\* NewDMResourceID.
NewDMResourceID(t) == <<JobName, t>>

ASSUME TaskAssumption ==
  /\ Task \subseteq STRING /\ JobName \in STRING
  /\ \A t \in Task : NewDMResourceID(t) \in Resource
  /\ None \notin Task \cup WorkerStatus \cup Assignment

DMTypeOK ==
  /\ ResourceTypeOK /\ Framework!CallbacksTypeOK
  /\ jm \in {"starting", "marking", "running", "failing", "closing", "zombie", "down"}
  /\ first \in BOOLEAN /\ row \in BOOLEAN /\ cache \in BOOLEAN
  /\ mode \in DOMAIN workerSeqMap
  /\ wst \in [Task -> WorkerStatus \cup {None}]
  /\ tst \in [Task -> Stage \cup {"Unscheduled"}]
  /\ hd \in [Task -> Worker \cup {None}]
  /\ of \in [Worker -> Assignment \cup {None}]
  /\ ext \in [Worker -> Stage] /\ seen \in [Worker -> Stage]
  /\ cp \in [Task -> SUBSET Unit] /\ done \in [Task -> SUBSET Unit]
  /\ faults \in 0..MaxFaults /\ restarts \in 0..MaxRestarts

DMInit ==
  /\ ResourceInit
  /\ known = [w \in Worker |-> "unknown"] /\ proc = [w \in Worker |-> "none"]
  /\ jm = "starting" /\ first = TRUE /\ mode \in DOMAIN workerSeqMap
  /\ row = FALSE /\ cache = FALSE
  /\ wst = [t \in Task |-> None] /\ tst = [t \in Task |-> "none"]
  /\ hd = [t \in Task |-> None]
  /\ of = [w \in Worker |-> None]
  /\ ext = [w \in Worker |-> "none"] /\ seen = [w \in Worker |-> "none"]
  /\ cp = [t \in Task |-> {}] /\ done = [t \in Task |-> {}]
  /\ faults = 0 /\ restarts = 0

-----------------------------------------------------------------------------
(* The units of a task.                                                    *)

\* workerIdxInSeq, from 1.
workerIdxInSeq(unit) == CHOOSE i \in DOMAIN workerSeq : workerSeq[i] = unit

\* nextWorkerIdxAndType: the last unit is followed by itself.
nextUnitInSeq(unit) ==
  LET i == workerIdxInSeq(unit) IN
  IF i = Len(workerSeq) THEN unit ELSE workerSeq[i + 1]

getNextUnit(status) ==
  IF status.stage # "Finished" THEN status.unit ELSE nextUnitInSeq(status.unit)

\* Mutant: the unit after the last one with a checkpoint.
getCurrentUnit_After(t) ==
  LET touched == {i \in DOMAIN workerSeq : workerSeq[i] \in cp[t]} IN
  IF touched = {} THEN workerSeq[1]
  ELSE nextUnitInSeq(workerSeq[CHOOSE i \in touched : \A j \in touched : j <= i])

\* The last unit with a checkpoint, or the first of all (IsFresh is true of
\* dump, which has none).
getCurrentUnit(t) ==
  LET touched == {i \in DOMAIN workerSeq : workerSeq[i] \in cp[t]} IN
  IF touched = {} THEN workerSeq[1]
  ELSE workerSeq[CHOOSE i \in touched : \A j \in touched : j <= i]

-----------------------------------------------------------------------------
(* WorkerManager.TickImpl.                                                 *)

Creating(w, unit) == [id |-> w, unit |-> unit, stage |-> "Creating"]

\* Mutant: a creation nobody reports on is waited for.
removeOfflineWorkers_Offline(late) ==
  [t \in Task |-> IF wst[t] # None /\ wst[t].stage = "Offline"
                  THEN None ELSE wst[t]]

\* Statuses of offline workers go, and so do those of the tasks in late:
\* creations that six seconds have passed over (CreateFailed).
removeOfflineWorkers(late) ==
  [t \in Task |-> IF wst[t] # None /\ (wst[t].stage = "Offline" \/ t \in late)
                  THEN None ELSE wst[t]]

MayBeLate == {t \in Task : wst[t] # None /\ wst[t].stage = "Creating"}

\* A creation nobody reports on gets that old for certain: one that has failed
\* or, once CloseImpl has stopped polling, one whose worker has ended.  That
\* another one does before its event comes is a fault.
Aging(late) ==
  IF \A t \in late : \/ proc[wst[t].id] = "never"
                     \/ proc[wst[t].id] = "down" /\ jm = "closing"
  THEN UNCHANGED faults
  ELSE faults < MaxFaults /\ faults' = faults + 1

\* TomlStore.Get reads the metastore when it has no state; got is whether it
\* returns one.  Any error counts as a job that does not exist.
Get(got) ==
  /\ cache => got
  /\ got => cache \/ row
  /\ cache' = got
  /\ UNCHANGED row

\* onJobNotExist: stopWorker fails for a worker without a handle, or when the
\* message is not taken; it removes the status otherwise.  DM workers do
\* nothing with the message.
onJobNotExist(books) ==
  /\ \E refused \in SUBSET Task :
       wst' = [t \in Task |-> IF books[t] # None /\ books[t].id = hd[t] /\ t \notin refused
                              THEN None ELSE books[t]]
  /\ UNCHANGED <<known, proc, of>>

\* checkAndScheduleWorkers' reason to create a worker.
NeedsWorker(books, t) == books[t] = None \/ getNextUnit(books[t]) # books[t].unit
UnitFor(books, t) == IF books[t] = None THEN getCurrentUnit(t) ELSE getNextUnit(books[t])

\* createWorker: refused while the agent has a handle for the task.  S leaves
\* out the tasks whose checkpoint cannot be read or whose creation fails at
\* once.  New IDs are UUIDs, so it does not matter which are taken.
checkAndScheduleWorkers(books) ==
  LET free == {w \in Worker : proc[w] = "none"} IN
  \E S \in SUBSET {t \in Task : NeedsWorker(books, t) /\ hd[t] = None} :
    /\ \E f \in [S -> free] : IsInjective(f)
    /\ LET ids == CHOOSE f \in [S -> free] : IsInjective(f)
           new == {ids[t] : t \in S}
           taskOf(w) == CHOOSE t \in S : ids[t] = w
       IN /\ wst' = [t \in Task |-> IF t \in S THEN Creating(ids[t], UnitFor(books, t))
                                    ELSE books[t]]
          /\ of' = [w \in Worker |->
                     IF w \in new THEN [task |-> taskOf(w), unit |-> UnitFor(books, taskOf(w))]
                     ELSE of[w]]
          /\ IF S = {} THEN UNCHANGED <<known, proc>> ELSE Framework!Create(new)

TickImpl ==
  \E late \in SUBSET MayBeLate, got \in BOOLEAN :
    /\ Aging(late)
    /\ Get(got)
    /\ IF got THEN checkAndScheduleWorkers(removeOfflineWorkers(late))
              ELSE onJobNotExist(removeOfflineWorkers(late))

WorkerTick ==
  /\ jm = "running"
  /\ TickImpl
  /\ UNCHANGED <<resourceVars, jm, first, mode, tst, hd, ext, seen, cp, done, restarts>>

\* TaskManager.TickImpl: messages to workers, which ignore them, and the tasks
\* are forgotten when there is no job.
TaskTick ==
  /\ jm = "running"
  /\ \E got \in BOOLEAN :
       /\ Get(got)
       /\ tst' = IF got THEN tst ELSE [t \in Task |-> "none"]
  /\ UNCHANGED <<resourceVars, known, proc, jm, first, mode, wst, hd, of, ext, seen, cp, done, faults, restarts>>

-----------------------------------------------------------------------------
(* The callbacks, which Poll runs.                                         *)

\* Poll stops at the error of a callback and the job master is closed.
PollFails == jm' = "failing" /\ UNCHANGED bookVars

\* An error of doPoll of the framework's master or worker: the error center, a
\* lost lease.
DoPollFails ==
  /\ jm = "running" /\ faults < MaxFaults
  /\ PollFails /\ faults' = faults + 1
  /\ UNCHANGED <<resourceVars, known, proc, first, mode, jobVars, unitVars, seen, restarts>>

\* removeWorkerStatusByWorkerID.
OnWorkerDispatched(w) ==
  /\ jm = "running" /\ Framework!ReportFailed(w)
  /\ wst' = [t \in Task |-> IF wst[t] # None /\ wst[t].id = w THEN None ELSE wst[t]]
  /\ UNCHANGED <<resourceVars, jm, first, mode, jobVars, tst, hd, unitVars, seen, faults, restarts>>

SetBooks(w, stage, taskStage, handle) ==
  LET t == of[w].task IN
  /\ wst' = [wst EXCEPT ![t] = [id |-> w, unit |-> of[w].unit, stage |-> stage]]
  /\ tst' = [tst EXCEPT ![t] = taskStage]
  /\ hd' = [hd EXCEPT ![t] = handle]
  /\ UNCHANGED jm

\* A status without the task's stage does not decode (UnmarshalTaskStatus).
OnWorkerOnline(w) ==
  /\ jm = "running" /\ Framework!ReportOnline(w)
  /\ IF seen[w] = "none" THEN PollFails
     ELSE SetBooks(w, "Online", seen[w], w)
  /\ UNCHANGED <<resourceVars, first, mode, jobVars, unitVars, seen, faults, restarts>>

\* Mutant: the handle of a finished worker is kept.
OnWorkerOffline_KeepsHandle(w) ==
  /\ jm = "running" /\ proc[w] # "up" /\ Framework!ReportOffline(w)
  /\ \/ seen[w] = "none" /\ PollFails
     \/ seen[w] = "Finished" /\ SetBooks(w, "Finished", "Finished", hd[of[w].task])
     \/ seen[w] \in {"Running", "Paused"} /\ SetBooks(w, "Offline", "Unscheduled", None)
  /\ UNCHANGED <<resourceVars, first, mode, jobVars, unitVars, seen, faults, restarts>>

\* The framework says so only of workers that have stopped or will stop before
\* they start (TimeoutAfterSuicide of WorkerLease).
OnWorkerOffline(w) ==
  /\ jm = "running" /\ proc[w] # "up" /\ Framework!ReportOffline(w)
  /\ \/ seen[w] = "none" /\ PollFails
     \/ seen[w] = "Finished" /\ SetBooks(w, "Finished", "Finished", None)
     \/ seen[w] \in {"Running", "Paused"} /\ SetBooks(w, "Offline", "Unscheduled", None)
  /\ UNCHANGED <<resourceVars, first, mode, jobVars, unitVars, seen, faults, restarts>>

\* The hook of a status event; OnWorkerStatusUpdated does nothing more.
ReceiveStatus(w) ==
  /\ jm = "running" /\ known[w] \in {"creating", "online"}
  /\ seen' = [seen EXCEPT ![w] = ext[w]]
  /\ UNCHANGED <<resourceVars, known, proc, jm, first, mode, jobVars, bookVars, unitVars, faults, restarts>>

-----------------------------------------------------------------------------
(* The life of the job master.                                             *)

\* InitImpl up to the Put of OperateTask(Create).
InitImpl ==
  /\ jm = "starting" /\ first
  /\ jm' = "marking" /\ row' = TRUE /\ cache' = TRUE
  /\ UNCHANGED <<resourceVars, known, proc, first, mode, bookVars, unitVars, seen, faults, restarts>>

\* preCheck, the checkpoint tables or the Put fails.
InitFails ==
  /\ jm = "starting" /\ first
  /\ jm' = "failing"
  /\ UNCHANGED <<resourceVars, known, proc, first, mode, jobVars, bookVars, unitVars, seen, faults, restarts>>

\* markStatusCodeInMetadata of the framework.
MarkInitialized ==
  /\ jm = "marking"
  /\ jm' = "running" /\ first' = FALSE
  /\ UNCHANGED <<resourceVars, known, proc, mode, jobVars, bookVars, unitVars, seen, faults, restarts>>

\* Its write fails, or only the answer is lost.
MarkFails ==
  /\ jm = "marking" /\ faults < MaxFaults
  /\ jm' = "failing" /\ first' \in BOOLEAN /\ faults' = faults + 1
  /\ UNCHANGED <<resourceVars, known, proc, mode, jobVars, bookVars, unitVars, seen, restarts>>

\* createComponents asks the statuses of the online workers for their tasks.
\* The metastore, which the framework has read them from, has none with a stage
\* (StatusPersisted of MasterWorkers), so the first online worker fails it;
\* Close then runs into the task manager that was not made, and the process
\* dies.
OnMasterRecovered ==
  /\ jm = "starting" /\ ~first
  /\ Framework!Recover
  /\ jm' = IF \E w \in Worker : known'[w] = "online" THEN "down" ELSE "running"
  /\ UNCHANGED <<resourceVars, first, mode, jobVars, bookVars, unitVars, seen, faults, restarts>>

\* CloseImpl's OperateTask(Delete): TomlStore.Delete looks at its own state.
CloseImpl ==
  /\ jm = "failing"
  /\ jm' = "closing"
  /\ row' = (row /\ ~cache) /\ cache' = FALSE
  /\ UNCHANGED <<resourceVars, known, proc, first, mode, bookVars, unitVars, seen, faults, restarts>>

\* The Delete fails: Close returns before doClose, which would end the
\* heartbeats to the job manager.
CloseFails ==
  /\ jm = "failing" /\ cache /\ faults < MaxFaults
  /\ jm' = "zombie" /\ faults' = faults + 1
  /\ UNCHANGED <<resourceVars, known, proc, first, mode, jobVars, bookVars, unitVars, seen, restarts>>

\* One round of CloseImpl's loop; checkpointAgent.Remove may fail.
CloseRound ==
  /\ jm = "closing"
  /\ TickImpl
  /\ IF \A t \in Task : wst'[t] = None
     THEN /\ jm' = "down"
          /\ cp' \in {cp, [t \in Task |-> {}]}
     ELSE UNCHANGED <<jm, cp>>
  /\ UNCHANGED <<resourceVars, first, mode, tst, hd, ext, seen, done, restarts>>

\* The executor of the job master dies.
CrashMaster ==
  /\ jm # "down" /\ restarts < MaxRestarts
  /\ jm' = "down"
  /\ UNCHANGED <<resourceVars, known, proc, first, mode, jobVars, bookVars, unitVars, seen, faults, restarts>>

\* The job manager starts it again.
Restart ==
  /\ jm = "down" /\ restarts < MaxRestarts
  /\ jm' = "starting" /\ restarts' = restarts + 1
  /\ Framework!Failover
  /\ cache' = FALSE
  /\ wst' = [t \in Task |-> None] /\ tst' = [t \in Task |-> "none"]
  /\ hd' = [t \in Task |-> None] /\ seen' = [w \in Worker |-> "none"]
  /\ UNCHANGED <<resourceVars, first, mode, row, unitVars, faults>>

-----------------------------------------------------------------------------
(* The workers.                                                            *)

masterVars == <<jm, first, mode, jobVars, bookVars, seen, restarts>>

\* The scheduler puts the worker of a later unit where the task's resource is
\* (PlacedWithData of ExecutorPool).
StartWorker(w, e) ==
  LET m == meta[NewDMResourceID(of[w].task)] IN
  /\ known[w] # "gone" /\ Framework!Start({w}) /\ Place(w, e)
  /\ workerIdxInSeq(of[w].unit) # 1 => m # None /\ m.exec = e
  /\ UNCHANGED <<masterVars, unitVars, faults>>

AbandonWorker(w) ==
  /\ Framework!Abandon({w})
  /\ UNCHANGED <<resourceVars, masterVars, unitVars, faults>>

UsesStorage(w) == of[w].unit \in {"dump", "load"}

\* OpenStorage in the InitImpl of the dump and load workers.
OpenStorage(w) ==
  /\ proc[w] = "up" /\ UsesStorage(w)
  /\ \/ QueryResource(w, NewDMResourceID(of[w].task))
     \/ OpenFails(w) \/ CreateDirectory(w) \/ GetPersistedResource(w)
  /\ UNCHANGED <<known, proc, masterVars, unitVars, faults>>

Initialized(w) ==
  /\ proc[w] = "up"
  /\ UsesStorage(w) => storage[w].at \in {"open", "stored", "kept"}

StopWorker(w, stage) ==
  /\ Framework!Stop({w})
  /\ ext' = [ext EXCEPT ![w] = stage]
  /\ UNCHANGED <<resourceVars, masterVars, of, cp>>

\* InitImpl has failed.
InitWorkerFails(w) ==
  /\ proc[w] = "up" /\ storage[w].at = "failed"
  /\ StopWorker(w, ext[w]) /\ UNCHANGED <<done, faults>>

\* tryUpdateStatus without a result, for the first time or after a resume.
SendRunning(w) ==
  /\ Initialized(w) /\ ext[w] # "Running"
  /\ ext' = [ext EXCEPT ![w] = "Running"]
  /\ UNCHANGED <<resourceVars, known, proc, masterVars, of, cp, done, faults>>

\* A first error the unit may resume from.
SendPaused(w) ==
  /\ Initialized(w) /\ ext[w] # "Paused" /\ faults < MaxFaults
  /\ ext' = [ext EXCEPT ![w] = "Paused"]
  /\ faults' = faults + 1
  /\ UNCHANGED <<resourceVars, known, proc, masterVars, of, cp, done>>

\* The unit writes its checkpoint.
Checkpoint(w) ==
  LET t == of[w].task IN
  /\ Initialized(w) /\ of[w].unit \in {"load", "sync"} \ cp[t]
  /\ cp' = [cp EXCEPT ![t] = @ \cup {of[w].unit}]
  /\ UNCHANGED <<resourceVars, known, proc, masterVars, of, ext, done, faults>>

\* Persist of the dump worker, tried again at each tick until it succeeds.
PersistDump(w) ==
  /\ Initialized(w) /\ of[w].unit = "dump"
  /\ CreateResource(w) \/ CreateResourceLost(w) \/ SetPersisted(w)
  /\ UNCHANGED <<known, proc, masterVars, unitVars, faults>>

\* Mutant: the dump counts as persisted once the table has its record.
MayFinish_Recorded(w) ==
  \/ of[w].unit = "dump" /\ storage[w].at \in {"stored", "kept"}
  \/ of[w].unit = "load" /\ "load" \in cp[of[w].task]

\* The unit ends without an error, and the dump is persisted.
MayFinish(w) ==
  \/ of[w].unit = "dump" /\ storage[w].at = "kept"
  \/ of[w].unit = "load" /\ "load" \in cp[of[w].task]

\* Exit with WorkerStatusFinished.
Finish(w) ==
  /\ Initialized(w) /\ MayFinish(w)
  /\ done' = [done EXCEPT ![of[w].task] = @ \cup {of[w].unit}]
  /\ StopWorker(w, "Finished") /\ UNCHANGED faults

\* Exit with an error, or the end of the process without a word.
FailWorker(w) ==
  /\ Initialized(w) /\ faults < MaxFaults
  /\ faults' = faults + 1
  /\ StopWorker(w, "Paused") \/ StopWorker(w, ext[w])
  /\ UNCHANGED done

LoseExecutorAndWorkers(e) ==
  LET dead == {w \in Worker : proc[w] = "up" /\ home[w] = e} IN
  /\ faults < MaxFaults /\ faults' = faults + 1
  /\ LoseExecutor(e)
  /\ IF dead = {} THEN UNCHANGED <<known, proc>> ELSE Framework!Stop(dead)
  /\ UNCHANGED <<masterVars, unitVars>>

-----------------------------------------------------------------------------
MasterStep ==
  \/ InitImpl \/ InitFails \/ MarkInitialized \/ OnMasterRecovered
  \/ WorkerTick \/ TaskTick
  \/ CloseImpl \/ CloseFails \/ CloseRound
  \/ \E w \in Worker : \/ OnWorkerDispatched(w) \/ OnWorkerOnline(w)
                       \/ OnWorkerOffline(w) \/ ReceiveStatus(w)

WorkerStep ==
  \E w \in Worker : of[w] # None /\
    (\/ AbandonWorker(w) \/ \E e \in Exec : StartWorker(w, e)
     \/ OpenStorage(w) \/ InitWorkerFails(w) \/ SendRunning(w)
     \/ Checkpoint(w) \/ PersistDump(w) \/ Finish(w))

Fault ==
  \/ CrashMaster \/ Restart \/ DoPollFails \/ MarkFails
  \/ \E w \in Worker : of[w] # None /\ (SendPaused(w) \/ FailWorker(w))
  \/ \E e \in Exec : LoseExecutorAndWorkers(e)

DMNext == MasterStep \/ WorkerStep \/ Fault

\* The ticks of the master's main loop and of its Close, and the event the
\* framework delivers of a worker that has run.  A creation may fail without
\* any event.
MasterFairness ==
  /\ WF_dmVars(InitImpl) /\ WF_dmVars(MarkInitialized)
  /\ WF_dmVars(WorkerTick) /\ WF_dmVars(CloseImpl \/ CloseFails) /\ WF_dmVars(CloseRound)
  /\ \A w \in Worker : WF_dmVars(proc[w] = "down" /\ OnWorkerOffline(w))

DMSpec == DMInit /\ [][DMNext]_dmVars
DMFairSpec == DMSpec /\ MasterFairness

-----------------------------------------------------------------------------
(* Properties.                                                             *)

\* The worker manager and the message agent do not contradict each other: a
\* worker that is Online can be sent to, and while the job exists a handle
\* belongs to the task's Online worker, even if an old worker of the task is
\* heard of late.  A handle left behind would refuse every later worker.
BooksAgree ==
  \A t \in Task :
    /\ wst[t] # None /\ wst[t].stage = "Online" => hd[t] = wst[t].id /\ tst[t] # "Unscheduled"
    /\ jm = "running" /\ hd[t] # None /\ cache
         => wst[t] # None /\ wst[t].id = hd[t] /\ wst[t].stage = "Online"

\* A unit is started only after some worker has finished the unit before it,
\* whatever statuses were lost, late or from an earlier master.
NoUnitSkipped ==
  \A w \in Worker : of[w] # None =>
    LET i == workerIdxInSeq(of[w].unit) IN
    i > 1 => workerSeq[i - 1] \in done[of[w].task]

\* A load worker reads the files of a dump worker that has finished, never an
\* empty directory of its own, which would load nothing and succeed.
LoadReadsDump ==
  \A w \in Worker :
    of[w] # None /\ of[w].unit = "load" /\ storage[w].at \in {"open", "stored", "kept"}
      => LET c == storage[w].creator IN
         ~storage[w].new /\ of[c] = [task |-> of[w].task, unit |-> "dump"]
           /\ storage[c].at = "kept"

\* When a dump counts as finished its files can be read where the next unit is
\* placed: the table names an executor, and unless that has crashed the files
\* are on its disk and its broker will open them (GetPersistedResource), with
\* whichever answers of Persist were lost and whoever else dumps the task.
DumpAvailable ==
  \A t \in Task : "dump" \in done[t] =>
    LET r == NewDMResourceID(t)
        m == meta[r]
    IN /\ m # None
       /\ m.exec \in up =>
            [exec |-> m.exec, creator |-> m.worker, name |-> r] \in dirs \cap persisted

\* "wait all worker offline" (CloseImpl): once no worker runs or will run, the
\* loop of CloseImpl comes to its end.
CloseEnds ==
  [](jm = "closing" => <>(jm # "closing" \/ \E w \in Worker : proc[w] \in {"up", "pending"}))

\* While the master runs and has its job, a task is not left without a worker:
\* again and again it has one that is up or about to be, or its last unit is
\* finished, or the model has no worker left to create.  A creation that fails
\* in silence (PreDispatchTask) is found by its age.
TaskServed ==
  \A t \in Task :
    <>[](jm = "running" /\ row) =>
      []<>(\/ \E w \in Worker : of[w] # None /\ of[w].task = t /\ proc[w] \in {"pending", "up"}
           \/ workerSeq[Len(workerSeq)] \in done[t]
           \/ \A w \in Worker : proc[w] # "none")
=============================================================================
