----------------------------- MODULE TaskRunner -----------------------------
(***************************************************************************)
(* The executor's TaskRunner (executor/worker/task_runner.go) and the      *)
(* RunnableContainer it runs (executor/worker/internal/runnables.go).      *)
(*                                                                         *)
(* One goroutine, Run, takes containers from a bounded queue and launches  *)
(* each in a goroutine of its own; a weighted semaphore bounds how many    *)
(* tasks may be inside Init at once.  A container is one submission of a   *)
(* task; several containers may carry the same task ID, because a job      *)
(* master is dispatched again under its old ID after a failover.           *)
(***************************************************************************)
EXTENDS Naturals, Sequences, FiniteSets

CONSTANTS
  Task,             \* the RunnableIDs
  Container,        \* the RunnableContainers, one per submission
  TaskOf,           \* the RunnableID of each container
  NoContainer,      \* absent entry of the tasks map
  InQueueSize,      \* capacity of inQueue
  InitConcurrency   \* weight of initQuotaSema

ASSUME RunnerAssumption ==
  /\ TaskOf \in [Container -> Task]
  /\ NoContainer \notin Container
  /\ InQueueSize \in Nat \ {0}
  /\ InitConcurrency \in Nat \ {0}

VARIABLES
  inQueue,     \* TaskRunner.inQueue
  runPC,       \* where Run is: in its select, acquiring the semaphore for
               \* the container it took, in wg.Wait, or returned
  current,     \* the container onNewTask is working on
  ctxDone,     \* the context given to Run is cancelled
  sema,        \* units of initQuotaSema that are held
  tasks,       \* TaskRunner.tasks
  canceled,    \* TaskRunner.canceled
  taskCount,   \* TaskRunner.taskCount
  wg,          \* the counter of TaskRunner.wg
  phase,       \* progress of each container's goroutine
  status,      \* RunnableContainer.status
  cancelledTasks \* containers whose taskEntry.cancel has been called

runnerVars == <<inQueue, runPC, current, ctxDone, sema, tasks, canceled,
                taskCount, wg, phase, status, cancelledTasks>>

\* "new", "queued" and "dropped" are containers without a goroutine: never
\* accepted by addWrappedTask, not yet launched, refused by onNewTask.
Phases == {"new", "queued", "dropped", "init", "loop", "close", "stopped",
           "deleted", "uncounted", "exited"}

\* A goroutine that has been started and has not yet removed its map entry.
InMap == {"init", "loop", "close", "stopped"}

\* One that has not yet called taskCount.Dec, and not yet wg.Done.
Unfinished == InMap \cup {"deleted"}
Waited == Unfinished \cup {"uncounted"}

At(ph) == {c \in Container : phase[c] \in ph}

RunnerTypeOK ==
  /\ inQueue \in Seq(Container)
  /\ Len(inQueue) <= InQueueSize
  /\ runPC \in {"select", "acquire", "wait", "returned"}
  /\ current \in Container \cup {NoContainer}
  /\ ctxDone \in BOOLEAN
  /\ sema \in 0 .. InitConcurrency
  /\ tasks \in [Task -> Container \cup {NoContainer}]
  /\ canceled \in BOOLEAN
  /\ taskCount \in Nat /\ wg \in Nat
  /\ phase \in [Container -> Phases]
  /\ status \in [Container -> {"Submitted", "Running", "Closing"}]
  /\ cancelledTasks \subseteq Container

RunnerInit ==
  /\ inQueue = <<>>
  /\ runPC = "select"
  /\ current = NoContainer
  /\ ctxDone = FALSE
  /\ sema = 0
  /\ tasks = [t \in Task |-> NoContainer]
  /\ canceled = FALSE
  /\ taskCount = 0 /\ wg = 0
  /\ phase = [c \in Container |-> "new"]
  /\ status = [c \in Container |-> "Submitted"]
  /\ cancelledTasks = {}

-----------------------------------------------------------------------------
\* addWrappedTask: a non-blocking send; a full queue is an error to the caller.
QueueFull == Len(inQueue) = InQueueSize

AddWrappedTask(c) ==
  /\ ~QueueFull
  /\ inQueue' = Append(inQueue, c)
  /\ phase' = [phase EXCEPT ![c] = "queued"]
  /\ UNCHANGED <<runPC, current, ctxDone, sema, tasks, canceled, taskCount, wg,
                 status, cancelledTasks>>

\* AddTask wraps the Runnable in a new container and enqueues it.
AddTask(c) == phase[c] = "new" /\ AddWrappedTask(c)

\* The executor's context is cancelled.
CancelContext ==
  /\ ~ctxDone
  /\ ctxDone' = TRUE
  /\ UNCHANGED <<inQueue, runPC, current, sema, tasks, canceled, taskCount, wg,
                 phase, status, cancelledTasks>>

\* Run receives a container and enters onNewTask.
RunReceive ==
  /\ runPC = "select" /\ inQueue # <<>>
  /\ current' = Head(inQueue)
  /\ inQueue' = Tail(inQueue)
  /\ runPC' = "acquire"
  /\ UNCHANGED <<ctxDone, sema, tasks, canceled, taskCount, wg, phase, status,
                 cancelledTasks>>

\* Mutant: wg.Add is left to the goroutine, which has not come that far.
StartGoroutine_AddsLater ==
  /\ sema' = sema + 1
  /\ tasks' = [tasks EXCEPT ![TaskOf[current]] = current]
  /\ taskCount' = taskCount + 1
  /\ UNCHANGED wg
  /\ phase' = [phase EXCEPT ![current] = "init"]

\* What OnNewTask does when it launches the current container.
StartGoroutine ==
  /\ sema' = sema + 1
  /\ tasks' = [tasks EXCEPT ![TaskOf[current]] = current]
  /\ taskCount' = taskCount + 1
  /\ wg' = wg + 1
  /\ phase' = [phase EXCEPT ![current] = "init"]

Refuse ==
  /\ phase' = [phase EXCEPT ![current] = "dropped"]
  /\ UNCHANGED <<sema, tasks, taskCount, wg>>

OnNewTaskEnds ==
  /\ runPC' = "select"
  /\ current' = NoContainer
  /\ UNCHANGED <<inQueue, ctxDone, canceled, status, cancelledTasks>>

\* Mutants: a running task of the same ID is overwritten; the task count also
\* counts refused tasks.
OnNewTask_Overwrites ==
  /\ runPC = "acquire" /\ sema < InitConcurrency
  /\ IF canceled
     THEN Refuse
     ELSE StartGoroutine
  /\ OnNewTaskEnds

OnNewTask_CountsRefused ==
  /\ runPC = "acquire" /\ sema < InitConcurrency
  /\ IF canceled \/ tasks[TaskOf[current]] # NoContainer
     THEN /\ phase' = [phase EXCEPT ![current] = "dropped"]
          /\ taskCount' = taskCount + 1
          /\ UNCHANGED <<sema, tasks, wg>>
     ELSE StartGoroutine
  /\ OnNewTaskEnds

\* onNewTask, once Acquire has returned without error: a closed runner and a
\* duplicate task ID are errors after which the deferred function releases the
\* unit; otherwise the entry is stored and the goroutine started.
OnNewTask ==
  /\ runPC = "acquire" /\ sema < InitConcurrency
  /\ IF canceled \/ tasks[TaskOf[current]] # NoContainer
     THEN Refuse
     ELSE StartGoroutine
  /\ OnNewTaskEnds

\* onNewTask, when Acquire has to wait and gives up: after
\* defaultInitQueuingTimeout, or because the context is cancelled.
OnNewTaskTimeout ==
  /\ runPC = "acquire" /\ sema = InitConcurrency
  /\ Refuse
  /\ OnNewTaskEnds

\* Mutant: the tasks in the map are not cancelled.
CancelAll_TellsNobody ==
  /\ runPC = "select" /\ ctxDone
  /\ canceled' = TRUE
  /\ runPC' = "wait"
  /\ UNCHANGED <<inQueue, current, ctxDone, sema, tasks, taskCount, wg, phase,
                 status, cancelledTasks>>

\* Run sees its context cancelled; the deferred cancelAll cancels every task
\* in the map and then waits for the goroutines.
CancelAll ==
  /\ runPC = "select" /\ ctxDone
  /\ canceled' = TRUE
  /\ cancelledTasks' =
       cancelledTasks \cup {c \in Container : tasks[TaskOf[c]] = c}
  /\ runPC' = "wait"
  /\ UNCHANGED <<inQueue, current, ctxDone, sema, tasks, taskCount, wg, phase,
                 status>>

\* wg.Wait returns when the counter is zero.
RunReturn ==
  /\ runPC = "wait" /\ wg = 0
  /\ runPC' = "returned"
  /\ UNCHANGED <<inQueue, current, ctxDone, sema, tasks, canceled, taskCount, wg,
                 phase, status, cancelledTasks>>

\* runInit: Init succeeds, OnInitialized swaps the status, the deferred
\* function releases the semaphore.
TaskInitialized(c) ==
  /\ phase[c] = "init"
  /\ sema' = sema - 1
  /\ status' = [status EXCEPT ![c] = "Running"]
  /\ phase' = [phase EXCEPT ![c] = "loop"]
  /\ UNCHANGED <<inQueue, runPC, current, ctxDone, tasks, canceled, taskCount, wg,
                 cancelledTasks>>

\* Mutant: the error path keeps its unit.
TaskInitFailed_KeepsUnit(c) ==
  /\ phase[c] = "init"
  /\ phase' = [phase EXCEPT ![c] = "close"]
  /\ UNCHANGED <<inQueue, runPC, current, ctxDone, sema, tasks, canceled,
                 taskCount, wg, status, cancelledTasks>>

\* runInit: Init returns an error or panics; the unit is released as well.
TaskInitFailed(c) ==
  /\ phase[c] = "init"
  /\ sema' = sema - 1
  /\ phase' = [phase EXCEPT ![c] = "close"]
  /\ UNCHANGED <<inQueue, runPC, current, ctxDone, tasks, canceled, taskCount, wg,
                 status, cancelledTasks>>

\* EventLoop returns: Poll returned an error, or the task's context is done.
EventLoopReturn(c) ==
  /\ phase[c] = "loop"
  /\ phase' = [phase EXCEPT ![c] = "close"]
  /\ UNCHANGED <<inQueue, runPC, current, ctxDone, sema, tasks, canceled,
                 taskCount, wg, status, cancelledTasks>>

\* The deferred function: Close, then OnStopped.
TaskClose(c) ==
  /\ phase[c] = "close"
  /\ status' = [status EXCEPT ![c] = "Closing"]
  /\ phase' = [phase EXCEPT ![c] = "stopped"]
  /\ UNCHANGED <<inQueue, runPC, current, ctxDone, sema, tasks, canceled,
                 taskCount, wg, cancelledTasks>>

\* tasks.LoadAndDelete, by task ID.
TaskDelete(c) ==
  /\ phase[c] = "stopped"
  /\ tasks' = [tasks EXCEPT ![TaskOf[c]] = NoContainer]
  /\ phase' = [phase EXCEPT ![c] = "deleted"]
  /\ UNCHANGED <<inQueue, runPC, current, ctxDone, sema, canceled, taskCount, wg,
                 status, cancelledTasks>>

\* The outer deferred calls: taskCount.Dec.
TaskCountDec(c) ==
  /\ phase[c] = "deleted"
  /\ taskCount' = taskCount - 1
  /\ phase' = [phase EXCEPT ![c] = "uncounted"]
  /\ UNCHANGED <<inQueue, runPC, current, ctxDone, sema, tasks, canceled, wg,
                 status, cancelledTasks>>

\* And wg.Done, the first to be deferred.
TaskExit(c) ==
  /\ phase[c] = "uncounted"
  /\ wg' = wg - 1
  /\ phase' = [phase EXCEPT ![c] = "exited"]
  /\ UNCHANGED <<inQueue, runPC, current, ctxDone, sema, tasks, canceled,
                 taskCount, status, cancelledTasks>>

RunLoop == RunReceive \/ OnNewTask \/ OnNewTaskTimeout \/ CancelAll \/ RunReturn

Goroutine(c) ==
  \/ TaskInitialized(c) \/ TaskInitFailed(c) \/ EventLoopReturn(c)
  \/ TaskClose(c) \/ TaskDelete(c) \/ TaskCountDec(c) \/ TaskExit(c)

\* Every step of the runner that no caller takes.
RunnerStep == CancelContext \/ RunLoop \/ \E c \in Container : Goroutine(c)

RunnerNext == RunnerStep \/ \E c \in Container : AddTask(c)

\* The steps a goroutine must take: a task may run for ever, but Init and Close
\* return, and EventLoop returns once its context is cancelled.
GoroutineProgress(c) ==
  \/ TaskInitialized(c) \/ TaskInitFailed(c) \/ TaskClose(c) \/ TaskDelete(c)
  \/ TaskCountDec(c) \/ TaskExit(c) \/ (c \in cancelledTasks /\ EventLoopReturn(c))

RunnerFairness ==
  /\ WF_runnerVars(RunLoop)
  /\ \A c \in Container : WF_runnerVars(GoroutineProgress(c))

RunnerSpec == RunnerInit /\ [][RunnerNext]_runnerVars /\ RunnerFairness

-----------------------------------------------------------------------------
(***************************************************************************)
(* Properties                                                              *)
(***************************************************************************)
\* A goroutine that has not yet left the tasks map owns the entry of its task
\* ID, and every entry belongs to such a goroutine.  So LoadAndDelete never
\* removes another submission's entry, the "Task does not exist" panic is
\* unreachable, and one executor never runs two instances of one task.
EntryOwned ==
  /\ \A c \in Container : phase[c] \in InMap => tasks[TaskOf[c]] = c
  /\ \A t \in Task : tasks[t] # NoContainer =>
       TaskOf[tasks[t]] = t /\ phase[tasks[t]] \in InMap

\* initQuotaSema is held exactly by the tasks inside Init: no failed, refused
\* or duplicate launch leaks a unit or releases one twice.
QuotaHeldByInit == sema = Cardinality(At({"init"}))

\* TaskCount, which the executor reports, counts the goroutines that have not
\* finished, whatever path each of them took.
CountMatches == taskCount = Cardinality(At(Unfinished))

\* OnInitialized finds the container submitted and OnStopped finds it submitted
\* or running: neither "unexpected status" panic is reachable.
StatusInPhase ==
  \A c \in Container :
    /\ phase[c] = "init" => status[c] = "Submitted"
    /\ phase[c] = "close" => status[c] \in {"Submitted", "Running"}

\* Run waits on a counter that onNewTask and the goroutines keep, each on its
\* own path.  When it has returned, every goroutine is at its end, the map is
\* empty, no unit of the semaphore is held and none is counted as a task.
QuietAfterRun ==
  runPC = "returned" =>
    /\ canceled /\ At(Waited) = {}
    /\ \A t \in Task : tasks[t] = NoContainer
    /\ sema = 0 /\ taskCount = 0

\* A cancelled runner stops: every task is told, every goroutine exits and Run
\* returns, although tasks may be queued, initialising or failing meanwhile.
RunTerminates == ctxDone ~> runPC = "returned"
=============================================================================
