---------------------------- MODULE TaskDispatch ----------------------------
(***************************************************************************)
(* Two-phase task dispatch, end to end: the TaskDispatcher of a master     *)
(* (client/task_dispatcher.go), the gRPC handlers of an executor           *)
(* (executor/server.go) and the executor's TaskCommitter and TaskRunner.   *)
(*                                                                         *)
(* Each member of Dispatch is one call of DispatchTask.  Calls travel over *)
(* an unreliable transport: a call may never reach the handler, may reach  *)
(* it after its caller has given up, and its reply may be lost.  A handler *)
(* runs at most once per call.                                             *)
(***************************************************************************)
EXTENDS TaskCommitter

CONSTANTS
  Dispatch,     \* the calls of DispatchTask
  WorkerOf,     \* the worker ID each of them dispatches
  NoDispatch

ASSUME DispatchAssumption ==
  /\ WorkerOf \in [Dispatch -> Task]
  /\ NoDispatch \notin Dispatch

VARIABLES
  dpc,       \* where each DispatchTask call is
  requestID, \* the request ID it uses at present
  owner,     \* the call that generated each request ID
  timer,     \* calls whose startWorkerTimer callback has run
  calls,     \* calls on the wire: <<method, request ID>>
  replies    \* replies on the wire: <<method, request ID, code>>

dispatchVars == <<dpc, requestID, owner, timer, calls, replies>>
vars == <<runnerVars, committerVars, dispatchVars>>

Methods == {"pre", "confirm"}
Codes == {"OK", "Aborted", "NotFound"}
\* "success" and "undetermined" are both returned to the caller as nil.
Ended == {"preFailed", "aborted", "success", "undetermined", "crashed"}
DispatchStates == {"start", "pre", "backoff", "timer", "confirm"} \cup Ended

DispatchTypeOK ==
  /\ dpc \in [Dispatch -> DispatchStates]
  /\ requestID \in [Dispatch -> Container \cup {NoContainer}]
  /\ owner \in [Container -> Dispatch \cup {NoDispatch}]
  /\ timer \subseteq Dispatch
  /\ calls \subseteq Methods \X Container
  /\ replies \subseteq Methods \X Container \X Codes

TypeOK == RunnerTypeOK /\ CommitterTypeOK /\ DispatchTypeOK

Init ==
  /\ RunnerInit
  /\ CommitterInit
  /\ dpc = [d \in Dispatch |-> "start"]
  /\ requestID = [d \in Dispatch |-> NoContainer]
  /\ owner = [r \in Container |-> NoDispatch]
  /\ timer = {}
  /\ calls = {}
  /\ replies = {}

-----------------------------------------------------------------------------
(* The dispatcher.                                                         *)

\* Mutant: a retry uses the request ID of the attempt before it.
SendPreDispatch_ReusesID(d, r) ==
  /\ dpc[d] \in {"start", "backoff"}
  /\ TaskOf[r] = WorkerOf[d]
  /\ IF dpc[d] = "backoff" THEN r = requestID[d] ELSE owner[r] = NoDispatch
  /\ owner' = [owner EXCEPT ![r] = d]
  /\ requestID' = [requestID EXCEPT ![d] = r]
  /\ calls' = calls \cup {<<"pre", r>>}
  /\ dpc' = [dpc EXCEPT ![d] = "pre"]
  /\ UNCHANGED <<runnerVars, committerVars, timer, replies>>

\* preDispatchTaskOnce: a request ID nobody has used (a UUID) and the call.
SendPreDispatch(d, r) ==
  /\ dpc[d] \in {"start", "backoff"}
  /\ owner[r] = NoDispatch /\ TaskOf[r] = WorkerOf[d]
  /\ owner' = [owner EXCEPT ![r] = d]
  /\ requestID' = [requestID EXCEPT ![d] = r]
  /\ calls' = calls \cup {<<"pre", r>>}
  /\ dpc' = [dpc EXCEPT ![d] = "pre"]
  /\ UNCHANGED <<runnerVars, committerVars, timer, replies>>

\* The reply to PreDispatchTask: go on, or give up when the server aborted.
PreDispatchReply(d) ==
  /\ dpc[d] = "pre"
  /\ \E code \in {"OK", "Aborted"} :
       /\ <<"pre", requestID[d], code>> \in replies
       /\ dpc' = [dpc EXCEPT ![d] = IF code = "OK" THEN "timer" ELSE "preFailed"]
  /\ UNCHANGED <<runnerVars, committerVars, requestID, owner, timer, calls,
                 replies>>

\* PreDispatchTask fails in gRPC or on the network: it is retried after
\* retryInterval, unless the error is not a gRPC one or the deadline is near.
PreDispatchError(d) ==
  /\ dpc[d] = "pre"
  /\ dpc' \in {[dpc EXCEPT ![d] = "backoff"], [dpc EXCEPT ![d] = "preFailed"]}
  /\ UNCHANGED <<runnerVars, committerVars, requestID, owner, timer, calls,
                 replies>>

\* The context is done before the first attempt or while waiting to retry.
PreDispatchGiveUp(d) ==
  /\ dpc[d] \in {"start", "backoff"}
  /\ dpc' = [dpc EXCEPT ![d] = "preFailed"]
  /\ UNCHANGED <<runnerVars, committerVars, requestID, owner, timer, calls,
                 replies>>

\* Mutant: the timer is not started before the call.
SendConfirm_NoTimer(d) ==
  /\ dpc[d] = "timer"
  /\ calls' = calls \cup {<<"confirm", requestID[d]>>}
  /\ dpc' = [dpc EXCEPT ![d] = "confirm"]
  /\ UNCHANGED <<runnerVars, committerVars, requestID, owner, timer, replies>>

\* startWorkerTimer(), then confirmDispatchTask sends its call.
SendConfirm(d) ==
  /\ dpc[d] = "timer"
  /\ timer' = timer \cup {d}
  /\ calls' = calls \cup {<<"confirm", requestID[d]>>}
  /\ dpc' = [dpc EXCEPT ![d] = "confirm"]
  /\ UNCHANGED <<runnerVars, committerVars, requestID, owner, replies>>

\* The reply to ConfirmDispatchTask.  Aborted and NotFound are guaranteed
\* failures: abortWorker is called.
ConfirmReply(d) ==
  /\ dpc[d] = "confirm"
  /\ \E code \in Codes :
       /\ <<"confirm", requestID[d], code>> \in replies
       /\ dpc' = [dpc EXCEPT ![d] =
                   IF code = "OK" THEN "success" ELSE "aborted"]
  /\ UNCHANGED <<runnerVars, committerVars, requestID, owner, timer, calls,
                 replies>>

\* Mutants: a lost reply is taken for a failure; it is retried from the start.
ConfirmError_Aborts(d) ==
  /\ dpc[d] = "confirm"
  /\ dpc' = [dpc EXCEPT ![d] = "aborted"]
  /\ UNCHANGED <<runnerVars, committerVars, requestID, owner, timer, calls,
                 replies>>

ConfirmError_Retries(d) ==
  /\ dpc[d] = "confirm"
  /\ dpc' = [dpc EXCEPT ![d] = "backoff"]
  /\ UNCHANGED <<runnerVars, committerVars, requestID, owner, timer, calls,
                 replies>>

\* ConfirmDispatchTask fails in gRPC or on the network, or the context is done:
\* the outcome is undetermined and treated as success.
ConfirmError(d) ==
  /\ dpc[d] = "confirm"
  /\ dpc' = [dpc EXCEPT ![d] = "undetermined"]
  /\ UNCHANGED <<runnerVars, committerVars, requestID, owner, timer, calls,
                 replies>>

\* The master that runs the dispatcher dies.
DispatcherCrash(d) ==
  /\ dpc[d] \notin Ended
  /\ dpc' = [dpc EXCEPT ![d] = "crashed"]
  /\ UNCHANGED <<runnerVars, committerVars, requestID, owner, timer, calls,
                 replies>>

-----------------------------------------------------------------------------
(* The executor's gRPC handlers.                                           *)

Answer(m, r, code) ==
  /\ <<m, r>> \in calls
  /\ calls' = calls \ {<<m, r>>}
  /\ replies' = replies \cup {<<m, r, code>>}
  /\ UNCHANGED <<dpc, requestID, owner, timer>>

\* Server.PreDispatchTask: makeTask may fail; otherwise the committer takes the
\* request.  (It answers AlreadyExists to a request that is pending, which
\* NoDuplicateRequest shows never happens.)
HandlePreDispatch(r) ==
  \/ Answer("pre", r, "Aborted") /\ UNCHANGED <<runnerVars, committerVars>>
  \/ Answer("pre", r, "OK") /\ PreDispatchTask(r)

\* Mutant: the boolean result of ConfirmDispatchTask is ignored.
HandleConfirm_IgnoresUnknown(r) ==
  \/ Answer("confirm", r, "OK") /\ ConfirmNotFound(r)
  \/ Answer("confirm", r, "Aborted") /\ ConfirmRefused(r)
  \/ Answer("confirm", r, "OK") /\ ConfirmAccepted(r)

\* Server.ConfirmDispatchTask.
HandleConfirm(r) ==
  \/ Answer("confirm", r, "NotFound") /\ ConfirmNotFound(r)
  \/ Answer("confirm", r, "Aborted") /\ ConfirmRefused(r)
  \/ Answer("confirm", r, "OK") /\ ConfirmAccepted(r)

-----------------------------------------------------------------------------
Dispatcher(d) ==
  \/ \E r \in Container : SendPreDispatch(d, r)
  \/ PreDispatchReply(d) \/ PreDispatchError(d) \/ PreDispatchGiveUp(d)
  \/ SendConfirm(d) \/ ConfirmReply(d) \/ ConfirmError(d)
  \/ DispatcherCrash(d)

Executor ==
  \/ \E r \in Container : HandlePreDispatch(r) \/ HandleConfirm(r)
  \/ CheckTTLOnce /\ UNCHANGED dispatchVars
  \/ RunnerStep /\ UNCHANGED <<committerVars, dispatchVars>>

Next == Executor \/ \E d \in Dispatch : Dispatcher(d)

\* The TTL checker runs every runTTLCheckerInterval.
Spec == Init /\ [][Next]_vars /\ WF_vars(CheckTTLOnce /\ UNCHANGED dispatchVars)

-----------------------------------------------------------------------------
(***************************************************************************)
(* Properties                                                              *)
(***************************************************************************)
Accepted(d) == {r \in Container : owner[r] = d /\ phase[r] # "new"}

\* abortWorker is called "only if the failure is guaranteed": once it has been
\* called, no request of that DispatchTask has reached the runner, and since
\* this holds in every state none ever will, whatever calls of it are still on
\* the wire.  The master forgets the worker on the strength of this.
AbortedNeverRuns == \A d \in Dispatch : dpc[d] = "aborted" => Accepted(d) = {}

\* A pre-dispatch that failed leaves nothing behind that could still start the
\* worker, although an abandoned attempt may reach the executor later.
PreFailedNeverRuns ==
  \A d \in Dispatch : dpc[d] = "preFailed" => Accepted(d) = {}

\* startWorkerTimer is called before the worker can be launched, so the first
\* heartbeat of a worker finds its entry.
TimerBeforeLaunch ==
  \A d \in Dispatch : Accepted(d) # {} => d \in timer

\* One DispatchTask puts at most one container into the runner, although it
\* may have tried several request IDs.
AtMostOneLaunch ==
  \A d \in Dispatch : \A r1, r2 \in Accepted(d) : r1 = r2

\* A DispatchTask that saw both replies has handed its task to the runner.
SuccessIsAccepted ==
  \A d \in Dispatch : dpc[d] = "success" => phase[requestID[d]] # "new"

\* No handler meets a request ID that is already pending: the AlreadyExists
\* answer, on which the dispatcher panics, is unreachable.
NoDuplicateRequest ==
  \A r \in Container : <<"pre", r>> \in calls => r \notin pendingRequests

\* A call of DispatchTask as its caller sees it.
CallOf(d) ==
  IF d \in timer
  THEN CASE dpc[d] = "confirm" -> "confirming"
         [] dpc[d] = "aborted" -> "failed"
         [] dpc[d] = "crashed" -> "lost"
         [] OTHER              -> "dispatched"
  ELSE IF dpc[d] \in Ended THEN "failed" ELSE "dispatching"

CallsSeen == [d \in Dispatch |-> CallOf(d)]
Launched == {d \in Dispatch : Accepted(d) # {}}

Contract == INSTANCE DispatchContract WITH
  Call <- Dispatch, call <- CallsSeen, launched <- Launched

\* Dispatchers, wire, committer and runner together implement DispatchContract:
\* "startWorkerTimer() is called before a worker is launched", abortWorker or an
\* error mean that it is not launched and never will be, and whatever becomes
\* of the calls on the wire a call launches once or not at all.
DispatchKept == Contract!ContractSpec

\* A request whose dispatcher has crashed or given up does not stay in the
\* committer: the TTL checker removes what is never confirmed.
PendingDrains == <>[](pendingRequests = {})
=============================================================================
