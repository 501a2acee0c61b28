--------------------------- MODULE TaskCommitter ---------------------------
(***************************************************************************)
(* The executor's TaskCommitter (executor/worker/task_committer.go): the   *)
(* server half of the two-phase task dispatch, on top of the TaskRunner.   *)
(*                                                                         *)
(* PreDispatchTask remembers a request for a while, ConfirmDispatchTask    *)
(* hands its task to the runner.  A request wraps exactly one container    *)
(* (WrapRunnable is called once per request), so a request is identified   *)
(* with its container.  All operations run under TaskCommitter.mu.         *)
(***************************************************************************)
EXTENDS TaskRunner

VARIABLES
  pendingRequests,   \* TaskCommitter.pendingRequests, by request ID
  requestsByTaskID   \* TaskCommitter.requestsByTaskID

committerVars == <<pendingRequests, requestsByTaskID>>

CommitterTypeOK ==
  /\ pendingRequests \subseteq Container
  /\ requestsByTaskID \in [Task -> Container \cup {NoContainer}]

CommitterInit ==
  /\ pendingRequests = {}
  /\ requestsByTaskID = [t \in Task |-> NoContainer]

-----------------------------------------------------------------------------
\* removeRequestByID for every request of S.
RemoveRequests(S) ==
  /\ pendingRequests' = pendingRequests \ S
  /\ requestsByTaskID' =
       [t \in Task |-> IF \E r \in S : TaskOf[r] = t
                       THEN NoContainer ELSE requestsByTaskID[t]]

\* Mutant: an older request for the same task stays pending.
PreDispatchTask_KeepsOlder(r) ==
  /\ r \notin pendingRequests
  /\ pendingRequests' = pendingRequests \cup {r}
  /\ requestsByTaskID' = [requestsByTaskID EXCEPT ![TaskOf[r]] = r]
  /\ UNCHANGED runnerVars

\* PreDispatchTask for a request ID that is not pending: an older request for
\* the same task is removed, the new one is recorded under both keys.
PreDispatchTask(r) ==
  /\ r \notin pendingRequests
  /\ pendingRequests' =
       (pendingRequests \ {requestsByTaskID[TaskOf[r]]}) \cup {r}
  /\ requestsByTaskID' = [requestsByTaskID EXCEPT ![TaskOf[r]] = r]
  /\ UNCHANGED runnerVars

\* The three outcomes of ConfirmDispatchTask: (false, nil) when the request is
\* unknown; otherwise it is removed and the runner takes the task, or its queue
\* is full and the caller gets the error.
ConfirmNotFound(r) ==
  /\ r \notin pendingRequests
  /\ UNCHANGED <<runnerVars, committerVars>>

ConfirmRefused(r) ==
  /\ r \in pendingRequests
  /\ QueueFull
  /\ RemoveRequests({r})
  /\ UNCHANGED runnerVars

ConfirmAccepted(r) ==
  /\ r \in pendingRequests
  /\ RemoveRequests({r})
  /\ AddWrappedTask(r)

\* Mutant: an expired request is removed from one of the maps only.
CheckTTLOnce_OneMap ==
  /\ \E t \in Task : /\ requestsByTaskID[t] # NoContainer
                     /\ requestsByTaskID' =
                          [requestsByTaskID EXCEPT ![t] = NoContainer]
  /\ UNCHANGED <<runnerVars, pendingRequests>>

\* checkTTLOnce removes the requests that have expired.  Time is left out: any
\* of the pending requests may be the expired ones.
CheckTTLOnce ==
  /\ \E S \in SUBSET pendingRequests : S # {} /\ RemoveRequests(S)
  /\ UNCHANGED runnerVars

-----------------------------------------------------------------------------
\* The two indexes of the committer describe the same requests: the pending
\* request of a task is found under its task ID and nothing else is.  Both
\* "Unreachable" panics of removeRequestByID are then unreachable, no stale
\* request of a task survives a newer one, and no expired one is left behind
\* in one map only.
MapsAgree ==
  \A t \in Task :
    /\ requestsByTaskID[t] # NoContainer =>
         /\ requestsByTaskID[t] \in pendingRequests
         /\ TaskOf[requestsByTaskID[t]] = t
    /\ \A r \in pendingRequests :
         TaskOf[r] = t => requestsByTaskID[t] = r

\* A request that still waits for its confirmation has not been handed to the
\* runner: confirming it cannot launch its container a second time.
PendingNotQueued == \A r \in pendingRequests : phase[r] = "new"
=============================================================================
