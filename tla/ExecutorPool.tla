---------------------------- MODULE ExecutorPool ----------------------------
(***************************************************************************)
(* The executors a server master knows and schedules tasks to:             *)
(* ExecutorManagerImpl (servermaster/executor_manager.go), the capacity    *)
(* manager beside it, resetExecutor (failover.go), the scheduler, and the  *)
(* executor's registration and heartbeats (executor/server.go).            *)
(*                                                                         *)
(* Each server has one executor manager for its whole life.  A term as the *)
(* leader registers the executors found in etcd again and starts one more  *)
(* checkAlive goroutine; the goroutine ignores the end of the term.        *)
(* Who leads changes as LeadershipContract says, which ServerElection is   *)
(* shown to implement.  When a heartbeat deadline passes is                *)
(* nondeterministic, except that the deadline of an executor that          *)
(* heartbeats to the leader does not (see ExecutorLease).                  *)
(***************************************************************************)
EXTENDS Naturals, Sequences

CONSTANTS
  Manager,    \* the executor managers, one per server
  Exec,       \* executor ids: one per registration
  Resource,   \* local file resources
  None,
  MaxTerms,   \* bounds the terms of each server
  MaxLost     \* bounds replies that are lost

ASSUME PoolAssumption ==
  /\ None \notin Exec \cup Manager
  /\ Exec \cap {"not found", "conflict", "off"} = {}
  /\ MaxTerms \in Nat /\ MaxLost \in Nat

VARIABLES
  ex,      \* the executor process with this id
  etcd,    \* executors whose NodeInfo is in etcd
  leaders, \* the server that leads, if any
  role,    \* how far each server's leader service is
  executors, \* ExecutorManagerImpl.executors of each server
  cap,     \* CapRescMgr.executors of each server
  reg,     \* executors between the two halves of RegisterExec
  todo,    \* executors resetExecutor has read and not registered yet
  terms,   \* how often each server took the leadership over
  found,   \* per term, the executor its checkAlive goroutine is about to remove
  beat,    \* the heartbeat of each executor that HandleHeartbeat works on
  at,      \* the executor each resource was persisted on
  task,    \* one ScheduleTask request
  lost

poolVars == <<ex, etcd, leaders, role, executors, cap, reg, todo, terms, found, beat,
              at, task, lost>>

Leadership == INSTANCE LeadershipContract WITH Server <- Manager

Term == 1 .. MaxTerms

\* "fresh": a deadline that the executor's heartbeats keep moving; "old": one
\* that was set in an earlier term; "tomb": Tombstone.
Entry == {"none", "fresh", "old", "tomb"}

\* A heartbeat works on the record it looked up, which stays "same" as the one
\* in the map until the executor is registered anew.
Beat == [srv : Manager \cup {None}, rec : {"same", "alive", "tomb"}]
NoBeat == [srv |-> None, rec |-> "same"]

NoTask == [pc |-> "idle", srv |-> None, res |-> <<>>, pick |-> None]

PoolInitWith(n) ==
  /\ ex = [e \in Exec |-> "new"]
  /\ etcd = {}
  /\ leaders = {}
  /\ role = [s \in Manager |-> "follower"]
  /\ executors = [s \in Manager |-> [e \in Exec |-> "none"]]
  /\ cap = [s \in Manager |-> {}]
  /\ reg = [s \in Manager |-> {}]
  /\ todo = [s \in Manager |-> {}]
  /\ terms = [s \in Manager |-> n]
  /\ found = [s \in Manager |-> [c \in Term |-> "off"]]
  /\ beat = [e \in Exec |-> NoBeat]
  /\ at = [r \in Resource |-> None]
  /\ task = NoTask
  /\ lost = 0

PoolInit == PoolInitWith(0)

LoseReply == lost < MaxLost /\ lost' = lost + 1
Set(f, s, x) == [f EXCEPT ![s] = x]
Known(s, e) == executors[s][e] # "none"

-----------------------------------------------------------------------------
(* Leadership.                                                             *)

\* runLeaderService starts with resetExecutor, which reads the rows.
TakeOver(s) ==
  /\ role[s] = "follower" /\ terms[s] < MaxTerms
  /\ Leadership!Take(s)
  /\ role' = Set(role, s, "recovering")
  /\ todo' = Set(todo, s, etcd)
  /\ terms' = Set(terms, s, terms[s] + 1)
  /\ UNCHANGED <<ex, etcd, executors, cap, reg, found, beat, at, task, lost>>

\* The leadership can be lost before the server notices.
LoseLeadership ==
  /\ \E s \in Manager : terms[s] < MaxTerms
  /\ \E s \in Manager : Leadership!Lose(s)
  /\ UNCHANGED <<ex, etcd, role, executors, cap, reg, todo, terms, found, beat, at,
                 task, lost>>

\* The leader service ends, between two rows when it is still in resetExecutor;
\* a RegisterExecutor request may be half done.  The executor manager keeps what
\* it has.
StepDown(s) ==
  /\ role[s] # "follower" /\ s \notin leaders
  /\ role[s] = "recovering" => reg[s] = {}
  /\ role' = Set(role, s, "follower")
  /\ todo' = Set(todo, s, {})
  /\ executors' = Set(executors, s, [e \in Exec |->
                     IF executors[s][e] = "fresh" THEN "old" ELSE executors[s][e]])
  /\ UNCHANGED <<ex, etcd, leaders, cap, reg, terms, found, beat, at, task, lost>>

\* Every row is registered: the manager is started and requests are served.
ServeRequests(s) ==
  /\ role[s] = "recovering" /\ todo[s] = {} /\ reg[s] = {}
  /\ role' = Set(role, s, "ready")
  /\ found' = [found EXCEPT ![s][terms[s]] = None]
  /\ UNCHANGED <<ex, etcd, leaders, executors, cap, reg, todo, terms, beat, at, task,
                 lost>>

-----------------------------------------------------------------------------
(* RegisterExec.                                                           *)

\* The first half stores a new record under the lock.  A heartbeat may still
\* hold the record that was there.
StoreEntry(s, e) ==
  /\ executors' = [executors EXCEPT ![s][e] = "fresh"]
  /\ reg' = Set(reg, s, reg[s] \cup {e})
  /\ beat' = IF beat[e] = [srv |-> s, rec |-> "same"]
             THEN Set(beat, e, [srv |-> s, rec |-> IF executors[s][e] = "fresh"
                                                   THEN "alive" ELSE "tomb"])
             ELSE beat

\* resetExecHandler.
ResetExec(s, e) ==
  /\ role[s] = "recovering" /\ e \in todo[s] /\ reg[s] = {}
  /\ todo' = Set(todo, s, todo[s] \ {e})
  /\ StoreEntry(s, e)
  /\ UNCHANGED <<ex, etcd, leaders, role, cap, terms, found, at, task, lost>>

\* AllocateNewExec, for the RegisterExecutor request of a new executor.
AllocateNewExec(s, e) ==
  /\ role[s] = "ready" /\ ex[e] = "new"
  /\ ex' = Set(ex, e, "asking")
  /\ StoreEntry(s, e)
  /\ UNCHANGED <<etcd, leaders, role, cap, todo, terms, found, at, task, lost>>

\* The second half gives the capacity to the resource manager, outside the
\* lock.  RegisterExecutor then replies with the id; selfRegister gives up on
\* an error other than MasterNotReady.
RegisterCapacity(s, e) ==
  /\ e \in reg[s]
  /\ reg' = Set(reg, s, reg[s] \ {e})
  /\ cap' = Set(cap, s, cap[s] \cup {e})
  /\ \/ ex[e] = "asking" /\ ex' = Set(ex, e, "registered") /\ UNCHANGED lost
     \/ ex[e] = "asking" /\ ex' = Set(ex, e, "stopped") /\ LoseReply
     \/ ex[e] # "asking" /\ UNCHANGED <<ex, lost>>
  /\ UNCHANGED <<etcd, leaders, role, executors, todo, terms, found, beat, at, task>>

-----------------------------------------------------------------------------
(* checkAlive.                                                             *)

\* An entry whose deadline may have passed.
Overdue(s, e) ==
  \/ executors[s][e] \in {"old", "tomb"}
  \/ executors[s][e] = "fresh" /\ (s \notin leaders \/ ex[e] # "up")

\* checkAliveImpl marks the first dead executor and releases the lock.
CheckFinds(s, c) ==
  /\ found[s][c] = None
  /\ \E e \in Exec :
       /\ Overdue(s, e)
       /\ executors' = [executors EXCEPT ![s][e] = "tomb"]
       /\ found' = [found EXCEPT ![s][c] = e]
  /\ UNCHANGED <<ex, etcd, leaders, role, cap, reg, todo, terms, beat, at, task,
                 lost>>

\* Mutant: a record that is alive again stays, but its capacity goes.
RemoveExecutor_KeepsRecord(s, c) ==
  LET e == found[s][c]
  IN  /\ e \in Exec
      /\ found' = [found EXCEPT ![s][c] = None]
      /\ executors' = [executors EXCEPT ![s][e] = IF @ = "fresh" THEN @ ELSE "none"]
      /\ cap' = Set(cap, s, cap[s] \ {e})
      /\ UNCHANGED <<ex, etcd, leaders, role, reg, todo, terms, beat, at, task,
                     lost>>

\* removeExecutorImpl takes the lock again and removes by id, whatever record
\* is there by now.
RemoveExecutor(s, c) ==
  LET e == found[s][c]
  IN  /\ e \in Exec
      /\ found' = [found EXCEPT ![s][c] = None]
      /\ executors' = [executors EXCEPT ![s][e] = "none"]
      /\ cap' = IF Known(s, e) THEN Set(cap, s, cap[s] \ {e}) ELSE cap
      /\ UNCHANGED <<ex, etcd, leaders, role, reg, todo, terms, beat, at, task,
                     lost>>

-----------------------------------------------------------------------------
(* The executor.                                                           *)

\* Keepalive has written the NodeInfo and keepHeartbeat runs.
GoUp(e) ==
  /\ ex[e] = "registered"
  /\ ex' = Set(ex, e, "up")
  /\ etcd' = etcd \cup {e}
  /\ UNCHANGED <<leaders, role, executors, cap, reg, todo, terms, found, beat, at,
                 task, lost>>

Stop(e) ==
  /\ ex[e] \in {"registered", "up"}
  /\ ex' = Set(ex, e, "stopped")
  /\ UNCHANGED <<etcd, leaders, role, executors, cap, reg, todo, terms, found, beat,
                 at, task, lost>>

\* The etcd session of a stopped executor expires.
RowExpires(e) ==
  /\ ex[e] = "stopped" /\ e \in etcd
  /\ etcd' = etcd \ {e}
  /\ UNCHANGED <<ex, leaders, role, executors, cap, reg, todo, terms, found, beat,
                 at, task, lost>>

\* keepHeartbeat leaves its loop on UnknownExecutor and TombstoneExecutor.
Answer(e, refused) ==
  \/ /\ ex' = IF refused /\ ex[e] = "up" THEN Set(ex, e, "stopped") ELSE ex
     /\ UNCHANGED lost
  \/ LoseReply /\ UNCHANGED ex

\* Mutant: a heartbeat of an unknown executor is answered without an error.
HeartbeatUnknown_Ignored(s, e) ==
  /\ role[s] = "ready" /\ ex[e] = "up" /\ beat[e] = NoBeat
  /\ ~Known(s, e)
  /\ UNCHANGED poolVars

\* HandleHeartbeat: no such executor.
HeartbeatUnknown(s, e) ==
  /\ role[s] = "ready" /\ ex[e] = "up" /\ beat[e] = NoBeat
  /\ ~Known(s, e)
  /\ Answer(e, TRUE)
  /\ UNCHANGED <<etcd, leaders, role, executors, cap, reg, todo, terms, found, beat,
                 at, task>>

\* It finds the record, and releases the lock of the map.
HeartbeatLookup(s, e) ==
  /\ role[s] = "ready" /\ ex[e] = "up" /\ beat[e] = NoBeat
  /\ Known(s, e)
  /\ beat' = Set(beat, e, [srv |-> s, rec |-> "same"])
  /\ UNCHANGED <<ex, etcd, leaders, role, executors, cap, reg, todo, terms, found, at,
                 task, lost>>

\* The record is refreshed unless it is a Tombstone; Update fails when the
\* capacity is gone, which reaches the executor as an RPC error.  A record that
\* was removed had been marked Tombstone first.
HeartbeatApply(e) ==
  LET s    == beat[e].srv
      tomb == \/ beat[e].rec = "tomb"
              \/ beat[e].rec = "same" /\ executors[s][e] \in {"none", "tomb"}
  IN  /\ s # None
      /\ beat' = Set(beat, e, NoBeat)
      /\ executors' = IF beat[e].rec = "same" /\ ~tomb /\ s \in leaders
                      THEN [executors EXCEPT ![s][e] = "fresh"] ELSE executors
      /\ Answer(e, tomb)
      /\ UNCHANGED <<etcd, leaders, role, cap, reg, todo, terms, found, at, task>>

\* A worker on the executor persists a resource (see ExternalResource).
Persist(e, r) ==
  /\ ex[e] = "up" /\ at[r] = None
  /\ at' = Set(at, r, e)
  /\ UNCHANGED <<ex, etcd, leaders, role, executors, cap, reg, todo, terms, found,
                 beat, task, lost>>

-----------------------------------------------------------------------------
(* ScheduleTask.                                                           *)

\* GetPlacementConstraint: None when the resource has no record, or one that
\* names an executor the manager does not know.
GetPlacementConstraint(s, r) ==
  IF at[r] # None /\ Known(s, at[r]) THEN at[r] ELSE None

\* Mutant: the last resource decides.
getConstraint_Last(s, res) ==
  LET where == [i \in DOMAIN res |-> GetPlacementConstraint(s, res[i])]
  IN  CASE \E i \in DOMAIN res : where[i] = None -> "not found"
        [] OTHER -> where[Len(res)]

\* getConstraint of a request with resources: the loop ends at the first
\* resource that is not found or is elsewhere than the ones before it.
getConstraint(s, res) ==
  LET where == [i \in DOMAIN res |-> GetPlacementConstraint(s, res[i])]
      bad   == {i \in DOMAIN res : where[i] = None \/ where[i] # where[1]}
  IN  IF bad = {} THEN where[1]
      ELSE IF where[CHOOSE i \in bad : \A j \in bad : i <= j] = None
           THEN "not found" ELSE "conflict"

Requests == {<<>>} \cup {<<r>> : r \in Resource}
            \cup {<<r, q>> : r \in Resource, q \in Resource}

\* Scheduler.ScheduleTask, as far as the placement constraint.
Constrain(s) ==
  /\ role[s] = "ready" /\ task.pc = "idle"
  /\ \E res \in Requests :
       LET c == IF res = <<>> THEN None ELSE getConstraint(s, res)
       IN  task' = IF c \in {"not found", "conflict"}
                   THEN [pc |-> c, srv |-> s, res |-> res, pick |-> None]
                   ELSE [pc |-> "choose", srv |-> s, res |-> res, pick |-> c]
  /\ UNCHANGED <<ex, etcd, leaders, role, executors, cap, reg, todo, terms, found,
                 beat, at, lost>>

\* scheduleByCostOnly takes a random executor with capacity left;
\* checkCostAllows asks for that of the constraint.  No heartbeat carries a
\* usage, so an executor always has its whole capability left.
Choose ==
  /\ task.pc = "choose"
  /\ \/ /\ task.pick # None /\ task.pick \in cap[task.srv]
        /\ task' = [task EXCEPT !.pc = "address"]
     \/ /\ task.pick = None
        /\ \E e \in cap[task.srv] :
             task' = [task EXCEPT !.pc = "address", !.pick = e]
     \/ /\ IF task.pick = None THEN cap[task.srv] = {}
           ELSE task.pick \notin cap[task.srv]
        /\ task' = [task EXCEPT !.pc = "not enough"]
  /\ UNCHANGED <<ex, etcd, leaders, role, executors, cap, reg, todo, terms, found,
                 beat, at, lost>>

\* Server.ScheduleTask looks the address up and replies.
Address ==
  /\ task.pc = "address"
  /\ task' = [task EXCEPT !.pc = IF Known(task.srv, task.pick) THEN "placed"
                                 ELSE "gone"]
  /\ UNCHANGED <<ex, etcd, leaders, role, executors, cap, reg, todo, terms, found,
                 beat, at, lost>>

\* The job master has the reply.
TakeReply ==
  /\ task.pc \in {"placed", "gone", "not enough", "not found", "conflict"}
  /\ task' = NoTask
  /\ UNCHANGED <<ex, etcd, leaders, role, executors, cap, reg, todo, terms, found,
                 beat, at, lost>>

-----------------------------------------------------------------------------
ServerStep(s) ==
  \/ TakeOver(s) \/ StepDown(s) \/ ServeRequests(s)
  \/ \E e \in Exec : ResetExec(s, e) \/ RegisterCapacity(s, e)

PoolNext ==
  \/ \E s \in Manager : ServerStep(s) \/ Constrain(s)
  \/ \E s \in Manager, c \in Term : CheckFinds(s, c) \/ RemoveExecutor(s, c)
  \/ \E s \in Manager, e \in Exec : AllocateNewExec(s, e)
       \/ HeartbeatUnknown(s, e) \/ HeartbeatLookup(s, e)
  \/ \E e \in Exec : GoUp(e) \/ Stop(e) \/ RowExpires(e) \/ HeartbeatApply(e)
  \/ \E e \in Exec, r \in Resource : Persist(e, r)
  \/ LoseLeadership \/ Choose \/ Address \/ TakeReply

\* Some server keeps taking the leadership over and its service comes up,
\* executors send heartbeats until they stop, and handlers run to their end.
PoolFairness ==
  /\ WF_poolVars(\E s \in Manager : ServerStep(s))
  /\ \A e \in Exec :
       /\ WF_poolVars(HeartbeatApply(e))
       /\ WF_poolVars(\E s \in Manager : HeartbeatUnknown(s, e) /\ ex' # ex)

PoolSpec == PoolInit /\ [][PoolNext]_poolVars /\ PoolFairness

-----------------------------------------------------------------------------
(* Properties.                                                             *)

PoolTypeOK ==
  /\ ex \in [Exec -> {"new", "asking", "registered", "up", "stopped"}]
  /\ etcd \subseteq Exec
  /\ leaders \subseteq Manager
  /\ role \in [Manager -> {"follower", "recovering", "ready"}]
  /\ executors \in [Manager -> [Exec -> Entry]]
  /\ cap \in [Manager -> SUBSET Exec]
  /\ reg \in [Manager -> SUBSET Exec]
  /\ todo \in [Manager -> SUBSET Exec]
  /\ terms \in [Manager -> 0 .. MaxTerms]
  /\ found \in [Manager -> [Term -> Exec \cup {None, "off"}]]
  /\ beat \in [Exec -> Beat]
  /\ at \in [Resource -> Exec \cup {None}]
  /\ task.srv \in Manager \cup {None} /\ task.pick \in Exec \cup {None}
  /\ lost \in 0 .. MaxLost

\* An executor in the manager's map has its capacity in the resource manager
\* once RegisterExec has returned, however checkAlive goroutines of several
\* terms and a recovery interleave: no executor is known and yet never given a
\* task.
KnownHasCapacity ==
  \A s \in Manager, e \in Exec : Known(s, e) /\ e \notin reg[s] => e \in cap[s]

\* A task is only placed on the executor that holds every local resource it
\* asks for.
PlacedWithData ==
  task.pc = "placed" => \A i \in DOMAIN task.res : at[task.res[i]] = task.pick

\* An executor that runs is eventually known to a leader that serves requests,
\* or stops: it does not heartbeat for ever to leaders that do not know it.
UpIsKnown ==
  \A e \in Exec :
    ex[e] = "up" ~> \/ ex[e] = "stopped"
                    \/ \E s \in Manager : role[s] = "ready" /\ Known(s, e)
=============================================================================
