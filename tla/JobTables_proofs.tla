--------------------------- MODULE JobTables_proofs ---------------------------
(***************************************************************************)
(* Two inductive invariants of the job manager, for any number of jobs, of *)
(* incarnations of their masters and of leaders: what the maps of JobFsm,  *)
(* the job table and the job masters have to do with each other, and what  *)
(* the events in the queue of the WorkerManager say of them.               *)
(***************************************************************************)
EXTENDS JobManager, TLAPS

USE ManagerAssumption

-----------------------------------------------------------------------------
(* The maps, the job table and the job masters.                            *)

\* The goroutine of a CreateWorker that may still report a failure.
Creating == {"dispatching", "confirming"}

\* The calls of SubmitJob that have not recorded their job yet.
Submitting == {"new", "stored", "created"}

TableTypes ==
  /\ pendingJobs \subseteq WorkerID /\ waitAckJobs \subseteq WorkerID
  /\ onlineJobs \subseteq WorkerID /\ addFromFailover \subseteq waitAckJobs
  /\ submitPC \in [WorkerID -> {"new", "stored", "created", "done", "failed"}]
  /\ jobMeta \in [WorkerID -> {"none", "Uninit", "Init"} \cup Final]
  /\ cpc \in [Entry -> {"idle", "dispatching", "confirming", "dispatched",
                        "failed", "silent"}]
  /\ life \in [Entry -> {"none", "launched", "first", "running", "exiting",
                         "dead"}]
  /\ exited \subseteq Entry

\* A leader that has not recovered serves no request and creates no worker.
StartInv ==
  mainPC = "init" =>
    /\ pendingJobs = {} /\ waitAckJobs = {} /\ onlineJobs = {}
    /\ ~tombstoneCleaned
    /\ \A j \in WorkerID : submitPC[j] \notin {"stored", "created"}
    /\ \A e \in Entry : cpc[e] \notin Creating

\* A job is in no map before its submission is recorded, and the table shows it
\* as ended only if one of its masters has exited.
SubmitInv ==
  \A j \in WorkerID :
    /\ submitPC[j] \in Submitting =>
         j \notin pendingJobs /\ j \notin waitAckJobs /\ j \notin onlineJobs
    /\ submitPC[j] = "new" => jobMeta[j] = "none"
    /\ jobMeta[j] \in Final => \E e \in exited : IdOf[e] = j

\* A job master exists only after CreateWorker was called for it.
MasterInv ==
  \A e \in Entry :
    /\ cpc[e] # "idle" => submitPC[IdOf[e]] \notin {"new", "stored"}
    /\ life[e] # "none" => cpc[e] # "idle"
    /\ e \in exited => life[e] \in {"exiting", "dead"}

TablesInv ==
  /\ TableTypes /\ OneMap /\ FailoverComplete
  /\ StartInv /\ SubmitInv /\ MasterInv

tableVars == <<fsmVars, submitPC, jobMeta, cpc, life, exited, tombstoneCleaned>>

\* The first leader.
LEMMA TablesInit == Init => TablesInv
  <1> SUFFICES ASSUME Init PROVE TablesInv
    BY Zenon
  <1> USE DEF Init
  <1>1. TableTypes
    BY Zenon DEF TableTypes
  <1>2. OneMap /\ FailoverComplete
    BY Zenon DEF OneMap, FailoverComplete
  <1>3. \A j \in WorkerID : submitPC[j] = "new" /\ jobMeta[j] = "none"
    BY Zenon
  <1>4. \A e \in Entry : cpc[e] = "idle" /\ life[e] = "none"
    BY Zenon
  <1>5. StartInv /\ SubmitInv /\ MasterInv
    BY <1>3, <1>4, Zenon DEF StartInv, SubmitInv, MasterInv, Final, Creating
  <1> QED
    BY <1>1, <1>2, <1>5, Zenon DEF TablesInv

\* A step that changes none of the tables.
LEMMA TablesKept ==
  ASSUME TablesInv, UNCHANGED tableVars, mainPC' = "init" => mainPC = "init"
  PROVE  TablesInv'
  BY Zenon DEF TablesInv, tableVars, fsmVars, TableTypes, OneMap, FailoverComplete,
     StartInv,
     SubmitInv, MasterInv

\* A step of the main goroutine that moves jobs between the maps.
LEMMA JobsMoved ==
  ASSUME TablesInv, UNCHANGED <<submitPC, jobMeta, cpc, life, exited, tombstoneCleaned>>,
         mainPC' # "init", OneMap',
         addFromFailover' \subseteq addFromFailover \cap waitAckJobs',
         pendingJobs' \cup waitAckJobs' \cup onlineJobs'
           \subseteq pendingJobs \cup waitAckJobs \cup onlineJobs
  PROVE  TablesInv'
  <1>1. TableTypes'
    BY Zenon DEF TablesInv, TableTypes
  <1>2. SubmitInv'
    BY Zenon DEF TablesInv, SubmitInv
  <1>3. FailoverComplete'
    BY Zenon DEF TablesInv, FailoverComplete
  <1> QED
    BY <1>1, <1>2, <1>3, Zenon DEF TablesInv, StartInv, MasterInv

\* OnWorkerOnline, OnWorkerDispatched, JobOffline and the visit of a worker in
\* Tick move one job.
LEMMA CallbackTables ==
  ASSUME TablesInv,
         \/ OnWorkerOnline \/ OnWorkerDispatched \/ JobOffline
         \/ \E v \in toVisit : VisitRunning(v)
  PROVE  TablesInv'
  <1>1. /\ UNCHANGED <<submitPC, jobMeta, cpc, life, exited, tombstoneCleaned>>
        /\ mainPC' # "init" /\ mainPC # "init"
    BY Zenon DEF OnWorkerOnline, OnWorkerDispatched, JobOffline, VisitRunning, rpcVars,
       workerVars
  <1>2. CASE UNCHANGED fsmVars
    BY <1>1, <1>2, TablesKept, Zenon DEF tableVars
  <1>3. ASSUME NEW j, j \in waitAckJobs, JobOnline(j)
        PROVE  TablesInv'
    <2>1. /\ OneMap' /\ addFromFailover' \subseteq addFromFailover \cap waitAckJobs'
          /\ pendingJobs' \cup waitAckJobs' \cup onlineJobs'
               \subseteq pendingJobs \cup waitAckJobs \cup onlineJobs
      BY <1>3 DEF JobOnline, TablesInv, TableTypes, OneMap
    <2> QED
      BY <1>1, <2>1, JobsMoved, Zenon
  <1>4. CASE OnWorkerDispatched /\ ~UNCHANGED fsmVars
    <2>1. PICK j : /\ j \in waitAckJobs /\ pendingJobs' = pendingJobs \cup {j}
                   /\ waitAckJobs' = waitAckJobs \ {j}
                   /\ addFromFailover' = addFromFailover \ {j}
                   /\ UNCHANGED onlineJobs
      BY <1>4, Zenon DEF OnWorkerDispatched
    <2>2. /\ OneMap' /\ addFromFailover' \subseteq addFromFailover \cap waitAckJobs'
          /\ pendingJobs' \cup waitAckJobs' \cup onlineJobs'
               \subseteq pendingJobs \cup waitAckJobs \cup onlineJobs
      BY <2>1 DEF TablesInv, TableTypes, OneMap
    <2> QED
      BY <1>1, <2>2, JobsMoved, Zenon
  <1>5. CASE JobOffline
    <2>1. PICK j, unacked :
            /\ unacked = IF j \in onlineJobs THEN {} ELSE {j}
            /\ onlineJobs' = onlineJobs \ {j}
            /\ waitAckJobs' = waitAckJobs \ unacked
            /\ addFromFailover' = addFromFailover \ unacked
            /\ \/ pendingJobs' = pendingJobs
               \/ pendingJobs' = pendingJobs \cup {j} /\ j \in onlineJobs \cup waitAckJobs
      BY <1>5, Zenon DEF JobOffline
    <2>2. /\ OneMap' /\ addFromFailover' \subseteq addFromFailover \cap waitAckJobs'
          /\ pendingJobs' \cup waitAckJobs' \cup onlineJobs'
               \subseteq pendingJobs \cup waitAckJobs \cup onlineJobs
      BY <2>1 DEF TablesInv, TableTypes, OneMap
    <2> QED
      BY <1>1, <2>2, JobsMoved, Zenon
  <1> QED
    BY <1>2, <1>3, <1>4, <1>5, Zenon DEF OnWorkerOnline, VisitRunning

\* CreateWorkers gives every job of S a new goroutine.
LEMMA CreateWorkersFact ==
  ASSUME TablesInv, NEW S, CreateWorkers(S)
  PROVE  /\ cpc' \in [Entry -> {"idle", "dispatching", "confirming", "dispatched",
                                "failed", "silent"}]
         /\ \A e \in Entry : \/ cpc'[e] = cpc[e]
                             \/ /\ cpc'[e] = "dispatching" /\ cpc[e] = "idle"
                                /\ entryState[e] = "Unused" /\ IdOf[e] \in S
         /\ \A j \in S : \E e \in Entry : /\ IdOf[e] = j /\ cpc'[e] = "dispatching"
                                          /\ \A f \in Entry \ {e} :
                                               IdOf[f] = j => cpc'[f] = cpc[f]
  <1>1. PICK pick \in [S -> {e \in Entry : cpc[e] = "idle" /\ entryState[e] = "Unused"}] :
          /\ \A j \in S : IdOf[pick[j]] = j
          /\ cpc' = [e \in Entry |->
               IF IdOf[e] \in S /\ pick[IdOf[e]] = e THEN "dispatching" ELSE cpc[e]]
    BY Zenon DEF CreateWorkers
  <1>2. \A e \in Entry :
          cpc'[e] = IF IdOf[e] \in S /\ pick[IdOf[e]] = e THEN "dispatching" ELSE cpc[e]
    BY <1>1, Zenon
  <1>3. \A j \in S : pick[j] \in Entry /\ cpc[pick[j]] = "idle" /\ entryState[pick[j]] = "Unused"
    BY <1>1, Zenon
  <1>4. \A j \in S : /\ IdOf[pick[j]] = j /\ cpc'[pick[j]] = "dispatching"
                     /\ \A f \in Entry \ {pick[j]} : IdOf[f] = j => cpc'[f] = cpc[f]
    BY <1>1, <1>2, <1>3, Zenon
  <1>5. cpc' \in [Entry -> {"idle", "dispatching", "confirming", "dispatched",
                                "failed", "silent"}]
    BY <1>1, Zenon DEF TablesInv, TableTypes
  <1>6. \A e \in Entry : \/ cpc'[e] = cpc[e]
                             \/ /\ cpc'[e] = "dispatching" /\ cpc[e] = "idle"
                                /\ entryState[e] = "Unused" /\ IdOf[e] \in S
    BY <1>2, <1>3
  <1> QED
    BY <1>3, <1>4, <1>5, <1>6

\* A goroutine of CreateWorker goes on; it has been started before.
LEMMA CreationTables ==
  ASSUME TablesInv, NEW e \in Entry, Creation(e)
  PROVE  TablesInv'
  <1>1. PICK s \in {"confirming", "dispatched", "failed", "silent"} :
          /\ cpc' = [cpc EXCEPT ![e] = s]
          /\ cpc[e] \in Creating
          /\ mainPC = "init" => s # "confirming"
    BY Zenon DEF Creation, CreateAborted, CreateFailedSilently, StartTimer,
       ConfirmReturned,
       Creating, Up
  <1>2. UNCHANGED <<fsmVars, submitPC, jobMeta, life, exited, tombstoneCleaned, mainPC>>
    BY Zenon DEF Creation, CreateAborted, CreateFailedSilently, StartTimer,
       ConfirmReturned,
       rpcVars, mainVars
  <1>3. /\ cpc' \in [Entry -> {"idle", "dispatching", "confirming", "dispatched",
                               "failed", "silent"}]
        /\ cpc'[e] = s /\ cpc[e] # "idle"
        /\ \A f \in Entry \ {e} : cpc'[f] = cpc[f]
    BY <1>1, Zenon DEF TablesInv, TableTypes, Creating
  <1>4. TableTypes' /\ OneMap' /\ FailoverComplete' /\ SubmitInv'
    BY <1>2, <1>3, Zenon DEF TablesInv, TableTypes, OneMap, FailoverComplete, SubmitInv,
       fsmVars
  <1>5. StartInv'
    BY <1>1, <1>2, <1>3, Zenon DEF TablesInv, StartInv, fsmVars, Creating
  <1>6. MasterInv'
    BY <1>1, <1>2, <1>3, Zenon DEF TablesInv, MasterInv
  <1> QED
    BY <1>4, <1>5, <1>6, Zenon DEF TablesInv

\* CreateWorkers for jobs that have been submitted.
LEMMA CreateTables ==
  ASSUME TablesInv, NEW S \in SUBSET WorkerID, CreateWorkers(S),
         UNCHANGED <<jobMeta, life, exited>>, mainPC # "init", mainPC' # "init",
         submitPC' \in [WorkerID -> {"new", "stored", "created", "done", "failed"}],
         \A j \in WorkerID : \/ submitPC'[j] = submitPC[j]
                             \/ submitPC[j] = "stored" /\ submitPC'[j] = "created",
         \A j \in S : submitPC'[j] \notin {"new", "stored"},
         OneMap', FailoverComplete',
         addFromFailover' \subseteq addFromFailover \cap waitAckJobs',
         pendingJobs' \cup waitAckJobs' \cup onlineJobs'
           \subseteq pendingJobs \cup waitAckJobs \cup onlineJobs
  PROVE  TablesInv'
  <1>1. /\ cpc' \in [Entry -> {"idle", "dispatching", "confirming", "dispatched",
                               "failed", "silent"}]
        /\ \A e \in Entry : cpc'[e] = cpc[e] \/ IdOf[e] \in S
        /\ \A e \in Entry : cpc'[e] = cpc[e] \/ cpc'[e] = "dispatching"
    BY CreateWorkersFact, Zenon
  <1>2. TableTypes'
    BY <1>1, Zenon DEF TablesInv, TableTypes
  <1>3. SubmitInv'
    BY Zenon DEF TablesInv, SubmitInv, Submitting
  <1>4. MasterInv'
    BY <1>1, Zenon DEF TablesInv, MasterInv
  <1> QED
    BY <1>2, <1>3, <1>4, Zenon DEF TablesInv, StartInv

\* SubmitJob's CreateWorker, and the two loops of Tick over jobs without a
\* master.
LEMMA CreatingTables ==
  ASSUME TablesInv,
         IterPendingJobs \/ IterWaitAckJobs \/ \E j \in WorkerID : SubmitCreate(j)
  PROVE  TablesInv'
  <1>1. /\ UNCHANGED <<jobMeta, life, exited>> /\ mainPC # "init" /\ mainPC' # "init"
    BY Zenon DEF IterPendingJobs, IterWaitAckJobs, SubmitCreate, CreateWorkers, Up,
       mainVars
  <1>2. CASE IterPendingJobs
    <2>1. PICK S \in SUBSET pendingJobs :
            /\ CreateWorkers(S)
            /\ pendingJobs' = pendingJobs \ S
            /\ waitAckJobs' = waitAckJobs \cup S
            /\ addFromFailover' = addFromFailover \ S
      BY <1>2, Zenon DEF IterPendingJobs
    <2>2. UNCHANGED <<submitPC, onlineJobs, tombstoneCleaned>>
      BY <1>2, Zenon DEF IterPendingJobs, rpcVars
    <2>3. /\ OneMap' /\ FailoverComplete'
          /\ addFromFailover' \subseteq addFromFailover \cap waitAckJobs'
          /\ pendingJobs' \cup waitAckJobs' \cup onlineJobs'
               \subseteq pendingJobs \cup waitAckJobs \cup onlineJobs
      BY <2>1, <2>2, Zenon DEF TablesInv, TableTypes, OneMap, FailoverComplete
    <2>4. S \subseteq WorkerID /\ \A j \in S : submitPC'[j] \notin {"new", "stored"}
      BY <2>2, Zenon DEF TablesInv, TableTypes, SubmitInv, Submitting
    <2>5. submitPC' \in [WorkerID -> {"new", "stored", "created", "done", "failed"}]
      BY <2>2, Zenon DEF TablesInv, TableTypes
    <2> QED
      BY <1>1, <2>1, <2>2, <2>3, <2>4, <2>5, CreateTables, Zenon
  <1>3. CASE IterWaitAckJobs
    <2>1. PICK S \in SUBSET addFromFailover :
            /\ CreateWorkers(S)
            /\ addFromFailover' = addFromFailover \ S
            /\ tombstoneCleaned' = (S = addFromFailover)
      BY <1>3, Zenon DEF IterWaitAckJobs
    <2>2. UNCHANGED <<submitPC, pendingJobs, waitAckJobs, onlineJobs>>
      BY <1>3, Zenon DEF IterWaitAckJobs, rpcVars
    <2>3. /\ OneMap'
          /\ addFromFailover' \subseteq addFromFailover \cap waitAckJobs'
          /\ pendingJobs' \cup waitAckJobs' \cup onlineJobs'
               \subseteq pendingJobs \cup waitAckJobs \cup onlineJobs
      BY <2>1, <2>2, Zenon DEF TablesInv, TableTypes, OneMap
    <2>4. FailoverComplete'
      BY <2>1, Zenon DEF FailoverComplete
    <2>5. S \subseteq WorkerID /\ \A j \in S : submitPC'[j] \notin {"new", "stored"}
      BY <2>2, Zenon DEF TablesInv, TableTypes, SubmitInv, Submitting
    <2>6. submitPC' \in [WorkerID -> {"new", "stored", "created", "done", "failed"}]
      BY <2>2, Zenon DEF TablesInv, TableTypes
    <2> QED
      BY <1>1, <2>1, <2>2, <2>3, <2>4, <2>5, <2>6, CreateTables, Zenon
  <1>4. ASSUME NEW j \in WorkerID, SubmitCreate(j)
        PROVE  TablesInv'
    <2>1. /\ CreateWorkers({j}) /\ UNCHANGED <<fsmVars, tombstoneCleaned>>
          /\ submitPC[j] = "stored" /\ submitPC' = [submitPC EXCEPT ![j] = "created"]
      BY <1>4, Zenon DEF SubmitCreate, mainVars
    <2>2. /\ submitPC' \in [WorkerID -> {"new", "stored", "created", "done", "failed"}]
          /\ submitPC'[j] = "created"
          /\ \A k \in WorkerID \ {j} : submitPC'[k] = submitPC[k]
      BY <2>1, Zenon DEF TablesInv, TableTypes
    <2>3. /\ OneMap' /\ FailoverComplete'
          /\ addFromFailover' \subseteq addFromFailover \cap waitAckJobs'
          /\ pendingJobs' \cup waitAckJobs' \cup onlineJobs'
               \subseteq pendingJobs \cup waitAckJobs \cup onlineJobs
      BY <2>1, Zenon DEF TablesInv, TableTypes, OneMap, FailoverComplete, fsmVars
    <2>4. {j} \in SUBSET WorkerID /\ \A k \in {j} : submitPC'[k] \notin {"new", "stored"}
      BY <2>2, Zenon
    <2>5. \A k \in WorkerID : \/ submitPC'[k] = submitPC[k]
                              \/ submitPC[k] = "stored" /\ submitPC'[k] = "created"
      BY <2>1, <2>2, Zenon
    <2> QED
      BY <1>1, <2>1, <2>2, <2>3, <2>4, <2>5, CreateTables, Zenon
  <1> QED
    BY <1>2, <1>3, <1>4, Zenon

\* The other calls that change the job table or the submissions.
LEMMA SubmitTables ==
  ASSUME TablesInv, NEW j \in WorkerID,
         SubmitStore(j) \/ SubmitFails(j) \/ SubmitDispatched(j) \/ CancelJobDelete(j)
  PROVE  TablesInv'
  <1>1. /\ UNCHANGED <<cpc, life, exited, tombstoneCleaned, mainPC>>
        /\ mainPC = "init" => CancelJobDelete(j)
    BY Zenon DEF SubmitStore, SubmitFails, SubmitDispatched, CancelJobDelete, mainVars,
       workerVars, Up
  <1>2. CASE SubmitStore(j) \/ SubmitFails(j)
    <2>1. PICK s, m : /\ \/ s = "stored" /\ m = "Uninit" /\ submitPC[j] = "new"
                         \/ s = "failed" /\ m = "none" /\ submitPC[j] = "stored"
                      /\ submitPC' = [submitPC EXCEPT ![j] = s]
                      /\ jobMeta' = [jobMeta EXCEPT ![j] = m]
      BY <1>2, Zenon DEF SubmitStore, SubmitFails
    <2>2. UNCHANGED fsmVars /\ mainPC # "init"
      BY <1>2, Zenon DEF SubmitStore, SubmitFails, Up
    <2>3. TableTypes'
      BY <1>1, <2>1, <2>2, Zenon DEF TablesInv, TableTypes, fsmVars
    <2>4. /\ submitPC'[j] = s /\ jobMeta'[j] = m
          /\ \A k \in WorkerID \ {j} : submitPC'[k] = submitPC[k] /\ jobMeta'[k] = jobMeta[k]
      BY <2>1, Zenon DEF TablesInv, TableTypes
    <2>5. SubmitInv'
      BY <1>1, <2>1, <2>2, <2>4 DEF TablesInv, SubmitInv, Submitting, Final, fsmVars
    <2>6. MasterInv'
      BY <1>1, <2>1, <2>4, Zenon DEF TablesInv, MasterInv
    <2> QED
      BY <1>1, <2>2, <2>3, <2>5, <2>6, Zenon DEF TablesInv, OneMap, FailoverComplete,
         StartInv,
         fsmVars
  <1>3. CASE SubmitDispatched(j)
    <2>1. /\ submitPC' = [submitPC EXCEPT ![j] = "done"] /\ submitPC[j] = "created"
          /\ waitAckJobs' = waitAckJobs \cup {j}
          /\ addFromFailover' = addFromFailover \ {j}
          /\ UNCHANGED <<pendingJobs, onlineJobs, jobMeta>> /\ mainPC # "init"
      BY <1>3, Zenon DEF SubmitDispatched, Up
    <2>2. /\ submitPC' \in [WorkerID -> {"new", "stored", "created", "done", "failed"}]
          /\ submitPC'[j] = "done"
          /\ \A k \in WorkerID \ {j} : submitPC'[k] = submitPC[k]
      BY <2>1, Zenon DEF TablesInv, TableTypes
    <2>3. j \notin pendingJobs /\ j \notin onlineJobs
      BY <2>1, Zenon DEF TablesInv, SubmitInv, Submitting
    <2>4. TableTypes'
      BY <1>1, <2>1, <2>2 DEF TablesInv, TableTypes
    <2>5. OneMap' /\ FailoverComplete'
      BY <1>1, <2>1, <2>3, Zenon DEF TablesInv, OneMap, FailoverComplete
    <2>6. SubmitInv'
      BY <1>1, <2>1, <2>2, Zenon DEF TablesInv, SubmitInv, Submitting
    <2>7. MasterInv'
      BY <1>1, <2>1, <2>2, Zenon DEF TablesInv, MasterInv
    <2> QED
      BY <1>1, <2>1, <2>4, <2>5, <2>6, <2>7, Zenon DEF TablesInv, StartInv
  <1>4. CASE CancelJobDelete(j)
    <2>1. UNCHANGED <<submitPC, fsmVars>> /\ jobMeta' = [jobMeta EXCEPT ![j] = "none"]
      BY <1>4, Zenon DEF CancelJobDelete
    <2>2. /\ jobMeta' \in [WorkerID -> {"none", "Uninit", "Init"} \cup Final]
          /\ jobMeta'[j] = "none"
          /\ \A k \in WorkerID \ {j} : jobMeta'[k] = jobMeta[k]
      BY <2>1, Zenon DEF TablesInv, TableTypes
    <2>3. SubmitInv'
      BY <1>1, <2>1, <2>2, Zenon DEF TablesInv, SubmitInv, Final, fsmVars
    <2> QED
      BY <1>1, <2>1, <2>2, <2>3, Zenon DEF TablesInv, TableTypes, OneMap,
         FailoverComplete,
         StartInv, MasterInv, fsmVars
  <1> QED
    BY <1>2, <1>3, <1>4, Zenon

\* What a step of a job master does to its life and to the job's row.
MasterMoves(e, l, m) ==
  /\ l \in {"launched", "first", "running", "exiting", "dead"}
  /\ life' = [life EXCEPT ![e] = l]
  /\ jobMeta' = [jobMeta EXCEPT ![IdOf[e]] = m]
  /\ m # jobMeta[IdOf[e]] =>
       /\ jobMeta[IdOf[e]] # "none"
       /\ \/ m = "Init" /\ exited' = exited /\ life[e] = "first"
          \/ m \in Final /\ l = "exiting"
  /\ exited' = IF l = "exiting" THEN exited \cup {e} ELSE exited
  /\ e \in exited => l = "dead"
  /\ cpc[e] # "idle"

\* The step of a job master.
MasterStep(e) ==
  \/ Launch(e) \/ JobMasterFirstStartUp(e) \/ JobMasterInit(e) \/ JobMasterRecovers(e)
  \/ JobMasterStops(e) \/ \E s \in Final \cup {"Error"} : JobMasterExit(e, s)

\* It moves the master on, and sets the row of a job that has one.
LEMMA MasterStepMoves ==
  ASSUME TablesInv, NEW e \in Entry, MasterStep(e)
  PROVE  \E l, m : MasterMoves(e, l, m)
  <1>1. IdOf[e] \in WorkerID
    BY Zenon
  <1>2. jobMeta = [jobMeta EXCEPT ![IdOf[e]] = jobMeta[IdOf[e]]]
    BY <1>1, Zenon DEF TablesInv, TableTypes
  <1>3. /\ life[e] # "none" => cpc[e] # "idle"
        /\ e \in exited => life[e] \in {"exiting", "dead"}
    BY Zenon DEF TablesInv, MasterInv
  <1>4. CASE Launch(e)
    <2>1. MasterMoves(e, "launched", jobMeta[IdOf[e]])
      BY <1>2, <1>3, <1>4, Zenon DEF Launch, MasterMoves
    <2> QED
      BY <2>1, Zenon
  <1>5. CASE JobMasterFirstStartUp(e)
    <2>1. MasterMoves(e, "first", jobMeta[IdOf[e]])
      BY <1>2, <1>3, <1>5, Zenon DEF JobMasterFirstStartUp, MasterMoves
    <2> QED
      BY <2>1, Zenon
  <1>6. CASE JobMasterInit(e)
    <2>1. MasterMoves(e, "running", IF jobMeta[IdOf[e]] = "none" THEN "none" ELSE "Init")
      BY <1>1, <1>3, <1>6, Zenon DEF JobMasterInit, TablesInv, TableTypes, MasterMoves
    <2> QED
      BY <2>1, Zenon
  <1>7. CASE JobMasterRecovers(e)
    <2>1. MasterMoves(e, "running", jobMeta[IdOf[e]])
      BY <1>2, <1>3, <1>7, Zenon DEF JobMasterRecovers, MasterMoves
    <2> QED
      BY <2>1, Zenon
  <1>8. CASE JobMasterStops(e)
    <2>1. MasterMoves(e, "dead", jobMeta[IdOf[e]])
      BY <1>2, <1>3, <1>8, Zenon DEF JobMasterStops, Alive, MasterMoves
    <2> QED
      BY <2>1, Zenon
  <1>9. ASSUME NEW s \in Final \cup {"Error"}, JobMasterExit(e, s)
        PROVE  MasterMoves(e, "exiting", jobMeta'[IdOf[e]])
    <2>1. /\ life[e] = "running" /\ life' = [life EXCEPT ![e] = "exiting"]
          /\ exited' = exited \cup {e}
          /\ jobMeta' = [jobMeta EXCEPT ![IdOf[e]] =
                           IF @ = "none" \/ s = "Error" THEN @ ELSE s]
      BY <1>9, Zenon DEF JobMasterExit
    <2> QED
      BY <1>1, <1>3, <2>1, Zenon DEF TablesInv, TableTypes, Final, MasterMoves
  <1> QED
    BY <1>4, <1>5, <1>6, <1>7, <1>8, <1>9, Zenon DEF MasterStep

\* The job masters.
LEMMA MasterTables ==
  ASSUME TablesInv, NEW e \in Entry, MasterStep(e)
  PROVE  TablesInv'
  <1>1. UNCHANGED <<fsmVars, submitPC, cpc, tombstoneCleaned, mainPC>>
    BY Zenon DEF MasterStep, Launch, JobMasterFirstStartUp, JobMasterInit,
       JobMasterRecovers,
       JobMasterStops, JobMasterExit, JobManagerUntouched, mainVars, rpcVars
  <1>2. PICK l, m : MasterMoves(e, l, m)
    BY MasterStepMoves, Zenon
  <1>3. /\ l \in {"launched", "first", "running", "exiting", "dead"}
        /\ life' \in [Entry -> {"none", "launched", "first", "running", "exiting", "dead"}]
        /\ life'[e] = l
        /\ \A f \in Entry \ {e} : life'[f] = life[f]
        /\ exited' = IF l = "exiting" THEN exited \cup {e} ELSE exited
        /\ e \in exited => l = "dead"
        /\ cpc[e] # "idle"
    BY <1>2, Zenon DEF MasterMoves, TablesInv, TableTypes
  <1>4. /\ jobMeta' \in [WorkerID -> {"none", "Uninit", "Init"} \cup Final]
        /\ \A j \in WorkerID : jobMeta'[j] # jobMeta[j] =>
             /\ j = IdOf[e] /\ jobMeta[j] # "none"
             /\ jobMeta'[j] = "Init" \/ l = "exiting"
    BY <1>2, Zenon DEF MasterMoves, TablesInv, TableTypes, Final
  <1>5. TableTypes'
    BY <1>1, <1>3, <1>4, Zenon DEF TablesInv, TableTypes, fsmVars
  <1>6. SubmitInv'
    BY <1>1, <1>3, <1>4, Zenon DEF TablesInv, SubmitInv, fsmVars, Final
  <1>7. MasterInv'
    BY <1>1, <1>3, Zenon DEF TablesInv, MasterInv
  <1> QED
    BY <1>1, <1>5, <1>6, <1>7, Zenon DEF TablesInv, OneMap, FailoverComplete,
       StartInv, fsmVars

\* A leader takes over, and recovers.
LEMMA LeaderTables ==
  ASSUME TablesInv, NewLeader \/ OnMasterRecovered
  PROVE  TablesInv'
  <1>1. UNCHANGED <<jobMeta, life, exited>>
    BY Zenon DEF NewLeader, OnMasterRecovered, workerVars
  <1>2. CASE NewLeader
    <2>1. /\ pendingJobs' = {} /\ waitAckJobs' = {} /\ onlineJobs' = {} /\ addFromFailover' = {}
          /\ tombstoneCleaned' = FALSE
          /\ submitPC' = [j \in WorkerID |->
               IF submitPC[j] \in {"stored", "created"} THEN "failed" ELSE submitPC[j]]
          /\ cpc' = [e \in Entry |->
               CASE cpc[e] = "dispatching" -> "failed"
                 [] cpc[e] = "confirming" -> "dispatched"
                 [] OTHER -> cpc[e]]
      BY <1>2, Zenon DEF NewLeader
    <2>2. \A j \in WorkerID : submitPC'[j] =
            IF submitPC[j] \in {"stored", "created"} THEN "failed" ELSE submitPC[j]
      BY <2>1, Zenon
    <2>3. \A e \in Entry : /\ cpc'[e] \notin Creating
                           /\ cpc'[e] # "idle" => cpc[e] # "idle"
                           /\ cpc[e] # "idle" => cpc'[e] # "idle"
      BY <2>1, Zenon DEF Creating
    <2>4. TableTypes'
      <3>1. submitPC' \in [WorkerID -> {"new", "stored", "created", "done", "failed"}]
        BY <2>1, Zenon DEF TablesInv, TableTypes
      <3>2. cpc' \in [Entry -> {"idle", "dispatching", "confirming", "dispatched",
                                "failed", "silent"}]
        BY <2>1, Zenon DEF TablesInv, TableTypes
      <3> QED
        BY <1>1, <2>1, <3>1, <3>2, Zenon DEF TablesInv, TableTypes
    <2>5. StartInv' /\ OneMap' /\ FailoverComplete'
      BY <2>1, <2>2, <2>3, Zenon DEF StartInv, OneMap, FailoverComplete
    <2>6. SubmitInv'
      BY <1>1, <2>1, <2>2, Zenon DEF TablesInv, SubmitInv
    <2>7. MasterInv'
      BY <1>1, <2>2, <2>3, Zenon DEF TablesInv, MasterInv
    <2> QED
      BY <2>4, <2>5, <2>6, <2>7, Zenon DEF TablesInv
  <1>3. CASE OnMasterRecovered
    <2>1. /\ waitAckJobs' = {j \in WorkerID : jobMeta[j] \notin {"none"} \cup Final}
          /\ addFromFailover' = waitAckJobs' /\ mainPC = "init" /\ mainPC' = "poll"
          /\ UNCHANGED <<pendingJobs, onlineJobs, submitPC, cpc, tombstoneCleaned>>
      BY <1>3, Zenon DEF OnMasterRecovered, rpcVars, workerVars
    <2>2. TableTypes' /\ OneMap' /\ FailoverComplete'
      BY <1>1, <2>1, Zenon DEF TablesInv, TableTypes, OneMap, FailoverComplete, StartInv
    <2>3. SubmitInv'
      BY <1>1, <2>1, Zenon DEF TablesInv, SubmitInv, StartInv, Submitting
    <2> QED
      BY <1>1, <2>1, <2>2, <2>3, Zenon DEF TablesInv, StartInv, MasterInv
  <1> QED
    BY <1>2, <1>3, Zenon

\* The steps that leave the tables alone.
OtherStep ==
  \/ \E j \in WorkerID : QueryJobPanics(j) \/ PauseJob(j) \/ CancelJobCheck(j)
  \/ PollFails \/ PollTick \/ PollTickReturn \/ OnWorkerStatusUpdated
  \/ OnWorkerOffline \/ OfflineClean \/ GetWorkers
  \/ \E v \in toVisit : VisitTombstone(v)
  \/ \E e \in Entry : \/ RefreshMasterInfo(e) \/ \E f \in BOOLEAN : DeliverPing(e, f)
                      \/ DeliverStatus(e) \/ LoseStatus(e) \/ Expire(e)
  \/ Checker \/ Recovery

\* They do.
LEMMA OtherTables ==
  ASSUME OtherStep
  PROVE  UNCHANGED tableVars /\ (mainPC' = "init" => mainPC = "init")
  <1>1. CASE \E j \in WorkerID : QueryJobPanics(j) \/ PauseJob(j) \/ CancelJobCheck(j)
    BY <1>1, Zenon DEF QueryJobPanics, PauseJob, CancelJobCheck, tableVars, rpcVars,
       mainVars,
       workerVars
  <1>2. CASE PollFails \/ PollTick \/ PollTickReturn \/ OnWorkerStatusUpdated
    BY <1>2, Zenon DEF PollFails, PollTick, PollTickReturn, OnWorkerStatusUpdated,
       tableVars,
       rpcVars, mainVars, workerVars
  <1>3. CASE OnWorkerOffline \/ OfflineClean \/ GetWorkers \/ \E v \in toVisit : VisitTombstone(v)
    BY <1>3, Zenon DEF OnWorkerOffline, OfflineClean, GetWorkers, VisitTombstone,
       CleanTombstone, tableVars, rpcVars, mainVars, workerVars
  <1>4. CASE \E e \in Entry : \/ RefreshMasterInfo(e) \/ \E f \in BOOLEAN : DeliverPing(e, f)
                              \/ DeliverStatus(e) \/ LoseStatus(e) \/ Expire(e)
    BY <1>4, Zenon DEF RefreshMasterInfo, DeliverPing, DeliverStatus, LoseStatus,
       Expire,
       JobManagerUntouched, tableVars, rpcVars, mainVars, workerVars
  <1>5. CASE Checker \/ Recovery
    BY <1>5, Zenon DEF Checker, Recovery, tableVars, rpcVars, mainVars, workerVars
  <1> QED
    BY <1>1, <1>2, <1>3, <1>4, <1>5, Zenon DEF OtherStep

\* Every step is one of those above.
LEMMA TablesStep ==
  ASSUME TablesInv, [Next]_vars
  PROVE  TablesInv'
  <1>1. CASE UNCHANGED vars
    BY <1>1, TablesKept, Zenon DEF vars, tableVars, rpcVars, mainVars, workerVars
  <1>2. CASE OtherStep
    BY <1>2, OtherTables, TablesKept, Zenon
  <1>3. CASE \E j \in WorkerID : Rpc(j)
    BY <1>2, <1>3, CreatingTables, SubmitTables, Zenon DEF Rpc, OtherStep
  <1>4. CASE \E e \in Entry : Creation(e) \/ Environment(e)
    BY <1>2, <1>4, CreationTables, MasterTables, Zenon DEF Environment, OtherStep,
       MasterStep
  <1>5. CASE Main
    BY <1>2, <1>5, LeaderTables, CallbackTables, CreatingTables, Zenon DEF Main,
       OtherStep
  <1>6. CASE Checker \/ Recovery \/ NewLeader
    BY <1>2, <1>6, LeaderTables, Zenon DEF OtherStep
  <1> QED
    BY <1>1, <1>3, <1>4, <1>5, <1>6, Zenon DEF Next

-----------------------------------------------------------------------------
(* The events, and what they say.                                          *)

\* The event in hand, if any, and the queue behind it, as one sequence.
Waiting == handling \o eventQueue

\* One of the masters of j has exited, and if the job table does not show j as
\* ended (or deleted) it is because another one contends.
EndedFor(j) ==
  /\ \E e \in exited : IdOf[e] = j
  /\ jobMeta[j] \in {"none"} \cup Final \/ Rivals(j)

\* What an event that waits says of its entry and of its job.
EventOK(ev) ==
  /\ ev.tp # "failed" => ev.entry \in Entry /\ ev.worker = IdOf[ev.entry]
  /\ ev.tp = "online" => entryState[ev.entry] \in {"Normal", "Offline"}
  /\ ev.tp = "offline" => /\ entryState[ev.entry] = "Offline"
                          /\ ev.arg # "ErrWorkerOffline" => EndedFor(ev.worker)
  /\ ev.tp = "status" => /\ ev.arg \in Final \cup {"Error"}
                         /\ ev.arg \in Final => EndedFor(ev.worker)
  /\ mainPC = "init" => ev.tp \notin {"online", "failed"}

\* Nothing about an entry comes after the event that it went offline, status
\* updates aside.
MayPrecede(a, b) ==
  a.tp = "offline" /\ b.tp \in {"online", "offline"} => a.entry # b.entry

QueueInv ==
  /\ \A i \in 1 .. Len(Waiting) : EventOK(Waiting[i])
  /\ \A i, j \in 1 .. Len(Waiting) : i < j => MayPrecede(Waiting[i], Waiting[j])

ManagerTypes ==
  /\ workerEntries \in [WorkerID -> Entry \cup {NoEntry}]
  /\ entryState \in [Entry -> EntryStates]
  /\ finished \subseteq Entry /\ expired \subseteq Entry
  /\ status \in [Entry -> StatusCodes]
  /\ eventQueue \in Seq(Event)
  /\ handling \in Seq(Event) /\ Len(handling) <= 1
  /\ sweep \subseteq Entry

StatusMsg == [epoch : 0 .. MaxEpoch, code : Final \cup {"Error"}]

MessageTypes ==
  /\ workerEpoch \in [Entry -> 0 .. MaxEpoch] /\ epoch \in 0 .. MaxEpoch
  /\ statusMsg \in [Entry -> Seq(StatusMsg)]
  /\ workerMeta \in [WorkerID -> {"none", "Init"}]

\* A final status that a master has sent, or that the manager has recorded.
EndedInv ==
  /\ \A e \in Entry : status[e] \in Final => EndedFor(IdOf[e])
  /\ \A e \in Entry :
       Len(statusMsg[e]) # 0 /\ statusMsg[e][1].code \in Final => EndedFor(IdOf[e])
  /\ mainPC \in {"clean", "offline"} =>
       /\ Len(offlineArg) = 1
       /\ offlineArg[1].worker \in WorkerID
       /\ offlineArg[1].reason # "ErrWorkerOffline" => EndedFor(offlineArg[1].worker)

\* A manager that recovers has one entry for each worker it found.
RecoveryInv ==
  /\ wmState # "Ready" => mainPC = "init" /\ sweep = {}
  /\ mainPC = "init" =>
       /\ handling = <<>>
       /\ \A e \in Entry : /\ entryState[e] # "Created"
                           /\ entryState[e] # "Unused" => InEntries(e)
  /\ wmState = "LoadingMeta" => \A e \in Entry : entryState[e] = "Unused"
  /\ wmState = "WaitingHeartbeat" =>
       \A e \in Entry : entryState[e] \in {"Unused", "Wait", "Normal"}
  /\ wmState = "Ready" => \A e \in Entry : entryState[e] # "Wait"

EntryInv ==
  /\ \A e \in Entry : cpc[e] \in {"idle", "dispatching"} =>
       entryState[e] = "Unused" /\ e \notin expired /\ e \notin finished
  /\ \A w \in WorkerID : workerEntries[w] # NoEntry =>
       IdOf[workerEntries[w]] = w /\ entryState[workerEntries[w]] # "Unused"
  /\ \A e \in sweep : /\ entryState[e] \in {"Created", "Normal"}
                      /\ e \in expired \/ e \in finished

EventsInv ==
  /\ ManagerTypes /\ MessageTypes /\ QueueInv /\ EndedInv /\ RecoveryInv /\ EntryInv

\* The first leader.
LEMMA EventsInit == Init => EventsInv
  <1> SUFFICES ASSUME Init PROVE EventsInv
    BY Zenon
  <1> USE DEF Init
  <1>1. ManagerTypes /\ MessageTypes
    BY EpochAssumption DEF ManagerTypes, MessageTypes, EntryStates, StatusCodes,
       StatusMsg
  <1>2. QueueInv
    BY DEF QueueInv, Waiting
  <1>3. \A e \in Entry : /\ entryState[e] = "Unused" /\ status[e] = "Created"
                         /\ Len(statusMsg[e]) = 0
    OBVIOUS
  <1>4. EndedInv
    BY <1>3, Zenon DEF EndedInv, Final
  <1>5. RecoveryInv
    BY <1>3, Zenon DEF RecoveryInv
  <1>6. EntryInv
    BY <1>3, Zenon DEF EntryInv
  <1> QED
    BY <1>1, <1>2, <1>4, <1>5, <1>6, Zenon DEF EventsInv

\* Jobs that have ended stay ended, and rivals stay rivals.
EndedKept ==
  \A j \in WorkerID : (EndedFor(j) => EndedFor(j)') /\ (Rivals(j) => Rivals(j)')

\* A job that has ended as far as EndedFor can tell stays so: only a rival of
\* the master that ended it brings its row back.
LEMMA EndedStable ==
  ASSUME TablesInv, [Next]_vars
  PROVE  EndedKept
  <1>1. ASSUME exited \subseteq exited',
               \A e \in Entry : life[e] # "none" => life'[e] # "none",
               \A j \in WorkerID :
                 \/ jobMeta'[j] = jobMeta[j]
                 \/ jobMeta'[j] \in {"none"} \cup Final
                 \/ submitPC[j] = "new"
                 \/ \E f \in Entry : IdOf[f] = j /\ life[f] = "first"
        PROVE  EndedKept
    <2>0. ASSUME NEW j \in WorkerID, Rivals(j) PROVE Rivals(j)'
      <3>1. PICK e \in exited, f \in Entry :
              e # f /\ IdOf[e] = j /\ IdOf[f] = j /\ life[f] # "none"
        BY <2>0, Zenon DEF Rivals
      <3>2. e \in exited' /\ life'[f] # "none"
        BY <1>1, <3>1, Zenon
      <3> QED
        BY <3>1, <3>2, Zenon DEF Rivals
    <2> SUFFICES ASSUME NEW j \in WorkerID, EndedFor(j) PROVE EndedFor(j)'
      BY <2>0, Zenon DEF EndedKept
    <2>1. PICK e \in exited : IdOf[e] = j
      BY Zenon DEF EndedFor
    <2>2. e \in Entry /\ life[e] \in {"exiting", "dead"} /\ submitPC[j] # "new"
      BY <2>1, Zenon DEF TablesInv, TableTypes, MasterInv
    <2>3. ASSUME NEW f \in Entry, IdOf[f] = j, life[f] = "first"
          PROVE  Rivals(j)'
      <3>1. e # f /\ life'[f] # "none" /\ e \in exited'
        BY <1>1, <2>1, <2>2, <2>3, Zenon
      <3> QED
        BY <2>1, <2>3, <3>1, Zenon DEF Rivals
    <2> QED
      BY <1>1, <2>0, <2>1, <2>2, <2>3, Zenon DEF EndedFor
  <1>2. CASE UNCHANGED <<exited, life, jobMeta>>
    BY <1>1, <1>2, Zenon
  <1>3. ASSUME NEW e \in Entry, MasterStep(e)
        PROVE  EndedKept
    <2>1. PICK l, m : MasterMoves(e, l, m)
      BY <1>3, MasterStepMoves, Zenon
    <2>2. /\ exited \subseteq exited'
          /\ \A f \in Entry : life[f] # "none" => life'[f] # "none"
      BY <2>1, Zenon DEF MasterMoves, TablesInv, TableTypes
    <2>3. \A j \in WorkerID : jobMeta'[j] = IF j = IdOf[e] THEN m ELSE jobMeta[j]
      BY <2>1, Zenon DEF MasterMoves, TablesInv, TableTypes
    <2>4. m = jobMeta[IdOf[e]] \/ m \in Final \/ life[e] = "first"
      BY <2>1, Zenon DEF MasterMoves
    <2> QED
      BY <1>1, <2>2, <2>3, <2>4, Zenon
  <1>4. ASSUME NEW j \in WorkerID,
               SubmitStore(j) \/ SubmitFails(j) \/ CancelJobDelete(j)
        PROVE  EndedKept
    <2>1. UNCHANGED <<exited, life>>
      BY <1>4, Zenon DEF SubmitStore, SubmitFails, CancelJobDelete, workerVars
    <2>2. PICK m : /\ jobMeta' = [jobMeta EXCEPT ![j] = m]
                   /\ m = "none" \/ submitPC[j] = "new"
      BY <1>4, Zenon DEF SubmitStore, SubmitFails, CancelJobDelete
    <2>3. \A k \in WorkerID : jobMeta'[k] = IF k = j THEN m ELSE jobMeta[k]
      BY <2>2, Zenon DEF TablesInv, TableTypes
    <2> QED
      BY <1>1, <2>1, <2>2, <2>3, Zenon
  <1>5. CASE UNCHANGED vars \/ OtherStep
    BY <1>2, <1>5, OtherTables, Zenon DEF vars, workerVars, tableVars
  <1>6. CASE \E j \in WorkerID : Rpc(j)
    <2>1. ASSUME NEW j \in WorkerID, SubmitCreate(j) \/ SubmitDispatched(j)
          PROVE  UNCHANGED <<exited, life, jobMeta>>
      BY <2>1, Zenon DEF SubmitCreate, SubmitDispatched, CreateWorkers, workerVars
    <2> QED
      BY <1>2, <1>4, <1>5, <1>6, <2>1, Zenon DEF Rpc, OtherStep
  <1>7. CASE \E e \in Entry : Creation(e) \/ Environment(e)
    <2>1. ASSUME NEW e \in Entry, Creation(e)
          PROVE  UNCHANGED <<exited, life, jobMeta>>
      BY <2>1, Zenon DEF Creation, CreateAborted, CreateFailedSilently, StartTimer,
         ConfirmReturned
    <2> QED
      BY <1>2, <1>3, <1>5, <1>7, <2>1, Zenon DEF Environment, OtherStep, MasterStep
  <1>8. CASE Main
    <2>1. CASE \/ OnMasterRecovered \/ OnWorkerOnline \/ OnWorkerDispatched \/ JobOffline
               \/ IterPendingJobs \/ IterWaitAckJobs \/ \E v \in toVisit : VisitRunning(v)
      <3>1. UNCHANGED <<exited, life, jobMeta>>
        BY <2>1, Zenon DEF OnMasterRecovered, OnWorkerOnline, OnWorkerDispatched,
           JobOffline,
           IterPendingJobs, IterWaitAckJobs, VisitRunning, CreateWorkers, workerVars
      <3> QED
        BY <1>2, <3>1, Zenon
    <2> QED
      BY <1>5, <1>8, <2>1, Zenon DEF Main, OtherStep
  <1>9. CASE Checker \/ Recovery \/ NewLeader
    <2>1. CASE NewLeader
      BY <1>2, <2>1, Zenon DEF NewLeader
    <2> QED
      BY <1>5, <1>9, <2>1, Zenon DEF OtherStep
  <1> QED
    BY <1>5, <1>6, <1>7, <1>8, <1>9, Zenon DEF Next

-----------------------------------------------------------------------------
(* The queue.                                                              *)

\* Waiting is a sequence of events.
LEMMA WaitingType == ManagerTypes => Waiting \in Seq(Event)
  BY DEF ManagerTypes, Waiting

\* When no event comes or goes and what the events say stays true, QueueInv does.
LEMMA QueueKept ==
  ASSUME ManagerTypes, QueueInv, Waiting' = Waiting,
         \A ev \in Event : EventOK(ev) => EventOK(ev)'
  PROVE  QueueInv'
  <1>1. \A i \in 1 .. Len(Waiting) : Waiting[i] \in Event
    BY WaitingType
  <1>2. \A i \in 1 .. Len(Waiting) : EventOK(Waiting[i])'
    BY <1>1, Zenon DEF QueueInv
  <1> QED
    BY <1>2, Zenon DEF QueueInv

\* An event is appended, or the queue is full and it is not.
LEMMA QueueGrows ==
  ASSUME ManagerTypes, QueueInv, NEW ev \in Event, NEW who,
         EnqueueEvent(ev, who), handling' = handling,
         \A old \in Event : EventOK(old) => EventOK(old)',
         EventOK(ev)',
         \A old \in Event : EventOK(old) => MayPrecede(old, ev)
  PROVE  QueueInv'
  <1>1. CASE eventQueue' = eventQueue
    <2>1. Waiting' = Waiting
      BY <1>1, Zenon DEF Waiting
    <2> QED
      BY <2>1, QueueKept, Zenon
  <1>2. CASE eventQueue' = Append(eventQueue, ev)
    <2>1. PICK n \in Nat :
            /\ n = Len(Waiting) /\ Waiting \in Seq(Event)
            /\ \A i \in 1 .. n : Waiting[i] \in Event /\ EventOK(Waiting[i])
      BY WaitingType DEF QueueInv
    <2>2. Waiting' = Append(Waiting, ev)
      BY <1>2 DEF Waiting, ManagerTypes
    <2>3. /\ Len(Waiting') = n + 1 /\ Waiting'[n + 1] = ev
          /\ \A i \in 1 .. n : Waiting'[i] = Waiting[i]
      BY <2>1, <2>2
    <2>4. \A i \in 1 .. n + 1 : EventOK(Waiting[i])'
      <3>1. \A i \in 1 .. n : EventOK(Waiting[i])'
        BY <2>1, <2>3, Zenon
      <3>2. EventOK(Waiting[n + 1])'
        BY <2>3, Zenon
      <3> QED
        BY <2>1, <3>1, <3>2
    <2>5. \A i \in 1 .. n : MayPrecede(Waiting'[i], ev)
      BY <2>1, <2>3, Zenon
    <2>6. \A i, j \in 1 .. n + 1 : i < j => MayPrecede(Waiting'[i], Waiting'[j])
      BY <2>1, <2>3, <2>5 DEF QueueInv
    <2> QED
      BY <2>3, <2>4, <2>6, Zenon DEF QueueInv
  <1> QED
    BY <1>1, <1>2, Zenon DEF EnqueueEvent

\* enqueueEvent appends an event.
LEMMA EnqueueTyped ==
  ASSUME ManagerTypes, NEW ev \in Event, NEW who, EnqueueEvent(ev, who)
  PROVE  eventQueue' \in Seq(Event)
  <1>1. eventQueue \in Seq(Event)
    BY Zenon DEF ManagerTypes
  <1>2. eventQueue' = eventQueue \/ eventQueue' = Append(eventQueue, ev)
    BY Zenon DEF EnqueueEvent
  <1> QED
    BY <1>1, <1>2

\* The event in hand is dealt with; the others were allowed to come after it.
LEMMA QueueShrinks ==
  ASSUME ManagerTypes, QueueInv, handling # <<>>, handling' = <<>>,
         eventQueue' = eventQueue,
         \A ev \in Event : EventOK(ev) /\ MayPrecede(handling[1], ev) => EventOK(ev)'
  PROVE  QueueInv'
  <1> DEFINE n == Len(eventQueue)
  <1>1. /\ Len(Waiting) = n + 1 /\ Waiting[1] = handling[1] /\ n \in Nat
        /\ \A i \in 1 .. n : Waiting[i + 1] = eventQueue[i] /\ eventQueue[i] \in Event
    BY DEF ManagerTypes, Waiting
  <1>2. Waiting' = eventQueue
    BY DEF Waiting, ManagerTypes
  <1>3. \A i \in 1 .. n : EventOK(eventQueue[i]) /\ MayPrecede(handling[1], eventQueue[i])
    BY <1>1 DEF QueueInv
  <1>4. \A i \in 1 .. n : EventOK(Waiting[i])'
    BY <1>1, <1>2, <1>3, Zenon
  <1>5. \A i, j \in 1 .. n : i < j => MayPrecede(eventQueue[i], eventQueue[j])
    <2> SUFFICES ASSUME NEW i \in 1 .. n, NEW j \in 1 .. n, i < j
                 PROVE  MayPrecede(eventQueue[i], eventQueue[j])
      BY Zenon
    <2>1. i + 1 \in 1 .. n + 1 /\ j + 1 \in 1 .. n + 1 /\ i + 1 < j + 1
      BY <1>1
    <2>2. MayPrecede(Waiting[i + 1], Waiting[j + 1])
      BY <1>1, <2>1, Zenon DEF QueueInv
    <2> QED
      BY <1>1, <2>2, Zenon
  <1> QED
    BY <1>2, <1>4, <1>5, Zenon DEF QueueInv

\* The event in hand is one of those QueueInv speaks of.
LEMMA InHand ==
  ASSUME ManagerTypes, QueueInv, handling # <<>>
  PROVE  handling[1] \in Event /\ EventOK(handling[1])
  <1>1. /\ Len(Waiting) \in Nat /\ 1 <= Len(Waiting) /\ Waiting[1] = handling[1]
        /\ handling[1] \in Event
    BY DEF ManagerTypes, Waiting
  <1> QED
    BY <1>1 DEF QueueInv

-----------------------------------------------------------------------------
(* The steps that leave the queue and the entries alone.                    *)

entryVars == <<wmState, workerEntries, entryState, finished, expired, status, eventQueue,
               handling, sweep>>

\* How a step may move the main goroutine and the goroutines of CreateWorker
\* without an event.
MainGoesOn ==
  /\ mainPC' = "init" => mainPC = "init"
  /\ mainPC = "init" => mainPC' = "init" \/ wmState = "Ready"
  /\ mainPC' \in {"clean", "offline"} =>
       mainPC \in {"clean", "offline"} /\ UNCHANGED offlineArg
  /\ \A e \in Entry : cpc'[e] \in {"idle", "dispatching"} => cpc[e] \in {"idle", "dispatching"}

\* A step that leaves the entries, the queue and the checker alone keeps EventsInv.
LEMMA EntriesKept ==
  ASSUME EventsInv, EndedKept, UNCHANGED entryVars, MainGoesOn,
         MessageTypes',
         \A e \in Entry : Len(statusMsg'[e]) # 0 /\ statusMsg'[e][1].code \in Final
                           => EndedFor(IdOf[e])'
  PROVE  EventsInv'
  <1> USE DEF EventsInv, entryVars
  <1>1. ManagerTypes'
    BY Zenon DEF ManagerTypes
  <1>2. QueueInv'
    <2>1. \A ev \in Event : EventOK(ev) => EventOK(ev)'
      <3> SUFFICES ASSUME NEW ev \in Event, EventOK(ev) PROVE EventOK(ev)'
        BY Zenon
      <3>1. ev.worker \in WorkerID
        BY Zenon DEF Event
      <3>2. EndedFor(ev.worker) => EndedFor(ev.worker)'
        BY <3>1, Zenon DEF EndedKept
      <3> QED
        BY <3>2, Zenon DEF EventOK, MainGoesOn
    <2>2. Waiting' = Waiting
      BY Zenon DEF Waiting
    <2> QED
      BY <2>1, <2>2, QueueKept, Zenon
  <1>3. EndedInv'
    BY Zenon DEF EndedInv, EndedKept, MainGoesOn
  <1>4. RecoveryInv'
    BY Zenon DEF RecoveryInv, MainGoesOn, InEntries
  <1>5. EntryInv'
    BY Zenon DEF EntryInv, MainGoesOn
  <1> QED
    BY <1>1, <1>2, <1>3, <1>4, <1>5, Zenon

\* No message comes or goes.
LEMMA MessagesKept ==
  ASSUME EventsInv, EndedKept, UNCHANGED <<statusMsg, workerMeta, workerEpoch, epoch>>
  PROVE  /\ MessageTypes'
         /\ \A e \in Entry : Len(statusMsg'[e]) # 0 /\ statusMsg'[e][1].code \in Final
                               => EndedFor(IdOf[e])'
  BY Zenon DEF EventsInv, MessageTypes, EndedInv, EndedKept

\* The RPCs, the main goroutine between events, the goroutines of CreateWorker
\* that have nothing to report.
QuietStep ==
  \/ \E j \in WorkerID : \/ SubmitStore(j) \/ SubmitCreate(j) \/ SubmitFails(j)
                         \/ SubmitDispatched(j) \/ QueryJobPanics(j) \/ PauseJob(j)
                         \/ CancelJobCheck(j) \/ CancelJobDelete(j)
  \/ \E e \in Entry : CreateFailedSilently(e) \/ ConfirmReturned(e)
  \/ OnMasterRecovered \/ PollFails \/ (PollTick /\ TickBegin) \/ PollTickReturn
  \/ JobOffline \/ IterPendingJobs \/ GetWorkers \/ IterWaitAckJobs
  \/ \E v \in toVisit : VisitRunning(v)

\* They leave the queue, the entries and the messages alone.
LEMMA QuietKeeps ==
  ASSUME TablesInv, QuietStep
  PROVE  UNCHANGED <<entryVars, statusMsg, workerMeta, workerEpoch, epoch>> /\ MainGoesOn
  <1>1. ASSUME NEW S, CreateWorkers(S), mainPC # "init", mainPC' # "init",
               mainPC' \notin {"clean", "offline"} \/ UNCHANGED <<mainPC, offlineArg>>
        PROVE  /\ UNCHANGED <<entryVars, statusMsg, workerMeta, workerEpoch, epoch>>
               /\ MainGoesOn
    <2>1. \A e \in Entry : cpc'[e] = cpc[e] \/ cpc[e] = "idle"
      BY <1>1, CreateWorkersFact, Zenon
    <2> QED
      BY <1>1, <2>1, Zenon DEF CreateWorkers, entryVars, MainGoesOn
  <1>2. ASSUME NEW e \in Entry, CreateFailedSilently(e) \/ ConfirmReturned(e)
        PROVE  /\ UNCHANGED <<entryVars, statusMsg, workerMeta, workerEpoch, epoch>>
               /\ MainGoesOn
    <2>1. PICK s \in {"silent", "dispatched"} : cpc' = [cpc EXCEPT ![e] = s]
      BY <1>2, Zenon DEF CreateFailedSilently, ConfirmReturned
    <2>2. \A f \in Entry : cpc'[f] \in {"idle", "dispatching"} => cpc'[f] = cpc[f]
      BY <2>1, Zenon DEF TablesInv, TableTypes
    <2>3. UNCHANGED <<managerVars, mainPC, offlineArg, statusMsg, workerMeta, workerEpoch>>
      BY <1>2, Zenon DEF CreateFailedSilently, ConfirmReturned, mainVars
    <2> QED
      BY <2>2, <2>3, Zenon DEF managerVars, entryVars, MainGoesOn
  <1>3. ASSUME NEW j \in WorkerID, SubmitCreate(j)
        PROVE  /\ UNCHANGED <<entryVars, statusMsg, workerMeta, workerEpoch, epoch>>
               /\ MainGoesOn
    BY <1>1, <1>3, Zenon DEF SubmitCreate, mainVars, Up
  <1>4. ASSUME NEW j \in WorkerID,
               \/ SubmitStore(j) \/ SubmitFails(j) \/ SubmitDispatched(j) \/ QueryJobPanics(j)
               \/ PauseJob(j) \/ CancelJobCheck(j) \/ CancelJobDelete(j)
        PROVE  /\ UNCHANGED <<entryVars, statusMsg, workerMeta, workerEpoch, epoch>>
               /\ MainGoesOn
    <2>1. CASE QueryJobPanics(j)
      BY <2>1, Zenon DEF QueryJobPanics, workerVars, entryVars, MainGoesOn, Up
    <2>2. CASE ~QueryJobPanics(j)
      BY <1>4, <2>2, Zenon DEF SubmitStore, SubmitFails, SubmitDispatched, PauseJob,
         CancelJobCheck, CancelJobDelete, managerVars, mainVars, workerVars, entryVars,
         MainGoesOn
    <2> QED
      BY <2>1, <2>2, Zenon
  <1>5. CASE IterPendingJobs \/ IterWaitAckJobs
    <2>1. PICK S : CreateWorkers(S)
      BY <1>5, Zenon DEF IterPendingJobs, IterWaitAckJobs
    <2>2. mainPC # "init" /\ mainPC' \notin {"init", "clean", "offline"}
      BY <1>5, SMTT(40) DEF IterPendingJobs, IterWaitAckJobs
    <2> QED
      BY <1>1, <2>1, <2>2, Zenon
  <1>6. CASE \/ OnMasterRecovered \/ PollFails \/ JobOffline \/ GetWorkers
             \/ \E v \in toVisit : VisitRunning(v)
    BY <1>6, Zenon DEF OnMasterRecovered, PollFails, JobOffline, GetWorkers, VisitRunning,
       managerVars, workerVars, entryVars, MainGoesOn
  <1>7. CASE (PollTick /\ TickBegin) \/ PollTickReturn
    BY <1>7, Zenon DEF PollTick, TickBegin, PollTickReturn, TickReturn, mainVars, workerVars,
       entryVars, MainGoesOn
  <1> QED
    BY <1>2, <1>3, <1>4, <1>5, <1>6, <1>7, Zenon DEF QuietStep

\* A quiet step keeps EventsInv.
LEMMA QuietEvents ==
  ASSUME TablesInv, EventsInv, EndedKept, QuietStep
  PROVE  EventsInv'
  BY QuietKeeps, MessagesKept, EntriesKept, Zenon

\* The job masters: the final status is sent once the job table has been told.
LEMMA MasterEvents ==
  ASSUME TablesInv, EventsInv, EndedKept, NEW e \in Entry,
         MasterStep(e) \/ RefreshMasterInfo(e) \/ LoseStatus(e)
  PROVE  EventsInv'
  <1> USE DEF EventsInv
  <1>1. UNCHANGED <<managerVars, mainPC, offlineArg, cpc>>
    BY Zenon DEF MasterStep, Launch, JobMasterFirstStartUp, JobMasterInit,
       JobMasterRecovers,
       JobMasterStops, JobMasterExit, RefreshMasterInfo, LoseStatus, JobManagerUntouched,
       mainVars
  <1>2. UNCHANGED entryVars /\ MainGoesOn /\ UNCHANGED epoch
    BY <1>1, Zenon DEF managerVars, entryVars, MainGoesOn
  <1>3. CASE UNCHANGED statusMsg
    <2>1. workerEpoch' \in [Entry -> 0 .. MaxEpoch]
      <3>1. workerEpoch' = workerEpoch \/ workerEpoch' = [workerEpoch EXCEPT ![e] = epoch]
        BY <1>3, Zenon DEF MasterStep, Launch, JobMasterFirstStartUp, JobMasterInit,
           JobMasterRecovers, JobMasterStops, JobMasterExit, RefreshMasterInfo,
           LoseStatus
      <3> QED
        BY <3>1, Zenon DEF MessageTypes
    <2>2. workerMeta' \in [WorkerID -> {"none", "Init"}]
      <3>1. \/ workerMeta' = workerMeta
            \/ workerMeta' = [workerMeta EXCEPT ![IdOf[e]] = "Init"]
        BY <1>3, Zenon DEF MasterStep, Launch, JobMasterFirstStartUp, JobMasterInit,
           JobMasterRecovers, JobMasterStops, JobMasterExit, RefreshMasterInfo,
           LoseStatus
      <3> QED
        BY <3>1, Zenon DEF MessageTypes
    <2>3. MessageTypes'
      BY <1>2, <1>3, <2>1, <2>2, Zenon DEF MessageTypes
    <2>4. \A f \in Entry : Len(statusMsg'[f]) # 0 /\ statusMsg'[f][1].code \in Final
                             => EndedFor(IdOf[f])'
      BY <1>3, Zenon DEF EndedInv, EndedKept
    <2> QED
      BY <1>2, <2>3, <2>4, EntriesKept, Zenon
  <1>4. CASE LoseStatus(e)
    <2>1. statusMsg' = [statusMsg EXCEPT ![e] = <<>>] /\ UNCHANGED <<workerEpoch, workerMeta>>
      BY <1>4, Zenon DEF LoseStatus
    <2>2. /\ statusMsg' \in [Entry -> Seq(StatusMsg)]
          /\ Len(statusMsg'[e]) = 0
          /\ \A f \in Entry \ {e} : statusMsg'[f] = statusMsg[f]
      BY <2>1 DEF MessageTypes
    <2>3. MessageTypes'
      BY <1>2, <2>1, <2>2, Zenon DEF MessageTypes
    <2>4. \A f \in Entry : Len(statusMsg'[f]) # 0 /\ statusMsg'[f][1].code \in Final
                             => EndedFor(IdOf[f])'
      BY <2>2, Zenon DEF EndedInv, EndedKept
    <2> QED
      BY <1>2, <2>3, <2>4, EntriesKept, Zenon
  <1>5. ASSUME NEW s \in Final \cup {"Error"}, JobMasterExit(e, s)
        PROVE  EventsInv'
    <2> DEFINE msg == [epoch |-> workerEpoch[e], code |-> s]
    <2>1. /\ statusMsg' = [statusMsg EXCEPT ![e] = <<msg>>]
          /\ exited' = exited \cup {e}
          /\ jobMeta' = [jobMeta EXCEPT ![IdOf[e]] = IF @ = "none" \/ s = "Error" THEN @ ELSE s]
          /\ UNCHANGED <<workerEpoch, workerMeta>>
      BY <1>5, Zenon DEF JobMasterExit
    <2>2. msg \in StatusMsg
      BY Zenon DEF MessageTypes, StatusMsg
    <2>3. /\ statusMsg' \in [Entry -> Seq(StatusMsg)]
          /\ statusMsg'[e] = <<msg>>
          /\ \A f \in Entry \ {e} : statusMsg'[f] = statusMsg[f]
      BY <2>1, <2>2 DEF MessageTypes
    <2>4. MessageTypes'
      BY <1>2, <2>1, <2>3, Zenon DEF MessageTypes
    <2>5. s \in Final => EndedFor(IdOf[e])'
      <3>1. s \in Final => jobMeta'[IdOf[e]] \in {"none"} \cup Final
        BY <2>1 DEF TablesInv, TableTypes, Final
      <3> QED
        BY <2>1, <3>1, Zenon DEF EndedFor
    <2>6. statusMsg'[e][1].code = s
      BY <2>3
    <2>7. \A f \in Entry : Len(statusMsg'[f]) # 0 /\ statusMsg'[f][1].code \in Final
                             => EndedFor(IdOf[f])'
      BY <2>3, <2>5, <2>6, Zenon DEF EndedInv, EndedKept
    <2> QED
      BY <1>2, <2>4, <2>7, EntriesKept, Zenon
  <1>6. UNCHANGED statusMsg \/ LoseStatus(e) \/ \E s \in Final \cup {"Error"} : JobMasterExit(e, s)
    BY Zenon DEF MasterStep, Launch, JobMasterFirstStartUp, JobMasterInit,
       JobMasterRecovers,
       JobMasterStops, RefreshMasterInfo
  <1> QED
    BY <1>3, <1>4, <1>5, <1>6, Zenon

-----------------------------------------------------------------------------
(* The steps that change entries or events.                                 *)

\* What EndedInv needs of a step that changes no status and no message.
LEMMA EndedUntouched ==
  ASSUME EventsInv, EndedKept, UNCHANGED <<status, statusMsg, offlineArg>>,
         mainPC' \in {"clean", "offline"} => mainPC \in {"clean", "offline"}
  PROVE  EndedInv'
  BY Zenon DEF EventsInv, EndedInv, EndedKept

\* What an event says stays true when no entry changes that it is about.
LEMMA EventKept ==
  ASSUME EndedKept, NEW ev \in Event, EventOK(ev), mainPC' = "init" => mainPC = "init",
         ev.tp \in {"online", "offline"} =>
           \/ entryState'[ev.entry] = entryState[ev.entry]
           \/ entryState'[ev.entry] = "Offline"
  PROVE  EventOK(ev)'
  <1>1. ev.worker \in WorkerID
    BY Zenon DEF Event
  <1>2. EndedFor(ev.worker) => EndedFor(ev.worker)'
    BY <1>1, Zenon DEF EndedKept
  <1> QED
    BY <1>2, Zenon DEF EventOK

\* Outside of its recovery the manager is Ready.
LEMMA MainIsReady ==
  ASSUME EventsInv, mainPC # "init"
  PROVE  wmState = "Ready"
  BY Zenon DEF EventsInv, RecoveryInv

\* BeforeStartingWorker adds an entry, which no event is about.
LEMMA StartTimerEvents ==
  ASSUME TablesInv, EventsInv, EndedKept, NEW e \in Entry, StartTimer(e)
  PROVE  EventsInv'
  <1> USE DEF EventsInv
  <1>1. /\ cpc[e] = "dispatching" /\ cpc' = [cpc EXCEPT ![e] = "confirming"]
        /\ sweep = {} /\ entryState[e] = "Unused" /\ mainPC # "init"
        /\ workerEntries' = [workerEntries EXCEPT ![IdOf[e]] = e]
        /\ entryState' = [entryState EXCEPT ![e] = "Created"]
        /\ UNCHANGED <<wmState, finished, expired, status, eventQueue, handling, sweep, epoch,
                       mainPC, offlineArg, statusMsg, workerMeta, workerEpoch>>
    BY Zenon DEF StartTimer, BeforeStartingWorker, MuFree, Up, mainVars
  <1>2. /\ entryState'[e] = "Created" /\ workerEntries'[IdOf[e]] = e
        /\ \A f \in Entry \ {e} : entryState'[f] = entryState[f] /\ cpc'[f] = cpc[f]
        /\ \A w \in WorkerID \ {IdOf[e]} : workerEntries'[w] = workerEntries[w]
        /\ cpc'[e] = "confirming" /\ IdOf[e] \in WorkerID
    BY <1>1, Zenon DEF ManagerTypes, TablesInv, TableTypes
  <1>3. ManagerTypes' /\ MessageTypes'
    BY <1>1, Zenon DEF ManagerTypes, MessageTypes, EntryStates
  <1>4. QueueInv'
    <2>1. ASSUME NEW ev \in Event, EventOK(ev) PROVE EventOK(ev)'
      <3>1. ev.tp \in {"online", "offline"} => ev.entry \in Entry /\ ev.entry # e
        BY <1>1, <2>1, Zenon DEF EventOK
      <3> QED
        BY <1>1, <1>2, <2>1, <3>1, EventKept, Zenon
    <2>2. Waiting' = Waiting
      BY <1>1, Zenon DEF Waiting
    <2> QED
      BY <2>1, <2>2, QueueKept, Zenon
  <1>5. EndedInv'
    BY <1>1, EndedUntouched, Zenon
  <1>6. RecoveryInv'
    BY <1>1, <1>2, ZenonT(40) DEF RecoveryInv
  <1>7. EntryInv'
    BY <1>1, <1>2 DEF EntryInv
  <1> QED
    BY <1>3, <1>4, <1>5, <1>6, <1>7, Zenon

\* AbortCreatingWorker reports a failure.
LEMMA AbortEvents ==
  ASSUME TablesInv, EventsInv, EndedKept, NEW e \in Entry, CreateAborted(e)
  PROVE  EventsInv'
  <1> USE DEF EventsInv
  <1> DEFINE ev == FailedEvent(IdOf[e])
  <1>1. /\ cpc' = [cpc EXCEPT ![e] = "failed"] /\ mainPC # "init"
        /\ EnqueueEvent(ev, "handler")
        /\ UNCHANGED <<wmState, workerEntries, entryState, finished, expired, status, handling,
                       sweep, epoch, mainPC, offlineArg, statusMsg, workerMeta,
                       workerEpoch>>
    BY Zenon DEF CreateAborted, AbortCreatingWorker, Up, mainVars
  <1>2. \A f \in Entry : cpc'[f] = cpc[f] \/ cpc'[f] = "failed"
    BY <1>1, Zenon DEF TablesInv, TableTypes
  <1>3. ev \in Event /\ ev.tp = "failed"
    BY Zenon DEF Event, FailedEvent
  <1>4. eventQueue' \in Seq(Event)
    BY <1>1, <1>3, EnqueueTyped, Zenon
  <1>5. ManagerTypes' /\ MessageTypes'
    BY <1>1, <1>4, Zenon DEF ManagerTypes, MessageTypes
  <1>6. QueueInv'
    <2>1. \A old \in Event : EventOK(old) => EventOK(old)'
      BY <1>1, EventKept, Zenon
    <2>2. EventOK(ev)'
      BY <1>1, <1>3, Zenon DEF EventOK
    <2>3. \A old \in Event : EventOK(old) => MayPrecede(old, ev)
      BY <1>3, Zenon DEF MayPrecede
    <2> QED
      BY <1>1, <1>3, <2>1, <2>2, <2>3, QueueGrows, Zenon
  <1>7. EndedInv'
    BY <1>1, EndedUntouched, ZenonT(40)
  <1>8. RecoveryInv' /\ EntryInv'
    BY <1>1, <1>2, Zenon DEF RecoveryInv, EntryInv, InEntries
  <1> QED
    BY <1>5, <1>6, <1>7, <1>8, Zenon

\* HandleHeartbeat.  The first heartbeat of a worker puts its entry online and
\* says so.
LEMMA PingEvents ==
  ASSUME TablesInv, EventsInv, EndedKept, NEW from \in Entry, NEW isFinished \in BOOLEAN,
         DeliverPing(from, isFinished)
  PROVE  EventsInv'
  <1> USE DEF EventsInv
  <1> DEFINE w == IdOf[from]
  <1>1. /\ HandleHeartbeat(w, workerEpoch[from], isFinished)
        /\ UNCHANGED <<mainPC, offlineArg, cpc, statusMsg, workerMeta, workerEpoch>>
    BY Zenon DEF DeliverPing, mainVars, workerVars
  <1>2. PICK e \in Entry : e = workerEntries[w] /\ entryState[e] # "Unused" /\ w = IdOf[e]
    <2>1. workerEntries[w] # NoEntry
      BY <1>1, Zenon DEF HandleHeartbeat, HeartbeatDiscovers, HeartbeatOnline,
         HeartbeatRenews, HeartbeatSeen
    <2>2. w \in WorkerID
      BY Zenon
    <2>3. /\ workerEntries[w] \in Entry /\ IdOf[workerEntries[w]] = w
          /\ entryState[workerEntries[w]] # "Unused"
      BY <2>1, <2>2 DEF ManagerTypes, EntryInv
    <2> QED
      BY <2>3, Zenon
  <1>3. /\ sweep = {} /\ finished' \subseteq finished \cup {e} /\ expired' = expired \ {e}
        /\ UNCHANGED <<wmState, epoch, workerEntries, status, handling, sweep>>
    BY <1>1, <1>2, Zenon DEF HandleHeartbeat, HeartbeatDiscovers, HeartbeatOnline,
       HeartbeatRenews, HeartbeatSeen, MuFree
  <1>4. EndedInv' /\ MessageTypes'
    BY <1>1, <1>3, EndedUntouched, Zenon DEF MessageTypes
  <1>5. ASSUME entryState' = [entryState EXCEPT ![e] = "Normal"] \/ UNCHANGED entryState
        PROVE  /\ EntryInv' /\ entryState' \in [Entry -> EntryStates]
               /\ \A f \in Entry : \/ entryState'[f] = entryState[f]
                                   \/ f = e /\ entryState'[f] = "Normal"
    <2>1. /\ entryState' \in [Entry -> EntryStates]
          /\ \A f \in Entry : \/ entryState'[f] = entryState[f]
                              \/ f = e /\ entryState'[f] = "Normal"
      BY <1>5, Zenon DEF ManagerTypes, EntryStates
    <2>2. \A f \in Entry : cpc'[f] \in {"idle", "dispatching"} =>
            entryState'[f] = "Unused" /\ f \notin expired' /\ f \notin finished'
      <3> SUFFICES ASSUME NEW f \in Entry, cpc[f] \in {"idle", "dispatching"}
                   PROVE  entryState'[f] = "Unused" /\ f \notin expired' /\ f \notin finished'
        BY <1>1, Zenon
      <3>1. entryState[f] = "Unused" /\ f \notin expired /\ f \notin finished /\ f # e
        BY <1>2, Zenon DEF EntryInv
      <3> QED
        BY <1>3, <2>1, <3>1, Zenon
    <2>3. \A v \in WorkerID : workerEntries[v] # NoEntry =>
            IdOf[workerEntries[v]] = v /\ entryState'[workerEntries[v]] # "Unused"
      BY <2>1 DEF EntryInv, ManagerTypes
    <2> QED
      BY <1>3, <2>1, <2>2, <2>3, Zenon DEF EntryInv
  <1>6. CASE UNCHANGED <<entryState, eventQueue>>
    <2>1. ManagerTypes'
      BY <1>3, <1>6, Zenon DEF ManagerTypes
    <2>2. \A ev \in Event : EventOK(ev) => EventOK(ev)'
      BY <1>1, <1>6, EventKept, Zenon
    <2>3. QueueInv'
      BY <1>3, <1>6, <2>2, QueueKept, Zenon DEF Waiting
    <2>4. RecoveryInv'
      BY <1>1, <1>3, <1>6, Zenon DEF RecoveryInv, InEntries
    <2> QED
      BY <1>4, <1>5, <1>6, <2>1, <2>3, <2>4, Zenon
  <1>7. CASE HeartbeatDiscovers(w, workerEpoch[from], isFinished)
    <2>1. /\ wmState = "WaitingHeartbeat" /\ entryState[e] = "Wait"
          /\ entryState' = [entryState EXCEPT ![e] = "Normal"] /\ UNCHANGED eventQueue
      BY <1>2, <1>7, Zenon DEF HeartbeatDiscovers
    <2>2. ManagerTypes'
      BY <1>3, <1>5, <2>1, Zenon DEF ManagerTypes
    <2>3. ASSUME NEW ev \in Event, EventOK(ev) PROVE EventOK(ev)'
      <3>1. ev.tp \in {"online", "offline"} =>
              ev.entry \in Entry /\ entryState[ev.entry] # "Wait"
        BY <2>3, Zenon DEF EventOK
      <3>2. ev.tp \in {"online", "offline"} => entryState'[ev.entry] = entryState[ev.entry]
        BY <1>5, <2>1, <3>1, Zenon
      <3> QED
        BY <1>1, <2>3, <3>2, EventKept, Zenon
    <2>4. QueueInv'
      BY <1>3, <2>1, <2>3, QueueKept, Zenon DEF Waiting
    <2>5. RecoveryInv'
      BY <1>1, <1>2, <1>3, <1>5, <2>1, Zenon DEF RecoveryInv, InEntries
    <2> QED
      BY <1>4, <1>5, <2>1, <2>2, <2>4, <2>5, Zenon
  <1>8. CASE HeartbeatOnline(w, workerEpoch[from], isFinished)
    <2> DEFINE new == OnlineEvent(e)
    <2>1. /\ wmState = "Ready" /\ entryState[e] = "Created"
          /\ entryState' = [entryState EXCEPT ![e] = "Normal"]
          /\ EnqueueEvent(new, "handler")
      BY <1>2, <1>8, Zenon DEF HeartbeatOnline
    <2>2. mainPC # "init"
      BY <2>1, Zenon DEF RecoveryInv
    <2>3. new \in Event /\ new.tp = "online" /\ new.entry = e /\ new.worker = IdOf[e]
      BY Zenon DEF Event, OnlineEvent
    <2>4. eventQueue' \in Seq(Event)
      BY <2>1, <2>3, EnqueueTyped, Zenon
    <2>5. ManagerTypes'
      BY <1>3, <1>5, <2>1, <2>4, Zenon DEF ManagerTypes
    <2>6. ASSUME NEW ev \in Event, EventOK(ev) PROVE EventOK(ev)' /\ MayPrecede(ev, new)
      <3>1. ev.tp \in {"online", "offline"} => ev.entry \in Entry /\ ev.entry # e
        BY <2>1, <2>6, Zenon DEF EventOK
      <3>2. ev.tp \in {"online", "offline"} => entryState'[ev.entry] = entryState[ev.entry]
        BY <1>5, <2>1, <3>1, Zenon
      <3> QED
        BY <1>1, <2>3, <2>6, <3>1, <3>2, EventKept, Zenon DEF MayPrecede
    <2>7. entryState'[e] = "Normal"
      BY <2>1, ZenonT(40) DEF ManagerTypes
    <2>8. EventOK(new)'
      BY <1>1, <2>2, <2>3, <2>7, Zenon DEF EventOK
    <2>9. QueueInv'
      BY <1>3, <2>1, <2>3, <2>6, <2>8, QueueGrows, ZenonT(40)
    <2>10. RecoveryInv'
      BY <1>1, <1>3, <1>5, <2>1, <2>2, Zenon DEF RecoveryInv
    <2> QED
      BY <1>4, <1>5, <2>1, <2>5, <2>9, <2>10, Zenon
  <1> QED
    BY <1>1, <1>6, <1>7, <1>8, Zenon DEF HandleHeartbeat, HeartbeatRenews

\* OnWorkerStatusUpdateMessage.
LEMMA StatusEvents ==
  ASSUME TablesInv, EventsInv, EndedKept, NEW from \in Entry, DeliverStatus(from)
  PROVE  EventsInv'
  <1> USE DEF EventsInv
  <1> DEFINE w == IdOf[from]
  <1>0. PICK code, new : code = statusMsg[from][1].code /\ new = StatusEvent(workerEntries[w], code)
    BY Zenon
  <1>1. /\ workerEntries[w] # NoEntry /\ statusMsg[from] # <<>>
        /\ EnqueueEvent(new, "handler")
        /\ statusMsg' = [statusMsg EXCEPT ![from] = <<>>]
        /\ UNCHANGED <<wmState, workerEntries, entryState, finished, expired, status, handling,
                       sweep, epoch, mainPC, offlineArg, workerMeta, workerEpoch, cpc>>
    BY <1>0, Zenon DEF DeliverStatus, OnWorkerStatusUpdateMessage, mainVars
  <1>2. PICK e \in Entry : e = workerEntries[w] /\ w = IdOf[e]
    <2>1. w \in WorkerID
      BY Zenon
    <2>2. workerEntries[w] \in Entry
      BY <1>1, <2>1, Zenon DEF ManagerTypes
    <2>3. IdOf[workerEntries[w]] = w
      BY <1>1, <2>1, Zenon DEF EntryInv
    <2> QED
      BY <2>2, <2>3, Zenon
  <1>3. code \in Final \cup {"Error"} /\ (code \in Final => EndedFor(w))
    <2>1. Len(statusMsg[from]) # 0 /\ code \in Final \cup {"Error"}
      <3>1. statusMsg[from] \in Seq(StatusMsg)
        BY Zenon DEF MessageTypes
      <3>2. Len(statusMsg[from]) # 0 /\ statusMsg[from][1] \in StatusMsg
        BY <1>1, <3>1, SMTT(40)
      <3> QED
        BY <1>0, <3>2, Zenon DEF StatusMsg
    <2> QED
      BY <1>0, <2>1, Zenon DEF EndedInv
  <1>4. new \in Event /\ new.tp = "status" /\ new.entry = e /\ new.worker = w /\ new.arg = code
    BY <1>0, <1>2, <1>3, Zenon DEF Event, StatusEvent, StatusCodes, Final
  <1>5. /\ statusMsg' \in [Entry -> Seq(StatusMsg)]
        /\ Len(statusMsg'[from]) = 0
        /\ \A f \in Entry \ {from} : statusMsg'[f] = statusMsg[f]
    BY <1>1 DEF MessageTypes
  <1>6. MessageTypes' /\ ManagerTypes'
    <2>1. eventQueue' \in Seq(Event)
      BY <1>1, <1>4, EnqueueTyped, Zenon
    <2> QED
      BY <1>1, <1>5, <2>1, Zenon DEF MessageTypes, ManagerTypes
  <1>7. QueueInv'
    <2>1. \A old \in Event : EventOK(old) => EventOK(old)'
      BY <1>1, EventKept, Zenon
    <2>2. EndedFor(w) => EndedFor(w)'
      BY Zenon DEF EndedKept
    <2>3. EventOK(new)'
      BY <1>2, <1>3, <1>4, <2>2, ZenonT(30) DEF EventOK
    <2>4. \A old \in Event : EventOK(old) => MayPrecede(old, new)
      BY <1>4, Zenon DEF MayPrecede
    <2> QED
      BY <1>1, <1>4, <2>1, <2>3, <2>4, QueueGrows, Zenon
  <1>8. EndedInv'
    BY <1>1, <1>5, Zenon DEF EndedInv, EndedKept
  <1>9. RecoveryInv' /\ EntryInv'
    BY <1>1, Zenon DEF RecoveryInv, EntryInv, InEntries
  <1> QED
    BY <1>6, <1>7, <1>8, <1>9, Zenon

\* The clock, and the checker, which puts entries offline and says so.
LEMMA CheckerEvents ==
  ASSUME TablesInv, EventsInv, EndedKept, Checker \/ \E e \in Entry : Expire(e)
  PROVE  EventsInv'
  <1> USE DEF EventsInv
  <1>1. UNCHANGED <<mainPC, offlineArg, cpc, statusMsg, workerMeta, workerEpoch>>
    BY Zenon DEF Checker, Expire, mainVars, workerVars
  <1>2. UNCHANGED <<wmState, epoch, workerEntries, finished, status, handling>>
    BY Zenon DEF Checker, Expire, LeaseExpires, SweepBegin, SweepVisit
  <1>3. EndedInv' /\ MessageTypes'
    BY <1>1, <1>2, EndedUntouched, Zenon DEF MessageTypes
  <1>4. ASSUME UNCHANGED <<entryState, eventQueue>>
        PROVE  QueueInv'
    <2>1. \A ev \in Event : EventOK(ev) => EventOK(ev)'
      BY <1>1, <1>4, EventKept, Zenon
    <2> QED
      BY <1>2, <1>4, <2>1, QueueKept, Zenon DEF Waiting
  <1>5. ASSUME NEW e \in Entry, Expire(e)
        PROVE  EventsInv'
    <2>1. /\ entryState[e] \in {"Created", "Normal"} /\ expired' = expired \cup {e}
          /\ UNCHANGED <<entryState, eventQueue, sweep>>
      BY <1>5, Zenon DEF Expire, LeaseExpires
    <2>2. ManagerTypes' /\ RecoveryInv'
      BY <1>1, <1>2, <2>1, ZenonT(40) DEF ManagerTypes, RecoveryInv, InEntries
    <2>3. EntryInv'
      BY <1>1, <1>2, <2>1, Zenon DEF EntryInv
    <2> QED
      BY <1>3, <1>4, <2>1, <2>2, <2>3, Zenon
  <1>6. CASE SweepBegin
    <2>1. /\ wmState = "Ready" /\ UNCHANGED <<entryState, eventQueue, expired>>
          /\ sweep' = {e \in Entry : ShouldGoOffline(e)}
      BY <1>6, Zenon DEF SweepBegin
    <2>2. \A e \in sweep' : e \in Entry /\ ShouldGoOffline(e)
      BY <2>1, Zenon
    <2>3. \A e \in sweep' : /\ entryState[e] \in {"Created", "Normal"}
                            /\ e \in expired \/ e \in finished
      <3> SUFFICES ASSUME NEW e \in sweep'
                   PROVE  /\ entryState[e] \in {"Created", "Normal"}
                          /\ e \in expired \/ e \in finished
        BY Zenon
      <3>1. /\ e \in Entry /\ workerEntries[IdOf[e]] = e
            /\ entryState[e] \notin {"Offline", "Tombstone"}
            /\ e \in expired \/ e \in finished
        BY <2>2, ZenonT(40) DEF ShouldGoOffline, InEntries
      <3>2. entryState[e] # "Unused" /\ entryState[e] # "Wait"
        BY <2>1, <3>1, SMTT(40) DEF EntryInv, RecoveryInv
      <3> QED
        BY <3>1, <3>2, Zenon DEF ManagerTypes, EntryStates
    <2>4. EntryInv'
      BY <1>1, <1>2, <2>1, <2>3, Zenon DEF EntryInv
    <2>5. ManagerTypes' /\ RecoveryInv'
      BY <1>1, <1>2, <2>1, <2>2, Zenon DEF ManagerTypes, RecoveryInv, InEntries
    <2> QED
      BY <1>3, <1>4, <2>1, <2>4, <2>5, Zenon
  <1>7. ASSUME NEW e \in Entry, SweepVisit(e)
        PROVE  EventsInv'
    <2>0. PICK r, new : r = OfflineReason(status[e]) /\ new = OfflineEvent(e, r)
      BY ZenonT(40)
    <2>1. /\ e \in sweep /\ entryState' = [entryState EXCEPT ![e] = "Offline"]
          /\ EnqueueEvent(new, "checker")
          /\ sweep' \subseteq sweep \ {e}
          /\ UNCHANGED expired
      BY <1>7, <2>0, Zenon DEF SweepVisit
    <2>2. /\ entryState[e] \in {"Created", "Normal"} /\ wmState = "Ready"
      BY <2>1, Zenon DEF EntryInv, RecoveryInv
    <2>3. r \in Reasons /\ (r # "ErrWorkerOffline" => status[e] \in Final)
      BY <2>0, Zenon DEF OfflineReason, Reasons, Final
    <2>4. /\ new \in Event /\ new.tp = "offline" /\ new.entry = e /\ new.worker = IdOf[e]
          /\ new.arg = r
      BY <2>0, <2>3, Zenon DEF Event, OfflineEvent
    <2>5. /\ entryState' \in [Entry -> EntryStates] /\ entryState'[e] = "Offline"
          /\ \A f \in Entry \ {e} : entryState'[f] = entryState[f]
      BY <2>1, Zenon DEF ManagerTypes, EntryStates
    <2>6. ManagerTypes'
      <3>1. eventQueue' \in Seq(Event)
        BY <2>1, <2>4, EnqueueTyped, Zenon
      <3> QED
        BY <1>2, <2>1, <2>5, <3>1, Zenon DEF ManagerTypes
    <2>7. ASSUME NEW ev \in Event, EventOK(ev) PROVE EventOK(ev)' /\ MayPrecede(ev, new)
      <3>1. ev.tp \in {"online", "offline"} =>
              /\ ev.entry \in Entry
              /\ ev.tp = "offline" => ev.entry # e
        BY <2>2, <2>7, Zenon DEF EventOK
      <3>2. ev.tp \in {"online", "offline"} =>
              \/ entryState'[ev.entry] = entryState[ev.entry]
              \/ entryState'[ev.entry] = "Offline"
        BY <2>5, <3>1, ZenonT(40)
      <3> QED
        BY <1>1, <2>4, <2>7, <3>1, <3>2, EventKept, Zenon DEF MayPrecede
    <2>8. EventOK(new)'
      <3>1. r # "ErrWorkerOffline" => EndedFor(IdOf[e])'
        BY <2>3, Zenon DEF EndedInv, EndedKept
      <3> QED
        BY <2>4, <2>5, <3>1, Zenon DEF EventOK
    <2>9. QueueInv'
      BY <1>2, <2>1, <2>4, <2>7, <2>8, QueueGrows, Zenon
    <2>10. RecoveryInv'
      BY <1>1, <1>2, <2>1, <2>2, <2>5, ZenonT(40) DEF RecoveryInv, InEntries
    <2>11. EntryInv'
      BY <1>1, <1>2, <2>1, <2>2, <2>5, SMTT(40) DEF EntryInv
    <2> QED
      BY <1>3, <2>6, <2>9, <2>10, <2>11, Zenon
  <1> QED
    BY <1>5, <1>6, <1>7, Zenon DEF Checker

\* Tick takes an event off the queue.
LEMMA ReceiveEvents ==
  ASSUME EventsInv, EndedKept, PollTick, TickReceive
  PROVE  EventsInv'
  <1> USE DEF EventsInv
  <1>1. /\ handling = <<>> /\ eventQueue # <<>> /\ handling' = <<Head(eventQueue)>>
        /\ eventQueue' = Tail(eventQueue)
        /\ UNCHANGED <<wmState, epoch, workerEntries, entryState, finished, expired, status, sweep>>
    BY Zenon DEF TickReceive
  <1>2. /\ UNCHANGED <<mainPC, offlineArg, cpc, statusMsg, workerMeta, workerEpoch>>
        /\ mainPC = "poll"
    BY Zenon DEF PollTick, mainVars, workerVars
  <1>3. /\ eventQueue' \in Seq(Event) /\ handling' \in Seq(Event) /\ Len(handling') <= 1
        /\ Waiting' = Waiting
    BY <1>1 DEF ManagerTypes, Waiting
  <1>4. ManagerTypes' /\ MessageTypes'
    BY <1>1, <1>2, <1>3, Zenon DEF ManagerTypes, MessageTypes
  <1>5. QueueInv'
    <2>1. \A ev \in Event : EventOK(ev) => EventOK(ev)'
      BY <1>1, <1>2, EventKept, Zenon
    <2> QED
      BY <1>3, <2>1, QueueKept, Zenon
  <1>6. EndedInv'
    BY <1>1, <1>2, EndedUntouched, ZenonT(40)
  <1>7. RecoveryInv' /\ EntryInv'
    BY <1>1, <1>2, Zenon DEF RecoveryInv, EntryInv
  <1> QED
    BY <1>4, <1>5, <1>6, <1>7, Zenon

\* What the callbacks have in common: the event in hand is gone.
LEMMA HandledTypes ==
  ASSUME EventsInv, handling' = <<>>, UNCHANGED <<eventQueue, finished, expired, sweep>>,
         workerEntries' \in [WorkerID -> Entry \cup {NoEntry}],
         entryState' \in [Entry -> EntryStates], status' \in [Entry -> StatusCodes]
  PROVE  ManagerTypes'
  <1>1. handling' \in Seq(Event) /\ Len(handling') <= 1
    OBVIOUS
  <1> QED
    BY <1>1, Zenon DEF EventsInv, ManagerTypes

\* OnWorkerOnline, OnWorkerStatusUpdated and OnWorkerDispatched: a status is
\* recorded, or an entry leaves the map.
LEMMA CallbackEvents ==
  ASSUME TablesInv, EventsInv, EndedKept,
         OnWorkerOnline \/ OnWorkerStatusUpdated \/ OnWorkerDispatched
  PROVE  EventsInv'
  <1> USE DEF EventsInv
  <1>1. /\ UNCHANGED <<wmState, epoch, entryState, finished, expired, eventQueue, sweep,
                       offlineArg, cpc, statusMsg, workerMeta, workerEpoch>>
        /\ handling # <<>> /\ handling' = <<>>
        /\ mainPC = "poll" /\ mainPC' \in {"poll", "down"}
    BY Zenon DEF OnWorkerOnline, OnWorkerStatusUpdated, OnWorkerDispatched, TickOnline,
       TickStatus, TickDispatchFailed, workerVars
  <1>2. PICK ev \in Event : ev = handling[1] /\ EventOK(ev)
    BY <1>1, InHand, Zenon
  <1>3. \/ UNCHANGED status
        \/ /\ status' = [status EXCEPT ![ev.entry] = ev.arg] /\ ev.tp = "status"
           /\ UNCHANGED workerEntries
    BY <1>2, Zenon DEF OnWorkerOnline, OnWorkerStatusUpdated, OnWorkerDispatched,
       TickOnline,
       TickStatus, TickDispatchFailed
  <1>4. UNCHANGED workerEntries \/ workerEntries' = [workerEntries EXCEPT ![ev.worker] = NoEntry]
    BY <1>2, Zenon DEF OnWorkerOnline, OnWorkerStatusUpdated, OnWorkerDispatched,
       TickOnline,
       TickStatus, TickDispatchFailed
  <1>5. /\ workerEntries' \in [WorkerID -> Entry \cup {NoEntry}]
        /\ \A w \in WorkerID : workerEntries'[w] \in {workerEntries[w], NoEntry}
    BY <1>4, Zenon DEF ManagerTypes
  <1>6. /\ status' \in [Entry -> StatusCodes]
        /\ \A e \in Entry : status'[e] \in Final => EndedFor(IdOf[e])
    <2>1. CASE UNCHANGED status
      BY <2>1, Zenon DEF ManagerTypes, EndedInv
    <2>2. CASE status' = [status EXCEPT ![ev.entry] = ev.arg] /\ ev.tp = "status"
      <3>1. /\ ev.entry \in Entry /\ ev.worker = IdOf[ev.entry]
            /\ ev.arg \in Final \cup {"Error"} /\ (ev.arg \in Final => EndedFor(ev.worker))
        BY <1>2, <2>2, Zenon DEF EventOK
      <3>2. /\ status' \in [Entry -> StatusCodes] /\ status'[ev.entry] = ev.arg
            /\ \A e \in Entry \ {ev.entry} : status'[e] = status[e]
        BY <2>2, <3>1, Zenon DEF ManagerTypes, StatusCodes, Final
      <3> QED
        BY <3>1, <3>2, ZenonT(40) DEF EndedInv
    <2> QED
      BY <1>3, <2>1, <2>2, Zenon
  <1>7. ManagerTypes' /\ MessageTypes'
    <2>1. entryState' \in [Entry -> EntryStates]
      BY <1>1, Zenon DEF ManagerTypes
    <2> QED
      BY <1>1, <1>5, <1>6, <2>1, HandledTypes, Zenon DEF MessageTypes
  <1>8. QueueInv'
    <2>1. \A old \in Event : EventOK(old) => EventOK(old)'
      BY <1>1, EventKept, ZenonT(40)
    <2> QED
      BY <1>1, <2>1, QueueShrinks, ZenonT(40)
  <1>9. EndedInv'
    BY <1>1, <1>6, ZenonT(40) DEF EndedInv, EndedKept
  <1>10. RecoveryInv' /\ EntryInv'
    BY <1>1, <1>5, Zenon DEF RecoveryInv, EntryInv
  <1> QED
    BY <1>7, <1>8, <1>9, <1>10, Zenon

\* OnWorkerOffline: the entry of the event becomes a tombstone, and no event
\* that waits depends on it.
LEMMA OfflineEvents ==
  ASSUME TablesInv, EventsInv, EndedKept, OnWorkerOffline
  PROVE  EventsInv'
  <1> USE DEF EventsInv
  <1>1. /\ UNCHANGED <<wmState, epoch, workerEntries, finished, expired, status, eventQueue,
                       sweep, cpc, statusMsg, workerMeta, workerEpoch>>
        /\ handling # <<>> /\ handling' = <<>> /\ handling[1].tp = "offline"
        /\ mainPC = "poll" /\ mainPC' = "clean"
        /\ entryState' = [entryState EXCEPT ![handling[1].entry] = "Tombstone"]
        /\ offlineArg' = <<[worker |-> handling[1].worker, reason |-> handling[1].arg]>>
    BY Zenon DEF OnWorkerOffline, TickOffline, workerVars
  <1>2. PICK ev \in Event : ev = handling[1] /\ EventOK(ev)
    BY <1>1, InHand, ZenonT(40)
  <1>3. /\ ev.entry \in Entry /\ entryState[ev.entry] = "Offline" /\ ev.worker \in WorkerID
        /\ ev.arg # "ErrWorkerOffline" => EndedFor(ev.worker)
    BY <1>1, <1>2, Zenon DEF EventOK, Event
  <1>4. /\ entryState' \in [Entry -> EntryStates] /\ entryState'[ev.entry] = "Tombstone"
        /\ \A f \in Entry \ {ev.entry} : entryState'[f] = entryState[f]
    BY <1>1, <1>2, <1>3, Zenon DEF ManagerTypes, EntryStates
  <1>5. ManagerTypes' /\ MessageTypes'
    <2>1. /\ workerEntries' \in [WorkerID -> Entry \cup {NoEntry}]
          /\ status' \in [Entry -> StatusCodes]
      BY <1>1, Zenon DEF ManagerTypes
    <2> QED
      BY <1>1, <1>4, <2>1, HandledTypes, Zenon DEF MessageTypes
  <1>6. QueueInv'
    <2>1. ASSUME NEW old \in Event, EventOK(old), MayPrecede(handling[1], old)
          PROVE  EventOK(old)'
      <3>1. old.tp \in {"online", "offline"} => old.entry \in Entry /\ old.entry # ev.entry
        BY <1>1, <1>2, <2>1, SMTT(40) DEF EventOK, MayPrecede
      <3>2. mainPC' # "init"
        BY <1>1, Zenon
      <3> QED
        BY <1>4, <2>1, <3>1, <3>2, EventKept, ZenonT(40)
    <2> QED
      BY <1>1, <2>1, QueueShrinks, Zenon
  <1>7. EndedInv'
    <2>1. /\ Len(offlineArg') = 1 /\ offlineArg'[1].worker = ev.worker
          /\ offlineArg'[1].reason = ev.arg
      BY <1>1, <1>2, Zenon
    <2> QED
      BY <1>1, <1>3, <2>1, Zenon DEF EndedInv, EndedKept
  <1>8. RecoveryInv'
    <2>1. wmState = "Ready" /\ wmState' = "Ready" /\ mainPC' # "init"
      BY <1>1, MainIsReady, Zenon
    <2>2. \A e \in Entry : entryState'[e] # "Wait"
      BY <1>4, <2>1, Zenon DEF RecoveryInv
    <2> QED
      BY <2>1, <2>2, Zenon DEF RecoveryInv
  <1>9. EntryInv'
    <2>1. /\ UNCHANGED <<cpc, workerEntries, expired, finished, sweep>>
          /\ workerEntries \in [WorkerID -> Entry \cup {NoEntry}]
      BY <1>1, Zenon DEF ManagerTypes
    <2>2. /\ \A e \in Entry : entryState'[e] = "Unused" <=> entryState[e] = "Unused"
          /\ \A e \in Entry : entryState[e] \in {"Created", "Normal"} =>
               entryState'[e] = entryState[e]
      <3>1. entryState[ev.entry] \notin {"Unused", "Created", "Normal"}
        BY <1>3, Zenon
      <3> QED
        BY <1>4, <3>1, Zenon
    <2>3. sweep \subseteq Entry
      BY Zenon DEF ManagerTypes
    <2>4. \A w \in WorkerID : workerEntries[w] # NoEntry => workerEntries[w] \in Entry
      BY <2>1, Zenon
    <2> QED
      BY <2>1, <2>2, <2>3, <2>4, Zenon DEF EntryInv
  <1> QED
    BY <1>5, <1>6, <1>7, <1>8, <1>9, Zenon

\* removeTombstoneEntry takes an entry out of the map.
LEMMA CleanEvents ==
  ASSUME TablesInv, EventsInv, EndedKept, OfflineClean \/ \E v \in toVisit : VisitTombstone(v)
  PROVE  EventsInv'
  <1> USE DEF EventsInv
  <1>1. PICK w : CleanTombstone(w)
    BY Zenon DEF OfflineClean, VisitTombstone
  <1>2. /\ UNCHANGED <<wmState, epoch, entryState, finished, expired, status, eventQueue,
                       handling, sweep, cpc, statusMsg, workerEpoch>>
        /\ workerEntries' = [workerEntries EXCEPT ![w] = NoEntry]
        /\ workerMeta' = [workerMeta EXCEPT ![w] = "none"]
    BY <1>1, Zenon DEF CleanTombstone, removeTombstoneEntry
  <1>3. /\ UNCHANGED offlineArg /\ mainPC # "init" /\ mainPC' # "init"
        /\ mainPC' \in {"clean", "offline"} => mainPC \in {"clean", "offline"}
    BY Zenon DEF OfflineClean, VisitTombstone
  <1>4. /\ workerEntries' \in [WorkerID -> Entry \cup {NoEntry}]
        /\ \A v \in WorkerID : workerEntries'[v] \in {workerEntries[v], NoEntry}
    BY <1>2, Zenon DEF ManagerTypes
  <1>5. workerMeta' \in [WorkerID -> {"none", "Init"}]
    BY <1>2, Zenon DEF MessageTypes
  <1>6. ManagerTypes' /\ MessageTypes'
    BY <1>2, <1>4, <1>5, Zenon DEF ManagerTypes, MessageTypes
  <1>7. QueueInv'
    <2>1. \A ev \in Event : EventOK(ev) => EventOK(ev)'
      BY <1>2, <1>3, EventKept, Zenon
    <2> QED
      BY <1>2, <2>1, QueueKept, Zenon DEF Waiting
  <1>8. EndedInv'
    BY <1>2, <1>3, EndedUntouched, Zenon
  <1>9. RecoveryInv' /\ EntryInv'
    BY <1>2, <1>3, <1>4, Zenon DEF RecoveryInv, EntryInv
  <1> QED
    BY <1>6, <1>7, <1>8, <1>9, Zenon

\* InitAfterRecover: no event is about an entry that has gone on- or offline yet.
LEMMA RecoveryEvents ==
  ASSUME TablesInv, EventsInv, EndedKept, Recovery
  PROVE  EventsInv'
  <1> USE DEF EventsInv
  <1>1. /\ UNCHANGED <<mainPC, offlineArg, cpc, statusMsg, workerMeta, workerEpoch>>
        /\ UNCHANGED <<epoch, finished, eventQueue, handling, sweep>>
        /\ wmState # "Ready" /\ mainPC = "init" /\ sweep = {}
    BY Zenon DEF Recovery, InitAfterRecoverLoad, InitAfterRecoverFinish, mainVars,
       workerVars,
       RecoveryInv
  <1>2. \A e \in Entry : entryState[e] \in {"Unused", "Wait", "Normal"}
    <2>1. wmState \in {"LoadingMeta", "WaitingHeartbeat"}
      BY Zenon DEF Recovery, InitAfterRecoverLoad, InitAfterRecoverFinish
    <2> QED
      BY <2>1, Zenon DEF RecoveryInv
  <1>3. QueueInv'
    <2>1. ASSUME NEW ev \in Event, EventOK(ev) PROVE EventOK(ev)'
      <3>1. ev.tp \notin {"online", "offline"}
        BY <1>1, <1>2, <2>1, Zenon DEF EventOK
      <3> QED
        BY <1>1, <2>1, <3>1, EventKept, Zenon
    <2>2. Waiting' = Waiting
      BY <1>1, Zenon DEF Waiting
    <2> QED
      BY <2>1, <2>2, QueueKept, Zenon
  <1>4. MessageTypes'
    BY <1>1, Zenon DEF MessageTypes
  <1>5. CASE InitAfterRecoverLoad(workerMeta) /\ \A e \in Entry : entryState'[e] = "Wait" => cpc[e] # "idle"
    <2> DEFINE active == {w \in WorkerID : workerMeta[w] \notin {"none", "Finished"}}
    <2>1. PICK pick \in [active -> Entry] :
            /\ \A w \in active : IdOf[pick[w]] = w
            /\ workerEntries' = [w \in WorkerID |->
                 IF w \in active THEN pick[w] ELSE workerEntries[w]]
            /\ entryState' = [e \in Entry |->
                 IF IdOf[e] \in active /\ pick[IdOf[e]] = e THEN "Wait" ELSE entryState[e]]
            /\ status' = [e \in Entry |->
                 IF IdOf[e] \in active /\ pick[IdOf[e]] = e THEN workerMeta[IdOf[e]]
                 ELSE status[e]]
            /\ expired' = {e \in Entry : IdOf[e] \in active /\ pick[IdOf[e]] = e}
            /\ wmState' = IF active = {} THEN "Ready" ELSE "WaitingHeartbeat"
      BY <1>5, Zenon DEF InitAfterRecoverLoad
    <2>2. /\ wmState = "LoadingMeta" /\ \A e \in Entry : entryState[e] = "Unused"
          /\ \A w \in active : workerMeta[w] = "Init" /\ w \in WorkerID
      BY <1>5, Zenon DEF InitAfterRecoverLoad, RecoveryInv, MessageTypes
    <2> HIDE DEF active
    <2>3. /\ \A e \in Entry : entryState'[e] =
               IF IdOf[e] \in active /\ pick[IdOf[e]] = e THEN "Wait" ELSE "Unused"
          /\ \A w \in WorkerID : workerEntries'[w] =
               IF w \in active THEN pick[w] ELSE workerEntries[w]
          /\ \A e \in Entry : status'[e] =
               IF IdOf[e] \in active /\ pick[IdOf[e]] = e THEN "Init" ELSE status[e]
      BY <2>1, <2>2, Zenon
    <2>4. \A w \in WorkerID : workerEntries[w] = NoEntry
      BY <2>2 DEF EntryInv, ManagerTypes
    <2>5. ManagerTypes'
      <3>1. workerEntries' \in [WorkerID -> Entry \cup {NoEntry}]
        BY <2>1, Zenon DEF ManagerTypes
      <3>2. entryState' \in [Entry -> EntryStates]
        BY <2>1, <2>3, Zenon DEF EntryStates
      <3>3. status' \in [Entry -> StatusCodes]
        BY <2>1, <2>3, Zenon DEF StatusCodes, ManagerTypes
      <3> QED
        BY <1>1, <2>1, <3>1, <3>2, <3>3, Zenon DEF ManagerTypes
    <2>6. EndedInv'
      <3>1. \A e \in Entry : status'[e] \in Final => status[e] \in Final
        BY <2>3, Zenon DEF Final
      <3> QED
        BY <1>1, <3>1, Zenon DEF EndedInv, EndedKept
    <2>7. RecoveryInv'
      BY <1>1, <2>1, <2>3, Zenon DEF RecoveryInv, InEntries
    <2>8. EntryInv'
      <3>1. \A e \in Entry : cpc'[e] \in {"idle", "dispatching"} =>
              entryState'[e] = "Unused" /\ e \notin expired' /\ e \notin finished'
        <4>1. \A e \in Entry : cpc[e] # "dispatching"
          BY <1>1, Zenon DEF TablesInv, StartInv, Creating
        <4>2. \A e \in Entry : cpc[e] = "idle" => entryState'[e] # "Wait" /\ e \notin finished
          BY <1>5, Zenon DEF EntryInv
        <4> QED
          BY <1>1, <2>1, <2>3, <4>1, <4>2, Zenon
      <3>2. \A w \in WorkerID : workerEntries'[w] # NoEntry =>
              IdOf[workerEntries'[w]] = w /\ entryState'[workerEntries'[w]] # "Unused"
        BY <2>1, <2>3, <2>4, Zenon
      <3> QED
        BY <1>1, <3>1, <3>2, Zenon DEF EntryInv
    <2> QED
      BY <1>3, <1>4, <2>5, <2>6, <2>7, <2>8, Zenon
  <1>6. CASE InitAfterRecoverFinish
    <2>1. PICK dead :
            /\ dead = {e \in Entry : InEntries(e) /\ (entryState[e] = "Wait" \/ e \in finished)}
            /\ entryState' = [e \in Entry |-> IF e \in dead THEN "Tombstone" ELSE entryState[e]]
            /\ wmState' = "Ready" /\ UNCHANGED <<workerEntries, expired, status>>
      BY <1>6, Zenon DEF InitAfterRecoverFinish
    <2>2. \A e \in Entry :
            entryState'[e] = IF e \in dead THEN "Tombstone" ELSE entryState[e]
      BY <2>1, Zenon
    <2>3. entryState' \in [Entry -> EntryStates]
      BY <2>1, Zenon DEF ManagerTypes, EntryStates
    <2>4. ManagerTypes'
      BY <1>1, <2>1, <2>3, Zenon DEF ManagerTypes
    <2>5. EndedInv'
      BY <1>1, <2>1, EndedUntouched, Zenon
    <2>6. \A e \in Entry : entryState[e] # "Unused" => InEntries(e)
      BY <1>1, Zenon DEF RecoveryInv
    <2>7. RecoveryInv'
      BY <1>1, <1>2, <2>1, <2>2, <2>6, Zenon DEF RecoveryInv, InEntries
    <2>8. \A e \in dead : entryState[e] # "Unused"
      <3>1. \A e \in dead : e \in Entry /\ workerEntries[IdOf[e]] = e
        BY <2>1, Zenon DEF InEntries
      <3> QED
        BY <3>1 DEF EntryInv
    <2>9. \A e \in Entry : entryState'[e] = "Unused" <=> entryState[e] = "Unused"
      BY <2>2, <2>8, Zenon
    <2>10. EntryInv'
      <3>1. \A w \in WorkerID : workerEntries[w] # NoEntry => workerEntries[w] \in Entry
        BY Zenon DEF ManagerTypes
      <3> QED
        BY <1>1, <2>1, <2>9, <3>1, Zenon DEF EntryInv
    <2> QED
      BY <1>3, <1>4, <2>4, <2>5, <2>7, <2>10, Zenon
  <1> QED
    BY <1>5, <1>6, Zenon DEF Recovery

\* Another leader has a manager of its own.
LEMMA LeaderEvents ==
  ASSUME TablesInv, EventsInv, EndedKept, NewLeader
  PROVE  EventsInv'
  <1> USE DEF EventsInv
  <1>1. /\ epoch < MaxEpoch /\ epoch' = epoch + 1 /\ NewManager("LoadingMeta")
        /\ mainPC' = "init" /\ offlineArg' = <<>>
        /\ UNCHANGED <<statusMsg, workerMeta, workerEpoch>>
        /\ cpc' = [e \in Entry |->
             CASE cpc[e] = "dispatching" -> "failed"
               [] cpc[e] = "confirming" -> "dispatched"
               [] OTHER -> cpc[e]]
    BY Zenon DEF NewLeader
  <1>2. /\ wmState' = "LoadingMeta" /\ workerEntries' = [w \in WorkerID |-> NoEntry]
        /\ entryState' = [e \in Entry |-> "Unused"]
        /\ finished' = {} /\ expired' = {} /\ status' = [e \in Entry |-> "Created"]
        /\ eventQueue' = <<>> /\ handling' = <<>> /\ sweep' = {}
    BY <1>1, Zenon DEF NewManager
  <1>3. ManagerTypes'
    BY <1>2 DEF ManagerTypes, EntryStates, StatusCodes
  <1>4. MessageTypes'
    <2>1. epoch' \in 0 .. MaxEpoch
      BY <1>1, EpochAssumption DEF MessageTypes
    <2> QED
      BY <1>1, <2>1, Zenon DEF MessageTypes
  <1>5. QueueInv'
    BY <1>2 DEF QueueInv, Waiting
  <1>6. EndedInv'
    <2>1. \A e \in Entry : status'[e] \notin Final
      BY <1>2, Zenon DEF Final
    <2> QED
      BY <1>1, <2>1, Zenon DEF EndedInv, EndedKept
  <1>7. RecoveryInv' /\ EntryInv'
    BY <1>1, <1>2, Zenon DEF RecoveryInv, EntryInv
  <1> QED
    BY <1>3, <1>4, <1>5, <1>6, <1>7, Zenon

\* Every step is one of those above.
LEMMA EventsStep ==
  ASSUME TablesInv, EventsInv, [Next]_vars
  PROVE  EventsInv'
  <1>0. EndedKept
    BY EndedStable, Zenon
  <1>1. CASE UNCHANGED vars
    <2>1. UNCHANGED entryVars /\ MainGoesOn /\ UNCHANGED <<statusMsg, workerMeta, workerEpoch, epoch>>
      BY <1>1, Zenon DEF vars, managerVars, mainVars, workerVars, entryVars, MainGoesOn
    <2> QED
      BY <1>0, <2>1, MessagesKept, EntriesKept, Zenon
  <1>2. CASE QuietStep
    BY <1>0, <1>2, QuietEvents, Zenon
  <1>3. CASE \E j \in WorkerID : Rpc(j)
    BY <1>2, <1>3, Zenon DEF Rpc, QuietStep
  <1>4. CASE \E e \in Entry : Creation(e)
    BY <1>0, <1>2, <1>4, AbortEvents, StartTimerEvents, Zenon DEF Creation, QuietStep
  <1>5. CASE \E e \in Entry : Environment(e)
    BY <1>0, <1>5, MasterEvents, PingEvents, StatusEvents, CheckerEvents, Zenon
    DEF Environment, MasterStep
  <1>6. CASE Main
    BY <1>0, <1>2, <1>6, ReceiveEvents, CallbackEvents, OfflineEvents, CleanEvents,
       Zenon
    DEF Main, QuietStep, PollTick
  <1>7. CASE Checker \/ Recovery \/ NewLeader
    BY <1>0, <1>7, CheckerEvents, RecoveryEvents, LeaderEvents, Zenon
  <1> QED
    BY <1>1, <1>3, <1>4, <1>5, <1>6, <1>7, Zenon DEF Next
===============================================================================
