-------------------------- MODULE WorkerCallbacks --------------------------
(***************************************************************************)
(* What the framework promises a master implementation about the workers   *)
(* it creates (the MasterImpl interface of lib/master.go): which callback  *)
(* may come after which, and what a callback says of the worker process.   *)
(* MasterWorkers implements it; DMJobMaster is written on top of it.       *)
(***************************************************************************)

CONSTANT Worker

VARIABLES
  known,  \* what the implementation has been told of each worker
  proc    \* the worker process itself

callbackVars == <<known, proc>>

Knowledge == {"unknown", "creating", "online", "failed", "gone"}
\* "pending": the creation is under way; "never": it has failed for good.
Processes == {"none", "pending", "never", "up", "down"}

CallbacksTypeOK ==
  /\ known \in [Worker -> Knowledge]
  /\ proc \in [Worker -> Processes]

\* A master starts without knowing any worker; those of an earlier incarnation
\* may be anywhere.
CallbacksInit ==
  /\ known = [w \in Worker |-> "unknown"]
  /\ proc \in [Worker -> Processes]

Move(S, from, to) ==
  /\ S # {} /\ \A w \in S : proc[w] = from
  /\ proc' = [w \in Worker |-> IF w \in S THEN to ELSE proc[w]]

\* CreateWorker, for a set of new workers.
Create(S) ==
  /\ Move(S, "none", "pending")
  /\ \A w \in S : known[w] = "unknown"
  /\ known' = [w \in Worker |-> IF w \in S THEN "creating" ELSE known[w]]

\* The creation fails, whether or not the implementation will hear of it.
Abandon(S) == Move(S, "pending", "never") /\ UNCHANGED known

Start(S) == Move(S, "pending", "up") /\ UNCHANGED known

Stop(S) == Move(S, "up", "down") /\ UNCHANGED known

Tell(w, before, what) ==
  /\ known[w] \in before
  /\ known' = [known EXCEPT ![w] = what]
  /\ UNCHANGED proc

\* OnWorkerDispatched with an error: the worker has not run and never will.
ReportFailed(w) == proc[w] = "never" /\ Tell(w, {"creating"}, "failed")

\* OnWorkerOnline: the worker has run.
ReportOnline(w) == proc[w] \in {"up", "down"} /\ Tell(w, {"creating"}, "online")

\* OnWorkerOffline, once, of a worker not yet reported gone.
ReportOffline(w) == Tell(w, {"creating", "online", "failed"}, "gone")

\* A new master knows nothing; what the old one was about to dispatch is lost,
\* unless the request is on its way.
Failover ==
  /\ known' = [w \in Worker |-> "unknown"]
  /\ \E lost \in SUBSET {w \in Worker : proc[w] = "pending"} :
       proc' = [w \in Worker |-> IF w \in lost THEN "never" ELSE proc[w]]

\* InitAfterRecover: the workers that answered are online, others of which
\* there is a record are gone.
Recover ==
  /\ \A w \in Worker : known[w] = "unknown"
  /\ \E on, off \in SUBSET {w \in Worker : proc[w] \in {"up", "down"}} :
       known' = [w \in Worker |-> IF w \in on THEN "online"
                                  ELSE IF w \in off THEN "gone" ELSE known[w]]
  /\ UNCHANGED proc

CallbacksNext ==
  \/ \E S \in SUBSET Worker : Create(S) \/ Abandon(S) \/ Start(S) \/ Stop(S)
  \/ \E w \in Worker : ReportFailed(w) \/ ReportOnline(w) \/ ReportOffline(w)
  \/ Failover \/ Recover

CallbacksSpec == CallbacksInit /\ [][CallbacksNext]_callbackVars
=============================================================================
