--------------------------- MODULE MCTaskDispatch ---------------------------
(***************************************************************************)
(* The executor's side of a task, in two parts side by side:               *)
(*   runner    the TaskRunner on its own, to which anybody submits three   *)
(*             containers of one task and one of another;                  *)
(*   dispatch  two DispatchTask calls for one worker ID, as when a job     *)
(*             master is dispatched again while its earlier dispatch is    *)
(*             undetermined, with three request IDs, so that one of the    *)
(*             two calls may retry.                                        *)
(* The runner's queue holds one container, so that a submission and a      *)
(* confirmation can be refused.  The executor shuts down in the first part *)
(* only: to the dispatchers it looks like one whose Run is slow.           *)
(***************************************************************************)
EXTENDS TaskDispatch

CONSTANTS t1, t2, r1, r2, r3, r4, d1, d2
VARIABLE part

MCTask == {t1, t2}
MCContainer == {r1, r2, r3, r4}
MCTaskOf == [r \in MCContainer |-> IF r = r4 THEN t2 ELSE t1]
MCDispatch == {d1, d2}
MCWorkerOf == [d \in MCDispatch |-> t1]

mcVars == <<vars, part>>

MCInit == part \in {"runner", "dispatch"} /\ Init

\* Idling where everything may be over: when Run has returned, and when the
\* calls have ended.
Idle ==
  /\ IF part = "runner" THEN runPC = "returned" ELSE \A d \in Dispatch : dpc[d] \in Ended
  /\ UNCHANGED mcVars

MCNext ==
  \/ part = "runner" /\ RunnerNext /\ UNCHANGED <<committerVars, dispatchVars, part>>
  \/ part = "dispatch" /\ Next /\ ~ctxDone' /\ UNCHANGED part
  \/ Idle

MCSpec == /\ MCInit /\ [][MCNext]_mcVars
          /\ RunnerFairness /\ WF_vars(CheckTTLOnce /\ UNCHANGED dispatchVars)
=============================================================================
