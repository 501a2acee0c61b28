-------------------------- MODULE DispatchContract --------------------------
(***************************************************************************)
(* What DispatchTask promises the master that calls it                     *)
(* (client/task_dispatcher.go): when it runs which of the two callbacks,   *)
(* what it returns, and what each of these says about the worker.          *)
(* TaskDispatch implements it; MasterWorkers is written on top of it.      *)
(***************************************************************************)

CONSTANT Call

VARIABLES
  call,     \* where each call of DispatchTask is
  launched  \* the calls whose worker an executor has taken on

contractVars == <<call, launched>>

\* "dispatching": no callback has run.  "confirming": startWorkerTimer has.
\* "failed": an error was returned, after abortWorker if the timer had been
\* started.  "dispatched": nil was returned, the worker being launched or its
\* fate not known.  "lost": the caller died after startWorkerTimer.
CallStates == {"dispatching", "confirming", "failed", "dispatched", "lost"}

ContractTypeOK ==
  /\ call \in [Call -> CallStates]
  /\ launched \subseteq Call

ContractInit ==
  /\ call = [c \in Call |-> "dispatching"]
  /\ launched = {}

Move(c, from, to) ==
  /\ call[c] = from
  /\ call' = [call EXCEPT ![c] = to]
  /\ UNCHANGED launched

\* The first phase fails: neither callback has run or will.
PreDispatchFails(c) == Move(c, "dispatching", "failed")

\* The first phase has succeeded: startWorkerTimer.
TimerStarts(c) == Move(c, "dispatching", "confirming")

\* A guaranteed failure, and only that: abortWorker.
Aborts(c) == c \notin launched /\ Move(c, "confirming", "failed")

\* nil: the worker is launched, or its fate is undetermined.
Returns(c) == Move(c, "confirming", "dispatched")

\* The executor takes the worker on: after startWorkerTimer, once, and never
\* after an error.
Launches(c) ==
  /\ call[c] \in {"confirming", "dispatched", "lost"}
  /\ c \notin launched
  /\ launched' = launched \cup {c}
  /\ UNCHANGED call

\* The callers of some of the calls die.
CallersDie(S) ==
  /\ call' = [c \in Call |->
       CASE c \in S /\ call[c] = "dispatching" -> "failed"
         [] c \in S /\ call[c] = "confirming"  -> "lost"
         [] OTHER -> call[c]]
  /\ UNCHANGED launched

ContractNext ==
  \/ \E c \in Call : PreDispatchFails(c) \/ TimerStarts(c) \/ Aborts(c)
                       \/ Returns(c) \/ Launches(c)
  \/ \E S \in SUBSET Call : CallersDie(S)

ContractSpec == ContractInit /\ [][ContractNext]_contractVars
=============================================================================
