---------------------------- MODULE MCDMJobMaster ----------------------------
(***************************************************************************)
(* The DM job master, and beside it the brokers with workers of any kind,  *)
(* which may be closed at any time.                                        *)
(***************************************************************************)
EXTENDS DMJobMaster

CONSTANTS x1, x2
VARIABLE part

mcVars == <<dmVars, part>>

\* The name a DM task gives its files, and a plain one.
MCResource == {NewDMResourceID(t) : t \in Task} \cup {<<"file">>}

\* Executors are interchangeable: the first one a worker starts on is x1.
ExecutorsInOrder == \A w \in Worker : home'[w] = x2 => \E v \in Worker : home'[v] = x1

\* Faults, lost answers and restarts together: one, or two where there is but
\* one unit.
MaxTroubles == IF mode = "incremental" THEN 2 ELSE 1

\* A crash that no restart can follow is left out, and a job master that is
\* down is started again or not followed further: what its workers do
\* meanwhile they could have done before.
JobNext ==
  /\ part = "job" /\ UNCHANGED part
  /\ DMNext
  /\ jm \in {"down", "zombie"} => jm' = "starting"
  /\ jm' = "down" => jm \in {"closing", "starting"} \/ faults + lostReplies + restarts < MaxTroubles
  /\ faults' + lostReplies' + restarts' <= MaxTroubles
  /\ ExecutorsInOrder

BrokerNext ==
  /\ part = "broker" /\ ResourceNext /\ ExecutorsInOrder
  /\ UNCHANGED <<known, proc, masterVars, unitVars, faults, part>>

MCInit == DMInit /\ part \in {"job", "broker"} /\ (part = "broker" => mode = "all")

MCSpec ==
  /\ MCInit /\ [][JobNext \/ BrokerNext]_mcVars
  /\ MasterFairness
=============================================================================
