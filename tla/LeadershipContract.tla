------------------------- MODULE LeadershipContract -------------------------
(***************************************************************************)
(* What the election of the server masters promises the services a leader  *)
(* runs: one leader at a time, and a moment without any between two of     *)
(* them.  A server counts as a leader while it runs runLeaderService under *)
(* an etcd session that is alive; when the session ends it loses the       *)
(* leadership, whether it has noticed or not.                              *)
(* ServerElection implements it; ExecutorPool is written on top of it.     *)
(***************************************************************************)

CONSTANT Server

VARIABLE leaders

LeadersInit == leaders \in {{}} \cup {{s} : s \in Server}

\* A campaign is won.
Take(s) == leaders = {} /\ leaders' = {s}

\* The service returns, the session ends or the process dies.
Lose(s) == s \in leaders /\ leaders' = leaders \ {s}

LeadersNext == \E s \in Server : Take(s) \/ Lose(s)

LeadersSpec == LeadersInit /\ [][LeadersNext]_leaders
=============================================================================
