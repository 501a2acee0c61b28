------------------------------ MODULE MCLeases ------------------------------
(***************************************************************************)
(* The two leases, side by side:                                           *)
(*   - an executor that sends heartbeats at every other time unit, with a  *)
(*     lease that is not a multiple of the interval, and one change of     *)
(*     leader;                                                             *)
(*   - a worker whose timeout is three heartbeat intervals, with a         *)
(*     graceful duration of one, and a master that fails over once, to the *)
(*     same or to another node.                                            *)
(***************************************************************************)
EXTENDS ExecutorLease, WorkerLease, TLC

VARIABLE part

NodeSymmetry == Permutations(Nodes)

MCInit == LeaseInit /\ WorkerLeaseInit /\ part \in {"executor", "worker"}

MCNext ==
  \/ part = "executor" /\ LeaseNext /\ UNCHANGED <<wlVars, part>>
  \/ part = "worker" /\ WorkerLeaseNext /\ UNCHANGED <<leaseVars, part>>

MCSpec == MCInit /\ [][MCNext]_<<leaseVars, wlVars, part>>

\* What happens after the worker has ended cannot break a property, so that is
\* explored only for a worker that ends before it has sent anything.
WorkerAlive ==
  worker = "exiting" => (epoch = 1 /\ entry = "created" /\ acked = 0 /\ pings = {})
=============================================================================
