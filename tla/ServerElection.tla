--------------------------- MODULE ServerElection ---------------------------
(***************************************************************************)
(* Leadership of the server masters: leaderLoop, watchLeader and campaign  *)
(* (servermaster/campaign.go), runLeaderService and reset (server.go) and  *)
(* the forwarding of RPCs to the leader (pkg/rpcutil/server.go).           *)
(*                                                                         *)
(* Candidates queue up under one etcd prefix (cluster/election.go uses     *)
(* etcd's concurrency.Election): the holder of the oldest key leads, and a *)
(* key lives as long as the etcd session it was written with.  etcd is not *)
(* modelled beyond that queue and its sessions.                            *)
(***************************************************************************)
EXTENDS Naturals

CONSTANTS
  Server,
  NoServer,
  MaxFaults   \* bounds crashes, lost sessions, moves of the etcd leader, errors

VARIABLES
  pc,         \* where each server's leaderLoop is
  view,       \* s.leader: the Member requests are sent to
  cli,        \* s.masterCli: whom the forwarding client is connected to
  initialized,\* s.leaderInitialized
  session,    \* whether s.session is alive
  keys,       \* the campaign keys
  deleted,    \* servers whose watch has a DELETE event to read
  etcdLeader, \* the server whose etcd member leads
  faults

electionVars == <<pc, view, cli, initialized, session, keys, deleted,
                  etcdLeader, faults>>

\* A key belongs to the current session of its server, or to that of an
\* earlier process ("orphan").  A "ghost" is a key that is gone from etcd while
\* its campaign still waits for the older ones.  Of the revisions at which keys
\* were created only the order matters: the next one follows the newest key.
Key == [srv : Server, st : {"live", "orphan", "ghost"}, rev : Nat]

\* "blind" is a watch that has lost a deletion.
Phases == {"down", "get", "connect", "dial", "watch", "blind", "decide", "campaign",
           "init", "stored", "ready", "closing", "expired", "reset"}

ElectionTypeOK ==
  /\ pc \in [Server -> Phases]
  /\ view \in [Server -> Server \cup {NoServer}]
  /\ cli \in [Server -> Server \cup {NoServer}]
  /\ initialized \in [Server -> BOOLEAN]
  /\ session \in [Server -> BOOLEAN]
  /\ keys \subseteq Key
  /\ deleted \subseteq Server
  /\ etcdLeader \in Server
  /\ faults \in 0 .. MaxFaults

\* Every server has come up and reset its session.
ElectionInit ==
  /\ pc = [s \in Server |-> "get"]
  /\ view = [s \in Server |-> NoServer]
  /\ cli = [s \in Server |-> NoServer]
  /\ initialized = [s \in Server |-> FALSE]
  /\ session = [s \in Server |-> TRUE]
  /\ keys = {}
  /\ deleted = {}
  /\ etcdLeader \in Server
  /\ faults = 0

Goto(s, p) == pc' = [pc EXCEPT ![s] = p]
Fault == faults < MaxFaults /\ faults' = faults + 1

InEtcd(k) == k.st # "ghost"

\* The key GetLeader returns: the oldest one.
Leads(k) == k \in keys /\ InEtcd(k) /\ \A j \in keys : InEtcd(j) => k.rev <= j.rev

\* Deleting keys wakes every watch under the prefix.
Deletes(gone) ==
  /\ keys' = keys \ gone
  /\ deleted' = IF \E k \in gone : InEtcd(k) THEN Server ELSE deleted

Mine(s, k) == k.srv = s /\ k.st # "orphan"
KeysOf(s) == {k \in keys : Mine(s, k)}
Ghosts(s) == {k \in keys : k.srv = s /\ ~InEtcd(k)}
InService(s) == pc[s] \in {"init", "stored", "ready", "closing", "expired"}

-----------------------------------------------------------------------------
(* leaderLoop.                                                             *)

\* GetLeader found nobody.
GetNoLeader(s) ==
  /\ pc[s] = "get" /\ \A k \in keys : ~InEtcd(k)
  /\ Goto(s, "decide")
  /\ UNCHANGED <<view, cli, initialized, session, keys, deleted, etcdLeader,
                 faults>>

\* The oldest key carries this server's name or address: it is stale.
DeleteStale(s) ==
  /\ pc[s] = "get"
  /\ \E k \in keys : Leads(k) /\ k.srv = s /\ keys' = keys \ {k}
  /\ deleted' = Server
  /\ UNCHANGED <<pc, view, cli, initialized, session, etcdLeader, faults>>

\* Mutant: the stale key is taken for that of a leader.
GetOtherLeader_Any(s) ==
  /\ pc[s] = "get"
  /\ \E k \in keys : Leads(k) /\ view' = [view EXCEPT ![s] = k.srv]
  /\ Goto(s, "connect")
  /\ deleted' = deleted \ {s}
  /\ UNCHANGED <<cli, initialized, session, keys, etcdLeader, faults>>

\* Another server leads: watchLeader stores it.  The watch starts at the
\* revision of the read: every later deletion is seen, and one that was the
\* last change before the read is seen again.
GetOtherLeader(s) ==
  /\ pc[s] = "get"
  /\ \E k \in keys : Leads(k) /\ k.srv # s /\ view' = [view EXCEPT ![s] = k.srv]
  /\ Goto(s, "connect")
  /\ deleted' \in {deleted, deleted \ {s}}
  /\ UNCHANGED <<cli, initialized, session, keys, etcdLeader, faults>>

\* createLeaderClient closes the client of the previous leader and dials the
\* new one; when that fails there is no client until the leader changes.
CloseClient(s) ==
  /\ pc[s] = "connect"
  /\ cli' = [cli EXCEPT ![s] = NoServer]
  /\ Goto(s, "dial")
  /\ UNCHANGED <<view, initialized, session, keys, deleted, etcdLeader, faults>>

\* Mutant: the watch starts only once the client is connected.
DialClient_LateWatch(s) ==
  /\ pc[s] = "dial"
  /\ \/ cli' = [cli EXCEPT ![s] = view[s]] /\ UNCHANGED faults
     \/ Fault /\ UNCHANGED cli
  /\ Goto(s, "watch")
  /\ deleted' = deleted \ {s}
  /\ UNCHANGED <<view, initialized, session, keys, etcdLeader>>

DialClient(s) ==
  /\ pc[s] = "dial"
  /\ \/ cli' = [cli EXCEPT ![s] = view[s]] /\ UNCHANGED faults
     \/ Fault /\ UNCHANGED cli
  /\ Goto(s, "watch")
  /\ UNCHANGED <<view, initialized, session, keys, deleted, etcdLeader>>

\* etcd has compacted the revision that the watch asks for: it starts again at
\* the compaction, and a deletion before that is not seen.  (A compaction that
\* loses none changes nothing.)
WatchCompacted(s) ==
  /\ Fault
  /\ pc[s] \in {"watch", "blind"} /\ s \in deleted
  /\ deleted' = deleted \ {s}
  /\ Goto(s, "blind")
  /\ UNCHANGED <<view, cli, initialized, session, keys, etcdLeader>>

\* Any deletion under the prefix ends the watch, and so does a cancelled
\* watcher.
WatchEnds(s) ==
  /\ pc[s] \in {"watch", "blind"}
  /\ \/ s \in deleted /\ UNCHANGED faults
     \/ Fault
  /\ view' = [view EXCEPT ![s] = NoServer]
  /\ Goto(s, "decide")
  /\ UNCHANGED <<cli, initialized, session, keys, deleted, etcdLeader>>

\* Only the server on the etcd leader campaigns.
SkipCampaign(s) ==
  /\ pc[s] = "decide" /\ etcdLeader # s
  /\ Goto(s, "get")
  /\ UNCHANGED <<view, cli, initialized, session, keys, deleted, etcdLeader,
                 faults>>

\* Election.Campaign writes the key, unless this session has one.
StartCampaign(s) ==
  /\ pc[s] = "decide" /\ etcdLeader = s /\ session[s]
  /\ \/ KeysOf(s) # {} /\ UNCHANGED keys
     \/ /\ KeysOf(s) = {}
        /\ \E r \in {0} \cup {k.rev + 1 : k \in keys} :
             /\ \A k \in keys : k.rev < r
             /\ keys' = keys \cup {[srv |-> s, st |-> "live", rev |-> r]}
  /\ Goto(s, "campaign")
  /\ UNCHANGED <<view, cli, initialized, session, deleted, etcdLeader, faults>>

\* The lease of the session is gone: Campaign fails, and leaderLoop tries
\* again with the same session.
CampaignFails(s) ==
  /\ pc[s] = "decide" /\ etcdLeader = s /\ ~session[s]
  /\ Goto(s, "get")
  /\ UNCHANGED <<view, cli, initialized, session, keys, deleted, etcdLeader,
                 faults>>

\* No key older than this server's is left in etcd.
First(s) ==
  \E k \in KeysOf(s) : \A j \in keys : InEtcd(j) => k.rev <= j.rev

\* Mutant: the campaign does not wait for the older keys.
Elected_AnyPlace(s) ==
  /\ pc[s] = "campaign"
  /\ keys' = keys \ Ghosts(s)
  /\ Goto(s, "init")
  /\ UNCHANGED <<view, cli, initialized, session, deleted, etcdLeader, faults>>

Elected(s) ==
  /\ pc[s] = "campaign" /\ First(s)
  /\ keys' = keys \ Ghosts(s)
  /\ Goto(s, "init")
  /\ UNCHANGED <<view, cli, initialized, session, deleted, etcdLeader, faults>>

\* defaultCampaignTimeout: the election removes the key it wrote.
CampaignTimeout(s) ==
  /\ pc[s] = "campaign"
  /\ Deletes(KeysOf(s))
  /\ Goto(s, "get")
  /\ UNCHANGED <<view, cli, initialized, session, etcdLeader, faults>>

-----------------------------------------------------------------------------
(* runLeaderService.                                                       *)

\* The backend tables, the executors and the background managers are set up,
\* then the server presents itself as the leader.
StoreLeader(s) ==
  /\ pc[s] = "init"
  /\ view' = [view EXCEPT ![s] = s]
  /\ Goto(s, "stored")
  /\ UNCHANGED <<cli, initialized, session, keys, deleted, etcdLeader, faults>>

\* An error before that returns at once: nothing is resigned.  With the
\* session gone the error may or may not be ErrMasterSessionDone.
InitFails(s) ==
  /\ pc[s] = "init"
  /\ \/ ~session[s] /\ pc' \in {[pc EXCEPT ![s] = p] : p \in {"get", "reset"}}
        /\ UNCHANGED faults
     \/ session[s] /\ Fault /\ Goto(s, "get")
  /\ UNCHANGED <<view, cli, initialized, session, keys, deleted, etcdLeader>>

\* The job manager is running: leaderInitialized.
ServiceReady(s) ==
  /\ pc[s] = "stored"
  /\ initialized' = [initialized EXCEPT ![s] = TRUE]
  /\ Goto(s, "ready")
  /\ UNCHANGED <<view, cli, session, keys, deleted, etcdLeader, faults>>

\* NewJobManagerImplV2 or a Poll fails, the etcd leader has moved, or the
\* session is done: the error is settled here, whatever happens to the session
\* before leaderLoop looks at it.
ServiceExits(s) ==
  /\ pc[s] \in {"stored", "ready"}
  /\ \/ /\ \/ pc[s] = "ready" /\ etcdLeader # s /\ UNCHANGED faults
           \/ Fault
        /\ Goto(s, "closing")
     \/ ~session[s] /\ Goto(s, "expired") /\ UNCHANGED faults
  /\ UNCHANGED <<view, cli, initialized, session, keys, deleted, etcdLeader>>

\* The deferred function; a failure to remove the key is only logged.
\* ErrMasterSessionDone, and no other error, makes leaderLoop reset the session.
Resign(s) ==
  /\ pc[s] \in {"closing", "expired"}
  /\ initialized' = [initialized EXCEPT ![s] = FALSE]
  /\ view' = [view EXCEPT ![s] = NoServer]
  /\ \/ Deletes(KeysOf(s)) /\ UNCHANGED faults
     \/ Fault /\ UNCHANGED <<keys, deleted>>
  /\ Goto(s, IF pc[s] = "closing" THEN "get" ELSE "reset")
  /\ UNCHANGED <<cli, session, etcdLeader>>

Reset(s) ==
  /\ pc[s] = "reset"
  /\ session' = [session EXCEPT ![s] = TRUE]
  /\ Goto(s, "get")
  /\ UNCHANGED <<view, cli, initialized, keys, deleted, etcdLeader, faults>>

-----------------------------------------------------------------------------
(* Faults.                                                                 *)

\* The session's lease expires, and with it the key.
SessionDone(s) ==
  /\ Fault /\ pc[s] # "down" /\ session[s]
  /\ session' = [session EXCEPT ![s] = FALSE]
  /\ IF pc[s] = "campaign"
     THEN /\ keys' = {IF Mine(s, k) THEN [k EXCEPT !.st = "ghost"] ELSE k : k \in keys}
          /\ deleted' = IF \E k \in KeysOf(s) : InEtcd(k) THEN Server ELSE deleted
     ELSE Deletes(KeysOf(s))
  /\ UNCHANGED <<pc, view, cli, initialized, etcdLeader>>

\* The process dies; its key stays until the lease runs out.
Crash(s) ==
  /\ Fault /\ pc[s] # "down"
  /\ Goto(s, "down")
  /\ view' = [view EXCEPT ![s] = NoServer]
  /\ cli' = [cli EXCEPT ![s] = NoServer]
  /\ initialized' = [initialized EXCEPT ![s] = FALSE]
  /\ session' = [session EXCEPT ![s] = FALSE]
  /\ keys' = {IF Mine(s, k) THEN [k EXCEPT !.st = "orphan"] ELSE k :
                k \in keys \ Ghosts(s)}
  /\ UNCHANGED <<deleted, etcdLeader>>

\* Server.Run, up to leaderLoop.
Run(s) ==
  /\ pc[s] = "down"
  /\ session' = [session EXCEPT ![s] = TRUE]
  /\ Goto(s, "get")
  /\ UNCHANGED <<view, cli, initialized, keys, deleted, etcdLeader, faults>>

OrphanExpires(s) ==
  /\ \E k \in keys : k.srv = s /\ k.st = "orphan" /\ Deletes({k})
  /\ UNCHANGED <<pc, view, cli, initialized, session, etcdLeader, faults>>

EtcdLeaderMoves ==
  /\ Fault
  /\ etcdLeader' \in Server \ {etcdLeader}
  /\ UNCHANGED <<pc, view, cli, initialized, session, keys, deleted>>

-----------------------------------------------------------------------------
LoopStep(s) ==
  \/ GetNoLeader(s) \/ DeleteStale(s) \/ GetOtherLeader(s) \/ CloseClient(s)
  \/ DialClient(s) \/ WatchCompacted(s) \/ WatchEnds(s) \/ SkipCampaign(s)
  \/ StartCampaign(s) \/ CampaignFails(s) \/ StoreLeader(s) \/ ServiceReady(s)
  \/ Resign(s) \/ Reset(s) \/ Run(s) \/ OrphanExpires(s)

ElectionNext ==
  \/ \E s \in Server : LoopStep(s) \/ Elected(s) \/ CampaignTimeout(s)
       \/ InitFails(s) \/ ServiceExits(s) \/ SessionDone(s) \/ Crash(s)
  \/ EtcdLeaderMoves

\* leaderLoop never stops, a watch delivers its events, a process that died is
\* started again, and a campaign nobody is ahead of is decided within its
\* timeout.  ServiceExits is fair only for what runLeaderService polls.
Polled(s) == ServiceExits(s) /\ (etcdLeader # s \/ ~session[s])
ElectionFairness ==
  \A s \in Server :
    /\ WF_electionVars(LoopStep(s) /\ UNCHANGED faults)
    /\ SF_electionVars(Elected(s))
    /\ WF_electionVars(CampaignTimeout(s))
    /\ WF_electionVars(Polled(s) /\ UNCHANGED faults)

ElectionSpec ==
  ElectionInit /\ [][ElectionNext]_electionVars /\ ElectionFairness

-----------------------------------------------------------------------------
(* Properties.                                                             *)

\* Whom PreRPC sends a request on to: s.leader says that another server leads,
\* and s.masterCli is the client that carries the request.
ForwardsTo(s) == IF view[s] \in {NoServer, s} THEN NoServer ELSE cli[s]

\* A server that sends requests on sends them to the holder of the oldest key,
\* in whatever order the servers learn of elections, resignations, crashes and
\* restarts and whichever dials fail: unless its watch has a deletion to read,
\* a compaction swallowed one, or createLeaderClient has not yet closed the
\* client of the previous leader.
ForwardsToLeader ==
  \A s \in Server :
    /\ ForwardsTo(s) # NoServer
    /\ s \notin deleted /\ pc[s] \notin {"connect", "blind"}
    => \E k \in keys : Leads(k) /\ k.srv = ForwardsTo(s)

\* The servers that run the leader service under a live session.
InOffice == {s \in Server : InService(s) /\ session[s]}

Contract == INSTANCE LeadershipContract WITH leaders <- InOffice

\* In whatever order campaigns are decided, sessions expire and processes die,
\* one server leads at a time and none before its predecessor's session or
\* service has ended: what the executor manager of the next leader relies on.
LeadershipKept == Contract!LeadersSpec

\* At most one server runs the leader service under a live session.
OneLeader ==
  \A s, t \in Server :
    InService(s) /\ session[s] /\ InService(t) /\ session[t] => s = t

\* Once etcd sessions stop expiring, some server becomes and stays a leader
\* that answers requests.  (A server that lost its session while it was not
\* the leader never gets a new one, and one whose watch has lost the deletion
\* of the leader's key waits for a leader that is gone: hence the premises.)
LedWhileSessionsHold ==
  <>[](\A s \in Server : pc[s] # "blind" /\ (pc[s] # "down" => session[s]))
    => <>[](\E s \in Server : initialized[s])
=============================================================================
