----------------------------- MODULE Heartbeat -----------------------------
(***************************************************************************)
(* The heartbeat of cub_master (executables/master_heartbeat.c): every     *)
(* node tells the others its state over UDP, scores what it has heard, and *)
(* elects the node with the lowest score.  One cluster worker thread runs  *)
(* the chain of jobs calc_score -> check_ping -> failover or failback, a   *)
(* resource worker turns the local server active on the elected node, and  *)
(* a demotion (disk failure, a server that keeps dying) hands the role     *)
(* over.  One database per node.                                           *)
(*                                                                         *)
(* Time is abstracted to three assumptions on the defaults of the timers,  *)
(* each a named guard: heartbeats are missed only from a node that is      *)
(* silent (Silent), the first score is computed after every visible node   *)
(* has been heard (Heard, ha_init_timer), and the wait before a failover   *)
(* is longer than a round trip of a heartbeat (Settled,                    *)
(* ha_failover_wait_time).                                                 *)
(***************************************************************************)
EXTENDS Integers, FiniteSets

CONSTANTS NumNodes,            \* nodes of ha_node_list; a node is its priority
          PingHost,            \* a ping host is configured
          MaxPingCheck,        \* HB_MAX_PING_CHECK
          MaxWaitForNewMaster, \* HB_MAX_WAIT_FOR_NEW_MASTER
          MaxTroubles          \* failures of nodes, servers, disks and the network

ASSUME HeartbeatAssumption ==
  /\ NumNodes \in Nat \ {0}
  /\ PingHost \in BOOLEAN
  /\ {MaxPingCheck, MaxWaitForNewMaster} \subseteq Nat \ {0}
  /\ MaxTroubles \in Nat

Node == 1 .. NumNodes
NoNode == 0
NState == {"unknown", "slave", "to_be_master", "master"}
SState == {"down", "standby", "to_be_active", "active"}

VARIABLES
  up,       \* cub_master of the node runs
  state,    \* hb_Cluster->state
  view,     \* hb_Cluster->nodes[]->state
  late,     \* nodes not heard of for longer than the limits of calc_score
  master,   \* hb_Cluster->master
  isolated, \* hb_Cluster->is_isolated
  hide,     \* hb_Cluster->hide_to_demote
  pingOn,   \* hb_Cluster->is_ping_check_enabled
  job,      \* the job of the calc_score chain that is queued or running
  pings,    \* ping_check_count of the queued check_ping job
  rsc,      \* hb_Resource->state
  demote,   \* the demotion job in progress
  retries,  \* retries of the cluster demotion job
  proc,     \* proc->state of the server, as the heartbeat knows it
  hang,     \* proc->server_hang
  server,   \* the state of the server process itself
  net,      \* heartbeats in flight
  away,     \* nodes cut off from the others
  noPing,   \* nodes that do not reach the ping host
  wasCut,   \* the network has failed
  troubles  \* failures so far

cluster == <<state, view, late, master, isolated, hide, pingOn, job, pings>>
resource == <<rsc, demote, retries, proc, hang, server>>
network == <<away, noPing, wasCut>>
vars == <<up, cluster, resource, net, network, troubles>>

-----------------------------------------------------------------------------
(* What the network and the timers do.                                     *)

Linked(n, m) == n # m /\ {n, m} \cap away = {}

\* hb_cluster_request_heartbeat_to_all with state s: a datagram to a node that
\* is down or cut off is lost
Beats(n, s) == [from : {n}, to : {m \in Node : Linked(n, m) /\ up[m]}, state : {s}]

\* m sends n nothing: it is down, hides to demote itself, or is cut off
Silent(m, n) == ~up[m] \/ hide[m] \/ ~Linked(m, n)

\* ha_init_timer has passed: every visible node has been heard
Heard(n) == \A m \in Node \ {n} : ~Silent(m, n) => view[n][m] # "unknown"

\* a round of heartbeats has passed: nothing in flight from or to n is news,
\* and the nodes n exchanges heartbeats with know its state and it theirs
Settled(n) ==
  /\ \A b \in net : n \in {b.from, b.to} => view[b.to][b.from] = b.state
  /\ \A m \in Node \ {n} : /\ ~Silent(m, n) => view[n][m] = state[m]
                           /\ up[m] /\ ~Silent(n, m) => view[m][n] = state[n]

-----------------------------------------------------------------------------
(* Scores.                                                                 *)

\* HB_NODE_SCORE_*, a signed short
Score(s, priority) == CASE s = "master" -> priority - 32768
                        [] s = "to_be_master" -> priority - 4096
                        [] s = "slave" -> priority
                        [] s = "unknown" -> 32767

\* hb_cluster_calc_score: the view after node->state of myself is refreshed
\* and the nodes not heard of are marked unknown
Refreshed(n) == [m \in Node |-> IF m = n THEN state[n]
                                ELSE IF m \in late[n] THEN "unknown"
                                ELSE view[n][m]]

\* ... hb_Cluster->master, which keeps its value when every score is unknown
Elected(n) ==
  LET score(m) == Score(Refreshed(n)[m], m)
      known == {m \in Node : score(m) < 32767}
  IN  IF known = {} THEN master[n]
      ELSE CHOOSE m \in known : \A o \in known : score(m) <= score(o)

\* ... and the number of masters it returns
NumMaster(n) == Cardinality({m \in Node : Score(Refreshed(n)[m], m) < -4096})

\* hb_cluster_is_isolated over the view v
IsIsolated(n, v) == \A m \in Node \ {n} : v[m] = "unknown"

CalcScore(n) ==
  /\ view' = [view EXCEPT ![n] = Refreshed(n)]
  /\ late' = [late EXCEPT ![n] = {}]
  /\ master' = [master EXCEPT ![n] = Elected(n)]

-----------------------------------------------------------------------------
(* Jobs of the cluster worker.                                             *)

\* hb_cluster_job_heartbeat; the worker is busy while a failback kills servers
HeartbeatJob(n) ==
  /\ up[n] /\ job[n] # "kill" /\ ~hide[n]
  /\ net' = net \cup Beats(n, state[n])
  /\ UNCHANGED <<up, cluster, resource, network, troubles>>

\* hb_cluster_job_calc_score: wait, check the ping of an isolated master, fail
\* back a split brain, or start a failover
JobCalcScore(n) ==
  /\ up[n] /\ job[n] \in {"init", "calc"}
  /\ job[n] = "init" => Heard(n) /\ Settled(n)
  /\ CalcScore(n)
  /\ LET lone == IsIsolated(n, Refreshed(n))
         toPing == ~hide[n] /\ state[n] = "master" /\ lone
         splitBrain == /\ ~hide[n] /\ ~toPing /\ NumMaster(n) > 1
                       /\ state[n] = "master" /\ Elected(n) # n
         toFailover == ~hide[n] /\ state[n] = "slave" /\ Elected(n) = n
     IN  /\ isolated' = [isolated EXCEPT ![n] = lone]
         /\ job' = [job EXCEPT ![n] = IF toPing \/ toFailover THEN "ping"
                                      ELSE IF splitBrain THEN "failback"
                                      ELSE "calc"]
         /\ pings' = [pings EXCEPT ![n] = 0]
         /\ IF toFailover
            THEN /\ state' = [state EXCEPT ![n] = "to_be_master"]
                 /\ net' = net \cup Beats(n, "to_be_master")
            ELSE UNCHANGED <<state, net>>
  /\ UNCHANGED <<up, hide, pingOn, resource, network, troubles>>

\* Mutant: an answer cancels the failover of a slave as it does the failback of
\* a master
CheckPingCancelsBoth(n) ==
  /\ up[n] /\ job[n] = "ping"
  /\ LET isMaster == state[n] = "master"
         checked == PingHost /\ pingOn[n]
         answer == n \notin noPing
         cancelled == IF checked THEN answer ELSE isMaster
         again == ~cancelled /\ checked /\ pings[n] + 1 < MaxPingCheck
     IN  /\ state' = [state EXCEPT ![n] = IF cancelled /\ ~isMaster THEN "slave" ELSE @]
         /\ pings' = [pings EXCEPT ![n] = IF again THEN @ + 1 ELSE 0]
         /\ job' = [job EXCEPT ![n] = IF cancelled THEN "calc"
                                      ELSE IF again THEN "ping"
                                      ELSE IF isMaster THEN "failback"
                                      ELSE "failover"]
         /\ net' = IF again THEN net ELSE net \cup Beats(n, state'[n])
  /\ UNCHANGED <<up, view, late, master, isolated, hide, pingOn, resource, network, troubles>>

\* hb_cluster_job_check_ping: the failback of a master is cancelled by an
\* answer, the failover of a slave by the lack of one
JobCheckPing(n) ==
  /\ up[n] /\ job[n] = "ping"
  /\ LET isMaster == state[n] = "master"
         checked == PingHost /\ pingOn[n]
         answer == n \notin noPing
         cancelled == IF checked THEN isMaster = answer ELSE isMaster
         again == ~cancelled /\ checked /\ pings[n] + 1 < MaxPingCheck
     IN  /\ state' = [state EXCEPT ![n] = IF cancelled /\ ~isMaster THEN "slave" ELSE @]
         /\ pings' = [pings EXCEPT ![n] = IF again THEN @ + 1 ELSE 0]
         /\ job' = [job EXCEPT ![n] = IF cancelled THEN "calc"
                                      ELSE IF again THEN "ping"
                                      ELSE IF isMaster THEN "failback"
                                      ELSE "failover"]
         /\ net' = IF again THEN net ELSE net \cup Beats(n, state'[n])
  /\ UNCHANGED <<up, view, late, master, isolated, hide, pingOn, resource, network, troubles>>

\* Mutant: the failover does not look at the scores again
FailoverUnchecked(n) ==
  /\ up[n] /\ job[n] = "failover" /\ Settled(n)
  /\ CalcScore(n)
  /\ state' = [state EXCEPT ![n] = "master"]
  /\ rsc' = [rsc EXCEPT ![n] = "master"]
  /\ net' = net \cup Beats(n, "master")
  /\ job' = [job EXCEPT ![n] = "calc"]
  /\ UNCHANGED <<up, isolated, hide, pingOn, pings, demote, retries, proc, hang,
                 server, network, troubles>>

\* hb_cluster_job_failover: the node is the master if its score is still the
\* lowest
JobFailover(n) ==
  /\ up[n] /\ job[n] = "failover" /\ Settled(n)
  /\ CalcScore(n)
  /\ LET won == Elected(n) = n
     IN  /\ state' = [state EXCEPT ![n] = IF won THEN "master" ELSE "slave"]
         /\ rsc' = [rsc EXCEPT ![n] = IF won THEN "master" ELSE @]
         /\ net' = net \cup Beats(n, state'[n])
  /\ job' = [job EXCEPT ![n] = "calc"]
  /\ UNCHANGED <<up, isolated, hide, pingOn, pings, demote, retries, proc, hang,
                 server, network, troubles>>

\* hb_cluster_job_failback: under the cluster lock the node becomes a slave
JobFailback(n) ==
  /\ up[n] /\ job[n] = "failback"
  /\ state' = [state EXCEPT ![n] = "slave"]
  /\ view' = [view EXCEPT ![n][n] = "slave"]
  /\ net' = net \cup Beats(n, "slave")
  /\ job' = [job EXCEPT ![n] = "kill"]
  /\ UNCHANGED <<up, late, master, isolated, hide, pingOn, pings, resource, network, troubles>>

\* ... and then, under the resource lock, its servers are killed; hb_kill_process
\* waits for them to be gone, which outlasts the handling of the closed connection
JobFailbackKill(n) ==
  /\ up[n] /\ job[n] = "kill"
  /\ rsc' = [rsc EXCEPT ![n] = "slave"]
  /\ server' = [server EXCEPT ![n] = "down"]
  /\ proc' = [proc EXCEPT ![n] = "down"]
  /\ hang' = [hang EXCEPT ![n] = FALSE]
  /\ job' = [job EXCEPT ![n] = "calc"]
  /\ UNCHANGED <<up, state, view, late, master, isolated, hide, pingOn, pings, demote, retries,
                 net, network, troubles>>

\* Mutant: the node stays in the state it announces
DemoteStaysUnknown(n) ==
  /\ up[n] /\ demote[n] = "cluster" /\ job[n] # "kill"
  /\ net' = net \cup Beats(n, "unknown")
  /\ hide' = [hide EXCEPT ![n] = FALSE]
  /\ demote' = [demote EXCEPT ![n] = "none"]
  /\ state' = [state EXCEPT ![n] = "unknown"]
  /\ view' = [view EXCEPT ![n][n] = "unknown"]
  /\ UNCHANGED <<up, late, master, isolated, pingOn, job, pings, rsc, retries, proc, hang, server, network, troubles>>

\* hb_cluster_job_demote: announce "unknown", hide, and wait for another master
JobDemote(n) ==
  /\ up[n] /\ demote[n] = "cluster" /\ job[n] # "kill"
  /\ LET found == \E m \in Node \ {n} : view[n][m] = "master"
         over == isolated[n] \/ retries[n] + 1 > MaxWaitForNewMaster \/ found
     IN  /\ net' = IF retries[n] = 0 THEN net \cup Beats(n, "unknown") ELSE net
         /\ hide' = [hide EXCEPT ![n] = ~over]
         /\ demote' = [demote EXCEPT ![n] = IF over THEN "none" ELSE @]
         /\ retries' = [retries EXCEPT ![n] = IF over THEN 0 ELSE @ + 1]
  /\ state' = [state EXCEPT ![n] = "slave"]
  /\ view' = [view EXCEPT ![n][n] = "slave"]
  /\ UNCHANGED <<up, late, master, isolated, pingOn, job, pings, rsc, proc, hang, server, network, troubles>>

\* hb_cluster_job_check_valid_ping_server: a ping host nobody answers for is
\* not asked while other nodes are heard
JobCheckValidPingServer(n) ==
  /\ up[n] /\ PingHost /\ job[n] # "kill"
  /\ \/ /\ n \in noPing /\ ~IsIsolated(n, view[n])
        /\ pingOn[n]
        /\ pingOn' = [pingOn EXCEPT ![n] = FALSE]
     \/ /\ n \notin noPing /\ ~pingOn[n]
        /\ pingOn' = [pingOn EXCEPT ![n] = TRUE]
  /\ UNCHANGED <<up, state, view, late, master, isolated, hide, job, pings, resource, net,
                 network, troubles>>

\* hb_cluster_receive_heartbeat by the reader thread; a request is answered
\* unless the node hides, an answer is not (the r bit is left open)
ReceiveHeartbeat(b) ==
  /\ b \in net
  /\ \/ net' = net \ {b}
     \/ /\ ~hide[b.to]
        /\ net' = (net \ {b}) \cup {c \in Beats(b.to, state[b.to]) : c.to = b.from}
  /\ view' = [view EXCEPT ![b.to][b.from] = b.state]
  /\ late' = [late EXCEPT ![b.to] = @ \ {b.from}]
  /\ UNCHANGED <<up, state, master, isolated, hide, pingOn, job, pings, resource, network, troubles>>

-----------------------------------------------------------------------------
(* Jobs and handlers of the resource worker, and the local server.         *)

Serving == {"to_be_active", "active"}

\* hb_resource_job_change_mode, with css_change_ha_server_state in the server
\* and hb_resource_receive_changemode for its answer: a standby server becomes
\* to-be-active, and active once its log appliers are done.  The exchange is
\* local and one step: a demotion looks at proc only where the server is down
\* or active.
JobChangeMode(n) ==
  /\ up[n] /\ rsc[n] = "master" /\ proc[n] \in {"standby", "to_be_active"}
  /\ server[n] # "down"
  /\ \E s \in IF server[n] = "active" THEN {"active"} ELSE Serving :
        /\ server' = [server EXCEPT ![n] = s]
        /\ proc' = [proc EXCEPT ![n] = s]
  /\ UNCHANGED <<up, cluster, rsc, demote, retries, hang, net, network, troubles>>

\* css_notify_ha_log_applier_state: the last applier is done
ServerPromoted(n) ==
  /\ up[n] /\ server[n] = "to_be_active"
  /\ server' = [server EXCEPT ![n] = "active"]
  /\ UNCHANGED <<up, cluster, rsc, demote, retries, proc, hang, net, network, troubles>>

\* The node gives its role up: hb_Resource->state = HB_NSTATE_SLAVE and
\* HB_RJOB_DEMOTE_START_SHUTDOWN queued.  One demotion of a node at a time.
CanDemote(n) == rsc[n] = "master" /\ ~isolated[n] /\ demote[n] = "none"

BeginDemote(n) ==
  /\ rsc' = [rsc EXCEPT ![n] = "slave"]
  /\ demote' = [demote EXCEPT ![n] = "start"]

\* hb_cleanup_conn_and_start_process: the connection of the server closed;
\* the node is demoted when it had been restarted a short while ago
ConnectionClosed(n) ==
  /\ up[n] /\ server[n] = "down" /\ proc[n] # "down"
  /\ \/ CanDemote(n) /\ BeginDemote(n)
     \/ UNCHANGED <<rsc, demote>>
  /\ proc' = [proc EXCEPT ![n] = "down"]
  /\ hang' = [hang EXCEPT ![n] = FALSE]
  /\ UNCHANGED <<up, cluster, retries, server, net, network, troubles>>

\* hb_resource_job_proc_start, hb_register_new_process and
\* hb_resource_job_confirm_start: the server is started again as a standby
JobProcStart(n) ==
  /\ up[n] /\ proc[n] = "down"
  /\ proc' = [proc EXCEPT ![n] = "standby"]
  /\ server' = [server EXCEPT ![n] = "standby"]
  /\ UNCHANGED <<up, cluster, rsc, demote, retries, hang, net, network, troubles>>

\* hb_resource_job_confirm_start gives up on the server it started: the master
\* is demoted.  Bound: not combined with a failure of the network.
JobConfirmStartFails(n) ==
  /\ up[n] /\ proc[n] = "down" /\ ~wasCut
  /\ CanDemote(n) /\ BeginDemote(n)
  /\ UNCHANGED <<up, cluster, retries, proc, hang, server, net, network, troubles>>

\* hb_thread_check_disk_failure: the log of the active server does not grow
CheckDiskFailure(n) ==
  /\ up[n] /\ proc[n] = "active" /\ troubles < MaxTroubles
  /\ CanDemote(n) /\ BeginDemote(n)
  /\ hang' = [hang EXCEPT ![n] = TRUE]
  /\ troubles' = troubles + 1
  /\ UNCHANGED <<up, cluster, retries, proc, server, net, network>>

\* Mutant: the hung server is left running
ShutdownSparesHung(n) ==
  /\ up[n] /\ demote[n] = "start"
  /\ demote' = [demote EXCEPT ![n] = "confirm"]
  /\ UNCHANGED <<up, cluster, rsc, retries, proc, hang, server, net, network, troubles>>

\* hb_resource_job_demote_start_shutdown: the hung server is killed.  With one
\* database there is no other active server to shut down: the server of a
\* demoted node hangs or is dead.
JobDemoteStartShutdown(n) ==
  /\ up[n] /\ demote[n] = "start"
  /\ server' = [server EXCEPT ![n] = IF proc[n] \in Serving /\ hang[n] THEN "down" ELSE @]
  /\ demote' = [demote EXCEPT ![n] = "confirm"]
  /\ UNCHANGED <<up, cluster, rsc, retries, proc, hang, net, network, troubles>>

\* hb_resource_job_demote_confirm_shutdown: no server is active any more; a hung
\* one is not waited for
JobDemoteConfirmShutdown(n) ==
  /\ up[n] /\ demote[n] = "confirm"
  /\ proc[n] \in Serving => hang[n]
  /\ demote' = [demote EXCEPT ![n] = "cluster"]
  /\ UNCHANGED <<up, cluster, rsc, retries, proc, hang, server, net, network, troubles>>

-----------------------------------------------------------------------------
(* The environment.                                                        *)

\* a server process dies
ServerFails(n) ==
  /\ up[n] /\ server[n] # "down" /\ troubles < MaxTroubles
  /\ server' = [server EXCEPT ![n] = "down"]
  /\ troubles' = troubles + 1
  /\ UNCHANGED <<up, cluster, rsc, demote, retries, proc, hang, net, network>>

\* the node crashes, or hb_cluster_cleanup stops it and sends a last "unknown"
NodeStops(n) ==
  /\ up[n] /\ troubles < MaxTroubles
  /\ up' = [up EXCEPT ![n] = FALSE]
  /\ server' = [server EXCEPT ![n] = "down"]
  /\ \E last \in {{}, Beats(n, "unknown")} : net' = {b \in net : b.to # n} \cup last
  /\ troubles' = troubles + 1
  /\ UNCHANGED <<cluster, rsc, demote, retries, proc, hang, network>>

\* hb_master_init: hb_cluster_initialize, hb_resource_initialize, job_init,
\* and the server started by the utility
NodeStarts(n) ==
  /\ ~up[n]
  /\ up' = [up EXCEPT ![n] = TRUE]
  /\ state' = [state EXCEPT ![n] = "slave"]
  /\ view' = [view EXCEPT ![n] = [m \in Node |-> IF m = n THEN "slave" ELSE "unknown"]]
  /\ late' = [late EXCEPT ![n] = {}]
  /\ master' = [master EXCEPT ![n] = NoNode]
  /\ isolated' = [isolated EXCEPT ![n] = FALSE]
  /\ hide' = [hide EXCEPT ![n] = FALSE]
  /\ pingOn' = [pingOn EXCEPT ![n] = TRUE]
  /\ job' = [job EXCEPT ![n] = "init"]
  /\ pings' = [pings EXCEPT ![n] = 0]
  /\ rsc' = [rsc EXCEPT ![n] = "slave"]
  /\ demote' = [demote EXCEPT ![n] = "none"]
  /\ retries' = [retries EXCEPT ![n] = 0]
  /\ proc' = [proc EXCEPT ![n] = "standby"]
  /\ server' = [server EXCEPT ![n] = "standby"]
  /\ hang' = [hang EXCEPT ![n] = FALSE]
  /\ UNCHANGED <<net, network, troubles>>

\* the network cuts n off, with or without its way to the ping host
CutOff(n) ==
  /\ troubles < MaxTroubles /\ away = {}
  /\ away' = {n}
  /\ noPing' \in {noPing, noPing \cup {n}}
  /\ net' = {b \in net : n \notin {b.from, b.to}}
  /\ wasCut' = TRUE
  /\ troubles' = troubles + 1
  /\ UNCHANGED <<up, cluster, resource>>

Rejoin ==
  /\ away # {}
  /\ away' = {} /\ noPing' = {}
  /\ UNCHANGED <<up, cluster, resource, net, wasCut, troubles>>

\* more than ha_max_heartbeat_gap heartbeats of m are missing at n
MissHeartbeats(n, m) ==
  /\ up[n] /\ n # m /\ Silent(m, n) /\ view[n][m] # "unknown"
  /\ \A b \in net : b.from = m => b.to # n
  /\ m \notin late[n]
  /\ late' = [late EXCEPT ![n] = @ \cup {m}]
  /\ UNCHANGED <<up, state, view, master, isolated, hide, pingOn, job, pings, resource, net,
                 network, troubles>>

-----------------------------------------------------------------------------

Init ==
  /\ up = [n \in Node |-> TRUE]
  /\ state = [n \in Node |-> "slave"]
  /\ view = [n \in Node |-> [m \in Node |-> IF m = n THEN "slave" ELSE "unknown"]]
  /\ late = [n \in Node |-> {}]
  /\ master = [n \in Node |-> NoNode]
  /\ isolated = [n \in Node |-> FALSE]
  /\ hide = [n \in Node |-> FALSE]
  /\ pingOn = [n \in Node |-> TRUE]
  /\ job = [n \in Node |-> "init"]
  /\ pings = [n \in Node |-> 0]
  /\ rsc = [n \in Node |-> "slave"]
  /\ demote = [n \in Node |-> "none"]
  /\ retries = [n \in Node |-> 0]
  /\ proc = [n \in Node |-> "standby"]
  /\ hang = [n \in Node |-> FALSE]
  /\ server = [n \in Node |-> "standby"]
  /\ net = {} /\ away = {} /\ noPing = {}
  /\ wasCut = FALSE /\ troubles = 0

ClusterJob(n) == \/ JobCalcScore(n) \/ JobCheckPing(n) \/ JobFailover(n)
                 \/ JobFailback(n) \/ JobFailbackKill(n)

Receive(n, m, s) == ReceiveHeartbeat([from |-> m, to |-> n, state |-> s])

ServerJob(n) == \/ JobChangeMode(n) \/ ServerPromoted(n) \/ ConnectionClosed(n)
                \/ JobProcStart(n)

DemoteJob(n) == \/ JobDemoteStartShutdown(n) \/ JobDemoteConfirmShutdown(n) \/ JobDemote(n)

Fault(n) == \/ ServerFails(n) \/ CheckDiskFailure(n) \/ JobConfirmStartFails(n)
            \/ NodeStops(n) \/ NodeStarts(n) \/ CutOff(n)

Next ==
  \/ \E n \in Node : \/ HeartbeatJob(n) \/ JobCheckValidPingServer(n)
                     \/ ClusterJob(n) \/ ServerJob(n) \/ DemoteJob(n) \/ Fault(n)
                     \/ \E m \in Node, s \in NState : Receive(n, m, s)
                     \/ \E m \in Node : MissHeartbeats(n, m)
  \/ Rejoin

\* The jobs of the worker threads are on timers and run again and again, a
\* datagram sent over and over arrives, and a network failure ends
Fairness ==
  /\ \A n \in Node :
       /\ WF_vars(HeartbeatJob(n))
       /\ WF_vars(ClusterJob(n)) /\ WF_vars(DemoteJob(n))
       /\ WF_vars(ServerJob(n))
       /\ WF_vars(\E m \in Node : MissHeartbeats(n, m))
       /\ WF_vars(\E b \in net : b.to = n /\ ReceiveHeartbeat(b))
       /\ WF_vars(\E b \in net : b.to = n /\ b.state # view[n][b.from] /\ ReceiveHeartbeat(b))
  /\ WF_vars(Rejoin)

Spec == Init /\ [][Next]_vars /\ Fairness

-----------------------------------------------------------------------------

\* The variables keep their types: a node never calls itself "unknown" (it only
\* announces that while it demotes itself), and the counts of ping checks and of
\* waits for a new master stay within their limits.
TypeOK ==
  /\ up \in [Node -> BOOLEAN] /\ state \in [Node -> NState \ {"unknown"}]
  /\ view \in [Node -> [Node -> NState]] /\ late \in [Node -> SUBSET Node]
  /\ master \in [Node -> Node \cup {NoNode}]
  /\ {isolated, hide, pingOn, hang} \subseteq [Node -> BOOLEAN]
  /\ job \in [Node -> {"init", "calc", "ping", "failover", "failback", "kill"}]
  /\ pings \in [Node -> 0 .. MaxPingCheck - 1]
  /\ rsc \in [Node -> {"slave", "master"}]
  /\ demote \in [Node -> {"none", "start", "confirm", "cluster"}]
  /\ retries \in [Node -> 0 .. MaxWaitForNewMaster]
  /\ proc \in [Node -> SState] /\ server \in [Node -> SState]
  /\ net \subseteq [from : Node, to : Node, state : NState]
  /\ away \subseteq Node /\ noPing \subseteq Node

Masters == {n \in Node : up[n] /\ state[n] = "master"}

\* As long as the network has not failed there is one master at most.
AtMostOneMaster == ~wasCut => Cardinality(Masters) <= 1

\* As long as the network has not failed, at most one database server takes
\* updates.
AtMostOneActive == ~wasCut => Cardinality({n \in Node : server[n] = "active"}) <= 1

\* Once the failures stop, one node is the master for good, its server is the
\* only active one, and the others follow it.
Led == \E n \in Node : /\ Masters = {n} /\ rsc[n] = "master" /\ server[n] = "active"
                       /\ \A m \in Node \ {n} : up[m] => /\ state[m] = "slave"
                                                         /\ server[m] = "standby"
                                                         /\ master[m] = n
OneMasterAgain == <>[]((\E n \in Node : up[n]) => Led)

=============================================================================
