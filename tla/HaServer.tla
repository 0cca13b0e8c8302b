----------------------------- MODULE HaServer -----------------------------
(***************************************************************************)
(* The HA state of a server (connection/server_support.c) under requests   *)
(* of the heartbeat and of the administrator, the reports of its log       *)
(* appliers, and clients that come and go (transaction/boot_sr.c).  The    *)
(* state changes under CSECT_HA_SERVER_STATE; the check made for a client  *)
(* does not enter it, so its count, its transition and its switch of       *)
(* updates are steps of their own.                                         *)
(***************************************************************************)
EXTENDS Naturals, FiniteSets, Sequences

CONSTANTS Client,       \* normal clients
          Applier,      \* log appliers, one per other host
          MaxRequests,  \* requests to change the state
          MaxDrops,     \* disconnections of log appliers
          MaxVisits     \* registrations of clients

ASSUME HaServerAssumption ==
  IsFiniteSet(Applier) /\ {MaxRequests, MaxDrops, MaxVisits} \subseteq Nat

State == {"idle", "active", "to_be_active", "standby", "to_be_standby", "maintenance"}
Report == {"unregistered", "recovering", "working", "done"}
NumHosts == Cardinality(Applier)     \* ha_Server_num_of_hosts

VARIABLES
  st,        \* ha_Server_state
  disabled,  \* db_Disable_modifications
  table,     \* ha_Log_applier_state, its first ha_Log_applier_state_num slots
  said,      \* what an applier last reported, "off" when it is disconnected
  pc,        \* where a client is in register and unregister
  readOnly,  \* tdes->disable_modifications of a client
  forced,    \* the last change of the state was forced
  requests, drops, visits

vars == <<st, disabled, table, said, pc, readOnly, forced, requests, drops, visits>>

-----------------------------------------------------------------------------

\* css_transit_ha_server_state: the transition table
Transit(s, req) ==
  CASE s = req -> req
    [] s = "idle" /\ req \in {"active", "standby", "maintenance"} -> req
    [] s = "active" /\ req = "standby" -> "to_be_standby"
    [] s = "to_be_active" /\ req = "active" -> "active"
    [] s = "standby" /\ req = "active" -> "to_be_active"
    [] s = "standby" /\ req = "maintenance" -> "maintenance"
    [] s = "to_be_standby" /\ req = "standby" -> "standby"
    [] s = "maintenance" /\ req = "standby" -> "to_be_standby"
    [] OTHER -> "na"

\* css_check_ha_log_applier_done, over the table t in state s; slots that were
\* never taken are unregistered
AppliersDone(t, s) ==
  /\ Len(t) = NumHosts /\ \A i \in 1 .. NumHosts : t[i].state = "done"
  /\ s \in {"to_be_active", "active"}

\* logtb_count_clients
CountClients == Cardinality({c \in Client : pc[c] # "off"})

-----------------------------------------------------------------------------
(* css_change_ha_server_state.                                             *)

\* the early returns: nothing to do, or not for the administrator to ask
Ignored(req, force, heartbeat) ==
  \/ req = st
  \/ ~force /\ st = "to_be_active" /\ req = "active"
  \/ ~force /\ st = "to_be_standby" /\ req = "standby"
  \/ ~heartbeat /\ <<st, req>> \notin {<<"standby", "maintenance">>, <<"maintenance", "standby">>}
                /\ ~(force /\ st = "to_be_active" /\ req = "active")

ChangeToActive(s) ==
  LET first == Transit(s, "active")
      final == IF AppliersDone(table, first) THEN Transit(first, "active") ELSE first
  IN  /\ st' = IF first = "na" THEN s ELSE final
      /\ disabled' = (disabled /\ final # "active")

\* Mutant: the way to standby through an empty server leaves updates on
StandbyKeepsUpdates(s) ==
  LET first == Transit(s, "standby")
      final == IF first # "na" /\ CountClients = 0 THEN Transit(first, "standby") ELSE first
  IN  /\ st' = IF first = "na" THEN s ELSE final
      /\ disabled' = (disabled \/ first = "standby")

\* the server waits for its clients to go; "idle" occurs only in boot_restart_server
ChangeToStandby(s) ==
  LET first == Transit(s, "standby")
      final == IF first # "na" /\ CountClients = 0 THEN Transit(first, "standby") ELSE first
  IN  /\ st' = IF first = "na" THEN s ELSE final
      /\ disabled' = (disabled \/ final = "standby")

\* the clients that may not stay are told to leave, which they do by Leave
ChangeToMaintenance(s) ==
  LET first == Transit(s, "maintenance")
  IN  /\ st' = IF first = "na" THEN s ELSE first
      /\ disabled' = (disabled /\ first # "maintenance")

ChangeState(req, force, heartbeat) ==
  /\ requests < MaxRequests
  /\ ~Ignored(req, force, heartbeat)
  /\ LET s == IF force THEN req ELSE st
     IN  CASE req = "active" -> ChangeToActive(s)
           [] req = "standby" -> ChangeToStandby(s)
           [] req = "maintenance" -> ChangeToMaintenance(s)
  /\ forced' = force
  /\ requests' = requests + 1
  /\ UNCHANGED <<table, said, pc, readOnly, drops, visits>>

\* css_process_change_server_ha_mode_request and the start of the server,
\* which never force, and sboot_change_ha_mode
Request ==
  \/ \E req \in {"active", "standby"} : ChangeState(req, FALSE, TRUE)
  \/ \E req \in {"active", "standby", "maintenance"}, force \in BOOLEAN :
        ChangeState(req, force, FALSE)

-----------------------------------------------------------------------------
(* css_notify_ha_log_applier_state.                                        *)

\* the slot of the applier or the first unregistered one, or a new slot
Reported(a, r) ==
  LET match == {i \in DOMAIN table : table[i].id = a \/ table[i].state = "unregistered"}
      slot == CHOOSE i \in match : \A j \in match : i <= j
      entry == [id |-> a, state |-> r]
  IN  IF match # {} THEN [table EXCEPT ![slot] = entry]
      ELSE IF Len(table) < NumHosts THEN Append(table, entry)
      ELSE table

\* Mutant: only a request looks at the reports
NotifyOnlyRecords(a, r) ==
  /\ table' = Reported(a, r)
  /\ UNCHANGED <<st, disabled, forced, pc, readOnly, requests, visits>>

\* a report that changes nothing returns before the state is looked at
NotifyApplierState(a, r) ==
  /\ table' = Reported(a, r)
  /\ LET promoted == table' # table /\ AppliersDone(table', st)
     IN  /\ st' = IF promoted THEN Transit(st, "active") ELSE st
         /\ disabled' = (disabled /\ ~promoted)
         /\ forced' = (forced /\ ~promoted)
  /\ UNCHANGED <<pc, readOnly, requests, visits>>

\* xboot_register_client and xboot_unregister_client of a log applier
ApplierConnects(a) ==
  /\ said[a] = "off"
  /\ NotifyApplierState(a, "unregistered")
  /\ said' = [said EXCEPT ![a] = "unregistered"]
  /\ UNCHANGED drops

\* Mutant: the report of an applier outlives its connection
DropKeepsReport(a) ==
  /\ said[a] # "off" /\ drops < MaxDrops
  /\ said' = [said EXCEPT ![a] = "off"]
  /\ drops' = drops + 1
  /\ UNCHANGED <<st, disabled, table, forced, pc, readOnly, requests, visits>>

ApplierDrops(a) ==
  /\ said[a] # "off" /\ drops < MaxDrops
  /\ NotifyApplierState(a, "unregistered")
  /\ said' = [said EXCEPT ![a] = "off"]
  /\ drops' = drops + 1

\* la_change_state: a report is sent when it differs from the last one
ApplierReports(a, r) ==
  /\ said[a] \notin {"off", r} /\ r # "unregistered"
  /\ NotifyApplierState(a, r)
  /\ said' = [said EXCEPT ![a] = r]
  /\ UNCHANGED drops

-----------------------------------------------------------------------------
(* Clients: xboot_register_client and xboot_unregister_client, with        *)
(* css_check_ha_server_state_for_client.                                   *)

At(c, from, to) == pc[c] = from /\ pc' = [pc EXCEPT ![c] = to]

\* logtb_assign_tran_index: the client is counted, and given the current
\* switch of updates
Register(c) ==
  /\ visits < MaxVisits
  /\ At(c, "off", "assigned")
  /\ readOnly' = [readOnly EXCEPT ![c] = disabled]
  /\ visits' = visits + 1
  /\ UNCHANGED <<st, disabled, table, said, forced, requests, drops>>

\* ... a server that is to be a standby refuses it
RegisterCheck(c) ==
  /\ At(c, "assigned", IF st = "to_be_standby" THEN "leaving" ELSE "in")
  /\ UNCHANGED <<st, disabled, table, said, readOnly, forced, requests, drops, visits>>

\* logtb_clear_tdes at the end of a transaction
EndTransaction(c) ==
  /\ At(c, "in", "in")
  /\ readOnly' = [readOnly EXCEPT ![c] = disabled]
  /\ UNCHANGED <<st, disabled, table, said, forced, requests, drops, visits>>

\* the last client of a server that is to be a standby counts itself ...
Leave(c) ==
  /\ At(c, "in", IF st = "to_be_standby" /\ CountClients = 1 THEN "last" ELSE "leaving")
  /\ UNCHANGED <<st, disabled, table, said, readOnly, forced, requests, drops, visits>>

\* ... makes the transition ...
LastClientTransits(c) ==
  LET next == Transit(st, "standby")
  IN  /\ At(c, "last", IF next = "standby" THEN "disable" ELSE "leaving")
      /\ st' = IF next = "na" THEN st ELSE next
      /\ forced' = FALSE
      /\ UNCHANGED <<disabled, table, said, readOnly, requests, drops, visits>>

\* ... and switches updates off
LastClientDisables(c) ==
  /\ At(c, "disable", "leaving")
  /\ disabled' = TRUE
  /\ UNCHANGED <<st, table, said, readOnly, forced, requests, drops, visits>>

\* logtb_release_tran_index, after the transaction has been aborted
Release(c) ==
  /\ At(c, "leaving", "off")
  /\ UNCHANGED <<st, disabled, table, said, readOnly, forced, requests, drops, visits>>

-----------------------------------------------------------------------------

\* ha_mode on: boot_restart_server asks the idle server to be a standby
Init ==
  /\ st = "standby" /\ disabled = TRUE
  /\ table = <<>> /\ said = [a \in Applier |-> "off"]
  /\ pc = [c \in Client |-> "off"] /\ readOnly = [c \in Client |-> TRUE]
  /\ forced = FALSE /\ requests = 0 /\ drops = 0 /\ visits = 0

ClientStep(c) == RegisterCheck(c) \/ LastClientTransits(c) \/ LastClientDisables(c) \/ Release(c)

Next ==
  \/ Request
  \/ \E a \in Applier : ApplierConnects(a) \/ ApplierDrops(a) \/ \E r \in Report : ApplierReports(a, r)
  \/ \E c \in Client : Register(c) \/ Leave(c) \/ EndTransaction(c) \/ ClientStep(c)

\* The threads of the server run; an applier connects again and reports that
\* it is done while the server waits for it; a server that is to be a standby
\* closes the connections between two transactions (REQUEST_REFUSED)
Fairness ==
  /\ \A a \in Applier : /\ WF_vars(ApplierConnects(a))
                        /\ WF_vars(st = "to_be_active" /\ ApplierReports(a, "done"))
  /\ \A c \in Client : /\ WF_vars(ClientStep(c))
                       /\ WF_vars(st = "to_be_standby" /\ Leave(c))

Spec == Init /\ [][Next]_vars /\ Fairness

-----------------------------------------------------------------------------

\* Every variable stays in its type: a request that the transition table does
\* not have leaves the server in a state, and a table slot names an applier.
TypeOK ==
  /\ st \in State /\ {disabled, forced} \subseteq BOOLEAN
  /\ Len(table) <= NumHosts
  /\ \A i \in DOMAIN table : table[i] \in [id : Applier, state : Report]
  /\ said \in [Applier -> Report \cup {"off"}]
  /\ pc \in [Client -> {"off", "assigned", "in", "last", "disable", "leaving"}]
  /\ readOnly \in [Client -> BOOLEAN]

\* A server that is a standby, or to be active, lets no transaction that
\* starts write; only the client that made it a standby may still be about to
\* switch updates off.
StandbyDisablesUpdates ==
  (st \in {"standby", "to_be_active"} /\ \A c \in Client : pc[c] # "disable") => disabled

\* Unless it was forced, a server becomes active only when every log applier
\* has reported that it is done.
ActiveMeansDone ==
  [][st # "active" /\ st' = "active" /\ ~forced' => \A a \in Applier : said'[a] = "done"]_vars

\* A server on its way to active becomes active: the applier it waits for may
\* disconnect and come back.
PromotionCompletes == st = "to_be_active" ~> st # "to_be_active"

=============================================================================
