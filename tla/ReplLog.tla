------------------------------ MODULE ReplLog ------------------------------
(***************************************************************************)
(* The transaction log of a CUBRID HA master, as the replication agents     *)
(* see it: which records a transaction leaves in the log and in which order *)
(* the records of different transactions may be interleaved.                *)
(*                                                                          *)
(* A record's address (LOG_LSA) is its index in "log"; 0 is the NULL LSA.   *)
(* Only the record header fields the log applier looks at are kept: the     *)
(* type, the transaction, and whether prev_tranlsa is NULL ("first").       *)
(* Names follow log_manager.c, replication.c and log_recovery.c.            *)
(***************************************************************************)
EXTENDS Integers, Sequences, FiniteSets

CONSTANTS
  Tran,              \* transaction identifiers; each is used at most once
  MaxItems,          \* bound: replication records one commit may append
  MaxTopops,         \* bound: system operations in the log
  EmptySystemOps,    \* may a system operation have no replication record?
  MaxMasterCrashes,  \* bound: crashes of the master server
  MaxMasterRestarts, \* bound: restarts of the master server
  MaxStateChanges,   \* bound: HA role changes of the master
  UnlockedCrash      \* may a crash leave an UNLOCK_COMMIT without its COMMIT,
                     \* on the master's disk or in the copied log?

ASSUME ReplLogAssumption ==
  /\ IsFiniteSet(Tran)
  /\ MaxItems \in Nat /\ MaxTopops \in Nat /\ MaxMasterCrashes \in Nat
  /\ MaxMasterRestarts \in Nat
  /\ MaxStateChanges \in Nat /\ UnlockedCrash \in BOOLEAN
  /\ EmptySystemOps \in BOOLEAN

CONSTANT LOG_SYSTEM_TRANID   \* transaction id of records of the system

ASSUME SystemTranidAssumption == LOG_SYSTEM_TRANID \notin Tran

VARIABLES
  log,     \* the log records appended so far (prior list included)
  eof,     \* hdr.eof_lsa - 1: the last record on disk and copied to the slave
  tstate,  \* progress of each transaction descriptor (TRAN_STATE)
  srv      \* hdr.ha_server_state, as copylogdb writes it in the copied header

masterVars == <<log, eof, tstate, srv>>

LogType ==
  {"DATA", "REPLICATION", "UNLOCK_COMMIT", "COMMIT", "COMMIT_TOPOPE", "ABORT",
   "DUMMY_CRASH_RECOVERY", "DUMMY_HA_SERVER_STATE"}

ServerState == {"ACTIVE", "TO_BE_STANDBY", "STANDBY", "TO_BE_ACTIVE", "DEAD"}

TranState == {"idle", "active", "topop", "unlocked", "done"}

LogRec ==
  [type: LogType, trid: Tran \cup {LOG_SYSTEM_TRANID}, first: BOOLEAN,
   state: ServerState]

(***************************************************************************)
(* A record as prior_lsa_next_record links it: prev_tranlsa is the          *)
(* descriptor's tail_lsa, NULL for its first record.  "state" matters only  *)
(* for DUMMY_HA_SERVER_STATE.                                               *)
(***************************************************************************)
Rec(type, t) ==
  [type |-> type, trid |-> t,
   first |-> t \in Tran /\ tstate[t] = "idle", state |-> srv]

Count(type) == Cardinality({i \in 1..Len(log) : log[i].type = type})

Loser(t) == tstate[t] \in {"active", "topop", "unlocked"}

MasterInit ==
  /\ log = <<>>
  /\ eof = 0
  /\ tstate = [t \in Tran |-> "idle"]
  /\ srv = "ACTIVE"

-----------------------------------------------------------------------------
(* The transaction's first undo/redo record: it changed some data. *)
log_append_undoredo(t) ==
  /\ srv \in {"ACTIVE", "TO_BE_STANDBY"} /\ tstate[t] = "idle"
  /\ log' = Append(log, Rec("DATA", t))
  /\ tstate' = [tstate EXCEPT ![t] = "active"]
  /\ UNCHANGED <<eof, srv>>

(***************************************************************************)
(* log_end_system_op, first half: the flush-marked replication record, if   *)
(* any (serial, click counter), is appended without holding prior_lsa_mutex *)
(* up to the COMMIT_TOPOPE record: other transactions' records may follow.  *)
(***************************************************************************)
log_append_repl_info(t) ==
  /\ srv \in {"ACTIVE", "TO_BE_STANDBY"} /\ tstate[t] = "active"
  /\ Count("COMMIT_TOPOPE") + Cardinality({u \in Tran : tstate[u] = "topop"})
       < MaxTopops
  /\ \/ log' = Append(log, Rec("REPLICATION", t))
     \/ EmptySystemOps /\ UNCHANGED log
  /\ tstate' = [tstate EXCEPT ![t] = "topop"]
  /\ UNCHANGED <<eof, srv>>

(* log_end_system_op, second half: log_complete_system_op. *)
log_complete_system_op(t) ==
  /\ srv \in {"ACTIVE", "TO_BE_STANDBY"} /\ tstate[t] = "topop"
  /\ log' = Append(log, Rec("COMMIT_TOPOPE", t))
  /\ tstate' = [tstate EXCEPT ![t] = "active"]
  /\ UNCHANGED <<eof, srv>>

(***************************************************************************)
(* log_commit_local: under prior_lsa_mutex, all the replication records of  *)
(* the transaction and then its UNLOCK_COMMIT, with nothing in between;     *)
(* afterwards the locks are released.                                       *)
(***************************************************************************)
log_append_repl_info_and_unlock_log(t) ==
  /\ srv \in {"ACTIVE", "TO_BE_STANDBY"} /\ tstate[t] = "active"
  /\ \E n \in 0..MaxItems :
       log' = log \o [i \in 1..n |-> Rec("REPLICATION", t)]
                  \o <<Rec("UNLOCK_COMMIT", t)>>
  /\ tstate' = [tstate EXCEPT ![t] = "unlocked"]
  /\ UNCHANGED <<eof, srv>>

(* log_complete after a commit: log_append_donetime(LOG_COMMIT). *)
log_complete_commit(t) ==
  /\ srv \in {"ACTIVE", "TO_BE_STANDBY"} /\ tstate[t] = "unlocked"
  /\ log' = Append(log, Rec("COMMIT", t))
  /\ tstate' = [tstate EXCEPT ![t] = "done"]
  /\ UNCHANGED <<eof, srv>>

(* log_abort: rollback, then log_append_donetime(LOG_ABORT). *)
log_abort(t) ==
  /\ srv \in {"ACTIVE", "TO_BE_STANDBY"} /\ tstate[t] = "active"
  /\ log' = Append(log, Rec("ABORT", t))
  /\ tstate' = [tstate EXCEPT ![t] = "done"]
  /\ UNCHANGED <<eof, srv>>

(***************************************************************************)
(* The log flush thread writes the appended pages and the log writer copies *)
(* them: everything appended so far becomes visible to the log applier.     *)
(***************************************************************************)
logpb_flush_all_append_pages ==
  /\ srv # "DEAD" /\ eof < Len(log)
  /\ eof' = Len(log)
  /\ UNCHANGED <<log, tstate, srv>>

-----------------------------------------------------------------------------
(* A transaction's UNLOCK_COMMIT is among the first k records, its end is not. *)
UnlockedIn(k) ==
  \E p \in 1..k : /\ log[p].type = "UNLOCK_COMMIT"
                  /\ \A c \in p..k : log[c].trid = log[p].trid => log[c].type # "COMMIT"

(***************************************************************************)
(* The master crashes.  Of the records that were not copied, any prefix may *)
(* have reached its disk.  copylogdb loses the connection and writes DEAD   *)
(* in the copied log header.                                                *)
(***************************************************************************)
MasterCrash ==
  /\ srv # "DEAD"
  /\ Count("DUMMY_CRASH_RECOVERY") < MaxMasterCrashes
  /\ \E k \in eof..Len(log) :
       LET durable == SubSeq(log, 1, k)
           TypesOf(t) == {durable[i].type : i \in {j \in 1..k : durable[j].trid = t}}
       IN  /\ UnlockedCrash \/ ~(UnlockedIn(eof) \/ UnlockedIn(k))
           /\ log' = durable
           /\ tstate' = [t \in Tran |->
                 IF TypesOf(t) = {} THEN "idle"
                 ELSE IF TypesOf(t) \cap {"COMMIT", "ABORT"} # {} THEN "done"
                 ELSE IF "UNLOCK_COMMIT" \in TypesOf(t) THEN "unlocked"
                 ELSE "active"]
  /\ srv' = "DEAD"
  /\ UNCHANGED eof

(***************************************************************************)
(* Restart: log_recovery.  The analysis pass ignores REPLICATION and        *)
(* UNLOCK_COMMIT records, so every transaction without COMMIT or ABORT is a *)
(* loser; the undo pass rolls it back and appends its ABORT.  The server    *)
(* comes up idle and becomes standby; the log writer copies the log again.  *)
(***************************************************************************)
log_recovery ==
  /\ srv = "DEAD"
  /\ Count("DUMMY_CRASH_RECOVERY") < MaxMasterRestarts
  /\ \E f \in [1..Cardinality({t \in Tran : Loser(t)}) -> {t \in Tran : Loser(t)}] :
       /\ \A i, j \in DOMAIN f : f[i] = f[j] => i = j
       /\ log' = Append(log, Rec("DUMMY_CRASH_RECOVERY", LOG_SYSTEM_TRANID))
                   \o [i \in DOMAIN f |-> Rec("ABORT", f[i])]
       /\ eof' = Len(log')
  /\ tstate' = [t \in Tran |-> IF Loser(t) THEN "done" ELSE tstate[t]]
  /\ srv' = "STANDBY"

(***************************************************************************)
(* css_transit_ha_server_state: each transition appends a                   *)
(* DUMMY_HA_SERVER_STATE record that carries the new state.  TO_BE_STANDBY  *)
(* ends when logtb_count_clients() is 0; the copied header follows with the *)
(* pages.                                                                   *)
(***************************************************************************)
css_transit_ha_server_state ==
  /\ Count("DUMMY_HA_SERVER_STATE") < MaxStateChanges
  /\ \E next \in ServerState :
       /\ <<srv, next>> \in {<<"ACTIVE", "TO_BE_STANDBY">>, <<"TO_BE_STANDBY", "STANDBY">>,
                             <<"STANDBY", "TO_BE_ACTIVE">>, <<"TO_BE_ACTIVE", "ACTIVE">>}
       /\ next = "STANDBY" => \A t \in Tran : ~Loser(t)
       /\ srv' = next
       /\ log' = Append(log, [Rec("DUMMY_HA_SERVER_STATE", LOG_SYSTEM_TRANID)
                                EXCEPT !.state = next])
       /\ eof' = Len(log')
  /\ UNCHANGED tstate

MasterNext ==
  \/ \E t \in Tran :
       \/ log_append_undoredo(t)
       \/ log_append_repl_info(t)
       \/ log_complete_system_op(t)
       \/ log_append_repl_info_and_unlock_log(t)
       \/ log_complete_commit(t)
       \/ log_abort(t)
  \/ logpb_flush_all_append_pages
  \/ MasterCrash
  \/ log_recovery
  \/ css_transit_ha_server_state

-----------------------------------------------------------------------------
(***************************************************************************)
(* What replication promises of such a log.  A commit point is an           *)
(* UNLOCK_COMMIT or a COMMIT_TOPOPE record; its items are the replication   *)
(* records of its transaction since that transaction's previous point.      *)
(***************************************************************************)
Points == {i \in 1..Len(log) : log[i].type \in {"UNLOCK_COMMIT", "COMMIT_TOPOPE"}}

ItemsOf(p) ==
  {i \in 1..(p - 1) :
     /\ log[i].type = "REPLICATION" /\ log[i].trid = log[p].trid
     /\ \A q \in Points : log[q].trid = log[p].trid => ~(i < q /\ q < p)}

(* A point is decided by its own record (COMMIT_TOPOPE) or by the COMMIT. *)
DecidedAt(p, lsa) ==
  \/ log[p].type = "COMMIT_TOPOPE" /\ p <= lsa
  \/ \E c \in (p + 1)..lsa : log[c].type = "COMMIT" /\ log[c].trid = log[p].trid

(* The items the master has committed by address lsa. *)
CommittedItems(lsa) == UNION {ItemsOf(p) : p \in {q \in Points : DecidedAt(q, lsa)}}

PointOf(i) ==
  CHOOSE p \in Points : i \in ItemsOf(p)

(* i is replayed before j: by commit point, then by address. *)
Before(i, j) ==
  \/ PointOf(i) < PointOf(j)
  \/ PointOf(i) = PointOf(j) /\ i < j
=============================================================================
