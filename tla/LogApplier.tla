----------------------------- MODULE LogApplier -----------------------------
(***************************************************************************)
(* The log applier (applylogdb, log_applier.c) of a slave: it reads the     *)
(* copied log record by record, collects the replication items of each      *)
(* transaction, applies them to the slave database in UNLOCK_COMMIT order   *)
(* and, in the same slave transaction, saves how far it got in the row of   *)
(* db_ha_apply_info it restarts from.                                       *)
(*                                                                          *)
(* The state is la_Info plus the slave database.  Every action is one       *)
(* handler of the main loop of la_apply_log_file or one iteration of the    *)
(* loops inside la_log_record_process; between any two of them the process  *)
(* or its connection may die.                                               *)
(***************************************************************************)
EXTENDS ReplLog

CONSTANTS
  LA_MAX_REPL_ITEMS,     \* items kept in memory per transaction; also the
                         \* number of items between two forced commits
  RecordsPerPage,        \* records on one log page
  MaxUpdateErrors,       \* bound: ignored failures of the row update
  MaxUnilateralAborts,   \* bound: slave transaction aborted as a victim
  MaxRejects,            \* bound: items the slave refuses (fail_counter)
  MaxRefetches,          \* bound: header fetched again while reading a page
  MaxApplierCrashes      \* bound: deaths of the applier or its connection

ASSUME LogApplierAssumption ==
  /\ LA_MAX_REPL_ITEMS \in Nat \ {0} /\ RecordsPerPage \in Nat \ {0}
  /\ MaxUpdateErrors \in Nat /\ MaxUnilateralAborts \in Nat
  /\ MaxRejects \in Nat /\ MaxRefetches \in Nat /\ MaxApplierCrashes \in Nat

VARIABLES
  pc,                       \* where the process is: see PC
  hdr,                      \* final_log_hdr.eof_lsa - 1, and ha_server_state of
                            \* act_log.log_hdr
  final_lsa,                \* next record to process
  committed_lsa, committed_rep_lsa,
  last_committed_lsa, last_committed_rep_lsa,   \* as read at start-up
  repl_lists,               \* LA_APPLY of each transaction
  commit_list,              \* LA_COMMIT entries, in order of log_lsa
  item,                     \* item being applied by la_apply_repl_log, or 0
  total_repl_items,         \* static counter, modulo LA_MAX_REPL_ITEMS
  need_commit,              \* total_rows # prev_total_rows, or
                            \* is_apply_info_updated
  is_end_of_record,
  apply_state,
  last_seen,                \* <<last_server_state, last_is_end_of_record>>
  db_lockf,                 \* is the slave's dbname lock held (db_lockf_vdes)?
  row,                      \* the committed row of db_ha_apply_info
  slave,                    \* items committed in the slave database, in order
  pending,                  \* items applied but not yet committed
  rejected,                 \* items the slave refused so far (fail_counter)
  faults                    \* how many bounded faults have happened

applierVars ==
  <<pc, hdr, final_lsa, committed_lsa, committed_rep_lsa, last_committed_lsa,
    last_committed_rep_lsa, repl_lists, commit_list, item, total_repl_items,
    need_commit, is_end_of_record, apply_state, last_seen, db_lockf, row, slave,
    pending, rejected, faults>>

startVars == <<last_committed_lsa, last_committed_rep_lsa>>
listVars == <<repl_lists, commit_list>>
itemVars == <<item, total_repl_items>>
haVars == <<apply_state, last_seen, db_lockf>>
dbVars == <<row, slave, pending, rejected, faults>>

vars == <<masterVars, applierVars>>

(***************************************************************************)
(* "down": no process; "top": top of the main loop, where the log header is *)
(* fetched; "read": the next record of the page is to be processed; "list": *)
(* in la_log_record_process's loop over                                     *)
(* la_apply_commit_list; "item": top of the item loop of la_apply_repl_log; *)
(* "put": the item's statement is about to run; "page": the page is done,   *)
(* la_check_time_commit is next; "state": la_change_state is next.          *)
(***************************************************************************)
PC == {"down", "top", "read", "list", "item", "put", "page", "state"}

ApplyState == {"UNREGISTERED", "RECOVERING", "WORKING", "DONE"}

Lsa == Nat

(***************************************************************************)
(* Both lists of the applier are only ever appended to at final_lsa, which  *)
(* moves forward: a list is the set of its elements, ordered by LSA.        *)
(***************************************************************************)
LA_APPLY ==
  [used: BOOLEAN, start_lsa: Lsa, items: SUBSET Lsa, is_long_trans: BOOLEAN,
   last_lsa: Lsa]

LA_COMMIT ==
  [type: {"UNLOCK_COMMIT", "COMMIT", "COMMIT_TOPOPE", "ABORT"},
   tranid: Tran, log_lsa: Lsa]

ApplyInfo ==
  [committed_lsa: Lsa, committed_rep_lsa: Lsa, final_lsa: Lsa, required_lsa: Lsa]

LogHeader == [eof_lsa: Lsa, ha_server_state: ServerState]

Fault == {"update", "unilateral", "refetch", "crash"}

(* la_clear_applied_info: tranid 0, no items. *)
FreeApply ==
  [used |-> FALSE, start_lsa |-> 0, items |-> {}, is_long_trans |-> FALSE,
   last_lsa |-> 0]

MaxLsa(a, b) == IF a >= b THEN a ELSE b

First(S) == CHOOSE i \in S : \A j \in S : i <= j

-----------------------------------------------------------------------------
(* Lists. *)

(* Mutants: a freed list is not skipped; the open lists are not looked at. *)
RequiredOfFreed(lists) ==
  First({lists[t].start_lsa : t \in Tran} \cup {final_lsa})

RequiredFinal(lists) == final_lsa

(* la_find_required_lsa: the oldest start_lsa in use, else final_lsa. *)
la_find_required_lsa(lists) ==
  LET Starts == {lists[t].start_lsa : t \in {u \in Tran : lists[u].used}}
  IN  IF Starts = {} THEN final_lsa ELSE First(Starts)

(* la_add_apply_list, and start_lsa when the list is new. *)
la_add_apply_list(t) ==
  IF repl_lists[t].used THEN repl_lists
  ELSE [repl_lists EXCEPT ![t] = [FreeApply EXCEPT !.used = TRUE, !.start_lsa = final_lsa]]

(***************************************************************************)
(* la_set_repl_log: a transaction without apply list is ignored; one with   *)
(* LA_MAX_REPL_ITEMS items becomes a long transaction that keeps only its   *)
(* first item and re-reads the others from the log up to last_lsa.          *)
(***************************************************************************)
la_set_repl_log(lists, t, lsa) ==
  LET apply == lists[t]
  IN  IF ~apply.used THEN lists
      ELSE IF apply.is_long_trans THEN [lists EXCEPT ![t].last_lsa = lsa]
      ELSE IF Cardinality(apply.items) >= LA_MAX_REPL_ITEMS
      THEN [lists EXCEPT ![t] = [apply EXCEPT !.items = {First(apply.items)},
                                              !.is_long_trans = TRUE,
                                              !.last_lsa = lsa]]
      ELSE [lists EXCEPT ![t].items = @ \cup {lsa}]

CommitEntry(type, t) == [type |-> type, tranid |-> t, log_lsa |-> final_lsa]

(* Mutant: every entry of the transaction gets the type. *)
SetEveryEntry(list, t, type) ==
  {[c EXCEPT !.type = IF c.tranid = t THEN type ELSE @] : c \in list}

(* la_set_commit_log: the last entry of the transaction gets the type. *)
la_set_commit_log(list, t, type) ==
  LET Entries == {c \in list : c.tranid = t}
      Last == {c \in Entries : \A d \in Entries : d.log_lsa <= c.log_lsa}
  IN  (list \ Last) \cup {[c EXCEPT !.type = type] : c \in Last}

(* Mutants: the end of the list is not told from an address; the search in  *)
(* the log stops before last_lsa.                                           *)
NextItemOrNull(t, i) ==
  LET Left == {j \in repl_lists[t].items : j > i} IN IF Left = {} THEN -1 ELSE First(Left)

NextItemBeforeLast(t, i) ==
  LET apply == repl_lists[t]
      InLog == {j \in (i + 1)..(apply.last_lsa - 1) :
                  log[j].trid = t /\ log[j].type = "REPLICATION"}
      Left == IF apply.is_long_trans THEN InLog ELSE {j \in apply.items : j > i}
  IN  IF Left = {} THEN 0 ELSE First(Left)

(***************************************************************************)
(* la_get_next_repl_item: the next item of the list, or, for a long         *)
(* transaction, the next replication record of the transaction in the log,  *)
(* up to last_lsa and not past its COMMIT or ABORT; 0 when there is none.   *)
(***************************************************************************)
la_get_next_repl_item(t, i) ==
  LET apply == repl_lists[t]
      InLog == {j \in (i + 1)..apply.last_lsa :
                 /\ log[j].trid = t /\ log[j].type = "REPLICATION"
                 /\ \A k \in (i + 1)..j :
                      log[k].trid = t => log[k].type \notin {"COMMIT", "ABORT"}}
      Left == IF apply.is_long_trans THEN InLog ELSE {j \in apply.items : j > i}
  IN  IF Left = {} THEN 0 ELSE First(Left)

(* la_free_repl_items_by_tranid: also unlinks every commit list entry. *)
la_free_repl_items_by_tranid(list, t) ==
  /\ repl_lists' = [repl_lists EXCEPT ![t] = FreeApply]
  /\ commit_list' = {c \in list : c.tranid # t}

-----------------------------------------------------------------------------
(* Faults are bounded; everything else is not. *)
Bound(f) ==
  CASE f = "update" -> MaxUpdateErrors
    [] f = "unilateral" -> MaxUnilateralAborts
    [] f = "refetch" -> MaxRefetches
    [] OTHER -> MaxApplierCrashes

FaultHappens(f) ==
  /\ faults[f] < Bound(f)
  /\ faults' = [faults EXCEPT ![f] = @ + 1]

(* Mutants: the row is committed before the items; it may fall behind what  *)
(* was read at start-up.                                                    *)
CommitRowFirst(lists, lsa) ==
  /\ row' = [committed_lsa     |-> MaxLsa(lsa, last_committed_lsa),
             committed_rep_lsa |-> MaxLsa(committed_rep_lsa, last_committed_rep_lsa),
             final_lsa         |-> final_lsa,
             required_lsa      |-> la_find_required_lsa(lists)]
  /\ UNCHANGED <<slave, pending, rejected, faults>>

CommitWithoutMax(lists, lsa) ==
  /\ row' = [committed_lsa     |-> lsa,
             committed_rep_lsa |-> committed_rep_lsa,
             final_lsa         |-> final_lsa,
             required_lsa      |-> la_find_required_lsa(lists)]
  /\ slave' = slave \o pending
  /\ pending' = <<>>
  /\ UNCHANGED <<rejected, faults>>

(***************************************************************************)
(* la_log_commit: the row and the items applied since the last commit are   *)
(* committed by one slave transaction.  An update that fails for another    *)
(* reason than a lost connection is ignored and nothing is committed.       *)
(***************************************************************************)
la_log_commit(lists, lsa) ==
  \/ /\ row' = [committed_lsa     |-> MaxLsa(lsa, last_committed_lsa),
                committed_rep_lsa |-> MaxLsa(committed_rep_lsa, last_committed_rep_lsa),
                final_lsa         |-> final_lsa,
                required_lsa      |-> la_find_required_lsa(lists)]
     /\ slave' = slave \o pending
     /\ pending' = <<>>
     /\ UNCHANGED <<rejected, faults>>
  \/ /\ FaultHappens("update")
     /\ UNCHANGED <<row, slave, pending, rejected>>

(* The row la_insert_ha_apply_info creates: everything is the log's end. *)
FirstRow ==
  [committed_lsa |-> 1, committed_rep_lsa |-> 1, final_lsa |-> 1, required_lsa |-> 1]

(* No header has been fetched. *)
NoHeader == [eof_lsa |-> 0, ha_server_state |-> "ACTIVE"]

ApplierInit ==
  /\ pc = "top"
  /\ hdr = NoHeader
  /\ final_lsa = 1 /\ committed_lsa = 1 /\ committed_rep_lsa = 1
  /\ last_committed_lsa = 1 /\ last_committed_rep_lsa = 1
  /\ repl_lists = [t \in Tran |-> FreeApply]
  /\ commit_list = {}
  /\ item = 0
  /\ total_repl_items = 0
  /\ need_commit = FALSE
  /\ is_end_of_record = FALSE
  /\ apply_state = "UNREGISTERED"
  /\ last_seen = <<"IDLE", FALSE>>
  /\ db_lockf = FALSE
  /\ row = FirstRow
  /\ slave = <<>> /\ pending = <<>> /\ rejected = {}
  /\ faults = [f \in Fault |-> 0]
-----------------------------------------------------------------------------
(* Death and restart of the process. *)

(***************************************************************************)
(* The process dies, or loses its connection and shuts down: the slave      *)
(* transaction is rolled back and la_Info is gone.                          *)
(***************************************************************************)
la_shutdown ==
  /\ pc # "down"
  /\ FaultHappens("crash")
  /\ pc' = "down"
  /\ hdr' = NoHeader
  /\ pending' = <<>>
  /\ final_lsa' = 0 /\ committed_lsa' = 0 /\ committed_rep_lsa' = 0
  /\ last_committed_lsa' = 0 /\ last_committed_rep_lsa' = 0
  /\ repl_lists' = [t \in Tran |-> FreeApply]
  /\ commit_list' = {}
  /\ item' = 0 /\ total_repl_items' = 0
  /\ need_commit' = FALSE /\ is_end_of_record' = FALSE
  /\ apply_state' = "UNREGISTERED" /\ last_seen' = <<"IDLE", FALSE>>
  /\ db_lockf' = FALSE
  /\ UNCHANGED <<row, slave, rejected, masterVars>>

(* The process starts with these values of the row. *)
StartAt(lsa, committed, rep) ==
  /\ pc = "down"
  /\ pc' = "top"
  /\ final_lsa' = lsa
  /\ committed_lsa' = lsa
  /\ committed_rep_lsa' = row.committed_rep_lsa
  /\ last_committed_lsa' = committed
  /\ last_committed_rep_lsa' = rep
  /\ need_commit' = TRUE
  /\ UNCHANGED <<hdr, listVars, itemVars, is_end_of_record, haVars, dbVars,
                 masterVars>>

(* Mutants: another column of the row is taken. *)
StartAtFinal == StartAt(row.final_lsa, row.committed_lsa, row.committed_rep_lsa)

StartSkippingToFinal == StartAt(row.required_lsa, row.final_lsa, row.committed_rep_lsa)

(***************************************************************************)
(* Start: la_get_last_ha_applied_info, whose update of the start time sets  *)
(* is_apply_info_updated, then committed_lsa := required_lsa, la_apply_pre. *)
(***************************************************************************)
la_get_last_ha_applied_info ==
  StartAt(row.required_lsa, row.committed_lsa, row.committed_rep_lsa)

-----------------------------------------------------------------------------
(* la_log_record_process. *)

Record == log[final_lsa]

(* The lists after the step that opens one for a transaction's first record. *)
Lists ==
  IF Record.first /\ Record.type # "DUMMY_HA_SERVER_STATE"
  THEN la_add_apply_list(Record.trid) ELSE repl_lists

(* The record is processed: the loop goes on to the end of the page. *)
Advance ==
  /\ final_lsa' = final_lsa + 1
  /\ pc' = IF final_lsa % RecordsPerPage = 0 THEN "page" ELSE "read"

Process(types) ==
  /\ pc = "read" /\ final_lsa <= hdr.eof_lsa
  /\ Record.type \in types
  /\ is_end_of_record' = FALSE
  /\ UNCHANGED <<hdr, startVars, committed_rep_lsa, itemVars, apply_state, last_seen,
                 masterVars>>

ProcessData ==
  /\ Process({"DATA"})
  /\ repl_lists' = Lists
  /\ Advance
  /\ UNCHANGED <<commit_list, committed_lsa, need_commit, db_lockf, dbVars>>

(* ER_INTERRUPTED after skipping the record: the rest of the page waits. *)
ProcessCrashRecovery ==
  /\ Process({"DUMMY_CRASH_RECOVERY"})
  /\ final_lsa' = final_lsa + 1
  /\ pc' = "page"
  /\ UNCHANGED <<listVars, committed_lsa, need_commit, db_lockf, dbVars>>

ProcessReplication ==
  /\ Process({"REPLICATION"})
  /\ repl_lists' = la_set_repl_log(Lists, Record.trid, final_lsa)
  /\ Advance
  /\ UNCHANGED <<commit_list, committed_lsa, need_commit, db_lockf, dbVars>>

(* la_add_unlock_commit_log. *)
ProcessUnlockCommit ==
  /\ Process({"UNLOCK_COMMIT"})
  /\ commit_list' = commit_list \cup {CommitEntry("UNLOCK_COMMIT", Record.trid)}
  /\ repl_lists' = Lists
  /\ Advance
  /\ UNCHANGED <<committed_lsa, need_commit, db_lockf, dbVars>>

(* la_add_abort_log: the entry waits for the next COMMIT to be consumed. *)
ProcessAbort ==
  /\ Process({"ABORT"})
  /\ commit_list' = commit_list \cup {CommitEntry("ABORT", Record.trid)}
  /\ repl_lists' = Lists
  /\ Advance
  /\ UNCHANGED <<committed_lsa, need_commit, db_lockf, dbVars>>

(***************************************************************************)
(* LOG_COMMIT and LOG_COMMIT_TOPOPE.  The latter first appends its own      *)
(* entry.  A commit at or before committed_lsa, or one without entry, only  *)
(* frees the transaction's lists.                                           *)
(***************************************************************************)
ProcessCommit ==
  /\ Process({"COMMIT", "COMMIT_TOPOPE"})
  /\ LET t == Record.trid
         list == IF Record.type = "COMMIT" THEN commit_list
                 ELSE commit_list \cup {CommitEntry("UNLOCK_COMMIT", t)}
     IN  \/ /\ final_lsa > committed_lsa
            /\ \E c \in list : c.tranid = t
            /\ commit_list' = la_set_commit_log(list, t, Record.type)
            /\ repl_lists' = Lists
            /\ pc' = "list"
            /\ UNCHANGED final_lsa
         \/ /\ \/ final_lsa <= committed_lsa
               \/ \A c \in list : c.tranid # t
            /\ la_free_repl_items_by_tranid(list, t)
            /\ Advance
  /\ UNCHANGED <<committed_lsa, need_commit, db_lockf, dbVars>>

(***************************************************************************)
(* LOG_DUMMY_HA_SERVER_STATE of an active master: a commit point when no    *)
(* list holds an item (la_is_repl_lists_empty).  Of another one, with the   *)
(* dbname lock held (is_role_changed): the record is read again once the    *)
(* page is done and the lock released, which nothing in between looks at.   *)
(***************************************************************************)
ProcessHaServerState ==
  /\ Process({"DUMMY_HA_SERVER_STATE"})
  /\ IF Record.state \in {"ACTIVE", "TO_BE_STANDBY"}
     THEN /\ IF \A t \in Tran : repl_lists[t].items = {}
             THEN la_log_commit(repl_lists, committed_lsa) /\ need_commit' = TRUE
             ELSE UNCHANGED <<need_commit, dbVars>>
          /\ Advance
          /\ UNCHANGED db_lockf
     ELSE /\ IF db_lockf THEN pc' = "page" /\ UNCHANGED final_lsa ELSE Advance
          /\ db_lockf' = FALSE
          /\ UNCHANGED <<need_commit, dbVars>>
  /\ UNCHANGED <<listVars, committed_lsa>>

(* The end of the copied log is reached: is_end_of_record. *)
EndOfLog ==
  /\ pc = "read" /\ final_lsa > hdr.eof_lsa
  /\ is_end_of_record' = TRUE
  /\ pc' = "page"
  /\ UNCHANGED <<hdr, final_lsa, committed_lsa, committed_rep_lsa, startVars, listVars,
                 itemVars, need_commit, haVars, dbVars, masterVars>>

(***************************************************************************)
(* la_log_fetch finds another page than it asked for (the master has just   *)
(* archived it), and fetches the header again before it retries: from now   *)
(* on ha_server_state is newer than the eof_lsa the page is read up to.     *)
(***************************************************************************)
la_log_fetch ==
  /\ pc = "read"
  /\ FaultHappens("refetch")
  /\ hdr' = [hdr EXCEPT !.ha_server_state = srv]
  /\ UNCHANGED <<pc, final_lsa, committed_lsa, committed_rep_lsa, startVars, listVars,
                 itemVars, need_commit, is_end_of_record, haVars, row, slave, pending,
                 rejected, masterVars>>
-----------------------------------------------------------------------------
(* la_apply_commit_list and la_apply_repl_log. *)

Commit == CHOOSE c \in commit_list : \A d \in commit_list : c.log_lsa <= d.log_lsa

(* Mutant: the head is applied whether or not its end has been read. *)
AnyHead == commit_list # {}

(* Only the head, and only once its transaction's end has been read. *)
HeadReady == commit_list # {} /\ Commit.type # "UNLOCK_COMMIT"

(* The do-while ends: la_log_record_process returns. *)
ApplyListEnd ==
  /\ pc = "list" /\ ~HeadReady
  /\ Advance
  /\ UNCHANGED <<hdr, committed_lsa, committed_rep_lsa, startVars, listVars, itemVars,
                 need_commit, is_end_of_record, haVars, dbVars, masterVars>>

(* la_free_all_repl_items keeps the list, la_clear_applied_info frees it. *)
AfterCommit(apply, type) ==
  IF type = "COMMIT_TOPOPE"
  THEN [apply EXCEPT !.items = {}, !.is_long_trans = FALSE]
  ELSE FreeApply

(* The entry is unlinked and committed_lsa moves to it. *)
Dequeue ==
  /\ commit_list' = commit_list \ {Commit}
  /\ committed_lsa' = Commit.log_lsa
  /\ pc' = "list"
  /\ item' = 0

NothingToApply ==
  LET apply == repl_lists[Commit.tranid]
  IN  \/ ~apply.used \/ Commit.type = "ABORT" \/ apply.items = {}
      \/ Commit.log_lsa <= last_committed_lsa

(* The early returns of la_apply_repl_log. *)
ApplySkip ==
  /\ pc = "list" /\ HeadReady /\ NothingToApply
  /\ repl_lists' =
       IF repl_lists[Commit.tranid].used
       THEN [repl_lists EXCEPT ![Commit.tranid] = AfterCommit(@, Commit.type)]
       ELSE repl_lists
  /\ Dequeue
  /\ UNCHANGED <<hdr, final_lsa, committed_rep_lsa, startVars, total_repl_items, need_commit,
                 is_end_of_record, haVars, dbVars, masterVars>>

ApplyFirst ==
  /\ pc = "list" /\ HeadReady /\ ~NothingToApply
  /\ item' = First(repl_lists[Commit.tranid].items)
  /\ db_lockf' = TRUE
  /\ pc' = "item"
  /\ UNCHANGED <<hdr, final_lsa, committed_lsa, committed_rep_lsa, startVars, listVars,
                 total_repl_items, need_commit, is_end_of_record, apply_state, last_seen,
                 dbVars, masterVars>>

NextItem == la_get_next_repl_item(Commit.tranid, item)

(***************************************************************************)
(* The item is unlinked.  The loop goes on with the next one, or ends when  *)
(* there is none or it lies behind the commit point: the remaining items of *)
(* a system operation's transaction are kept, any other list is freed.      *)
(***************************************************************************)
ItemDone ==
  LET t == Commit.tranid
      apply == repl_lists[t]
      rest == apply.items \ {item}
  IN  IF NextItem # 0 /\ NextItem <= Commit.log_lsa
      THEN /\ repl_lists' = [repl_lists EXCEPT ![t].items = rest]
           /\ item' = NextItem
           /\ pc' = "item"
           /\ UNCHANGED <<commit_list, committed_lsa>>
      ELSE /\ repl_lists' = [repl_lists EXCEPT ![t] =
                IF NextItem # 0 /\ Commit.type = "COMMIT_TOPOPE"
                THEN [apply EXCEPT !.items =
                        IF apply.is_long_trans THEN {NextItem} ELSE rest]
                ELSE AfterCommit(apply, Commit.type)]
           /\ Dequeue

(***************************************************************************)
(* Top of the item loop: an item at or before last_committed_rep_lsa was    *)
(* applied before the restart; every LA_MAX_REPL_ITEMS-th item forces a     *)
(* commit first.                                                            *)
(***************************************************************************)
ApplyItem ==
  /\ pc = "item"
  /\ total_repl_items' = (total_repl_items + 1) % LA_MAX_REPL_ITEMS
  /\ IF item <= last_committed_rep_lsa
     THEN ItemDone /\ UNCHANGED dbVars
     ELSE /\ IF total_repl_items' = 0 THEN la_log_commit(repl_lists, committed_lsa)
             ELSE UNCHANGED dbVars
          /\ pc' = "put"
          /\ UNCHANGED <<listVars, committed_lsa, item>>
  /\ UNCHANGED <<hdr, final_lsa, committed_rep_lsa, startVars, need_commit, is_end_of_record,
                 haVars, masterVars>>

(* The statement succeeds. *)
PutItem ==
  /\ pc = "put"
  /\ pending' = Append(pending, item)
  /\ committed_rep_lsa' = item
  /\ need_commit' = TRUE
  /\ ItemDone
  /\ UNCHANGED <<hdr, final_lsa, startVars, total_repl_items, is_end_of_record, haVars,
                 row, slave, rejected, faults, masterVars>>

(* It fails with an error that is neither retried nor fatal: passed over. *)
RejectItem ==
  /\ pc = "put"
  /\ Cardinality(rejected) < MaxRejects
  /\ rejected' = rejected \cup {item}
  /\ need_commit' = TRUE
  /\ ItemDone
  /\ UNCHANGED <<hdr, final_lsa, committed_rep_lsa, startVars, total_repl_items,
                 is_end_of_record, haVars, row, slave, pending, faults, masterVars>>

(***************************************************************************)
(* LA_RETRY_ON_ERROR with ER_LK_UNILATERALLY_ABORTED: the slave server has  *)
(* rolled the whole transaction back; the loop retries this item only.      *)
(***************************************************************************)
RetryAfterUnilateralAbort ==
  /\ pc = "put"
  /\ FaultHappens("unilateral")
  /\ pending' = <<>>
  /\ pc' = "item"
  /\ UNCHANGED <<hdr, final_lsa, committed_lsa, committed_rep_lsa, startVars, listVars,
                 itemVars, need_commit, is_end_of_record, haVars, row, slave,
                 rejected, masterVars>>
-----------------------------------------------------------------------------
(* The rest of the main loop. *)

(* la_check_time_commit, the interval has not elapsed or nothing changed. *)
TimeCommitNotDue ==
  /\ pc = "page"
  /\ pc' = "state"
  /\ UNCHANGED <<hdr, final_lsa, committed_lsa, committed_rep_lsa, startVars, listVars,
                 itemVars, need_commit, is_end_of_record, haVars, dbVars, masterVars>>

(* la_check_time_commit, the interval has elapsed. *)
la_check_time_commit ==
  /\ pc = "page" /\ need_commit
  /\ la_log_commit(repl_lists, committed_lsa)
  /\ need_commit' = FALSE
  /\ pc' = "state"
  /\ UNCHANGED <<hdr, final_lsa, committed_lsa, committed_rep_lsa, startVars, listVars,
                 itemVars, is_end_of_record, haVars, masterVars>>

(* Mutant: a standby master is enough for DONE, wherever the applier is. *)
DoneWhenStandby ==
  IF hdr.ha_server_state = "STANDBY" THEN "DONE"
  ELSE IF hdr.ha_server_state \in {"ACTIVE", "TO_BE_STANDBY", "TO_BE_ACTIVE"}
       THEN "WORKING" ELSE "RECOVERING"

(* The state la_change_state asks for, from the header and the read position. *)
NewState ==
  IF is_end_of_record
  THEN IF hdr.ha_server_state \in {"ACTIVE", "TO_BE_STANDBY", "TO_BE_ACTIVE"}
       THEN "WORKING" ELSE "DONE"
  ELSE IF apply_state \in
            (IF hdr.ha_server_state \in {"ACTIVE", "TO_BE_STANDBY"} THEN {"WORKING", "RECOVERING"}
             ELSE {"DONE", "RECOVERING"})
       THEN apply_state ELSE "RECOVERING"

(***************************************************************************)
(* la_change_state: on a change, a commit is forced before the slave server *)
(* is notified.  Entering DONE because the master is standby drops every    *)
(* apply list and its commit list entries first.                            *)
(***************************************************************************)
la_change_state ==
  /\ pc = "state"
  /\ last_seen' = <<hdr.ha_server_state, is_end_of_record>>
  /\ IF last_seen' = last_seen \/ NewState = apply_state
     THEN UNCHANGED <<apply_state, listVars, dbVars>>
     ELSE /\ IF NewState = "DONE" /\ hdr.ha_server_state # "DEAD"
             THEN /\ repl_lists' = [t \in Tran |-> FreeApply]
                  /\ commit_list' = {c \in commit_list : ~repl_lists[c.tranid].used}
             ELSE UNCHANGED listVars
          /\ la_log_commit(repl_lists', committed_lsa)
          /\ apply_state' = NewState
  /\ pc' = "top"
  /\ UNCHANGED <<hdr, final_lsa, committed_lsa, committed_rep_lsa, startVars, itemVars,
                 need_commit, db_lockf, is_end_of_record, masterVars>>

(* Mutant: the end of the log is kept from the header before. *)
FetchWithoutEof ==
  /\ pc = "top"
  /\ hdr' = [hdr EXCEPT !.ha_server_state = srv]

(***************************************************************************)
(* Top of the main loop: the header is fetched (archive removal, which does *)
(* not touch this state, is in module ArchiveRemoval).                      *)
(***************************************************************************)
la_fetch_log_hdr ==
  /\ pc = "top"
  /\ hdr' = [eof_lsa |-> eof, ha_server_state |-> srv]

NoActiveMaster == srv \notin {"ACTIVE", "TO_BE_STANDBY"}

(***************************************************************************)
(* DONE and the master is not active: release the dbname lock, save the     *)
(* position (a standby master has nothing more to apply) and recover again. *)
(***************************************************************************)
DoneLoop ==
  /\ la_fetch_log_hdr
  /\ apply_state = "DONE" /\ NoActiveMaster
  /\ db_lockf' = FALSE
  /\ committed_lsa' = IF srv # "DEAD" THEN final_lsa ELSE committed_lsa
  /\ IF final_lsa >= committed_lsa' THEN la_log_commit(repl_lists, committed_lsa')
     ELSE UNCHANGED dbVars
  /\ apply_state' = "RECOVERING"
  /\ UNCHANGED <<pc, final_lsa, committed_rep_lsa, startVars, listVars, itemVars,
                 need_commit, is_end_of_record, last_seen, masterVars>>

(* Otherwise the page of final_lsa is read. *)
ReadPage ==
  /\ la_fetch_log_hdr
  /\ ~(apply_state = "DONE" /\ NoActiveMaster)
  /\ pc' = "read"
  /\ UNCHANGED <<final_lsa, committed_lsa, committed_rep_lsa, startVars, listVars,
                 itemVars, need_commit, is_end_of_record, haVars, dbVars, masterVars>>

-----------------------------------------------------------------------------
la_log_record_process ==
  \/ ProcessData
  \/ ProcessCrashRecovery
  \/ ProcessReplication
  \/ ProcessUnlockCommit
  \/ ProcessAbort
  \/ ProcessCommit
  \/ ProcessHaServerState

la_apply_commit_list ==
  \/ ApplySkip
  \/ ApplyFirst
  \/ ApplyItem
  \/ PutItem
  \/ RejectItem
  \/ RetryAfterUnilateralAbort
  \/ ApplyListEnd

ApplierNext ==
  \/ ReadPage
  \/ DoneLoop
  \/ la_log_fetch
  \/ la_log_record_process
  \/ EndOfLog
  \/ la_apply_commit_list
  \/ TimeCommitNotDue
  \/ la_check_time_commit
  \/ la_change_state
  \/ la_shutdown
  \/ la_get_last_ha_applied_info

Init == MasterInit /\ ApplierInit

Next == (MasterNext /\ UNCHANGED applierVars) \/ ApplierNext

Spec == Init /\ [][Next]_vars
-----------------------------------------------------------------------------
(* Properties. *)

MasterTypeOK ==
  /\ log \in Seq(LogRec) /\ eof \in 0..Len(log)
  /\ tstate \in [Tran -> TranState] /\ srv \in ServerState

PositionTypeOK ==
  /\ pc \in PC /\ hdr \in LogHeader
  /\ final_lsa \in Lsa /\ committed_lsa \in Lsa /\ committed_rep_lsa \in Lsa
  /\ last_committed_lsa \in Lsa /\ last_committed_rep_lsa \in Lsa
  /\ item \in Lsa
  /\ total_repl_items \in 0..(LA_MAX_REPL_ITEMS - 1)

ListTypeOK ==
  /\ repl_lists \in [Tran -> LA_APPLY]
  /\ commit_list \subseteq LA_COMMIT

ModeTypeOK ==
  /\ need_commit \in BOOLEAN /\ is_end_of_record \in BOOLEAN
  /\ apply_state \in ApplyState
  /\ last_seen \in (ServerState \cup {"IDLE"}) \X BOOLEAN
  /\ db_lockf \in BOOLEAN

DbTypeOK ==
  /\ row \in ApplyInfo
  /\ slave \in Seq(Lsa) /\ pending \in Seq(Lsa)
  /\ rejected \subseteq Lsa
  /\ faults \in [Fault -> Nat]

(* The types of la_Info and of the slave's tables. *)
TypeOK == MasterTypeOK /\ PositionTypeOK /\ ListTypeOK /\ ModeTypeOK /\ DbTypeOK

Applied == slave \o pending

InApplied(i) == \E k \in DOMAIN Applied : Applied[k] = i

(***************************************************************************)
(* The slave receives only items of commit points the applier has seen      *)
(* decided, each once, and in the order of the points in the log: the order *)
(* log_append_repl_info_and_unlock_log fixes, not the order of the COMMITs. *)
(* A log with a system operation that has no item is excepted: the first    *)
(* item of a list is not compared with the commit point, and the items its  *)
(* transaction logged later may be applied with it.                         *)
(***************************************************************************)
AppliedInUnlockOrder ==
  (\A p \in Points : log[p].type = "COMMIT_TOPOPE" => ItemsOf(p) # {}) =>
    /\ \A k \in DOMAIN Applied : Applied[k] \in CommittedItems(eof)
    /\ \A j, k \in DOMAIN Applied : j < k => Before(Applied[j], Applied[k])

(***************************************************************************)
(* No item is passed over: when an item is in the slave, so is every        *)
(* committed item that precedes it in the replay order, across any number   *)
(* of restarts (the filters on last_committed_lsa and on                    *)
(* last_committed_rep_lsa never drop an item that was not committed).       *)
(***************************************************************************)
NoItemPassedOver ==
  \A i \in CommittedItems(eof) :
    (\E k \in DOMAIN Applied : Before(i, Applied[k])) => InApplied(i) \/ i \in rejected

(***************************************************************************)
(* The row of db_ha_apply_info tells the truth: the items of every decided  *)
(* commit point at or before its committed_lsa are committed in the slave.  *)
(***************************************************************************)
RowHonest ==
  \A p \in Points :
    p <= row.committed_lsa /\ DecidedAt(p, eof) =>
      \A i \in ItemsOf(p) : i \in rejected \/ \E k \in DOMAIN slave : slave[k] = i

FirstRecord(t) ==
  CHOOSE i \in 1..Len(log) : log[i].trid = t /\ log[i].first

(***************************************************************************)
(* A restart misses nothing: as long as an item the master committed is not *)
(* in the slave, the saved required_lsa is not past the first record of the *)
(* item's transaction, where la_add_apply_list opens its list.  Archives    *)
(* before required_lsa may be deleted, so this is also what keeps them.     *)
(***************************************************************************)
RequiredCoversUnapplied ==
  \A i \in CommittedItems(eof) :
    \/ i \in rejected
    \/ \E k \in DOMAIN slave : slave[k] = i
    \/ row.required_lsa <= FirstRecord(log[i].trid)

(***************************************************************************)
(* The progress saved in db_ha_apply_info never goes back, whatever crashes *)
(* and role changes come in between: neither the commit point up to which   *)
(* la_apply_repl_log skips whole transactions after a restart ...           *)
(***************************************************************************)
CommittedNeverGoesBack ==
  [][row'.committed_lsa >= row.committed_lsa]_vars

(***************************************************************************)
(* ... nor the record the next start reads from, before which               *)
(* la_remove_archive_logs deletes the log.                                  *)
(***************************************************************************)
RequiredNeverGoesBack ==
  [][row'.required_lsa >= row.required_lsa]_vars

(***************************************************************************)
(* la_change_state tells the slave server DONE, which lets it turn active,  *)
(* only when all that the master committed up to the end of the log the     *)
(* applier has read is committed in the slave ("force commit when state is  *)
(* changing").                                                              *)
(***************************************************************************)
DoneMeansApplied ==
  [][apply_state' = "DONE" /\ apply_state # "DONE" =>
       \A i \in CommittedItems(hdr.eof_lsa) :
         i \in rejected \/ \E k \in DOMAIN slave' : slave'[k] = i]_vars

(***************************************************************************)
(* The assertion in la_apply_repl_log: an item behind the commit point is   *)
(* left over only by a system operation, never by a COMMIT.                 *)
(***************************************************************************)
OnlyTopopeLeavesItems ==
  pc \in {"item", "put"} /\ NextItem > Commit.log_lsa => Commit.type = "COMMIT_TOPOPE"
=============================================================================
