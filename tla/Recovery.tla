------------------------------ MODULE Recovery ------------------------------
(***************************************************************************)
(* The write-ahead log of a server and its restart: log_manager.c (append, *)
(* commit, abort, postpone, system operations), log_page_buffer.c (the     *)
(* fuzzy checkpoint), page_buffer.c (the pages and their LSAs), log_2pc.c  *)
(* (the participant of a global transaction) and log_recovery.c (analysis, *)
(* redo, postpone, undo).  A record's LSA is its index in the log; a page  *)
(* holds one value, the LSA of the record that wrote it.  The log is       *)
(* flushed in the background at any time: `flushed' is the prefix that     *)
(* some operation forced, and a crash leaves any longer prefix.            *)
(***************************************************************************)
EXTENDS Integers, Sequences, FiniteSetsExt

CONSTANTS Tran, Page,
          NoTran,      \* no transaction: a free page, the system transaction
          Races,       \* the windows of the code that a run explores, see below
          Budget       \* the scenarios: how often each bounded operation may happen

\* "append": a checkpoint passes a page between the append of a record and the
\*   setting of the page's LSA (log_append_undoredo_crumbs and its like);
\* "write": it passes a page that another thread is writing to disk;
\* "unlock": a transaction takes a lock that a committing transaction released
\*   before it appended its LOG_COMMIT (log_commit_local);
\* "prepare": a checkpoint captures a transaction whose last record is its
\*   LOG_2PC_PREPARE while its state is not TRAN_UNACTIVE_2PC_PREPARE;
\* "postpone": it captures a transaction that has run a postpone other than the
\*   one its descriptor calls the first.
Window == {"append", "write", "unlock", "prepare", "postpone"}

Op == {"tran", "update", "postpone", "sysop", "prepare", "chkpt", "crash"}

ASSUME RecoveryAssumption ==
  /\ NoTran \notin Tran
  /\ Races \subseteq Window
  /\ \A b \in Budget : b \in [Op -> Nat]

VARIABLES
  log,      \* the log records, the prior list included
  flushed,  \* how many of them some operation forced to disk
  chkptLsa, \* log_Gl.hdr.chkpt_lsa, in the log header on disk
  disk,     \* the pages on disk
  buf,      \* the page buffers
  image,    \* the copy of a page that pgbuf_flush_page_with_wal is writing
  lock,     \* the owner of the exclusive lock on the object of a page
  tdes,     \* the transaction descriptors
  thread,   \* where the thread of a transaction is, its next postpone, its start_lsa
  chk,      \* the checkpoint
  phase,    \* log_Gl.rcv_phase, "down" after a crash
  pos,      \* the next record to redo
  fate,     \* what the client of a transaction was told, or asked for
  done      \* how often the bounded operations happened

vars == <<log, flushed, chkptLsa, disk, buf, image, lock, tdes, thread, chk,
          phase, pos, fate, done>>

-----------------------------------------------------------------------------
(* Records, descriptors and pages.  LSA 0 is the null LSA.                 *)

State == {"NONE", "ACTIVE", "WILL_COMMIT", "COMMITTED_WITH_POSTPONE", "COMMITTED",
          "ABORTED", "UNILATERALLY_ABORTED", "2PC_PREPARE"}

NoTdes == [state |-> "NONE", tail |-> 0, undo |-> 0, posp |-> 0, top |-> -1]
Idle == [pc |-> "idle", scan |-> 0, lsa |-> 0]
NoImage == [lsa |-> -1]
NoChkpt == [pc |-> "idle", new |-> 0, todo |-> {}]
NextLsa == Len(log) + 1

\* prior_lsa_start_append: the record is linked to the previous one of its
\* transaction and becomes its tail and its next to undo
Record(type, t) == [type |-> type, tran |-> t, prev |-> tdes[t].tail]
UndoRedo(t, p) == [type |-> "UNDOREDO", tran |-> t, prev |-> tdes[t].tail, page |-> p, old |-> buf[p].val]
RunOf(t, i) == [type |-> "RUN_POSTPONE", tran |-> t, prev |-> tdes[t].tail, page |-> log[i].page, ref |-> i]
Compensation(t, i) == [type |-> "COMPENSATE", tran |-> t, prev |-> tdes[t].tail,
                       page |-> log[i].page, val |-> log[i].old, undo |-> log[i].prev]
TopEnd(type, t) == [type |-> type, tran |-> t, prev |-> tdes[t].tail, parent |-> tdes[t].top]
WithPostpone(t) == [type |-> "COMMIT_WITH_POSTPONE", tran |-> t, prev |-> tdes[t].tail, posp |-> tdes[t].posp]
Prepare(t) == [type |-> "2PC_PREPARE", tran |-> t, prev |-> tdes[t].tail, locks |-> {p \in Page : lock[p] = t}]
Appended(d, lsa) == [d EXCEPT !.tail = lsa, !.undo = lsa]

OfType(t, types) == {i \in DOMAIN log : log[i].tran = t /\ log[i].type \in types}

\* what a record does to its page when it is executed, and when it is redone
Executed(b, i, r) ==
  CASE r.type = "UNDOREDO" -> [b EXCEPT !.val = i]
    [] r.type = "COMPENSATE" -> [b EXCEPT !.val = r.val]
    [] r.type = "RUN_POSTPONE" -> [b EXCEPT !.ran = Append(@, r.ref)]

\* pgbuf_set_lsa
SetLsa(b, lsa) == [b EXCEPT !.lsa = lsa, !.dirty = TRUE,
                            !.oldest = IF @ = 0 THEN lsa ELSE @]

OnDisk(b) == [val |-> b.val, ran |-> b.ran, lsa |-> b.lsa]
Buffer(d) == [val |-> d.val, ran |-> d.ran, lsa |-> d.lsa,
              dirty |-> FALSE, oldest |-> 0, latch |-> NoTran]
NewPage == [val |-> 0, ran |-> <<>>, lsa |-> 0]

Flush(n) == flushed' = Max({flushed, n})
Latched(t) == \E p \in Page : buf[p].latch = t
Unlocked(t) == [p \in Page |-> IF lock[p] = t THEN NoTran ELSE lock[p]]

\* the operations are counted, within one of the budgets
Spend(d) == (\E b \in Budget : \A op \in Op : d[op] <= b[op]) /\ done' = d
Count(op) == Spend([done EXCEPT ![op] = @ + 1])
CountFor(t, op) == Spend([done EXCEPT ![op] = @ + 1, !["tran"] = IF fate[t] = "none" THEN @ + 1 ELSE @])

\* the thread of t is at pc, and not between an append and pgbuf_set_lsa
At(t, pc) == thread[t].pc = pc /\ ~Latched(t)
Goto(t, pc) == thread' = [thread EXCEPT ![t].pc = pc]
GotoWith(t, pc, lsa) == thread' = [thread EXCEPT ![t].pc = pc, ![t].lsa = lsa]

Init ==
  /\ log = <<>> /\ flushed = 0 /\ chkptLsa = 0
  /\ disk = [p \in Page |-> NewPage]
  /\ buf = [p \in Page |-> Buffer(NewPage)]
  /\ image = [p \in Page |-> NoImage]
  /\ lock = [p \in Page |-> NoTran]
  /\ tdes = [t \in Tran |-> NoTdes]
  /\ thread = [t \in Tran |-> Idle]
  /\ chk = NoChkpt
  /\ phase = "up" /\ pos = 0
  /\ fate = [t \in Tran |-> "none"]
  /\ done = [op \in Op |-> 0]

-----------------------------------------------------------------------------
(* Running transactions                                                    *)

Running == phase = "up"
Active(t) == Running /\ At(t, "idle")
             /\ (tdes[t].state = "ACTIVE" \/ (tdes[t].state = "NONE" /\ fate[t] = "none"))
Working(t) == fate' = [fate EXCEPT ![t] = "working"]

\* a record is appended and its page changed under the page's write latch,
\* which is kept until SetPageLsa
Change(t, p, r, scan) ==
  /\ buf[p].latch = NoTran
  /\ log' = Append(log, r)
  /\ buf' = [buf EXCEPT ![p] = [Executed(@, NextLsa, r) EXCEPT !.latch = t]]
  /\ thread' = [thread EXCEPT ![t].lsa = NextLsa, ![t].scan = scan]

\* the end of log_append_undoredo_crumbs, log_append_run_postpone and
\* log_append_compensate
SetPageLsa(t) ==
  /\ \E p \in Page :
       /\ buf[p].latch = t
       /\ buf' = [buf EXCEPT ![p] = [SetLsa(@, thread[t].lsa) EXCEPT !.latch = NoTran]]
  /\ UNCHANGED <<log, flushed, chkptLsa, disk, image, lock, tdes, thread, chk, phase, pos, fate, done>>

\* the last writer of p released its locks and has not appended LOG_COMMIT
Uncovered(p) == \E t \in Tran : /\ thread[t].pc = "commit"
                                /\ \E i \in OfType(t, {"UNDOREDO"}) : log[i].page = p

\* a system operation changes no object that its transaction changed outside
\* of it: that change could not be undone after the operation is committed
OwnObject(t, p) == tdes[t].top > 0 =>
                     ~\E i \in OfType(t, {"UNDOREDO"}) : i <= tdes[t].top /\ log[i].page = p

\* log_append_undoredo_crumbs
Update(t, p) ==
  /\ Active(t) /\ OwnObject(t, p) /\ CountFor(t, "update")
  /\ lock[p] \in {NoTran, t}
  /\ Uncovered(p) => "unlock" \in Races
  /\ Change(t, p, UndoRedo(t, p), 0)
  /\ tdes' = [tdes EXCEPT ![t] = [Appended(@, NextLsa) EXCEPT !.state = "ACTIVE"]]
  /\ lock' = [lock EXCEPT ![p] = t]
  /\ Working(t)
  /\ UNCHANGED <<flushed, chkptLsa, disk, image, chk, phase, pos>>

\* log_append_postpone
Postpone(t, p) ==
  /\ Active(t) /\ tdes[t].top = -1 /\ CountFor(t, "postpone")
  /\ LET first == tdes[t].tail = 0
         head  == IF first THEN Append(log, Record("DUMMY_HEAD_POSTPONE", t)) ELSE log
         lsa   == Len(head) + 1
         r     == [type |-> "POSTPONE", tran |-> t, prev |-> IF first THEN NextLsa ELSE tdes[t].tail, page |-> p]
     IN /\ log' = Append(head, r)
        /\ tdes' = [tdes EXCEPT ![t] = [Appended(@, lsa) EXCEPT
                      !.state = "ACTIVE", !.posp = IF @ = 0 THEN lsa ELSE @]]
  /\ Working(t)
  /\ UNCHANGED <<flushed, chkptLsa, disk, buf, image, lock, thread, chk, phase, pos>>

\* log_start_system_op
StartSystemOp(t) ==
  /\ Active(t) /\ tdes[t].top = -1 /\ CountFor(t, "sysop")
  /\ tdes' = [tdes EXCEPT ![t].top = tdes[t].tail, ![t].state = "ACTIVE"]
  /\ Working(t)
  /\ UNCHANGED <<log, flushed, chkptLsa, disk, buf, image, lock, thread, chk, phase, pos>>

\* log_complete_topop, and the return to the outer state
TopResult(t, type) ==
  /\ log' = Append(log, TopEnd(type, t))
  /\ tdes' = [tdes EXCEPT ![t] = [Appended(@, NextLsa) EXCEPT !.state = "ACTIVE", !.top = -1]]

\* log_end_system_op
EndSystemOp(t) ==
  /\ Active(t) /\ tdes[t].top >= 0
  /\ \/ /\ tdes[t].tail = tdes[t].top
        /\ tdes' = [tdes EXCEPT ![t].top = -1]
        /\ UNCHANGED <<log, thread>>
     \/ /\ tdes[t].tail > tdes[t].top
        /\ TopResult(t, "COMMIT_TOPOPE")
        /\ UNCHANGED thread
     \/ /\ tdes[t].tail > tdes[t].top
        /\ tdes' = [tdes EXCEPT ![t].state = "ABORTED"]
        /\ Goto(t, "topabort")
        /\ UNCHANGED log
  /\ UNCHANGED <<flushed, chkptLsa, disk, buf, image, lock, chk, phase, pos, fate, done>>

-----------------------------------------------------------------------------
(* Commit                                                                  *)

\* log_commit_local up to log_do_postpone, for a client's commit and for the
\* coordinator's decision on a prepared transaction
CommitStart(t) ==
  /\ Running /\ At(t, "idle")
  /\ \/ tdes[t].state = "ACTIVE" /\ tdes[t].top = -1
     \/ tdes[t].state = "2PC_PREPARE" /\ fate[t] \in {"prepared", "commit"}
  /\ tdes[t].tail # 0
  /\ tdes' = [tdes EXCEPT ![t].state = "WILL_COMMIT"]
  /\ Goto(t, IF tdes[t].posp = 0 THEN "unlock" ELSE "postpone")
  /\ fate' = [fate EXCEPT ![t] = "commit"]
  /\ UNCHANGED <<log, flushed, chkptLsa, disk, buf, image, lock, chk, phase, pos, done>>

\* log_append_commit_postpone
CommitPostpone(t) ==
  /\ Running /\ At(t, "postpone")
  /\ log' = Append(log, WithPostpone(t))
  /\ tdes' = [tdes EXCEPT ![t] = [Appended(@, NextLsa) EXCEPT !.state = "COMMITTED_WITH_POSTPONE"]]
  /\ thread' = [thread EXCEPT ![t].pc = "run", ![t].scan = tdes[t].posp]
  /\ Flush(NextLsa)
  /\ UNCHANGED <<chkptLsa, disk, buf, image, lock, chk, phase, pos, fate, done>>

\* log_do_postpone stops at the record that ends the updates of t
PostponesFrom(t, lsa) ==
  {i \in OfType(t, {"POSTPONE"}) :
     i >= lsa /\ ~\E j \in OfType(t, {"COMMIT_WITH_POSTPONE", "2PC_PREPARE"}) : lsa <= j /\ j < i}
NextPostpone(t) ==
  IF thread[t].scan = 0 THEN 0 ELSE Min(PostponesFrom(t, thread[t].scan) \cup {NextLsa})
PostponeLeft(t) == NextPostpone(t) \in OfType(t, {"POSTPONE"})

\* log_run_postpone_op, in log_commit_local and in restart
RunPostpone(t) ==
  /\ phase \in {"up", "postpone"} /\ At(t, "run")
  /\ PostponeLeft(t)
  /\ LET i == NextPostpone(t)
     IN Change(t, log[i].page, RunOf(t, i), i + 1)
  /\ tdes' = [tdes EXCEPT ![t] = Appended(@, NextLsa)]
  /\ UNCHANGED <<flushed, chkptLsa, disk, image, lock, chk, phase, pos, fate, done>>

\* lock_unlock_all in log_commit_local
CommitUnlock(t) ==
  /\ Running
  /\ At(t, "unlock") \/ (At(t, "run") /\ ~PostponeLeft(t))
  /\ lock' = Unlocked(t)
  /\ Goto(t, "commit")
  /\ UNCHANGED <<log, flushed, chkptLsa, disk, buf, image, tdes, chk, phase, pos, fate, done>>

\* log_complete and log_append_donetime up to the flush
CommitAppend(t) ==
  /\ Running /\ At(t, "commit")
  /\ log' = Append(log, Record("COMMIT", t))
  /\ tdes' = [tdes EXCEPT ![t] = [Appended(@, NextLsa) EXCEPT !.state = "COMMITTED"]]
  /\ GotoWith(t, "flush", NextLsa)
  /\ UNCHANGED <<flushed, chkptLsa, disk, buf, image, lock, chk, phase, pos, fate, done>>

\* logpb_flush_pages, logtb_clear_tdes and the answer to the client
CommitEnd(t) ==
  /\ Running /\ At(t, "flush")
  /\ Flush(thread[t].lsa)
  /\ tdes' = [tdes EXCEPT ![t] = NoTdes]
  /\ thread' = [thread EXCEPT ![t] = Idle]
  /\ fate' = [fate EXCEPT ![t] = "committed"]
  /\ UNCHANGED <<log, chkptLsa, disk, buf, image, lock, chk, phase, pos, done>>

-----------------------------------------------------------------------------
(* Abort                                                                   *)

\* log_abort_local up to log_rollback; a prepared transaction by decision
AbortStart(t) ==
  /\ Running /\ At(t, "idle")
  /\ \/ tdes[t].state = "ACTIVE" /\ tdes[t].top = -1
     \/ tdes[t].state = "2PC_PREPARE" /\ fate[t] \in {"prepared", "abort", "aborted"}
  /\ tdes[t].tail # 0
  /\ tdes' = [tdes EXCEPT ![t].state = "ABORTED"]
  /\ Goto(t, "rollback")
  /\ fate' = [fate EXCEPT ![t] = "abort"]
  /\ UNCHANGED <<log, flushed, chkptLsa, disk, buf, image, lock, chk, phase, pos, done>>

\* where the rollback of t continues after record i
UndoNext(i) ==
  CASE log[i].type = "COMPENSATE" -> log[i].undo
    [] log[i].type \in {"COMMIT_TOPOPE", "ABORT_TOPOPE"} -> log[i].parent
    [] OTHER -> log[i].prev

\* one record of log_rollback; upto is lastparent_lsa in a system operation
RolledBack(t) == tdes[t].undo <= (IF thread[t].pc = "topabort" THEN tdes[t].top ELSE 0)
Rollback(t) ==
  /\ Running /\ (At(t, "rollback") \/ At(t, "topabort")) /\ ~RolledBack(t)
  /\ LET i == tdes[t].undo
     IN \/ /\ log[i].type = "UNDOREDO"
           /\ Change(t, log[i].page, Compensation(t, i), 0)
           /\ tdes' = [tdes EXCEPT ![t].tail = NextLsa, ![t].undo = log[i].prev]
        \/ /\ log[i].type # "UNDOREDO"
           /\ tdes' = [tdes EXCEPT ![t].undo = UndoNext(i)]
           /\ UNCHANGED <<log, buf, thread>>
  /\ UNCHANGED <<flushed, chkptLsa, disk, image, lock, chk, phase, pos, fate, done>>

\* the end of log_end_system_op for a result of abort
AbortTopope(t) ==
  /\ Running /\ At(t, "topabort") /\ RolledBack(t)
  /\ TopResult(t, "ABORT_TOPOPE")
  /\ Goto(t, "idle")
  /\ UNCHANGED <<flushed, chkptLsa, disk, buf, image, lock, chk, phase, pos, fate, done>>

\* lock_unlock_all in log_abort_local
AbortUnlock(t) ==
  /\ Running /\ At(t, "rollback") /\ RolledBack(t)
  /\ lock' = Unlocked(t)
  /\ Goto(t, "abort")
  /\ UNCHANGED <<log, flushed, chkptLsa, disk, buf, image, tdes, chk, phase, pos, fate, done>>

\* log_complete and log_append_donetime: LOG_ABORT is not flushed
AbortAppend(t) ==
  /\ Running /\ At(t, "abort")
  /\ log' = Append(log, Record("ABORT", t))
  /\ tdes' = [tdes EXCEPT ![t] = Appended(@, NextLsa)]
  /\ Goto(t, "answer")
  /\ UNCHANGED <<flushed, chkptLsa, disk, buf, image, lock, chk, phase, pos, fate, done>>

\* logtb_clear_tdes and the answer to the client
AbortEnd(t) ==
  /\ Running /\ At(t, "answer")
  /\ tdes' = [tdes EXCEPT ![t] = NoTdes]
  /\ thread' = [thread EXCEPT ![t] = Idle]
  /\ fate' = [fate EXCEPT ![t] = "aborted"]
  /\ UNCHANGED <<log, flushed, chkptLsa, disk, buf, image, lock, chk, phase, pos, done>>

-----------------------------------------------------------------------------
(* The participant of a global transaction                                 *)

\* log_2pc_prepare_global_tran: the record holds the exclusive locks
PrepareAppend(t) ==
  /\ Running /\ At(t, "idle")
  /\ tdes[t].state = "ACTIVE" /\ tdes[t].top = -1 /\ tdes[t].tail # 0
  /\ Count("prepare")
  /\ log' = Append(log, Prepare(t))
  /\ tdes' = [tdes EXCEPT ![t] = Appended(@, NextLsa)]
  /\ GotoWith(t, "prepare", NextLsa)
  /\ UNCHANGED <<flushed, chkptLsa, disk, buf, image, lock, chk, phase, pos, fate>>

\* the state, the flush and the vote
PrepareEnd(t) ==
  /\ Running /\ At(t, "prepare")
  /\ tdes' = [tdes EXCEPT ![t].state = "2PC_PREPARE"]
  /\ Flush(thread[t].lsa)
  /\ Goto(t, "idle")
  /\ fate' = [fate EXCEPT ![t] = "prepared"]
  /\ UNCHANGED <<log, chkptLsa, disk, buf, image, lock, chk, phase, pos, done>>

-----------------------------------------------------------------------------
(* Pages to disk                                                           *)

\* pgbuf_flush_page_with_wal: the page is copied and declared clean, ...
FlushStart(p) ==
  /\ phase # "down"
  /\ buf[p].dirty /\ buf[p].latch = NoTran /\ image[p] = NoImage
  /\ image' = [image EXCEPT ![p] = OnDisk(buf[p])]
  /\ buf' = [buf EXCEPT ![p].dirty = FALSE, ![p].oldest = 0]
  /\ UNCHANGED <<log, flushed, chkptLsa, disk, lock, tdes, thread, chk, phase, pos, fate, done>>

\* mutant: the copy is written before the log is forced
FlushWithoutWal(p) ==
  /\ image[p] # NoImage
  /\ disk' = [disk EXCEPT ![p] = image[p]]
  /\ image' = [image EXCEPT ![p] = NoImage]
  /\ UNCHANGED <<log, flushed, chkptLsa, buf, lock, tdes, thread, chk, phase, pos, fate, done>>

\* ... then the log is forced up to the LSA of the copy and the copy written
FlushEnd(p) ==
  /\ image[p] # NoImage
  /\ Flush(image[p].lsa)
  /\ disk' = [disk EXCEPT ![p] = image[p]]
  /\ image' = [image EXCEPT ![p] = NoImage]
  /\ UNCHANGED <<log, chkptLsa, buf, lock, tdes, thread, chk, phase, pos, fate, done>>

\* logpb_checkpoint, in a running server and at the end of a restart
ChkptStart ==
  /\ chk.pc = "idle"
  /\ \/ Running /\ Count("chkpt")
     \/ phase = "checkpoint" /\ UNCHANGED done
  /\ log' = Append(log, [type |-> "START_CHKPT", tran |-> NoTran])
  /\ Flush(NextLsa)
  /\ chk' = [pc |-> "flush", new |-> NextLsa, todo |-> Page]
  /\ UNCHANGED <<chkptLsa, disk, buf, image, lock, tdes, thread, phase, pos, fate>>

\* mutant: the newest change of the page is compared instead of the oldest
PassesByLsa(b) == (~b.dirty /\ b.latch = NoTran) \/ (b.dirty /\ b.lsa > chk.new)

\* one page of pgbuf_flush_checkpoint: a page that is clean, that changed only
\* after the start, or that is latched and has no LSA to flush is passed, any
\* other is written once it is not latched
ChkptPasses(b) == \/ ~b.dirty /\ (b.latch = NoTran \/ "append" \in Races)
                  \/ b.dirty /\ b.oldest > chk.new
ChkptFlush(p) ==
  /\ chk.pc = "flush" /\ p \in chk.todo
  /\ "write" \notin Races => image[p] = NoImage
  /\ \/ /\ ChkptPasses(buf[p])
        /\ UNCHANGED <<flushed, disk, buf>>
     \/ /\ ~ChkptPasses(buf[p])
        /\ buf[p].latch = NoTran
        /\ Flush(buf[p].lsa)
        /\ disk' = [disk EXCEPT ![p] = OnDisk(buf[p])]
        /\ buf' = [buf EXCEPT ![p].dirty = FALSE, ![p].oldest = 0]
  /\ chk' = [chk EXCEPT !.todo = @ \ {p}]
  /\ UNCHANGED <<log, chkptLsa, image, lock, tdes, thread, phase, pos, fate, done>>

\* a transaction in the middle of an abort is to be undone from its tail
Captured(d) == [d EXCEPT !.undo = IF d.state = "ABORTED" THEN d.tail ELSE @, !.top = -1]

Unprepared(t) == /\ tdes[t].tail # 0 /\ log[tdes[t].tail].type = "2PC_PREPARE"
                 /\ tdes[t].state \in {"ACTIVE", "ABORTED"}
RanFurther(t) == \E i \in OfType(t, {"RUN_POSTPONE"}) : log[i].ref # tdes[t].posp

\* the transaction table and LOG_END_CHKPT, under prior_lsa_mutex
ChkptEnd ==
  /\ chk.pc = "flush" /\ chk.todo = {}
  /\ "prepare" \notin Races => ~\E t \in Tran : Unprepared(t)
  /\ "postpone" \notin Races => ~\E t \in Tran : tdes[t].state # "NONE" /\ RanFurther(t)
  /\ log' = Append(log, [type |-> "END_CHKPT", tran |-> NoTran,
                         table |-> [t \in {u \in Tran : tdes[u].tail # 0} |-> Captured(tdes[t])]])
  /\ chk' = [chk EXCEPT !.pc = "header"]
  /\ UNCHANGED <<flushed, chkptLsa, disk, buf, image, lock, tdes, thread, phase, pos, fate, done>>

\* mutant: the header is flushed before the log
HeaderBeforeLog ==
  /\ chk.pc = "header"
  /\ chkptLsa' = chk.new
  /\ chk' = NoChkpt
  /\ phase' = "up"
  /\ UNCHANGED <<log, flushed, disk, buf, image, lock, tdes, thread, pos, fate, done>>

\* the log and then its header are flushed
ChkptHeader ==
  /\ chk.pc = "header"
  /\ Flush(Len(log))
  /\ chkptLsa' = chk.new
  /\ chk' = NoChkpt
  /\ phase' = "up"
  /\ UNCHANGED <<log, disk, buf, image, lock, tdes, thread, pos, fate, done>>

-----------------------------------------------------------------------------
(* Crash and restart                                                       *)

Crash ==
  /\ phase # "down"
  /\ Count("crash")
  /\ \E k \in flushed..Len(log) : log' = SubSeq(log, 1, k) /\ flushed' = k
  /\ buf' = [p \in Page |-> Buffer(disk[p])]
  /\ image' = [p \in Page |-> NoImage]
  /\ lock' = [p \in Page |-> NoTran]
  /\ tdes' = [t \in Tran |-> NoTdes]
  /\ thread' = [t \in Tran |-> Idle]
  /\ chk' = NoChkpt
  /\ phase' = "down" /\ pos' = 0
  /\ UNCHANGED <<chkptLsa, disk, fate>>

\* log_rv_analysis_*: what record i says of its transaction, whose descriptor
\* is allocated as unilaterally aborted when it is first seen
Seen(d) == IF d.state = "NONE" THEN [d EXCEPT !.state = "UNILATERALLY_ABORTED"] ELSE d
Analysed(d, i) ==
  CASE log[i].type = "UNDOREDO" -> Appended(d, i)
    [] log[i].type = "DUMMY_HEAD_POSTPONE" ->
         [Appended(d, i) EXCEPT !.posp = IF @ = 0 THEN i ELSE @]
    [] log[i].type = "POSTPONE" ->
         [Appended(d, i) EXCEPT !.posp = IF @ = 0 THEN d.tail ELSE @]
    [] log[i].type = "RUN_POSTPONE" ->
         LET s == IF d.state = "WILL_COMMIT" THEN d.state ELSE "COMMITTED_WITH_POSTPONE"
         IN [d EXCEPT !.state = s, !.tail = i, !.posp = log[i].ref,
                      !.undo = IF s = "COMMITTED_WITH_POSTPONE" THEN 0 ELSE @]
    [] log[i].type = "COMPENSATE" -> [d EXCEPT !.undo = log[i].undo]
    [] log[i].type = "COMMIT_WITH_POSTPONE" ->
         [d EXCEPT !.state = "COMMITTED_WITH_POSTPONE", !.tail = i, !.undo = 0, !.posp = log[i].posp]
    [] log[i].type \in {"COMMIT_TOPOPE", "ABORT_TOPOPE"} ->
         [Appended(d, i) EXCEPT !.state = "UNILATERALLY_ABORTED"]
    [] log[i].type = "2PC_PREPARE" -> [d EXCEPT !.state = "2PC_PREPARE", !.tail = i]
    [] log[i].type \in {"COMMIT", "ABORT"} -> NoTdes

\* log_rv_analysis_record; only the checkpoint that the header names is used
AnalyseRecord(a, i) ==
  CASE log[i].type = "START_CHKPT" -> [a EXCEPT !.use = (i = chkptLsa)]
    [] log[i].type = "END_CHKPT" /\ a.use ->
         [use |-> FALSE,
          table |-> [t \in Tran |->
            IF t \notin DOMAIN log[i].table THEN a.table[t]
            ELSE [log[i].table[t] EXCEPT
                    !.state = IF @ \in {"ACTIVE", "ABORTED"} THEN "UNILATERALLY_ABORTED" ELSE @]],
          prepared |-> {t \in DOMAIN log[i].table : log[i].table[t].state = "2PC_PREPARE"}]
    [] log[i].type = "END_CHKPT" /\ ~a.use -> a
    [] OTHER -> [a EXCEPT !.table[log[i].tran] = Analysed(Seen(@), i)]

StartLsa == IF chkptLsa = 0 THEN 1 ELSE chkptLsa
Analysis ==
  LET upto[i \in 0..Len(log)] ==
        IF i < StartLsa THEN [use |-> FALSE, table |-> [t \in Tran |-> NoTdes], prepared |-> {}]
        ELSE AnalyseRecord(upto[i - 1], i)
  IN  upto[Len(log)]

\* the locks in the LOG_2PC_PREPARE of t, which is in doubt
PreparedLocks(t) == UNION {log[i].locks : i \in OfType(t, {"2PC_PREPARE"})}

\* mutant: the locks of the transactions that the checkpoint found prepared are
\* not acquired again
AnalyseForgetsLocks ==
  /\ phase = "down"
  /\ tdes' = Analysis.table
  /\ phase' = "redo" /\ pos' = StartLsa
  /\ UNCHANGED <<log, flushed, chkptLsa, disk, buf, image, lock, thread, chk, fate, done>>

\* log_recovery_analysis; log_2pc_recovery_analysis_info reacquires the locks
\* of the transactions that the checkpoint found prepared and that still are
Analyse ==
  /\ phase = "down"
  /\ tdes' = Analysis.table
  /\ lock' = [p \in Page |->
       LET S == {t \in Analysis.prepared :
                   Analysis.table[t].state = "2PC_PREPARE" /\ p \in PreparedLocks(t)}
       IN IF S = {} THEN NoTran ELSE CHOOSE t \in S : TRUE]
  /\ phase' = "redo" /\ pos' = StartLsa
  /\ UNCHANGED <<log, flushed, chkptLsa, disk, buf, image, thread, chk, fate, done>>

\* one record of log_recovery_redo
Redoable == {"UNDOREDO", "COMPENSATE", "RUN_POSTPONE"}
AlreadyDone(b) == pos <= b.lsa /\ b.lsa <= Len(log)
Redo ==
  /\ phase = "redo" /\ pos <= Len(log)
  /\ LET r == log[pos]
         skip == r.type \in Redoable => AlreadyDone(buf[r.page])
     IN /\ buf' = IF skip THEN buf
                  ELSE [buf EXCEPT ![r.page] = SetLsa(Executed(@, pos, r), pos)]
        /\ tdes' = IF r.type \in {"COMMIT", "ABORT"} THEN [tdes EXCEPT ![r.tran] = NoTdes] ELSE tdes
        /\ lock' = IF r.type = "2PC_PREPARE" /\ tdes[r.tran].state = "2PC_PREPARE"
                   THEN [p \in Page |-> IF p \in r.locks THEN r.tran ELSE lock[p]] ELSE lock
  /\ pos' = pos + 1
  /\ UNCHANGED <<log, flushed, chkptLsa, disk, image, thread, chk, phase, fate, done>>

RedoEnd ==
  /\ phase = "redo" /\ pos > Len(log)
  /\ phase' = "postpone"
  /\ UNCHANGED <<log, flushed, chkptLsa, disk, buf, image, lock, tdes, thread, chk, pos, fate, done>>

\* mutant: the postpones that ran are not looked for
StartsOver(t) == tdes[t].posp

\* log_recovery_find_first_postpone
FirstPostpone(t) ==
  LET start   == tdes[t].posp
      applied == \E i \in OfType(t, {"RUN_POSTPONE"}) :
                   start <= i /\ i <= tdes[t].tail /\ log[i].ref = start
      next    == {i \in OfType(t, {"POSTPONE"}) : i > start /\ i <= tdes[t].tail}
  IN IF start = 0 \/ ~applied THEN start
     ELSE IF next = {} THEN 0 ELSE Min(next)

\* log_recovery_finish_all_postpone, one transaction at a time
ToFinish(t) == tdes[t].state \in {"WILL_COMMIT", "COMMITTED_WITH_POSTPONE", "COMMITTED"}
FinishStart(t) ==
  /\ phase = "postpone" /\ ToFinish(t)
  /\ \A u \in Tran : thread[u].pc = "idle"
  /\ thread' = [thread EXCEPT ![t].pc = "run",
                  ![t].scan = IF tdes[t].state = "COMMITTED" THEN 0 ELSE FirstPostpone(t)]
  /\ UNCHANGED <<log, flushed, chkptLsa, disk, buf, image, lock, tdes, chk, phase, pos, fate, done>>

FinishEnd(t) ==
  /\ phase = "postpone" /\ At(t, "run") /\ ~PostponeLeft(t)
  /\ log' = Append(log, Record("COMMIT", t))
  /\ Flush(NextLsa)
  /\ tdes' = [tdes EXCEPT ![t] = NoTdes]
  /\ thread' = [thread EXCEPT ![t] = Idle]
  /\ UNCHANGED <<chkptLsa, disk, buf, image, lock, chk, phase, pos, fate, done>>

\* the log and all dirty pages are flushed at the end of redo and of undo
FlushAll ==
  /\ \A p \in Page : image[p] = NoImage /\ buf[p].latch = NoTran
  /\ flushed' = Len(log)
  /\ disk' = [p \in Page |-> OnDisk(buf[p])]
  /\ buf' = [p \in Page |-> Buffer(disk'[p])]

PostponeEnd ==
  /\ phase = "postpone" /\ ~\E t \in Tran : ToFinish(t)
  /\ FlushAll
  /\ phase' = "undo"
  /\ UNCHANGED <<log, chkptLsa, image, lock, tdes, thread, chk, pos, fate, done>>

\* log_complete of an undone transaction in log_recovery_undo
ToUndo(t) == tdes[t].state \in {"UNILATERALLY_ABORTED", "ABORTED"}
UndoComplete(t) ==
  /\ log' = Append(log, Record("ABORT", t))
  /\ tdes' = [tdes EXCEPT ![t] = NoTdes]

UndoNothing(t) ==
  /\ phase = "undo" /\ ToUndo(t) /\ tdes[t].undo = 0
  /\ UndoComplete(t)
  /\ UNCHANGED <<flushed, chkptLsa, disk, buf, image, lock, thread, chk, phase, pos, fate, done>>

\* one record of log_recovery_undo: the one with the largest undo_nxlsa
UndoRecord(t) ==
  /\ phase = "undo" /\ ToUndo(t)
  /\ \A u \in Tran : ToUndo(u) => tdes[u].undo # 0 /\ tdes[u].undo <= tdes[t].undo
  /\ LET i == tdes[t].undo
         p == log[i].page
         r == Compensation(t, i)
     IN \/ /\ log[i].type = "UNDOREDO"
           /\ log' = Append(log, r)
           /\ buf' = [buf EXCEPT ![p] = SetLsa(Executed(@, NextLsa, r), NextLsa)]
           /\ tdes' = [tdes EXCEPT ![t].tail = NextLsa, ![t].undo = log[i].prev]
        \/ /\ log[i].type \in {"DUMMY_HEAD_POSTPONE", "POSTPONE", "COMPENSATE",
                               "COMMIT_TOPOPE", "ABORT_TOPOPE"}
           /\ tdes' = [tdes EXCEPT ![t].undo = UndoNext(i)]
           /\ UNCHANGED <<log, buf>>
        \/ /\ log[i].type \in {"2PC_PREPARE", "COMMIT", "ABORT", "COMMIT_WITH_POSTPONE", "RUN_POSTPONE"}
           /\ UndoComplete(t)
           /\ UNCHANGED buf
  /\ UNCHANGED <<flushed, chkptLsa, disk, image, lock, thread, chk, phase, pos, fate, done>>

UndoEnd ==
  /\ phase = "undo" /\ ~\E t \in Tran : ToUndo(t)
  /\ FlushAll
  /\ phase' = "checkpoint"
  /\ UNCHANGED <<log, chkptLsa, image, lock, tdes, thread, chk, pos, fate, done>>

-----------------------------------------------------------------------------
Step(t) ==
  \/ SetPageLsa(t)
  \/ StartSystemOp(t) \/ EndSystemOp(t)
  \/ CommitStart(t) \/ CommitPostpone(t) \/ RunPostpone(t) \/ CommitUnlock(t)
  \/ CommitAppend(t) \/ CommitEnd(t)
  \/ AbortStart(t) \/ Rollback(t) \/ AbortTopope(t) \/ AbortUnlock(t) \/ AbortAppend(t)
  \/ AbortEnd(t) \/ PrepareAppend(t) \/ PrepareEnd(t)
  \/ FinishStart(t) \/ FinishEnd(t) \/ UndoNothing(t) \/ UndoRecord(t)

Next ==
  \/ \E t \in Tran : Step(t) \/ \E p \in Page : Update(t, p) \/ Postpone(t, p)
  \/ \E p \in Page : FlushStart(p) \/ FlushEnd(p) \/ ChkptFlush(p)
  \/ ChkptStart \/ ChkptEnd \/ ChkptHeader
  \/ Crash \/ Analyse \/ Redo \/ RedoEnd \/ PostponeEnd \/ UndoEnd

Spec == Init /\ [][Next]_vars

-----------------------------------------------------------------------------
Lsa == 0..Len(log)
Content == [val : Lsa, ran : Seq(Lsa), lsa : Lsa]

\* Every variable stays in its type: in particular every LSA that a page, a
\* descriptor, a checkpoint or an image holds is that of a record in the log,
\* also after a crash cut the log short.
TypeOK ==
  /\ flushed \in Lsa /\ chkptLsa \in Lsa
  /\ \A p \in Page : /\ disk[p] \in Content
                     /\ OnDisk(buf[p]) \in Content /\ buf[p].oldest \in Lsa
                     /\ buf[p].latch \in Tran \cup {NoTran} /\ buf[p].dirty \in BOOLEAN
                     /\ image[p] \in Content \cup {NoImage}
                     /\ lock[p] \in Tran \cup {NoTran}
  /\ \A t \in Tran : /\ tdes[t].state \in State
                     /\ {tdes[t].tail, tdes[t].undo, tdes[t].posp} \subseteq Lsa
                     /\ tdes[t].top \in Lsa \cup {-1}
  /\ phase \in {"up", "down", "redo", "postpone", "undo", "checkpoint"}

\* Write-ahead logging (pgbuf_flush_page_with_wal, pgbuf_flush_checkpoint): no
\* page on disk carries the LSA of a record that the log on disk may lack.
WriteAhead == \A p \in Page : disk[p].lsa <= flushed

\* The records of t whose effect must last: those of its committed system
\* operations and, when t is committed, the others, save those of its aborted
\* system operations.
Inside(t, i, type) == \E j \in OfType(t, {type}) : log[j].parent < i /\ i < j
Kept(t, i) ==
  \/ Inside(t, i, "COMMIT_TOPOPE")
  \/ /\ ~Inside(t, i, "ABORT_TOPOPE")
     /\ fate[t] = "committed" \/ OfType(t, {"COMMIT"}) # {} \/ thread[t].pc = "commit"
KeptWrites(p) == {i \in UNION {OfType(t, {"UNDOREDO"}) : t \in Tran} :
                    log[i].page = p /\ Kept(log[i].tran, i)}

\* Atomicity and durability (log_commit, log_abort, log_recovery): in a server
\* that runs, an object that no transaction has locked has the value of the
\* last write of a committed transaction or system operation, whatever crashes,
\* checkpoints and page writes happened; and restart commits only transactions
\* whose commit was requested.
AllOrNothing ==
  /\ phase = "up" => \A p \in Page : lock[p] = NoTran => buf[p].val = Max(KeptWrites(p) \cup {0})
  /\ \A t \in Tran : OfType(t, {"COMMIT"}) # {} => fate[t] \in {"commit", "committed"}

Times(p, i) == Cardinality({k \in DOMAIN buf[p].ran : buf[p].ran[k] = i})

\* Postponed operations (log_do_postpone, log_recovery_finish_all_postpone):
\* each is executed at most once, never for a transaction that does not commit,
\* and exactly once when the commit is over.
PostponedOnce ==
  phase = "up" => \A t \in Tran : \A i \in OfType(t, {"POSTPONE"}) :
    LET n == Times(log[i].page, i)
    IN /\ n <= 1
       /\ n = 1 => fate[t] \in {"commit", "committed"}
       /\ OfType(t, {"COMMIT"}) # {} => n = 1

\* Two-phase commit (log_2pc_prepare_global_tran, log_rv_analysis_2pc_prepare,
\* log_2pc_read_prepare): a transaction that voted and has no decision is still
\* prepared after any crash, and the objects it changed are locked for it.
PreparedInDoubt ==
  phase = "up" => \A t \in Tran : fate[t] = "prepared" =>
    /\ tdes[t].state = "2PC_PREPARE"
    /\ \A i \in OfType(t, {"UNDOREDO"}) : lock[log[i].page] = t

\* The redo point (pgbuf_flush_checkpoint, logpb_checkpoint): restart may begin
\* its redo at the checkpoint since every change logged before it is on disk.
ChangesOf(p) == {i \in DOMAIN log : log[i].type \in Redoable /\ log[i].page = p}
RedoPoint == \A p \in Page : \A i \in ChangesOf(p) : i < chkptLsa => i <= disk[p].lsa

=============================================================================
