------------------------ MODULE LogApplierInvariant ------------------------
(***************************************************************************)
(* The inductive invariants of the log applier.  Inv is about types and    *)
(* the read position, CInv about the shape of the log and the lists made   *)
(* of it, NInv about what the slave has applied and what its row claims.   *)
(***************************************************************************)
EXTENDS LogApplier

\* What the steps need to know of sets: a set of addresses has a least element,
\* and the cardinalities of sets of transactions, and of an empty list of items.
\* LogApplierProofs derives it from the library's theorems.
SetFacts ==
  /\ \A S \in SUBSET Nat : S # {} => \E x \in S : \A y \in S : x <= y
  /\ \A S \in SUBSET Tran : Cardinality(S) \in Nat
  /\ Cardinality({}) = 0

-----------------------------------------------------------------------------
(* Inv: types, and the position that a restart needs.                      *)

(* Records other than the system's belong to a transaction. *)
SystemType == {"DUMMY_CRASH_RECOVERY", "DUMMY_HA_SERVER_STATE"}

OwnedRec == {r \in LogRec : r.type \notin SystemType => r.trid \in Tran}

(* Every open apply list starts between two addresses. *)
StartIn(lists, low, high) ==
  \A t \in Tran : lists[t].used => low <= lists[t].start_lsa /\ lists[t].start_lsa <= high

(***************************************************************************)
(* The inductive invariant.  The saved required_lsa is behind the read      *)
(* position and behind every open apply list: what la_find_required_lsa     *)
(* returns next can therefore not be smaller.                               *)
(***************************************************************************)
RequiredInv ==
  /\ 1 <= row.required_lsa
  /\ IF pc = "down" THEN final_lsa = 0 ELSE row.required_lsa <= final_lsa
  /\ StartIn(repl_lists, row.required_lsa, final_lsa)

(* Every record the applier looks at is in the log, and la_apply_repl_log   *)
(* works for an entry of the commit list.                                   *)
ReaderInv ==
  /\ log \in Seq(OwnedRec)
  /\ hdr.eof_lsa <= eof
  /\ pc \in {"item", "put"} => commit_list # {}

Inv == TypeOK /\ ReaderInv /\ RequiredInv

-----------------------------------------------------------------------------
(* CInv: the log of the master, transaction by transaction.                *)

EndType == {"COMMIT", "ABORT"}

\* What may come after a record of the same transaction.
OrderInv ==
  \A i, j \in 1 .. Len(log) :
    i < j /\ log[i].trid = log[j].trid /\ log[i].trid \in Tran =>
      /\ log[i].type \notin EndType
      /\ log[i].type = "UNLOCK_COMMIT" => log[j].type \in EndType

\* What the records of a transaction say of its state.
StateInv ==
  \A i \in 1 .. Len(log) : log[i].trid \in Tran =>
    /\ tstate[log[i].trid] # "idle"
    /\ log[i].type \in EndType => tstate[log[i].trid] = "done"
    /\ log[i].type = "UNLOCK_COMMIT" => tstate[log[i].trid] \in {"unlocked", "done"}

UnlockedBefore(j, t) ==
  \E i \in 1 .. j - 1 : log[i].type = "UNLOCK_COMMIT" /\ log[i].trid = t

\* A COMMIT is preceded by the transaction's UNLOCK_COMMIT.
CommitInv ==
  /\ \A j \in 1 .. Len(log) : log[j].type = "COMMIT" => UnlockedBefore(j, log[j].trid)
  /\ \A t \in Tran : tstate[t] = "unlocked" => UnlockedBefore(Len(log) + 1, t)

LogShape == OrderInv /\ StateInv /\ CommitInv

-----------------------------------------------------------------------------
(* CInv: the apply lists and the commit list.                              *)

IsItem(i, t) == i \in 1 .. eof /\ log[i].type = "REPLICATION" /\ log[i].trid = t

IsUnlock(q, t) == q \in 1 .. eof /\ log[q].type = "UNLOCK_COMMIT" /\ log[q].trid = t

\* The items of an apply list are replication records of its transaction.
ItemsOK(lists) ==
  \A t \in Tran : lists[t].last_lsa <= eof /\ \A i \in lists[t].items : IsItem(i, t)

\* An entry stands for a record of its transaction; only an UNLOCK_COMMIT is
\* ever marked COMMIT.
IsEntry(c) ==
  /\ c \in LA_COMMIT /\ c.log_lsa \in 1 .. eof /\ log[c.log_lsa].trid = c.tranid
  /\ log[c.log_lsa].type \in {"UNLOCK_COMMIT", "ABORT", "COMMIT_TOPOPE"}
  /\ c.type = "COMMIT" => log[c.log_lsa].type = "UNLOCK_COMMIT"

\* The commit list when all before address `fin' is read: one entry for a
\* record, and behind an entry no UNLOCK_COMMIT of its transaction is missing.
EntriesOK(list, fin) ==
  /\ \A c \in list : IsEntry(c) /\ c.log_lsa < fin
  /\ \A c, d \in list : c.log_lsa = d.log_lsa => c = d
  /\ \A c \in list, q \in Nat :
       c.log_lsa <= q /\ q < fin /\ IsUnlock(q, c.tranid) => \E d \in list : d.log_lsa = q

Applying == pc \in {"list", "item", "put"}

\* The address up to which records are in the lists.
ReadTo == IF Applying THEN final_lsa + 1 ELSE final_lsa

PosInv ==
  /\ ReadTo <= eof + 1 /\ row.required_lsa <= eof + 1
  /\ pc = "down" => commit_list = {}

\* What the loops over the commit list work for.
LoopInv ==
  /\ Applying => /\ final_lsa \in 1 .. eof
                 /\ log[final_lsa].type \in {"COMMIT", "COMMIT_TOPOPE"}
  /\ pc \in {"item", "put"} => Commit.type \in {"COMMIT", "COMMIT_TOPOPE"}

ListInv == PosInv /\ LoopInv /\ ItemsOK(repl_lists) /\ EntriesOK(commit_list, ReadTo)

CInv == LogShape /\ ListInv

-----------------------------------------------------------------------------
(* NInv: a log without system operations, role changes and restarts.       *)

\* The case the theorems are about: one run of the master, until it crashes,
\* without system operations and role changes, and a slave that does not roll
\* back the applier's transaction on its own.
PlainOperation ==
  MaxTopops = 0 /\ MaxMasterRestarts = 0 /\ MaxStateChanges = 0 /\ MaxUnilateralAborts = 0

PlainType == {"DATA", "REPLICATION", "UNLOCK_COMMIT", "COMMIT", "ABORT"}

Live == {"ACTIVE", "DEAD"}

\* From item i to the UNLOCK_COMMIT at p there are only items of the same
\* transaction.
BlockTo(i, p) ==
  /\ log[p].type = "UNLOCK_COMMIT"
  /\ \A k \in i .. p : log[k].trid = log[i].trid /\ (k < p => log[k].type = "REPLICATION")

Blocks(n) ==
  \A i \in 1 .. n : log[i].type = "REPLICATION" => \E p \in i + 1 .. n : BlockTo(i, p)

\* A transaction has begun within the first n records.
Opened(n, t) == \E f \in 1 .. n : log[f].trid = t /\ log[f].first

\* The record that is marked as the first of a transaction is, and is no item.
FirstOK(i) ==
  /\ log[i].first => log[i].type = "DATA" /\ \A j \in 1 .. i - 1 : log[j].trid # log[i].trid
  /\ Opened(i, log[i].trid)

FirstInv == \A i \in 1 .. Len(log) : FirstOK(i)

BegunInv == \A t \in Tran : tstate[t] # "idle" => Opened(Len(log), t)

\* No transaction aborts after its UNLOCK_COMMIT.
AbortInv ==
  \A i, j \in 1 .. Len(log) :
    log[i].type = "UNLOCK_COMMIT" /\ log[j].trid = log[i].trid => log[j].type # "ABORT"

PlainInv ==
  /\ srv \in Live
  /\ \A i \in 1 .. Len(log) : log[i].type \in PlainType
  /\ \A t \in Tran : tstate[t] # "topop"
  /\ Blocks(eof) /\ (srv # "DEAD" => Blocks(Len(log)))
  /\ FirstInv /\ BegunInv /\ AbortInv

-----------------------------------------------------------------------------
(* NInv: what is done.  r and R0 stand for committed_rep_lsa and           *)
(* last_committed_rep_lsa, R for the address up to which the log is read,  *)
(* J for the refused items and s for the sequence of the applied ones.     *)

IsRecord(i, t) == i \in 1 .. eof /\ log[i].trid = t

IsEnd(q, t) == q \in 1 .. eof /\ log[q].type \in {"UNLOCK_COMMIT", "ABORT"} /\ log[q].trid = t

IsCommit(q, t) == q \in 1 .. eof /\ log[q].type = "COMMIT" /\ log[q].trid = t

IsFirst(f, t) == f \in 1 .. eof /\ log[f].first /\ log[f].trid = t

Done(i, r, J) == i <= r \/ i \in J

AllDone(t, r, J) == \A i \in Nat : IsItem(i, t) => Done(i, r, J)

\* The transaction is over, for the slave too.
Over(t, r, J) == (\E q \in Nat : IsEnd(q, t)) /\ AllDone(t, r, J)

In(s, i) == \E k \in DOMAIN s : s[k] = i

\* The slave has the items of committed transactions up to r, in the order of
\* the log and without a gap.
SeqInv(s, r, J) ==
  /\ r <= 1 \/ r <= eof
  /\ \A j, k \in DOMAIN s : j < k => s[j] < s[k]
  /\ \A k \in DOMAIN s :
       s[k] <= r /\ \E t \in Tran : IsItem(s[k], t) /\ \E c \in Nat : IsCommit(c, t)
  /\ \A i \in Nat, t \in Tran : IsItem(i, t) /\ i <= r => i \in J \/ In(s, i)

\* What is claimed to be done up to the commit point lsa is done.
ClaimInv(lsa, r, J) ==
  \A p \in Nat, t \in Tran : IsUnlock(p, t) /\ p <= lsa => AllDone(t, r, J)

\* Transactions that begin before lsa are over.
OverBefore(lsa, r, J) ==
  \A f \in Nat, t \in Tran : IsFirst(f, t) /\ f < lsa => Over(t, r, J)

\* The row that a restart begins with.
RowInv ==
  /\ SeqInv(slave, row.committed_rep_lsa, rejected)
  /\ OverBefore(row.required_lsa, row.committed_rep_lsa, rejected)
  /\ ClaimInv(row.committed_lsa, row.committed_rep_lsa, rejected)
  /\ row.committed_lsa <= eof \/ row.committed_lsa <= row.required_lsa

\* A transaction that has begun has its list open from its first record on, or
\* is over.
OpenInv(lists, R, r, J) ==
  \A t \in Tran :
    /\ lists[t].used => IsFirst(lists[t].start_lsa, t) /\ lists[t].start_lsa < R
    /\ ~lists[t].used => \A f \in Nat : IsFirst(f, t) /\ f < R => Over(t, r, J)

\* The UNLOCK_COMMIT of an open list waits in the commit list.
QueueInv(lists, list, R) ==
  \A t \in Tran, p \in Nat :
    lists[t].used /\ IsUnlock(p, t) /\ p < R => \E c \in list : c.log_lsa = p

\* What the type of an entry says.
TypesInv(list) ==
  \A c \in list :
    /\ c.type # "COMMIT_TOPOPE"
    /\ c.type = "ABORT" => log[c.log_lsa].type = "ABORT"
    /\ c.type = "COMMIT" => \E q \in Nat : IsCommit(q, c.tranid)

\* The item loop finds i in the list, or in the log up to last_lsa.
Reach(apply, i) == IF apply.is_long_trans THEN i <= apply.last_lsa ELSE i \in apply.items

\* An open list gives access to every item that is not done.
Held(apply, t, R, r, R0, J) ==
  /\ apply.is_long_trans => apply.items # {}
  /\ \A k \in apply.items : k < R
  /\ \A i \in Nat : IsItem(i, t) /\ i < R =>
       /\ Done(i, r, J) \/ (Reach(apply, i) /\ \E k \in apply.items : k <= i)
       /\ i <= R0 \/ r < i

HeldInv(lists, X, R, r, R0, J) ==
  \A t \in Tran \ X : lists[t].used => Held(lists[t], t, R, r, R0, J)

\* The same in the item loop, at item `it'.
HeldFrom(apply, t, it, R, r, R0, J) ==
  \A i \in Nat : IsItem(i, t) /\ i < R =>
    /\ i = it \/ Done(i, r, J) \/ (it < i /\ Reach(apply, i))
    /\ i <= R0 \/ r < i \/ i < it

\* ... and when that item is done.
HeldPast(apply, t, it, R, r, R0, J) ==
  \A i \in Nat : IsItem(i, t) /\ i < R =>
    /\ Done(i, r, J) \/ (it < i /\ Reach(apply, i))
    /\ i <= R0 \/ r < i \/ i <= it

InLoop == pc \in {"item", "put"}

LoopTran == IF InLoop THEN {Commit.tranid} ELSE {}

LoopHeld(lists, h, it, R, r, R0, J) ==
  /\ lists[h.tranid].used /\ h.type = "COMMIT" /\ IsItem(it, h.tranid)
  /\ HeldFrom(lists[h.tranid], h.tranid, it, R, r, R0, J)

\* The positions that la_Info keeps.
PlaceInv ==
  /\ last_committed_rep_lsa <= committed_rep_lsa
  /\ committed_rep_lsa = last_committed_rep_lsa \/ committed_rep_lsa < ReadTo
  /\ committed_lsa <= ReadTo
  /\ committed_lsa < ReadTo \/ \A t \in Tran : ~repl_lists[t].used
  /\ \A c \in commit_list : committed_lsa <= c.log_lsa
  /\ last_committed_lsa <= eof \/ last_committed_lsa <= committed_lsa
  /\ row.committed_lsa <= committed_lsa \/ row.committed_lsa <= last_committed_lsa

LoopPlace ==
  InLoop =>
    /\ LoopHeld(repl_lists, Commit, item, ReadTo, committed_rep_lsa, last_committed_rep_lsa,
                rejected)
    /\ pc = "put" => last_committed_rep_lsa < item

\* The process is up.
UpInv ==
  /\ SeqInv(Applied, committed_rep_lsa, rejected)
  /\ PlaceInv
  /\ ClaimInv(committed_lsa, committed_rep_lsa, rejected)
  /\ ClaimInv(last_committed_lsa, committed_rep_lsa, rejected)
  /\ OpenInv(repl_lists, ReadTo, committed_rep_lsa, rejected)
  /\ QueueInv(repl_lists, commit_list, ReadTo)
  /\ TypesInv(commit_list)
  /\ HeldInv(repl_lists, LoopTran, ReadTo, committed_rep_lsa, last_committed_rep_lsa, rejected)
  /\ LoopPlace

DownInv == pending = << >> /\ \A t \in Tran : ~repl_lists[t].used

NInv ==
  /\ PlainInv /\ hdr.ha_server_state \in Live /\ RowInv
  /\ pc = "down" => DownInv
  /\ pc # "down" => UpInv
=============================================================================
