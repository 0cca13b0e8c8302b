---------------------------- MODULE ReplayLemmas ----------------------------
(***************************************************************************)
(* Every step of the applier keeps NInv, while the log is plain.           *)
(***************************************************************************)
EXTENDS LogApplierLemmas

-----------------------------------------------------------------------------
(* What NInv says of commit points.                                        *)

\* The commit point of an item is the UNLOCK_COMMIT of its transaction.
LEMMA PointIs ==
  ASSUME Inv, LogShape, PlainInv, NEW i, NEW t, IsItem(i, t)
  PROVE  \E q \in Nat : /\ IsUnlock(q, t) /\ i < q /\ q \in Points /\ i \in ItemsOf(q)
                        /\ PointOf(i) = q
<1>1. PICK q \in Nat : IsUnlock(q, t) /\ i < q
  BY Zenon, ItemBlock
<1>2. PICK e \in Nat, n \in Nat : e = eof /\ n = Len(log) /\ e <= n
  BY Zenon, ListTypes
<1>3. /\ i \in 1 .. e /\ log[i].type = "REPLICATION" /\ log[i].trid = t
      /\ q \in 1 .. e /\ log[q].type = "UNLOCK_COMMIT" /\ log[q].trid = t
  BY Zenon, <1>1, <1>2 DEF IsItem, IsUnlock
<1>4. t \in Tran
  BY Zenon, <1>1, Records
<1>5. \A p \in Points : p \in 1 .. n /\ log[p].type = "UNLOCK_COMMIT"
  BY Zenon, <1>2 DEF Points, PlainInv, PlainType
<1>6. ASSUME NEW p \in Points, log[p].trid = t PROVE p = q
  <2>1. p \in 1 .. n /\ log[p].type = "UNLOCK_COMMIT" /\ p \in Nat /\ q \in 1 .. n
    BY <1>2, <1>3, <1>5
  <2>2. ~(p < q) /\ ~(q < p)
    BY Zenon, <1>2, <1>3, <1>4, <1>6, <2>1 DEF LogShape, OrderInv, EndType
  <2> QED BY <2>1, <2>2
<1>7. q \in Points
  <2>1. q \in 1 .. n
    BY <1>2, <1>3
  <2> QED BY Zenon, <1>2, <1>3, <2>1 DEF Points
<1>8. i \in ItemsOf(q)
  <2>1. i \in 1 .. q - 1
    BY <1>1, <1>3
  <2>2. \A p \in Points : log[p].trid = log[q].trid => ~(i < p /\ p < q)
    <3>1. ~(q < q)
      OBVIOUS
    <3> QED BY Zenon, <1>3, <1>6, <3>1
  <2> QED BY Zenon, <1>3, <2>1, <2>2 DEF ItemsOf
<1>9. ASSUME NEW p \in Points, i \in ItemsOf(p) PROVE p = q
  <2>1. log[p].trid = t
    BY Zenon, <1>3, <1>9 DEF ItemsOf
  <2> QED BY Zenon, <1>6, <2>1
<1>10. PointOf(i) = q
  BY Zenon, <1>7, <1>8, <1>9 DEF PointOf
<1> QED BY Zenon, <1>1, <1>7, <1>8, <1>10

\* The replay order is the order of the log.
LEMMA BeforeIs ==
  ASSUME Inv, LogShape, PlainInv, NEW i, NEW s, IsItem(i, s), NEW j, NEW t, IsItem(j, t)
  PROVE  Before(i, j) <=> i < j
<1>1. PICK p \in Nat : IsUnlock(p, s) /\ i < p /\ PointOf(i) = p
  BY Zenon, PointIs
<1>2. PICK q \in Nat : IsUnlock(q, t) /\ j < q /\ PointOf(j) = q
  BY Zenon, PointIs
<1>3. i \in Nat /\ j \in Nat
  BY Zenon, ItemHasFirst
<1>4. Before(i, j) <=> (p < q \/ (p = q /\ i < j))
  BY Zenon, <1>1, <1>2 DEF Before
<1>5. CASE s = t
  <2>1. p = q
    BY Zenon, <1>1, <1>2, <1>5, OneUnlock
  <2> QED BY <1>4, <2>1
<1>6. CASE s # t
  <2>1. ASSUME i < j PROVE p < q
    <3>1. PICK u \in Nat : IsUnlock(u, s) /\ u < j
      BY Zenon, <1>6, <2>1, BlockOrder
    <3>2. u = p
      BY Zenon, <1>1, <3>1, OneUnlock
    <3> QED BY <1>2, <1>3, <3>1, <3>2
  <2>2. ASSUME j < i PROVE q < p
    <3>1. PICK u \in Nat : IsUnlock(u, t) /\ u < i
      BY Zenon, <1>6, <2>2, BlockOrder
    <3>2. u = q
      BY Zenon, <1>2, <3>1, OneUnlock
    <3> QED BY <1>1, <1>3, <3>1, <3>2
  <2>3. i # j
    BY Zenon, <1>6 DEF IsItem
  <2>4. p # q
    BY Zenon, <1>1, <1>2, <1>6 DEF IsUnlock
  <2> QED BY <1>3, <1>4, <2>1, <2>2, <2>3, <2>4
<1> QED BY Zenon, <1>5, <1>6

\* The items of a point that is decided.
LEMMA PointItems ==
  ASSUME Inv, PlainInv, NEW p \in Points, DecidedAt(p, eof), NEW i \in ItemsOf(p)
  PROVE  \E t \in Tran, c \in Nat : IsUnlock(p, t) /\ IsItem(i, t) /\ IsCommit(c, t)
<1>1. PICK e \in Nat, n \in Nat : e = eof /\ n = Len(log) /\ e <= n
  BY Zenon, ListTypes
<1>2. p \in 1 .. n /\ log[p].type = "UNLOCK_COMMIT"
  BY Zenon, <1>1 DEF Points, PlainInv, PlainType
<1>3. PICK c \in p + 1 .. e : log[c].type = "COMMIT" /\ log[c].trid = log[p].trid
  BY Zenon, <1>1, <1>2 DEF DecidedAt
<1>4. i \in 1 .. p - 1 /\ log[i].type = "REPLICATION" /\ log[i].trid = log[p].trid
  BY Zenon DEF ItemsOf
<1>5. c \in Nat /\ c \in 1 .. e /\ p \in 1 .. e /\ i \in 1 .. e
  BY <1>1, <1>2, <1>3, <1>4
<1>6. PICK t : t = log[p].trid
  BY Zenon
<1>7. IsUnlock(p, t) /\ IsItem(i, t) /\ IsCommit(c, t)
  BY Zenon, <1>1, <1>2, <1>3, <1>4, <1>5, <1>6 DEF IsUnlock, IsItem, IsCommit
<1>8. t \in Tran
  BY Zenon, <1>7, Records
<1> QED BY Zenon, <1>5, <1>7, <1>8

\* What the master has committed.
LEMMA CommittedIs ==
  ASSUME Inv, LogShape, PlainInv
  PROVE  \A i : i \in CommittedItems(eof) <=>
                  \E t \in Tran, c \in Nat : IsItem(i, t) /\ IsCommit(c, t)
<1> TAKE i
<1>1. ASSUME i \in CommittedItems(eof)
      PROVE  \E t \in Tran, c \in Nat : IsItem(i, t) /\ IsCommit(c, t)
  <2>1. PICK p \in Points : DecidedAt(p, eof) /\ i \in ItemsOf(p)
    BY Zenon, <1>1 DEF CommittedItems
  <2> QED BY Zenon, <2>1, PointItems
<1>2. ASSUME NEW t \in Tran, NEW c \in Nat, IsItem(i, t), IsCommit(c, t)
      PROVE  i \in CommittedItems(eof)
  <2>1. PICK q \in Nat : IsUnlock(q, t) /\ q \in Points /\ i \in ItemsOf(q)
    BY Zenon, <1>2, PointIs
  <2>2. PICK p \in Nat : IsUnlock(p, t) /\ p < c
    BY Zenon, <1>2, CommitUnlocked
  <2>3. q < c
    <3>1. p = q
      BY Zenon, <2>1, <2>2, OneUnlock
    <3> QED BY Zenon, <2>2, <3>1
  <2>4. c \in 1 .. eof /\ log[c].type = "COMMIT" /\ log[c].trid = log[q].trid
    BY Zenon, <1>2, <2>1 DEF IsCommit, IsUnlock
  <2>5. eof \in Nat
    BY Zenon, NTypes
  <2>6. c \in q + 1 .. eof
    BY <2>3, <2>4, <2>5
  <2>7. DecidedAt(q, eof)
    BY Zenon, <2>4, <2>6 DEF DecidedAt
  <2> QED BY Zenon, <2>1, <2>7 DEF CommittedItems
<1> QED BY Zenon, <1>1, <1>2

\* The record that opens a transaction's list.
LEMMA FirstRecordIs ==
  ASSUME Inv, PlainInv, NEW f, NEW t, IsFirst(f, t)
  PROVE  FirstRecord(t) = f
<1>1. PICK e \in Nat, n \in Nat : e = eof /\ n = Len(log) /\ e <= n
  BY Zenon, ListTypes
<1>2. f \in 1 .. e /\ log[f].first /\ log[f].trid = t
  BY Zenon, <1>1 DEF IsFirst
<1>3. f \in 1 .. n
  BY <1>1, <1>2
<1>4. ASSUME NEW g \in 1 .. n, log[g].trid = t, log[g].first PROVE g = f
  <2>1. \A j \in 1 .. g - 1 : log[j].trid # t
    BY Zenon, <1>1, <1>4 DEF PlainInv, FirstInv, FirstOK
  <2>2. \A j \in 1 .. f - 1 : log[j].trid # t
    BY Zenon, <1>1, <1>2, <1>3 DEF PlainInv, FirstInv, FirstOK
  <2>3. f \notin 1 .. g - 1 /\ g \notin 1 .. f - 1
    BY Zenon, <1>2, <1>4, <2>1, <2>2
  <2> QED BY <1>3, <2>3
<1> QED BY Zenon, <1>1, <1>2, <1>3, <1>4 DEF FirstRecord

\* The invariant is about everything that is applied, committed or not.
LEMMA AppliedSeq ==
  ASSUME Inv, NInv
  PROVE  \E r \in Nat : SeqInv(Applied, r, rejected)
<1>1. CASE pc # "down"
  BY Zenon, <1>1, NTypes DEF NInv, UpInv
<1>2. CASE pc = "down"
  <2>1. pending = << >> /\ slave \in Seq(Nat) /\ row.committed_rep_lsa \in Nat
    BY Zenon, <1>2, NTypes DEF NInv, DownInv
  <2>2. Applied = slave
    BY Zenon, <2>1, JoinedNone DEF Applied
  <2> QED BY Zenon, <2>1, <2>2 DEF NInv, RowInv
<1> QED BY Zenon, <1>1, <1>2

\* What the invariant implies.
Replayed ==
  AppliedInUnlockOrder /\ NoItemPassedOver /\ RowHonest /\ RequiredCoversUnapplied

\* The invariant implies the four properties.
LEMMA NInvReplayed ==
  ASSUME Inv, CInv, NInv
  PROVE  Replayed
<1>1. PlainInv /\ LogShape /\ RowInv
  BY Zenon DEF NInv, CInv
<1>s. PICK s, J : s = Applied /\ J = rejected
  BY Zenon
<1>r. PICK r \in Nat : SeqInv(s, r, J)
  BY Zenon, <1>s, AppliedSeq
<1>2. s = Applied /\ J = rejected /\ SeqInv(s, r, J)
  BY Zenon, <1>s, <1>r
<1>3. AppliedInUnlockOrder
  <2>1. ASSUME NEW k \in DOMAIN s PROVE s[k] \in CommittedItems(eof)
    BY Zenon, <1>1, <1>2, CommittedIs DEF SeqInv
  <2>2. ASSUME NEW j \in DOMAIN s, NEW k \in DOMAIN s, j < k PROVE Before(s[j], s[k])
    <3>1. PICK a, b : a = s[j] /\ b = s[k]
      BY Zenon
    <3>2. PICK t \in Tran, u \in Tran : IsItem(a, t) /\ IsItem(b, u)
      BY Zenon, <1>2, <3>1 DEF SeqInv
    <3>3. a < b
      BY Zenon, <1>2, <2>2, <3>1 DEF SeqInv
    <3> QED BY Zenon, <1>1, <3>1, <3>2, <3>3, BeforeIs
  <2> QED BY Zenon, <1>2, <2>1, <2>2 DEF AppliedInUnlockOrder
<1>4. NoItemPassedOver
  <2> SUFFICES ASSUME NEW i \in CommittedItems(eof), NEW k \in DOMAIN s, Before(i, s[k])
               PROVE  (\E j \in DOMAIN s : s[j] = i) \/ i \in J
    BY Zenon, <1>2 DEF NoItemPassedOver, InApplied
  <2>1. PICK t \in Tran : IsItem(i, t)
    BY Zenon, <1>1, CommittedIs
  <2>b. PICK b : b = s[k]
    BY Zenon
  <2>2. PICK u \in Tran : b = s[k] /\ IsItem(b, u) /\ b <= r
    BY Zenon, <1>2, <2>b DEF SeqInv
  <2>3. i < b
    BY Zenon, <1>1, <2>1, <2>2, BeforeIs
  <2>4. i \in Nat /\ b \in Nat
    BY Zenon, <1>1, <2>1, <2>2, ItemHasFirst
  <2>5. i <= r
    BY <2>2, <2>3, <2>4
  <2> QED BY Zenon, <1>2, <2>1, <2>4, <2>5 DEF SeqInv, In
<1>5. ASSUME NEW i \in Nat, NEW t \in Tran, IsItem(i, t), AllDone(t, row.committed_rep_lsa, rejected)
      PROVE  i \in rejected \/ \E k \in DOMAIN slave : slave[k] = i
  BY Zenon, <1>1, <1>5 DEF AllDone, Done, RowInv, SeqInv, In
<1>6. RowHonest
  <2> SUFFICES ASSUME NEW p \in Points, p <= row.committed_lsa, DecidedAt(p, eof),
                      NEW i \in ItemsOf(p)
               PROVE  i \in rejected \/ \E k \in DOMAIN slave : slave[k] = i
    BY Zenon DEF RowHonest
  <2>1. PICK t \in Tran : IsUnlock(p, t) /\ IsItem(i, t)
    BY Zenon, <1>1, PointItems
  <2>2. p \in Nat /\ i \in Nat
    BY Zenon, <2>1, Records
  <2>3. AllDone(t, row.committed_rep_lsa, rejected)
    BY Zenon, <1>1, <2>1, <2>2 DEF RowInv, ClaimInv
  <2> QED BY Zenon, <1>5, <2>1, <2>2, <2>3
<1>7. RequiredCoversUnapplied
  <2> SUFFICES ASSUME NEW i \in CommittedItems(eof), ~(row.required_lsa <= FirstRecord(log[i].trid))
               PROVE  i \in rejected \/ \E k \in DOMAIN slave : slave[k] = i
    BY Zenon DEF RequiredCoversUnapplied
  <2>1. PICK t \in Tran : IsItem(i, t)
    BY Zenon, <1>1, CommittedIs
  <2>2. PICK f \in Nat : IsFirst(f, t)
    BY Zenon, <1>1, <2>1, ItemHasFirst
  <2>3. FirstRecord(log[i].trid) = f /\ i \in Nat
    <3>1. log[i].trid = t
      BY Zenon, <2>1 DEF IsItem
    <3> QED BY Zenon, <1>1, <2>1, <2>2, <3>1, FirstRecordIs, ItemHasFirst
  <2>4. row.required_lsa \in Nat
    BY Zenon, NTypes
  <2>5. f < row.required_lsa
    BY <2>3, <2>4
  <2>6. AllDone(t, row.committed_rep_lsa, rejected)
    BY Zenon, <1>1, <2>2, <2>5 DEF RowInv, OverBefore, Over
  <2> QED BY Zenon, <1>5, <2>1, <2>3, <2>6
<1> QED BY Zenon, <1>3, <1>4, <1>6, <1>7 DEF Replayed

-----------------------------------------------------------------------------
(* Reading the log.                                                        *)

\* What the invariant says of the list of one transaction, outside the item
\* loop.
ListOK(apply, t, list, R, r, R0, J) ==
  /\ apply.used =>
       /\ IsFirst(apply.start_lsa, t) /\ apply.start_lsa < R
       /\ \A p \in Nat : IsUnlock(p, t) /\ p < R => \E c \in list : c.log_lsa = p
       /\ Held(apply, t, R, r, R0, J)
  /\ ~apply.used => \A f \in Nat : IsFirst(f, t) /\ f < R => Over(t, r, J)

\* ... which is what it says of all of them.
LEMMA ListsOK ==
  ASSUME NEW lists, NEW list, NEW R, NEW r, NEW R0, NEW J
  PROVE  (OpenInv(lists, R, r, J) /\ QueueInv(lists, list, R) /\ HeldInv(lists, {}, R, r, R0, J))
           <=> \A t \in Tran : ListOK(lists[t], t, list, R, r, R0, J)
<1>1. ASSUME OpenInv(lists, R, r, J), QueueInv(lists, list, R), HeldInv(lists, {}, R, r, R0, J),
             NEW t \in Tran
      PROVE  ListOK(lists[t], t, list, R, r, R0, J)
  <2>1. t \in Tran \ {}
    BY Zenon
  <2>2. lists[t].used => Held(lists[t], t, R, r, R0, J)
    BY Zenon, <1>1, <2>1 DEF HeldInv
  <2>3. lists[t].used => \A p \in Nat : IsUnlock(p, t) /\ p < R => \E c \in list : c.log_lsa = p
    BY Zenon, <1>1 DEF QueueInv
  <2> QED BY Zenon, <1>1, <2>2, <2>3 DEF OpenInv, ListOK
<1>2. ASSUME \A t \in Tran : ListOK(lists[t], t, list, R, r, R0, J)
      PROVE  /\ OpenInv(lists, R, r, J) /\ QueueInv(lists, list, R)
             /\ HeldInv(lists, {}, R, r, R0, J)
  <2>1. OpenInv(lists, R, r, J)
    BY Zenon, <1>2 DEF OpenInv, ListOK
  <2>2. QueueInv(lists, list, R)
    BY Zenon, <1>2 DEF QueueInv, ListOK
  <2>3. HeldInv(lists, {}, R, r, R0, J)
    BY Zenon, <1>2 DEF HeldInv, ListOK
  <2> QED BY Zenon, <2>1, <2>2, <2>3
<1> QED BY Zenon, <1>1, <1>2

\* The read position passes a record that says nothing of the list.
LEMMA ListOn ==
  ASSUME NEW a \in LA_APPLY, NEW t, NEW list, NEW new, NEW R \in Nat, NEW r, NEW R0, NEW J,
         ListOK(a, t, list, R, r, R0, J),
         \A p \in Nat : IsUnlock(p, t) /\ (\E c \in list : c.log_lsa = p) =>
                           \E d \in new : d.log_lsa = p,
         IsFirst(R, t) => a.used, ~IsItem(R, t),
         IsUnlock(R, t) => \E d \in new : d.log_lsa = R
  PROVE  ListOK(a, t, new, R + 1, r, R0, J)
<1>0. a.start_lsa \in Nat /\ a.items \subseteq Nat
  BY Zenon DEF LA_APPLY, Lsa
<1>1. \A i \in Nat : (i < R + 1 => i < R \/ i = R) /\ (i < R => i < R + 1)
  OBVIOUS
<1>2. ASSUME a.used
      PROVE  /\ IsFirst(a.start_lsa, t) /\ a.start_lsa < R + 1
             /\ \A p \in Nat : IsUnlock(p, t) /\ p < R + 1 => \E d \in new : d.log_lsa = p
             /\ Held(a, t, R + 1, r, R0, J)
  <2>1. /\ IsFirst(a.start_lsa, t) /\ a.start_lsa < R
        /\ \A p \in Nat : IsUnlock(p, t) /\ p < R => \E c \in list : c.log_lsa = p
        /\ Held(a, t, R, r, R0, J)
    BY Zenon, <1>2 DEF ListOK
  <2>2. \A p \in Nat : IsUnlock(p, t) /\ p < R + 1 => \E d \in new : d.log_lsa = p
    BY Zenon, <1>1, <2>1
  <2>3. \A k \in a.items : k < R + 1
    <3>1. \A k \in a.items : k < R /\ k \in Nat
      BY Zenon, <1>0, <2>1 DEF Held
    <3> QED BY Zenon, <1>1, <3>1
  <2>4. \A i \in Nat : IsItem(i, t) /\ i < R + 1 =>
          /\ Done(i, r, J) \/ (Reach(a, i) /\ \E k \in a.items : k <= i)
          /\ i <= R0 \/ r < i
    BY Zenon, <1>1, <2>1 DEF Held
  <2>5. Held(a, t, R + 1, r, R0, J)
    BY Zenon, <2>1, <2>3, <2>4 DEF Held
  <2> QED BY Zenon, <1>0, <1>1, <2>1, <2>2, <2>5
<1>3. ASSUME ~a.used PROVE \A f \in Nat : IsFirst(f, t) /\ f < R + 1 => Over(t, r, J)
  BY Zenon, <1>1, <1>3 DEF ListOK
<1> QED BY Zenon, <1>2, <1>3 DEF ListOK

\* Where a record is processed.
LEMMA AtPlainRecord ==
  ASSUME Inv, PlainInv, UpInv, pc = "read", final_lsa <= hdr.eof_lsa
  PROVE  /\ final_lsa \in Nat /\ final_lsa \in 1 .. eof /\ ReadTo = final_lsa
         /\ Record = log[final_lsa] /\ Record.type \in PlainType /\ Record.trid \in Tran
         /\ IsRecord(final_lsa, Record.trid)
         /\ Record.type # "DATA" => ~Record.first
         /\ \A t \in Tran : ListOK(repl_lists[t], t, commit_list, final_lsa, committed_rep_lsa,
                                   last_committed_rep_lsa, rejected)
<1>1. /\ final_lsa \in 1 .. eof /\ Record = log[final_lsa] /\ Record \in OwnedRec
      /\ ReadTo = final_lsa
  BY Zenon, AtRecord
<1>2. final_lsa \in Nat /\ final_lsa \in 1 .. Len(log)
  BY Zenon, <1>1, Copied
<1>3. Record.type \in PlainType
  BY Zenon, <1>1, <1>2 DEF PlainInv
<1>4. Record.trid \in Tran
  BY Zenon, <1>1, <1>3 DEF PlainType, OwnedRec, SystemType
<1>5. IsRecord(final_lsa, Record.trid)
  BY Zenon, <1>1 DEF IsRecord
<1>6. Record.type # "DATA" => ~Record.first
  BY Zenon, <1>1, <1>2 DEF PlainInv, FirstInv, FirstOK
<1>7. LoopTran = {}
  BY Zenon DEF LoopTran, InLoop
<1>8. /\ OpenInv(repl_lists, final_lsa, committed_rep_lsa, rejected)
      /\ QueueInv(repl_lists, commit_list, final_lsa)
      /\ HeldInv(repl_lists, {}, final_lsa, committed_rep_lsa, last_committed_rep_lsa, rejected)
  BY Zenon, <1>1, <1>7 DEF UpInv
<1> QED BY Zenon, <1>1, <1>2, <1>3, <1>4, <1>5, <1>6, <1>8, ListsOK

\* A record has been processed.
LEMMA ReadKeeps ==
  ASSUME Inv, Inv', PlainInv, RowInv, UpInv, hdr.ha_server_state \in Live,
         UNCHANGED <<hdr, startVars, committed_rep_lsa, masterVars>>, committed_lsa' = committed_lsa,
         UNCHANGED dbVars, pc = "read", final_lsa <= hdr.eof_lsa,
         ReadTo' = final_lsa + 1, pc' \in {"page", "read", "list"},
         NEW L, L = repl_lists', NEW Q, Q = commit_list',
         \A c \in Q : committed_lsa <= c.log_lsa, TypesInv(Q),
         \A t \in Tran : ListOK(L[t], t, Q, final_lsa + 1, committed_rep_lsa,
                                last_committed_rep_lsa, rejected)
  PROVE  Kept
<1>1. /\ UNCHANGED masterVars /\ hdr' = hdr /\ committed_rep_lsa' = committed_rep_lsa
      /\ last_committed_lsa' = last_committed_lsa /\ eof' = eof
      /\ last_committed_rep_lsa' = last_committed_rep_lsa
      /\ row' = row /\ slave' = slave /\ pending' = pending /\ rejected' = rejected
  BY Zenon DEF dbVars, startVars, masterVars
<1>2. PICK R, C, r, C0, R0, J, s, f, h, it :
        /\ R = final_lsa + 1 /\ f = final_lsa /\ C = committed_lsa
        /\ r = committed_rep_lsa /\ C0 = last_committed_lsa /\ R0 = last_committed_rep_lsa
        /\ J = rejected /\ s = Applied /\ h = Commit' /\ it = item'
  BY Zenon
<1>3. C \in Nat /\ r \in Nat /\ R0 \in Nat /\ f \in Nat /\ ReadTo = f /\ R = f + 1
  BY Zenon, <1>2, NTypes, AtPlainRecord
<1>4. ~InLoop' /\ pc' # "down"
  BY Zenon DEF InLoop
<1>5. LoopTran' = {}
  BY Zenon, <1>4 DEF LoopTran
<1>6. PlaceInv'
  <2>1. /\ R0 <= r /\ (r = R0 \/ r < f) /\ C <= f
        /\ (C0 <= eof \/ C0 <= C) /\ (row.committed_lsa <= C \/ row.committed_lsa <= C0)
    BY Zenon, <1>2, <1>3 DEF UpInv, PlaceInv
  <2>2. (r = R0 \/ r < R) /\ C <= R /\ C < R
    BY <1>3, <2>1
  <2> QED BY Zenon, <1>1, <1>2, <2>1, <2>2 DEF PlaceInv
<1>7. SeqInv(s, r, J) /\ ClaimInv(C, r, J) /\ ClaimInv(C0, r, J)
  BY Zenon, <1>2 DEF UpInv
<1>8. OpenInv(L, R, r, J) /\ QueueInv(L, Q, R) /\ HeldInv(L, {}, R, r, R0, J)
  BY Zenon, <1>2, ListsOK
<1>9. /\ R = ReadTo' /\ C = committed_lsa' /\ r = committed_rep_lsa' /\ C0 = last_committed_lsa'
      /\ R0 = last_committed_rep_lsa' /\ J = rejected' /\ {} = LoopTran'
  BY Zenon, <1>1, <1>2, <1>5
<1>10. s = Applied'
  BY Zenon, <1>1, <1>2 DEF Applied
<1>11. UpInv'
  BY Zenon, <1>1, <1>2, <1>4, <1>6, <1>7, <1>8, <1>9, <1>10, UpCarry
<1>12. RowInv' /\ row.committed_lsa <= row'.committed_lsa
  BY <1>1, RowCarry, NTypes
<1> QED BY Zenon, <1>1, <1>4, <1>11, <1>12 DEF Kept

\* A list that is open holds an item more.
HoldsMore(new, lists, t, R, r, R0, J) ==
  /\ new[t].used /\ new[t].start_lsa = lists[t].start_lsa
  /\ Held(new[t], t, R + 1, r, R0, J)
  /\ \A s \in Tran : s # t => new[s] = lists[s]

\* The three cases of la_set_repl_log.
LEMMA SetHeld ==
  ASSUME SetFacts, NEW lists \in [Tran -> LA_APPLY], NEW t \in Tran, NEW R \in Nat, NEW r \in Nat,
         NEW R0 \in Nat, NEW J, lists[t].used, Held(lists[t], t, R, r, R0, J),
         R <= R0 \/ r < R, NEW new, new = la_set_repl_log(lists, t, R)
  PROVE  HoldsMore(new, lists, t, R, r, R0, J)
<1> DEFINE a == lists[t]
<1>1. a \in LA_APPLY /\ a.items \subseteq Nat
  BY Zenon DEF LA_APPLY, Lsa
<1>2. \A i \in Nat : (i < R + 1 => i <= R /\ (i < R \/ i = R)) /\ (i < R => i < R + 1 /\ i <= R)
  OBVIOUS
<1>3. /\ a.is_long_trans => a.items # {}
      /\ \A k \in a.items : k \in Nat /\ k < R /\ k <= R /\ k < R + 1
      /\ \A i \in Nat : IsItem(i, t) /\ i < R =>
           /\ Done(i, r, J) \/ (Reach(a, i) /\ \E k \in a.items : k <= i)
           /\ i <= R0 \/ r < i
  BY Zenon, <1>1, <1>2 DEF Held
<1>4. CASE a.is_long_trans
  <2>1. new = [lists EXCEPT ![t].last_lsa = R]
    BY Zenon, <1>4 DEF la_set_repl_log
  <2>2. /\ new[t] = [a EXCEPT !.last_lsa = R] /\ \A s \in Tran : s # t => new[s] = lists[s]
    BY Zenon, <2>1
  <2>3. /\ new[t].used = a.used /\ new[t].start_lsa = a.start_lsa /\ new[t].items = a.items
        /\ new[t].is_long_trans = a.is_long_trans /\ new[t].last_lsa = R
    BY Zenon, <1>1, <2>2 DEF LA_APPLY
  <2>4. PICK k \in a.items : TRUE
    BY Zenon, <1>3, <1>4
  <2>5. Held(new[t], t, R + 1, r, R0, J)
    BY Zenon, <1>2, <1>3, <1>4, <2>3, <2>4 DEF Held, Reach
  <2> QED BY Zenon, <2>2, <2>3, <2>5 DEF HoldsMore
<1>5. CASE ~a.is_long_trans /\ Cardinality(a.items) >= LA_MAX_REPL_ITEMS
  <2>1. new = [lists EXCEPT ![t] = [a EXCEPT !.items = {First(a.items)}, !.is_long_trans = TRUE,
                                             !.last_lsa = R]]
    BY Zenon, <1>5 DEF la_set_repl_log
  <2>2. /\ new[t] = [a EXCEPT !.items = {First(a.items)}, !.is_long_trans = TRUE, !.last_lsa = R]
        /\ \A s \in Tran : s # t => new[s] = lists[s]
    BY Zenon, <2>1
  <2>3. /\ new[t].used = a.used /\ new[t].start_lsa = a.start_lsa
        /\ new[t].items = {First(a.items)}
        /\ new[t].is_long_trans = TRUE /\ new[t].last_lsa = R
    BY Zenon, <1>1, <2>2 DEF LA_APPLY
  <2>4. a.items # {}
    <3>1. Cardinality({}) = 0 /\ ~(0 >= LA_MAX_REPL_ITEMS)
      BY LogApplierAssumption DEF SetFacts
    <3> QED BY Zenon, <1>5, <3>1
  <2>5. PICK m \in a.items : m = First(a.items) /\ \A k \in a.items : m <= k
    BY Zenon, <1>1, <2>4, FirstIsLeast
  <2>6. m \in Nat /\ m < R + 1 /\ m <= R
    BY Zenon, <1>3
  <2>7. \A i, k \in Nat : m <= k /\ k <= i => m <= i
    BY <2>6
  <2>8. \A i \in Nat : IsItem(i, t) /\ i < R + 1 =>
          /\ Done(i, r, J) \/ m <= i
          /\ i <= R0 \/ r < i
    BY Zenon, <1>2, <1>3, <2>5, <2>6, <2>7
  <2>9. Held(new[t], t, R + 1, r, R0, J)
    BY Zenon, <1>2, <2>3, <2>5, <2>6, <2>8 DEF Held, Reach
  <2> QED BY Zenon, <2>2, <2>3, <2>9 DEF HoldsMore
<1>6. CASE ~a.is_long_trans /\ ~(Cardinality(a.items) >= LA_MAX_REPL_ITEMS)
  <2>1. new = [lists EXCEPT ![t].items = @ \cup {R}]
    BY Zenon, <1>6 DEF la_set_repl_log
  <2>2. new[t] = [a EXCEPT !.items = a.items \cup {R}] /\ \A s \in Tran : s # t => new[s] = lists[s]
    BY Zenon, <2>1
  <2>3. /\ new[t].used = a.used /\ new[t].start_lsa = a.start_lsa
        /\ new[t].items = a.items \cup {R} /\ new[t].is_long_trans = a.is_long_trans
    BY Zenon, <1>1, <2>2 DEF LA_APPLY
  <2>4. R <= R /\ R < R + 1
    OBVIOUS
  <2>5. Held(new[t], t, R + 1, r, R0, J)
    <3>1. \A k \in a.items \cup {R} : k < R + 1
      BY Zenon, <1>3, <2>4
    <3>2. \A i \in Nat : IsItem(i, t) /\ i < R + 1 =>
            /\ Done(i, r, J) \/ (i \in a.items \cup {R} /\ \E k \in a.items \cup {R} : k <= i)
            /\ i <= R0 \/ r < i
      BY Zenon, <1>2, <1>3, <1>6, <2>4 DEF Reach
    <3> QED BY Zenon, <1>6, <2>3, <3>1, <3>2 DEF Held, Reach
  <2> QED BY Zenon, <2>2, <2>3, <2>5 DEF HoldsMore
<1> QED BY Zenon, <1>4, <1>5, <1>6

\* The first record of a transaction opens its list.
LEMMA ReadData ==
  ASSUME Inv, Inv', CInv, PlainInv, RowInv, UpInv, hdr.ha_server_state \in Live, ProcessData
  PROVE  Kept
<1>1. /\ UNCHANGED <<hdr, startVars, committed_rep_lsa, masterVars>>
      /\ committed_lsa' = committed_lsa /\ UNCHANGED dbVars /\ pc = "read"
      /\ final_lsa <= hdr.eof_lsa /\ Advance /\ repl_lists' = Lists /\ Record.type = "DATA"
      /\ commit_list' = commit_list
  BY Zenon DEF ProcessData, Process
<1>2. PICK R, r, R0, J, L, Q, t, a : /\ R = final_lsa /\ r = committed_rep_lsa
        /\ R0 = last_committed_rep_lsa /\ J = rejected /\ L = repl_lists' /\ Q = commit_list'
        /\ t = Record.trid /\ a = [FreeApply EXCEPT !.used = TRUE, !.start_lsa = final_lsa]
  BY Zenon
<1>3. /\ R \in Nat /\ R \in 1 .. eof /\ Record = log[R] /\ t \in Tran /\ IsRecord(R, t)
      /\ \A s \in Tran : ListOK(repl_lists[s], s, Q, R, r, R0, J)
  BY Zenon, <1>1, <1>2, AtPlainRecord
<1>4. repl_lists \in [Tran -> LA_APPLY]
  BY Zenon, NTypes
<1>5. \A s : ~IsItem(R, s) /\ ~IsUnlock(R, s) /\ (IsFirst(R, s) => s = t /\ Record.first)
  BY Zenon, <1>1, <1>2, <1>3 DEF IsItem, IsUnlock, IsFirst
<1>6. \A s \in Tran : IsFirst(R, s) /\ ~repl_lists[s].used => L[s] = a
  <2> SUFFICES ASSUME Record.first, ~repl_lists[t].used PROVE L[t] = a
    BY Zenon, <1>5
  <2>1. L = [repl_lists EXCEPT ![t] = a]
    BY Zenon, <1>1, <1>2 DEF Lists, la_add_apply_list
  <2> QED BY Zenon, <1>3, <1>4, <2>1
<1>7. \A s \in Tran : ~(IsFirst(R, s) /\ ~repl_lists[s].used) => L[s] = repl_lists[s]
  <2>1. L = repl_lists \/ (L = [repl_lists EXCEPT ![t] = a] /\ Record.first /\ ~repl_lists[t].used)
    BY Zenon, <1>1, <1>2 DEF Lists, la_add_apply_list
  <2>2. Record.first => IsFirst(R, t)
    BY Zenon, <1>2, <1>3 DEF IsFirst
  <2>3. L = [repl_lists EXCEPT ![t] = a] => \A s \in Tran : s # t => L[s] = repl_lists[s]
    BY Zenon, <1>4
  <2> QED BY Zenon, <2>1, <2>2, <2>3
<1>8. \A s \in Tran : ListOK(L[s], s, Q, R + 1, r, R0, J)
  <2> SUFFICES ASSUME NEW s \in Tran PROVE ListOK(L[s], s, Q, R + 1, r, R0, J)
    BY Zenon
  <2>1. CASE ~(IsFirst(R, s) /\ ~repl_lists[s].used)
    <3>1. repl_lists[s] \in LA_APPLY
      BY Zenon, <1>4
    <3> QED BY Zenon, <1>3, <1>5, <1>7, <2>1, <3>1, ListOn
  <2>2. CASE IsFirst(R, s) /\ ~repl_lists[s].used
    <3>1. a.used = TRUE /\ a.start_lsa = R /\ a.items = {} /\ a.is_long_trans = FALSE /\ R < R + 1
      BY <1>2, <1>3 DEF FreeApply
    <3>2. \A i \in Nat : IsRecord(i, s) => ~(i < R)
      <4>1. \A i : IsRecord(i, s) => R <= i
        BY Zenon, <2>2, FirstAlone
      <4> QED BY <1>3, <4>1
    <3>3. \A i \in Nat : (IsItem(i, s) \/ IsUnlock(i, s)) => ~(i < R + 1)
      <4>1. \A i \in Nat : i < R + 1 => i < R \/ i = R
        BY <1>3
      <4>2. \A i \in Nat : (IsItem(i, s) \/ IsUnlock(i, s)) => IsRecord(i, s)
        BY Zenon, Records
      <4> QED BY Zenon, <1>5, <3>2, <4>1, <4>2
    <3>4. Held(a, s, R + 1, r, R0, J)
      BY Zenon, <3>1, <3>3 DEF Held
    <3>5. L[s] = a
      BY Zenon, <1>6, <2>2
    <3> QED BY Zenon, <2>2, <3>1, <3>3, <3>4, <3>5 DEF ListOK
  <2> QED BY Zenon, <2>1, <2>2
<1>9. TypesInv(Q) /\ \A c \in Q : committed_lsa <= c.log_lsa
  BY Zenon, <1>1, <1>2 DEF UpInv, PlaceInv
<1>10. ReadTo' = final_lsa + 1 /\ pc' \in {"page", "read", "list"}
  BY Zenon, <1>1, AdvanceTo, AdvancePc
<1> QED BY Zenon, <1>1, <1>2, <1>8, <1>9, <1>10, ReadKeeps

\* An item goes to the list of its transaction.
LEMMA ReadReplication ==
  ASSUME SetFacts, Inv, Inv', CInv, PlainInv, RowInv, UpInv, hdr.ha_server_state \in Live,
         ProcessReplication
  PROVE  Kept
<1>1. /\ UNCHANGED <<hdr, startVars, committed_rep_lsa, masterVars>>
      /\ committed_lsa' = committed_lsa /\ UNCHANGED dbVars /\ pc = "read"
      /\ final_lsa <= hdr.eof_lsa /\ Advance /\ Record.type = "REPLICATION"
      /\ repl_lists' = la_set_repl_log(Lists, Record.trid, final_lsa)
      /\ commit_list' = commit_list
  BY Zenon DEF ProcessReplication, Process
<1>2. PICK R, r, R0, J, L, Q, t : /\ R = final_lsa /\ r = committed_rep_lsa
        /\ R0 = last_committed_rep_lsa /\ J = rejected /\ L = repl_lists' /\ Q = commit_list'
        /\ t = Record.trid
  BY Zenon
<1>3. /\ R \in Nat /\ R \in 1 .. eof /\ Record = log[R] /\ t \in Tran /\ IsRecord(R, t)
      /\ \A s \in Tran : ListOK(repl_lists[s], s, Q, R, r, R0, J)
      /\ ReadTo = R /\ (Record.type # "DATA" => ~Record.first)
  BY Zenon, <1>1, <1>2, AtPlainRecord
<1>4. repl_lists \in [Tran -> LA_APPLY] /\ r \in Nat /\ R0 \in Nat
  BY Zenon, <1>2, NTypes
<1>5. \A s : ~IsFirst(R, s) /\ ~IsUnlock(R, s) /\ (IsItem(R, s) => s = t)
  BY Zenon, <1>1, <1>2, <1>3 DEF IsItem, IsUnlock, IsFirst
<1>6. IsItem(R, t)
  BY Zenon, <1>1, <1>2, <1>3 DEF IsItem
<1>7. L = la_set_repl_log(repl_lists, t, R)
  <2>1. Lists = repl_lists
    BY Zenon, <1>1, <1>3 DEF Lists
  <2> QED BY Zenon, <1>1, <1>2, <2>1
<1>8. R <= R0 \/ r < R
  <2>1. r = R0 \/ r < R
    BY Zenon, <1>2, <1>3 DEF UpInv, PlaceInv
  <2> QED BY <1>3, <1>4, <2>1
<1>9. \A s \in Tran : ListOK(L[s], s, Q, R + 1, r, R0, J)
  <2>1. CASE ~repl_lists[t].used
    <3>1. L = repl_lists
      BY Zenon, <1>7, <2>1 DEF la_set_repl_log
    <3>2. ASSUME NEW s \in Tran, s # t PROVE ListOK(L[s], s, Q, R + 1, r, R0, J)
      <4>1. repl_lists[s] \in LA_APPLY
        BY Zenon, <1>4
      <4> QED BY Zenon, <1>3, <1>5, <3>1, <3>2, <4>1, ListOn
    <3>3. ListOK(L[t], t, Q, R + 1, r, R0, J)
      <4>1. \A f \in Nat : f < R + 1 => f < R \/ f = R
        BY <1>3
      <4> QED BY Zenon, <1>3, <1>5, <2>1, <3>1, <4>1 DEF ListOK
    <3> QED BY Zenon, <3>2, <3>3
  <2>2. CASE repl_lists[t].used
    <3>1. Held(repl_lists[t], t, R, r, R0, J)
      BY Zenon, <1>3, <2>2 DEF ListOK
    <3>2. /\ L[t].used /\ L[t].start_lsa = repl_lists[t].start_lsa
          /\ Held(L[t], t, R + 1, r, R0, J)
          /\ \A s \in Tran : s # t => L[s] = repl_lists[s]
      <4>1. HoldsMore(L, repl_lists, t, R, r, R0, J)
        BY Zenon, <1>3, <1>4, <1>7, <1>8, <2>2, <3>1, SetHeld
      <4> QED BY Zenon, <4>1 DEF HoldsMore
    <3>3. ASSUME NEW s \in Tran, s # t PROVE ListOK(L[s], s, Q, R + 1, r, R0, J)
      <4>1. repl_lists[s] \in LA_APPLY
        BY <1>4
      <4> QED BY Zenon, <1>3, <1>5, <3>2, <3>3, <4>1, ListOn
    <3>4. ListOK(L[t], t, Q, R + 1, r, R0, J)
      <4>1. \A f \in Nat : (f < R + 1 => f < R \/ f = R) /\ (f < R => f < R + 1)
        BY <1>3
      <4>2. repl_lists[t].start_lsa \in Nat
        BY Zenon, <1>3, <1>4 DEF LA_APPLY, Lsa
      <4> QED BY Zenon, <1>3, <1>5, <2>2, <3>2, <4>1, <4>2 DEF ListOK
    <3> QED BY Zenon, <3>3, <3>4
  <2> QED BY Zenon, <2>1, <2>2
<1>10. TypesInv(Q) /\ \A c \in Q : committed_lsa <= c.log_lsa
  BY Zenon, <1>1, <1>2 DEF UpInv, PlaceInv
<1>11. ReadTo' = final_lsa + 1 /\ pc' \in {"page", "read", "list"}
  BY Zenon, <1>1, AdvanceTo, AdvancePc
<1> QED BY Zenon, <1>1, <1>2, <1>9, <1>10, <1>11, ReadKeeps

\* The end of a transaction gets an entry of the commit list.
LEMMA ReadEnd ==
  ASSUME Inv, Inv', CInv, PlainInv, RowInv, UpInv, hdr.ha_server_state \in Live,
         ProcessUnlockCommit \/ ProcessAbort
  PROVE  Kept
<1>1. /\ UNCHANGED <<hdr, startVars, committed_rep_lsa, masterVars>>
      /\ committed_lsa' = committed_lsa /\ UNCHANGED dbVars /\ pc = "read"
      /\ final_lsa <= hdr.eof_lsa /\ Advance /\ repl_lists' = Lists
      /\ Record.type \in {"UNLOCK_COMMIT", "ABORT"}
      /\ commit_list' = commit_list \cup {CommitEntry(Record.type, Record.trid)}
  BY Zenon DEF ProcessUnlockCommit, ProcessAbort, Process
<1>2. PICK R, r, R0, J, L, Q, t, e : /\ R = final_lsa /\ r = committed_rep_lsa
        /\ R0 = last_committed_rep_lsa /\ J = rejected /\ L = repl_lists' /\ Q = commit_list'
        /\ t = Record.trid /\ e = CommitEntry(Record.type, Record.trid)
  BY Zenon
<1>3. /\ R \in Nat /\ R \in 1 .. eof /\ Record = log[R] /\ t \in Tran /\ IsRecord(R, t)
      /\ \A s \in Tran : ListOK(repl_lists[s], s, commit_list, R, r, R0, J)
      /\ ReadTo = R /\ (Record.type # "DATA" => ~Record.first)
  BY Zenon, <1>1, <1>2, AtPlainRecord
<1>4. repl_lists \in [Tran -> LA_APPLY]
  BY Zenon, NTypes
<1>5. \A s : ~IsFirst(R, s) /\ ~IsItem(R, s)
  BY Zenon, <1>1, <1>2, <1>3 DEF IsItem, IsFirst
<1>6. L = repl_lists
  BY Zenon, <1>1, <1>2, <1>3 DEF Lists
<1>7. /\ e.log_lsa = R /\ e.type = Record.type /\ e.tranid = t /\ e \in Q
      /\ \A c \in Q : c \in commit_list \/ c = e
      /\ \A c \in commit_list : c \in Q
  BY Zenon, <1>1, <1>2 DEF CommitEntry
<1>8. \A s \in Tran : ListOK(L[s], s, Q, R + 1, r, R0, J)
  <2> SUFFICES ASSUME NEW s \in Tran PROVE ListOK(L[s], s, Q, R + 1, r, R0, J)
    BY Zenon
  <2>1. repl_lists[s] \in LA_APPLY
    BY Zenon, <1>4
  <2> QED BY Zenon, <1>3, <1>5, <1>6, <1>7, <2>1, ListOn
<1>9. TypesInv(Q)
  <2>1. /\ e.type # "COMMIT_TOPOPE" /\ e.type # "COMMIT"
        /\ e.type = "ABORT" => log[e.log_lsa].type = "ABORT"
    BY Zenon, <1>1, <1>3, <1>7
  <2>2. TypesInv(commit_list)
    BY Zenon DEF UpInv
  <2> QED BY Zenon, <1>7, <2>1, <2>2 DEF TypesInv
<1>10. \A c \in Q : committed_lsa <= c.log_lsa
  BY Zenon, <1>2, <1>3, <1>7 DEF UpInv, PlaceInv
<1>11. ReadTo' = final_lsa + 1 /\ pc' \in {"page", "read", "list"}
  BY Zenon, <1>1, AdvanceTo, AdvancePc
<1> QED BY Zenon, <1>1, <1>2, <1>8, <1>9, <1>10, <1>11, ReadKeeps

\* The types of the entries after la_set_commit_log, and their addresses.
LEMMA SetEntries ==
  ASSUME NEW list, list \subseteq LA_COMMIT, NEW t,
         NEW new, new = la_set_commit_log(list, t, "COMMIT")
  PROVE  /\ \A c \in list : \E d \in new : d.log_lsa = c.log_lsa
         /\ \A d \in new :
              \/ d \in list
              \/ d.type = "COMMIT" /\ d.tranid = t /\ \E c \in list : d.log_lsa = c.log_lsa
<1> DEFINE Entries == {c \in list : c.tranid = t}
           Last == {c \in Entries : \A d \in Entries : d.log_lsa <= c.log_lsa}
<1>1. new = (list \ Last) \cup {[c EXCEPT !.type = "COMMIT"] : c \in Last}
  BY Zenon DEF la_set_commit_log
<1>2. \A c \in Last : /\ c \in list /\ c.tranid = t
                      /\ [c EXCEPT !.type = "COMMIT"].log_lsa = c.log_lsa
                      /\ [c EXCEPT !.type = "COMMIT"].tranid = c.tranid
                      /\ [c EXCEPT !.type = "COMMIT"].type = "COMMIT"
  BY Zenon DEF LA_COMMIT
<1> HIDE DEF Last
<1>3. ASSUME NEW c \in list PROVE \E d \in new : d.log_lsa = c.log_lsa
  <2>1. CASE c \notin Last
    BY Zenon, <1>1, <2>1
  <2>2. CASE c \in Last
    <3>1. [c EXCEPT !.type = "COMMIT"] \in new
      BY Zenon, <1>1, <2>2
    <3> QED BY Zenon, <1>2, <2>2, <3>1
  <2> QED BY Zenon, <2>1, <2>2
<1>4. ASSUME NEW d \in new
      PROVE  \/ d \in list
             \/ d.type = "COMMIT" /\ d.tranid = t /\ \E c \in list : d.log_lsa = c.log_lsa
  <2> SUFFICES ASSUME d \notin list
               PROVE  d.type = "COMMIT" /\ d.tranid = t /\ \E c \in list : d.log_lsa = c.log_lsa
    BY Zenon
  <2>1. PICK c \in Last : d = [c EXCEPT !.type = "COMMIT"]
    BY Zenon, <1>1
  <2> QED BY Zenon, <1>2, <2>1
<1> QED BY Zenon, <1>3, <1>4

\* The entry at an UNLOCK_COMMIT is the entry of its transaction.
LEMMA EntryOwner ==
  ASSUME Inv, CInv, NEW c \in commit_list, NEW t, IsUnlock(c.log_lsa, t)
  PROVE  c.tranid = t
<1>1. log[c.log_lsa].trid = c.tranid
  BY Zenon DEF CInv, ListInv, EntriesOK, IsEntry
<1> QED BY Zenon, <1>1 DEF IsUnlock

\* The COMMIT marks the entry, or the transaction is over.
LEMMA ReadCommit ==
  ASSUME Inv, Inv', CInv, PlainInv, RowInv, UpInv, hdr.ha_server_state \in Live, ProcessCommit
  PROVE  Kept
<1>1. /\ UNCHANGED <<hdr, startVars, committed_rep_lsa, masterVars>>
      /\ committed_lsa' = committed_lsa /\ UNCHANGED dbVars /\ pc = "read"
      /\ final_lsa <= hdr.eof_lsa /\ Record.type \in {"COMMIT", "COMMIT_TOPOPE"}
  BY Zenon DEF ProcessCommit, Process
<1>2. PICK R, r, R0, J, L, Q, t : /\ R = final_lsa /\ r = committed_rep_lsa
        /\ R0 = last_committed_rep_lsa /\ J = rejected /\ L = repl_lists' /\ Q = commit_list'
        /\ t = Record.trid
  BY Zenon
<1>3. /\ R \in Nat /\ R \in 1 .. eof /\ Record = log[R] /\ t \in Tran /\ IsRecord(R, t)
      /\ \A s \in Tran : ListOK(repl_lists[s], s, commit_list, R, r, R0, J)
      /\ ReadTo = R /\ (Record.type # "DATA" => ~Record.first) /\ Record.type \in PlainType
  BY Zenon, <1>1, <1>2, AtPlainRecord
<1>4. Record.type = "COMMIT"
  BY Zenon, <1>1, <1>3 DEF PlainType
<1>5. repl_lists \in [Tran -> LA_APPLY] /\ commit_list \subseteq LA_COMMIT
  BY Zenon, NTypes
<1>6. \A s : ~IsFirst(R, s) /\ ~IsItem(R, s) /\ ~IsUnlock(R, s)
  BY Zenon, <1>3, <1>4 DEF IsItem, IsFirst, IsUnlock
<1>7. IsCommit(R, t)
  BY Zenon, <1>2, <1>3, <1>4 DEF IsCommit
<1>8. \A s \in Tran : repl_lists[s] \in LA_APPLY
  BY Zenon, <1>5
<1>9. TypesInv(commit_list) /\ \A c \in commit_list : committed_lsa <= c.log_lsa
  BY Zenon DEF UpInv, PlaceInv
<1>10. CASE /\ commit_list' = la_set_commit_log(commit_list, t, "COMMIT")
            /\ repl_lists' = Lists /\ pc' = "list" /\ final_lsa' = final_lsa
  <2>1. L = repl_lists
    BY Zenon, <1>2, <1>3, <1>4, <1>10 DEF Lists
  <2>2. /\ \A c \in commit_list : \E d \in Q : d.log_lsa = c.log_lsa
        /\ \A d \in Q :
             \/ d \in commit_list
             \/ d.type = "COMMIT" /\ d.tranid = t /\ \E c \in commit_list : d.log_lsa = c.log_lsa
    <3>1. Q = la_set_commit_log(commit_list, t, "COMMIT")
      BY Zenon, <1>2, <1>10
    <3> QED BY <1>5, <3>1, SetEntries
  <2>3. \A s \in Tran : ListOK(L[s], s, Q, R + 1, r, R0, J)
    <3> SUFFICES ASSUME NEW s \in Tran PROVE ListOK(L[s], s, Q, R + 1, r, R0, J)
      OBVIOUS
    <3>1. \A p \in Nat : IsUnlock(p, s) /\ (\E c \in commit_list : c.log_lsa = p) =>
                           \E d \in Q : d.log_lsa = p
      BY Zenon, <2>2
    <3> QED BY Zenon, <1>3, <1>6, <1>8, <2>1, <3>1, ListOn
  <2>4. TypesInv(Q)
    BY Zenon, <1>3, <1>7, <1>9, <2>2 DEF TypesInv
  <2>5. \A c \in Q : committed_lsa <= c.log_lsa
    BY Zenon, <1>9, <2>2
  <2>6. ReadTo' = final_lsa + 1
    BY Zenon, <1>10 DEF ReadTo, Applying
  <2>7. pc' \in {"page", "read", "list"}
    BY Zenon, <1>10
  <2> QED BY Zenon, <1>1, <1>2, <2>3, <2>4, <2>5, <2>6, <2>7, ReadKeeps
<1>11. CASE /\ final_lsa <= committed_lsa \/ \A c \in commit_list : c.tranid # t
            /\ la_free_repl_items_by_tranid(commit_list, t) /\ Advance
  <2>1. L = [repl_lists EXCEPT ![t] = FreeApply] /\ Q = {c \in commit_list : c.tranid # t}
    BY Zenon, <1>2, <1>11 DEF la_free_repl_items_by_tranid
  <2>2. L[t] = FreeApply /\ \A s \in Tran : s # t => L[s] = repl_lists[s]
    BY Zenon, <1>3, <1>5, <2>1
  <2>3. ~repl_lists[t].used
    <3>1. ASSUME R <= committed_lsa PROVE ~repl_lists[t].used
      <4>1. committed_lsa < R \/ \A s \in Tran : ~repl_lists[s].used
        BY Zenon, <1>3 DEF UpInv, PlaceInv
      <4>2. ~(committed_lsa < R)
        BY <1>3, <3>1, NTypes
      <4> QED BY Zenon, <1>3, <4>1, <4>2
    <3>2. ASSUME \A c \in commit_list : c.tranid # t PROVE ~repl_lists[t].used
      <4>1. PICK p \in Nat : IsUnlock(p, t) /\ p < R
        BY Zenon, <1>7, CommitUnlocked DEF CInv
      <4>2. ASSUME NEW c \in commit_list PROVE c.log_lsa # p
        BY Zenon, <3>2, <4>1, <4>2, EntryOwner
      <4> QED BY Zenon, <1>3, <4>1, <4>2 DEF ListOK
    <3> QED BY Zenon, <1>2, <1>11, <3>1, <3>2
  <2>4. ASSUME NEW s \in Tran, s # t PROVE ListOK(L[s], s, Q, R + 1, r, R0, J)
    <3>1. ASSUME NEW p \in Nat, IsUnlock(p, s), NEW c \in commit_list, c.log_lsa = p
          PROVE  \E d \in Q : d.log_lsa = p
      <4>1. c.tranid = s
        BY Zenon, <3>1, EntryOwner
      <4>2. c \in Q
        BY Zenon, <2>1, <2>4, <4>1
      <4> QED BY Zenon, <3>1, <4>2
    <3>2. \A p \in Nat : IsUnlock(p, s) /\ (\E c \in commit_list : c.log_lsa = p) =>
                           \E d \in Q : d.log_lsa = p
      BY Zenon, <3>1
    <3>3. L[s] = repl_lists[s]
      BY Zenon, <2>2, <2>4
    <3> QED BY Zenon, <1>3, <1>6, <1>8, <3>2, <3>3, ListOn
  <2>5. ListOK(L[t], t, Q, R + 1, r, R0, J)
    <3>1. \A f \in Nat : f < R + 1 => f < R \/ f = R
      BY <1>3
    <3>2. \A f \in Nat : IsFirst(f, t) /\ f < R + 1 => Over(t, r, J)
      BY Zenon, <1>3, <1>6, <2>3, <3>1 DEF ListOK
    <3>3. ~L[t].used
      BY <2>2 DEF FreeApply
    <3> QED BY Zenon, <3>2, <3>3 DEF ListOK
  <2>6. \A s \in Tran : ListOK(L[s], s, Q, R + 1, r, R0, J)
    BY Zenon, <2>4, <2>5
  <2>7. \A c \in Q : c \in commit_list
    BY Zenon, <2>1
  <2>8. TypesInv(Q) /\ \A c \in Q : committed_lsa <= c.log_lsa
    BY Zenon, <1>9, <2>7 DEF TypesInv
  <2>9. ReadTo' = final_lsa + 1 /\ pc' \in {"page", "read", "list"}
    BY Zenon, <1>11, AdvanceTo, AdvancePc
  <2> QED BY Zenon, <1>1, <1>2, <2>6, <2>8, <2>9, ReadKeeps
<1> QED
  BY Zenon, <1>2, <1>4, <1>10, <1>11 DEF ProcessCommit

\* The records that a plain log does not have.
LEMMA NotRead ==
  ASSUME Inv, PlainInv, UpInv, ProcessCrashRecovery \/ ProcessHaServerState
  PROVE  FALSE
<1>1. /\ pc = "read" /\ final_lsa <= hdr.eof_lsa
      /\ Record.type \in {"DUMMY_CRASH_RECOVERY", "DUMMY_HA_SERVER_STATE"}
  BY Zenon DEF ProcessCrashRecovery, ProcessHaServerState, Process
<1>2. Record.type \in PlainType
  BY Zenon, <1>1, AtPlainRecord
<1> QED BY Zenon, <1>1, <1>2 DEF PlainType

-----------------------------------------------------------------------------
(* The head of the commit list.                                            *)

\* The head's place.
LEMMA HeadAt ==
  ASSUME SetFacts, Inv, CInv, UpInv, commit_list # {}
  PROVE  /\ Commit \in commit_list /\ Commit.tranid \in Tran /\ Commit.log_lsa \in Nat
         /\ Commit.log_lsa < ReadTo /\ committed_lsa <= Commit.log_lsa
         /\ \A d \in commit_list : Commit.log_lsa <= d.log_lsa
         /\ IsEntry(Commit)
<1>1. /\ Commit \in commit_list /\ Commit.tranid \in Tran /\ Commit.log_lsa \in Nat
  BY Zenon, CommitTyped
<1>2. \A d \in commit_list : Commit.log_lsa <= d.log_lsa
  BY Zenon, CommitOldest
<1>3. Commit.log_lsa < ReadTo /\ IsEntry(Commit)
  BY Zenon, <1>1 DEF CInv, ListInv, EntriesOK
<1>4. committed_lsa <= Commit.log_lsa
  BY Zenon, <1>1 DEF UpInv, PlaceInv
<1> QED BY Zenon, <1>1, <1>2, <1>3, <1>4

\* Every other transaction with an UNLOCK_COMMIT before the head's is over.
LEMMA OlderOver ==
  ASSUME SetFacts, Inv, CInv, PlainInv, UpInv, commit_list # {}, NEW s \in Tran, s # Commit.tranid,
         NEW q, IsUnlock(q, s), q <= Commit.log_lsa
  PROVE  ~repl_lists[s].used /\ Over(s, committed_rep_lsa, rejected)
<1>1. PICK p \in Nat : p = Commit.log_lsa
  BY Zenon, HeadAt
<1>2. q \in Nat /\ IsRecord(q, s) /\ ReadTo \in Nat
  BY Zenon, Records, NTypes
<1>3. p < ReadTo /\ q < ReadTo
  BY <1>1, <1>2, HeadAt
<1>4. ~repl_lists[s].used
  <2> SUFFICES ASSUME repl_lists[s].used PROVE FALSE
    BY Zenon
  <2>1. PICK c \in commit_list : c.log_lsa = q
    BY Zenon, <1>2, <1>3 DEF UpInv, QueueInv
  <2>2. p <= q
    BY Zenon, <1>1, <2>1, HeadAt
  <2>3. q = p
    BY <1>1, <1>2, <2>2
  <2>4. IsUnlock(Commit.log_lsa, s) /\ Commit \in commit_list
    BY Zenon, <1>1, <2>3, HeadAt
  <2> QED BY Zenon, <2>4, EntryOwner
<1>5. PICK f \in Nat : IsFirst(f, s) /\ f <= q
  BY Zenon, <1>2, HasFirst
<1>6. f < ReadTo
  BY <1>2, <1>3, <1>5
<1> QED BY Zenon, <1>4, <1>5, <1>6 DEF UpInv, OpenInv

\* The head has been consumed: the entry is unlinked and the list freed.
LEMMA Dequeued ==
  ASSUME SetFacts, Inv, Inv', CInv, PlainInv, UpInv, UNCHANGED masterVars, commit_list # {}, Applying,
         pc' = "list", final_lsa' = final_lsa, UNCHANGED startVars, row' = row,
         committed_lsa' = Commit.log_lsa, commit_list' = commit_list \ {Commit},
         NEW L, L = repl_lists', ~L[Commit.tranid].used,
         \A s \in Tran : s # Commit.tranid => L[s] = repl_lists[s],
         NEW r1, r1 = committed_rep_lsa', NEW J1, J1 = rejected', NEW S1, S1 = Applied',
         committed_rep_lsa <= r1, rejected \subseteq J1, last_committed_rep_lsa <= r1,
         r1 = last_committed_rep_lsa \/ r1 < ReadTo,
         Over(Commit.tranid, r1, J1), SeqInv(S1, r1, J1),
         HeldInv(L, {Commit.tranid}, ReadTo, r1, last_committed_rep_lsa, J1)
  PROVE  UpInv'
<1>1. /\ last_committed_lsa' = last_committed_lsa /\ eof' = eof
      /\ last_committed_rep_lsa' = last_committed_rep_lsa
  BY Zenon DEF startVars, masterVars
<1>2. ReadTo' = ReadTo
  BY Zenon DEF ReadTo, Applying
<1>3. PICK Q, R, C, r, C0, R0, J, h, it, t, p :
        /\ Q = commit_list' /\ R = ReadTo /\ C = committed_lsa /\ p = Commit.log_lsa
        /\ r = committed_rep_lsa /\ C0 = last_committed_lsa /\ R0 = last_committed_rep_lsa
        /\ J = rejected /\ h = Commit' /\ it = item' /\ t = Commit.tranid
  BY Zenon
<1>4. /\ C \in Nat /\ r \in Nat /\ R0 \in Nat /\ C0 \in Nat /\ R \in Nat /\ r1 \in Nat
      /\ p \in Nat /\ t \in Tran /\ p < R /\ C <= p /\ row.committed_lsa \in Nat
  <2>1. committed_rep_lsa' \in Nat
    BY Zenon DEF Inv, TypeOK, PositionTypeOK, Lsa
  <2> QED BY Zenon, <1>3, <2>1, NTypes, HeadAt
<1>5. ~InLoop' /\ LoopTran' = {}
  BY Zenon DEF InLoop, LoopTran
<1>6. \A c \in Q : c \in commit_list /\ c # Commit
  BY Zenon, <1>3
<1>7. PlaceInv'
  <2>1. /\ C0 <= eof \/ C0 <= C
        /\ row.committed_lsa <= C \/ row.committed_lsa <= C0
    BY Zenon, <1>3 DEF UpInv, PlaceInv
  <2>2. /\ C0 <= eof \/ C0 <= p
        /\ row.committed_lsa <= p \/ row.committed_lsa <= C0
        /\ p <= R
    <3>1. p <= R /\ \A x \in Nat : x <= C => x <= p
      BY <1>4
    <3> QED BY Zenon, <1>4, <2>1, <3>1
  <2>3. \A c \in Q : p <= c.log_lsa
    BY Zenon, <1>3, <1>6, HeadAt
  <2>4. committed_lsa' = p
    BY Zenon, <1>3
  <2> QED BY Zenon, <1>1, <1>2, <1>3, <1>4, <2>2, <2>3, <2>4 DEF PlaceInv
<1>8. /\ \A s : Over(s, r, J) => Over(s, r1, J1)
      /\ ClaimInv(C0, r, J) => ClaimInv(C0, r1, J1)
      /\ OpenInv(repl_lists, R, r, J) => OpenInv(repl_lists, R, r1, J1)
  BY Zenon, <1>3, <1>4, Grows
<1>9. ClaimInv(C0, r1, J1) /\ OpenInv(repl_lists, R, r1, J1)
  BY Zenon, <1>3, <1>8 DEF UpInv
<1>10. ClaimInv(p, r1, J1)
  <2>1. ASSUME NEW q \in Nat, NEW s \in Tran, IsUnlock(q, s), q <= p, s # t
        PROVE  AllDone(s, r1, J1)
    <3>1. Over(s, r, J)
      BY Zenon, <1>3, <2>1, OlderOver
    <3> QED BY Zenon, <1>8, <3>1 DEF Over
  <2>2. AllDone(t, r1, J1)
    BY Zenon, <1>3 DEF Over
  <2> QED BY Zenon, <2>1, <2>2 DEF ClaimInv
<1>11. OpenInv(L, R, r1, J1)
  <2> SUFFICES ASSUME NEW s \in Tran
               PROVE  /\ L[s].used => IsFirst(L[s].start_lsa, s) /\ L[s].start_lsa < R
                      /\ ~L[s].used => \A f \in Nat : IsFirst(f, s) /\ f < R => Over(s, r1, J1)
    BY Zenon DEF OpenInv
  <2>1. CASE s = t
    BY Zenon, <1>3, <2>1
  <2>2. CASE s # t
    <3>1. L[s] = repl_lists[s]
      BY Zenon, <1>3, <2>2
    <3> QED BY Zenon, <1>9, <3>1 DEF OpenInv
  <2> QED BY Zenon, <2>1, <2>2
<1>12. QueueInv(L, Q, R)
  <2> SUFFICES ASSUME NEW s \in Tran, NEW q \in Nat, L[s].used, IsUnlock(q, s), q < R
               PROVE  \E c \in Q : c.log_lsa = q
    BY Zenon DEF QueueInv
  <2>1. s # t
    BY Zenon, <1>3
  <2>2. repl_lists[s].used
    BY Zenon, <1>3, <2>1
  <2>3. PICK c \in commit_list : c.log_lsa = q
    BY Zenon, <1>3, <2>2 DEF UpInv, QueueInv
  <2>4. c.tranid = s
    BY Zenon, <2>3, EntryOwner
  <2>5. c \in Q
    BY Zenon, <1>3, <2>1, <2>4
  <2> QED BY Zenon, <2>3, <2>5
<1>13. TypesInv(Q)
  BY Zenon, <1>6 DEF UpInv, TypesInv
<1>14. HeldInv(L, {}, R, r1, R0, J1)
  <2>1. ASSUME NEW s \in Tran, L[s].used PROVE s \in Tran \ {Commit.tranid}
    BY Zenon, <2>1
  <2> QED BY Zenon, <1>3, <2>1 DEF HeldInv
<1>15. /\ Q = commit_list' /\ R = ReadTo' /\ p = committed_lsa' /\ C0 = last_committed_lsa'
       /\ R0 = last_committed_rep_lsa' /\ {} = LoopTran'
  BY Zenon, <1>1, <1>2, <1>3, <1>5
<1> QED BY Zenon, <1>3, <1>5, <1>7, <1>9, <1>10, <1>11, <1>12, <1>13, <1>14, <1>15, UpCarry

\* The head ends its transaction.
LEMMA HeadEnds ==
  ASSUME SetFacts, Inv, CInv, PlainInv, UpInv, commit_list # {}
  PROVE  /\ IsEnd(Commit.log_lsa, Commit.tranid) /\ IsRecord(Commit.log_lsa, Commit.tranid)
         /\ \A i : IsItem(i, Commit.tranid) => i \in Nat /\ i < ReadTo
         /\ \/ IsUnlock(Commit.log_lsa, Commit.tranid)
            \/ \A i : ~IsItem(i, Commit.tranid)
<1>1. PICK p, t : p = Commit.log_lsa /\ t = Commit.tranid
  BY Zenon
<1>2. /\ p \in 1 .. eof /\ log[p].trid = t /\ p \in Nat /\ p < ReadTo /\ ReadTo \in Nat
      /\ log[p].type \in {"UNLOCK_COMMIT", "ABORT", "COMMIT_TOPOPE"}
  BY Zenon, <1>1, HeadAt, NTypes DEF IsEntry
<1>3. log[p].type \in PlainType
  BY Zenon, <1>2, Copied DEF PlainInv
<1>4. log[p].type \in {"UNLOCK_COMMIT", "ABORT"}
  BY Zenon, <1>2, <1>3 DEF PlainType
<1>5. IsEnd(p, t)
  BY Zenon, <1>2, <1>4 DEF IsEnd
<1>6. IsRecord(p, t)
  BY Zenon, <1>5, Records
<1>7. CASE log[p].type = "ABORT"
  BY Zenon, <1>1, <1>5, <1>6, <1>7, AbortEmpty
<1>8. CASE log[p].type = "UNLOCK_COMMIT"
  <2>1. IsUnlock(p, t)
    BY Zenon, <1>2, <1>8 DEF IsUnlock
  <2>2. \A i : IsItem(i, t) => i < p /\ IsRecord(i, t)
    BY Zenon, <2>1, OneUnlock, Records DEF CInv
  <2>3. \A i : IsItem(i, t) => i \in Nat /\ i < p
    BY Zenon, <2>2, Records
  <2>4. \A i \in Nat : i < p => i < ReadTo
    BY <1>2
  <2> QED BY Zenon, <1>1, <1>5, <1>6, <2>1, <2>3, <2>4
<1> QED BY Zenon, <1>4, <1>7, <1>8

\* The head is passed over.
LEMMA SkipStep ==
  ASSUME SetFacts, Inv, Inv', CInv, PlainInv, RowInv, UpInv, hdr.ha_server_state \in Live, ApplySkip
  PROVE  Kept
<1>1. /\ pc = "list" /\ HeadReady /\ NothingToApply /\ Dequeue
      /\ hdr' = hdr /\ final_lsa' = final_lsa /\ committed_rep_lsa' = committed_rep_lsa
      /\ UNCHANGED startVars /\ UNCHANGED masterVars
      /\ row' = row /\ slave' = slave /\ pending' = pending /\ rejected' = rejected
  BY Zenon DEF ApplySkip, dbVars
<1>2. /\ commit_list # {} /\ Commit.type # "UNLOCK_COMMIT" /\ pc' = "list"
      /\ committed_lsa' = Commit.log_lsa /\ commit_list' = commit_list \ {Commit}
  BY Zenon, <1>1 DEF HeadReady, Dequeue
<1>3. PICK L, t, a, r, J, s, p, R, R0 :
        /\ L = repl_lists' /\ t = Commit.tranid /\ a = repl_lists[Commit.tranid]
        /\ r = committed_rep_lsa /\ J = rejected /\ s = Applied /\ p = Commit.log_lsa
        /\ R = ReadTo /\ R0 = last_committed_rep_lsa
  BY Zenon
<1>4. t \in Tran /\ Commit \in commit_list /\ p < R
  BY Zenon, <1>2, <1>3, HeadAt
<1>5. Commit.type # "COMMIT_TOPOPE" /\ (Commit.type = "ABORT" => log[p].type = "ABORT")
  BY Zenon, <1>3, <1>4 DEF UpInv, TypesInv
<1>6. repl_lists \in [Tran -> LA_APPLY] /\ r \in Nat /\ R0 \in Nat /\ p \in Nat /\ R \in Nat
  BY Zenon, <1>2, <1>3, NTypes, HeadAt
<1>7. (L = repl_lists /\ ~a.used) \/ L = [repl_lists EXCEPT ![t] = FreeApply]
  BY Zenon, <1>3, <1>5 DEF ApplySkip, AfterCommit
<1>8. ~L[t].used /\ \A u \in Tran : u # t => L[u] = repl_lists[u]
  <2>1. ~FreeApply.used
    BY Zenon DEF FreeApply
  <2>2. L = [repl_lists EXCEPT ![t] = FreeApply] =>
          L[t] = FreeApply /\ \A u \in Tran : u # t => L[u] = repl_lists[u]
    BY Zenon, <1>4, <1>6
  <2> QED BY Zenon, <1>3, <1>7, <2>1, <2>2
<1>9. LoopTran = {} /\ Applying
  BY Zenon, <1>1 DEF LoopTran, InLoop, Applying
<1>10. /\ HeldInv(repl_lists, {}, R, r, R0, J) /\ OpenInv(repl_lists, R, r, J)
       /\ ClaimInv(last_committed_lsa, r, J) /\ SeqInv(s, r, J)
       /\ R0 <= r /\ (r = R0 \/ r < R)
  BY Zenon, <1>3, <1>9 DEF UpInv, PlaceInv
<1>11. /\ IsEnd(p, t) /\ IsRecord(p, t) /\ \A i : IsItem(i, t) => i \in Nat /\ i < R
       /\ IsUnlock(p, t) \/ \A i : ~IsItem(i, t)
  BY Zenon, <1>2, <1>3, HeadEnds
<1>12. Over(t, r, J)
  <2>1. CASE ~a.used
    <3>1. PICK f \in Nat : IsFirst(f, t) /\ f <= p
      BY Zenon, <1>11, HasFirst
    <3>2. f < R
      BY <1>4, <1>6, <3>1
    <3> QED BY Zenon, <1>3, <1>4, <1>10, <2>1, <3>1, <3>2 DEF OpenInv
  <2>2. CASE \A i : ~IsItem(i, t)
    BY Zenon, <1>6, <1>11, <2>2 DEF Over, AllDone
  <2>3. CASE a.used /\ a.items = {}
    <3>1. t \in Tran \ {}
      BY Zenon, <1>4
    <3>2. Held(a, t, R, r, R0, J)
      BY Zenon, <1>3, <1>10, <2>3, <3>1 DEF HeldInv
    <3>3. \A k : k \notin a.items
      BY Zenon, <2>3
    <3>4. \A i \in Nat : IsItem(i, t) => Done(i, r, J)
      BY Zenon, <1>11, <3>2, <3>3 DEF Held
    <3> QED BY Zenon, <1>6, <1>11, <3>4 DEF Over, AllDone
  <2>4. CASE IsUnlock(p, t) /\ p <= last_committed_lsa
    BY Zenon, <1>4, <1>6, <1>10, <1>11, <2>4 DEF Over, ClaimInv
  <2>5. Commit.type = "ABORT" => \A i : ~IsItem(i, t)
    BY Zenon, <1>5, <1>11, AbortEmpty
  <2> QED BY Zenon, <1>1, <1>3, <1>11, <2>1, <2>2, <2>3, <2>4, <2>5 DEF NothingToApply
<1>13. HeldInv(L, {t}, R, r, R0, J)
  <2> SUFFICES ASSUME NEW u \in Tran \ {t}, L[u].used PROVE Held(L[u], u, R, r, R0, J)
    BY Zenon DEF HeldInv
  <2>1. u \in Tran \ {} /\ L[u] = repl_lists[u]
    BY Zenon, <1>8
  <2> QED BY Zenon, <1>10, <2>1 DEF HeldInv
<1>14. s = Applied' /\ r = committed_rep_lsa' /\ J = rejected' /\ J \subseteq J /\ r <= r
  BY <1>1, <1>3, <1>6 DEF Applied
<1>15. UpInv'
  <2>1. /\ Over(Commit.tranid, r, J) /\ HeldInv(L, {Commit.tranid}, ReadTo, r, last_committed_rep_lsa, J)
        /\ last_committed_rep_lsa <= r /\ (r = last_committed_rep_lsa \/ r < ReadTo)
        /\ committed_rep_lsa <= r /\ rejected \subseteq J
        /\ ~L[Commit.tranid].used /\ \A u \in Tran : u # Commit.tranid => L[u] = repl_lists[u]
    BY Zenon, <1>3, <1>8, <1>10, <1>12, <1>13, <1>14
  <2> QED BY Zenon, <1>1, <1>2, <1>3, <1>9, <1>10, <1>14, <2>1, Dequeued
<1>16. RowInv' /\ row.committed_lsa <= row'.committed_lsa
  BY <1>1, RowCarry, NTypes
<1>17. pc' # "down"
  BY Zenon, <1>2
<1> QED BY Zenon, <1>1, <1>15, <1>16, <1>17 DEF Kept

\* The head's items are applied, from the first on.
LEMMA FirstStep ==
  ASSUME SetFacts, Inv, Inv', CInv, PlainInv, RowInv, UpInv, hdr.ha_server_state \in Live, ApplyFirst
  PROVE  Kept
<1>1. /\ pc = "list" /\ HeadReady /\ ~NothingToApply /\ pc' = "item"
      /\ item' = First(repl_lists[Commit.tranid].items)
      /\ hdr' = hdr /\ final_lsa' = final_lsa /\ committed_rep_lsa' = committed_rep_lsa
      /\ committed_lsa' = committed_lsa /\ UNCHANGED startVars /\ UNCHANGED masterVars
      /\ repl_lists' = repl_lists /\ commit_list' = commit_list
      /\ row' = row /\ slave' = slave /\ pending' = pending /\ rejected' = rejected
  BY Zenon DEF ApplyFirst, dbVars, listVars
<1>2. /\ commit_list # {} /\ Commit.type # "UNLOCK_COMMIT" /\ Commit.type # "ABORT"
      /\ repl_lists[Commit.tranid].used /\ repl_lists[Commit.tranid].items # {}
  BY Zenon, <1>1 DEF HeadReady, NothingToApply
<1>3. PICK L, Q, R, C, r, C0, R0, J, s, h, it, t, a :
        /\ L = repl_lists /\ Q = commit_list /\ R = ReadTo /\ C = committed_lsa
        /\ r = committed_rep_lsa /\ C0 = last_committed_lsa /\ R0 = last_committed_rep_lsa
        /\ J = rejected /\ s = Applied /\ h = Commit /\ it = item' /\ t = Commit.tranid
        /\ a = repl_lists[Commit.tranid]
  BY Zenon
<1>4. t \in Tran /\ h \in Q /\ h \in LA_COMMIT /\ a \in LA_APPLY
  BY Zenon, <1>2, <1>3, CommitTyped, NTypes
<1>5. h.type = "COMMIT"
  <2>1. h.type # "COMMIT_TOPOPE"
    BY Zenon, <1>3, <1>4 DEF UpInv, TypesInv
  <2> QED BY Zenon, <1>2, <1>3, <1>4, <2>1 DEF LA_COMMIT
<1>6. a.items \subseteq Nat /\ a.items # {} /\ it = First(a.items)
  BY Zenon, <1>1, <1>2, <1>3, <1>4 DEF LA_APPLY, Lsa
<1>7. it \in a.items /\ it \in Nat /\ \A k \in a.items : it <= k
  BY Zenon, <1>6, FirstIsLeast
<1>8. IsItem(it, t)
  BY Zenon, <1>3, <1>4, <1>7 DEF CInv, ListInv, ItemsOK
<1>9. LoopTran = {} /\ Applying /\ InLoop' /\ Applying'
  BY Zenon, <1>1 DEF LoopTran, InLoop, Applying
<1>10. ReadTo' = R /\ Commit' = h /\ Applied' = s
  BY Zenon, <1>1, <1>3, <1>9 DEF ReadTo, Commit, Applied
<1>11. LoopTran' = {t}
  BY Zenon, <1>3, <1>9, <1>10 DEF LoopTran
<1>12. /\ SeqInv(s, r, J) /\ ClaimInv(C, r, J) /\ ClaimInv(C0, r, J) /\ OpenInv(L, R, r, J)
       /\ QueueInv(L, Q, R) /\ TypesInv(Q) /\ HeldInv(L, {}, R, r, R0, J) /\ PlaceInv
  BY Zenon, <1>3, <1>9 DEF UpInv
<1>13. last_committed_lsa' = C0 /\ last_committed_rep_lsa' = R0 /\ eof' = eof
  BY Zenon, <1>1, <1>3 DEF startVars, masterVars
<1>14. PlaceInv'
  BY Zenon, <1>1, <1>3, <1>10, <1>12, <1>13 DEF PlaceInv
<1>15. HeldInv(L, {t}, R, r, R0, J)
  <2>1. \A u \in Tran \ {t} : u \in Tran \ {}
    BY Zenon
  <2> QED BY Zenon, <1>12, <2>1 DEF HeldInv
<1>16. HeldFrom(a, t, it, R, r, R0, J)
  <2>1. t \in Tran \ {}
    BY Zenon, <1>4
  <2>2. Held(a, t, R, r, R0, J)
    BY Zenon, <1>2, <1>3, <1>12, <2>1 DEF HeldInv
  <2>3. \A i \in Nat, k \in a.items : k <= i => i = it \/ it < i
    BY <1>6, <1>7
  <2> QED BY Zenon, <2>2, <2>3 DEF Held, HeldFrom
<1>17. LoopHeld(L, h, it, R, r, R0, J)
  BY Zenon, <1>2, <1>3, <1>5, <1>8, <1>16 DEF LoopHeld
<1>18. pc' # "put" /\ pc' # "down"
  BY Zenon, <1>1
<1>19. UpInv'
  <2>1. /\ L = repl_lists' /\ Q = commit_list' /\ R = ReadTo' /\ C = committed_lsa'
        /\ r = committed_rep_lsa' /\ C0 = last_committed_lsa' /\ R0 = last_committed_rep_lsa'
        /\ J = rejected' /\ s = Applied' /\ {t} = LoopTran' /\ h = Commit' /\ it = item'
    BY Zenon, <1>1, <1>3, <1>10, <1>11, <1>13
  <2> QED BY Zenon, <1>1, <1>12, <1>14, <1>15, <1>17, <1>18, <2>1, UpCarry
<1>20. RowInv' /\ row.committed_lsa <= row'.committed_lsa
  BY <1>1, RowCarry, NTypes
<1> QED BY Zenon, <1>1, <1>18, <1>19, <1>20 DEF Kept

-----------------------------------------------------------------------------
(* The item loop.                                                          *)

\* Where the item loop is.
LEMMA LoopFacts ==
  ASSUME SetFacts, Inv, CInv, PlainInv, UpInv, InLoop
  PROVE  /\ commit_list # {} /\ Applying /\ Commit.type = "COMMIT" /\ IsItem(item, Commit.tranid)
         /\ repl_lists[Commit.tranid].used /\ LoopTran = {Commit.tranid}
         /\ Commit.tranid \in Tran /\ repl_lists[Commit.tranid] \in LA_APPLY
         /\ IsUnlock(Commit.log_lsa, Commit.tranid) /\ item < Commit.log_lsa
         /\ committed_lsa < ReadTo
         /\ HeldFrom(repl_lists[Commit.tranid], Commit.tranid, item, ReadTo, committed_rep_lsa,
                     last_committed_rep_lsa, rejected)
         /\ \E q \in Nat : IsCommit(q, Commit.tranid)
<1>1. commit_list # {} /\ Applying
  BY Zenon DEF Inv, ReaderInv, InLoop, Applying
<1>2. /\ Commit.type = "COMMIT" /\ IsItem(item, Commit.tranid) /\ repl_lists[Commit.tranid].used
      /\ HeldFrom(repl_lists[Commit.tranid], Commit.tranid, item, ReadTo, committed_rep_lsa,
                  last_committed_rep_lsa, rejected)
  BY Zenon DEF UpInv, LoopPlace, LoopHeld
<1>3. LoopTran = {Commit.tranid}
  BY Zenon DEF LoopTran
<1>4. Commit \in commit_list /\ Commit.tranid \in Tran /\ repl_lists[Commit.tranid] \in LA_APPLY
  BY Zenon, <1>1, CommitTyped
<1>5. IsUnlock(Commit.log_lsa, Commit.tranid)
  BY Zenon, <1>1, <1>2, HeadEnds
<1>6. item < Commit.log_lsa
  BY Zenon, <1>2, <1>5, OneUnlock DEF CInv
<1>7. committed_lsa < ReadTo
  BY Zenon, <1>2, <1>4 DEF UpInv, PlaceInv
<1>8. \E q \in Nat : IsCommit(q, Commit.tranid)
  BY Zenon, <1>2, <1>4 DEF UpInv, TypesInv
<1> QED BY Zenon, <1>1, <1>2, <1>3, <1>4, <1>5, <1>6, <1>7, <1>8

\* No COMMIT or ABORT of a transaction lies before one of its items.
LEMMA ItemsFirst ==
  ASSUME Inv, LogShape, PlainInv, NEW i, NEW t, IsItem(i, t), NEW k \in Nat, k \in 1 .. i,
         log[k].trid = t
  PROVE  log[k].type \notin {"COMMIT", "ABORT"}
<1>1. i \in Nat /\ i <= eof /\ eof \in Nat
  BY Zenon, Records, NTypes
<1>2. k \in 1 .. eof /\ k <= i
  BY <1>1
<1>3. log[k].type # "ABORT"
  <2>1. log[k].type = "ABORT" => IsEnd(k, t)
    BY Zenon, <1>2 DEF IsEnd
  <2> QED BY Zenon, <2>1, AbortEmpty
<1>4. ASSUME log[k].type = "COMMIT" PROVE FALSE
  <2>1. IsCommit(k, t)
    BY Zenon, <1>2, <1>4 DEF IsCommit
  <2>2. PICK p \in Nat : IsUnlock(p, t) /\ p < k
    BY Zenon, <2>1, CommitUnlocked
  <2>3. i < p
    BY Zenon, <2>2, OneUnlock
  <2> QED BY <1>1, <1>2, <2>2, <2>3
<1> QED BY Zenon, <1>3, <1>4

\* la_get_next_repl_item finds the next item within reach.
LEMMA NextLeast ==
  ASSUME SetFacts, Inv, CInv, PlainInv, UpInv, InLoop
  PROVE  /\ NextItem # 0 => IsItem(NextItem, Commit.tranid) /\ item < NextItem
         /\ \A i \in Nat : IsItem(i, Commit.tranid) /\ item < i
                             /\ Reach(repl_lists[Commit.tranid], i) => NextItem # 0 /\ NextItem <= i
         /\ NextItem \in Nat
<1> DEFINE t == Commit.tranid
           apply == repl_lists[t]
           InLog == {j \in (item + 1)..apply.last_lsa :
                      /\ log[j].trid = t /\ log[j].type = "REPLICATION"
                      /\ \A k \in (item + 1)..j :
                           log[k].trid = t => log[k].type \notin {"COMMIT", "ABORT"}}
           Left == IF apply.is_long_trans THEN InLog ELSE {j \in apply.items : j > item}
<1>1. apply \in LA_APPLY /\ t \in Tran /\ item \in Nat /\ commit_list # {}
  BY Zenon, LoopFacts, NTypes
<1>2. PICK it \in Nat, last \in Nat : it = item /\ last = apply.last_lsa
  BY Zenon, <1>1 DEF LA_APPLY, Lsa
<1>3. apply.items \subseteq Nat
  BY Zenon, <1>1 DEF LA_APPLY, Lsa
<1>4. \A j \in InLog : j \in Nat /\ it < j
  <2>1. \A j \in it + 1 .. last : j \in Nat /\ it < j
    BY <1>2
  <2> QED BY Zenon, <1>2, <2>1
<1>5. \A j \in {k \in apply.items : k > item} : j \in Nat /\ it < j
  BY Zenon, <1>2, <1>3
<1>6. \A j \in Left : j \in Nat /\ it < j
  BY Zenon, <1>4, <1>5
<1>7. ASSUME NEW i \in Nat, IsItem(i, t), it < i, Reach(apply, i) PROVE i \in Left
  <2>1. CASE ~apply.is_long_trans
    <3>1. i \in apply.items /\ i > item
      BY Zenon, <1>2, <1>7, <2>1 DEF Reach
    <3> QED BY Zenon, <2>1, <3>1
  <2>2. CASE apply.is_long_trans
    <3>1. i <= apply.last_lsa /\ log[i].trid = t /\ log[i].type = "REPLICATION"
      BY Zenon, <1>7, <2>2 DEF Reach, IsItem
    <3>2. i \in (item + 1)..apply.last_lsa
      BY <1>2, <1>7, <3>1
    <3>3. ASSUME NEW k \in (item + 1)..i, log[k].trid = t
          PROVE  log[k].type \notin {"COMMIT", "ABORT"}
      <4>1. k \in Nat /\ k \in 1 .. i
        BY <1>2, <3>3
      <4> QED BY Zenon, <1>7, <3>3, <4>1, ItemsFirst DEF CInv
    <3>4. i \in InLog
      BY Zenon, <3>1, <3>2, <3>3
    <3> QED BY Zenon, <2>2, <3>4
  <2> QED BY Zenon, <2>1, <2>2
<1>8. NextItem = IF Left = {} THEN 0 ELSE First(Left)
  BY Zenon DEF NextItem, la_get_next_repl_item
<1> HIDE DEF Left
<1>9. Left \subseteq Nat
  BY Zenon, <1>6
<1>10. Left # {} => First(Left) \in Left /\ \A j \in Left : First(Left) <= j
  BY Zenon, <1>9, FirstIsLeast
<1>11. NextItem # 0 => IsItem(NextItem, t)
  BY Zenon, <1>1, NextIsItem DEF CInv, ListInv
<1>12. NextItem # 0 => item < NextItem
  BY Zenon, <1>2, <1>6, <1>8, <1>10
<1>13. ASSUME NEW i \in Nat, IsItem(i, t), item < i, Reach(apply, i)
       PROVE  NextItem # 0 /\ NextItem <= i
  <2>1. i \in Left
    BY Zenon, <1>2, <1>7, <1>13
  <2>2. NextItem \in Left /\ NextItem <= i
    BY Zenon, <1>8, <1>10, <2>1
  <2>3. NextItem \in Nat /\ it < NextItem
    BY Zenon, <1>6, <2>2
  <2> QED BY <1>2, <2>2, <2>3
<1>14. NextItem \in Nat
  BY Zenon, <1>1, NextItemTyped
<1> QED BY Zenon, <1>11, <1>12, <1>13, <1>14

\* The item is done and the loop goes on with the next one.
LEMMA LoopGoesOn ==
  ASSUME SetFacts, Inv, Inv', CInv, PlainInv, UpInv, UNCHANGED masterVars, InLoop,
         final_lsa' = final_lsa, UNCHANGED startVars, row' = row,
         committed_lsa' = committed_lsa, commit_list' = commit_list, pc' = "item",
         NextItem # 0, item' = NextItem,
         repl_lists' = [repl_lists EXCEPT ![Commit.tranid].items = @ \ {item}],
         NEW r1, r1 = committed_rep_lsa', NEW J1, J1 = rejected', NEW S1, S1 = Applied',
         committed_rep_lsa <= r1, rejected \subseteq J1, last_committed_rep_lsa <= r1,
         r1 = last_committed_rep_lsa \/ r1 < ReadTo, SeqInv(S1, r1, J1),
         HeldInv(repl_lists, {Commit.tranid}, ReadTo, r1, last_committed_rep_lsa, J1),
         HeldPast(repl_lists[Commit.tranid], Commit.tranid, item, ReadTo, r1,
                  last_committed_rep_lsa, J1)
  PROVE  UpInv'
<1>1. /\ last_committed_lsa' = last_committed_lsa /\ eof' = eof
      /\ last_committed_rep_lsa' = last_committed_rep_lsa
  BY Zenon DEF startVars, masterVars
<1>2. /\ commit_list # {} /\ Applying /\ Commit.type = "COMMIT" /\ Commit.tranid \in Tran
      /\ repl_lists[Commit.tranid].used /\ repl_lists[Commit.tranid] \in LA_APPLY
      /\ committed_lsa < ReadTo
  BY Zenon, LoopFacts
<1>3. PICK L, Q, R, C, r, C0, R0, J, h, it, n, t, a, b :
        /\ L = repl_lists' /\ Q = commit_list /\ R = ReadTo /\ C = committed_lsa
        /\ r = committed_rep_lsa /\ C0 = last_committed_lsa /\ R0 = last_committed_rep_lsa
        /\ J = rejected /\ h = Commit /\ it = item /\ n = NextItem /\ t = Commit.tranid
        /\ a = repl_lists[Commit.tranid]
        /\ b = [repl_lists[Commit.tranid] EXCEPT !.items = repl_lists[Commit.tranid].items \ {item}]
  BY Zenon
<1>4. /\ r \in Nat /\ r1 \in Nat /\ it \in Nat /\ n \in Nat /\ R0 \in Nat
      /\ repl_lists \in [Tran -> LA_APPLY]
  <2>1. committed_rep_lsa' \in Nat
    BY Zenon DEF Inv, TypeOK, PositionTypeOK, Lsa
  <2> QED BY Zenon, <1>2, <1>3, <2>1, NTypes, NextItemTyped
<1>5. L[t] = b /\ \A s \in Tran : s # t => L[s] = repl_lists[s]
  BY Zenon, <1>2, <1>3, <1>4
<1>6. /\ b.used = a.used /\ b.start_lsa = a.start_lsa /\ b.items = a.items \ {it}
      /\ b.is_long_trans = a.is_long_trans /\ b.last_lsa = a.last_lsa
  BY Zenon, <1>2, <1>3 DEF LA_APPLY
<1>7. \A s \in Tran : L[s].used = repl_lists[s].used /\ L[s].start_lsa = repl_lists[s].start_lsa
  <2> SUFFICES ASSUME NEW s \in Tran
               PROVE  L[s].used = repl_lists[s].used /\ L[s].start_lsa = repl_lists[s].start_lsa
    BY Zenon
  <2>1. s = t => L[s] = b /\ repl_lists[s] = a
    BY Zenon, <1>3, <1>5
  <2> QED BY Zenon, <1>5, <1>6, <2>1
<1>8. InLoop' /\ Applying' /\ pc' # "put"
  BY Zenon DEF InLoop, Applying
<1>9. ReadTo' = R /\ Commit' = h
  BY Zenon, <1>2, <1>3, <1>8 DEF ReadTo, Commit
<1>10. LoopTran' = {t}
  BY Zenon, <1>3, <1>8, <1>9 DEF LoopTran
<1>11. /\ ClaimInv(C, r, J) /\ ClaimInv(C0, r, J) /\ OpenInv(repl_lists, R, r, J)
       /\ QueueInv(repl_lists, Q, R) /\ TypesInv(Q) /\ PlaceInv
  BY Zenon, <1>3 DEF UpInv
<1>12. ClaimInv(C, r1, J1) /\ ClaimInv(C0, r1, J1) /\ OpenInv(repl_lists, R, r1, J1)
  BY Zenon, <1>3, <1>4, <1>11, Grows
<1>13. OpenInv(L, R, r1, J1)
  BY Zenon, <1>7, <1>12 DEF OpenInv
<1>14. QueueInv(L, Q, R)
  BY Zenon, <1>7, <1>11 DEF QueueInv
<1>15. HeldInv(L, {t}, R, r1, R0, J1)
  <2> SUFFICES ASSUME NEW s \in Tran \ {t}, L[s].used PROVE Held(L[s], s, R, r1, R0, J1)
    BY Zenon DEF HeldInv
  <2>1. L[s] = repl_lists[s]
    BY Zenon, <1>5
  <2>2. HeldInv(repl_lists, {t}, R, r1, R0, J1)
    BY Zenon, <1>3
  <2> QED BY Zenon, <2>1, <2>2 DEF HeldInv
<1>16. PlaceInv'
  <2>1. C <= R /\ (\A c \in Q : C <= c.log_lsa) /\ (C0 <= eof \/ C0 <= C)
        /\ (row.committed_lsa <= C \/ row.committed_lsa <= C0)
    BY Zenon, <1>3, <1>11 DEF PlaceInv
  <2>2. C < R /\ R0 <= r1 /\ (r1 = R0 \/ r1 < R)
    BY Zenon, <1>2, <1>3
  <2> QED BY Zenon, <1>1, <1>3, <1>9, <2>1, <2>2 DEF PlaceInv
<1>17. IsItem(n, t) /\ it < n
  BY Zenon, <1>3, NextLeast
<1>18. HeldFrom(b, t, n, R, r1, R0, J1)
  <2> SUFFICES ASSUME NEW i \in Nat, IsItem(i, t), i < R
               PROVE  /\ i = n \/ Done(i, r1, J1) \/ (n < i /\ Reach(b, i))
                      /\ i <= R0 \/ r1 < i \/ i < n
    BY Zenon DEF HeldFrom
  <2>1. /\ Done(i, r1, J1) \/ (it < i /\ Reach(a, i))
        /\ i <= R0 \/ r1 < i \/ i <= it
    BY Zenon, <1>3 DEF HeldPast
  <2>2. i <= R0 \/ r1 < i \/ i < n
    BY <1>4, <1>17, <2>1
  <2>3. ASSUME it < i, Reach(a, i) PROVE i = n \/ (n < i /\ Reach(b, i))
    <3>1. n <= i
      BY Zenon, <1>3, <2>3, NextLeast
    <3>2. i = n \/ n < i
      BY <1>4, <3>1
    <3>3. i # it
      BY <1>4, <2>3
    <3>4. Reach(b, i)
      <4>1. i \in a.items => i \in b.items
        BY Zenon, <1>6, <3>3
      <4> QED BY Zenon, <1>6, <2>3, <4>1 DEF Reach
    <3> QED BY Zenon, <3>2, <3>4
  <2> QED BY Zenon, <2>1, <2>2, <2>3
<1>19. LoopHeld(L, h, n, R, r1, R0, J1)
  BY Zenon, <1>2, <1>3, <1>5, <1>6, <1>17, <1>18 DEF LoopHeld
<1>20. /\ Q = commit_list' /\ R = ReadTo' /\ C = committed_lsa' /\ C0 = last_committed_lsa'
       /\ R0 = last_committed_rep_lsa' /\ {t} = LoopTran' /\ h = Commit' /\ n = item'
  BY Zenon, <1>1, <1>3, <1>9, <1>10
<1> QED
  BY Zenon, <1>3, <1>8, <1>11, <1>12, <1>13, <1>14, <1>15, <1>16, <1>19, <1>20, UpCarry

\* The item is done: the loop goes on or the head is consumed.
LEMMA ItemIsDone ==
  ASSUME SetFacts, Inv, Inv', CInv, PlainInv, UpInv, UNCHANGED masterVars, InLoop, ItemDone,
         final_lsa' = final_lsa, UNCHANGED startVars, row' = row,
         NEW r1, r1 = committed_rep_lsa', NEW J1, J1 = rejected', NEW S1, S1 = Applied',
         committed_rep_lsa <= r1, rejected \subseteq J1, last_committed_rep_lsa <= r1,
         r1 = last_committed_rep_lsa \/ r1 < ReadTo, SeqInv(S1, r1, J1),
         HeldInv(repl_lists, {Commit.tranid}, ReadTo, r1, last_committed_rep_lsa, J1),
         HeldPast(repl_lists[Commit.tranid], Commit.tranid, item, ReadTo, r1,
                  last_committed_rep_lsa, J1)
  PROVE  UpInv' /\ pc' # "down"
<1>1. CASE NextItem # 0 /\ NextItem <= Commit.log_lsa
  <2>1. /\ repl_lists' = [repl_lists EXCEPT ![Commit.tranid].items =
                                              repl_lists[Commit.tranid].items \ {item}]
        /\ item' = NextItem /\ pc' = "item" /\ commit_list' = commit_list
        /\ committed_lsa' = committed_lsa
    BY Zenon, <1>1 DEF ItemDone
  <2>2. repl_lists' = [repl_lists EXCEPT ![Commit.tranid].items = @ \ {item}]
    BY Zenon, <2>1
  <2>3. UpInv'
    BY Zenon, <1>1, <2>1, <2>2, LoopGoesOn
  <2> QED BY Zenon, <2>1, <2>3
<1>2. CASE ~(NextItem # 0 /\ NextItem <= Commit.log_lsa)
  <2>1. /\ commit_list # {} /\ Applying /\ Commit.type = "COMMIT" /\ Commit.tranid \in Tran
        /\ IsUnlock(Commit.log_lsa, Commit.tranid)
    BY Zenon, LoopFacts
  <2>2. PICK L, t, p, n, R, R0 : /\ L = repl_lists' /\ t = Commit.tranid /\ p = Commit.log_lsa
          /\ n = NextItem /\ R = ReadTo /\ R0 = last_committed_rep_lsa
    BY Zenon
  <2>3. Dequeue /\ L = [repl_lists EXCEPT ![t] = FreeApply]
    <3>1. Commit.type # "COMMIT_TOPOPE"
      BY Zenon, <2>1
    <3> QED BY Zenon, <1>2, <2>2, <3>1 DEF ItemDone, AfterCommit
  <2>4. n = 0
    <3>1. n # 0 => n < p
      BY Zenon, <2>1, <2>2, NextLeast, OneUnlock DEF CInv
    <3>2. n \in Nat /\ p \in Nat
      BY Zenon, <2>1, <2>2, NextLeast, HeadAt
    <3>3. n < p => n <= p
      BY <3>2
    <3> QED BY Zenon, <1>2, <2>2, <3>1, <3>3
  <2>5. ~L[t].used /\ \A s \in Tran : s # t => L[s] = repl_lists[s]
    <3>1. L[t] = FreeApply /\ \A s \in Tran : s # t => L[s] = repl_lists[s]
      BY Zenon, <2>1, <2>2, <2>3, NTypes
    <3> QED BY <3>1 DEF FreeApply
  <2>6. Over(t, r1, J1)
    <3>1. \A i : IsItem(i, t) => i \in Nat /\ i < R
      BY Zenon, <2>1, <2>2, HeadEnds
    <3>2. \A i \in Nat : IsItem(i, t) => Done(i, r1, J1)
      BY Zenon, <2>2, <2>4, <3>1, NextLeast DEF HeldPast
    <3>3. IsEnd(p, t) /\ p \in Nat
      BY Zenon, <2>1, <2>2, HeadEnds, HeadAt
    <3> QED BY Zenon, <3>2, <3>3 DEF Over, AllDone
  <2>7. HeldInv(L, {t}, R, r1, R0, J1)
    <3> SUFFICES ASSUME NEW s \in Tran \ {t}, L[s].used PROVE Held(L[s], s, R, r1, R0, J1)
      BY Zenon DEF HeldInv
    <3>1. L[s] = repl_lists[s]
      BY Zenon, <2>5
    <3>2. HeldInv(repl_lists, {t}, R, r1, R0, J1)
      BY Zenon, <2>2
    <3> QED BY Zenon, <3>1, <3>2 DEF HeldInv
  <2>8. pc' = "list" /\ committed_lsa' = Commit.log_lsa /\ commit_list' = commit_list \ {Commit}
    BY Zenon, <2>3 DEF Dequeue
  <2>9. /\ ~L[Commit.tranid].used /\ \A s \in Tran : s # Commit.tranid => L[s] = repl_lists[s]
        /\ Over(Commit.tranid, r1, J1)
        /\ HeldInv(L, {Commit.tranid}, ReadTo, r1, last_committed_rep_lsa, J1)
    BY Zenon, <2>2, <2>5, <2>6, <2>7
  <2>10. UpInv'
    BY Zenon, <2>1, <2>2, <2>8, <2>9, Dequeued
  <2> QED BY Zenon, <2>8, <2>10
<1> QED BY Zenon, <1>1, <1>2

\* An item that was applied before the restart is passed over; before any other
\* a commit may be forced.
LEMMA ItemStep ==
  ASSUME SetFacts, Inv, Inv', CInv, PlainInv, RowInv, UpInv, hdr.ha_server_state \in Live, ApplyItem
  PROVE  Kept
<1>1. /\ pc = "item" /\ hdr' = hdr /\ final_lsa' = final_lsa
      /\ committed_rep_lsa' = committed_rep_lsa /\ UNCHANGED startVars /\ UNCHANGED masterVars
  BY Zenon DEF ApplyItem
<1>2. InLoop /\ Applying
  BY Zenon, <1>1 DEF InLoop, Applying
<1>3. PICK r, J, s, R, R0, a, t, it :
        /\ r = committed_rep_lsa /\ J = rejected /\ s = Applied /\ R = ReadTo
        /\ R0 = last_committed_rep_lsa /\ a = repl_lists[Commit.tranid] /\ t = Commit.tranid
        /\ it = item
  BY Zenon
<1>4. r \in Nat /\ R0 \in Nat /\ it \in Nat
  BY Zenon, <1>3, NTypes
<1>5. /\ HeldInv(repl_lists, {t}, R, r, R0, J) /\ SeqInv(s, r, J)
      /\ R0 <= r /\ (r = R0 \/ r < R) /\ HeldFrom(a, t, it, R, r, R0, J) /\ committed_lsa < R
  BY Zenon, <1>2, <1>3, LoopFacts DEF UpInv, PlaceInv
<1>6. CASE item <= last_committed_rep_lsa
  <2>1. ItemDone /\ UNCHANGED dbVars
    BY Zenon, <1>6 DEF ApplyItem
  <2>2. row' = row /\ slave' = slave /\ pending' = pending /\ rejected' = rejected
    BY Zenon, <2>1 DEF dbVars
  <2>3. Done(it, r, J)
    BY <1>3, <1>4, <1>5, <1>6 DEF Done
  <2>4. \A i \in Nat : i < it => i <= it
    BY <1>4
  <2>5. HeldPast(a, t, it, R, r, R0, J)
    BY Zenon, <1>5, <2>3, <2>4 DEF HeldFrom, HeldPast
  <2>6. s = Applied' /\ r = committed_rep_lsa' /\ J = rejected' /\ J \subseteq J /\ r <= r
    BY <1>1, <1>3, <1>4, <2>2 DEF Applied
  <2>7. /\ HeldInv(repl_lists, {Commit.tranid}, ReadTo, r, last_committed_rep_lsa, J)
        /\ HeldPast(repl_lists[Commit.tranid], Commit.tranid, item, ReadTo, r,
                    last_committed_rep_lsa, J)
        /\ last_committed_rep_lsa <= r /\ (r = last_committed_rep_lsa \/ r < ReadTo)
        /\ committed_rep_lsa <= r /\ rejected \subseteq J
    BY Zenon, <1>3, <1>5, <2>5, <2>6
  <2>8. UpInv' /\ pc' # "down"
    BY Zenon, <1>1, <1>2, <1>5, <2>1, <2>2, <2>6, <2>7, ItemIsDone
  <2>9. RowInv' /\ row.committed_lsa <= row'.committed_lsa
    BY <1>1, <2>2, RowCarry, NTypes
  <2> QED BY Zenon, <1>1, <2>8, <2>9 DEF Kept
<1>7. CASE ~(item <= last_committed_rep_lsa)
  <2>1. /\ pc' = "put" /\ UNCHANGED listVars /\ committed_lsa' = committed_lsa /\ item' = item
        /\ UNCHANGED dbVars \/ la_log_commit(repl_lists, committed_lsa)
    BY Zenon, <1>7 DEF ApplyItem
  <2>2. pc # "down" /\ pc' # "down" /\ InLoop' /\ ReadTo' = ReadTo
    BY Zenon, <1>1, <2>1 DEF InLoop, ReadTo, Applying
  <2>3. last_committed_rep_lsa < item
    BY <1>3, <1>4, <1>7
  <2>4. Saved
    <3>1. CASE la_log_commit(repl_lists, committed_lsa)
      BY Zenon, <1>1, <1>3, <1>5, <2>2, <3>1, Save
    <3>2. CASE UNCHANGED dbVars
      <4>1. row' = row /\ slave' = slave /\ pending' = pending /\ rejected' = rejected
        BY Zenon, <3>2 DEF dbVars
      <4>2. RowInv'
        BY Zenon, <1>1, <4>1, RowCarry
      <4>3. Applied' = Applied
        BY Zenon, <4>1 DEF Applied
      <4>4. row.committed_lsa <= row'.committed_lsa
        BY <4>1, NTypes
      <4> QED BY Zenon, <4>1, <4>2, <4>3, <4>4 DEF Saved, UpInv, PlaceInv
    <3> QED BY Zenon, <2>1, <3>1, <3>2
  <2>5. UpInv'
    BY Zenon, <1>1, <1>2, <2>1, <2>2, <2>3, <2>4, QuietUp DEF Saved
  <2> QED BY Zenon, <1>1, <2>2, <2>4, <2>5 DEF Kept, Saved
<1> QED BY Zenon, <1>6, <1>7

\* The slave refuses an item.
LEMMA RejectStep ==
  ASSUME SetFacts, Inv, Inv', CInv, PlainInv, RowInv, UpInv, hdr.ha_server_state \in Live, RejectItem
  PROVE  Kept
<1>1. /\ pc = "put" /\ hdr' = hdr /\ final_lsa' = final_lsa /\ ItemDone
      /\ committed_rep_lsa' = committed_rep_lsa /\ UNCHANGED startVars /\ UNCHANGED masterVars
      /\ row' = row /\ slave' = slave /\ pending' = pending /\ rejected' = rejected \cup {item}
  BY Zenon DEF RejectItem
<1>2. InLoop /\ Applying
  BY Zenon, <1>1 DEF InLoop, Applying
<1>3. PICK r, J, J1, s, R, R0, a, t, it :
        /\ r = committed_rep_lsa /\ J = rejected /\ s = Applied /\ R = ReadTo
        /\ R0 = last_committed_rep_lsa /\ a = repl_lists[Commit.tranid] /\ t = Commit.tranid
        /\ it = item /\ J1 = rejected'
  BY Zenon
<1>4. r \in Nat /\ R0 \in Nat /\ it \in Nat /\ J \subseteq J1 /\ it \in J1 /\ r <= r
  BY <1>1, <1>3, NTypes
<1>5. /\ HeldInv(repl_lists, {t}, R, r, R0, J) /\ SeqInv(s, r, J)
      /\ R0 <= r /\ (r = R0 \/ r < R) /\ HeldFrom(a, t, it, R, r, R0, J)
  BY Zenon, <1>2, <1>3, LoopFacts DEF UpInv, PlaceInv
<1>6. \A i \in Nat : (Done(i, r, J) => Done(i, r, J1)) /\ (i < it => i <= it)
  BY <1>4 DEF Done
<1>7. Done(it, r, J1)
  BY Zenon, <1>4 DEF Done
<1>8. HeldPast(a, t, it, R, r, R0, J1)
  BY Zenon, <1>5, <1>6, <1>7 DEF HeldFrom, HeldPast
<1>9. SeqInv(s, r, J1)
  BY Zenon, <1>4, <1>5 DEF SeqInv
<1>10. HeldInv(repl_lists, {t}, R, r, R0, J1)
  BY Zenon, <1>5, <1>6 DEF HeldInv, Held
<1>11. s = Applied' /\ r = committed_rep_lsa'
  BY Zenon, <1>1, <1>3 DEF Applied
<1>12. /\ HeldInv(repl_lists, {Commit.tranid}, ReadTo, r, last_committed_rep_lsa, J1)
       /\ HeldPast(repl_lists[Commit.tranid], Commit.tranid, item, ReadTo, r,
                   last_committed_rep_lsa, J1)
       /\ last_committed_rep_lsa <= r /\ (r = last_committed_rep_lsa \/ r < ReadTo)
       /\ committed_rep_lsa <= r /\ rejected \subseteq J1
  BY Zenon, <1>3, <1>4, <1>5, <1>8, <1>10
<1>13. UpInv' /\ pc' # "down"
  BY Zenon, <1>1, <1>2, <1>3, <1>9, <1>11, <1>12, ItemIsDone
<1>14. RowInv' /\ row.committed_lsa <= row'.committed_lsa
  <2>1. rejected \subseteq rejected'
    BY Zenon, <1>1
  <2> QED BY <1>1, <2>1, RowCarry, NTypes
<1> QED BY Zenon, <1>1, <1>13, <1>14 DEF Kept

\* The slave does not roll back on its own.
LEMMA NoRetry ==
  ASSUME Inv, PlainOperation, RetryAfterUnilateralAbort
  PROVE  FALSE
<1>1. faults["unilateral"] < Bound("unilateral")
  BY Zenon DEF RetryAfterUnilateralAbort, FaultHappens
<1>2. Bound("unilateral") = 0
  BY Zenon DEF Bound, PlainOperation
<1>3. faults["unilateral"] \in Nat
  BY Zenon DEF Inv, TypeOK, DbTypeOK, Fault
<1> QED BY <1>1, <1>2, <1>3

\* One more item is applied.
LEMMA SeqAppend ==
  ASSUME NEW s \in Seq(Nat), NEW r \in Nat, NEW it \in Nat, NEW J, SeqInv(s, r, J), r < it,
         NEW t \in Tran, IsItem(it, t), it <= eof, \E c \in Nat : IsCommit(c, t),
         \A i \in Nat, u \in Tran : IsItem(i, u) /\ r < i /\ i < it => i \in J
  PROVE  SeqInv(Append(s, it), it, J)
<1>0. PICK z : z = Append(s, it)
  BY Zenon
<1>1. PICK n \in Nat : n = Len(s) /\ DOMAIN s = 1 .. n /\ z = Append(s, it)
  BY <1>0
<1>2. /\ DOMAIN z = 1 .. n + 1 /\ z[n + 1] = it /\ \A k \in 1 .. n : z[k] = s[k]
      /\ \A k \in 1 .. n : s[k] \in Nat
  <2>1. z \in Seq(Nat) /\ Len(z) = n + 1 /\ \A k \in 1 .. n : z[k] = s[k] /\ z[n + 1] = it
    BY <1>1, Appended
  <2> QED BY <1>1, <2>1
<1>3. /\ \A k \in 1 .. n + 1 : k \in 1 .. n \/ k = n + 1
      /\ \A k \in 1 .. n : k \in 1 .. n + 1 /\ k < n + 1
      /\ n + 1 \in 1 .. n + 1 /\ ~(n + 1 < n + 1) /\ \A k \in 1 .. n : ~(n + 1 < k)
  OBVIOUS
<1>4. \A k \in 1 .. n : s[k] < it /\ s[k] <= it
  <2>1. \A k \in 1 .. n : s[k] <= r
    BY Zenon, <1>1 DEF SeqInv
  <2> QED BY <1>2, <2>1
<1>5. \A j, k \in DOMAIN z : j < k => z[j] < z[k]
  <2>1. \A j, k \in 1 .. n : j < k => s[j] < s[k]
    BY Zenon, <1>1 DEF SeqInv
  <2>2. ASSUME NEW j \in 1 .. n + 1, NEW k \in 1 .. n + 1, j < k PROVE z[j] < z[k]
    <3>1. j \in 1 .. n
      BY <2>2
    <3>2. CASE k \in 1 .. n
      BY Zenon, <1>2, <2>1, <2>2, <3>1, <3>2
    <3>3. CASE k = n + 1
      BY Zenon, <1>2, <1>4, <3>1, <3>3
    <3> QED BY Zenon, <1>3, <3>2, <3>3
  <2> QED BY Zenon, <1>2, <2>2
<1>6. \A k \in DOMAIN z :
        z[k] <= it /\ \E u \in Tran : IsItem(z[k], u) /\ \E c \in Nat : IsCommit(c, u)
  <2>1. \A k \in 1 .. n : \E u \in Tran : IsItem(s[k], u) /\ \E c \in Nat : IsCommit(c, u)
    BY Zenon, <1>1 DEF SeqInv
  <2>2. it <= it
    OBVIOUS
  <2> QED BY Zenon, <1>2, <1>3, <1>4, <2>1, <2>2
<1>7. ASSUME NEW i \in Nat, NEW u \in Tran, IsItem(i, u), i <= it PROVE i \in J \/ In(z, i)
  <2>1. i <= r \/ i = it \/ (r < i /\ i < it)
    BY <1>7
  <2>2. ASSUME In(s, i) PROVE In(z, i)
    <3>1. PICK k \in 1 .. n : s[k] = i
      BY Zenon, <1>1, <2>2 DEF In
    <3> QED BY Zenon, <1>2, <1>3, <3>1 DEF In
  <2>3. In(z, it)
    BY Zenon, <1>2, <1>3 DEF In
  <2> QED BY Zenon, <1>7, <2>1, <2>2, <2>3 DEF SeqInv
<1> QED BY Zenon, <1>1, <1>5, <1>6, <1>7 DEF SeqInv

\* What is applied, after a statement.
LEMMA AppliedAppend ==
  ASSUME Inv, slave' = slave, pending' = Append(pending, item)
  PROVE  Applied' = Append(Applied, item) /\ Applied \in Seq(Nat)
<1>1. slave \in Seq(Nat) /\ pending \in Seq(Nat) /\ item \in Nat
  BY Zenon, NTypes
<1>2. slave \o pending \in Seq(Nat)
  BY Zenon, <1>1, Joined
<1>3. Append(slave \o pending, item) = slave \o Append(pending, item)
  BY Zenon, <1>1, AppendedLast
<1> QED BY Zenon, <1>2, <1>3 DEF Applied

\* Items of another transaction that precede the item of the head are behind a
\* closed list, and done.
LEMMA OthersDone ==
  ASSUME SetFacts, Inv, CInv, PlainInv, UpInv, InLoop, NEW u \in Tran, u # Commit.tranid,
         NEW i, IsItem(i, u), i < item
  PROVE  ~repl_lists[u].used /\ Done(i, committed_rep_lsa, rejected)
<1>1. /\ commit_list # {} /\ IsItem(item, Commit.tranid) /\ item < Commit.log_lsa
      /\ Commit.tranid \in Tran
  BY Zenon, LoopFacts
<1>2. PICK q \in Nat : IsUnlock(q, u) /\ q < item
  BY Zenon, <1>1, BlockOrder
<1>3. q <= Commit.log_lsa
  BY <1>1, <1>2, NTypes, HeadAt
<1>4. ~repl_lists[u].used /\ Over(u, committed_rep_lsa, rejected)
  BY Zenon, <1>1, <1>2, <1>3, OlderOver
<1>5. i \in Nat
  BY Zenon, Records
<1> QED BY Zenon, <1>4, <1>5 DEF Over, AllDone

\* The item is applied.
LEMMA PutKeeps ==
  ASSUME SetFacts, Inv, Inv', CInv, PlainInv, RowInv, UpInv, hdr.ha_server_state \in Live, PutItem
  PROVE  Kept
<1>1. /\ pc = "put" /\ hdr' = hdr /\ final_lsa' = final_lsa /\ ItemDone
      /\ committed_rep_lsa' = item /\ UNCHANGED startVars /\ UNCHANGED masterVars
      /\ row' = row /\ slave' = slave /\ pending' = Append(pending, item) /\ rejected' = rejected
  BY Zenon DEF PutItem
<1>2. InLoop /\ Applying
  BY Zenon, <1>1 DEF InLoop, Applying
<1>3. PICK r, J, s, R, R0, a, t, it :
        /\ r = committed_rep_lsa /\ J = rejected /\ s = Applied /\ R = ReadTo
        /\ R0 = last_committed_rep_lsa /\ a = repl_lists[Commit.tranid] /\ t = Commit.tranid
        /\ it = item
  BY Zenon
<1>4. r \in Nat /\ R0 \in Nat /\ it \in Nat /\ R \in Nat
  BY Zenon, <1>3, NTypes
<1>5. /\ HeldInv(repl_lists, {t}, R, r, R0, J) /\ SeqInv(s, r, J) /\ R0 <= r /\ R0 < it
      /\ HeldFrom(a, t, it, R, r, R0, J) /\ IsItem(it, t) /\ t \in Tran
      /\ \E c \in Nat : IsCommit(c, t)
  BY Zenon, <1>1, <1>2, <1>3, LoopFacts DEF UpInv, PlaceInv, LoopPlace
<1>6. it < R /\ it <= eof /\ it <= it
  <2>1. it < Commit.log_lsa /\ Commit.log_lsa < R /\ Commit.log_lsa \in Nat
    BY Zenon, <1>2, <1>3, LoopFacts, HeadAt
  <2>2. it <= eof
    BY Zenon, <1>5, Records
  <2> QED BY <1>4, <2>1, <2>2
<1>7. r < it
  <2>1. it <= R0 \/ r < it \/ it < it
    BY Zenon, <1>4, <1>5, <1>6 DEF HeldFrom
  <2> QED BY <1>4, <1>5, <2>1
<1>8. ASSUME NEW i \in Nat, NEW u \in Tran, IsItem(i, u), r < i, i < it PROVE i \in J
  <2>1. Done(i, r, J)
    <3>1. CASE u = t
      <4>1. i < R /\ i # it /\ ~(it < i)
        BY <1>4, <1>6, <1>8
      <4> QED BY Zenon, <1>5, <1>8, <3>1, <4>1 DEF HeldFrom
    <3>2. CASE u # t
      BY Zenon, <1>2, <1>3, <1>8, <3>2, OthersDone
    <3> QED BY Zenon, <3>1, <3>2
  <2>2. ~(i <= r)
    BY <1>4, <1>8
  <2> QED BY Zenon, <2>1, <2>2 DEF Done
<1>9. s \in Seq(Nat) /\ Applied' = Append(s, it)
  BY Zenon, <1>1, <1>3, AppliedAppend
<1>10. SeqInv(Append(s, it), it, J)
  BY Zenon, <1>4, <1>5, <1>6, <1>7, <1>8, <1>9, SeqAppend
<1>11. r <= it /\ \A i \in Nat : Done(i, r, J) => Done(i, it, J)
  BY <1>4, <1>7 DEF Done
<1>12. HeldPast(a, t, it, R, it, R0, J)
  <2>1. Done(it, it, J)
    BY Zenon, <1>6 DEF Done
  <2>2. \A i \in Nat : it < i \/ i <= it
    BY <1>4
  <2> QED BY Zenon, <1>5, <1>11, <2>1, <2>2 DEF HeldFrom, HeldPast
<1>13. HeldInv(repl_lists, {t}, R, it, R0, J)
  <2> SUFFICES ASSUME NEW u \in Tran \ {t}, repl_lists[u].used
               PROVE  Held(repl_lists[u], u, R, it, R0, J)
    BY Zenon DEF HeldInv
  <2>1. u \in Tran /\ u # t
    BY Zenon
  <2>2. Held(repl_lists[u], u, R, r, R0, J)
    BY Zenon, <1>5 DEF HeldInv
  <2>3. ASSUME NEW i \in Nat, IsItem(i, u) PROVE it < i
    <3>1. ~(i < it)
      BY Zenon, <1>2, <1>3, <2>1, <2>3, OthersDone
    <3>2. i # it
      BY Zenon, <1>5, <2>1, <2>3 DEF IsItem
    <3> QED BY <1>4, <3>1, <3>2
  <2> QED BY Zenon, <1>11, <2>2, <2>3 DEF Held
<1>14. PICK S1 : S1 = Append(s, it)
  BY Zenon
<1>15. /\ HeldInv(repl_lists, {Commit.tranid}, ReadTo, it, last_committed_rep_lsa, J)
       /\ HeldPast(repl_lists[Commit.tranid], Commit.tranid, item, ReadTo, it,
                   last_committed_rep_lsa, J)
       /\ last_committed_rep_lsa <= it /\ (it = last_committed_rep_lsa \/ it < ReadTo)
       /\ committed_rep_lsa <= it /\ rejected \subseteq J
       /\ it = committed_rep_lsa' /\ J = rejected' /\ S1 = Applied' /\ SeqInv(S1, it, J)
  <2>1. R0 <= it
    BY <1>4, <1>5
  <2> QED BY Zenon, <1>1, <1>3, <1>6, <1>9, <1>10, <1>11, <1>12, <1>13, <1>14, <2>1
<1>16. UpInv' /\ pc' # "down"
  BY Zenon, <1>1, <1>2, <1>15, ItemIsDone
<1>17. RowInv' /\ row.committed_lsa <= row'.committed_lsa
  BY <1>1, RowCarry, NTypes
<1> QED BY Zenon, <1>1, <1>16, <1>17 DEF Kept

-----------------------------------------------------------------------------
(* The process goes down and comes up.                                     *)

\* The process dies.
LEMMA ShutdownKeeps ==
  ASSUME Inv, RowInv, la_shutdown
  PROVE  RowInv' /\ DownInv' /\ pc' = "down" /\ row' = row /\ hdr'.ha_server_state \in Live
<1>1. /\ UNCHANGED masterVars /\ row' = row /\ slave' = slave /\ rejected' = rejected
      /\ pending' = << >> /\ pc' = "down" /\ hdr' = NoHeader
      /\ repl_lists' = [t \in Tran |-> FreeApply]
  BY Zenon DEF la_shutdown
<1>2. RowInv'
  BY Zenon, <1>1, RowCarry
<1>3. DownInv'
  BY Zenon, <1>1 DEF DownInv, FreeApply
<1>4. hdr'.ha_server_state \in Live
  BY Zenon, <1>1 DEF NoHeader, Live
<1> QED BY Zenon, <1>1, <1>2, <1>3, <1>4

\* It starts with the row.
LEMMA StartKeeps ==
  ASSUME Inv, Inv', CInv, PlainInv, RowInv, DownInv, hdr.ha_server_state \in Live,
         la_get_last_ha_applied_info
  PROVE  Kept
<1>1. /\ pc = "down" /\ pc' = "top" /\ final_lsa' = row.required_lsa
      /\ committed_lsa' = row.required_lsa /\ committed_rep_lsa' = row.committed_rep_lsa
      /\ last_committed_lsa' = row.committed_lsa
      /\ last_committed_rep_lsa' = row.committed_rep_lsa
      /\ hdr' = hdr /\ UNCHANGED masterVars /\ repl_lists' = repl_lists
      /\ commit_list' = commit_list
      /\ row' = row /\ slave' = slave /\ pending' = pending /\ rejected' = rejected
  BY Zenon DEF la_get_last_ha_applied_info, StartAt, dbVars, listVars
<1>2. PICK L, q, r, C0, J, s, h, it : /\ L = repl_lists /\ q = row.required_lsa
        /\ r = row.committed_rep_lsa /\ C0 = row.committed_lsa /\ J = rejected /\ s = slave
        /\ h = Commit' /\ it = item'
  BY Zenon
<1>3. q \in Nat /\ r \in Nat /\ C0 \in Nat /\ slave \in Seq(Nat)
  BY Zenon, <1>2, NTypes
<1>4. commit_list = {} /\ pending = << >> /\ \A t \in Tran : ~L[t].used
  BY Zenon, <1>1, <1>2 DEF DownInv, CInv, ListInv, PosInv
<1>5. Applied' = s
  <2>1. slave \o << >> = slave
    BY Zenon, <1>3, JoinedNone
  <2> QED BY Zenon, <1>1, <1>2, <1>4, <2>1 DEF Applied
<1>6. ~InLoop' /\ ReadTo' = q /\ pc' # "down"
  BY Zenon, <1>1, <1>2 DEF InLoop, ReadTo, Applying
<1>7. LoopTran' = {}
  BY Zenon, <1>6 DEF LoopTran
<1>8. SeqInv(s, r, J) /\ OverBefore(q, r, J) /\ ClaimInv(C0, r, J) /\ (C0 <= eof \/ C0 <= q)
  BY Zenon, <1>2 DEF RowInv
<1>9. PlaceInv'
  <2>1. r <= r /\ q <= q /\ C0 <= C0
    BY <1>3
  <2>2. /\ last_committed_rep_lsa' = r /\ committed_rep_lsa' = r /\ committed_lsa' = q
        /\ last_committed_lsa' = C0 /\ row'.committed_lsa = C0 /\ eof' = eof
        /\ commit_list' = {} /\ repl_lists' = L
    BY Zenon, <1>1, <1>2, <1>4 DEF masterVars
  <2>3. \A c : c \notin commit_list'
    BY Zenon, <2>2
  <2> QED BY Zenon, <1>4, <1>6, <1>8, <2>1, <2>2, <2>3 DEF PlaceInv
<1>10. ClaimInv(q, r, J)
  <2> SUFFICES ASSUME NEW p \in Nat, NEW t \in Tran, IsUnlock(p, t), p <= q
               PROVE  AllDone(t, r, J)
    BY Zenon DEF ClaimInv
  <2>1. IsRecord(p, t)
    BY Zenon, Records
  <2>2. PICK f \in Nat : IsFirst(f, t) /\ f <= p
    BY Zenon, <2>1, HasFirst
  <2>3. f # p
    <3>1. log[f].type = "DATA"
      BY Zenon, <2>2, FirstAlone
    <3> QED BY Zenon, <3>1 DEF IsUnlock
  <2>4. f < q
    BY <1>3, <2>2, <2>3
  <2> QED BY Zenon, <1>8, <2>2, <2>4 DEF OverBefore, Over
<1>11. OpenInv(L, q, r, J) /\ QueueInv(L, {}, q) /\ HeldInv(L, {}, q, r, r, J)
  BY Zenon, <1>4, <1>8 DEF OpenInv, OverBefore, QueueInv, HeldInv
<1>12. TypesInv({})
  BY Zenon DEF TypesInv
<1>13. UpInv'
  <2>1. /\ L = repl_lists' /\ {} = commit_list' /\ q = ReadTo' /\ q = committed_lsa'
        /\ r = committed_rep_lsa' /\ C0 = last_committed_lsa' /\ r = last_committed_rep_lsa'
        /\ J = rejected' /\ s = Applied' /\ {} = LoopTran' /\ h = Commit' /\ it = item'
    BY Zenon, <1>1, <1>2, <1>4, <1>5, <1>6, <1>7
  <2> QED BY Zenon, <1>1, <1>6, <1>8, <1>9, <1>10, <1>11, <1>12, <2>1, UpCarry
<1>14. RowInv' /\ row.committed_lsa <= row'.committed_lsa
  BY <1>1, RowCarry, NTypes
<1> QED BY Zenon, <1>1, <1>6, <1>13, <1>14 DEF Kept

-----------------------------------------------------------------------------
(* Every step of the applier.                                              *)

\* Before anything is logged.
LEMMA InitNInv == Init => NInv
<1> SUFFICES ASSUME Init PROVE NInv
  BY Zenon
<1>1. /\ log = << >> /\ eof = 0 /\ tstate = [t \in Tran |-> "idle"] /\ srv = "ACTIVE"
      /\ pc = "top" /\ hdr = NoHeader /\ final_lsa = 1 /\ committed_lsa = 1
      /\ committed_rep_lsa = 1 /\ last_committed_lsa = 1 /\ last_committed_rep_lsa = 1
      /\ repl_lists = [t \in Tran |-> FreeApply] /\ commit_list = {}
      /\ row = FirstRow /\ slave = << >> /\ pending = << >> /\ rejected = {}
  BY Zenon DEF Init, MasterInit, ApplierInit
<1>2. \A i, t : ~IsItem(i, t) /\ ~IsUnlock(i, t) /\ ~IsFirst(i, t)
  BY <1>1 DEF IsItem, IsUnlock, IsFirst
<1>3. PlainInv
  BY <1>1 DEF PlainInv, Live, Blocks, FirstInv, BegunInv, AbortInv
<1>4. hdr.ha_server_state \in Live
  BY Zenon, <1>1 DEF NoHeader, Live
<1>5. Applied = << >> /\ ReadTo = 1 /\ ~InLoop
  BY <1>1 DEF Applied, ReadTo, Applying, InLoop
<1>6. \A J : SeqInv(<< >>, 1, J)
  BY <1>2 DEF SeqInv
<1>7. \A lsa, r, J : ClaimInv(lsa, r, J) /\ OverBefore(lsa, r, J)
  BY Zenon, <1>2 DEF ClaimInv, OverBefore
<1>8. RowInv
  <2>1. row.committed_lsa = 1 /\ row.committed_rep_lsa = 1 /\ row.required_lsa = 1
    BY Zenon, <1>1 DEF FirstRow
  <2>2. row.committed_lsa <= row.required_lsa
    BY <2>1
  <2> QED BY Zenon, <1>1, <1>6, <1>7, <2>1, <2>2 DEF RowInv
<1>9. \A t \in Tran : ~repl_lists[t].used
  BY Zenon, <1>1 DEF FreeApply
<1>10. PlaceInv
  BY <1>1, <1>5, <1>9 DEF PlaceInv, FirstRow
<1>11. /\ OpenInv(repl_lists, ReadTo, committed_rep_lsa, rejected)
       /\ QueueInv(repl_lists, commit_list, ReadTo)
       /\ HeldInv(repl_lists, LoopTran, ReadTo, committed_rep_lsa, last_committed_rep_lsa, rejected)
  BY Zenon, <1>2, <1>9 DEF OpenInv, QueueInv, HeldInv
<1>12. TypesInv(commit_list)
  BY Zenon, <1>1 DEF TypesInv
<1>13. UpInv
  BY Zenon, <1>1, <1>5, <1>6, <1>7, <1>10, <1>11, <1>12 DEF UpInv, LoopPlace
<1>14. pc # "down"
  BY Zenon, <1>1
<1> QED BY Zenon, <1>3, <1>4, <1>8, <1>13, <1>14 DEF NInv

\* What the applier does while it is up.
UpNext ==
  \/ la_log_record_process \/ la_apply_commit_list
  \/ EndOfLog \/ TimeCommitNotDue \/ ReadPage \/ la_log_fetch
  \/ la_check_time_commit \/ la_change_state \/ DoneLoop

\* It is up, and leaves the master alone.
LEMMA UpOnly ==
  ASSUME UpNext
  PROVE  pc # "down" /\ UNCHANGED masterVars
<1>1. CASE la_log_record_process
  <2>1. pc = "read" /\ UNCHANGED masterVars
    BY Zenon, <1>1 DEF la_log_record_process, ProcessData, ProcessCrashRecovery,
       ProcessReplication, ProcessUnlockCommit, ProcessAbort, ProcessCommit,
       ProcessHaServerState, Process
  <2> QED BY Zenon, <2>1
<1>2. CASE la_apply_commit_list
  <2>1. (pc = "list" \/ pc = "item" \/ pc = "put") /\ UNCHANGED masterVars
    BY Zenon, <1>2 DEF la_apply_commit_list, ApplySkip, ApplyFirst, ApplyItem, PutItem,
       RejectItem, RetryAfterUnilateralAbort, ApplyListEnd
  <2> QED BY Zenon, <2>1
<1>3. CASE EndOfLog \/ TimeCommitNotDue \/ ReadPage \/ la_log_fetch
  <2>1. (pc = "read" \/ pc = "page" \/ pc = "top") /\ UNCHANGED masterVars
    BY Zenon, <1>3 DEF EndOfLog, TimeCommitNotDue, ReadPage, la_log_fetch, la_fetch_log_hdr
  <2> QED BY Zenon, <2>1
<1>4. CASE la_check_time_commit \/ la_change_state \/ DoneLoop
  <2>1. (pc = "page" \/ pc = "state" \/ pc = "top") /\ UNCHANGED masterVars
    BY Zenon, <1>4 DEF la_check_time_commit, la_change_state, DoneLoop, la_fetch_log_hdr
  <2> QED BY Zenon, <2>1
<1> QED BY Zenon, <1>1, <1>2, <1>3, <1>4 DEF UpNext

\* Every step of the applier that is up.
LEMMA UpKeeps ==
  ASSUME SetFacts, Inv, Inv', CInv, PlainInv, RowInv, UpInv, hdr.ha_server_state \in Live,
         PlainOperation, UpNext
  PROVE  Kept
<1>1. CASE la_log_record_process
  BY Zenon, <1>1, ReadData, ReadReplication, ReadEnd, ReadCommit, NotRead
     DEF la_log_record_process
<1>2. CASE la_apply_commit_list
  BY Zenon, <1>2, SkipStep, FirstStep, ItemStep, PutKeeps, RejectStep, NoRetry, LoopQuiet
     DEF la_apply_commit_list
<1>3. CASE EndOfLog \/ TimeCommitNotDue \/ ReadPage \/ la_log_fetch
  BY Zenon, <1>3, LoopQuiet
<1>4. CASE la_check_time_commit \/ la_change_state \/ DoneLoop
  BY Zenon, <1>4, LoopSaves
<1> QED BY Zenon, <1>1, <1>2, <1>3, <1>4 DEF UpNext

\* The records do not change in a step of the applier.
LEMMA PlainSame ==
  ASSUME PlainInv, UNCHANGED masterVars
  PROVE  PlainInv'
<1>1. log' = log /\ eof' = eof /\ tstate' = tstate /\ srv' = srv
  BY Zenon DEF masterVars
<1>2. \A n, t : Opened(n, t)' <=> Opened(n, t)
  BY Zenon, <1>1 DEF Opened
<1>3. \A n : Blocks(n)' <=> Blocks(n)
  <2>1. \A i, p : BlockTo(i, p)' <=> BlockTo(i, p)
    BY Zenon, <1>1 DEF BlockTo
  <2> QED BY Zenon, <1>1, <2>1 DEF Blocks
<1>4. FirstInv'
  <2>1. \A i : FirstOK(i)' <=> FirstOK(i)
    BY Zenon, <1>1, <1>2 DEF FirstOK
  <2> QED BY Zenon, <1>1, <2>1 DEF PlainInv, FirstInv
<1>5. BegunInv' /\ AbortInv'
  BY Zenon, <1>1, <1>2 DEF PlainInv, BegunInv, AbortInv
<1>6. Blocks(eof)' /\ (srv' # "DEAD" => Blocks(Len(log))')
  BY Zenon, <1>1, <1>3 DEF PlainInv
<1> QED BY Zenon, <1>1, <1>4, <1>5, <1>6 DEF PlainInv
=============================================================================
