-------------------------- MODULE CommitListLemmas --------------------------
(***************************************************************************)
(* Every step keeps CInv; while the log is plain, every step of the master *)
(* keeps PlainInv, and a longer log leaves what NInv says.                 *)
(***************************************************************************)
EXTENDS LogApplierLemmas

-----------------------------------------------------------------------------
(* The lists of the applier.                                               *)

\* What is copied stays as it is, and the lists with it.
LEMMA EntriesStay ==
  ASSUME eof \in Nat, eof' \in Nat, eof <= eof', \A i \in 1 .. eof : log'[i] = log[i],
         NEW list, NEW fin \in Nat, fin <= eof + 1, EntriesOK(list, fin)
  PROVE  EntriesOK(list, fin)'
<1>1. ASSUME NEW c, IsEntry(c) PROVE IsEntry(c)'
  BY <1>1 DEF IsEntry, LA_COMMIT
<1>2. ASSUME NEW q \in Nat, NEW t, q < fin, IsUnlock(q, t)' PROVE IsUnlock(q, t)
  BY <1>2 DEF IsUnlock
<1>3. \A c \in list : IsEntry(c)' /\ c.log_lsa < fin
  BY Zenon, <1>1 DEF EntriesOK
<1>4. \A c \in list, q \in Nat :
        c.log_lsa <= q /\ q < fin /\ IsUnlock(q, c.tranid)' => \E d \in list : d.log_lsa = q
  BY Zenon, <1>2 DEF EntriesOK
<1> QED BY Zenon, <1>3, <1>4 DEF EntriesOK

\* The items of the open apply lists stay items of their transactions when the
\* log keeps its prefix up to the read position.
LEMMA ItemsStay ==
  ASSUME eof \in Nat, eof' \in Nat, eof <= eof', \A i \in 1 .. eof : log'[i] = log[i],
         NEW lists \in [Tran -> LA_APPLY], ItemsOK(lists)
  PROVE  ItemsOK(lists)'
<1>1. ASSUME NEW t \in Tran, NEW i \in lists[t].items PROVE IsItem(i, t)'
  BY <1>1 DEF ItemsOK, IsItem
<1>2. \A t \in Tran : lists[t].last_lsa \in Nat /\ lists[t].last_lsa <= eof
  BY Zenon DEF ItemsOK, LA_APPLY, Lsa
<1>3. \A t \in Tran : lists[t].last_lsa <= eof'
  BY <1>2
<1> QED BY Zenon, <1>1, <1>3 DEF ItemsOK

\* A step of the master keeps what the lists say.
LEMMA ListsMaster ==
  ASSUME Inv, ListInv, ShapeKept, UNCHANGED applierVars
  PROVE  ListInv'
<1>1. /\ eof \in Nat /\ ReadTo \in Nat /\ repl_lists \in [Tran -> LA_APPLY] /\ final_lsa \in Nat
      /\ row.required_lsa \in Nat
  BY Zenon, ListTypes, InvTypes
<1>2. eof' \in Nat /\ eof <= eof' /\ \A i \in 1 .. eof : log'[i] = log[i]
  BY Zenon DEF ShapeKept
<1>3. /\ pc' = pc /\ final_lsa' = final_lsa /\ row' = row /\ commit_list' = commit_list
      /\ repl_lists' = repl_lists
  BY Zenon DEF applierVars
<1>4. ReadTo' = ReadTo /\ Applying' = Applying /\ Commit' = Commit
  BY Zenon, <1>3 DEF ReadTo, Applying, Commit
<1>5. PosInv'
  <2>1. ReadTo <= eof + 1 /\ row.required_lsa <= eof + 1 /\ (pc = "down" => commit_list = {})
    BY Zenon DEF ListInv, PosInv
  <2>2. ReadTo <= eof' + 1 /\ row.required_lsa <= eof' + 1
    BY Zenon, <1>1, <1>2, <2>1, LeqPlusOne
  <2>3. ReadTo' <= eof' + 1 /\ row'.required_lsa <= eof' + 1
    BY Zenon, <1>3, <1>4, <2>2
  <2> QED BY Zenon, <1>3, <2>1, <2>3 DEF PosInv
<1>6. LoopInv'
  BY <1>1, <1>2, <1>3, <1>4 DEF ListInv, LoopInv
<1>7. PICK L, M, F : L = commit_list /\ M = repl_lists /\ F = ReadTo
  BY Zenon
<1>8. EntriesOK(L, F)' /\ ItemsOK(M)'
  BY Zenon, <1>1, <1>2, <1>7, EntriesStay, ItemsStay DEF ListInv, PosInv
<1>9. EntriesOK(commit_list, ReadTo)' /\ ItemsOK(repl_lists)'
  BY Zenon, <1>3, <1>4, <1>7, <1>8
<1> QED BY Zenon, <1>5, <1>6, <1>9 DEF ListInv

\* A step of the applier that leaves the log, given what it does to the lists.
LEMMA ListsApplier ==
  ASSUME Inv, Inv', ListInv, UNCHANGED masterVars, pc' # "down", LoopInv',
         NEW L, L = commit_list', NEW M, M = repl_lists', NEW F, F = ReadTo',
         EntriesOK(L, F), ItemsOK(M), F <= eof + 1
  PROVE  ListInv'
<1>1. eof \in Nat /\ log' = log /\ eof' = eof
  BY Zenon, ListTypes DEF masterVars
<1>2. M \in [Tran -> LA_APPLY] /\ F \in Nat /\ final_lsa' \in Nat
  <2>1. (repl_lists \in [Tran -> LA_APPLY] /\ ReadTo \in Nat /\ final_lsa \in Nat)'
    <3>1. TypeOK' /\ PositionTypeOK' /\ ListTypeOK'
      BY Zenon DEF Inv, TypeOK
    <3>2. final_lsa' \in Nat /\ repl_lists' \in [Tran -> LA_APPLY]
      BY Zenon, <3>1 DEF PositionTypeOK, ListTypeOK, Lsa
    <3>3. ReadTo' \in {final_lsa', final_lsa' + 1}
      BY Zenon DEF ReadTo
    <3> QED BY Zenon, <3>2, <3>3, PlusOne
  <2> QED BY Zenon, <2>1
<1>3. EntriesOK(L, F)' /\ ItemsOK(M)'
  BY <1>1, <1>2, EntriesStay, ItemsStay
<1>4. EntriesOK(commit_list, ReadTo)' /\ ItemsOK(repl_lists)'
  BY Zenon, <1>3
<1>5. row'.required_lsa <= eof' + 1
  <2>1. row'.required_lsa <= final_lsa' /\ row'.required_lsa \in Nat
    BY Zenon DEF Inv, RequiredInv, TypeOK, DbTypeOK, ApplyInfo, Lsa
  <2>2. final_lsa' <= ReadTo'
    <3>1. ReadTo' \in {final_lsa', final_lsa' + 1}
      BY Zenon DEF ReadTo
    <3> QED BY Zenon, <1>2, <3>1, PlusOne
  <2> QED BY <1>1, <1>2, <2>1, <2>2
<1>6. PosInv'
  BY Zenon, <1>1, <1>5 DEF PosInv
<1> QED BY Zenon, <1>4, <1>6 DEF ListInv

\* Nothing but the read position moves, past a record that is no UNLOCK_COMMIT.
LEMMA EntriesReadOn ==
  ASSUME NEW list, NEW fin \in Nat, EntriesOK(list, fin), \A t : ~IsUnlock(fin, t)
  PROVE  EntriesOK(list, fin + 1)
<1>1. \A c \in list : IsEntry(c) /\ c.log_lsa < fin + 1
  BY DEF EntriesOK, IsEntry, LA_COMMIT, Lsa
<1>2. \A q \in Nat : q < fin + 1 => q < fin \/ q = fin
  OBVIOUS
<1>3. \A c \in list, q \in Nat :
        c.log_lsa <= q /\ q < fin + 1 /\ IsUnlock(q, c.tranid) => \E d \in list : d.log_lsa = q
  BY Zenon, <1>2 DEF EntriesOK
<1>4. \A c, d \in list : c.log_lsa = d.log_lsa => c = d
  BY Zenon DEF EntriesOK
<1> QED BY Zenon, <1>1, <1>3, <1>4 DEF EntriesOK

\* An entry for the record at the read position.
LEMMA EntriesAdd ==
  ASSUME NEW list, NEW fin \in Nat, EntriesOK(list, fin), NEW e, IsEntry(e), e.log_lsa = fin
  PROVE  EntriesOK(list \cup {e}, fin + 1)
<1>1. \A c \in list \cup {e} : IsEntry(c) /\ c.log_lsa < fin + 1
  BY DEF EntriesOK, IsEntry, LA_COMMIT, Lsa
<1>2. \A c \in list : c.log_lsa \in Nat /\ c.log_lsa < fin
  BY Zenon DEF EntriesOK, IsEntry, LA_COMMIT, Lsa
<1>3. \A c, d \in list \cup {e} : c.log_lsa = d.log_lsa => c = d
  BY <1>2 DEF EntriesOK
<1>4. ASSUME NEW c \in list \cup {e}, NEW q \in Nat, c.log_lsa <= q, q < fin + 1,
             IsUnlock(q, c.tranid)
      PROVE  \E d \in list \cup {e} : d.log_lsa = q
  <2>1. CASE q = fin
    BY Zenon, <2>1
  <2>2. CASE q # fin
    <3>1. q < fin
      BY <1>4, <2>2
    <3>2. c # e
      BY <1>4, <3>1
    <3> QED BY Zenon, <1>4, <3>1, <3>2 DEF EntriesOK
  <2> QED BY Zenon, <2>1, <2>2
<1> QED BY Zenon, <1>1, <1>3, <1>4 DEF EntriesOK

\* The entries of some transactions are removed.
LEMMA EntriesFilter ==
  ASSUME NEW list, NEW fin \in Nat, EntriesOK(list, fin), NEW U
  PROVE  EntriesOK({c \in list : c.tranid \in U}, fin)
<1> DEFINE part == {c \in list : c.tranid \in U}
<1>1. \A c \in part : IsEntry(c) /\ c.log_lsa < fin
  BY Zenon DEF EntriesOK
<1>2. \A c, d \in part : c.log_lsa = d.log_lsa => c = d
  BY Zenon DEF EntriesOK
<1>3. ASSUME NEW c \in part, NEW q \in Nat, c.log_lsa <= q, q < fin, IsUnlock(q, c.tranid)
      PROVE  \E d \in part : d.log_lsa = q
  <2>1. PICK d \in list : d.log_lsa = q
    BY Zenon, <1>3 DEF EntriesOK
  <2>2. d.tranid = c.tranid
    BY Zenon, <1>3, <2>1 DEF EntriesOK, IsEntry, IsUnlock
  <2> QED BY Zenon, <2>1, <2>2
<1> QED BY Zenon, <1>1, <1>2, <1>3 DEF EntriesOK

\* The head is removed.
LEMMA EntriesDequeue ==
  ASSUME NEW list, NEW fin \in Nat, EntriesOK(list, fin), NEW h \in list,
         \A d \in list : h.log_lsa <= d.log_lsa
  PROVE  EntriesOK(list \ {h}, fin)
<1>1. \A c \in list \ {h} : IsEntry(c) /\ c.log_lsa < fin
  BY Zenon DEF EntriesOK
<1>2. \A c, d \in list \ {h} : c.log_lsa = d.log_lsa => c = d
  BY Zenon DEF EntriesOK
<1>3. ASSUME NEW c \in list \ {h}, NEW q \in Nat, c.log_lsa <= q, q < fin, IsUnlock(q, c.tranid)
      PROVE  \E d \in list \ {h} : d.log_lsa = q
  <2>1. PICK d \in list : d.log_lsa = q
    BY Zenon, <1>3 DEF EntriesOK
  <2>2. d # h
    <3>1. ASSUME d = h PROVE FALSE
      <4>1. h.log_lsa \in Nat /\ c.log_lsa \in Nat /\ h.log_lsa <= c.log_lsa
        BY Zenon DEF EntriesOK, IsEntry, LA_COMMIT, Lsa
      <4>2. c.log_lsa = h.log_lsa
        BY <1>3, <2>1, <3>1, <4>1
      <4> QED BY Zenon, <4>2 DEF EntriesOK
    <3> QED BY Zenon, <3>1
  <2> QED BY Zenon, <2>1, <2>2
<1> QED BY Zenon, <1>1, <1>2, <1>3 DEF EntriesOK

\* When a COMMIT is read, the last entry of its transaction is the one of its
\* UNLOCK_COMMIT: the entry that la_set_commit_log marks.
LEMMA LastIsUnlock ==
  ASSUME Inv, LogShape, NEW list, EntriesOK(list, final_lsa + 1), final_lsa \in 1 .. eof,
         log[final_lsa].type = "COMMIT",
         NEW c \in list, c.tranid = log[final_lsa].trid,
         \A d \in list : d.tranid = c.tranid => d.log_lsa <= c.log_lsa
  PROVE  log[c.log_lsa].type = "UNLOCK_COMMIT"
<1>1. PICK e \in Nat, f \in Nat, p \in Nat : e = eof /\ f = final_lsa /\ p = c.log_lsa
  BY Zenon, ListTypes DEF EntriesOK, IsEntry, LA_COMMIT, Lsa
<1>2. /\ IsEntry(c) /\ p < f + 1 /\ p \in 1 .. e /\ f \in 1 .. e /\ e <= Len(log) /\ Len(log) \in Nat
      /\ log[p].trid = c.tranid /\ c.tranid \in Tran
      /\ log[p].type \in {"UNLOCK_COMMIT", "ABORT", "COMMIT_TOPOPE"}
  BY Zenon, <1>1, ListTypes DEF EntriesOK, IsEntry, LA_COMMIT, Lsa
<1>3. f \in 1 .. Len(log) /\ p \in 1 .. Len(log)
  BY <1>2
<1>4. PICK q \in 1 .. f - 1 : log[q].type = "UNLOCK_COMMIT" /\ log[q].trid = c.tranid
  BY <1>1, <1>3 DEF LogShape, CommitInv, UnlockedBefore
<1>5. q \in Nat /\ q \in 1 .. e /\ q < f + 1 /\ q \in 1 .. Len(log)
  BY <1>2, <1>3
<1>6. CASE p <= q
  <2>1. IsUnlock(q, c.tranid)
    BY Zenon, <1>1, <1>4, <1>5 DEF IsUnlock
  <2>2. PICK d \in list : d.log_lsa = q
    BY Zenon, <1>1, <1>5, <1>6, <2>1 DEF EntriesOK
  <2>3. d.tranid = c.tranid
    BY Zenon, <1>4, <2>2 DEF EntriesOK, IsEntry
  <2>4. q <= p
    BY Zenon, <1>1, <2>2, <2>3
  <2>5. q = p
    BY <1>5, <1>6, <2>4
  <2> QED BY Zenon, <1>1, <1>4, <2>5
<1>7. CASE ~(p <= q)
  <2>1. q < p
    BY <1>5, <1>7
  <2>2. log[p].type \in EndType
    BY Zenon, <1>2, <1>3, <1>4, <1>5, <2>1 DEF LogShape, OrderInv
  <2>3. p # f
    BY Zenon, <1>1, <1>2
  <2>4. p < f
    BY <1>2, <2>3
  <2>5. log[p].type \notin EndType
    BY Zenon, <1>1, <1>2, <1>3, <2>4 DEF LogShape, OrderInv
  <2> QED BY Zenon, <2>2, <2>5
<1> QED BY Zenon, <1>6, <1>7

\* la_set_commit_log marks an entry that has a record of the right kind.
LEMMA EntriesSet ==
  ASSUME NEW list, NEW fin \in Nat, EntriesOK(list, fin), NEW t,
         NEW type \in {"COMMIT", "COMMIT_TOPOPE"},
         \A c \in list : type = "COMMIT" /\ c.tranid = t
                          /\ (\A d \in list : d.tranid = t => d.log_lsa <= c.log_lsa) =>
             log[c.log_lsa].type = "UNLOCK_COMMIT"
  PROVE  EntriesOK(la_set_commit_log(list, t, type), fin)
<1> DEFINE Last == {c \in {d \in list : d.tranid = t} :
                      \A d \in {e \in list : e.tranid = t} : d.log_lsa <= c.log_lsa}
           Set(c) == [c EXCEPT !.type = type]
           new == (list \ Last) \cup {Set(c) : c \in Last}
<1>1. la_set_commit_log(list, t, type) = new
  BY Zenon DEF la_set_commit_log
<1>2. \A c \in list : /\ c \in LA_COMMIT /\ Set(c) \in LA_COMMIT
                      /\ Set(c).log_lsa = c.log_lsa /\ Set(c).tranid = c.tranid
                      /\ Set(c).type = type
  BY DEF EntriesOK, IsEntry, LA_COMMIT
<1>3. \A c \in Last : c \in list /\ (type = "COMMIT" => log[c.log_lsa].type = "UNLOCK_COMMIT")
  BY Zenon
<1> HIDE DEF Last, Set
<1>4. ASSUME NEW n \in new
      PROVE  \E c \in list : \/ c \notin Last /\ n = c
                             \/ c \in Last /\ n = Set(c)
  <2>1. CASE n \in list \ Last
    <3>1. n \in list /\ n \notin Last
      BY Zenon, <2>1
    <3> QED BY Zenon, <3>1
  <2>2. CASE n \in {Set(c) : c \in Last}
    BY Zenon, <1>3, <2>2
  <2> QED BY Zenon, <2>1, <2>2
<1>5. \A n \in new : IsEntry(n) /\ n.log_lsa < fin
  <2> TAKE n \in new
  <2>1. PICK c \in list : \/ c \notin Last /\ n = c
                          \/ c \in Last /\ n = Set(c)
    BY Zenon, <1>4
  <2>2. IsEntry(c) /\ c.log_lsa < fin
    BY Zenon DEF EntriesOK
  <2> QED BY Zenon, <1>2, <1>3, <2>1, <2>2 DEF IsEntry
<1>6. \A m, n \in new : m.log_lsa = n.log_lsa => m = n
  <2> SUFFICES ASSUME NEW m \in new, NEW n \in new, m.log_lsa = n.log_lsa PROVE m = n
    BY Zenon
  <2>1. PICK c \in list : \/ c \notin Last /\ m = c
                          \/ c \in Last /\ m = Set(c)
    BY Zenon, <1>4
  <2>2. PICK d \in list : \/ d \notin Last /\ n = d
                          \/ d \in Last /\ n = Set(d)
    BY Zenon, <1>4
  <2>3. c.log_lsa = d.log_lsa
    BY Zenon, <1>2, <2>1, <2>2
  <2>4. c = d
    BY Zenon, <2>3 DEF EntriesOK
  <2> QED BY Zenon, <2>1, <2>2, <2>4
<1>7. \A d \in list : \E n \in new : n.log_lsa = d.log_lsa
  BY Zenon, <1>2
<1>8. ASSUME NEW n \in new, NEW q \in Nat, n.log_lsa <= q, q < fin, IsUnlock(q, n.tranid)
      PROVE  \E d \in new : d.log_lsa = q
  <2>1. PICK c \in list : c.log_lsa = n.log_lsa /\ c.tranid = n.tranid
    BY Zenon, <1>2, <1>4
  <2>2. PICK d \in list : d.log_lsa = q
    BY Zenon, <1>8, <2>1 DEF EntriesOK
  <2> QED BY Zenon, <1>7, <2>2
<1> HIDE DEF new
<1> QED BY Zenon, <1>1, <1>5, <1>6, <1>8 DEF EntriesOK

-----------------------------------------------------------------------------
(* The steps of the applier.                                               *)

\* A step that leaves the master's log leaves its shape.
LEMMA ShapeStays ==
  ASSUME LogShape, UNCHANGED masterVars
  PROVE  LogShape'
<1>1. log' = log /\ tstate' = tstate
  BY Zenon DEF masterVars
<1>2. OrderInv' /\ StateInv'
  BY Zenon, <1>1 DEF LogShape, OrderInv, StateInv
<1>3. \A j, t : UnlockedBefore(j, t) => UnlockedBefore(j, t)'
  BY Zenon, <1>1 DEF UnlockedBefore
<1>4. CommitInv'
  BY Zenon, <1>1, <1>3 DEF LogShape, CommitInv
<1> QED BY Zenon, <1>2, <1>4 DEF LogShape

\* The lists that the first record of a transaction opens.
LEMMA ItemsOpened ==
  ASSUME Inv, ItemsOK(repl_lists)
  PROVE  ItemsOK(Lists)
<1>1. eof \in Nat /\ repl_lists \in [Tran -> LA_APPLY]
  BY Zenon, ListTypes
<1>2. PICK a : a = [FreeApply EXCEPT !.used = TRUE, !.start_lsa = final_lsa]
  BY Zenon
<1>3. a.last_lsa = 0 /\ a.items = {}
  BY Zenon, <1>2 DEF FreeApply
<1>4. CASE Lists = repl_lists
  BY Zenon, <1>4
<1>5. CASE Lists = [repl_lists EXCEPT ![Record.trid] = a]
  <2>1. \A t \in Tran : Lists[t] = a \/ Lists[t] = repl_lists[t]
    BY Zenon, <1>1, <1>5
  <2>2. 0 <= eof
    BY <1>1
  <2> QED BY Zenon, <1>3, <2>1, <2>2 DEF ItemsOK
<1>6. Lists = repl_lists \/ Lists = [repl_lists EXCEPT ![Record.trid] = a]
  BY Zenon, <1>2 DEF Lists, la_add_apply_list
<1> QED BY Zenon, <1>4, <1>5, <1>6

\* A replication record is put in the list of its transaction.
LEMMA ItemsSet ==
  ASSUME SetFacts, NEW lists \in [Tran -> LA_APPLY], ItemsOK(lists), NEW t \in Tran, NEW lsa \in Nat,
         IsItem(lsa, t)
  PROVE  ItemsOK(la_set_repl_log(lists, t, lsa))
<1> DEFINE apply == lists[t]
           new == la_set_repl_log(lists, t, lsa)
<1>0. /\ apply \in LA_APPLY /\ apply.items \subseteq Nat /\ lsa <= eof
      /\ \A i \in apply.items : IsItem(i, t)
  BY DEF ItemsOK, IsItem, LA_APPLY, Lsa
<1>1. PICK a, b, c :
        /\ a = [apply EXCEPT !.last_lsa = lsa]
        /\ b = [apply EXCEPT !.items = {First(apply.items)}, !.is_long_trans = TRUE,
                             !.last_lsa = lsa]
        /\ c = [apply EXCEPT !.items = apply.items \cup {lsa}]
  BY Zenon
<1>2. /\ a.items = apply.items /\ a.last_lsa = lsa
      /\ b.items = {First(apply.items)} /\ b.last_lsa = lsa
      /\ c.items = apply.items \cup {lsa} /\ c.last_lsa = apply.last_lsa
  BY Zenon, <1>0, <1>1 DEF LA_APPLY
<1>3. \/ new = lists
      \/ new = [lists EXCEPT ![t] = a]
      \/ new = [lists EXCEPT ![t] = b] /\ Cardinality(apply.items) >= LA_MAX_REPL_ITEMS
      \/ new = [lists EXCEPT ![t] = c]
  BY Zenon, <1>1 DEF la_set_repl_log
<1>4. Cardinality(apply.items) >= LA_MAX_REPL_ITEMS => apply.items # {}
  BY LogApplierAssumption DEF SetFacts
<1>5. Cardinality(apply.items) >= LA_MAX_REPL_ITEMS => IsItem(First(apply.items), t)
  BY Zenon, <1>0, <1>4, FirstIsLeast
<1>6. apply.last_lsa <= eof
  BY Zenon DEF ItemsOK
<1>7. \A r \in {a, b, c} : [lists EXCEPT ![t] = r][t] = r
                           /\ \A u \in Tran : u # t => [lists EXCEPT ![t] = r][u] = lists[u]
  BY Zenon
<1>8. ASSUME NEW r \in {a, b, c}, r.last_lsa <= eof, \A i \in r.items : IsItem(i, t)
      PROVE  ItemsOK([lists EXCEPT ![t] = r])
  BY Zenon, <1>7, <1>8 DEF ItemsOK
<1> HIDE DEF apply, new
<1>9. /\ ItemsOK([lists EXCEPT ![t] = a])
      /\ Cardinality(apply.items) >= LA_MAX_REPL_ITEMS => ItemsOK([lists EXCEPT ![t] = b])
      /\ ItemsOK([lists EXCEPT ![t] = c])
  BY Zenon, <1>0, <1>2, <1>5, <1>6, <1>8
<1>10. ItemsOK(new)
  BY Zenon, <1>3, <1>9
<1> QED BY Zenon, <1>10 DEF new

\* A record that gives no entry is passed.
LEMMA ReadOnStep ==
  ASSUME Inv, Inv', CInv, UNCHANGED masterVars, pc = "read", final_lsa <= hdr.eof_lsa,
         Record.type # "UNLOCK_COMMIT", commit_list' = commit_list,
         final_lsa' = final_lsa + 1, pc' \in {"page", "read"},
         NEW M, M = repl_lists', ItemsOK(M)
  PROVE  CInv'
<1>1. /\ final_lsa \in 1 .. eof /\ Record = log[final_lsa] /\ final_lsa + 1 <= eof + 1
      /\ ReadTo = final_lsa /\ final_lsa \in Nat
  BY Zenon, AtRecord, ListTypes
<1>2. ReadTo' = final_lsa + 1 /\ LoopInv' /\ pc' # "down"
  BY Zenon DEF ReadTo, Applying, LoopInv
<1>3. PICK L, F : L = commit_list' /\ F = final_lsa + 1
  BY Zenon
<1>4. \A t : ~IsUnlock(final_lsa, t)
  BY Zenon, <1>1 DEF IsUnlock
<1>5. EntriesOK(commit_list, final_lsa)
  BY Zenon, <1>1 DEF CInv, ListInv
<1>6. EntriesOK(L, F)
  BY Zenon, <1>1, <1>3, <1>4, <1>5, EntriesReadOn
<1>7. ListInv'
  BY Zenon, <1>1, <1>2, <1>3, <1>6, ListsApplier DEF CInv
<1> QED BY Zenon, <1>7, ShapeStays DEF CInv

\* A record that gives an entry.
LEMMA AddEntryStep ==
  ASSUME Inv, Inv', CInv, UNCHANGED masterVars, pc = "read", final_lsa <= hdr.eof_lsa,
         NEW type \in {"UNLOCK_COMMIT", "ABORT"}, Record.type = type,
         commit_list' = commit_list \cup {CommitEntry(type, Record.trid)},
         repl_lists' = Lists, Advance
  PROVE  CInv'
<1>1. /\ final_lsa \in 1 .. eof /\ Record = log[final_lsa] /\ final_lsa + 1 <= eof + 1
      /\ ReadTo = final_lsa /\ final_lsa \in Nat /\ Record \in OwnedRec
  BY Zenon, AtRecord, ListTypes
<1>2. ReadTo' = final_lsa + 1 /\ LoopInv' /\ pc' # "down"
  BY Zenon, AdvanceTo
<1>3. PICK L, M, F : L = commit_list' /\ M = Lists /\ F = final_lsa + 1
  BY Zenon
<1>4. PICK e : e = CommitEntry(type, Record.trid)
  BY Zenon
<1>5. Record.trid \in Tran
  BY Zenon, <1>1 DEF OwnedRec, SystemType
<1>6. IsEntry(e) /\ e.log_lsa = final_lsa
  BY Zenon, <1>1, <1>4, <1>5 DEF CommitEntry, IsEntry, LA_COMMIT, Lsa
<1>7. EntriesOK(commit_list, final_lsa) /\ ItemsOK(repl_lists)
  BY Zenon, <1>1 DEF CInv, ListInv
<1>8. EntriesOK(L, F)
  BY Zenon, <1>1, <1>3, <1>4, <1>6, <1>7, EntriesAdd
<1>9. ItemsOK(M)
  BY Zenon, <1>3, <1>7, ItemsOpened
<1>10. ListInv'
  BY Zenon, <1>1, <1>2, <1>3, <1>8, <1>9, ListsApplier DEF CInv
<1> QED BY Zenon, <1>10, ShapeStays DEF CInv

\* la_log_record_process for the records that are no commits.
LEMMA RecordStep ==
  ASSUME SetFacts, Inv, Inv', CInv,
         \/ ProcessData \/ ProcessReplication \/ ProcessUnlockCommit \/ ProcessAbort
         \/ ProcessCrashRecovery \/ ProcessHaServerState
  PROVE  CInv'
<1>1. UNCHANGED masterVars /\ pc = "read" /\ final_lsa <= hdr.eof_lsa
  BY Zenon DEF ProcessData, ProcessReplication, ProcessUnlockCommit, ProcessAbort,
               ProcessCrashRecovery, ProcessHaServerState, Process
<1>2. ItemsOK(repl_lists) /\ ItemsOK(Lists)
  BY Zenon, ItemsOpened DEF CInv, ListInv
<1>3. PICK M : M = repl_lists'
  BY Zenon
<1>4. CASE ProcessData
  <2>1. Record.type = "DATA" /\ repl_lists' = Lists /\ Advance /\ commit_list' = commit_list
    BY Zenon, <1>4 DEF ProcessData, Process
  <2> QED BY Zenon, <1>1, <1>2, <1>3, <2>1, AdvancePc, ReadOnStep
<1>5. CASE ProcessReplication
  <2>1. /\ Record.type = "REPLICATION" /\ Advance /\ commit_list' = commit_list
        /\ repl_lists' = la_set_repl_log(Lists, Record.trid, final_lsa)
    BY Zenon, <1>5 DEF ProcessReplication, Process
  <2>2. /\ Record = log[final_lsa] /\ final_lsa \in 1 .. eof /\ final_lsa \in Nat
        /\ Record \in OwnedRec
    BY Zenon, <1>1, AtRecord, ListTypes
  <2>3. Record.trid \in Tran /\ Lists \in [Tran -> LA_APPLY]
    BY Zenon, <1>1, <2>1, <2>2, ListsOpened DEF SystemType
  <2>4. IsItem(final_lsa, Record.trid)
    BY Zenon, <2>1, <2>2 DEF IsItem
  <2>5. ItemsOK(M)
    BY Zenon, <1>2, <1>3, <2>1, <2>2, <2>3, <2>4, ItemsSet
  <2> QED BY Zenon, <1>1, <1>3, <2>1, <2>5, AdvancePc, ReadOnStep
<1>6. CASE ProcessUnlockCommit
  <2>1. /\ Record.type = "UNLOCK_COMMIT" /\ Advance /\ repl_lists' = Lists
        /\ commit_list' = commit_list \cup {CommitEntry("UNLOCK_COMMIT", Record.trid)}
    BY Zenon, <1>6 DEF ProcessUnlockCommit, Process
  <2> QED BY Zenon, <1>1, <2>1, AddEntryStep
<1>7. CASE ProcessAbort
  <2>1. /\ Record.type = "ABORT" /\ Advance /\ repl_lists' = Lists
        /\ commit_list' = commit_list \cup {CommitEntry("ABORT", Record.trid)}
    BY Zenon, <1>7 DEF ProcessAbort, Process
  <2> QED BY Zenon, <1>1, <2>1, AddEntryStep
<1>8. CASE ProcessCrashRecovery
  <2>1. /\ Record.type = "DUMMY_CRASH_RECOVERY" /\ final_lsa' = final_lsa + 1 /\ pc' = "page"
        /\ commit_list' = commit_list /\ repl_lists' = repl_lists
    BY Zenon, <1>8 DEF ProcessCrashRecovery, Process, listVars
  <2> QED BY Zenon, <1>1, <1>2, <1>3, <2>1, ReadOnStep
<1>9. CASE ProcessHaServerState
  <2>1. /\ Record.type = "DUMMY_HA_SERVER_STATE"
        /\ commit_list' = commit_list /\ repl_lists' = repl_lists
        /\ Advance \/ (pc' = "page" /\ final_lsa' = final_lsa)
    BY Zenon, <1>9 DEF ProcessHaServerState, Process, listVars
  <2>2. CASE Advance
    BY Zenon, <1>1, <1>2, <1>3, <2>1, <2>2, AdvancePc, ReadOnStep
  <2>3. CASE pc' = "page" /\ final_lsa' = final_lsa
    <3>1. ReadTo' = final_lsa /\ ReadTo = final_lsa /\ LoopInv' /\ pc' # "down"
      BY Zenon, <1>1, <2>3 DEF ReadTo, Applying, LoopInv
    <3>2. PICK L, F : L = commit_list' /\ F = final_lsa
      BY Zenon
    <3>3. EntriesOK(L, F) /\ F <= eof + 1 /\ ItemsOK(M)
      BY Zenon, <1>2, <1>3, <2>1, <3>1, <3>2 DEF CInv, ListInv, PosInv
    <3>4. ListInv'
      BY Zenon, <1>1, <1>3, <3>1, <3>2, <3>3, ListsApplier DEF CInv
    <3> QED BY Zenon, <1>1, <3>4, ShapeStays DEF CInv
  <2> QED BY Zenon, <2>1, <2>2, <2>3
<1> QED BY Zenon, <1>4, <1>5, <1>6, <1>7, <1>8, <1>9

\* A step that leaves the lists and what they cover.
LEMMA QuietListStep ==
  ASSUME Inv, Inv', CInv, UNCHANGED masterVars, UNCHANGED listVars, ReadTo' = ReadTo,
         LoopInv', pc' # "down"
  PROVE  CInv'
<1>1. PICK L, M, F : L = commit_list' /\ M = repl_lists' /\ F = ReadTo
  BY Zenon
<1>2. L = commit_list /\ M = repl_lists
  BY Zenon, <1>1 DEF listVars
<1>3. EntriesOK(L, F) /\ ItemsOK(M) /\ F <= eof + 1
  BY Zenon, <1>1, <1>2 DEF CInv, ListInv, PosInv
<1>4. ListInv'
  BY Zenon, <1>1, <1>3, ListsApplier DEF CInv
<1> QED BY Zenon, <1>4, ShapeStays DEF CInv

\* The main loop around the records.
LEMMA MainLoopStep ==
  ASSUME Inv, Inv', CInv,
         \/ EndOfLog \/ TimeCommitNotDue \/ la_check_time_commit \/ DoneLoop \/ ReadPage
         \/ la_log_fetch \/ ApplyListEnd
  PROVE  CInv'
<1>1. CASE EndOfLog \/ TimeCommitNotDue \/ la_check_time_commit \/ DoneLoop \/ ReadPage
           \/ la_log_fetch
  <2>1. /\ UNCHANGED masterVars /\ UNCHANGED listVars /\ final_lsa' = final_lsa
        /\ pc \in {"read", "page", "top"} /\ pc' \in {"page", "state", "read", "top"}
    BY <1>1, Zenon DEF EndOfLog, TimeCommitNotDue, la_check_time_commit, DoneLoop, ReadPage,
       la_log_fetch, la_fetch_log_hdr
  <2>2. ReadTo' = ReadTo /\ LoopInv' /\ pc' # "down"
    BY Zenon, <2>1 DEF ReadTo, Applying, LoopInv
  <2> QED BY Zenon, <2>1, <2>2, QuietListStep
<1>2. CASE ApplyListEnd
  <2>1. UNCHANGED masterVars /\ UNCHANGED listVars /\ Advance /\ pc = "list"
    BY <1>2, Zenon DEF ApplyListEnd
  <2>2. ReadTo' = ReadTo /\ LoopInv' /\ pc' # "down"
    BY Zenon, <2>1, AdvanceTo DEF ReadTo, Applying
  <2> QED BY Zenon, <2>1, <2>2, QuietListStep
<1> QED BY Zenon, <1>1, <1>2

\* LOG_COMMIT and LOG_COMMIT_TOPOPE.
LEMMA CommitStep ==
  ASSUME Inv, Inv', CInv, ProcessCommit
  PROVE  CInv'
<1> DEFINE t == Record.trid
           list == IF Record.type = "COMMIT" THEN commit_list
                   ELSE commit_list \cup {CommitEntry("UNLOCK_COMMIT", t)}
<1>1. /\ UNCHANGED masterVars /\ pc = "read" /\ final_lsa <= hdr.eof_lsa
      /\ Record.type \in {"COMMIT", "COMMIT_TOPOPE"}
  BY Zenon DEF ProcessCommit, Process
<1>2. /\ final_lsa \in 1 .. eof /\ Record = log[final_lsa] /\ final_lsa + 1 <= eof + 1
      /\ ReadTo = final_lsa /\ final_lsa \in Nat /\ Record \in OwnedRec
  BY Zenon, <1>1, AtRecord, ListTypes
<1>3. EntriesOK(commit_list, final_lsa) /\ ItemsOK(repl_lists)
  BY Zenon, <1>2 DEF CInv, ListInv
<1>4. t \in Tran
  BY Zenon, <1>1, <1>2 DEF OwnedRec, SystemType
<1>5. EntriesOK(list, final_lsa + 1)
  <2>1. CASE Record.type = "COMMIT"
    <3>1. \A u : ~IsUnlock(final_lsa, u)
      BY Zenon, <1>2, <2>1 DEF IsUnlock
    <3> QED BY Zenon, <1>2, <1>3, <2>1, <3>1, EntriesReadOn
  <2>2. CASE Record.type = "COMMIT_TOPOPE"
    <3>1. PICK e : e = CommitEntry("UNLOCK_COMMIT", t)
      BY Zenon
    <3>2. IsEntry(e) /\ e.log_lsa = final_lsa
      BY Zenon, <1>2, <1>4, <2>2, <3>1 DEF CommitEntry, IsEntry, LA_COMMIT, Lsa
    <3>3. list = commit_list \cup {e}
      BY Zenon, <2>2, <3>1
    <3> QED BY Zenon, <1>2, <1>3, <3>2, <3>3, EntriesAdd
  <2> QED BY Zenon, <1>1, <2>1, <2>2
<1>6. \/ /\ commit_list' = la_set_commit_log(list, t, Record.type) /\ repl_lists' = Lists
         /\ pc' = "list" /\ final_lsa' = final_lsa
      \/ la_free_repl_items_by_tranid(list, t) /\ Advance
  BY Zenon DEF ProcessCommit
<1> HIDE DEF list
<1>7. PICK L, M, F : L = commit_list' /\ M = repl_lists' /\ F = final_lsa + 1
  BY Zenon
<1>8. CASE /\ commit_list' = la_set_commit_log(list, t, Record.type) /\ repl_lists' = Lists
           /\ pc' = "list" /\ final_lsa' = final_lsa
  <2>1. ASSUME NEW c \in list, Record.type = "COMMIT", c.tranid = t,
               \A d \in list : d.tranid = t => d.log_lsa <= c.log_lsa
        PROVE  log[c.log_lsa].type = "UNLOCK_COMMIT"
    BY Zenon, <1>2, <1>5, <2>1, LastIsUnlock DEF CInv
  <2>2. EntriesOK(la_set_commit_log(list, t, Record.type), final_lsa + 1)
    <3>1. final_lsa + 1 \in Nat
      BY <1>2
    <3> QED BY Zenon, <1>1, <1>5, <2>1, <3>1, EntriesSet
  <2>3. ItemsOK(M)
    BY Zenon, <1>3, <1>7, <1>8, ItemsOpened
  <2>4. ReadTo' = F /\ pc' # "down"
    BY Zenon, <1>7, <1>8 DEF ReadTo, Applying
  <2>5. LoopInv'
    BY Zenon, <1>1, <1>2, <1>8 DEF LoopInv, Applying, masterVars
  <2>6. EntriesOK(L, F) /\ F <= eof + 1
    BY Zenon, <1>2, <1>7, <1>8, <2>2
  <2>7. ListInv'
    BY Zenon, <1>1, <1>7, <2>3, <2>4, <2>5, <2>6, ListsApplier DEF CInv
  <2> QED BY Zenon, <1>1, <2>7, ShapeStays DEF CInv
<1>9. CASE la_free_repl_items_by_tranid(list, t) /\ Advance
  <2>1. /\ repl_lists' = [repl_lists EXCEPT ![t] = FreeApply]
        /\ commit_list' = {c \in list : c.tranid # t}
    BY Zenon, <1>9 DEF la_free_repl_items_by_tranid
  <2>2. commit_list' = {c \in list : c.tranid \in Tran \ {t}}
    BY Zenon, <1>5, <2>1 DEF EntriesOK, IsEntry, LA_COMMIT
  <2>3. final_lsa + 1 \in Nat
    BY <1>2
  <2>4. EntriesOK(L, F)
    BY Zenon, <1>5, <1>7, <2>2, <2>3, EntriesFilter
  <2>5. ItemsOK(M)
    <3>1. repl_lists \in [Tran -> LA_APPLY] /\ eof \in Nat
      BY Zenon, ListTypes
    <3>2. \A u \in Tran : M[u] = FreeApply \/ M[u] = repl_lists[u]
      BY Zenon, <1>7, <2>1, <3>1
    <3>3. FreeApply.items = {} /\ FreeApply.last_lsa <= eof
      BY <3>1 DEF FreeApply
    <3> QED BY Zenon, <1>3, <3>2, <3>3 DEF ItemsOK
  <2>6. ReadTo' = F /\ LoopInv' /\ pc' # "down"
    BY Zenon, <1>7, <1>9, AdvanceTo
  <2>7. ListInv'
    BY Zenon, <1>1, <1>2, <1>7, <2>4, <2>5, <2>6, ListsApplier DEF CInv
  <2> QED BY <1>1, <2>7, ShapeStays DEF CInv
<1> QED BY Zenon, <1>6, <1>8, <1>9

\* One list is replaced, by items that are items of its transaction.
LEMMA ItemsReplaced ==
  ASSUME Inv, ItemsOK(repl_lists), NEW t \in Tran, NEW new, new.last_lsa <= eof,
         \A i \in new.items : IsItem(i, t)
  PROVE  ItemsOK([repl_lists EXCEPT ![t] = new])
<1>1. repl_lists \in [Tran -> LA_APPLY]
  BY Zenon, ListTypes
<1>2. /\ [repl_lists EXCEPT ![t] = new][t] = new
      /\ \A u \in Tran : u # t => [repl_lists EXCEPT ![t] = new][u] = repl_lists[u]
  BY Zenon, <1>1
<1> QED BY Zenon, <1>2 DEF ItemsOK

\* la_free_all_repl_items and la_clear_applied_info leave no item.
LEMMA AfterCommitItems ==
  ASSUME NEW apply \in LA_APPLY, apply.last_lsa <= eof, eof \in Nat, NEW type
  PROVE  AfterCommit(apply, type).last_lsa <= eof /\ AfterCommit(apply, type).items = {}
<1>1. CASE type = "COMMIT_TOPOPE"
  BY Zenon, <1>1 DEF AfterCommit, LA_APPLY
<1>2. CASE type # "COMMIT_TOPOPE"
  BY <1>2 DEF AfterCommit, FreeApply
<1> QED BY Zenon, <1>1, <1>2

\* The entry at the head is done with.
LEMMA DequeueStep ==
  ASSUME SetFacts, Inv, Inv', CInv, UNCHANGED masterVars, Applying, commit_list # {}, Dequeue,
         final_lsa' = final_lsa, NEW M, M = repl_lists', ItemsOK(M)
  PROVE  CInv'
<1>1. commit_list' = commit_list \ {Commit} /\ pc' = "list"
  BY Zenon DEF Dequeue
<1>2. ReadTo' = ReadTo /\ pc' # "down"
  BY Zenon, <1>1 DEF ReadTo, Applying
<1>3. LoopInv'
  BY Zenon, <1>1 DEF CInv, ListInv, LoopInv, Applying, masterVars
<1>4. PICK L, F : L = commit_list' /\ F = ReadTo
  BY Zenon
<1>5. EntriesOK(L, F) /\ F <= eof + 1
  <2>1. EntriesOK(commit_list, ReadTo) /\ ReadTo <= eof + 1 /\ ReadTo \in Nat
    BY Zenon, ListTypes DEF CInv, ListInv, PosInv
  <2> QED BY Zenon, <1>1, <1>4, <2>1, CommitOldest, EntriesDequeue
<1>6. ListInv'
  BY Zenon, <1>2, <1>3, <1>4, <1>5, ListsApplier DEF CInv
<1> QED BY Zenon, <1>6, ShapeStays DEF CInv

\* An item is done with: the next one, or the end of the entry.
LEMMA ItemDoneStep ==
  ASSUME SetFacts, Inv, Inv', CInv, UNCHANGED masterVars, final_lsa' = final_lsa,
         pc \in {"item", "put"}, ItemDone
  PROVE  CInv'
<1> DEFINE t == Commit.tranid
           apply == repl_lists[t]
           rest == apply.items \ {item}
<1>0. commit_list # {} /\ Applying
  BY Zenon DEF Inv, ReaderInv, Applying
<1>1. t \in Tran /\ apply \in LA_APPLY /\ eof \in Nat
  BY Zenon, <1>0, CommitTyped, ListTypes
<1>2. ItemsOK(repl_lists) /\ apply.last_lsa <= eof /\ \A i \in apply.items : IsItem(i, t)
  BY Zenon, <1>1 DEF CInv, ListInv, ItemsOK
<1>3. \A S : /\ [apply EXCEPT !.items = S].items = S
             /\ [apply EXCEPT !.items = S].last_lsa = apply.last_lsa
  BY Zenon, <1>1 DEF LA_APPLY
<1>4. \A i \in rest : IsItem(i, t)
  BY Zenon, <1>2
<1>5. CASE NextItem # 0 /\ NextItem <= Commit.log_lsa
  <2>1. /\ repl_lists' = [repl_lists EXCEPT ![t] = [apply EXCEPT !.items = rest]]
        /\ pc' = "item" /\ commit_list' = commit_list
    BY Zenon, <1>5 DEF ItemDone
  <2>2. PICK new : new = [apply EXCEPT !.items = rest]
    BY Zenon
  <2>3. new.last_lsa <= eof /\ \A i \in new.items : IsItem(i, t)
    BY Zenon, <1>2, <1>3, <1>4, <2>2
  <2>4. PICK L, M, F : L = commit_list' /\ M = repl_lists' /\ F = ReadTo
    BY Zenon
  <2> HIDE DEF t, apply, rest
  <2>5. ItemsOK(M)
    BY Zenon, <1>1, <1>2, <2>1, <2>2, <2>3, <2>4, ItemsReplaced
  <2>6. EntriesOK(L, F) /\ F <= eof + 1
    BY Zenon, <2>1, <2>4 DEF CInv, ListInv, PosInv
  <2>7. ReadTo' = F /\ pc' # "down"
    BY Zenon, <1>0, <2>1, <2>4 DEF ReadTo, Applying
  <2>8. Commit' = Commit /\ log' = log /\ eof' = eof
    BY Zenon, <2>1 DEF Commit, masterVars
  <2>9. LoopInv'
    BY Zenon, <1>0, <2>1, <2>8 DEF CInv, ListInv, LoopInv, Applying
  <2>10. ListInv'
    BY Zenon, <2>4, <2>5, <2>6, <2>7, <2>9, ListsApplier DEF CInv
  <2> QED BY Zenon, <2>10, ShapeStays DEF CInv
<1>6. CASE ~(NextItem # 0 /\ NextItem <= Commit.log_lsa)
  <2> DEFINE left == IF apply.is_long_trans THEN {NextItem} ELSE rest
  <2>1. PICK new : new = IF NextItem # 0 /\ Commit.type = "COMMIT_TOPOPE"
                         THEN [apply EXCEPT !.items = left]
                         ELSE AfterCommit(apply, Commit.type)
    BY Zenon
  <2>2. repl_lists' = [repl_lists EXCEPT ![t] = new] /\ Dequeue
    BY Zenon, <1>6, <2>1 DEF ItemDone
  <2>3. NextItem # 0 => \A i \in left : IsItem(i, t)
    BY Zenon, <1>0, <1>2, <1>4, NextIsItem
  <2>4. AfterCommit(apply, Commit.type).last_lsa <= eof /\ AfterCommit(apply, Commit.type).items = {}
    BY Zenon, <1>1, <1>2, AfterCommitItems
  <2> HIDE DEF left, t, apply, rest
  <2>5. new.last_lsa <= eof /\ \A i \in new.items : IsItem(i, t)
    BY Zenon, <1>2, <1>3, <2>1, <2>3, <2>4
  <2>6. PICK M : M = repl_lists'
    BY Zenon
  <2>7. ItemsOK(M)
    BY Zenon, <1>1, <1>2, <2>2, <2>5, <2>6, ItemsReplaced
  <2> QED BY Zenon, <1>0, <2>2, <2>6, <2>7, DequeueStep
<1> QED BY Zenon, <1>5, <1>6

\* la_apply_commit_list and la_apply_repl_log.
LEMMA ApplyStep ==
  ASSUME SetFacts, Inv, Inv', CInv,
         \/ ApplySkip \/ ApplyFirst \/ ApplyItem \/ PutItem \/ RejectItem
         \/ RetryAfterUnilateralAbort
  PROVE  CInv'
<1>1. UNCHANGED masterVars /\ final_lsa' = final_lsa /\ Applying
  BY Zenon DEF ApplySkip, ApplyFirst, ApplyItem, PutItem, RejectItem, RetryAfterUnilateralAbort,
               Applying
<1>2. ASSUME UNCHANGED listVars, pc' \in {"item", "put"},
             Commit.type \in {"COMMIT", "COMMIT_TOPOPE"}
      PROVE  CInv'
  <2>1. ReadTo' = ReadTo /\ pc' # "down"
    BY Zenon, <1>1, <1>2 DEF ReadTo, Applying
  <2>2. Commit' = Commit /\ log' = log /\ eof' = eof
    BY Zenon, <1>1, <1>2 DEF Commit, masterVars, listVars
  <2>3. LoopInv'
    BY Zenon, <1>1, <1>2, <2>2 DEF CInv, ListInv, LoopInv, Applying
  <2> QED BY Zenon, <1>1, <1>2, <2>1, <2>3, QuietListStep
<1>3. CASE ApplySkip
  <2> DEFINE t == Commit.tranid
  <2>1. /\ commit_list # {} /\ Dequeue
        /\ repl_lists' = IF repl_lists[t].used
                         THEN [repl_lists EXCEPT ![t] = AfterCommit(@, Commit.type)]
                         ELSE repl_lists
    BY Zenon, <1>3 DEF ApplySkip, HeadReady
  <2>2. t \in Tran /\ repl_lists[t] \in LA_APPLY /\ eof \in Nat
    BY Zenon, <2>1, CommitTyped, ListTypes
  <2>3. ItemsOK(repl_lists) /\ repl_lists[t].last_lsa <= eof
    BY Zenon, <2>2 DEF CInv, ListInv, ItemsOK
  <2>4. PICK M, new : M = repl_lists' /\ new = AfterCommit(repl_lists[t], Commit.type)
    BY Zenon
  <2>5. new.last_lsa <= eof /\ \A i \in new.items : IsItem(i, t)
    BY Zenon, <2>2, <2>3, <2>4, AfterCommitItems
  <2>6. M = repl_lists \/ M = [repl_lists EXCEPT ![t] = new]
    BY Zenon, <2>1, <2>4
  <2> HIDE DEF t
  <2>7. ItemsOK(M)
    BY Zenon, <2>2, <2>3, <2>5, <2>6, ItemsReplaced
  <2> QED BY Zenon, <1>1, <2>1, <2>4, <2>7, DequeueStep
<1>4. CASE ApplyFirst
  <2>1. UNCHANGED listVars /\ pc' = "item" /\ HeadReady /\ ~NothingToApply
    BY Zenon, <1>4 DEF ApplyFirst
  <2>2. Commit.type \in {"COMMIT", "COMMIT_TOPOPE"}
    <3>1. Commit \in LA_COMMIT /\ Commit.type # "UNLOCK_COMMIT"
      BY Zenon, <2>1, CommitOldest, ListTypes DEF HeadReady
    <3>2. Commit.type # "ABORT"
      BY Zenon, <2>1 DEF NothingToApply
    <3> QED BY Zenon, <3>1, <3>2 DEF LA_COMMIT
  <2> QED BY Zenon, <1>2, <2>1, <2>2
<1>5. CASE ApplyItem \/ PutItem \/ RejectItem \/ RetryAfterUnilateralAbort
  <2>1. /\ pc \in {"item", "put"}
        /\ ItemDone \/ (UNCHANGED listVars /\ pc' \in {"item", "put"})
    BY Zenon, <1>5 DEF ApplyItem, PutItem, RejectItem, RetryAfterUnilateralAbort
  <2>2. Commit.type \in {"COMMIT", "COMMIT_TOPOPE"}
    BY Zenon, <2>1 DEF CInv, ListInv, LoopInv
  <2> QED BY Zenon, <1>1, <1>2, <2>1, <2>2, ItemDoneStep
<1> QED BY Zenon, <1>3, <1>4, <1>5

\* la_change_state may drop every list, with the entries of the open ones.
LEMMA ChangeStep ==
  ASSUME Inv, Inv', CInv, la_change_state
  PROVE  CInv'
<1>1. UNCHANGED masterVars /\ final_lsa' = final_lsa /\ pc = "state" /\ pc' = "top"
  BY Zenon DEF la_change_state
<1>2. \/ UNCHANGED listVars
      \/ /\ repl_lists' = [t \in Tran |-> FreeApply]
         /\ commit_list' = {c \in commit_list : ~repl_lists[c.tranid].used}
  BY Zenon DEF la_change_state
<1>3. ReadTo' = ReadTo /\ LoopInv' /\ pc' # "down"
  BY Zenon, <1>1 DEF ReadTo, Applying, LoopInv
<1>4. CASE UNCHANGED listVars
  BY Zenon, <1>1, <1>3, <1>4, QuietListStep
<1>5. CASE /\ repl_lists' = [t \in Tran |-> FreeApply]
           /\ commit_list' = {c \in commit_list : ~repl_lists[c.tranid].used}
  <2>1. PICK L, M, F : L = commit_list' /\ M = repl_lists' /\ F = ReadTo
    BY Zenon
  <2>2. ItemsOK(M)
    <3>1. eof \in Nat
      BY Zenon, ListTypes
    <3> QED BY <1>5, <2>1, <3>1 DEF ItemsOK, FreeApply
  <2>3. PICK U : U = {t \in Tran : ~repl_lists[t].used}
    BY Zenon
  <2>4. L = {c \in commit_list : c.tranid \in U}
    BY Zenon, <1>5, <2>1, <2>3, ListTypes DEF LA_COMMIT
  <2>5. EntriesOK(commit_list, ReadTo) /\ ReadTo <= eof + 1 /\ ReadTo \in Nat
    BY Zenon, ListTypes DEF CInv, ListInv, PosInv
  <2>6. EntriesOK(L, F) /\ F <= eof + 1
    <3>1. EntriesOK({c \in commit_list : c.tranid \in U}, ReadTo)
      BY Zenon, <2>5, EntriesFilter
    <3> QED BY Zenon, <2>1, <2>4, <2>5, <3>1
  <2>7. ListInv'
    BY Zenon, <1>1, <1>3, <2>1, <2>2, <2>6, ListsApplier DEF CInv
  <2> QED BY Zenon, <1>1, <2>7, ShapeStays DEF CInv
<1> QED BY Zenon, <1>2, <1>4, <1>5

\* The process stops, or starts from the row.
LEMMA StopStartStep ==
  ASSUME Inv, Inv', CInv, la_shutdown \/ la_get_last_ha_applied_info
  PROVE  CInv'
<1>1. CASE la_shutdown
  <2>1. /\ UNCHANGED masterVars /\ pc' = "down" /\ final_lsa' = 0 /\ commit_list' = {}
        /\ repl_lists' = [t \in Tran |-> FreeApply] /\ row' = row
    BY Zenon, <1>1 DEF la_shutdown
  <2>2. eof \in Nat /\ eof' = eof /\ row.required_lsa <= eof + 1
    BY Zenon, <2>1, ListTypes DEF masterVars, CInv, ListInv, PosInv
  <2>3. ReadTo' = 0 /\ ~Applying'
    BY Zenon, <2>1 DEF ReadTo, Applying
  <2>4. 0 <= eof' /\ 0 <= eof' + 1
    BY <2>2
  <2>5. PosInv' /\ LoopInv'
    BY Zenon, <2>1, <2>2, <2>3, <2>4 DEF PosInv, LoopInv
  <2>6. ItemsOK(repl_lists)' /\ EntriesOK(commit_list, ReadTo)'
    BY Zenon, <2>1, <2>4 DEF ItemsOK, EntriesOK, FreeApply
  <2> QED BY Zenon, <2>1, <2>5, <2>6, ShapeStays DEF CInv, ListInv
<1>2. CASE la_get_last_ha_applied_info
  <2>1. /\ UNCHANGED masterVars /\ UNCHANGED listVars /\ final_lsa' = row.required_lsa
        /\ pc = "down" /\ pc' = "top"
    BY Zenon, <1>2 DEF la_get_last_ha_applied_info, StartAt
  <2>2. ReadTo' = row.required_lsa /\ LoopInv' /\ pc' # "down"
    BY Zenon, <2>1 DEF ReadTo, Applying, LoopInv
  <2>3. PICK L, M, F : L = commit_list' /\ M = repl_lists' /\ F = row.required_lsa
    BY Zenon
  <2>4. L = {} /\ M = repl_lists /\ F <= eof + 1 /\ ItemsOK(repl_lists)
    BY Zenon, <2>1, <2>3 DEF listVars, CInv, ListInv, PosInv
  <2>5. EntriesOK(L, F)
    BY Zenon, <2>4 DEF EntriesOK
  <2>6. ListInv'
    BY Zenon, <2>1, <2>2, <2>3, <2>4, <2>5, ListsApplier DEF CInv
  <2> QED BY Zenon, <2>1, <2>6, ShapeStays DEF CInv
<1> QED BY Zenon, <1>1, <1>2

\* The log is empty and nothing is read.
LEMMA InitCInv == Init => CInv
<1> SUFFICES ASSUME Init PROVE CInv
  BY Zenon
<1> USE DEF Init, MasterInit, ApplierInit
<1>1. LogShape
  BY DEF LogShape, OrderInv, StateInv, CommitInv
<1>2. ReadTo = 1 /\ ~Applying
  BY Zenon DEF ReadTo, Applying
<1>3. PosInv /\ LoopInv
  BY <1>2 DEF PosInv, LoopInv, FirstRow
<1>4. ItemsOK(repl_lists) /\ EntriesOK(commit_list, ReadTo)
  BY DEF ItemsOK, EntriesOK, FreeApply
<1> QED BY Zenon, <1>1, <1>3, <1>4 DEF CInv, ListInv

\* Every step keeps the shape of the log and what the lists say of it.
LEMMA NextCInv == SetFacts /\ Inv /\ CInv /\ [Next]_vars => CInv'
<1> SUFFICES ASSUME SetFacts, Inv, CInv, [Next]_vars PROVE CInv'
  BY Zenon
<1>1. Inv'
  BY Zenon, NextKeeps DEF Keeps
<1>2. CASE UNCHANGED vars
  <2>1. ShapeKept
    BY <1>2, ShapeQuiet, InvTypes DEF CInv, vars, masterVars
  <2> QED BY Zenon, <1>2, <2>1, ListsMaster DEF CInv, ShapeKept, vars
<1>3. CASE MasterNext /\ UNCHANGED applierVars
  BY Zenon, <1>3, ShapeMaster, ListsMaster DEF CInv, ShapeKept
<1>4. CASE la_log_record_process
  BY Zenon, <1>1, <1>4, RecordStep, CommitStep DEF la_log_record_process
<1>5. CASE la_apply_commit_list
  BY Zenon, <1>1, <1>5, ApplyStep, MainLoopStep DEF la_apply_commit_list
<1>6. CASE \/ ReadPage \/ DoneLoop \/ la_log_fetch \/ EndOfLog \/ TimeCommitNotDue
           \/ la_check_time_commit \/ la_change_state \/ la_shutdown
           \/ la_get_last_ha_applied_info
  BY Zenon, <1>1, <1>6, MainLoopStep, ChangeStep, StopStartStep
<1> QED
  BY Zenon, <1>2, <1>3, <1>4, <1>5, <1>6 DEF Next, ApplierNext

\* An item behind the commit point means a system operation: the items of a
\* COMMIT precede its UNLOCK_COMMIT, which is the entry that was marked.
LEMMA CInvLeavesItems ==
  ASSUME SetFacts, Inv, CInv
  PROVE  OnlyTopopeLeavesItems
<1> SUFFICES ASSUME pc \in {"item", "put"}, NextItem > Commit.log_lsa, Commit.type = "COMMIT"
             PROVE  FALSE
  BY Zenon DEF OnlyTopopeLeavesItems, CInv, ListInv, LoopInv
<1>1. commit_list # {}
  BY Zenon DEF Inv, ReaderInv
<1>2. PICK n \in Nat, e \in Nat, p \in Nat : n = NextItem /\ e = eof /\ p = Commit.log_lsa
  BY Zenon, <1>1, NextItemTyped, CommitTyped, ListTypes
<1>3. p < n /\ n # 0
  BY <1>2
<1>4. IsItem(n, Commit.tranid)
  BY Zenon, <1>1, <1>2, <1>3, NextIsItem DEF CInv, ListInv
<1>5. IsEntry(Commit)
  BY Zenon, <1>1, CommitOldest DEF CInv, ListInv, EntriesOK
<1>6. /\ n \in 1 .. e /\ p \in 1 .. e /\ log[n].trid = log[p].trid /\ log[p].trid \in Tran
      /\ log[n].type = "REPLICATION" /\ log[p].type = "UNLOCK_COMMIT"
  BY Zenon, <1>1, <1>2, <1>4, <1>5, CommitTyped DEF IsItem, IsEntry
<1>7. e <= Len(log) /\ Len(log) \in Nat
  BY Zenon, <1>2, ListTypes
<1>8. n \in 1 .. Len(log) /\ p \in 1 .. Len(log)
  BY <1>6, <1>7
<1> QED BY Zenon, <1>3, <1>6, <1>8 DEF CInv, LogShape, OrderInv, EndType

-----------------------------------------------------------------------------
(* The steps of a plain master.                                            *)

\* A block stays a block in a log that has the same records there.
LEMMA BlockStays ==
  ASSUME NEW i \in Nat, NEW p \in Nat, BlockTo(i, p), i <= p,
         \A k \in i .. p : log'[k] = log[k]
  PROVE  BlockTo(i, p)'
<1>1. i \in i .. p /\ p \in i .. p
  OBVIOUS
<1> QED BY Zenon, <1>1 DEF BlockTo

\* The first n records are the same.
LEMMA BlocksStay ==
  ASSUME NEW n \in Nat, Blocks(n), \A k \in 1 .. n : log'[k] = log[k]
  PROVE  Blocks(n)'
<1> SUFFICES ASSUME NEW i \in 1 .. n, log'[i].type = "REPLICATION"
             PROVE  \E p \in i + 1 .. n : BlockTo(i, p)'
  BY Zenon DEF Blocks
<1>1. PICK p \in i + 1 .. n : BlockTo(i, p)
  BY Zenon DEF Blocks
<1>2. i \in Nat /\ p \in Nat /\ i <= p /\ \A k \in i .. p : k \in 1 .. n
  OBVIOUS
<1> QED BY Zenon, <1>1, <1>2, BlockStays

\* A transaction that has begun has begun.
LEMMA OpenedStays ==
  ASSUME NEW n \in Nat, NEW m \in Nat, n <= m, NEW t, Opened(n, t),
         \A k \in 1 .. n : log'[k] = log[k]
  PROVE  Opened(m, t)'
<1>1. PICK f \in 1 .. n : log[f].trid = t /\ log[f].first
  BY Zenon DEF Opened
<1>2. f \in 1 .. m /\ log'[f] = log[f]
  OBVIOUS
<1> QED BY Zenon, <1>1, <1>2 DEF Opened

\* Records of one transaction are appended: one that is no item, or items and
\* the UNLOCK_COMMIT.
LEMMA PlainExtends ==
  ASSUME Inv, LogShape, PlainInv, Extends, srv = "ACTIVE", srv' = "ACTIVE", eof' = eof,
         NEW n \in Nat, n = Len(log'), Len(log) < n, NEW t \in Tran, NEW type,
         \A j \in NewRec : log'[j].trid = t /\ (j < n => log'[j].type = "REPLICATION"),
         \A j \in NewRec : log'[j].first <=> tstate[t] = "idle",
         log'[n].type = type, type \in {"DATA", "COMMIT", "ABORT", "UNLOCK_COMMIT"},
         Len(log) + 1 < n => type = "UNLOCK_COMMIT",
         type = "DATA" <=> tstate[t] = "idle",
         type \in {"ABORT", "UNLOCK_COMMIT"} => tstate[t] = "active",
         tstate'[t] # "topop", \A u \in Tran \ {t} : tstate'[u] = tstate[u]
  PROVE  PlainInv'
<1>1. PICK l \in Nat : l = Len(log) /\ eof <= l /\ eof \in Nat
  BY Zenon, ListTypes
<1>2. /\ \A i \in 1 .. n : i \in 1 .. l \/ i \in l + 1 .. n
      /\ \A i \in 1 .. l : i \in 1 .. n /\ i \in Nat
      /\ \A i \in l + 1 .. n : i \in 1 .. n /\ i \in Nat /\ ~(i \in 1 .. l)
      /\ n \in l + 1 .. n /\ NewRec = l + 1 .. n
  BY <1>1 DEF NewRec
<1>3. \A i \in 1 .. l : log'[i] = log[i]
  BY Zenon, <1>1 DEF Extends
<1>4. \A j \in l + 1 .. n : j # n => log'[j].type = "REPLICATION" /\ type = "UNLOCK_COMMIT"
  BY <1>1, <1>2
<1>5. \A j \in l + 1 .. n : log'[j].trid = t
  BY Zenon, <1>2
<1>6. \A i \in 1 .. n : log'[i].type \in PlainType
  <2>1. ASSUME NEW i \in 1 .. l PROVE log'[i].type \in PlainType
    BY Zenon, <1>1, <1>3 DEF PlainInv
  <2>2. ASSUME NEW i \in l + 1 .. n PROVE log'[i].type \in PlainType
    BY Zenon, <1>4 DEF PlainType
  <2> QED BY Zenon, <1>2, <2>1, <2>2
<1>7. Blocks(eof)' /\ Blocks(n)'
  <2>1. Blocks(eof) /\ Blocks(l)
    BY Zenon, <1>1 DEF PlainInv
  <2>2. Blocks(eof)'
    <3>1. \A k \in 1 .. eof : k \in 1 .. l
      BY <1>1
    <3>2. PICK e \in Nat : e = eof
      BY Zenon, <1>1
    <3>3. Blocks(e)'
      BY Zenon, <1>3, <2>1, <3>1, <3>2, BlocksStay
    <3> QED BY Zenon, <3>2, <3>3
  <2>3. Blocks(l)'
    BY Zenon, <1>3, <2>1, BlocksStay
  <2>4. ASSUME NEW i \in 1 .. n, log'[i].type = "REPLICATION"
        PROVE  \E p \in i + 1 .. n : BlockTo(i, p)'
    <3>1. CASE i \in 1 .. l
      <4>1. PICK p \in i + 1 .. l : BlockTo(i, p)'
        BY Zenon, <2>3, <2>4, <3>1 DEF Blocks
      <4>2. p \in i + 1 .. n
        BY <1>1
      <4> QED BY Zenon, <4>1, <4>2
    <3>2. CASE i \in l + 1 .. n
      <4>1. i # n /\ type = "UNLOCK_COMMIT"
        BY Zenon, <1>4, <2>4, <3>2
      <4>2. n \in i + 1 .. n
        BY <4>1
      <4>3. \A k \in i .. n : k \in l + 1 .. n /\ (k < n => k # n)
        BY <3>2
      <4>4. BlockTo(i, n)'
        BY Zenon, <1>4, <1>5, <3>2, <4>1, <4>3 DEF BlockTo
      <4> QED BY Zenon, <4>2, <4>4
    <3> QED BY Zenon, <1>2, <3>1, <3>2
  <2> QED BY Zenon, <2>2, <2>4 DEF Blocks
<1>8. \A u \in Tran : tstate[u] # "idle" => Opened(l, u)
  BY Zenon, <1>1 DEF PlainInv, BegunInv
<1>9. ASSUME NEW i \in l + 1 .. n PROVE Opened(i, t)'
  <2>1. CASE tstate[t] = "idle"
    <3>1. log'[i].first /\ log'[i].trid = t
      BY Zenon, <1>2, <1>5, <1>9, <2>1
    <3>2. i \in 1 .. i
      BY <1>9
    <3> QED BY Zenon, <3>1, <3>2 DEF Opened
  <2>2. CASE tstate[t] # "idle"
    <3>1. i \in Nat /\ l <= i
      BY <1>9
    <3> QED BY Zenon, <1>1, <1>3, <1>8, <2>2, <3>1, OpenedStays
  <2> QED BY Zenon, <2>1, <2>2
<1>10. FirstInv'
  <2>1. ASSUME NEW i \in 1 .. n PROVE FirstOK(i)'
    <3>1. CASE i \in 1 .. l
      <4>1. FirstOK(i)
        BY Zenon, <1>1, <3>1 DEF PlainInv, FirstInv
      <4>2. i \in Nat /\ i <= i /\ \A k \in 1 .. i : k \in 1 .. l
        BY <1>1, <3>1
      <4>3. \A j \in 1 .. i - 1 : j \in 1 .. l
        BY <1>1, <3>1
      <4>4. log'[i] = log[i] /\ \A j \in 1 .. i - 1 : log'[j] = log[j]
        BY Zenon, <1>3, <3>1, <4>3
      <4>5. PICK r : r = log[i].trid
        BY Zenon
      <4>6. Opened(i, r)'
        BY Zenon, <1>3, <4>1, <4>2, <4>5, OpenedStays DEF FirstOK
      <4>7. Opened(i, log[i].trid)'
        BY Zenon, <4>4, <4>5, <4>6
      <4> QED BY Zenon, <4>1, <4>4, <4>7 DEF FirstOK
    <3>2. CASE i \in l + 1 .. n
      <4>1. log'[i].trid = t /\ Opened(i, t)'
        BY Zenon, <1>5, <1>9, <3>2
      <4>2. ASSUME log'[i].first
            PROVE  log'[i].type = "DATA" /\ \A j \in 1 .. i - 1 : log'[j].trid # t
        <5>1. tstate[t] = "idle" /\ type = "DATA"
          BY Zenon, <1>2, <3>2, <4>2
        <5>2. i = n
          BY Zenon, <1>4, <3>2, <5>1
        <5>3. l + 1 = n
          BY <1>1, <5>1
        <5>4. \A j \in 1 .. i - 1 : j \in 1 .. l
          BY <1>1, <5>2, <5>3
        <5>5. \A j \in 1 .. l : log[j].trid # t
          BY <1>1, <5>1 DEF LogShape, StateInv
        <5> QED BY Zenon, <1>3, <5>1, <5>2, <5>4, <5>5
      <4>3. Opened(i, log[i].trid)'
        BY Zenon, <4>1
      <4> QED BY Zenon, <4>1, <4>2, <4>3 DEF FirstOK
    <3> QED BY Zenon, <1>2, <3>1, <3>2
  <2> QED BY Zenon, <2>1 DEF FirstInv
<1>11. BegunInv'
  <2> SUFFICES ASSUME NEW u \in Tran, tstate'[u] # "idle" PROVE Opened(n, u)'
    BY Zenon DEF BegunInv
  <2>1. CASE u = t
    BY Zenon, <1>2, <1>9, <2>1
  <2>2. CASE u # t
    <3>1. Opened(l, u) /\ l <= n
      BY <1>1, <1>8, <2>2
    <3> QED BY Zenon, <1>1, <1>3, <3>1, OpenedStays
  <2> QED BY Zenon, <2>1, <2>2
<1>12. AbortInv'
  <2> SUFFICES ASSUME NEW i \in 1 .. n, NEW j \in 1 .. n, log'[i].type = "UNLOCK_COMMIT",
                      log'[j].trid = log'[i].trid, log'[j].type = "ABORT"
               PROVE  FALSE
    BY Zenon DEF AbortInv
  <2>1. CASE i \in 1 .. l /\ j \in 1 .. l
    BY <1>1, <1>3, <2>1 DEF PlainInv, AbortInv
  <2>2. CASE i \in 1 .. l /\ j \in l + 1 .. n
    <3>1. log[i].trid = t /\ log[i].type = "UNLOCK_COMMIT" /\ tstate[t] = "active"
      BY Zenon, <1>3, <1>4, <1>5, <2>2
    <3> QED BY Zenon, <1>1, <2>2, <3>1 DEF LogShape, StateInv
  <2>3. CASE i \in l + 1 .. n /\ j \in 1 .. l
    <3>1. log[j].trid = t /\ log[j].type = "ABORT" /\ tstate[t] = "active"
      BY Zenon, <1>3, <1>4, <1>5, <2>3
    <3> QED BY Zenon, <1>1, <2>3, <3>1 DEF LogShape, StateInv, EndType
  <2>4. CASE i \in l + 1 .. n /\ j \in l + 1 .. n
    BY Zenon, <1>4, <2>4
  <2> QED BY Zenon, <1>2, <2>1, <2>2, <2>3, <2>4
<1>13. \A u \in Tran : tstate'[u] # "topop"
  BY Zenon DEF PlainInv
<1> QED BY Zenon, <1>6, <1>7, <1>10, <1>11, <1>12, <1>13 DEF PlainInv, Live

\* One record that is no item.
LEMMA PlainAppend ==
  ASSUME Inv, LogShape, PlainInv, NEW t \in Tran, NEW type \in {"DATA", "COMMIT", "ABORT"},
         NEW s, srv = "ACTIVE", srv' = srv, eof' = eof, log' = Append(log, Rec(type, t)),
         tstate' = [tstate EXCEPT ![t] = s], s # "topop",
         type = "DATA" <=> tstate[t] = "idle", type = "ABORT" => tstate[t] = "active"
  PROVE  PlainInv'
<1>1. /\ log \in Seq(OwnedRec) /\ Len(log) \in Nat /\ tstate \in [Tran -> TranState]
      /\ Rec(type, t) \in OwnedRec
  BY RecOwned DEF Inv, TypeOK, MasterTypeOK, ReaderInv, LogType, SystemType
<1>2. PICK r \in OwnedRec : r = Rec(type, t)
  BY Zenon, <1>1
<1>3. r.type = type /\ r.trid = t
  BY Zenon, <1>2 DEF Rec
<1>4. r.first <=> tstate[t] = "idle"
  BY Zenon, <1>2 DEF Rec
<1>5. /\ log' \in Seq(OwnedRec) /\ Len(log') = Len(log) + 1
      /\ \A i \in 1 .. Len(log) : log'[i] = log[i]
      /\ log'[Len(log) + 1] = r
  BY <1>1, <1>2, Appended
<1>6. Extends
  BY <1>1, <1>5 DEF Extends
<1>7. PICK n \in Nat : n = Len(log')
  BY <1>1, <1>5
<1>8. /\ Len(log) < n /\ ~(Len(log) + 1 < n) /\ log'[n] = r
      /\ \A j \in NewRec : log'[j] = r /\ ~(j < n)
  BY <1>1, <1>5, <1>7 DEF NewRec
<1>9. tstate'[t] = s /\ \A u \in Tran \ {t} : tstate'[u] = tstate[u]
  BY Zenon, <1>1
<1>10. \A j \in NewRec : log'[j].trid = t /\ (j < n => log'[j].type = "REPLICATION")
  BY Zenon, <1>3, <1>8
<1>11. \A j \in NewRec : log'[j].first <=> tstate[t] = "idle"
  BY Zenon, <1>4, <1>8
<1>12. /\ log'[n].type = type /\ type \in {"DATA", "COMMIT", "ABORT", "UNLOCK_COMMIT"}
       /\ srv' = "ACTIVE" /\ (type \in {"ABORT", "UNLOCK_COMMIT"} => tstate[t] = "active")
  BY Zenon, <1>3, <1>8
<1> QED BY Zenon, <1>6, <1>7, <1>8, <1>9, <1>10, <1>11, <1>12, PlainExtends

\* The items and the UNLOCK_COMMIT of a transaction, under prior_lsa_mutex.
LEMMA PlainUnlock ==
  ASSUME Inv, LogShape, PlainInv, srv = "ACTIVE", NEW t \in Tran,
         log_append_repl_info_and_unlock_log(t)
  PROVE  PlainInv'
<1>1. /\ log \in Seq(OwnedRec) /\ Len(log) \in Nat /\ tstate \in [Tran -> TranState] /\ TypeOK
  BY DEF Inv, TypeOK, MasterTypeOK, ReaderInv
<1>2. PICK m \in 0 .. MaxItems :
        log' = log \o [i \in 1 .. m |-> Rec("REPLICATION", t)] \o <<Rec("UNLOCK_COMMIT", t)>>
  BY Zenon DEF log_append_repl_info_and_unlock_log
<1>3. /\ tstate' = [tstate EXCEPT ![t] = "unlocked"] /\ eof' = eof /\ tstate[t] = "active"
      /\ srv' = "ACTIVE"
  BY Zenon DEF log_append_repl_info_and_unlock_log
<1>4. m \in Nat
  BY ReplLogAssumption
<1>5. PICK r \in OwnedRec : r = Rec("REPLICATION", t)
  BY Zenon, <1>1, RecOwned DEF LogType, SystemType
<1>6. PICK u \in OwnedRec : u = Rec("UNLOCK_COMMIT", t)
  BY Zenon, <1>1, RecOwned DEF LogType, SystemType
<1>7. /\ r.type = "REPLICATION" /\ r.trid = t
      /\ u.type = "UNLOCK_COMMIT" /\ u.trid = t
  BY Zenon, <1>5, <1>6 DEF Rec
<1>8. ~r.first /\ ~u.first
  <2>1. tstate[t] # "idle"
    BY Zenon, <1>3
  <2> QED BY Zenon, <1>5, <1>6, <2>1 DEF Rec
<1>13. PICK n \in Nat : n = Len(log) + m + 1
  BY <1>1, <1>4
<1>14. /\ log' \in Seq(OwnedRec) /\ Len(log') = n /\ log'[n] = u
       /\ \A i \in 1 .. Len(log) : log'[i] = log[i]
       /\ \A i \in Len(log) + 1 .. Len(log) + m : log'[i] = r
  <2>1. log' = log \o [i \in 1 .. m |-> r] \o <<u>>
    BY Zenon, <1>2, <1>5, <1>6
  <2>2. /\ log' \in Seq(OwnedRec) /\ Len(log') = Len(log) + m + 1 /\ log'[Len(log) + m + 1] = u
        /\ \A i \in 1 .. Len(log) : log'[i] = log[i]
        /\ \A i \in Len(log) + 1 .. Len(log) + m : log'[i] = r
    BY <1>1, <1>4, <2>1, RunAppended
  <2> QED BY Zenon, <1>13, <2>2
<1>16. Extends /\ Len(log) < n
  BY <1>1, <1>4, <1>13, <1>14 DEF Extends
<1>17. log'[n] = u
  BY Zenon, <1>14
<1>18. ASSUME NEW j \in NewRec, j < n PROVE log'[j] = r
  <2>1. j \in Len(log) + 1 .. Len(log) + m
    BY <1>1, <1>4, <1>13, <1>14, <1>18 DEF NewRec
  <2> QED BY Zenon, <1>14, <2>1
<1>19. \A j \in NewRec : j < n \/ j = n
  BY <1>14 DEF NewRec
<1>20. \A j \in NewRec : log'[j].trid = t /\ (j < n => log'[j].type = "REPLICATION")
  BY Zenon, <1>7, <1>17, <1>18, <1>19
<1>21. \A j \in NewRec : log'[j].first <=> tstate[t] = "idle"
  <2>1. tstate[t] # "idle" /\ \A j \in NewRec : log'[j] = r \/ log'[j] = u
    BY Zenon, <1>3, <1>17, <1>18, <1>19
  <2> QED BY Zenon, <1>8, <2>1
<1>22. tstate'[t] # "topop" /\ \A v \in Tran \ {t} : tstate'[v] = tstate[v]
  BY Zenon, <1>1, <1>3
<1>23. PICK type : type = "UNLOCK_COMMIT"
  BY Zenon
<1>24. /\ log'[n].type = type /\ type \in {"DATA", "COMMIT", "ABORT", "UNLOCK_COMMIT"}
       /\ (Len(log) + 1 < n => type = "UNLOCK_COMMIT")
       /\ (type = "DATA" <=> tstate[t] = "idle")
       /\ (type \in {"ABORT", "UNLOCK_COMMIT"} => tstate[t] = "active")
  BY Zenon, <1>3, <1>7, <1>17, <1>23
<1> QED BY Zenon, <1>3, <1>14, <1>16, <1>20, <1>21, <1>22, <1>24, PlainExtends

\* The log is cut behind what was copied; no block of the copied part is cut.
LEMMA PlainCrash ==
  ASSUME Inv, LogShape, PlainInv, MasterCrash
  PROVE  PlainInv'
<1>1. log \in Seq(OwnedRec) /\ eof \in 0 .. Len(log) /\ Len(log) \in Nat
  BY DEF Inv, TypeOK, MasterTypeOK, ReaderInv
<1>2. PICK k \in eof .. Len(log) :
        LET durable == SubSeq(log, 1, k)
            TypesOf(t) == {durable[i].type : i \in {j \in 1 .. k : durable[j].trid = t}}
        IN  /\ log' = durable
            /\ tstate' = [t \in Tran |->
                  IF TypesOf(t) = {} THEN "idle"
                  ELSE IF TypesOf(t) \cap {"COMMIT", "ABORT"} # {} THEN "done"
                  ELSE IF "UNLOCK_COMMIT" \in TypesOf(t) THEN "unlocked"
                  ELSE "active"]
  BY Zenon DEF MasterCrash
<1> DEFINE Types(t) == {log'[i].type : i \in {j \in 1 .. k : log'[j].trid = t}}
<1>3. k \in Nat /\ k <= Len(log) /\ eof <= k
  BY <1>1
<1>4. \A i \in 1 .. k : log[i] \in OwnedRec
  BY <1>1
<1>5. Len(log') = k /\ \A i \in 1 .. k : log'[i] = log[i] /\ i \in 1 .. Len(log)
  BY <1>1, <1>2, <1>3, <1>4, CutAt
<1>6. \A t \in Tran : tstate'[t] = IF Types(t) = {} THEN "idle"
                                    ELSE IF Types(t) \cap EndType # {} THEN "done"
                                    ELSE IF "UNLOCK_COMMIT" \in Types(t) THEN "unlocked"
                                    ELSE "active"
  BY Zenon, <1>2 DEF EndType
<1>7. \A t \in Tran : tstate'[t] # "topop"
  BY Zenon, <1>6
<1>8. \A i \in 1 .. Len(log') : log'[i].type \in PlainType
  BY Zenon, <1>5 DEF PlainInv
<1>9. eof' = eof /\ srv' = "DEAD"
  BY Zenon DEF MasterCrash
<1>10. Blocks(eof)'
  <2>1. PICK e \in Nat : e = eof
    BY <1>1
  <2>2. \A i \in 1 .. e : i \in 1 .. k
    BY <1>3, <2>1
  <2>3. Blocks(e)
    BY Zenon, <2>1 DEF PlainInv
  <2>4. Blocks(e)'
    BY Zenon, <1>5, <2>2, <2>3, BlocksStay
  <2> QED BY Zenon, <1>9, <2>1, <2>4
<1>11. ASSUME NEW i \in 1 .. k PROVE FirstOK(i)' /\ Opened(i, log[i].trid)'
  <2>1. FirstOK(i)
    BY Zenon, <1>5 DEF PlainInv, FirstInv
  <2>2. i \in Nat /\ i <= i /\ (\A j \in 1 .. i : j \in 1 .. k) /\ \A j \in 1 .. i - 1 : j \in 1 .. k
    BY <1>3
  <2>3. PICK r : r = log[i].trid
    BY Zenon
  <2>4. Opened(i, r)'
    BY Zenon, <1>5, <2>1, <2>2, <2>3, OpenedStays DEF FirstOK
  <2>5. Opened(i, log[i].trid)'
    BY Zenon, <1>5, <2>3, <2>4
  <2>6. log'[i] = log[i] /\ \A j \in 1 .. i - 1 : log'[j] = log[j]
    BY Zenon, <1>5, <2>2
  <2> QED BY Zenon, <2>1, <2>5, <2>6 DEF FirstOK
<1>12. FirstInv'
  BY Zenon, <1>5, <1>11 DEF FirstInv
<1>13. BegunInv'
  <2> SUFFICES ASSUME NEW t \in Tran, tstate'[t] # "idle" PROVE Opened(k, t)'
    BY Zenon, <1>5 DEF BegunInv
  <2>1. Types(t) # {}
    BY Zenon, <1>6
  <2>2. PICK i \in 1 .. k : log'[i].trid = t
    BY Zenon, <2>1
  <2>3. Opened(i, t)'
    BY Zenon, <1>11, <2>2
  <2>4. PICK f \in 1 .. i : log'[f].trid = t /\ log'[f].first
    BY Zenon, <2>3 DEF Opened
  <2>5. f \in 1 .. k
    BY <1>3
  <2> QED BY Zenon, <2>4, <2>5 DEF Opened
<1>14. AbortInv'
  BY Zenon, <1>5 DEF PlainInv, AbortInv
<1> QED BY Zenon, <1>7, <1>8, <1>9, <1>10, <1>12, <1>13, <1>14 DEF PlainInv, Live

\* Every step of the master keeps the plain log.
LEMMA PlainMaster ==
  ASSUME Inv, LogShape, PlainInv, PlainNext
  PROVE  PlainInv'
<1>2. tstate \in [Tran -> TranState] /\ srv \in Live
  BY Zenon DEF Inv, TypeOK, MasterTypeOK, PlainInv
<1>3. CASE logpb_flush_all_append_pages
  <2>1. eof' = Len(log) /\ log' = log /\ tstate' = tstate /\ srv' = srv /\ srv # "DEAD"
    BY Zenon, <1>3 DEF logpb_flush_all_append_pages
  <2>2. PICK n : n = Len(log)
    BY Zenon
  <2>3. Blocks(n)'
    <3>1. Blocks(n)
      BY Zenon, <2>1, <2>2 DEF PlainInv
    <3>2. n \in Nat
      BY Zenon, <2>2, ListTypes
    <3> QED BY Zenon, <2>1, <3>1, <3>2, BlocksStay
  <2>4. Blocks(eof)' /\ Blocks(Len(log))'
    BY Zenon, <2>1, <2>2, <2>3
  <2>5. FirstInv' /\ BegunInv' /\ AbortInv'
    <3>1. FirstInv /\ BegunInv /\ AbortInv
      BY Zenon DEF PlainInv
    <3>2. FirstInv'
      BY Zenon, <2>1, <3>1 DEF FirstInv, FirstOK, Opened
    <3>3. BegunInv'
      BY Zenon, <2>1, <3>1 DEF BegunInv, Opened
    <3> QED BY Zenon, <2>1, <3>1, <3>2, <3>3 DEF AbortInv
  <2> QED BY Zenon, <2>1, <2>4, <2>5 DEF PlainInv
<1>4. CASE MasterCrash
  BY Zenon, <1>4, PlainCrash
<1>5. ASSUME NEW t \in Tran,
             \/ log_append_undoredo(t) \/ log_append_repl_info_and_unlock_log(t)
             \/ log_complete_commit(t) \/ log_abort(t)
      PROVE  PlainInv'
  <2>1. srv = "ACTIVE"
    BY Zenon, <1>2, <1>5 DEF log_append_undoredo, log_append_repl_info_and_unlock_log,
                      log_complete_commit, log_abort, Live
  <2>2. CASE log_append_undoredo(t)
    <3>1. /\ log' = Append(log, Rec("DATA", t)) /\ tstate' = [tstate EXCEPT ![t] = "active"]
          /\ eof' = eof /\ srv' = srv /\ tstate[t] = "idle"
      BY Zenon, <2>2 DEF log_append_undoredo
    <3> QED BY Zenon, <2>1, <3>1, PlainAppend
  <2>3. CASE log_append_repl_info_and_unlock_log(t)
    BY Zenon, <2>1, <2>3, PlainUnlock
  <2>4. CASE log_complete_commit(t)
    <3>1. /\ log' = Append(log, Rec("COMMIT", t)) /\ tstate' = [tstate EXCEPT ![t] = "done"]
          /\ eof' = eof /\ srv' = srv /\ tstate[t] = "unlocked"
      BY Zenon, <2>4 DEF log_complete_commit
    <3> QED BY Zenon, <2>1, <3>1, PlainAppend
  <2>5. CASE log_abort(t)
    <3>1. /\ log' = Append(log, Rec("ABORT", t)) /\ tstate' = [tstate EXCEPT ![t] = "done"]
          /\ eof' = eof /\ srv' = srv /\ tstate[t] = "active"
      BY Zenon, <2>5 DEF log_abort
    <3> QED BY Zenon, <2>1, <3>1, PlainAppend
  <2> QED BY Zenon, <1>5, <2>2, <2>3, <2>4, <2>5
<1> QED BY Zenon, <1>3, <1>4, <1>5 DEF PlainNext

-----------------------------------------------------------------------------
(* The copied log gets longer.                                             *)

\* What the log says of items and ends.
ItemsLaw ==
  /\ \A i, t : IsItem(i, t) => i \in Nat /\ 1 < i
  /\ \A q, i, t : IsEnd(q, t) /\ IsItem(i, t) => i < q
  /\ \A q, p, t : IsEnd(q, t) /\ IsUnlock(p, t) => p <= q
  /\ \A p, t : IsUnlock(p, t) => \E f \in Nat : IsFirst(f, t) /\ f < p

\* It follows from the shape of the log.
LEMMA ItemsLawHolds == Inv /\ LogShape /\ PlainInv => ItemsLaw
<1> SUFFICES ASSUME Inv, LogShape, PlainInv PROVE ItemsLaw
  BY Zenon
<1>1. ASSUME NEW i, NEW t, IsItem(i, t) PROVE i \in Nat /\ 1 < i
  BY Zenon, <1>1, ItemHasFirst
<1>2. ASSUME NEW q, NEW i, NEW t, IsEnd(q, t), IsItem(i, t) PROVE i < q
  <2>1. IsRecord(i, t) /\ i \in Nat /\ IsRecord(q, t) /\ q \in Nat
    BY Zenon, <1>2, Records
  <2>2. ~(q < i)
    <3>1. log[i].type \notin EndType
      BY Zenon, <1>2 DEF IsItem, EndType
    <3> QED BY Zenon, <1>2, <2>1, <3>1, UnlockOnce
  <2>3. q # i
    BY Zenon, <1>2 DEF IsEnd, IsItem
  <2> QED BY <2>1, <2>2, <2>3
<1>3. ASSUME NEW q, NEW p, NEW t, IsEnd(q, t), IsUnlock(p, t) PROVE p <= q
  <2>1. IsRecord(p, t) /\ p \in Nat /\ IsRecord(q, t) /\ q \in Nat
    BY Zenon, <1>3, Records
  <2>2. ~(q < p)
    <3>1. log[p].type \notin EndType
      BY Zenon, <1>3 DEF IsUnlock, EndType
    <3> QED BY Zenon, <1>3, <2>1, <3>1, UnlockOnce
  <2> QED BY <2>1, <2>2
<1>4. ASSUME NEW p, NEW t, IsUnlock(p, t) PROVE \E f \in Nat : IsFirst(f, t) /\ f < p
  <2>1. IsRecord(p, t) /\ p \in Nat
    BY Zenon, <1>4, Records
  <2>2. PICK f \in Nat : IsFirst(f, t) /\ f <= p
    BY Zenon, <2>1, HasFirst
  <2>3. log[f].type = "DATA"
    BY Zenon, <2>2, FirstAlone
  <2>4. f # p
    BY Zenon, <1>4, <2>3 DEF IsUnlock
  <2>5. f < p
    BY <2>1, <2>2, <2>4
  <2> QED BY Zenon, <2>2, <2>5
<1> QED BY Zenon, <1>1, <1>2, <1>3, <1>4 DEF ItemsLaw

\* The copied log gets longer.
LogGrows ==
  /\ eof \in Nat /\ eof' \in Nat /\ eof <= eof'
  /\ \A i \in 1 .. eof : log'[i] = log[i]
  /\ ItemsLaw'

\* What the log says up to the old end stays.
OldRecords ==
  \A i, t :
    /\ IsItem(i, t) => IsItem(i, t)' /\ i \in Nat /\ i <= eof
    /\ IsUnlock(i, t) => IsUnlock(i, t)'
    /\ IsEnd(i, t) => IsEnd(i, t)' /\ i \in Nat /\ i <= eof
    /\ IsCommit(i, t) => IsCommit(i, t)'
    /\ IsFirst(i, t) => IsFirst(i, t)'
    /\ i \in Nat /\ i <= eof =>
         /\ IsItem(i, t)' => IsItem(i, t)
         /\ IsUnlock(i, t)' => IsUnlock(i, t)
         /\ IsFirst(i, t)' => IsFirst(i, t)

\* The records that were copied before are the same.
LEMMA OldStay ==
  ASSUME LogGrows
  PROVE  OldRecords
<1>0. PICK l, l1 : l = log /\ l1 = log'
  BY Zenon
<1>1. PICK e \in Nat, e1 \in Nat : /\ e = eof /\ e1 = eof' /\ l = log /\ l1 = log' /\ e <= e1
                                   /\ \A i \in 1 .. e : l1[i] = l[i]
  BY Zenon, <1>0 DEF LogGrows
<1> SUFFICES ASSUME NEW i, NEW t
             PROVE  /\ IsItem(i, t) => IsItem(i, t)' /\ i \in Nat /\ i <= eof
                    /\ IsUnlock(i, t) => IsUnlock(i, t)'
                    /\ IsEnd(i, t) => IsEnd(i, t)' /\ i \in Nat /\ i <= eof
                    /\ IsCommit(i, t) => IsCommit(i, t)'
                    /\ IsFirst(i, t) => IsFirst(i, t)'
                    /\ i \in Nat /\ i <= eof =>
                         /\ IsItem(i, t)' => IsItem(i, t)
                         /\ IsUnlock(i, t)' => IsUnlock(i, t)
                         /\ IsFirst(i, t)' => IsFirst(i, t)
  BY Zenon DEF OldRecords
<1>2. i \in 1 .. e => i \in 1 .. e1 /\ l1[i] = l[i] /\ i \in Nat /\ i <= e
  BY <1>1
<1>3. i \in Nat /\ i <= e /\ i \in 1 .. e1 => i \in 1 .. e
  BY <1>1
<1> QED BY Zenon, <1>1, <1>2, <1>3 DEF IsItem, IsUnlock, IsEnd, IsCommit, IsFirst

\* A transaction that is over gets no more records that count.
LEMMA OverStays ==
  ASSUME LogGrows
  PROVE  \A t, r, J : Over(t, r, J) => Over(t, r, J)'
<1> SUFFICES ASSUME NEW t, NEW r, NEW J, Over(t, r, J)
             PROVE  Over(t, r, J)'
  BY Zenon
<1>1. PICK q \in Nat : IsEnd(q, t)
  BY Zenon DEF Over
<1>2. OldRecords
  BY Zenon, OldStay
<1>3. IsEnd(q, t)' /\ q <= eof
  BY Zenon, <1>1, <1>2 DEF OldRecords
<1>4. ASSUME NEW i \in Nat, IsItem(i, t)' PROVE Done(i, r, J)
  <2>1. i < q
    BY Zenon, <1>3, <1>4 DEF LogGrows, ItemsLaw
  <2>2. eof \in Nat
    BY Zenon DEF LogGrows
  <2>3. i <= eof
    BY <1>3, <2>1, <2>2
  <2>4. IsItem(i, t)
    BY Zenon, <1>2, <1>4, <2>3 DEF OldRecords
  <2> QED BY Zenon, <2>4 DEF Over, AllDone
<1>5. \A i \in Nat : Done(i, r, J) => Done(i, r, J)'
  BY Zenon DEF Done
<1> QED BY Zenon, <1>1, <1>3, <1>4, <1>5 DEF Over, AllDone

\* The sequence of the applied items.
LEMMA SeqStays ==
  ASSUME LogGrows, NEW s, NEW r \in Nat, NEW J, SeqInv(s, r, J)
  PROVE  SeqInv(s, r, J)'
<1>1. OldRecords
  BY Zenon, OldStay
<1>2. PICK e \in Nat, e1 \in Nat : e = eof /\ e1 = eof' /\ e <= e1
  BY Zenon DEF LogGrows
<1>3. r <= 1 \/ r <= e1
  BY <1>2 DEF SeqInv
<1>4. ASSUME NEW i \in Nat, NEW t \in Tran, IsItem(i, t)', i <= r
      PROVE  i \in J \/ In(s, i)
  <2>1. 1 < i
    BY Zenon, <1>4 DEF LogGrows, ItemsLaw
  <2>2. i <= e
    BY <1>2, <1>4, <2>1 DEF SeqInv
  <2>3. IsItem(i, t)
    BY Zenon, <1>1, <1>2, <1>4, <2>2 DEF OldRecords
  <2> QED BY Zenon, <1>4, <2>3 DEF SeqInv
<1>5. ASSUME NEW k \in DOMAIN s
      PROVE  s[k] <= r /\ \E t \in Tran : IsItem(s[k], t)' /\ \E c \in Nat : IsCommit(c, t)'
  BY Zenon, <1>1 DEF SeqInv, OldRecords
<1>6. \A j, k \in DOMAIN s : j < k => s[j] < s[k]
  BY Zenon DEF SeqInv
<1>7. \A i : In(s, i) <=> In(s, i)'
  BY Zenon DEF In
<1> QED BY Zenon, <1>2, <1>3, <1>4, <1>5, <1>6, <1>7 DEF SeqInv

\* What is claimed and what is over.
LEMMA ClaimStays ==
  ASSUME LogGrows, NEW r, NEW J, NEW lsa \in Nat, ClaimInv(lsa, r, J),
         lsa <= eof \/ (lsa <= eof + 1 /\ OverBefore(lsa, r, J))
  PROVE  ClaimInv(lsa, r, J)'
<1>1. OldRecords
  BY Zenon, OldStay
<1>2. PICK e \in Nat : e = eof
  BY Zenon DEF LogGrows
<1> SUFFICES ASSUME NEW p \in Nat, NEW t \in Tran, IsUnlock(p, t)', p <= lsa
             PROVE  AllDone(t, r, J)'
  BY Zenon DEF ClaimInv
<1>3. CASE p <= e
  <2>1. IsUnlock(p, t)
    BY Zenon, <1>1, <1>2, <1>3 DEF OldRecords
  <2>2. AllDone(t, r, J) /\ IsEnd(p, t)
    BY Zenon, <2>1 DEF ClaimInv, IsUnlock, IsEnd
  <2> QED BY Zenon, <2>2, OverStays DEF Over
<1>4. CASE ~(p <= e)
  <2>1. OverBefore(lsa, r, J) /\ p = e + 1 /\ lsa = e + 1
    BY <1>2, <1>4
  <2>2. PICK f \in Nat : IsFirst(f, t)' /\ f < p
    BY Zenon DEF LogGrows, ItemsLaw
  <2>3. f <= e /\ f < lsa
    BY <2>1, <2>2
  <2>4. IsFirst(f, t)
    BY Zenon, <1>1, <1>2, <2>2, <2>3 DEF OldRecords
  <2>5. Over(t, r, J)
    BY Zenon, <2>1, <2>3, <2>4 DEF OverBefore
  <2>6. PICK q \in Nat : IsEnd(q, t)
    BY Zenon, <2>5 DEF Over
  <2>7. IsEnd(q, t)' /\ q <= e
    BY Zenon, <1>1, <1>2, <2>6 DEF OldRecords
  <2>8. p <= q
    BY Zenon, <2>7 DEF LogGrows, ItemsLaw
  <2> QED BY <1>4, <2>7, <2>8
<1> QED BY Zenon, <1>3, <1>4

\* Transactions that are over before an address.
LEMMA BeforeStays ==
  ASSUME LogGrows, NEW r, NEW J, NEW lsa \in Nat, lsa <= eof + 1, OverBefore(lsa, r, J)
  PROVE  OverBefore(lsa, r, J)'
<1>1. OldRecords
  BY Zenon, OldStay
<1>2. PICK e \in Nat : e = eof
  BY Zenon DEF LogGrows
<1> SUFFICES ASSUME NEW f \in Nat, NEW t \in Tran, IsFirst(f, t)', f < lsa
             PROVE  Over(t, r, J)'
  BY Zenon DEF OverBefore
<1>3. f <= e
  BY <1>2
<1>4. IsFirst(f, t)
  BY Zenon, <1>1, <1>2, <1>3 DEF OldRecords
<1> QED BY Zenon, <1>4, OverStays DEF OverBefore

\* The open lists and the commit list are about what is read.
LEMMA OpenStays ==
  ASSUME LogGrows, NEW lists, NEW R \in Nat, R <= eof + 1, NEW r, NEW J, OpenInv(lists, R, r, J)
  PROVE  OpenInv(lists, R, r, J)'
<1>1. OldRecords
  BY Zenon, OldStay
<1>2. PICK e \in Nat : e = eof
  BY Zenon DEF LogGrows
<1>3. \A i \in Nat : i < R => i <= e
  BY <1>2
<1> SUFFICES ASSUME NEW t \in Tran
             PROVE  /\ lists[t].used => IsFirst(lists[t].start_lsa, t)' /\ lists[t].start_lsa < R
                    /\ ~lists[t].used => \A f \in Nat : IsFirst(f, t)' /\ f < R => Over(t, r, J)'
  BY Zenon DEF OpenInv
<1>4. PICK a : a = lists[t].start_lsa
  BY Zenon
<1>5. lists[t].used => IsFirst(a, t)' /\ a < R
  BY Zenon, <1>1, <1>4 DEF OpenInv, OldRecords
<1>6. ASSUME ~lists[t].used, NEW f \in Nat, IsFirst(f, t)', f < R PROVE Over(t, r, J)'
  <2>1. IsFirst(f, t)
    BY Zenon, <1>1, <1>2, <1>3, <1>6 DEF OldRecords
  <2> QED BY Zenon, <1>6, <2>1, OverStays DEF OpenInv
<1> QED BY Zenon, <1>4, <1>5, <1>6

\* The entries for the UNLOCK_COMMITs.
LEMMA QueueStays ==
  ASSUME LogGrows, NEW lists, NEW list, NEW R \in Nat, R <= eof + 1, QueueInv(lists, list, R)
  PROVE  QueueInv(lists, list, R)'
<1>1. OldRecords
  BY Zenon, OldStay
<1>2. PICK e \in Nat : e = eof
  BY Zenon DEF LogGrows
<1>3. \A i \in Nat : i < R => i <= e
  BY <1>2
<1> QED BY Zenon, <1>1, <1>2, <1>3 DEF QueueInv, OldRecords

\* The types of the entries.
LEMMA TypesStay ==
  ASSUME LogGrows, NEW list, \A c \in list : c.log_lsa \in 1 .. eof, TypesInv(list)
  PROVE  TypesInv(list)'
<1> SUFFICES ASSUME NEW c \in list
             PROVE  /\ c.type # "COMMIT_TOPOPE"
                    /\ c.type = "ABORT" => log'[c.log_lsa].type = "ABORT"
                    /\ c.type = "COMMIT" => \E q \in Nat : IsCommit(q, c.tranid)'
  BY Zenon DEF TypesInv
<1>1. log'[c.log_lsa] = log[c.log_lsa]
  BY Zenon DEF LogGrows
<1>2. OldRecords
  BY Zenon, OldStay
<1> QED BY Zenon, <1>1, <1>2 DEF TypesInv, OldRecords

\* The items that the lists hold.
LEMMA HeldStays ==
  ASSUME LogGrows, NEW lists, NEW X, NEW R \in Nat, R <= eof + 1, NEW r, NEW R0, NEW J,
         HeldInv(lists, X, R, r, R0, J)
  PROVE  HeldInv(lists, X, R, r, R0, J)'
<1>1. OldRecords
  BY Zenon, OldStay
<1>2. PICK e \in Nat : e = eof
  BY Zenon DEF LogGrows
<1>3. \A i \in Nat : \A t : i < R /\ IsItem(i, t)' => IsItem(i, t)
  <2>1. \A i \in Nat : i < R => i <= e
    BY <1>2
  <2> QED BY Zenon, <1>1, <1>2, <2>1 DEF OldRecords
<1>4. ASSUME NEW t, NEW a, Held(a, t, R, r, R0, J) PROVE Held(a, t, R, r, R0, J)'
  <2>1. (a.is_long_trans => a.items # {}) /\ \A k \in a.items : k < R
    BY Zenon, <1>4 DEF Held
  <2>2. \A i \in Nat : IsItem(i, t)' /\ i < R =>
          /\ Done(i, r, J) \/ (Reach(a, i) /\ \E k \in a.items : k <= i)
          /\ i <= R0 \/ r < i
    BY Zenon, <1>3, <1>4 DEF Held
  <2> QED BY Zenon, <2>1, <2>2 DEF Held, Done, Reach
<1> SUFFICES ASSUME NEW t \in Tran \ X, lists[t].used PROVE Held(lists[t], t, R, r, R0, J)'
  BY Zenon DEF HeldInv
<1>5. PICK a : a = lists[t]
  BY Zenon
<1>6. Held(a, t, R, r, R0, J)
  BY Zenon, <1>5 DEF HeldInv
<1> QED BY Zenon, <1>4, <1>5, <1>6

\* The item that the loop is at.
LEMMA LoopStays ==
  ASSUME LogGrows, NEW lists, NEW h, NEW it, NEW R \in Nat, R <= eof + 1, NEW r, NEW R0, NEW J,
         LoopHeld(lists, h, it, R, r, R0, J)
  PROVE  LoopHeld(lists, h, it, R, r, R0, J)'
<1>1. OldRecords
  BY Zenon, OldStay
<1>2. PICK e \in Nat : e = eof
  BY Zenon DEF LogGrows
<1>3. \A i \in Nat : \A t : i < R /\ IsItem(i, t)' => IsItem(i, t)
  <2>1. \A i \in Nat : i < R => i <= e
    BY <1>2
  <2> QED BY Zenon, <1>1, <1>2, <2>1 DEF OldRecords
<1>4. PICK a, t : a = lists[h.tranid] /\ t = h.tranid
  BY Zenon
<1>5. a.used /\ h.type = "COMMIT" /\ IsItem(it, t) /\ HeldFrom(a, t, it, R, r, R0, J)
  BY Zenon, <1>4 DEF LoopHeld
<1>6. IsItem(it, t)'
  BY Zenon, <1>1, <1>5 DEF OldRecords
<1>7. \A i \in Nat : IsItem(i, t)' /\ i < R =>
        /\ i = it \/ Done(i, r, J) \/ (it < i /\ Reach(a, i))
        /\ i <= R0 \/ r < i \/ i < it
  BY Zenon, <1>3, <1>5 DEF HeldFrom
<1>8. HeldFrom(a, t, it, R, r, R0, J)'
  BY Zenon, <1>7 DEF HeldFrom, Done, Reach
<1> QED BY Zenon, <1>4, <1>5, <1>6, <1>8 DEF LoopHeld

\* The row, when the log gets longer.
LEMMA RowStays ==
  ASSUME Inv, CInv, LogGrows, RowInv, UNCHANGED applierVars
  PROVE  RowInv'
<1>0. /\ row.committed_rep_lsa \in Nat /\ row.committed_lsa \in Nat /\ row.required_lsa \in Nat
      /\ eof \in Nat /\ eof' \in Nat /\ eof <= eof'
  BY Zenon, NTypes DEF LogGrows
<1>s. PICK s, J : s = slave /\ J = rejected
  BY Zenon
<1>1. PICK r \in Nat, c \in Nat, q \in Nat, e \in Nat, e1 \in Nat :
        /\ r = row.committed_rep_lsa /\ c = row.committed_lsa
        /\ q = row.required_lsa /\ e = eof /\ e1 = eof' /\ e <= e1
  BY Zenon, <1>0
<1>2. /\ s = slave' /\ r = row'.committed_rep_lsa /\ J = rejected'
      /\ c = row'.committed_lsa /\ q = row'.required_lsa
  BY Zenon, <1>1, <1>s DEF applierVars
<1>3. SeqInv(s, r, J) /\ OverBefore(q, r, J) /\ ClaimInv(c, r, J) /\ (c <= e \/ c <= q)
  BY Zenon, <1>1, <1>s DEF RowInv
<1>4. q <= eof + 1
  BY Zenon, <1>1, <1>s DEF CInv, ListInv, PosInv
<1>5. c <= eof \/ (c <= eof + 1 /\ OverBefore(c, r, J))
  <2>1. c <= e \/ (c <= e + 1 /\ c <= q)
    BY <1>1, <1>3, <1>4
  <2>2. c <= q => \A f \in Nat : f < c => f < q
    OBVIOUS
  <2>3. c <= q => OverBefore(c, r, J)
    BY Zenon, <1>3, <2>2 DEF OverBefore
  <2> QED BY Zenon, <1>1, <2>1, <2>3
<1>6. SeqInv(s, r, J)' /\ OverBefore(q, r, J)' /\ ClaimInv(c, r, J)'
  BY Zenon, <1>3, <1>4, <1>5, SeqStays, BeforeStays, ClaimStays
<1>7. c <= e1 \/ c <= q
  BY <1>1, <1>3
<1>8. /\ SeqInv(slave, row.committed_rep_lsa, rejected)'
      /\ OverBefore(row.required_lsa, row.committed_rep_lsa, rejected)'
      /\ ClaimInv(row.committed_lsa, row.committed_rep_lsa, rejected)'
  BY Zenon, <1>2, <1>6
<1>9. row'.committed_lsa <= eof' \/ row'.committed_lsa <= row'.required_lsa
  BY Zenon, <1>1, <1>2, <1>7
<1> QED BY Zenon, <1>8, <1>9 DEF RowInv

\* The process that is up, when the log gets longer.
LEMMA UpStays ==
  ASSUME Inv, CInv, LogGrows, UpInv, UNCHANGED applierVars
  PROVE  UpInv'
<1>0. /\ committed_lsa \in Nat /\ committed_rep_lsa \in Nat /\ last_committed_lsa \in Nat
      /\ last_committed_rep_lsa \in Nat /\ ReadTo \in Nat /\ eof \in Nat /\ eof' \in Nat
      /\ eof <= eof' /\ ReadTo <= eof + 1
  BY Zenon, NTypes DEF LogGrows, CInv, ListInv, PosInv
<1>1. PICK C \in Nat, r \in Nat, C0 \in Nat, R0 \in Nat, R \in Nat, e \in Nat, e1 \in Nat :
        /\ C = committed_lsa /\ r = committed_rep_lsa /\ C0 = last_committed_lsa
        /\ R0 = last_committed_rep_lsa /\ R = ReadTo /\ e = eof /\ e1 = eof' /\ e <= e1
  BY Zenon, <1>0
<1>2. PICK L, Q, J, s, X, h, it : /\ L = repl_lists /\ Q = commit_list /\ J = rejected
        /\ s = Applied /\ X = LoopTran /\ h = Commit /\ it = item
  BY Zenon
<1>3. /\ C = committed_lsa' /\ r = committed_rep_lsa' /\ C0 = last_committed_lsa'
      /\ R0 = last_committed_rep_lsa' /\ R = ReadTo' /\ L = repl_lists' /\ Q = commit_list'
      /\ J = rejected' /\ s = Applied' /\ h = Commit' /\ it = item'
      /\ row' = row /\ pc' = pc /\ X = LoopTran' /\ (InLoop' <=> InLoop)
  <2>1. /\ final_lsa' = final_lsa /\ pc' = pc /\ slave' = slave /\ pending' = pending
        /\ commit_list' = commit_list /\ row' = row /\ repl_lists' = repl_lists
        /\ committed_lsa' = committed_lsa /\ committed_rep_lsa' = committed_rep_lsa
        /\ last_committed_lsa' = last_committed_lsa /\ rejected' = rejected /\ item' = item
        /\ last_committed_rep_lsa' = last_committed_rep_lsa
    BY Zenon DEF applierVars
  <2>2. ReadTo' = ReadTo /\ Applied' = Applied /\ (InLoop' <=> InLoop)
    BY Zenon, <2>1 DEF ReadTo, Applying, Applied, InLoop
  <2>3. Commit' = Commit
    BY Zenon, <2>1 DEF Commit
  <2>4. LoopTran' = LoopTran
    BY Zenon, <2>2, <2>3 DEF LoopTran
  <2> QED BY Zenon, <1>1, <1>2, <2>1, <2>2, <2>3, <2>4
<1>4. /\ SeqInv(s, r, J) /\ ClaimInv(C, r, J) /\ ClaimInv(C0, r, J) /\ OpenInv(L, R, r, J)
      /\ QueueInv(L, Q, R) /\ TypesInv(Q) /\ HeldInv(L, X, R, r, R0, J)
      /\ InLoop => LoopHeld(L, h, it, R, r, R0, J) /\ (pc = "put" => R0 < it)
  BY Zenon, <1>1, <1>2 DEF UpInv, LoopPlace
<1>5. /\ R0 <= r /\ (r = R0 \/ r < R) /\ C <= R /\ (C < R \/ \A t \in Tran : ~L[t].used)
      /\ (\A c \in Q : C <= c.log_lsa) /\ (C0 <= e \/ C0 <= C)
      /\ (row.committed_lsa <= C \/ row.committed_lsa <= C0)
  BY Zenon, <1>1, <1>2 DEF UpInv, PlaceInv
<1>6. R <= eof + 1 /\ R <= e + 1
  BY Zenon, <1>0, <1>1
<1>7. SeqInv(s, r, J)' /\ OpenInv(L, R, r, J)' /\ QueueInv(L, Q, R)' /\ HeldInv(L, X, R, r, R0, J)'
  BY Zenon, <1>4, <1>6, SeqStays, OpenStays, QueueStays, HeldStays
<1>8. TypesInv(Q)'
  <2>1. \A c \in Q : c.log_lsa \in 1 .. eof
    BY Zenon, <1>2 DEF CInv, ListInv, EntriesOK, IsEntry
  <2> QED BY Zenon, <1>4, <2>1, TypesStay
<1>9. ClaimInv(C, r, J)' /\ ClaimInv(C0, r, J)'
  <2>1. (\A t \in Tran : ~L[t].used) => OverBefore(R, r, J)
    BY Zenon, <1>4 DEF OpenInv, OverBefore
  <2>2. C <= e \/ (C = R /\ C <= e + 1 /\ OverBefore(R, r, J))
    BY <1>5, <1>6, <2>1
  <2>3. C <= eof \/ (C <= eof + 1 /\ OverBefore(C, r, J))
    BY Zenon, <1>1, <2>2
  <2>4. C0 <= e \/ C0 = C
    BY <1>5, <1>6
  <2>5. C0 <= eof \/ (C0 <= eof + 1 /\ OverBefore(C0, r, J))
    BY Zenon, <1>1, <2>3, <2>4
  <2> QED BY Zenon, <1>4, <2>3, <2>5, ClaimStays
<1>10. InLoop' => LoopHeld(L, h, it, R, r, R0, J)' /\ (pc' = "put" => R0 < it)
  <2>1. ASSUME InLoop PROVE LoopHeld(L, h, it, R, r, R0, J)'
    <3>1. LoopHeld(L, h, it, R, r, R0, J)
      BY Zenon, <1>4, <2>1
    <3> QED BY Zenon, <1>6, <3>1, LoopStays
  <2> QED BY Zenon, <1>3, <1>4, <2>1
<1>11. PlaceInv'
  <2>1. C0 <= e1 \/ C0 <= C
    BY <1>1, <1>5
  <2> QED BY Zenon, <1>1, <1>3, <1>5, <2>1 DEF PlaceInv
<1>12. SeqInv(Applied, committed_rep_lsa, rejected)'
  BY Zenon, <1>3, <1>7
<1>13. /\ ClaimInv(committed_lsa, committed_rep_lsa, rejected)'
       /\ ClaimInv(last_committed_lsa, committed_rep_lsa, rejected)'
  BY Zenon, <1>3, <1>9
<1>14. /\ OpenInv(repl_lists, ReadTo, committed_rep_lsa, rejected)'
       /\ QueueInv(repl_lists, commit_list, ReadTo)' /\ TypesInv(commit_list)'
  BY Zenon, <1>3, <1>7, <1>8
<1>15. HeldInv(repl_lists, LoopTran, ReadTo, committed_rep_lsa, last_committed_rep_lsa, rejected)'
  BY Zenon, <1>3, <1>7
<1>16. LoopPlace'
  <2>1. ASSUME InLoop'
        PROVE  /\ LoopHeld(repl_lists, Commit, item, ReadTo, committed_rep_lsa,
                           last_committed_rep_lsa, rejected)'
               /\ pc' = "put" => last_committed_rep_lsa' < item'
    BY Zenon, <1>3, <1>10, <2>1
  <2> QED BY Zenon, <2>1 DEF LoopPlace
<1> QED BY Zenon, <1>11, <1>12, <1>13, <1>14, <1>15, <1>16 DEF UpInv

\* The law holds after the step too.
LEMMA ItemsLawNext == Inv' /\ LogShape' /\ PlainInv' => ItemsLaw'
BY ItemsLawHolds, PTL
=============================================================================
